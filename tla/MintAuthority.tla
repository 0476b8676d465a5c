--------------------------- MODULE MintAuthority ---------------------------
(***************************************************************************)
(* DeltaVerifier.sol: the contract that turns an attested model evaluation *)
(* into reward tokens.  submitMintRequest is gated by attester signatures, *)
(* by the model-weight lineage, by a per-model budget and by an            *)
(* idempotency key; the older submitEvaluation* entrypoints bypass all     *)
(* four until disableLegacyMints.  What DeltaVerifier reads and writes in  *)
(* ModelRegistry, TokenManager, HokusaiToken and HokusaiParams is part of  *)
(* the state.  A transaction is one atomic step; one that reverts changes  *)
(* nothing, so it is no step at all.                                       *)
(***************************************************************************)
EXTENDS Integers, Sequences, FiniteSets

CONSTANTS
  Models,           \* model ids
  Keys,             \* idempotency keys (all non-zero)
  Commitments,      \* non-zero model-weight commitments
  NoCommitment,     \* bytes32(0)
  Accounts,         \* non-zero addresses, ordered as integers
  Requests,         \* the (payload, contributors) pairs that circulate
  SignedBy,         \* SignedBy[r]: the accounts that have signed r's digest
  Capped,           \* models whose HokusaiToken has a supply cap
  CapMultiplier,    \* HokusaiToken.REWARD_CAP_MULTIPLIER
  RateLimit,        \* DeltaVerifier.RATE_LIMIT_DURATION
  Contributors,     \* wallets named by legacy evaluations
  LegacyDeltas,     \* improvements (bps) reported by legacy evaluations
  LegacyWeights,    \* contributor weights (bps) in legacy evaluations
  BudgetAmounts, Rates, MinImprovements, MaxRewards,   \* admin inputs
  MaxSigs,          \* bound: signatures carried by one submission
  MaxTime,          \* bound: clock
  MaxGovOps         \* bound: governance transactions

\* A request is what an attester signs: payload.anchors.idempotencyKey, the
\* model, the lineage edge, the two scores, the two costs and the deadline;
\* wellFormed stands for the checks that read nothing but the calldata (the
\* pipeline and metric names, the scores' range, contributors that are
\* distinct, non-zero and weigh 10000 bps together).
RequestType ==
  [key : Keys, model : Models, baseline : Commitments,
   candidate : Commitments \union {NoCommitment},
   baselineScore : Nat, candidateScore : Nat,
   maxCost : Nat, actualCost : Nat, deadline : Nat, wellFormed : BOOLEAN]

ASSUME ConstantTypes ==
  /\ NoCommitment \notin Commitments
  /\ Accounts \subseteq Nat \ {0}
  /\ Requests \subseteq RequestType
  /\ SignedBy \in [Requests -> SUBSET Accounts]
  /\ Capped \subseteq Models
  /\ CapMultiplier \in Nat /\ RateLimit \in Nat
  /\ LegacyDeltas \subseteq Nat /\ LegacyWeights \subseteq Nat
  /\ BudgetAmounts \subseteq Nat /\ MaxRewards \subseteq Nat
  /\ Rates \subseteq Nat \ {0} /\ MinImprovements \subseteq Nat \ {0}
  /\ MaxSigs \in Nat /\ MaxTime \in Nat /\ MaxGovOps \in Nat

VARIABLES
  paused, legacyMintsDisabled,
  isAttester,             \* set of registered attesters
  attesterCount, attesterThreshold,
  mintBudgetRemaining,    \* [Models -> Nat]
  modelWeightHead,        \* [Models -> commitment], NoCommitment until a mint
  processedIdempotencyKeys,
  minImprovementBps, maxReward,
  lastSubmissionTime,     \* [Contributors -> Nat]
  status,                 \* ModelRegistry: unregistered / active / inactive
  weightGenesis,          \* ModelRegistry: [Models -> commitment]
  tokenLink,              \* TokenManager's token against ModelRegistry's
  tokensPerDeltaOne,      \* HokusaiParams: [Models -> Nat]
  rewardMinted,           \* HokusaiToken: reward tokens ever minted
  now,                    \* block.timestamp
  govOps,                 \* governance transactions so far
  \* The event logs, which off-chain consumers rebuild state from.
  lineageLog,             \* ModelLineageAdvanced, ModelLineageHeadReset
  resolutions,            \* DeltaOneAccepted, BudgetConstraintViolated
  \* History: what governance has ever allowed, what legacy paths minted.
  granted, legacyMinted

governance == <<isAttester, attesterCount, attesterThreshold, paused,
                legacyMintsDisabled, minImprovementBps, maxReward>>
registry   == <<status, weightGenesis, tokenLink, tokensPerDeltaOne>>
ledger     == <<mintBudgetRemaining, modelWeightHead,
                processedIdempotencyKeys, lineageLog, resolutions, granted>>
legacy     == <<lastSubmissionTime, legacyMinted>>
vars == <<governance, registry, ledger, legacy, rewardMinted, now, govOps>>

Heads == Commitments \union {NoCommitment}
EdgeType == [kind : {"advanced", "reset"}, parent : Heads, child : Commitments]
ResolutionType ==
  [req : Requests, outcome : {"minted", "no_delta", "budget_blocked"},
   parent : Heads, reward : Nat]

\* ModelRegistry, TokenManager and the token are deployed and configured
\* before DeltaVerifier, so their state at its deployment is arbitrary.
Init ==
  /\ paused = FALSE /\ legacyMintsDisabled = FALSE
  /\ isAttester = {} /\ attesterCount = 0 /\ attesterThreshold = 0
  /\ mintBudgetRemaining = [m \in Models |-> 0]
  /\ modelWeightHead = [m \in Models |-> NoCommitment]
  /\ processedIdempotencyKeys = {}
  /\ minImprovementBps \in MinImprovements /\ maxReward \in MaxRewards
  /\ lastSubmissionTime = [c \in Contributors |-> 0]
  /\ status \in [Models -> {"unregistered", "active"}]
  /\ weightGenesis = [m \in Models |-> NoCommitment]
  /\ tokenLink = [m \in Models |-> "none"]
  /\ tokensPerDeltaOne \in [Models -> Rates]
  /\ rewardMinted = [m \in Models |-> 0]
  /\ now = RateLimit /\ govOps = 0
  /\ lineageLog = [m \in Models |-> <<>>]
  /\ resolutions = <<>>
  /\ granted = [m \in Models |-> 0]
  /\ legacyMinted = [m \in Models |-> 0]

-----------------------------------------------------------------------------
(* What the contract computes from its state.                              *)

\* Mutant: the genesis shadows the advanced head.
GenesisFirst(m) ==
  IF weightGenesis[m] # NoCommitment THEN weightGenesis[m]
                                     ELSE modelWeightHead[m]

\* currentModelHead: the registry's genesis until the first paying mint.
CurrentHead(m) ==
  IF modelWeightHead[m] = NoCommitment THEN weightGenesis[m]
                                       ELSE modelWeightHead[m]

Improvement(baseline, candidate) ==
  IF candidate <= baseline THEN 0 ELSE candidate - baseline

\* calculateRewardDynamic: bps of improvement times tokens per percent times
\* weight, floored, cut at maxReward and zero below the minimum improvement.
RewardFor(m, delta, weight) ==
  LET exact == (delta * tokensPerDeltaOne[m] * weight) \div 1000000
  IN  IF delta < minImprovementBps THEN 0
      ELSE IF exact > maxReward THEN maxReward ELSE exact

\* _isBudgetConstraintViolated: a zero on either side switches it off.
CostViolated(max, actual) == max # 0 /\ actual # 0 /\ actual > max

\* Mutant: the signatures' order, and so their distinctness, is not checked.
AttestedInAnyOrder(r, sigs) ==
  /\ attesterThreshold # 0
  /\ Len(sigs) >= attesterThreshold
  /\ \A i \in DOMAIN sigs : sigs[i] \in isAttester \intersect SignedBy[r]

\* _verifyAttestation: enough signatures, each by a registered attester over
\* this very request, in strictly ascending order of signer.
Attested(r, sigs) ==
  /\ attesterThreshold # 0
  /\ Len(sigs) >= attesterThreshold
  /\ \A i \in DOMAIN sigs : sigs[i] \in isAttester \intersect SignedBy[r]
  /\ \A i \in DOMAIN sigs : i > 1 => sigs[i] > sigs[i-1]

\* Mutant: isRegistered where the code asks isActive.
ModelKnown(m) == status[m] # "unregistered" /\ tokenLink[m] # "mismatch"

\* The registry's and the canonical-token checks shared by every entrypoint.
ModelOpen(m) == status[m] = "active" /\ tokenLink[m] # "mismatch"

\* TokenManager.mintReward / batchMintReward and HokusaiToken.mintReward
\* accept these tokens; otherwise the whole transaction reverts.
Mintable(m, amount) ==
  /\ tokenLink[m] = "match"
  /\ m \in Capped =>
       rewardMinted[m] + amount <= CapMultiplier * tokensPerDeltaOne[m]

Mint(m, amount) ==
  rewardMinted' = [rewardMinted EXCEPT ![m] = @ + amount]

-----------------------------------------------------------------------------
(* submitMintRequest.  Everything up to the commit point is AcceptRequest; *)
(* then one of three outcomes burns the key.                               *)

RequestReward(r) ==
  RewardFor(r.model, Improvement(r.baselineScore, r.candidateScore), 10000)

\* Mutant: any well-formed edge is taken, from the current head or not.
AnyEdge(r) == CurrentHead(r.model) # NoCommitment /\ r.candidate # NoCommitment

\* The model's root is set and the request is an edge from its head.
ExtendsHead(r) ==
  /\ CurrentHead(r.model) # NoCommitment
  /\ r.candidate # NoCommitment
  /\ r.baseline = CurrentHead(r.model)

AcceptRequest(r, sigs) ==
  /\ ~paused
  /\ ModelOpen(r.model)
  /\ r.key \notin processedIdempotencyKeys
  /\ r.wellFormed
  /\ now <= r.deadline
  /\ Attested(r, sigs)
  /\ ExtendsHead(r)

\* Mutant: only a paying outcome burns the key.
ResolvePaidOnly(r, outcome, reward) ==
  /\ processedIdempotencyKeys' = IF outcome = "minted"
       THEN processedIdempotencyKeys \union {r.key} ELSE processedIdempotencyKeys
  /\ resolutions' = Append(resolutions,
       [req |-> r, outcome |-> outcome,
        parent |-> CurrentHead(r.model), reward |-> reward])

\* The key is burnt and the resolution logged.
Resolve(r, outcome, reward) ==
  /\ processedIdempotencyKeys' = processedIdempotencyKeys \union {r.key}
  /\ resolutions' = Append(resolutions,
       [req |-> r, outcome |-> outcome,
        parent |-> CurrentHead(r.model), reward |-> reward])

RejectOnCost(r, sigs) ==
  /\ AcceptRequest(r, sigs)
  /\ CostViolated(r.maxCost, r.actualCost)
  /\ Resolve(r, "budget_blocked", 0)
  /\ UNCHANGED <<governance, registry, legacy, mintBudgetRemaining,
                 modelWeightHead, lineageLog, granted, rewardMinted, now, govOps>>

AcceptWithoutReward(r, sigs) ==
  /\ AcceptRequest(r, sigs)
  /\ ~CostViolated(r.maxCost, r.actualCost)
  /\ RequestReward(r) = 0
  /\ Resolve(r, "no_delta", 0)
  /\ UNCHANGED <<governance, registry, legacy, mintBudgetRemaining,
                 modelWeightHead, lineageLog, granted, rewardMinted, now, govOps>>

\* Mutant: some budget is taken for enough budget.
SomeBudget(m, reward) == mintBudgetRemaining[m] > 0

\* The MintBudgetExceeded test: all of the reward or a revert.
WithinBudget(m, reward) == reward <= mintBudgetRemaining[m]

\* Mutant: the reward is minted but the budget is not reduced.
KeepBudget(m, reward) == UNCHANGED mintBudgetRemaining

SpendBudget(m, reward) ==
  mintBudgetRemaining' = [mintBudgetRemaining EXCEPT ![m] = @ - reward]

PayRequest(r, sigs) ==
  LET m == r.model
      reward == RequestReward(r)
  IN  /\ AcceptRequest(r, sigs)
      /\ ~CostViolated(r.maxCost, r.actualCost)
      /\ reward > 0
      /\ WithinBudget(m, reward)
      /\ Mintable(m, reward)
      /\ Resolve(r, "minted", reward)
      /\ modelWeightHead' = [modelWeightHead EXCEPT ![m] = r.candidate]
      /\ lineageLog' = [lineageLog EXCEPT ![m] = Append(@,
           [kind |-> "advanced", parent |-> CurrentHead(m), child |-> r.candidate])]
      /\ SpendBudget(m, reward)
      /\ Mint(m, reward)
      /\ UNCHANGED <<governance, registry, legacy, granted, now, govOps>>

SubmitMintRequest(r, sigs) ==
  RejectOnCost(r, sigs) \/ AcceptWithoutReward(r, sigs) \/ PayRequest(r, sigs)

\* Up to MaxSigs signatures taken from those that exist for r, in any order.
Submissions(r) == UNION {[1..n -> SignedBy[r]] : n \in 0..MaxSigs}

-----------------------------------------------------------------------------
(* The legacy entrypoints: no attestation, key, lineage or budget.         *)

\* Mutant: the cutover switch is not read.
LegacyAlwaysOpen(m) == ~paused /\ ModelOpen(m)

LegacyOpen(m) == ~paused /\ ~legacyMintsDisabled /\ ModelOpen(m)

LegacyPay(m, reward) ==
  IF reward = 0 THEN UNCHANGED <<rewardMinted, legacyMinted>>
  ELSE /\ Mintable(m, reward)
       /\ Mint(m, reward)
       /\ legacyMinted' = [legacyMinted EXCEPT ![m] = @ + reward]

\* submitEvaluation and submitEvaluationWithContributorInfo: one wallet, at
\* most one counted submission per RateLimit.  A cost violation returns
\* before the time is recorded, and so is no step.
SubmitEvaluation(m, c, delta, weight) ==
  /\ LegacyOpen(m)
  /\ now >= lastSubmissionTime[c] + RateLimit
  /\ lastSubmissionTime' = [lastSubmissionTime EXCEPT ![c] = now]
  /\ LegacyPay(m, RewardFor(m, delta, weight))
  /\ UNCHANGED <<governance, registry, ledger, now, govOps>>

\* submitEvaluationWithMultipleContributors: no rate limit.
SubmitEvaluationWithMultipleContributors(m, delta) ==
  /\ LegacyOpen(m)
  /\ RewardFor(m, delta, 10000) > 0
  /\ LegacyPay(m, RewardFor(m, delta, 10000))
  /\ UNCHANGED <<governance, registry, ledger, lastSubmissionTime, now, govOps>>

-----------------------------------------------------------------------------
(* Governance: the admin Safe, the pauser, the owners of the registry and  *)
(* of the params.  MaxGovOps bounds how many such transactions happen.     *)

Govern == govOps < MaxGovOps /\ govOps' = govOps + 1

AddAttester(a) ==
  /\ Govern
  /\ a \notin isAttester
  /\ isAttester' = isAttester \union {a}
  /\ attesterCount' = attesterCount + 1
  /\ UNCHANGED <<attesterThreshold, paused, legacyMintsDisabled,
                 minImprovementBps, maxReward, registry, ledger, legacy,
                 rewardMinted, now>>

\* Mutant: the count before the removal is compared.
Sufficient == attesterCount >= attesterThreshold

\* The quorum can still be met with one attester less.
Dispensable == attesterCount - 1 >= attesterThreshold

RemoveAttester(a) ==
  /\ Govern
  /\ a \in isAttester
  /\ Dispensable
  /\ isAttester' = isAttester \ {a}
  /\ attesterCount' = attesterCount - 1
  /\ UNCHANGED <<attesterThreshold, paused, legacyMintsDisabled,
                 minImprovementBps, maxReward, registry, ledger, legacy,
                 rewardMinted, now>>

SetAttesterThreshold(t) ==
  /\ Govern
  /\ t # 0 /\ t <= attesterCount
  /\ attesterThreshold' = t
  /\ UNCHANGED <<isAttester, attesterCount, paused, legacyMintsDisabled,
                 minImprovementBps, maxReward, registry, ledger, legacy,
                 rewardMinted, now>>

SetPaused(b) ==
  /\ Govern
  /\ paused # b
  /\ paused' = b
  /\ UNCHANGED <<isAttester, attesterCount, attesterThreshold,
                 legacyMintsDisabled, minImprovementBps, maxReward, registry,
                 ledger, legacy, rewardMinted, now>>

DisableLegacyMints ==
  /\ Govern
  /\ legacyMintsDisabled' = TRUE
  /\ UNCHANGED <<isAttester, attesterCount, attesterThreshold, paused,
                 minImprovementBps, maxReward, registry, ledger, legacy,
                 rewardMinted, now>>

SetRewardParameters(minimum, maximum) ==
  /\ Govern
  /\ \/ minImprovementBps' = minimum /\ UNCHANGED maxReward
     \/ maxReward' = maximum /\ UNCHANGED minImprovementBps
  /\ UNCHANGED <<isAttester, attesterCount, attesterThreshold, paused,
                 legacyMintsDisabled, registry, ledger, legacy, rewardMinted, now>>

\* setMintBudget: an absolute value.  granted moves with it, so that it is
\* always what governance let this contract mint since its deployment.
SetMintBudget(m, amount) ==
  /\ Govern
  /\ mintBudgetRemaining' = [mintBudgetRemaining EXCEPT ![m] = amount]
  /\ granted' = [granted EXCEPT ![m] = @ - mintBudgetRemaining[m] + amount]
  /\ UNCHANGED <<governance, registry, legacy, modelWeightHead, resolutions,
                 processedIdempotencyKeys, lineageLog, rewardMinted, now>>

TopUpMintBudget(m, amount) ==
  /\ Govern
  /\ amount > 0
  /\ mintBudgetRemaining' = [mintBudgetRemaining EXCEPT ![m] = @ + amount]
  /\ granted' = [granted EXCEPT ![m] = @ + amount]
  /\ UNCHANGED <<governance, registry, legacy, modelWeightHead, resolutions,
                 processedIdempotencyKeys, lineageLog, rewardMinted, now>>

ResetModelHead(m, newHead) ==
  /\ Govern
  /\ modelWeightHead' = [modelWeightHead EXCEPT ![m] = newHead]
  /\ lineageLog' = [lineageLog EXCEPT ![m] = Append(@,
       [kind |-> "reset", parent |-> CurrentHead(m), child |-> newHead])]
  /\ UNCHANGED <<governance, registry, legacy, mintBudgetRemaining, granted,
                 processedIdempotencyKeys, resolutions, rewardMinted, now>>

\* ModelRegistry.registerModel, deactivateModel, reactivateModel.
SetModelStatus(m, s) ==
  /\ Govern
  /\ \/ status[m] = "unregistered" /\ s = "active"
     \/ status[m] = "active" /\ s = "inactive"
     \/ status[m] = "inactive" /\ s = "active"
  /\ status' = [status EXCEPT ![m] = s]
  /\ UNCHANGED <<governance, ledger, legacy, weightGenesis, tokenLink,
                 tokensPerDeltaOne, rewardMinted, now>>

\* ModelRegistry.setWeightGenesis: write-once, for a registered model.
SetWeightGenesis(m, genesis) ==
  /\ Govern
  /\ status[m] # "unregistered"
  /\ weightGenesis[m] = NoCommitment
  /\ weightGenesis' = [weightGenesis EXCEPT ![m] = genesis]
  /\ UNCHANGED <<governance, ledger, legacy, status, tokenLink,
                 tokensPerDeltaOne, rewardMinted, now>>

\* TokenManager deploys a model's token once; ModelRegistry.updateModel can
\* point the registry at another token and back.
LinkToken(m, link) ==
  /\ Govern
  /\ tokenLink[m] # link /\ link # "none"
  /\ tokenLink[m] = "none" \/ status[m] # "unregistered"
  /\ tokenLink' = [tokenLink EXCEPT ![m] = link]
  /\ UNCHANGED <<governance, ledger, legacy, status, weightGenesis,
                 tokensPerDeltaOne, rewardMinted, now>>

\* HokusaiParams.setTokensPerDeltaOne moves the reward of every request that
\* has not been paid yet, and the token's reward cap with it.
SetTokensPerDeltaOne(m, rate) ==
  /\ Govern
  /\ tokensPerDeltaOne' = [tokensPerDeltaOne EXCEPT ![m] = rate]
  /\ UNCHANGED <<governance, ledger, legacy, status, weightGenesis, tokenLink,
                 rewardMinted, now>>

Tick ==
  /\ now < MaxTime
  /\ now' = now + 1
  /\ UNCHANGED <<governance, registry, ledger, legacy, rewardMinted, govOps>>

-----------------------------------------------------------------------------

Submit == \E r \in Requests : \E sigs \in Submissions(r) : SubmitMintRequest(r, sigs)

LegacySubmit ==
  \E m \in Models, delta \in LegacyDeltas :
    \/ \E c \in Contributors, weight \in LegacyWeights :
         SubmitEvaluation(m, c, delta, weight)
    \/ SubmitEvaluationWithMultipleContributors(m, delta)

GovernAttesters ==
  \/ \E a \in Accounts : AddAttester(a) \/ RemoveAttester(a)
  \/ \E t \in 1..attesterCount : SetAttesterThreshold(t)
  \/ \E b \in BOOLEAN : SetPaused(b)
  \/ DisableLegacyMints

GovernRewards ==
  \/ \E minimum \in MinImprovements, maximum \in MaxRewards :
       SetRewardParameters(minimum, maximum)
  \/ \E m \in Models : \/ \E amount \in BudgetAmounts :
                            SetMintBudget(m, amount) \/ TopUpMintBudget(m, amount)
                       \/ \E rate \in Rates : SetTokensPerDeltaOne(m, rate)

GovernModels ==
  \E m \in Models :
    \/ \E c \in Commitments : ResetModelHead(m, c) \/ SetWeightGenesis(m, c)
    \/ \E s \in {"active", "inactive"} : SetModelStatus(m, s)
    \/ \E link \in {"match", "mismatch"} : LinkToken(m, link)

Next ==
  Submit \/ LegacySubmit \/ GovernAttesters \/ GovernRewards \/ GovernModels \/ Tick

Spec == Init /\ [][Next]_vars

-----------------------------------------------------------------------------
(* Properties.                                                             *)

\* Every variable has its type; the mirror of isAttester's size is a number.
TypeOK ==
  /\ paused \in BOOLEAN /\ legacyMintsDisabled \in BOOLEAN
  /\ isAttester \in SUBSET Accounts /\ IsFiniteSet(isAttester)
  /\ attesterCount \in Nat /\ attesterThreshold \in Nat
  /\ mintBudgetRemaining \in [Models -> Nat]
  /\ modelWeightHead \in [Models -> Heads]
  /\ processedIdempotencyKeys \in SUBSET Keys
  /\ minImprovementBps \in Nat /\ maxReward \in Nat
  /\ lastSubmissionTime \in [Contributors -> Nat]
  /\ status \in [Models -> {"unregistered", "active", "inactive"}]
  /\ weightGenesis \in [Models -> Heads]
  /\ tokenLink \in [Models -> {"none", "match", "mismatch"}]
  /\ tokensPerDeltaOne \in [Models -> Nat]
  /\ rewardMinted \in [Models -> Nat]
  /\ now \in Nat /\ govOps \in Nat
  /\ lineageLog \in [Models -> Seq(EdgeType)]
  /\ resolutions \in Seq(ResolutionType)
  /\ granted \in [Models -> Int] /\ legacyMinted \in [Models -> Nat]

\* Rotation never bricks the mint path: the counter the guards read is the
\* real number of attesters, and the threshold stays within reach of them.
QuorumReachable ==
  /\ attesterCount = Cardinality(isAttester)
  /\ attesterThreshold <= attesterCount

\* Conservation: reward tokens minted plus budget left is what governance
\* granted plus what the legacy paths minted.  A haircut, a forgotten
\* decrement, or a second mint for the same decrement would break it.
BudgetAccountsForMints ==
  \A m \in Models :
    rewardMinted[m] + mintBudgetRemaining[m] = granted[m] + legacyMinted[m]

\* Each idempotency key has at most one resolution in the event log, and the
\* on-chain key set is exactly the keys the log resolved.
KeysResolveOnce ==
  /\ \A i, j \in DOMAIN resolutions :
       i # j => resolutions[i].req.key # resolutions[j].req.key
  /\ processedIdempotencyKeys =
       {resolutions[i].req.key : i \in DOMAIN resolutions}

\* A consumer that follows a model's ModelLineageAdvanced / HeadReset events
\* from the genesis arrives, without a gap, at the head the contract holds.
LogLeadsToHead(m) ==
  LET log == lineageLog[m] IN
    /\ log = <<>> => modelWeightHead[m] = NoCommitment
    /\ log # <<>> => /\ modelWeightHead[m] = log[Len(log)].child
                     /\ log[1].parent \in {weightGenesis[m], NoCommitment}
    /\ \A i \in DOMAIN log : i > 1 => log[i].parent = log[i-1].child
    /\ \A i \in DOMAIN log :
         log[i].kind = "advanced" => log[i].parent # NoCommitment

LineageRebuildable == \A m \in Models : LogLeadsToHead(m)

MintedFor(m) ==
  {i \in DOMAIN resolutions :
     resolutions[i].outcome = "minted" /\ resolutions[i].req.model = m}

AdvancesOf(m) == {j \in DOMAIN lineageLog[m] : lineageLog[m][j].kind = "advanced"}

\* i is the Rank(S, i)-th of the positions S.
Rank(S, i) == Cardinality({k \in S : k <= i})

\* The payment log and the lineage log tell the same story: a model's minted
\* resolutions are, in order, its advanced edges.
PaymentsMatchLineage ==
  \A m \in Models :
    /\ Cardinality(MintedFor(m)) = Cardinality(AdvancesOf(m))
    /\ \A i \in MintedFor(m), j \in AdvancesOf(m) :
         Rank(MintedFor(m), i) = Rank(AdvancesOf(m), j) =>
           /\ resolutions[i].req.baseline = lineageLog[m][j].parent
           /\ resolutions[i].req.candidate = lineageLog[m][j].child

\* A request is only ever resolved, paid or not, when at least a threshold
\* of distinct accounts that are attesters at that moment signed it.
QuorumBehindEveryResolution ==
  [][resolutions' # resolutions =>
       LET r == resolutions'[Len(resolutions')].req IN
         /\ attesterThreshold > 0
         /\ Cardinality(isAttester \intersect SignedBy[r]) >= attesterThreshold
    ]_vars

\* Once legacy mints are disabled, reward tokens appear only together with
\* one freshly burnt key, an equal budget decrement and a lineage step from
\* the head the request was evaluated against.
OnlyAttestedMintsAfterCutover ==
  [][\A m \in Models :
       legacyMintsDisabled /\ rewardMinted'[m] # rewardMinted[m] =>
         \E r \in Requests :
           /\ r.model = m
           /\ r.key \notin processedIdempotencyKeys
           /\ r.key \in processedIdempotencyKeys'
           /\ r.baseline = CurrentHead(m)
           /\ modelWeightHead'[m] = r.candidate
           /\ rewardMinted'[m] - rewardMinted[m] =
                mintBudgetRemaining[m] - mintBudgetRemaining'[m]
    ]_vars

\* No entrypoint mints for a model while the contract is paused, the model
\* is not active, or the registry and TokenManager disagree on its token.
ClosedModelsMintNothing ==
  [][\A m \in Models :
       paused \/ status[m] # "active" \/ tokenLink[m] # "match" =>
         rewardMinted'[m] = rewardMinted[m]]_vars

\* The contract implements the ledger: a key is settled when it is burnt, a
\* payment is a minted resolution, the head is currentModelHead.
PaymentAt(i) ==
  [key |-> resolutions[i].req.key, model |-> resolutions[i].req.model,
   parent |-> resolutions[i].parent, child |-> resolutions[i].req.candidate,
   amount |-> resolutions[i].reward]

Payments ==
  {PaymentAt(i) : i \in {j \in DOMAIN resolutions : resolutions[j].outcome = "minted"}}

Ledger == INSTANCE MintLedger WITH
  settled <- processedIdempotencyKeys,
  payments <- Payments,
  lineage <- [m \in Models |-> CurrentHead(m)],
  allowance <- mintBudgetRemaining,
  paid <- [m \in Models |-> rewardMinted[m] - legacyMinted[m]]

ImplementsLedger == Ledger!LedgerSpec

=============================================================================
