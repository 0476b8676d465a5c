------------------------ MODULE MintAuthorityProofs ------------------------
(***************************************************************************)
(* Theorems about MintAuthority, for every value of its constants.         *)
(***************************************************************************)
EXTENDS MintAuthority, FiniteSetTheorems, WellFoundedInduction, TLAPS

-----------------------------------------------------------------------------
(* What the helpers return.                                                *)

\* A reward is a whole number of tokens that never exceeds maxReward.
LEMMA RewardType ==
  ASSUME TypeOK, NEW m \in Models, NEW delta \in Nat, NEW weight \in Nat
  PROVE  RewardFor(m, delta, weight) \in Nat
<1> DEFINE exact == (delta * tokensPerDeltaOne[m] * weight) \div 1000000
<1>1. tokensPerDeltaOne[m] \in Nat BY DEF TypeOK
<1>2. delta * tokensPerDeltaOne[m] \in Nat BY <1>1
<1>3. delta * tokensPerDeltaOne[m] * weight \in Nat BY <1>2
<1>4. exact \in Nat BY <1>3
<1>5. maxReward \in Nat BY DEF TypeOK
<1> QED BY <1>4, <1>5 DEF RewardFor

LEMMA HeadType ==
  ASSUME TypeOK, NEW m \in Models
  PROVE  CurrentHead(m) \in Heads
BY DEF TypeOK, CurrentHead

LEMMA RequestFields ==
  ASSUME NEW r \in Requests
  PROVE  /\ r.key \in Keys /\ r.model \in Models
         /\ r.candidate \in Heads /\ r.baseline \in Commitments
         /\ r.baselineScore \in Nat /\ r.candidateScore \in Nat
BY ConstantTypes DEF ConstantTypes, RequestType, Heads

LEMMA RequestRewardType ==
  ASSUME TypeOK, NEW r \in Requests
  PROVE  RequestReward(r) \in Nat
<1>1. Improvement(r.baselineScore, r.candidateScore) \in Nat
  BY RequestFields DEF Improvement
<1> QED BY <1>1, RewardType, RequestFields DEF RequestReward

LEMMA LedgerStepType ==
  ASSUME TypeOK, NEW r \in Requests,
         NEW outcome \in {"minted", "no_delta", "budget_blocked"},
         NEW reward \in Nat, Resolve(r, outcome, reward)
  PROVE  /\ processedIdempotencyKeys' \in SUBSET Keys
         /\ resolutions' \in Seq(ResolutionType)
BY HeadType, RequestFields DEF TypeOK, Resolve, ResolutionType

-----------------------------------------------------------------------------
(* The type invariant.                                                     *)

LEMMA TypeInit == Init => TypeOK
<1> SUFFICES ASSUME Init PROVE TypeOK
  OBVIOUS
<1>1. isAttester \in SUBSET Accounts /\ IsFiniteSet(isAttester)
  BY FS_EmptySet DEF Init
<1>2. /\ modelWeightHead \in [Models -> Heads]
      /\ weightGenesis \in [Models -> Heads]
  BY DEF Init, Heads
<1>3. /\ status \in [Models -> {"unregistered", "active", "inactive"}]
      /\ tokenLink \in [Models -> {"none", "match", "mismatch"}]
      /\ tokensPerDeltaOne \in [Models -> Nat]
  BY ConstantTypes DEF ConstantTypes, Init
<1>4. /\ lineageLog \in [Models -> Seq(EdgeType)]
      /\ resolutions \in Seq(ResolutionType)
  BY DEF Init
<1>5. /\ mintBudgetRemaining \in [Models -> Nat]
      /\ lastSubmissionTime \in [Contributors -> Nat]
      /\ rewardMinted \in [Models -> Nat]
      /\ granted \in [Models -> Int] /\ legacyMinted \in [Models -> Nat]
  BY DEF Init
<1>6. /\ paused \in BOOLEAN /\ legacyMintsDisabled \in BOOLEAN
      /\ attesterCount \in Nat /\ attesterThreshold \in Nat
      /\ processedIdempotencyKeys \in SUBSET Keys
      /\ minImprovementBps \in Nat /\ maxReward \in Nat
      /\ now \in Nat /\ govOps \in Nat
  BY ConstantTypes DEF ConstantTypes, Init
<1> QED BY <1>1, <1>2, <1>3, <1>4, <1>5, <1>6 DEF TypeOK

\* Whoever signed and submits a request, its outcome is well typed.
LEMMA SubmissionType ==
  ASSUME TypeOK, NEW r \in Requests, NEW sigs, SubmitMintRequest(r, sigs)
  PROVE  TypeOK'
<1> USE DEF governance, registry, ledger, legacy, vars
<1>2. CASE RejectOnCost(r, sigs)
  BY <1>2, LedgerStepType DEF RejectOnCost, TypeOK
<1>3. CASE AcceptWithoutReward(r, sigs)
  BY <1>3, LedgerStepType DEF AcceptWithoutReward, TypeOK
<1>4. CASE PayRequest(r, sigs)
  <2> DEFINE m == r.model
             reward == RequestReward(r)
  <2>1. m \in Models /\ reward \in Nat BY RequestFields, RequestRewardType
  <2>2. /\ processedIdempotencyKeys' \in SUBSET Keys
        /\ resolutions' \in Seq(ResolutionType)
    BY <1>4, <2>1, LedgerStepType DEF PayRequest
  <2>3. r.candidate \in Commitments
    BY <1>4, RequestFields DEF PayRequest, AcceptRequest, ExtendsHead, Heads
  <2>4. modelWeightHead' \in [Models -> Heads]
    BY <1>4, <2>1, <2>3 DEF PayRequest, TypeOK, Heads
  <2>7. lineageLog' \in [Models -> Seq(EdgeType)]
    <3> DEFINE edge == [kind |-> "advanced", parent |-> CurrentHead(m),
                        child |-> r.candidate]
    <3>1. edge \in EdgeType BY <2>1, <2>3, HeadType DEF EdgeType
    <3>2. lineageLog' = [lineageLog EXCEPT ![m] = Append(lineageLog[m], edge)]
      BY <1>4 DEF PayRequest
    <3>3. Append(lineageLog[m], edge) \in Seq(EdgeType)
      BY <2>1, <3>1 DEF TypeOK
    <3> QED BY <3>2, <3>3 DEF TypeOK
  <2>5. mintBudgetRemaining' \in [Models -> Nat]
    BY <1>4, <2>1 DEF PayRequest, WithinBudget, SpendBudget, TypeOK
  <2>6. rewardMinted' \in [Models -> Nat]
    BY <1>4, <2>1 DEF PayRequest, Mint, TypeOK
  <2> QED BY <1>4, <2>2, <2>4, <2>5, <2>6, <2>7 DEF PayRequest, TypeOK
<1> QED BY <1>2, <1>3, <1>4 DEF SubmitMintRequest

LEMMA TypeSubmit ==
  ASSUME TypeOK, Submit PROVE TypeOK'
<1>0. PICK r \in Requests :
        \E sigs \in Submissions(r) : SubmitMintRequest(r, sigs)
  BY DEF Submit
<1>1. PICK sigs \in Submissions(r) : SubmitMintRequest(r, sigs)
  BY <1>0
<1> QED BY <1>1, SubmissionType

LEMMA TypeLegacyPay ==
  ASSUME TypeOK, NEW m \in Models, NEW reward \in Nat, LegacyPay(m, reward)
  PROVE  /\ rewardMinted' \in [Models -> Nat]
         /\ legacyMinted' \in [Models -> Nat]
<1>1. CASE reward = 0
  BY <1>1 DEF TypeOK, LegacyPay
<1>2. CASE reward # 0
  <2>1. Mint(m, reward) /\ legacyMinted' = [legacyMinted EXCEPT ![m] = @ + reward]
    BY <1>2 DEF LegacyPay
  <2> QED BY <2>1 DEF TypeOK, Mint
<1> QED BY <1>1, <1>2

LEMMA TypeLegacySubmit ==
  ASSUME TypeOK, LegacySubmit PROVE TypeOK'
<1> USE DEF governance, registry, ledger, legacy, vars
<1>1. PICK m \in Models, delta \in LegacyDeltas :
        \/ \E c \in Contributors, weight \in LegacyWeights :
             SubmitEvaluation(m, c, delta, weight)
        \/ SubmitEvaluationWithMultipleContributors(m, delta)
  BY DEF LegacySubmit
<1>2. delta \in Nat BY ConstantTypes DEF ConstantTypes
<1>3. ASSUME NEW c \in Contributors, NEW weight \in LegacyWeights,
             SubmitEvaluation(m, c, delta, weight)
      PROVE  TypeOK'
  <2>1. RewardFor(m, delta, weight) \in Nat
    BY <1>2, ConstantTypes, RewardType DEF ConstantTypes
  <2>2. /\ rewardMinted' \in [Models -> Nat]
        /\ legacyMinted' \in [Models -> Nat]
    BY <1>3, <2>1, TypeLegacyPay DEF SubmitEvaluation
  <2> QED BY <1>3, <2>2 DEF SubmitEvaluation, TypeOK
<1>4. CASE SubmitEvaluationWithMultipleContributors(m, delta)
  <2>1. RewardFor(m, delta, 10000) \in Nat
    <3>1. delta \in Nat /\ 10000 \in Nat BY <1>2
    <3>2. ASSUME NEW w \in Nat PROVE RewardFor(m, delta, w) \in Nat BY <3>1, RewardType, SMTT(30)
    <3> QED BY <3>1, <3>2
  <2>2. /\ rewardMinted' \in [Models -> Nat]
        /\ legacyMinted' \in [Models -> Nat]
    BY <1>4, <2>1, TypeLegacyPay DEF SubmitEvaluationWithMultipleContributors
  <2> QED BY <1>4, <2>2 DEF SubmitEvaluationWithMultipleContributors, TypeOK
<1> QED BY <1>1, <1>3, <1>4

LEMMA TypeGovernAttesters ==
  ASSUME TypeOK, GovernAttesters PROVE TypeOK'
<1> USE DEF governance, registry, ledger, legacy, vars, Govern
<1>1. ASSUME NEW a \in Accounts, AddAttester(a) PROVE TypeOK'
  BY <1>1, FS_AddElement DEF AddAttester, TypeOK
<1>2. ASSUME NEW a \in Accounts, RemoveAttester(a) PROVE TypeOK'
  <2>1. IsFiniteSet(isAttester) BY DEF TypeOK
  <2>2. IsFiniteSet(isAttester \ {a}) BY <2>1, FS_RemoveElement
  <2>3. attesterCount - 1 \in Nat
    BY <1>2 DEF RemoveAttester, Dispensable, TypeOK
  <2> QED BY <1>2, <2>2, <2>3 DEF RemoveAttester, TypeOK
<1>3. ASSUME NEW t \in 1..attesterCount, SetAttesterThreshold(t) PROVE TypeOK'
  BY <1>3 DEF SetAttesterThreshold, TypeOK
<1>4. ASSUME NEW b \in BOOLEAN, SetPaused(b) PROVE TypeOK'
  BY <1>4 DEF SetPaused, TypeOK
<1>5. CASE DisableLegacyMints
  BY <1>5 DEF DisableLegacyMints, TypeOK
<1> QED BY <1>1, <1>2, <1>3, <1>4, <1>5 DEF GovernAttesters

LEMMA TypeGovernRewards ==
  ASSUME TypeOK, GovernRewards PROVE TypeOK'
<1> USE DEF governance, registry, ledger, legacy, vars, Govern
<1>1. ASSUME NEW minimum \in MinImprovements, NEW maximum \in MaxRewards,
             SetRewardParameters(minimum, maximum)
      PROVE  TypeOK'
  <2>1. minimum \in Nat /\ maximum \in Nat BY ConstantTypes DEF ConstantTypes
  <2> QED BY <1>1, <2>1, SMTT(30) DEF SetRewardParameters, TypeOK
<1>2. ASSUME NEW m \in Models, NEW amount \in BudgetAmounts,
             SetMintBudget(m, amount)
      PROVE  TypeOK'
  <2>1. amount \in Nat BY ConstantTypes DEF ConstantTypes
  <2>2. mintBudgetRemaining' \in [Models -> Nat]
    BY <1>2, <2>1 DEF SetMintBudget, TypeOK
  <2>3. granted' \in [Models -> Int]
    BY <1>2, <2>1 DEF SetMintBudget, TypeOK
  <2>4. /\ UNCHANGED <<governance, registry, legacy, modelWeightHead,
                       resolutions, processedIdempotencyKeys, lineageLog,
                       rewardMinted, now>>
        /\ govOps' = govOps + 1
    BY <1>2 DEF SetMintBudget
  <2> QED BY <2>2, <2>3, <2>4, SMTT(30) DEF TypeOK
<1>3. ASSUME NEW m \in Models, NEW amount \in BudgetAmounts,
             TopUpMintBudget(m, amount)
      PROVE  TypeOK'
  <2>1. amount \in Nat BY ConstantTypes DEF ConstantTypes
  <2>2. mintBudgetRemaining' \in [Models -> Nat]
    BY <1>3, <2>1 DEF TopUpMintBudget, TypeOK
  <2>3. granted' \in [Models -> Int]
    BY <1>3, <2>1 DEF TopUpMintBudget, TypeOK
  <2>4. /\ UNCHANGED <<governance, registry, legacy, modelWeightHead,
                       resolutions, processedIdempotencyKeys, lineageLog,
                       rewardMinted, now>>
        /\ govOps' = govOps + 1
    BY <1>3 DEF TopUpMintBudget
  <2> QED BY <2>2, <2>3, <2>4, SMTT(30) DEF TypeOK
<1>4. ASSUME NEW m \in Models, NEW rate \in Rates, SetTokensPerDeltaOne(m, rate)
      PROVE  TypeOK'
  <2>1. rate \in Nat BY ConstantTypes DEF ConstantTypes
  <2> QED BY <1>4, <2>1 DEF SetTokensPerDeltaOne, TypeOK
<1> QED BY <1>1, <1>2, <1>3, <1>4 DEF GovernRewards

LEMMA TypeGovernModels ==
  ASSUME TypeOK, GovernModels PROVE TypeOK'
<1> USE DEF governance, registry, ledger, legacy, vars, Govern
<1>1. ASSUME NEW m \in Models, NEW c \in Commitments, ResetModelHead(m, c)
      PROVE  TypeOK'
  <2> DEFINE edge == [kind |-> "reset", parent |-> CurrentHead(m), child |-> c]
  <2>1. edge \in EdgeType BY HeadType DEF EdgeType
  <2>2. lineageLog' = [lineageLog EXCEPT ![m] = Append(lineageLog[m], edge)]
    BY <1>1 DEF ResetModelHead
  <2>3. Append(lineageLog[m], edge) \in Seq(EdgeType) BY <2>1 DEF TypeOK
  <2>4. lineageLog' \in [Models -> Seq(EdgeType)] BY <2>2, <2>3 DEF TypeOK
  <2>5. modelWeightHead' \in [Models -> Heads]
    BY <1>1 DEF ResetModelHead, TypeOK, Heads
  <2>6. /\ UNCHANGED <<governance, registry, legacy, resolutions,
                       processedIdempotencyKeys, mintBudgetRemaining, granted,
                       rewardMinted, now>>
        /\ govOps' = govOps + 1
    BY <1>1 DEF ResetModelHead
  <2> QED BY <2>4, <2>5, <2>6, SMTT(30) DEF TypeOK
<1>2. ASSUME NEW m \in Models, NEW c \in Commitments, SetWeightGenesis(m, c)
      PROVE  TypeOK'
  BY <1>2 DEF SetWeightGenesis, TypeOK, Heads
<1>3. ASSUME NEW m \in Models, NEW s \in {"active", "inactive"}, SetModelStatus(m, s)
      PROVE  TypeOK'
  BY <1>3 DEF SetModelStatus, TypeOK
<1>4. ASSUME NEW m \in Models, NEW link \in {"match", "mismatch"}, LinkToken(m, link)
      PROVE  TypeOK'
  BY <1>4 DEF LinkToken, TypeOK
<1> QED BY <1>1, <1>2, <1>3, <1>4 DEF GovernModels

\* Every step keeps the types.
LEMMA TypeStep == TypeOK /\ [Next]_vars => TypeOK'
<1> SUFFICES ASSUME TypeOK, [Next]_vars PROVE TypeOK'
  OBVIOUS
<1>1. CASE Tick
  BY <1>1 DEF Tick, TypeOK, governance, registry, ledger, legacy
<1>2. CASE UNCHANGED vars
  BY <1>2 DEF TypeOK, governance, registry, ledger, legacy, vars
<1> QED BY <1>1, <1>2, TypeSubmit, TypeLegacySubmit, TypeGovernAttesters,
           TypeGovernRewards, TypeGovernModels DEF Next

\* The state always has its types.
THEOREM TypeCorrect == Spec => []TypeOK
<1> QED BY TypeInit, TypeStep, PTL DEF Spec

-----------------------------------------------------------------------------
(* Who writes what: the frame of each group of actions.                    *)

\* Legacy mints touch only the reward counters and the rate limiter.
LEMMA LegacyFrame ==
  ASSUME LegacySubmit
  PROVE  UNCHANGED <<governance, registry, ledger, now, govOps>>
BY DEF LegacySubmit, SubmitEvaluation, SubmitEvaluationWithMultipleContributors

LEMMA GovernAttestersFrame ==
  ASSUME GovernAttesters
  PROVE  UNCHANGED <<registry, ledger, legacy, rewardMinted, now>>
BY DEF GovernAttesters, AddAttester, RemoveAttester, SetAttesterThreshold,
       SetPaused, DisableLegacyMints

LEMMA GovernRewardsFrame ==
  ASSUME GovernRewards
  PROVE  /\ UNCHANGED <<isAttester, attesterCount, attesterThreshold, paused,
                        legacyMintsDisabled, status, weightGenesis, tokenLink,
                        legacy, modelWeightHead, processedIdempotencyKeys,
                        lineageLog, resolutions, rewardMinted, now>>
         /\ \/ UNCHANGED <<mintBudgetRemaining, granted>>
            \/ \E m \in Models, amount \in BudgetAmounts :
                 SetMintBudget(m, amount) \/ TopUpMintBudget(m, amount)
BY DEF GovernRewards, SetRewardParameters, SetMintBudget, TopUpMintBudget,
       SetTokensPerDeltaOne, governance, registry, ledger

LEMMA GovernModelsFrame ==
  ASSUME GovernModels
  PROVE  /\ UNCHANGED <<governance, legacy, mintBudgetRemaining, granted,
                        processedIdempotencyKeys, resolutions, rewardMinted,
                        tokensPerDeltaOne, now>>
         /\ \/ UNCHANGED <<modelWeightHead, lineageLog>>
            \/ \E m \in Models, c \in Commitments : ResetModelHead(m, c)
         /\ \/ UNCHANGED weightGenesis
            \/ \E m \in Models, c \in Commitments : SetWeightGenesis(m, c)
BY DEF GovernModels, ResetModelHead, SetWeightGenesis, SetModelStatus,
       LinkToken, registry, ledger

LEMMA SubmitFrame ==
  ASSUME NEW r, NEW sigs, SubmitMintRequest(r, sigs)
  PROVE  /\ UNCHANGED <<governance, registry, legacy, granted, now, govOps>>
         /\ AcceptRequest(r, sigs)
         /\ \/ PayRequest(r, sigs)
            \/ UNCHANGED <<mintBudgetRemaining, modelWeightHead, lineageLog,
                           rewardMinted>>
         /\ \E outcome \in {"minted", "no_delta", "budget_blocked"} :
              \E reward : Resolve(r, outcome, reward)
BY DEF SubmitMintRequest, RejectOnCost, AcceptWithoutReward, PayRequest

-----------------------------------------------------------------------------
(* The quorum stays reachable.                                             *)

LEMMA QuorumInit == Init => QuorumReachable
BY FS_EmptySet DEF Init, QuorumReachable

LEMMA QuorumStep ==
  ASSUME TypeOK, QuorumReachable, [Next]_vars
  PROVE  QuorumReachable'
<1> USE DEF QuorumReachable
<1>1. CASE UNCHANGED <<isAttester, attesterCount, attesterThreshold>>
  BY <1>1
<1>2. ASSUME NEW a \in Accounts, AddAttester(a) PROVE QuorumReachable'
  <2>1. Cardinality(isAttester \union {a}) = Cardinality(isAttester) + 1
    BY <1>2, FS_AddElement DEF AddAttester, TypeOK
  <2> QED BY <1>2, <2>1 DEF AddAttester, TypeOK
<1>3. ASSUME NEW a \in Accounts, RemoveAttester(a) PROVE QuorumReachable'
  <2>1. Cardinality(isAttester \ {a}) = Cardinality(isAttester) - 1
    BY <1>3, FS_RemoveElement DEF RemoveAttester, TypeOK
  <2> QED BY <1>3, <2>1 DEF RemoveAttester, Dispensable, TypeOK
<1>4. ASSUME NEW t \in 1..attesterCount, SetAttesterThreshold(t)
      PROVE  QuorumReachable'
  BY <1>4 DEF SetAttesterThreshold
<1>5. CASE GovernAttesters
  BY <1>1, <1>2, <1>3, <1>4, <1>5
     DEF GovernAttesters, SetPaused, DisableLegacyMints
<1>6. CASE Submit \/ LegacySubmit \/ GovernRewards \/ GovernModels
  BY <1>1, <1>6, SubmitFrame, LegacyFrame, GovernRewardsFrame,
     GovernModelsFrame DEF Submit, governance
<1>7. CASE Tick \/ UNCHANGED vars
  BY <1>1, <1>7 DEF Tick, vars, governance
<1> QED BY <1>5, <1>6, <1>7 DEF Next

\* The counter that guards rotation is the real number of attesters, and the
\* threshold is never above it.
THEOREM QuorumAlwaysReachable == Spec => []QuorumReachable
<1>1. TypeOK /\ QuorumReachable /\ [Next]_vars => QuorumReachable'
  BY QuorumStep
<1> QED BY <1>1, QuorumInit, TypeCorrect, PTL DEF Spec

-----------------------------------------------------------------------------
(* Conservation of the mint budget.                                        *)

LEMMA BudgetInit == Init => BudgetAccountsForMints
BY DEF Init, BudgetAccountsForMints

LEMMA BudgetPaid ==
  ASSUME TypeOK, BudgetAccountsForMints, NEW r \in Requests, NEW sigs,
         PayRequest(r, sigs)
  PROVE  BudgetAccountsForMints'
<1>1. r.model \in Models /\ RequestReward(r) \in Nat
  BY RequestFields, RequestRewardType
<1>2. /\ mintBudgetRemaining' = [mintBudgetRemaining EXCEPT ![r.model] = @ - RequestReward(r)]
      /\ rewardMinted' = [rewardMinted EXCEPT ![r.model] = @ + RequestReward(r)]
      /\ UNCHANGED <<granted, legacyMinted>>
  BY DEF PayRequest, SpendBudget, Mint, legacy
<1>3. \A x \in Models :
        /\ mintBudgetRemaining[x] \in Nat /\ rewardMinted[x] \in Nat
        /\ mintBudgetRemaining'[x] \in Int /\ rewardMinted'[x] \in Int
        /\ mintBudgetRemaining'[x] + rewardMinted'[x] = mintBudgetRemaining[x] + rewardMinted[x]
  <2>1. /\ mintBudgetRemaining \in [Models -> Nat] /\ rewardMinted \in [Models -> Nat]
    BY DEF TypeOK
  <2> QED BY <1>1, <1>2, <2>1
<1>4. \A x \in Models : granted[x] \in Int /\ legacyMinted[x] \in Nat
  BY DEF TypeOK
<1> QED BY <1>2, <1>3, <1>4 DEF BudgetAccountsForMints

LEMMA BudgetLegacyPaid ==
  ASSUME TypeOK, BudgetAccountsForMints, NEW m \in Models, NEW reward \in Nat,
         LegacyPay(m, reward), UNCHANGED <<mintBudgetRemaining, granted>>
  PROVE  BudgetAccountsForMints'
<1>1. CASE reward = 0
  BY <1>1 DEF LegacyPay, BudgetAccountsForMints
<1>2. CASE reward # 0
  <2>1. /\ rewardMinted' = [rewardMinted EXCEPT ![m] = @ + reward]
        /\ legacyMinted' = [legacyMinted EXCEPT ![m] = @ + reward]
    BY <1>2 DEF LegacyPay, Mint
  <2> QED BY <2>1 DEF BudgetAccountsForMints, TypeOK
<1> QED BY <1>1, <1>2

LEMMA BudgetGranted ==
  ASSUME TypeOK, BudgetAccountsForMints,
         NEW m \in Models, NEW amount \in BudgetAmounts,
         SetMintBudget(m, amount) \/ TopUpMintBudget(m, amount)
  PROVE  BudgetAccountsForMints'
<1>1. amount \in Nat BY ConstantTypes DEF ConstantTypes
<1>2. UNCHANGED <<rewardMinted, legacyMinted>>
  BY DEF SetMintBudget, TopUpMintBudget, legacy
<1>3. \A x \in Models : /\ mintBudgetRemaining[x] \in Nat /\ granted[x] \in Int
                       /\ rewardMinted[x] \in Nat /\ legacyMinted[x] \in Nat
  BY DEF TypeOK
<1>4. granted'[m] - granted[m] = mintBudgetRemaining'[m] - mintBudgetRemaining[m]
  <2>1. CASE SetMintBudget(m, amount)
    BY <1>1, <1>3, <2>1 DEF SetMintBudget, TypeOK
  <2>2. CASE TopUpMintBudget(m, amount)
    BY <1>1, <1>3, <2>2 DEF TopUpMintBudget, TypeOK
  <2> QED BY <2>1, <2>2
<1>5. /\ granted'[m] \in Int /\ mintBudgetRemaining'[m] \in Nat
      /\ \A x \in Models \ {m} :
           /\ granted'[x] = granted[x]
           /\ mintBudgetRemaining'[x] = mintBudgetRemaining[x]
  <2>1. CASE SetMintBudget(m, amount)
    BY <1>1, <1>3, <2>1 DEF SetMintBudget, TypeOK
  <2>2. CASE TopUpMintBudget(m, amount)
    BY <1>1, <1>3, <2>2 DEF TopUpMintBudget, TypeOK
  <2> QED BY <2>1, <2>2
<1>6. ASSUME NEW x \in Models
      PROVE  rewardMinted[x] + mintBudgetRemaining'[x] = granted'[x] + legacyMinted[x]
  <2>1. rewardMinted[x] + mintBudgetRemaining[x] = granted[x] + legacyMinted[x]
    BY DEF BudgetAccountsForMints
  <2>2. CASE x = m BY <1>3, <1>4, <1>5, <2>1, <2>2
  <2>3. CASE x # m BY <1>5, <2>1, <2>3
  <2> QED BY <2>2, <2>3
<1> QED BY <1>2, <1>6 DEF BudgetAccountsForMints

LEMMA BudgetStep ==
  ASSUME TypeOK, BudgetAccountsForMints, [Next]_vars
  PROVE  BudgetAccountsForMints'
<1>1. CASE UNCHANGED <<mintBudgetRemaining, granted, rewardMinted, legacyMinted>>
  BY <1>1 DEF BudgetAccountsForMints
<1>2. CASE Submit
  <2>1. PICK r \in Requests :
          \E sigs \in Submissions(r) : SubmitMintRequest(r, sigs)
    BY <1>2 DEF Submit
  <2>2. PICK sigs \in Submissions(r) : SubmitMintRequest(r, sigs)
    BY <2>1
  <2> QED BY <1>1, <2>2, SubmitFrame, BudgetPaid DEF legacy
<1>3. CASE LegacySubmit
  <2>1. UNCHANGED <<mintBudgetRemaining, granted>>
    BY <1>3, LegacyFrame DEF ledger
  <2>2. PICK m \in Models, delta \in LegacyDeltas :
          \/ \E c \in Contributors, weight \in LegacyWeights :
               SubmitEvaluation(m, c, delta, weight)
          \/ SubmitEvaluationWithMultipleContributors(m, delta)
    BY <1>3 DEF LegacySubmit
  <2>3. \E weight \in LegacyWeights \union {10000} :
          LegacyPay(m, RewardFor(m, delta, weight))
    BY <2>2 DEF SubmitEvaluation, SubmitEvaluationWithMultipleContributors
  <2>4. PICK weight \in LegacyWeights \union {10000} :
          LegacyPay(m, RewardFor(m, delta, weight))
    BY <2>3
  <2>5. delta \in Nat /\ weight \in Nat BY ConstantTypes DEF ConstantTypes
  <2>6. RewardFor(m, delta, weight) \in Nat BY <2>5, RewardType, SMTT(30)
  <2> QED BY <2>1, <2>4, <2>6, BudgetLegacyPaid
<1>4. CASE GovernRewards
  BY <1>1, <1>4, GovernRewardsFrame, BudgetGranted DEF legacy
<1>5. CASE GovernAttesters \/ GovernModels
  BY <1>1, <1>5, GovernAttestersFrame, GovernModelsFrame DEF ledger, legacy
<1>6. CASE Tick \/ UNCHANGED vars
  BY <1>1, <1>6 DEF Tick, vars, ledger, legacy
<1> QED BY <1>2, <1>3, <1>4, <1>5, <1>6 DEF Next

\* Minted plus left always equals granted plus what legacy paths minted.
THEOREM BudgetAlwaysAccounts == Spec => []BudgetAccountsForMints
<1>1. TypeOK /\ BudgetAccountsForMints /\ [Next]_vars => BudgetAccountsForMints'
  BY BudgetStep
<1> QED BY <1>1, BudgetInit, TypeCorrect, PTL DEF Spec

-----------------------------------------------------------------------------
(* Each idempotency key is resolved once.                                  *)

LEMMA KeysInit == Init => KeysResolveOnce
BY DEF Init, KeysResolveOnce

LEMMA KeysResolved ==
  ASSUME TypeOK, KeysResolveOnce, NEW r \in Requests, NEW outcome, NEW reward,
         r.key \notin processedIdempotencyKeys, Resolve(r, outcome, reward)
  PROVE  KeysResolveOnce'
<1> DEFINE entry == [req |-> r, outcome |-> outcome,
                     parent |-> CurrentHead(r.model), reward |-> reward]
           n == Len(resolutions) + 1
<1>1. resolutions \in Seq(ResolutionType) BY DEF TypeOK
<1>2. resolutions' = Append(resolutions, entry) BY DEF Resolve
<1>3. /\ DOMAIN resolutions = 1..Len(resolutions)
      /\ DOMAIN resolutions' = 1..n
      /\ \A i \in 1..Len(resolutions) : resolutions'[i] = resolutions[i]
      /\ resolutions'[n] = entry
      /\ n \in Nat
  BY <1>1, <1>2
<1>4. \A i \in DOMAIN resolutions : resolutions[i].req.key # r.key
  BY DEF KeysResolveOnce
<1>5. entry.req.key = r.key OBVIOUS
<1> HIDE DEF entry
<1>6. ASSUME NEW i \in DOMAIN resolutions', NEW j \in DOMAIN resolutions', i # j
      PROVE  resolutions'[i].req.key # resolutions'[j].req.key
  <2>1. CASE i = n
    BY <1>3, <1>4, <1>5, <1>6, <2>1
  <2>2. CASE j = n
    BY <1>3, <1>4, <1>5, <1>6, <2>2
  <2>3. CASE i # n /\ j # n
    BY <1>3, <1>6, <2>3 DEF KeysResolveOnce
  <2> QED BY <2>1, <2>2, <2>3
<1>7. {resolutions'[i].req.key : i \in DOMAIN resolutions'} =
        {resolutions[i].req.key : i \in DOMAIN resolutions} \union {r.key}
  BY <1>3, <1>5
<1> QED BY <1>6, <1>7 DEF KeysResolveOnce, Resolve

LEMMA KeysStep ==
  ASSUME TypeOK, KeysResolveOnce, [Next]_vars
  PROVE  KeysResolveOnce'
<1>1. CASE UNCHANGED <<processedIdempotencyKeys, resolutions>>
  BY <1>1 DEF KeysResolveOnce
<1>2. CASE Submit
  <2>1. PICK r \in Requests :
          \E sigs \in Submissions(r) : SubmitMintRequest(r, sigs)
    BY <1>2 DEF Submit
  <2>2. PICK sigs \in Submissions(r) : SubmitMintRequest(r, sigs)
    BY <2>1
  <2>3. r.key \notin processedIdempotencyKeys
    BY <2>2, SubmitFrame DEF AcceptRequest
  <2> QED BY <2>2, <2>3, SubmitFrame, KeysResolved
<1>3. CASE LegacySubmit \/ GovernAttesters \/ GovernRewards \/ GovernModels
  BY <1>1, <1>3, LegacyFrame, GovernAttestersFrame, GovernRewardsFrame,
     GovernModelsFrame DEF ledger
<1>4. CASE Tick \/ UNCHANGED vars
  BY <1>1, <1>4 DEF Tick, vars, ledger
<1> QED BY <1>2, <1>3, <1>4 DEF Next

\* No key is ever resolved twice, and the key set mirrors the event log.
THEOREM KeysAlwaysResolveOnce == Spec => []KeysResolveOnce
<1>1. TypeOK /\ KeysResolveOnce /\ [Next]_vars => KeysResolveOnce'
  BY KeysStep
<1> QED BY <1>1, KeysInit, TypeCorrect, PTL DEF Spec

-----------------------------------------------------------------------------
(* The lineage can be rebuilt from its events.                             *)

LEMMA LineageInit == Init => LineageRebuildable
BY DEF Init, LineageRebuildable, LogLeadsToHead

\* An event appended for m, from the current head to the new one.
LEMMA LineageExtended ==
  ASSUME TypeOK, NEW m \in Models, LogLeadsToHead(m),
         NEW kind, NEW c \in Commitments,
         kind = "advanced" => CurrentHead(m) # NoCommitment,
         UNCHANGED weightGenesis,
         modelWeightHead' = [modelWeightHead EXCEPT ![m] = c],
         lineageLog' = [lineageLog EXCEPT ![m] = Append(@,
           [kind |-> kind, parent |-> CurrentHead(m), child |-> c])]
  PROVE  LogLeadsToHead(m)'
<1> DEFINE log  == lineageLog[m]
           edge == [kind |-> kind, parent |-> CurrentHead(m), child |-> c]
           n    == Len(log) + 1
<1>1. log \in Seq(EdgeType) BY DEF TypeOK
<1>2. lineageLog'[m] = Append(log, edge) /\ modelWeightHead'[m] = c
  BY DEF TypeOK
<1>3. /\ Len(log) \in Nat /\ DOMAIN log = 1..Len(log)
      /\ lineageLog'[m] # <<>>
      /\ Len(lineageLog'[m]) = n /\ DOMAIN (lineageLog'[m]) = 1..n
      /\ \A i \in 1..Len(log) : lineageLog'[m][i] = log[i]
      /\ lineageLog'[m][n] = edge
  BY <1>1, <1>2
<1>4. edge.kind = kind /\ edge.parent = CurrentHead(m) /\ edge.child = c
  OBVIOUS
<1>5. CASE log = <<>>
  <2>1. n = 1 BY <1>5
  <2>2. CurrentHead(m) = weightGenesis[m]
    BY <1>5 DEF LogLeadsToHead, CurrentHead
  <2> QED BY <1>2, <1>3, <1>4, <2>1, <2>2 DEF LogLeadsToHead
<1>6. CASE log # <<>>
  <2>1. Len(log) > 0 BY <1>1, <1>6
  <2>2. log[Len(log)] \in EdgeType BY <1>1, <1>3, <2>1
  <2>3. log[Len(log)].child # NoCommitment
    BY <2>2, ConstantTypes DEF ConstantTypes, EdgeType
  <2>4. CurrentHead(m) = log[Len(log)].child
    BY <1>6, <2>3 DEF LogLeadsToHead, CurrentHead
  <2>5. lineageLog'[m][1].parent \in {weightGenesis'[m], NoCommitment}
    BY <1>3, <1>6, <2>1 DEF LogLeadsToHead
  <2> HIDE DEF edge
  <2>6. ASSUME NEW i \in 1..n, i > 1
        PROVE  lineageLog'[m][i].parent = lineageLog'[m][i-1].child
    <3>1. CASE i = n
      BY <1>3, <1>4, <2>1, <2>4, <2>6, <3>1
    <3>2. CASE i # n
      <4>1. i \in 1..Len(log) /\ i-1 \in 1..Len(log) BY <1>3, <2>6, <3>2
      <4> QED BY <1>3, <2>6, <4>1 DEF LogLeadsToHead
    <3> QED BY <3>1, <3>2
  <2>7. ASSUME NEW i \in 1..n, lineageLog'[m][i].kind = "advanced"
        PROVE  lineageLog'[m][i].parent # NoCommitment
    <3>1. CASE i = n
      BY <1>3, <1>4, <2>7, <3>1
    <3>2. CASE i # n
      <4>1. i \in 1..Len(log) BY <1>3, <3>2
      <4> QED BY <1>3, <2>7, <4>1 DEF LogLeadsToHead
    <3> QED BY <3>1, <3>2
  <2> QED BY <1>2, <1>3, <1>4, <2>5, <2>6, <2>7 DEF LogLeadsToHead
<1> QED BY <1>5, <1>6

LEMMA LineageStep ==
  ASSUME TypeOK, LineageRebuildable, [Next]_vars
  PROVE  LineageRebuildable'
<1>1. CASE UNCHANGED <<modelWeightHead, lineageLog, weightGenesis>>
  BY <1>1 DEF LineageRebuildable, LogLeadsToHead
<1>2. ASSUME NEW r \in Requests, NEW sigs, PayRequest(r, sigs)
      PROVE  LineageRebuildable'
  <2> DEFINE m == r.model
  <2>1. m \in Models BY RequestFields
  <2>2. CurrentHead(m) # NoCommitment /\ r.candidate \in Commitments
    BY <1>2, RequestFields DEF PayRequest, AcceptRequest, ExtendsHead, Heads
  <2>3. /\ UNCHANGED weightGenesis
        /\ modelWeightHead' = [modelWeightHead EXCEPT ![m] = r.candidate]
        /\ lineageLog' = [lineageLog EXCEPT ![m] = Append(@,
             [kind |-> "advanced", parent |-> CurrentHead(m),
              child |-> r.candidate])]
    BY <1>2 DEF PayRequest, registry
  <2>4. LogLeadsToHead(m)'
    BY <2>1, <2>2, <2>3, LineageExtended DEF LineageRebuildable
  <2>5. ASSUME NEW x \in Models, x # m PROVE LogLeadsToHead(x)'
    BY <2>3, <2>5 DEF LineageRebuildable, LogLeadsToHead, TypeOK
  <2> QED BY <2>4, <2>5 DEF LineageRebuildable
<1>3. ASSUME NEW m \in Models, NEW c \in Commitments, ResetModelHead(m, c)
      PROVE  LineageRebuildable'
  <2>1. /\ UNCHANGED weightGenesis
        /\ modelWeightHead' = [modelWeightHead EXCEPT ![m] = c]
        /\ lineageLog' = [lineageLog EXCEPT ![m] = Append(@,
             [kind |-> "reset", parent |-> CurrentHead(m), child |-> c])]
    BY <1>3 DEF ResetModelHead, registry
  <2>2. LogLeadsToHead(m)'
    <3>1. LogLeadsToHead(m) /\ "reset" # "advanced"
      BY DEF LineageRebuildable
    <3> HIDE DEF LogLeadsToHead
    <3> QED BY <2>1, <3>1, LineageExtended
  <2>3. ASSUME NEW x \in Models, x # m PROVE LogLeadsToHead(x)'
    BY <2>1, <2>3 DEF LineageRebuildable, LogLeadsToHead, TypeOK
  <2> QED BY <2>2, <2>3 DEF LineageRebuildable
<1>4. ASSUME NEW m \in Models, NEW c \in Commitments, SetWeightGenesis(m, c)
      PROVE  LineageRebuildable'
  <2>1. /\ UNCHANGED <<modelWeightHead, lineageLog>>
        /\ weightGenesis[m] = NoCommitment
        /\ \A x \in Models : x # m => weightGenesis'[x] = weightGenesis[x]
    BY <1>4 DEF SetWeightGenesis, ledger, TypeOK
  <2> QED BY <2>1 DEF LineageRebuildable, LogLeadsToHead
<1>5. CASE Submit
  <2>1. PICK r \in Requests :
          \E sigs \in Submissions(r) : SubmitMintRequest(r, sigs)
    BY <1>5 DEF Submit
  <2>2. PICK sigs \in Submissions(r) : SubmitMintRequest(r, sigs)
    BY <2>1
  <2> QED BY <1>1, <1>2, <2>2, SubmitFrame DEF registry
<1>6. CASE GovernModels
  BY <1>1, <1>3, <1>4, <1>6
     DEF GovernModels, SetModelStatus, LinkToken, ledger
<1>7. CASE LegacySubmit \/ GovernAttesters \/ GovernRewards
  BY <1>1, <1>7, LegacyFrame, GovernAttestersFrame, GovernRewardsFrame
     DEF ledger, registry
<1>8. CASE Tick \/ UNCHANGED vars
  BY <1>1, <1>8 DEF Tick, vars, ledger, registry
<1> QED BY <1>5, <1>6, <1>7, <1>8 DEF Next

\* Following a model's lineage events always leads to the head it has.
THEOREM LineageAlwaysRebuildable == Spec => []LineageRebuildable
<1>1. TypeOK /\ LineageRebuildable /\ [Next]_vars => LineageRebuildable'
  BY LineageStep
<1> QED BY <1>1, LineageInit, TypeCorrect, PTL DEF Spec

-----------------------------------------------------------------------------
(* The payment log and the lineage log agree.                              *)

\* A position after all others is the last in rank and leaves theirs alone.
LEMMA RankAppended ==
  ASSUME NEW n \in Nat, NEW S \in SUBSET (1..n)
  PROVE  /\ Cardinality(S) \in Nat
         /\ Cardinality(S \union {n + 1}) = Cardinality(S) + 1
         /\ Rank(S \union {n + 1}, n + 1) = Cardinality(S) + 1
         /\ \A i \in S : /\ Rank(S \union {n + 1}, i) = Rank(S, i)
                        /\ Rank(S, i) # Cardinality(S) + 1
<1> DEFINE T == S \union {n + 1}
<1>1. IsFiniteSet(S) /\ Cardinality(S) \in Nat
  <2>1. IsFiniteSet(1..n)
    BY FS_Interval
  <2> QED BY <2>1, FS_Subset, FS_CardinalityType
<1>2. Cardinality(T) = Cardinality(S) + 1
  <2>1. n + 1 \notin S
    OBVIOUS
  <2> QED BY <1>1, <2>1, FS_AddElement
<1>3. {k \in T : k <= n + 1} = T
  <2>1. \A k \in T : k <= n + 1
    OBVIOUS
  <2> HIDE DEF T
  <2> QED BY <2>1
<1>4. ASSUME NEW i \in S
      PROVE  Rank(T, i) = Rank(S, i) /\ Rank(S, i) # Cardinality(S) + 1
  <2>1. {k \in T : k <= i} = {k \in S : k <= i}
    OBVIOUS
  <2>2. /\ Cardinality({k \in S : k <= i}) <= Cardinality(S)
        /\ Cardinality({k \in S : k <= i}) \in Nat
    BY <1>1, FS_Subset, FS_CardinalityType
  <2> QED BY <1>1, <2>1, <2>2 DEF Rank
<1> QED BY <1>1, <1>2, <1>3, <1>4 DEF Rank

\* A log that grew by one entry has its old positions and a last one.
LEMMA Appended ==
  ASSUME NEW D, NEW log \in Seq(D), NEW e
  PROVE  LET n == Len(log)
             new == Append(log, e)
         IN  /\ n \in Nat /\ DOMAIN log = 1..n /\ DOMAIN new = 1..(n + 1)
             /\ new[n + 1] = e /\ \A i \in 1..n : new[i] = log[i]
OBVIOUS

\* A model's logs match.
Match(m) ==
  /\ Cardinality(MintedFor(m)) = Cardinality(AdvancesOf(m))
  /\ \A i \in MintedFor(m), j \in AdvancesOf(m) :
       Rank(MintedFor(m), i) = Rank(AdvancesOf(m), j) =>
         /\ resolutions[i].req.baseline = lineageLog[m][j].parent
         /\ resolutions[i].req.candidate = lineageLog[m][j].child

\* An entry of the other kind is in neither set of positions.
LEMMA MintedForKept ==
  ASSUME TypeOK, NEW m \in Models, NEW r \in Requests, NEW outcome, NEW reward,
         Resolve(r, outcome, reward), ~(outcome = "minted" /\ r.model = m)
  PROVE  /\ MintedFor(m)' = MintedFor(m)
         /\ \A i \in MintedFor(m) : resolutions'[i] = resolutions[i]
<1> DEFINE entry == [req |-> r, outcome |-> outcome,
                     parent |-> CurrentHead(r.model), reward |-> reward]
<1>1. resolutions \in Seq(ResolutionType) /\ resolutions' = Append(resolutions, entry)
  BY DEF TypeOK, Resolve
<1>2. entry.req = r /\ entry.outcome = outcome
  OBVIOUS
<1> HIDE DEF entry
<1>3. LET n == Len(resolutions)
      IN  /\ n \in Nat /\ DOMAIN resolutions = 1..n /\ DOMAIN resolutions' = 1..(n + 1)
          /\ resolutions'[n + 1] = entry
          /\ \A i \in 1..n : resolutions'[i] = resolutions[i]
  BY <1>1, Appended
<1> QED BY <1>2, <1>3 DEF MintedFor

LEMMA AdvancesKept ==
  ASSUME TypeOK, NEW m \in Models, NEW e, e.kind # "advanced",
         lineageLog'[m] = Append(lineageLog[m], e)
  PROVE  /\ AdvancesOf(m)' = AdvancesOf(m)
         /\ \A i \in AdvancesOf(m) : lineageLog'[m][i] = lineageLog[m][i]
<1>1. lineageLog[m] \in Seq(EdgeType)
  BY DEF TypeOK
<1>2. LET n == Len(lineageLog[m])
      IN  /\ n \in Nat /\ DOMAIN lineageLog[m] = 1..n
          /\ DOMAIN (lineageLog'[m]) = 1..(n + 1)
          /\ lineageLog'[m][n + 1] = e
          /\ \A i \in 1..n : lineageLog'[m][i] = lineageLog[m][i]
  BY <1>1, Appended
<1> QED BY <1>2 DEF AdvancesOf

\* A payment adds the same edge to both logs, in the last place of each.
LEMMA MatchPaid ==
  ASSUME TypeOK, NEW m \in Models, Match(m), NEW r \in Requests, NEW sigs,
         PayRequest(r, sigs), r.model = m
  PROVE  Match(m)'
<1> DEFINE entry == [req |-> r, outcome |-> "minted",
                     parent |-> CurrentHead(m), reward |-> RequestReward(r)]
           edge == [kind |-> "advanced", parent |-> CurrentHead(m), child |-> r.candidate]
           n == Len(resolutions)
           k == Len(lineageLog[m])
<1>1. /\ resolutions \in Seq(ResolutionType) /\ resolutions' = Append(resolutions, entry)
      /\ lineageLog[m] \in Seq(EdgeType) /\ lineageLog'[m] = Append(lineageLog[m], edge)
  BY DEF TypeOK, PayRequest, Resolve
<1>2. /\ entry.req = r /\ entry.outcome = "minted"
      /\ edge.kind = "advanced" /\ edge.parent = r.baseline /\ edge.child = r.candidate
  BY DEF PayRequest, AcceptRequest, ExtendsHead
<1> HIDE DEF entry, edge
<1>3. /\ n \in Nat /\ DOMAIN resolutions = 1..n /\ DOMAIN resolutions' = 1..(n + 1)
      /\ resolutions'[n + 1] = entry
      /\ \A i \in 1..n : resolutions'[i] = resolutions[i]
  BY <1>1, Appended
<1>4. /\ k \in Nat /\ DOMAIN lineageLog[m] = 1..k /\ DOMAIN (lineageLog'[m]) = 1..(k + 1)
      /\ lineageLog'[m][k + 1] = edge
      /\ \A i \in 1..k : lineageLog'[m][i] = lineageLog[m][i]
  BY <1>1, Appended
<1> HIDE DEF n, k
<1>5. MintedFor(m) \subseteq 1..n /\ MintedFor(m)' = MintedFor(m) \union {n + 1}
  BY <1>2, <1>3 DEF MintedFor
<1>6. AdvancesOf(m) \subseteq 1..k /\ AdvancesOf(m)' = AdvancesOf(m) \union {k + 1}
  BY <1>2, <1>4 DEF AdvancesOf
<1> DEFINE P == MintedFor(m)
           E == AdvancesOf(m)
           P1 == MintedFor(m)'
           E1 == AdvancesOf(m)'
<1>7. /\ Cardinality(P) = Cardinality(E)
      /\ \A i \in P, j \in E : Rank(P, i) = Rank(E, j) =>
           /\ resolutions[i].req.baseline = lineageLog[m][j].parent
           /\ resolutions[i].req.candidate = lineageLog[m][j].child
  BY DEF Match
<1> HIDE DEF P, E, P1, E1
<1>8. /\ Cardinality(P) \in Nat /\ Cardinality(P1) = Cardinality(P) + 1
      /\ Rank(P1, n + 1) = Cardinality(P) + 1
      /\ \A i \in P : Rank(P1, i) = Rank(P, i) /\ Rank(P, i) # Cardinality(P) + 1
  <2>1. P \in SUBSET (1..n) /\ P1 = P \union {n + 1}
    BY <1>5 DEF P, P1
  <2> QED BY <1>3, <2>1, RankAppended, ZenonT(30)
<1>9. /\ Cardinality(E) \in Nat /\ Cardinality(E1) = Cardinality(E) + 1
      /\ Rank(E1, k + 1) = Cardinality(E) + 1
      /\ \A j \in E : Rank(E1, j) = Rank(E, j) /\ Rank(E, j) # Cardinality(E) + 1
  <2>1. E \in SUBSET (1..k) /\ E1 = E \union {k + 1}
    BY <1>6 DEF E, E1
  <2> QED BY <1>4, <2>1, RankAppended, ZenonT(30)
<1>10. ASSUME NEW i \in P1, NEW j \in E1, Rank(P1, i) = Rank(E1, j)
       PROVE  /\ resolutions'[i].req.baseline = lineageLog'[m][j].parent
              /\ resolutions'[i].req.candidate = lineageLog'[m][j].child
  <2>1. (i \in P \/ i = n + 1) /\ (j \in E \/ j = k + 1)
    BY <1>5, <1>6 DEF P, E, P1, E1
  <2>2. CASE i = n + 1 /\ j = k + 1
    BY <1>2, <1>3, <1>4, <2>2
  <2>3. CASE i \in P /\ j \in E
    <3>1. i \in 1..n /\ j \in 1..k
      BY <1>5, <1>6, <2>3 DEF P, E
    <3>2. resolutions'[i] = resolutions[i] /\ lineageLog'[m][j] = lineageLog[m][j]
      BY <1>3, <1>4, <3>1
    <3>3. Rank(P, i) = Rank(E, j)
      BY <1>8, <1>9, <1>10, <2>3
    <3> QED BY <1>7, <2>3, <3>2, <3>3
  <2> QED BY <1>7, <1>8, <1>9, <1>10, <2>1, <2>2, <2>3
<1>11. Cardinality(P1) = Cardinality(E1)
  BY <1>7, <1>8, <1>9
<1> QED BY <1>10, <1>11 DEF Match, P1, E1

\* What leaves both sets of positions and their entries alone keeps the match.
LEMMA MatchKept ==
  ASSUME NEW m \in Models, Match(m),
         MintedFor(m)' = MintedFor(m), AdvancesOf(m)' = AdvancesOf(m),
         \A i \in MintedFor(m) : resolutions'[i] = resolutions[i],
         \A j \in AdvancesOf(m) : lineageLog'[m][j] = lineageLog[m][j]
  PROVE  Match(m)'
BY DEF Match

LEMMA MatchStep ==
  ASSUME TypeOK, PaymentsMatchLineage, [Next]_vars
  PROVE  PaymentsMatchLineage'
<1>0. \A m \in Models : Match(m)
  BY DEF PaymentsMatchLineage, Match
<1>1. CASE UNCHANGED <<resolutions, lineageLog>>
  BY <1>1 DEF PaymentsMatchLineage, MintedFor, AdvancesOf
<1>2. ASSUME NEW r \in Requests, NEW sigs, SubmitMintRequest(r, sigs), NEW m \in Models
      PROVE  Match(m)'
  <2>1. CASE PayRequest(r, sigs) /\ r.model = m
    BY <1>0, <2>1, MatchPaid
  <2>2. CASE PayRequest(r, sigs) /\ r.model # m
    <3>1. Resolve(r, "minted", RequestReward(r)) /\ lineageLog'[m] = lineageLog[m]
      BY <2>2, RequestFields DEF PayRequest, TypeOK
    <3>2. /\ MintedFor(m)' = MintedFor(m)
          /\ \A i \in MintedFor(m) : resolutions'[i] = resolutions[i]
      BY <2>2, <3>1, MintedForKept
    <3>3. AdvancesOf(m)' = AdvancesOf(m)
      BY <3>1 DEF AdvancesOf
    <3> QED BY <1>0, <3>1, <3>2, <3>3, MatchKept
  <2>3. CASE RejectOnCost(r, sigs) \/ AcceptWithoutReward(r, sigs)
    <3>1. /\ lineageLog' = lineageLog
          /\ Resolve(r, "budget_blocked", 0) \/ Resolve(r, "no_delta", 0)
      BY <2>3 DEF RejectOnCost, AcceptWithoutReward
    <3>2. "budget_blocked" # "minted" /\ "no_delta" # "minted"
      OBVIOUS
    <3>3. /\ MintedFor(m)' = MintedFor(m)
          /\ \A i \in MintedFor(m) : resolutions'[i] = resolutions[i]
      BY <3>1, <3>2, MintedForKept
    <3>4. AdvancesOf(m)' = AdvancesOf(m)
      BY <3>1 DEF AdvancesOf
    <3> QED BY <1>0, <3>1, <3>3, <3>4, MatchKept
  <2> QED BY <1>2, <2>1, <2>2, <2>3 DEF SubmitMintRequest
<1>3. ASSUME NEW x \in Models, NEW c \in Commitments, ResetModelHead(x, c), NEW m \in Models
      PROVE  Match(m)'
  <2> DEFINE edge == [kind |-> "reset", parent |-> CurrentHead(x), child |-> c]
  <2>1. /\ resolutions' = resolutions
        /\ lineageLog' = [lineageLog EXCEPT ![x] = Append(@, edge)]
    BY <1>3 DEF ResetModelHead
  <2>2. MintedFor(m)' = MintedFor(m)
    BY <2>1 DEF MintedFor
  <2>3. CASE m = x
    <3>1. lineageLog'[m] = Append(lineageLog[m], edge) /\ edge.kind # "advanced"
      BY <2>1, <2>3 DEF TypeOK
    <3> HIDE DEF edge
    <3>2. /\ AdvancesOf(m)' = AdvancesOf(m)
          /\ \A i \in AdvancesOf(m) : lineageLog'[m][i] = lineageLog[m][i]
      BY <3>1, AdvancesKept
    <3> QED BY <1>0, <2>1, <2>2, <3>2, MatchKept
  <2>4. CASE m # x
    <3>1. lineageLog'[m] = lineageLog[m]
      BY <2>1, <2>4 DEF TypeOK
    <3>2. AdvancesOf(m)' = AdvancesOf(m)
      BY <3>1 DEF AdvancesOf
    <3> QED BY <1>0, <2>1, <2>2, <3>1, <3>2, MatchKept
  <2> QED BY <2>3, <2>4
<1>4. CASE Submit
  BY <1>2, <1>4 DEF Submit, PaymentsMatchLineage, Match
<1>5. CASE GovernModels
  <2>1. CASE UNCHANGED lineageLog
    BY <1>1, <1>5, <2>1, GovernModelsFrame
  <2>2. CASE \E x \in Models, c \in Commitments : ResetModelHead(x, c)
    BY <1>3, <2>2 DEF PaymentsMatchLineage, Match
  <2> QED BY <1>5, <2>1, <2>2, GovernModelsFrame
<1>6. CASE LegacySubmit \/ GovernAttesters \/ GovernRewards
  BY <1>1, <1>6, LegacyFrame, GovernAttestersFrame, GovernRewardsFrame DEF ledger
<1>7. CASE Tick \/ UNCHANGED vars
  BY <1>1, <1>7 DEF Tick, vars, ledger
<1> QED BY <1>4, <1>5, <1>6, <1>7 DEF Next

\* A model's paying resolutions and its advanced edges are equally many, and the
\* n-th of the one is the n-th of the other: no payment without its edge, no
\* edge without its payment, whatever heads were reset in between.
THEOREM PaymentsAlwaysMatchLineage == Spec => []PaymentsMatchLineage
<1>1. Init => PaymentsMatchLineage
  <2> SUFFICES ASSUME Init PROVE PaymentsMatchLineage
    OBVIOUS
  <2>1. \A m \in Models : MintedFor(m) = {} /\ AdvancesOf(m) = {}
    BY DEF Init, MintedFor, AdvancesOf
  <2> QED BY <2>1 DEF PaymentsMatchLineage
<1>2. TypeOK /\ PaymentsMatchLineage /\ [Next]_vars => PaymentsMatchLineage'
  BY MatchStep
<1> QED BY <1>1, <1>2, TypeCorrect, PTL DEF Spec

-----------------------------------------------------------------------------
(* A quorum stands behind every resolution.                                *)

\* A non-empty set of naturals has a least element.
LEMMA LeastElement ==
  ASSUME NEW T \in SUBSET Nat, T # {}
  PROVE  \E x \in T : \A y \in T : x <= y
<1>1. PICK x \in T : \A y \in T : ~ (<<y, x>> \in OpToRel(<, Nat))
  BY WFMin, NatLessThanWellFounded
<1>2. \A y \in T : ~ (y < x)
  BY <1>1 DEF OpToRel
<1> QED BY <1>2

\* Comparing each signer with the one before makes all of them different.
LEMMA AscendingAreDistinct ==
  ASSUME NEW n \in Nat, NEW s \in [1..n -> Nat],
         \A i \in 1..n : i > 1 => s[i] > s[i-1],
         NEW i \in 1..n
  PROVE  \A j \in 1..n : i < j => s[i] < s[j]
<1> DEFINE T == {j \in 1..n : i < j /\ ~ (s[i] < s[j])}
<1> SUFFICES ASSUME T # {} PROVE FALSE
  OBVIOUS
<1>1. PICK j \in T : \A y \in T : j <= y
  <2>1. T \in SUBSET Nat OBVIOUS
  <2> HIDE DEF T
  <2> QED BY <2>1, LeastElement
<1>2. j-1 \in 1..n /\ s[j-1] \in Nat /\ s[j] \in Nat /\ s[i] \in Nat /\ s[j] > s[j-1]
  BY <1>1
<1>3. CASE i = j-1
  BY <1>1, <1>2, <1>3
<1>4. CASE i < j-1
  BY <1>1, <1>2, <1>4
<1> QED BY <1>1, <1>2, <1>3, <1>4

LEMMA AttestedByQuorum ==
  ASSUME TypeOK, NEW r \in Requests, NEW sigs \in Submissions(r),
         Attested(r, sigs)
  PROVE  /\ attesterThreshold > 0
         /\ Cardinality(isAttester \intersect SignedBy[r]) >= attesterThreshold
<1> DEFINE signers == isAttester \intersect SignedBy[r]
<1>1. PICK n \in 0..MaxSigs : sigs \in [1..n -> SignedBy[r]]
  BY DEF Submissions
<1>2. n \in Nat BY ConstantTypes DEF ConstantTypes
<1>3. Len(sigs) = n BY <1>1, <1>2
<1>4. signers \subseteq Nat /\ IsFiniteSet(signers)
  BY FS_Subset, ConstantTypes DEF ConstantTypes, TypeOK
<1>5. sigs \in [1..n -> signers]
  BY <1>1 DEF Attested
<1>6. sigs \in [1..n -> Nat] BY <1>4, <1>5
<1>7. \A i \in 1..n : i > 1 => sigs[i] > sigs[i-1]
  BY <1>1 DEF Attested
<1>8. \A i \in 1..n : \A j \in 1..n : i < j => sigs[i] < sigs[j]
  BY <1>2, <1>6, <1>7, AscendingAreDistinct
<1>9. \A i, j \in 1..n : sigs[i] = sigs[j] => i = j
  BY <1>2, <1>6, <1>8
<1>10. sigs \in Injection(1..n, signers)
  BY <1>5, <1>9 DEF Injection, IsInjective
<1>11. IsFiniteSet(1..n) /\ Cardinality(1..n) = n
  BY <1>2, FS_Interval
<1>12. n <= Cardinality(signers)
  BY <1>4, <1>10, <1>11, FS_Injection
<1>13. attesterThreshold > 0 /\ attesterThreshold <= n
  BY <1>3 DEF Attested, TypeOK
<1>14. Cardinality(signers) \in Nat
  BY <1>4, FS_CardinalityType
<1> QED BY <1>2, <1>12, <1>13, <1>14 DEF TypeOK

\* No key is resolved, paid or not, without a threshold of distinct attesters
\* of that moment behind the request.
THEOREM QuorumAlwaysBehindResolutions == Spec => QuorumBehindEveryResolution
<1> DEFINE Step == resolutions' # resolutions =>
       LET r == resolutions'[Len(resolutions')].req IN
         /\ attesterThreshold > 0
         /\ Cardinality(isAttester \intersect SignedBy[r]) >= attesterThreshold
<1>1. TypeOK /\ [Next]_vars => [Step]_vars
  <2> SUFFICES ASSUME TypeOK, Next, resolutions' # resolutions PROVE Step
    BY DEF vars, ledger
  <2>1. CASE Submit
    <3>1. PICK r \in Requests :
            \E sigs \in Submissions(r) : SubmitMintRequest(r, sigs)
      BY <2>1 DEF Submit
    <3>2. PICK sigs \in Submissions(r) : SubmitMintRequest(r, sigs)
      BY <3>1
    <3>3. PICK outcome, reward : Resolve(r, outcome, reward)
      BY <3>2, SubmitFrame
    <3>4. resolutions' = Append(resolutions,
            [req |-> r, outcome |-> outcome,
             parent |-> CurrentHead(r.model), reward |-> reward])
      BY <3>3 DEF Resolve
    <3>5. resolutions'[Len(resolutions')].req = r
      BY <3>4 DEF TypeOK
    <3>6. Attested(r, sigs)
      BY <3>2, SubmitFrame DEF AcceptRequest
    <3> QED BY <3>5, <3>6, AttestedByQuorum
  <2>2. CASE LegacySubmit \/ GovernAttesters \/ GovernRewards \/ GovernModels \/ Tick
    BY <2>2, LegacyFrame, GovernAttestersFrame, GovernRewardsFrame,
       GovernModelsFrame DEF ledger, Tick
  <2> QED BY <2>1, <2>2 DEF Next
<1> QED BY <1>1, TypeCorrect, PTL DEF Spec, QuorumBehindEveryResolution

-----------------------------------------------------------------------------
(* What may be minted, and when.                                           *)

LEMMA MintNeedsOpenModel ==
  ASSUME TypeOK, Next, NEW m \in Models, rewardMinted'[m] # rewardMinted[m]
  PROVE  ~paused /\ status[m] = "active" /\ tokenLink[m] = "match"
<1>1. CASE Submit
  <2>1. PICK r \in Requests :
          \E sigs \in Submissions(r) : SubmitMintRequest(r, sigs)
    BY <1>1 DEF Submit
  <2>2. PICK sigs \in Submissions(r) : SubmitMintRequest(r, sigs)
    BY <2>1
  <2>3. PayRequest(r, sigs) BY <2>2, SubmitFrame
  <2>4. ~paused /\ ModelOpen(r.model) /\ Mintable(r.model, RequestReward(r))
    BY <2>3 DEF PayRequest, AcceptRequest
  <2>5. m = r.model BY <2>3 DEF PayRequest, Mint, TypeOK
  <2> QED BY <2>4, <2>5 DEF ModelOpen, Mintable
<1>2. CASE LegacySubmit
  <2>0. PICK x \in Models : \E reward : LegacyOpen(x) /\ LegacyPay(x, reward)
    BY <1>2 DEF LegacySubmit, SubmitEvaluation,
                SubmitEvaluationWithMultipleContributors
  <2>1. PICK reward : LegacyOpen(x) /\ LegacyPay(x, reward)
    BY <2>0
  <2>2. Mintable(x, reward) /\ Mint(x, reward)
    BY <2>1 DEF LegacyPay
  <2>3. m = x BY <2>2 DEF Mint, TypeOK
  <2> QED BY <2>1, <2>2, <2>3 DEF LegacyOpen, ModelOpen, Mintable
<1>3. CASE GovernAttesters \/ GovernRewards \/ GovernModels \/ Tick
  BY <1>3, GovernAttestersFrame, GovernRewardsFrame, GovernModelsFrame
     DEF Tick
<1> QED BY <1>1, <1>2, <1>3 DEF Next

\* A paused contract, an inactive model or a mismatched token mints nothing,
\* whichever entrypoint is used.
THEOREM ClosedModelsNeverMint == Spec => ClosedModelsMintNothing
<1>1. TypeOK /\ [Next]_vars =>
        [\A m \in Models :
           paused \/ status[m] # "active" \/ tokenLink[m] # "match" =>
             rewardMinted'[m] = rewardMinted[m]]_vars
  BY MintNeedsOpenModel
<1> QED BY <1>1, TypeCorrect, PTL DEF Spec, ClosedModelsMintNothing

LEMMA CutoverMint ==
  ASSUME TypeOK, Next, NEW m \in Models, legacyMintsDisabled,
         rewardMinted'[m] # rewardMinted[m]
  PROVE  \E r \in Requests :
           /\ r.model = m
           /\ r.key \notin processedIdempotencyKeys
           /\ r.key \in processedIdempotencyKeys'
           /\ r.baseline = CurrentHead(m)
           /\ modelWeightHead'[m] = r.candidate
           /\ rewardMinted'[m] - rewardMinted[m] =
                mintBudgetRemaining[m] - mintBudgetRemaining'[m]
<1>1. ~LegacySubmit
  BY DEF LegacySubmit, SubmitEvaluation, LegacyOpen,
         SubmitEvaluationWithMultipleContributors
<1>2. Submit
  BY <1>1, GovernAttestersFrame, GovernRewardsFrame, GovernModelsFrame
     DEF Next, Tick
<1>3. PICK r \in Requests :
        \E sigs \in Submissions(r) : SubmitMintRequest(r, sigs)
  BY <1>2 DEF Submit
<1>4. PICK sigs \in Submissions(r) : SubmitMintRequest(r, sigs)
  BY <1>3
<1>5. PayRequest(r, sigs) BY <1>4, SubmitFrame
<1> DEFINE reward == RequestReward(r)
<1>6. r.model \in Models /\ reward \in Nat
  BY RequestFields, RequestRewardType
<1>7. /\ modelWeightHead' = [modelWeightHead EXCEPT ![r.model] = r.candidate]
      /\ mintBudgetRemaining' = [mintBudgetRemaining EXCEPT ![r.model] = @ - reward]
      /\ rewardMinted' = [rewardMinted EXCEPT ![r.model] = @ + reward]
      /\ AcceptRequest(r, sigs) /\ Resolve(r, "minted", reward)
  BY <1>5 DEF PayRequest, SpendBudget, Mint
<1>8. m = r.model BY <1>7 DEF TypeOK
<1> HIDE DEF reward
<1>9. /\ modelWeightHead'[m] = r.candidate
      /\ rewardMinted'[m] - rewardMinted[m] =
           mintBudgetRemaining[m] - mintBudgetRemaining'[m]
  <2>1. /\ rewardMinted[m] \in Nat /\ mintBudgetRemaining[m] \in Nat
        /\ modelWeightHead'[m] = r.candidate
        /\ rewardMinted'[m] = rewardMinted[m] + reward
        /\ mintBudgetRemaining'[m] = mintBudgetRemaining[m] - reward
    BY <1>6, <1>7, <1>8 DEF TypeOK
  <2> QED BY <1>6, <2>1
<1>10. /\ r.key \notin processedIdempotencyKeys
       /\ r.key \in processedIdempotencyKeys'
       /\ r.baseline = CurrentHead(m)
  BY <1>7, <1>8 DEF AcceptRequest, ExtendsHead, Resolve
<1> QED BY <1>8, <1>9, <1>10

\* After the cutover every minted token comes with one fresh key, an equal
\* budget decrement and one lineage step from the evaluated head.
THEOREM OnlyAttestedAfterCutover == Spec => OnlyAttestedMintsAfterCutover
<1>1. TypeOK /\ [Next]_vars =>
        [\A m \in Models :
           legacyMintsDisabled /\ rewardMinted'[m] # rewardMinted[m] =>
             \E r \in Requests :
               /\ r.model = m
               /\ r.key \notin processedIdempotencyKeys
               /\ r.key \in processedIdempotencyKeys'
               /\ r.baseline = CurrentHead(m)
               /\ modelWeightHead'[m] = r.candidate
               /\ rewardMinted'[m] - rewardMinted[m] =
                    mintBudgetRemaining[m] - mintBudgetRemaining'[m]]_vars
  BY CutoverMint
<1> QED BY <1>1, TypeCorrect, PTL DEF Spec, OnlyAttestedMintsAfterCutover

-----------------------------------------------------------------------------
(* The contract implements the ledger.                                     *)

\* The lineage and paid-so-far functions that Ledger is instantiated with.
LineageMap == [m \in Models |-> CurrentHead(m)]
PaidMap == [m \in Models |-> rewardMinted[m] - legacyMinted[m]]

LEMMA LedgerInitially == Init => Ledger!LedgerInit
<1> SUFFICES ASSUME Init PROVE Ledger!LedgerInit
  OBVIOUS
<1>1. Payments = {} BY DEF Init, Payments
<1>2. LineageMap = [m \in Models |-> NoCommitment]
  BY DEF Init, LineageMap, CurrentHead
<1>3. PaidMap = [m \in Models |-> 0]
  BY DEF Init, PaidMap
<1> QED BY <1>1, <1>2, <1>3 DEF Init, LineageMap, PaidMap, Ledger!LedgerInit

\* A resolution that does not pay leaves the payments alone; one that pays
\* adds itself.
LEMMA PaymentsResolved ==
  ASSUME TypeOK, NEW r, NEW outcome, NEW reward, Resolve(r, outcome, reward)
  PROVE  Payments' = IF outcome = "minted"
           THEN Payments \union
                  {[key |-> r.key, model |-> r.model, parent |-> CurrentHead(r.model),
                    child |-> r.candidate, amount |-> reward]}
           ELSE Payments
<1> DEFINE entry == [req |-> r, outcome |-> outcome,
                     parent |-> CurrentHead(r.model), reward |-> reward]
           payment == [key |-> r.key, model |-> r.model,
                       parent |-> CurrentHead(r.model),
                       child |-> r.candidate, amount |-> reward]
<1>1. resolutions \in Seq(ResolutionType) BY DEF TypeOK
<1>0. PICK n \in Nat : n = Len(resolutions) + 1 BY <1>1
<1>2. resolutions' = Append(resolutions, entry) BY DEF Resolve
<1>3. /\ DOMAIN resolutions = 1..Len(resolutions)
      /\ DOMAIN resolutions' = 1..n
      /\ \A i \in 1..Len(resolutions) : resolutions'[i] = resolutions[i]
      /\ resolutions'[n] = entry
      /\ Len(resolutions) \in Nat
  BY <1>1, <1>2, <1>0
<1>4. PaymentAt(n)' = payment /\ resolutions'[n].outcome = outcome
  BY <1>3 DEF PaymentAt
<1>5. \A i \in DOMAIN resolutions :
        /\ PaymentAt(i)' = PaymentAt(i)
        /\ resolutions'[i].outcome = resolutions[i].outcome
  BY <1>3 DEF PaymentAt
<1>6. DOMAIN resolutions' = DOMAIN resolutions \union {n} BY <1>3, <1>0
<1>7. n \notin DOMAIN resolutions BY <1>3, <1>0
<1> HIDE DEF payment, entry
<1>8. Payments' = IF outcome = "minted" THEN Payments \union {payment} ELSE Payments
  BY <1>4, <1>5, <1>6, <1>7 DEF Payments
<1> QED BY <1>8 DEF payment

LEMMA LedgerDeclines ==
  ASSUME TypeOK, NEW r \in Requests, NEW sigs,
         RejectOnCost(r, sigs) \/ AcceptWithoutReward(r, sigs)
  PROVE  Ledger!Decline(r.key)
<1>1. PICK outcome \in {"no_delta", "budget_blocked"} : Resolve(r, outcome, 0)
  BY DEF RejectOnCost, AcceptWithoutReward
<1>2. Payments' = Payments BY <1>1, PaymentsResolved
<1>3. /\ r.key \notin processedIdempotencyKeys
      /\ UNCHANGED <<weightGenesis, modelWeightHead, mintBudgetRemaining,
                     rewardMinted, legacyMinted>>
  BY DEF RejectOnCost, AcceptWithoutReward, AcceptRequest, registry, legacy
<1>4. LineageMap' = LineageMap /\ PaidMap' = PaidMap
  BY <1>3 DEF LineageMap, PaidMap, CurrentHead
<1> QED BY <1>1, <1>2, <1>3, <1>4
        DEF Ledger!Decline, LineageMap, PaidMap, Resolve

LEMMA LedgerPays ==
  ASSUME TypeOK, NEW r \in Requests, NEW sigs, PayRequest(r, sigs)
  PROVE  Ledger!Pay(r.key, r.model, r.candidate)
<1> DEFINE m == r.model
           reward == RequestReward(r)
<1>1. m \in Models /\ reward \in Nat BY RequestFields, RequestRewardType
<1>2. r.candidate \in Commitments
  BY RequestFields DEF PayRequest, AcceptRequest, ExtendsHead, Heads
<1>3. /\ Resolve(r, "minted", reward)
      /\ reward > 0 /\ reward <= mintBudgetRemaining[m]
      /\ r.key \notin processedIdempotencyKeys
      /\ CurrentHead(m) # NoCommitment
      /\ modelWeightHead' = [modelWeightHead EXCEPT ![m] = r.candidate]
      /\ mintBudgetRemaining' = [mintBudgetRemaining EXCEPT ![m] = @ - reward]
      /\ rewardMinted' = [rewardMinted EXCEPT ![m] = @ + reward]
      /\ UNCHANGED <<weightGenesis, legacyMinted>>
  BY DEF PayRequest, AcceptRequest, ExtendsHead, WithinBudget, SpendBudget, Mint,
         registry, legacy
<1>4. Payments' = Payments \union
        {[key |-> r.key, model |-> m, parent |-> CurrentHead(m),
          child |-> r.candidate, amount |-> reward]}
  BY <1>3, PaymentsResolved
<1> HIDE DEF reward
<1>5. LineageMap' = [LineageMap EXCEPT ![m] = r.candidate]
  <2>1. r.candidate # NoCommitment BY <1>2, ConstantTypes DEF ConstantTypes
  <2>2. ASSUME NEW x \in Models
        PROVE  CurrentHead(x)' = IF x = m THEN r.candidate ELSE CurrentHead(x)
    BY <1>1, <1>3, <2>1 DEF CurrentHead, TypeOK
  <2> QED BY <1>1, <2>2 DEF LineageMap
<1>6. \A x \in Models : rewardMinted[x] - legacyMinted[x] \in Int
  BY DEF TypeOK
<1>7. /\ PaidMap' = [PaidMap EXCEPT ![m] = @ + reward]
      /\ PaidMap'[m] - PaidMap[m] = reward
  <2>1. ASSUME NEW x \in Models
        PROVE  rewardMinted'[x] - legacyMinted'[x] =
                 IF x = m THEN rewardMinted[x] - legacyMinted[x] + reward
                          ELSE rewardMinted[x] - legacyMinted[x]
    <3>1. /\ rewardMinted[x] \in Nat /\ legacyMinted[x] \in Nat
          /\ rewardMinted'[x] = IF x = m THEN rewardMinted[x] + reward ELSE rewardMinted[x]
          /\ legacyMinted'[x] = legacyMinted[x]
      BY <1>1, <1>3 DEF TypeOK
    <3> QED BY <1>1, <3>1
  <2> QED BY <1>1, <1>6, <2>1 DEF PaidMap
<1>8. LineageMap[m] = CurrentHead(m) BY <1>1 DEF LineageMap
<1> QED BY <1>1, <1>3, <1>4, <1>5, <1>7, <1>8
        DEF Ledger!Pay, LineageMap, PaidMap, Resolve

\* Nothing the ledger sees has changed.
LEMMA LedgerStutters ==
  ASSUME UNCHANGED <<processedIdempotencyKeys, resolutions, modelWeightHead,
                     weightGenesis, mintBudgetRemaining, PaidMap>>
  PROVE  UNCHANGED Ledger!lvars
<1>1. Payments' = Payments BY DEF Payments, PaymentAt
<1>2. LineageMap' = LineageMap BY DEF LineageMap, CurrentHead
<1> QED BY <1>1, <1>2 DEF Ledger!lvars, LineageMap, PaidMap

LEMMA LedgerLegacy ==
  ASSUME TypeOK, NEW m \in Models, NEW reward \in Nat, LegacyPay(m, reward)
  PROVE  PaidMap' = PaidMap
<1>1. CASE reward = 0
  BY <1>1 DEF LegacyPay, PaidMap
<1>2. CASE reward # 0
  <2>1. /\ rewardMinted' = [rewardMinted EXCEPT ![m] = @ + reward]
        /\ legacyMinted' = [legacyMinted EXCEPT ![m] = @ + reward]
    BY <1>2 DEF LegacyPay, Mint
  <2>2. ASSUME NEW x \in Models
        PROVE  rewardMinted'[x] - legacyMinted'[x] = rewardMinted[x] - legacyMinted[x]
    BY <2>1 DEF TypeOK
  <2> QED BY <2>2 DEF PaidMap
<1> QED BY <1>1, <1>2

LEMMA LedgerGrants ==
  ASSUME TypeOK, TypeOK', NEW m \in Models, NEW amount \in BudgetAmounts,
         SetMintBudget(m, amount) \/ TopUpMintBudget(m, amount)
  PROVE  Ledger!Grant(m)
<1>1. UNCHANGED <<processedIdempotencyKeys, resolutions, modelWeightHead,
                  weightGenesis, rewardMinted, legacyMinted>>
  BY DEF SetMintBudget, TopUpMintBudget, registry, legacy
<1>2. /\ Payments' = Payments /\ LineageMap' = LineageMap /\ PaidMap' = PaidMap
  BY <1>1 DEF Payments, PaymentAt, LineageMap, CurrentHead, PaidMap
<1>3. mintBudgetRemaining' =
        [mintBudgetRemaining EXCEPT ![m] = mintBudgetRemaining'[m]]
  BY DEF SetMintBudget, TopUpMintBudget, TypeOK
<1>4. mintBudgetRemaining'[m] \in Nat BY DEF TypeOK
<1> QED BY <1>1, <1>2, <1>3, <1>4 DEF Ledger!Grant, LineageMap, PaidMap

LEMMA LedgerSetsHead ==
  ASSUME TypeOK, NEW m \in Models, NEW c \in Commitments,
         ResetModelHead(m, c) \/ SetWeightGenesis(m, c)
  PROVE  Ledger!SetHead(m, c) \/ UNCHANGED Ledger!lvars
<1>1. UNCHANGED <<processedIdempotencyKeys, resolutions, mintBudgetRemaining,
                  rewardMinted, legacyMinted>>
  BY DEF ResetModelHead, SetWeightGenesis, ledger, legacy
<1>2. Payments' = Payments /\ PaidMap' = PaidMap
  BY <1>1 DEF Payments, PaymentAt, PaidMap
<1>3. c # NoCommitment BY ConstantTypes DEF ConstantTypes
<1>4. LineageMap' = [LineageMap EXCEPT ![m] = c] \/ LineageMap' = LineageMap
  <2>1. CASE ResetModelHead(m, c)
    <3>1. \A x \in Models :
            CurrentHead(x)' = IF x = m THEN c ELSE CurrentHead(x)
      BY <1>3, <2>1 DEF ResetModelHead, registry, CurrentHead, TypeOK
    <3> QED BY <3>1 DEF LineageMap
  <2>2. CASE SetWeightGenesis(m, c) /\ modelWeightHead[m] = NoCommitment
    <3>1. \A x \in Models :
            CurrentHead(x)' = IF x = m THEN c ELSE CurrentHead(x)
      BY <2>2 DEF SetWeightGenesis, ledger, CurrentHead, TypeOK
    <3> QED BY <3>1 DEF LineageMap
  <2>3. CASE SetWeightGenesis(m, c) /\ modelWeightHead[m] # NoCommitment
    <3>1. \A x \in Models : CurrentHead(x)' = CurrentHead(x)
      BY <2>3 DEF SetWeightGenesis, ledger, CurrentHead, TypeOK
    <3> QED BY <3>1 DEF LineageMap
  <2> QED BY <2>1, <2>2, <2>3
<1> QED BY <1>1, <1>2, <1>4 DEF Ledger!SetHead, Ledger!lvars, LineageMap, PaidMap

LEMMA LedgerStep ==
  ASSUME TypeOK, TypeOK', [Next]_vars
  PROVE  [Ledger!LedgerNext]_(Ledger!lvars)
<1> USE DEF Ledger!LedgerNext
<1>1. CASE Submit
  <2>1. PICK r \in Requests :
          \E sigs \in Submissions(r) : SubmitMintRequest(r, sigs)
    BY <1>1 DEF Submit
  <2>2. PICK sigs \in Submissions(r) : SubmitMintRequest(r, sigs)
    BY <2>1
  <2>3. r.key \in Keys /\ r.model \in Models BY RequestFields
  <2>4. CASE RejectOnCost(r, sigs) \/ AcceptWithoutReward(r, sigs)
    BY <2>3, <2>4, LedgerDeclines
  <2>5. CASE PayRequest(r, sigs)
    <3>1. r.candidate \in Commitments
      BY <2>5, RequestFields DEF PayRequest, AcceptRequest, ExtendsHead, Heads
    <3> QED BY <2>3, <2>5, <3>1, LedgerPays
  <2> QED BY <2>2, <2>4, <2>5 DEF SubmitMintRequest
<1>2. CASE LegacySubmit
  <2>1. UNCHANGED <<processedIdempotencyKeys, resolutions, modelWeightHead,
                    weightGenesis, mintBudgetRemaining>>
    BY <1>2, LegacyFrame DEF ledger, registry
  <2>2. PICK m \in Models, delta \in LegacyDeltas :
          \/ \E c \in Contributors, weight \in LegacyWeights :
               SubmitEvaluation(m, c, delta, weight)
          \/ SubmitEvaluationWithMultipleContributors(m, delta)
    BY <1>2 DEF LegacySubmit
  <2>3. PICK weight \in LegacyWeights \union {10000} :
          LegacyPay(m, RewardFor(m, delta, weight))
    BY <2>2 DEF SubmitEvaluation, SubmitEvaluationWithMultipleContributors
  <2>4. delta \in Nat /\ weight \in Nat BY ConstantTypes DEF ConstantTypes
  <2>5. RewardFor(m, delta, weight) \in Nat BY <2>4, RewardType, SMTT(30)
  <2>6. PaidMap' = PaidMap BY <2>3, <2>5, LedgerLegacy
  <2> QED BY <2>1, <2>6, LedgerStutters
<1>3. CASE GovernRewards
  <2>1. UNCHANGED <<processedIdempotencyKeys, resolutions, modelWeightHead,
                    weightGenesis, rewardMinted, legacyMinted>>
    BY <1>3, GovernRewardsFrame DEF legacy
  <2>2. PaidMap' = PaidMap BY <2>1 DEF PaidMap
  <2>3. CASE UNCHANGED mintBudgetRemaining
    BY <2>1, <2>2, <2>3, LedgerStutters
  <2>4. CASE \E m \in Models, amount \in BudgetAmounts :
               SetMintBudget(m, amount) \/ TopUpMintBudget(m, amount)
    BY <2>4, LedgerGrants
  <2> QED BY <1>3, <2>3, <2>4, GovernRewardsFrame
<1>4. CASE GovernModels
  <2>1. UNCHANGED <<processedIdempotencyKeys, resolutions, mintBudgetRemaining,
                    rewardMinted, legacyMinted>>
    BY <1>4, GovernModelsFrame DEF legacy
  <2>2. PaidMap' = PaidMap BY <2>1 DEF PaidMap
  <2>3. CASE UNCHANGED <<modelWeightHead, weightGenesis>>
    BY <2>1, <2>2, <2>3, LedgerStutters
  <2>4. CASE \E m \in Models, c \in Commitments :
               ResetModelHead(m, c) \/ SetWeightGenesis(m, c)
    BY <2>4, LedgerSetsHead
  <2> QED BY <1>4, <2>3, <2>4, GovernModelsFrame
<1>5. CASE GovernAttesters \/ Tick \/ UNCHANGED vars
  <2>1. UNCHANGED <<processedIdempotencyKeys, resolutions, modelWeightHead,
                    weightGenesis, mintBudgetRemaining, rewardMinted, legacyMinted>>
    BY <1>5, GovernAttestersFrame DEF Tick, vars, ledger, registry, legacy
  <2>2. PaidMap' = PaidMap BY <2>1 DEF PaidMap
  <2> QED BY <2>1, <2>2, LedgerStutters
<1> QED BY <1>1, <1>2, <1>3, <1>4, <1>5 DEF Next

\* Every behaviour of the contract is a behaviour of the abstract ledger:
\* one payment per key, on top of the current head, within the allowance.
THEOREM MintAuthorityImplementsLedger == Spec => ImplementsLedger
<1>1. TypeOK /\ TypeOK' /\ [Next]_vars => [Ledger!LedgerNext]_(Ledger!lvars)
  BY LedgerStep
<1> QED BY <1>1, LedgerInitially, TypeCorrect, PTL
        DEF Spec, ImplementsLedger, Ledger!LedgerSpec

=============================================================================
