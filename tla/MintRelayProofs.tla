--------------------------- MODULE MintRelayProofs ---------------------------
(***************************************************************************)
(* Theorems about MintRelay, for any number of requests, workers, retries, *)
(* failures, crashes and replays, and whatever governance does meanwhile.  *)
(***************************************************************************)
EXTENDS MintRelay, MintAuthorityProofs, CountingTheorems

-----------------------------------------------------------------------------
(* The inductive invariant.                                                *)

\* The states of a worker in which its request is resolved on chain.
Resolved == {"posting", "publishing", "committing"}

\* A worker holds a message while it works on one; from the receipt on, it
\* knows how its request was resolved, and a failure has a reason.
WorkerOK(w) ==
  /\ pc[w] = "idle" <=> held[w] = NoMessage
  /\ pc[w] \in Resolved =>
       /\ verdict[w] \in Outcomes /\ held[w].req.key \in processedIdempotencyKeys
       /\ verdict[w] = "minted" => held[w].req.key \in MintedKeys
  /\ pc[w] = "posting" => verdict[w] = "minted"
  /\ pc[w] = "failing" => verdict[w] \in Reasons \union Retriable

\* A transaction somebody waits for is that worker's only one, for its message.
WaitedFor(i) ==
  LET tx == mempool[i] IN
    tx.by # NoWorker =>
      /\ pc[tx.by] = "waiting" /\ held[tx.by].req = tx.req
      /\ \A j \in DOMAIN mempool : mempool[j].by = tx.by => j = i

ControlOK ==
  /\ IsABag(processing) /\ IsABag(deadLetters) /\ IsABag(settlements)
  /\ \A w \in Workers : WorkerOK(w)
  /\ \A i \in DOMAIN mempool : WaitedFor(i)

\* Worker w is about to announce the mint of key k.
Announcing(w, k) ==
  pc[w] \in {"posting", "publishing"} /\ verdict[w] = "minted" /\ held[w].req.key = k

MintOf(k) == [key |-> k, status |-> "minted"]

\* The worker that got the receipt of a mint announces it, and no other has.
MintsCounted ==
  /\ MintsAnnouncedOnce
  /\ \A k \in Keys : \A w \in Workers :
       Announcing(w, k) =>
         /\ Copies(MintOf(k), settlements) = 0
         /\ \A v \in Workers : Announcing(v, k) => v = w

\* The workers that hold a message, and those that have just buried it.
Holders(m) == {w \in Workers : held[w] = m}
Buriers(m) == {w \in Workers : held[w] = m /\ pc[w] = "burying"}

\* What a worker holds is in the processing list, unless its key is done.
HeldIsListed ==
  \A m \in Messages :
    m.req.key \notin processedSet => Cardinality(Holders(m)) <= Copies(m, processing)

\* A copy that nobody is about to take out of the processing list.
Kept(r) ==
  \E m \in Messages : m.req = r /\ Cardinality(Buriers(m)) < Copies(m, processing)

\* Where a request that is not done or discarded is found.
Inbound(r) == \E i \in DOMAIN inbound : inbound[i].req = r
Retrying(r) == \E m \in retryQueue : m.req = r
Found(r) == Inbound(r) \/ Retrying(r) \/ Kept(r) \/ Buried(r)

AllFound ==
  \A r \in delivered : r \in discarded \/ r.key \in processedSet \/ Found(r)

RelayInv ==
  /\ TypeOK /\ KeysResolveOnce /\ RelayTypeOK /\ ControlOK
  /\ DoneMeansResolved /\ MintsCounted /\ HeldIsListed /\ AllFound

-----------------------------------------------------------------------------
(* Messages, and the chain under the relay.                                *)

LEMMA RetryBound ==
  /\ MostRetries \in Nat /\ maxRetries \in Nat /\ budgetMaxRetries \in Nat
  /\ maxRetries <= MostRetries /\ budgetMaxRetries <= MostRetries
BY RelayConstants DEF RelayConstants, MostRetries

LEMMA MessageFields ==
  ASSUME NEW m \in Messages
  PROVE  m.req \in Requests /\ m.req.key \in Keys /\ m.tries \in 0..MostRetries
BY RequestFields DEF Messages

LEMMA FreshMessage ==
  ASSUME NEW r \in Requests
  PROVE  [req |-> r, tries |-> 0] \in Messages
BY RetryBound DEF Messages

LEMMA RetriedMessage ==
  ASSUME NEW m \in Messages, m.tries < MostRetries
  PROVE  NextTry(m) \in Messages /\ NextTry(m).req = m.req
BY RetryBound DEF Messages, NextTry

LEMMA ReplayedMessage ==
  ASSUME NEW m \in Messages
  PROVE  [m EXCEPT !.tries = 0] \in Messages /\ [m EXCEPT !.tries = 0].req = m.req
BY RetryBound DEF Messages

Transactions == [req : Requests, by : Workers \union {NoWorker}]

\* The oldest transaction.
LEMMA OldestTransaction ==
  ASSUME RelayTypeOK, mempool # <<>>
  PROVE  /\ Head(mempool) \in Transactions /\ Tail(mempool) \in Seq(Transactions)
         /\ Head(mempool).req \in Requests /\ Head(mempool).by \in Workers \union {NoWorker}
         /\ 1 \in DOMAIN mempool /\ Head(mempool) = mempool[1]
         /\ \A i \in DOMAIN Tail(mempool) :
              i + 1 \in DOMAIN mempool /\ Tail(mempool)[i] = mempool[i + 1] /\ i + 1 # 1
<1>1. mempool \in Seq(Transactions)
  BY DEF RelayTypeOK, Transactions
<1>2. /\ Head(mempool) \in Transactions /\ Tail(mempool) \in Seq(Transactions)
      /\ 1 \in DOMAIN mempool /\ Head(mempool) = mempool[1]
      /\ \A i \in DOMAIN Tail(mempool) :
           i + 1 \in DOMAIN mempool /\ Tail(mempool)[i] = mempool[i + 1] /\ i + 1 # 1
  BY <1>1
<1>3. Head(mempool).req \in Requests /\ Head(mempool).by \in Workers \union {NoWorker}
  BY <1>2 DEF Transactions
<1> QED BY <1>2, <1>3

\* What a mined request leaves on the chain.
ResolvesAs(r, outcome) ==
  /\ outcome \in {"minted", "no_delta", "budget_blocked"}
  /\ r.key \notin processedIdempotencyKeys
  /\ processedIdempotencyKeys' = processedIdempotencyKeys \union {r.key}
  /\ resolutions' # resolutions /\ resolutions'[Len(resolutions')].outcome = outcome
  /\ MintedKeys' = IF outcome = "minted" THEN MintedKeys \union {r.key} ELSE MintedKeys

LEMMA Resolving ==
  ASSUME TypeOK, NEW r \in Requests, NEW outcome \in {"minted", "no_delta", "budget_blocked"},
         NEW reward, Resolve(r, outcome, reward), r.key \notin processedIdempotencyKeys
  PROVE  ResolvesAs(r, outcome)
<1> DEFINE n == Len(resolutions)
           new == [req |-> r, outcome |-> outcome,
                   parent |-> CurrentHead(r.model), reward |-> reward]
<1>1. resolutions \in Seq(ResolutionType) /\ resolutions' = Append(resolutions, new)
  BY DEF TypeOK, Resolve
<1>2. new.outcome = outcome /\ new.req = r
  OBVIOUS
<1> HIDE DEF new
<1>3. /\ n \in Nat /\ DOMAIN resolutions = 1..n
      /\ DOMAIN resolutions' = 1..(n + 1) /\ Len(resolutions') = n + 1
      /\ resolutions'[n + 1] = new
      /\ \A i \in 1..n : resolutions'[i] = resolutions[i]
  BY <1>1
<1>4. resolutions' # resolutions
  BY <1>3
<1>5. ASSUME NEW k
      PROVE  k \in MintedKeys' <=> k \in MintedKeys \/ (outcome = "minted" /\ k = r.key)
  <2>1. k \in MintedKeys' <=> \E i \in 1..(n + 1) : resolutions'[i].outcome = "minted"
                                                    /\ resolutions'[i].req.key = k
    BY <1>3 DEF MintedKeys
  <2>2. k \in MintedKeys <=> \E i \in 1..n : resolutions[i].outcome = "minted"
                                             /\ resolutions[i].req.key = k
    BY <1>3 DEF MintedKeys
  <2>3. \A i \in 1..(n + 1) : i \in 1..n \/ i = n + 1
    BY <1>3
  <2>4. n + 1 \in 1..(n + 1) /\ \A i \in 1..n : i \in 1..(n + 1)
    BY <1>3
  <2> QED BY <1>2, <1>3, <2>1, <2>2, <2>3, <2>4
<1> QED BY <1>2, <1>3, <1>4, <1>5 DEF ResolvesAs, Resolve

LEMMA SubmissionResolves ==
  ASSUME TypeOK, NEW r \in Requests, NEW sigs, SubmitMintRequest(r, sigs)
  PROVE  \E outcome : ResolvesAs(r, outcome)
<1>1. r.key \notin processedIdempotencyKeys
  BY SubmitFrame DEF AcceptRequest
<1>2. \E outcome \in {"minted", "no_delta", "budget_blocked"} : \E reward :
        Resolve(r, outcome, reward)
  BY DEF SubmitMintRequest, RejectOnCost, AcceptWithoutReward, PayRequest
<1> QED BY <1>1, <1>2, Resolving

\* Whatever happens under the relay, the chain keeps its invariants, and a key
\* that is resolved or minted stays so.
LEMMA ChainStepInNext ==
  ASSUME ChainStep
  PROVE  Next /\ UNCHANGED <<processedIdempotencyKeys, resolutions>> /\ UNCHANGED relay
<1>1. Next
  BY DEF ChainStep, Unpause, Next, GovernAttesters, GovernRewards, GovernModels
<1>2. UNCHANGED <<processedIdempotencyKeys, resolutions>>
  BY DEF ChainStep, Unpause, SetPaused, Tick, TopUpMintBudget, ResetModelHead, SetModelStatus,
     ledger
<1> QED BY <1>1, <1>2 DEF ChainStep, Unpause

WorkerAction(w) == WorkerStep(w) \/ Failure(w)

LEMMA RelayFrame ==
  ASSUME \/ \E r \in Requests : Deliver(r)
         \/ \E w \in Workers : WorkerAction(w)
         \/ OperatorStep
  PROVE  UNCHANGED vars
BY ZenonT(30) DEF Deliver, WorkerAction, WorkerStep, Failure, OperatorStep, Take, Screen, SkipProcessed,
   AnswerReplay, Refused, Send, PostSettlements, Publish, Commit, Reschedule, Bury, Unlist,
   ReadDue, PromoteDueRetry, PromotionFails, TakeReplyLost, Strand, RecordFails, RpcFails,
   WaitFails, PostFails, RedisFails, Crash, ValidateReplay, Discard, ExecuteReplay

LEMMA MintedKeysKept ==
  ASSUME UNCHANGED resolutions
  PROVE  MintedKeys' = MintedKeys
BY DEF MintedKeys

LEMMA ChainKept ==
  ASSUME TypeOK, KeysResolveOnce, RelayTypeOK, RelayNext
  PROVE  /\ TypeOK' /\ KeysResolveOnce'
         /\ processedIdempotencyKeys \subseteq processedIdempotencyKeys'
         /\ MintedKeys \subseteq MintedKeys'
<1>1. CASE UNCHANGED vars
  <2>1. TypeOK' /\ KeysResolveOnce'
    BY <1>1, TypeStep, KeysStep
  <2>2. UNCHANGED <<processedIdempotencyKeys, resolutions>>
    BY <1>1 DEF vars, ledger
  <2> QED BY <2>1, <2>2, MintedKeysKept
<1>2. CASE ChainStep
  BY <1>2, ChainStepInNext, TypeStep, KeysStep, MintedKeysKept
<1>3. CASE Mine
  <2> DEFINE tx == Head(mempool)
  <2>3. tx.req \in Requests
    BY <1>3, OldestTransaction DEF Mine
  <2>4. CASE SubmitMintRequest(tx.req, Carried[tx.req])
    <3> HIDE DEF tx
    <3>1. TypeOK'
      BY <2>3, <2>4, SubmissionType
    <3>2. PICK outcome : ResolvesAs(tx.req, outcome)
      BY <2>3, <2>4, SubmissionResolves
    <3>3. KeysResolveOnce'
      <4>1. PICK o, reward : Resolve(tx.req, o, reward)
        BY <2>4 DEF SubmitMintRequest, RejectOnCost, AcceptWithoutReward, PayRequest
      <4> QED BY <2>3, <3>2, <4>1, KeysResolved DEF ResolvesAs
    <3> QED BY <3>1, <3>2, <3>3 DEF ResolvesAs
  <2> QED BY <1>1, <1>3, <2>4 DEF Mine
<1> QED BY <1>1, <1>2, <1>3, RelayFrame DEF RelayNext, WorkerAction

-----------------------------------------------------------------------------
(* The control state of the workers.                                       *)

States == {"idle", "taken", "handling", "waiting", "posting",
           "publishing", "committing", "failing", "burying"}
Verdicts == Outcomes \union Reasons \union Retriable \union {"none"}

\* Worker w lands in state s with message m and verdict v; the others stay.
Lands(w, s, m, v) ==
  /\ pc' = [pc EXCEPT ![w] = s]
  /\ held' = [held EXCEPT ![w] = m]
  /\ verdict' = [verdict EXCEPT ![w] = v]

LEMMA GotoLands ==
  ASSUME RelayTypeOK, NEW w \in Workers, NEW s, NEW v, Goto(w, s, v)
  PROVE  Lands(w, s, held[w], v)
BY DEF RelayTypeOK, Goto, Lands

LEMMA LandedAt ==
  ASSUME RelayTypeOK, NEW w \in Workers, NEW s, NEW m, NEW v, Lands(w, s, m, v)
  PROVE  /\ pc'[w] = s /\ held'[w] = m /\ verdict'[w] = v
         /\ \A u \in Workers \ {w} :
              pc'[u] = pc[u] /\ held'[u] = held[u] /\ verdict'[u] = verdict[u]
BY DEF RelayTypeOK, Lands

\* A worker that is not idle holds a message.
LEMMA HoldsMessage ==
  ASSUME RelayTypeOK, ControlOK, NEW w \in Workers, pc[w] # "idle"
  PROVE  /\ held[w] \in Messages /\ held[w] # NoMessage
         /\ held[w].req \in Requests /\ held[w].req.key \in Keys
<1>1. held[w] \in Messages /\ held[w] # NoMessage
  BY DEF RelayTypeOK, ControlOK, WorkerOK
<1> QED BY <1>1, MessageFields

\* The state, message and verdict go together, as the chain stands after the step.
Fits(s, m, v) ==
  /\ s \in States /\ m \in Messages \union {NoMessage} /\ v \in Verdicts
  /\ s = "idle" <=> m = NoMessage
  /\ s \in Resolved =>
       /\ v \in Outcomes /\ m.req.key \in processedIdempotencyKeys'
       /\ v = "minted" => m.req.key \in MintedKeys'
  /\ s = "posting" => v = "minted"
  /\ s = "failing" => v \in Reasons \union Retriable

LocalOK ==
  /\ pc \in [Workers -> States]
  /\ held \in [Workers -> Messages \union {NoMessage}]
  /\ verdict \in [Workers -> Verdicts]
  /\ \A w \in Workers : WorkerOK(w)

LEMMA LandedFits ==
  ASSUME RelayTypeOK, ControlOK, NEW w \in Workers, NEW s, NEW m, NEW v,
         Lands(w, s, m, v), Fits(s, m, v),
         processedIdempotencyKeys \subseteq processedIdempotencyKeys',
         MintedKeys \subseteq MintedKeys'
  PROVE  LocalOK'
<1>1. /\ pc' \in [Workers -> States]
      /\ held' \in [Workers -> Messages \union {NoMessage}]
      /\ verdict' \in [Workers -> Verdicts]
  BY DEF RelayTypeOK, Lands, Fits, States, Verdicts
<1>2. /\ pc'[w] = s /\ held'[w] = m /\ verdict'[w] = v
      /\ \A u \in Workers \ {w} :
           pc'[u] = pc[u] /\ held'[u] = held[u] /\ verdict'[u] = verdict[u]
  BY LandedAt
<1>3. ASSUME NEW u \in Workers PROVE WorkerOK(u)'
  <2>1. CASE u = w
    BY <1>2, <2>1 DEF WorkerOK, Fits
  <2>2. CASE u # w
    <3>1. pc'[u] = pc[u] /\ held'[u] = held[u] /\ verdict'[u] = verdict[u] /\ WorkerOK(u)
      BY <1>2, <2>2 DEF ControlOK
    <3> QED BY <3>1 DEF WorkerOK
  <2> QED BY <2>1, <2>2
<1> QED BY <1>1, <1>3 DEF LocalOK

\* Where each action of a worker leads.
Takes(w) == Take(w) /\ Lands(w, "taken", inbound[Len(inbound)], verdict[w])

Proceeds(w) ==
  \/ /\ Screen(w) /\ pc[w] = "taken"
     /\ \/ Lands(w, "failing", held[w], "schema")
        \/ Lands(w, "handling", held[w], "none")
  \/ /\ AnswerReplay(w) /\ pc[w] = "handling" /\ held[w].req.key \in processedIdempotencyKeys
     /\ Lands(w, "publishing", held[w], "replay")
  \/ /\ Refused(w) /\ pc[w] = "handling"
     /\ \E v \in {"budget", "reverted", "signer_not_attester"} : Lands(w, "failing", held[w], v)
  \/ Send(w) /\ pc[w] = "handling" /\ Lands(w, "waiting", held[w], "none")
  \/ RpcFails(w) /\ pc[w] = "handling" /\ Lands(w, "failing", held[w], "transient")
  \/ WaitFails(w) /\ pc[w] = "waiting" /\ Lands(w, "failing", held[w], "unknown_outcome")
  \/ PostSettlements(w) /\ pc[w] = "posting" /\ Lands(w, "publishing", held[w], verdict[w])
  \/ PostFails(w) /\ pc[w] = "posting" /\ Lands(w, "failing", held[w], "auth_failed")
  \/ Publish(w) /\ pc[w] = "publishing" /\ Lands(w, "committing", held[w], verdict[w])
  \/ /\ RedisFails(w) /\ pc[w] \in {"publishing", "committing"}
     /\ Lands(w, "failing", held[w], "transient")
  \/ Bury(w) /\ pc[w] = "failing" /\ Lands(w, "burying", held[w], ReasonOf(w))

Leaves(w) ==
  /\ \/ SkipProcessed(w) \/ Commit(w) \/ Reschedule(w) \/ Unlist(w) \/ Crash(w)
     \/ Strand(w) \/ RecordFails(w)
  /\ pc[w] # "idle"
  /\ Lands(w, "idle", NoMessage, "none")

\* What a worker does before it has a message in hand.
Promotes(w) ==
  /\ \E m \in due[w] : Promote(m)
  /\ UNCHANGED <<processing, deadLetters, processedSet, operator, delivered>>

Beforehand(w) ==
  \/ ReadDue(w) \/ TakeReplyLost(w)
  \/ \E m \in due[w] : PromoteDueRetry(w, m) \/ PromotionFails(w, m)

LEMMA BeforehandFrame ==
  ASSUME NEW w \in Workers, Beforehand(w)
  PROVE  UNCHANGED <<vars, local, mempool, outputs, processedSet>>
BY DEF Beforehand, ReadDue, TakeReplyLost, PromoteDueRetry, PromotionFails, queues

LEMMA WorkerLands ==
  ASSUME RelayTypeOK, NEW w \in Workers, WorkerAction(w)
  PROVE  Takes(w) \/ Proceeds(w) \/ Leaves(w) \/ Beforehand(w)
<1>1. CASE Take(w)
  BY <1>1 DEF Take, Takes, Lands, RelayTypeOK
<1>2. CASE \/ Screen(w) \/ AnswerReplay(w) \/ Refused(w) \/ Send(w) \/ PostSettlements(w)
           \/ Publish(w)
  BY <1>2, GotoLands DEF Proceeds, Screen, AnswerReplay, Refused, RevertReason, Send,
     PostSettlements, Publish
<1>3. CASE RpcFails(w) \/ WaitFails(w) \/ PostFails(w) \/ RedisFails(w) \/ Bury(w)
  BY <1>3, GotoLands DEF Proceeds, RpcFails, WaitFails, PostFails, RedisFails, Bury
<1>4. CASE \/ SkipProcessed(w) \/ Commit(w) \/ Reschedule(w) \/ Unlist(w) \/ Crash(w)
           \/ Strand(w) \/ RecordFails(w)
  BY <1>4 DEF Leaves, SkipProcessed, Commit, Reschedule, Unlist, Crash, Strand, RecordFails,
     Finish, Lands
<1> QED BY <1>1, <1>2, <1>3, <1>4 DEF WorkerAction, WorkerStep, Failure, Beforehand

\* A mined transaction moves the worker that waits for it.
MineLands(tx) ==
  \/ UNCHANGED local /\ (tx.by = NoWorker)
  \/ /\ tx.by # NoWorker /\ UNCHANGED resolutions
     /\ Lands(tx.by, "failing", held[tx.by], "reverted")
  \/ /\ tx.by # NoWorker
     /\ \E outcome : /\ ResolvesAs(tx.req, outcome)
                     /\ Lands(tx.by, IF outcome = "minted" THEN "posting" ELSE "publishing",
                              held[tx.by], outcome)

LEMMA MinedLands ==
  ASSUME TypeOK, RelayTypeOK, Mine
  PROVE  /\ MineLands(Head(mempool))
         /\ UNCHANGED resolutions \/ \E outcome : ResolvesAs(Head(mempool).req, outcome)
<1> DEFINE tx == Head(mempool)
<1>1. mempool # <<>> /\ tx.req \in Requests /\ tx.by \in Workers \union {NoWorker}
  BY OldestTransaction DEF Mine
<1>2. UNCHANGED resolutions \/ \E outcome : ResolvesAs(tx.req, outcome)
  <2>1. CASE SubmitMintRequest(tx.req, Carried[tx.req])
    <3> HIDE DEF tx
    <3> QED BY <1>1, <2>1, SubmissionResolves
  <2>2. CASE UNCHANGED vars
    BY <2>2 DEF vars, ledger
  <2> QED BY <2>1, <2>2 DEF Mine
<1>3. IF tx.by = NoWorker THEN UNCHANGED local
      ELSE IF resolutions' = resolutions THEN Goto(tx.by, "failing", "reverted")
      ELSE LET outcome == resolutions'[Len(resolutions')].outcome IN
             Goto(tx.by, IF outcome = "minted" THEN "posting" ELSE "publishing", outcome)
  BY DEF Mine
<1> HIDE DEF tx
<1>4. MineLands(tx)
  <2>1. CASE tx.by = NoWorker
    BY <1>3, <2>1 DEF MineLands
  <2>2. CASE tx.by # NoWorker /\ resolutions' = resolutions
    BY <1>1, <1>3, <2>2, GotoLands DEF MineLands
  <2>3. CASE tx.by # NoWorker /\ resolutions' # resolutions
    <3>1. PICK outcome : ResolvesAs(tx.req, outcome)
      BY <1>2, <2>3
    <3>2. Goto(tx.by, IF outcome = "minted" THEN "posting" ELSE "publishing", outcome)
      BY <1>3, <2>3, <3>1 DEF ResolvesAs
    <3>3. Lands(tx.by, IF outcome = "minted" THEN "posting" ELSE "publishing",
                held[tx.by], outcome)
      BY <1>1, <2>3, <3>2, GotoLands
    <3> QED BY <2>3, <3>1, <3>3 DEF MineLands
  <2> QED BY <2>1, <2>2, <2>3
<1> QED BY <1>2, <1>4 DEF tx

LEMMA LocalStep ==
  ASSUME TypeOK, KeysResolveOnce, RelayTypeOK, ControlOK, RelayNext
  PROVE  LocalOK'
<1> processedIdempotencyKeys \subseteq processedIdempotencyKeys' /\ MintedKeys \subseteq MintedKeys'
  BY ChainKept
<1> NoMessage \notin Messages
  BY RelayConstants DEF RelayConstants
<1>1. CASE UNCHANGED local
  <2>1. \A w \in Workers : WorkerOK(w)'
    BY <1>1 DEF ControlOK, WorkerOK, local
  <2> QED BY <1>1, <2>1 DEF LocalOK, RelayTypeOK, local, States, Verdicts
<1>2. CASE Mine
  <2> DEFINE tx == Head(mempool)
  <2>1. MineLands(tx) /\ tx.by \in Workers \union {NoWorker}
    BY <1>2, MinedLands, OldestTransaction DEF Mine
  <2>2. ASSUME tx.by # NoWorker
        PROVE  pc[tx.by] = "waiting" /\ held[tx.by].req = tx.req
    BY <1>2, <2>2, OldestTransaction DEF ControlOK, WaitedFor, Mine
  <2> HIDE DEF tx
  <2>3. CASE UNCHANGED local
    BY <1>1, <2>3
  <2>4. CASE tx.by # NoWorker /\ Lands(tx.by, "failing", held[tx.by], "reverted")
    <3>1. tx.by \in Workers /\ held[tx.by] \in Messages
      BY <2>1, <2>2, <2>4, HoldsMessage
    <3>2. Fits("failing", held[tx.by], "reverted")
      BY <3>1 DEF Fits, States, Verdicts, Resolved, Reasons
    <3> QED BY <2>4, <3>1, <3>2, LandedFits
  <2>5. CASE /\ tx.by # NoWorker
             /\ \E outcome : /\ ResolvesAs(tx.req, outcome)
                             /\ Lands(tx.by, IF outcome = "minted" THEN "posting" ELSE "publishing",
                                      held[tx.by], outcome)
    <3>1. PICK outcome : /\ ResolvesAs(tx.req, outcome)
                         /\ Lands(tx.by, IF outcome = "minted" THEN "posting" ELSE "publishing",
                                  held[tx.by], outcome)
      BY <2>5
    <3>2. tx.by \in Workers /\ held[tx.by] \in Messages /\ held[tx.by].req = tx.req
      BY <2>1, <2>2, <2>5, HoldsMessage
    <3>3. Fits(IF outcome = "minted" THEN "posting" ELSE "publishing", held[tx.by], outcome)
      BY <3>1, <3>2 DEF Fits, States, Verdicts, Resolved, Outcomes, ResolvesAs
    <3> QED BY <3>1, <3>2, <3>3, LandedFits
  <2> QED BY <2>1, <2>3, <2>4, <2>5 DEF MineLands
<1>3. ASSUME NEW w \in Workers, Takes(w) PROVE LocalOK'
  <2> DEFINE m == inbound[Len(inbound)]
  <2>1. m \in Messages
    <3>1. inbound \in Seq(Messages) /\ inbound # <<>>
      BY <1>3 DEF RelayTypeOK, Takes, Take
    <3> QED BY <3>1
  <2>2. Lands(w, "taken", m, verdict[w]) /\ verdict[w] \in Verdicts
    BY <1>3 DEF Takes, RelayTypeOK, Verdicts
  <2> HIDE DEF m
  <2>3. Fits("taken", m, verdict[w])
    BY <2>1, <2>2 DEF Fits, States, Resolved
  <2> QED BY <2>2, <2>3, LandedFits
<1>4. ASSUME NEW w \in Workers, Proceeds(w) PROVE LocalOK'
  <2>1. pc[w] # "idle" /\ WorkerOK(w)
    BY <1>4 DEF Proceeds, ControlOK
  <2>2. held[w] \in Messages
    BY <2>1, HoldsMessage
  <2>3. \E s, v : Lands(w, s, held[w], v) /\ Fits(s, held[w], v)
    <3> USE DEF Fits, States, Verdicts, Resolved, Outcomes, Reasons, Retriable
    <3>1. CASE pc[w] = "taken"
      BY <1>4, <2>2, <3>1 DEF Proceeds
    <3>2. CASE pc[w] = "handling"
      <4>1. CASE /\ held[w].req.key \in processedIdempotencyKeys
                 /\ Lands(w, "publishing", held[w], "replay")
        BY <2>2, <4>1
      <4>2. CASE \E v \in {"budget", "reverted", "signer_not_attester", "transient"} :
                   Lands(w, "failing", held[w], v)
        BY <2>2, <4>2
      <4>3. CASE Lands(w, "waiting", held[w], "none")
        BY <2>2, <4>3
      <4> QED BY <1>4, <3>2, <4>1, <4>2, <4>3 DEF Proceeds
    <3>3. CASE pc[w] = "waiting"
      BY <1>4, <2>2, <3>3 DEF Proceeds
    <3>4. CASE pc[w] = "posting"
      BY <1>4, <2>1, <2>2, <3>4 DEF Proceeds, WorkerOK
    <3>5. CASE pc[w] = "publishing"
      BY <1>4, <2>1, <2>2, <3>5 DEF Proceeds, WorkerOK
    <3>6. CASE pc[w] = "committing"
      BY <1>4, <2>1, <2>2, <3>6 DEF Proceeds, WorkerOK
    <3>7. CASE pc[w] = "failing"
      <4>1. Lands(w, "burying", held[w], ReasonOf(w))
        BY <1>4, <3>7 DEF Proceeds
      <4>2. ReasonOf(w) \in Reasons
        BY <2>1, <3>7 DEF WorkerOK, ReasonOf
      <4>3. Fits("burying", held[w], ReasonOf(w))
        BY <2>2, <4>2
      <4> QED BY <4>1, <4>3
    <3> QED BY <1>4, <3>1, <3>2, <3>3, <3>4, <3>5, <3>6, <3>7 DEF Proceeds
  <2> QED BY <2>3, LandedFits
<1>5. ASSUME NEW w \in Workers, Leaves(w) PROVE LocalOK'
  <2>1. Fits("idle", NoMessage, "none")
    BY DEF Fits, States, Verdicts, Resolved
  <2> QED BY <1>5, <2>1, LandedFits DEF Leaves
<1>6. ASSUME \/ \E r \in Requests : Deliver(r)
             \/ OperatorStep \/ ChainStep
             \/ \E w \in Workers : Beforehand(w)
      PROVE  UNCHANGED local
  BY <1>6, BeforehandFrame DEF Deliver, OperatorStep, ValidateReplay, Discard, ExecuteReplay,
     ChainStep, Unpause, relay
<1> QED BY <1>1, <1>2, <1>3, <1>4, <1>5, <1>6, WorkerLands DEF RelayNext, WorkerAction

-----------------------------------------------------------------------------
(* Transactions and who waits for them.                                    *)

LEMMA SentBy ==
  ASSUME NEW pool \in Seq(Transactions), NEW i \in DOMAIN pool
  PROVE  pool[i].by \in Workers \union {NoWorker}
<1>1. pool[i] \in Transactions
  OBVIOUS
<1> QED BY <1>1 DEF Transactions

MempoolOK ==
  mempool \in Seq(Transactions) /\ \A i \in DOMAIN mempool : WaitedFor(i)

\* All workers but w stay as they are.
OthersStay(w) ==
  \A u \in Workers \ {w} : pc'[u] = pc[u] /\ held'[u] = held[u] /\ verdict'[u] = verdict[u]

LEMMA MempoolKept ==
  ASSUME RelayTypeOK, ControlOK, UNCHANGED mempool, NEW w \in Workers,
         OthersStay(w), UNCHANGED local \/ pc[w] # "waiting"
  PROVE  MempoolOK'
<1>1. mempool \in Seq(Transactions)
  BY DEF RelayTypeOK, Transactions
<1>2. ASSUME NEW i \in DOMAIN mempool PROVE WaitedFor(i)'
  <2>1. mempool[i].by \in Workers \union {NoWorker}
    BY <1>1, SentBy
  <2>2. WaitedFor(i)
    BY DEF ControlOK
  <2> QED BY <2>1, <2>2 DEF WaitedFor, OthersStay, local
<1> QED BY <1>1, <1>2 DEF MempoolOK

\* A worker sends its transaction and waits, or does not know that it was sent.
LEMMA MempoolSent ==
  ASSUME RelayTypeOK, ControlOK, NEW w \in Workers, pc[w] = "handling", OthersStay(w),
         NEW by \in {w, NoWorker}, mempool' = Append(mempool, [req |-> held[w].req, by |-> by]),
         by = w => pc'[w] = "waiting" /\ held'[w] = held[w]
  PROVE  MempoolOK'
<1> DEFINE new == [req |-> held[w].req, by |-> by]
           n == Len(mempool)
<1>1. mempool \in Seq(Transactions)
  BY DEF RelayTypeOK, Transactions
<1>2. new \in Transactions /\ new.by = by /\ new.req = held[w].req
  BY HoldsMessage DEF Transactions
<1> HIDE DEF new
<1>3. mempool' = Append(mempool, new)
  BY DEF new
<1>4. /\ mempool' \in Seq(Transactions) /\ n \in Nat
      /\ DOMAIN mempool = 1..n /\ DOMAIN mempool' = 1..(n + 1)
      /\ mempool'[n + 1] = new /\ \A i \in 1..n : mempool'[i] = mempool[i]
  BY <1>1, <1>2, <1>3
<1> HIDE DEF n
<1>5. ASSUME NEW i \in 1..n
      PROVE  /\ mempool[i].by # w
             /\ mempool[i].by # NoWorker =>
                  /\ pc'[mempool[i].by] = "waiting" /\ held'[mempool[i].by].req = mempool[i].req
                  /\ \A j \in 1..n : mempool[j].by = mempool[i].by => j = i
  <2>1. mempool[i].by \in Workers \union {NoWorker}
    BY <1>1, <1>4, SentBy
  <2>2. WaitedFor(i)
    BY <1>4 DEF ControlOK
  <2>3. NoWorker # w
    BY RelayConstants DEF RelayConstants
  <2> QED BY <1>4, <2>1, <2>2, <2>3 DEF WaitedFor, OthersStay
<1>6. ASSUME NEW i \in DOMAIN mempool' PROVE WaitedFor(i)'
  <2>1. CASE i \in 1..n
    <3>1. \A j \in DOMAIN mempool' : mempool'[j].by = mempool[i].by
                                     /\ mempool[i].by # NoWorker => j = i
      <4>1. \A j \in DOMAIN mempool' : j \in 1..n \/ j = n + 1
        BY <1>4
      <4> QED BY <1>2, <1>4, <1>5, <2>1, <4>1
    <3> QED BY <1>4, <1>5, <2>1, <3>1 DEF WaitedFor
  <2>2. CASE i = n + 1
    <3>1. \A j \in DOMAIN mempool' : j \in 1..n \/ j = n + 1
      BY <1>4
    <3>2. by # NoWorker => by = w
      OBVIOUS
    <3> QED BY <1>2, <1>4, <1>5, <2>2, <3>1, <3>2 DEF WaitedFor
  <2> QED BY <1>4, <2>1, <2>2
<1> QED BY <1>4, <1>6 DEF MempoolOK

\* A worker stops waiting, and its transaction is an orphan.
LEMMA MempoolOrphaned ==
  ASSUME RelayTypeOK, ControlOK, NEW w \in Workers, OthersStay(w),
         mempool' = Orphaned(mempool, w)
  PROVE  MempoolOK'
<1>1. mempool \in Seq(Transactions)
  BY DEF RelayTypeOK, Transactions
<1>2. /\ DOMAIN mempool' = DOMAIN mempool
      /\ \A i \in DOMAIN mempool :
           mempool'[i] = IF mempool[i].by = w THEN [mempool[i] EXCEPT !.by = NoWorker]
                                              ELSE mempool[i]
  BY DEF Orphaned
<1>3. ASSUME NEW i \in DOMAIN mempool
      PROVE  /\ mempool'[i] \in Transactions
             /\ mempool[i].by = w => mempool'[i].by = NoWorker
             /\ mempool[i].by # w => mempool'[i] = mempool[i]
  <2>1. mempool[i] \in Transactions
    BY <1>1
  <2> QED BY <1>2, <2>1 DEF Transactions
<1>4. mempool' \in Seq(Transactions)
  <2>1. DOMAIN mempool = 1..Len(mempool) /\ Len(mempool) \in Nat
    BY <1>1
  <2>2. mempool' = [i \in 1..Len(mempool) |-> mempool'[i]]
    BY <2>1 DEF Orphaned
  <2> HIDE <1>1
  <2> QED BY <1>3, <2>1, <2>2
<1>5. ASSUME NEW i \in DOMAIN mempool PROVE WaitedFor(i)'
  <2>1. mempool[i].by \in Workers \union {NoWorker}
    BY <1>1, SentBy
  <2>2. WaitedFor(i)
    BY DEF ControlOK
  <2>3. \A j \in DOMAIN mempool : mempool'[j].by # NoWorker => mempool'[j].by = mempool[j].by
    BY <1>3
  <2> QED BY <1>2, <1>3, <2>1, <2>2, <2>3 DEF WaitedFor, OthersStay
<1> QED BY <1>2, <1>4, <1>5 DEF MempoolOK

LEMMA MempoolMined ==
  ASSUME TypeOK, RelayTypeOK, ControlOK, Mine
  PROVE  MempoolOK'
<1> DEFINE tx == Head(mempool)
<1>1. /\ mempool \in Seq(Transactions) /\ mempool' = Tail(mempool) /\ mempool # <<>>
  BY DEF RelayTypeOK, Transactions, Mine
<1>2. /\ mempool' \in Seq(Transactions) /\ tx.by \in Workers \union {NoWorker}
      /\ 1 \in DOMAIN mempool /\ tx = mempool[1]
      /\ \A i \in DOMAIN mempool' :
           i + 1 \in DOMAIN mempool /\ mempool'[i] = mempool[i + 1] /\ i + 1 # 1
  BY <1>1, OldestTransaction
<1>3. MineLands(tx)
  BY MinedLands
<1> HIDE DEF tx
<1>4. UNCHANGED local \/ (tx.by \in Workers /\ OthersStay(tx.by))
  <2>1. CASE tx.by \in Workers
    BY <1>3, <2>1, LandedAt DEF MineLands, OthersStay
  <2>2. CASE tx.by = NoWorker
    BY <1>3, <2>2 DEF MineLands
  <2> QED BY <1>2, <2>1, <2>2
<1>5. ASSUME NEW i \in DOMAIN mempool' PROVE WaitedFor(i)'
  <2>1. i + 1 \in DOMAIN mempool /\ mempool'[i] = mempool[i + 1] /\ i + 1 # 1 /\ i \in Nat
    BY <1>2
  <2>2. WaitedFor(i + 1)
    BY <2>1 DEF ControlOK
  <2>3. mempool[i + 1].by \in Workers \union {NoWorker}
    BY <1>1, <2>1, SentBy
  <2>4. mempool[i + 1].by # NoWorker => mempool[i + 1].by # tx.by
    BY <1>2, <2>1, <2>2 DEF WaitedFor
  <2>5. \A j \in DOMAIN mempool' :
          mempool'[j].by = mempool'[i].by /\ mempool'[i].by # NoWorker => j = i
    <3>1. \A j \in DOMAIN mempool' : j \in Nat /\ (j + 1 = i + 1 => j = i)
      BY <1>2, <2>1
    <3> QED BY <1>2, <2>1, <2>2, <3>1 DEF WaitedFor
  <2>6. mempool'[i].by # NoWorker =>
          pc'[mempool'[i].by] = "waiting" /\ held'[mempool'[i].by].req = mempool'[i].req
    BY <1>4, <2>1, <2>2, <2>3, <2>4 DEF WaitedFor, OthersStay, local
  <2> QED BY <2>5, <2>6 DEF WaitedFor
<1> QED BY <1>2, <1>5 DEF MempoolOK

LEMMA OthersStayPut ==
  ASSUME RelayTypeOK, NEW w \in Workers, WorkerAction(w)
  PROVE  OthersStay(w)
<1>1. CASE Takes(w)
  BY <1>1, LandedAt DEF Takes, OthersStay
<1>2. CASE Proceeds(w)
  BY <1>2, LandedAt DEF Proceeds, OthersStay
<1>3. CASE Leaves(w)
  BY <1>3, LandedAt DEF Leaves, OthersStay
<1>4. CASE Beforehand(w)
  BY <1>4, BeforehandFrame DEF OthersStay, local
<1> QED BY <1>1, <1>2, <1>3, <1>4, WorkerLands

LEMMA MempoolStep ==
  ASSUME TypeOK, RelayTypeOK, ControlOK, RelayNext
  PROVE  MempoolOK'
<1>1. ASSUME \/ \E r \in Requests : Deliver(r)
             \/ OperatorStep \/ ChainStep
      PROVE  MempoolOK'
  <2>1. UNCHANGED <<pc, held, verdict, mempool>>
    BY <1>1 DEF Deliver, OperatorStep, ValidateReplay, Discard, ExecuteReplay, ChainStep,
       Unpause, relay, local
  <2>2. mempool \in Seq(Transactions)
    BY DEF RelayTypeOK, Transactions
  <2> QED BY <2>1, <2>2 DEF MempoolOK, ControlOK, WaitedFor
<1>2. CASE Mine
  BY <1>2, MempoolMined
<1>3. ASSUME NEW w \in Workers, WorkerAction(w) PROVE MempoolOK'
  <2>1. OthersStay(w)
    BY <1>3, OthersStayPut
  <2>2. CASE Send(w)
    <3>1. pc'[w] = "waiting" /\ held'[w] = held[w]
      BY <2>2, GotoLands, LandedAt DEF Send
    <3> QED BY <2>1, <2>2, <3>1, MempoolSent DEF Send
  <2>3. CASE RpcFails(w)
    <3>1. pc[w] = "handling" /\ w # NoWorker
      BY <2>3, RelayConstants DEF RpcFails, RelayConstants
    <3>2. CASE UNCHANGED mempool
      BY <2>1, <3>1, <3>2, MempoolKept
    <3>3. CASE mempool' = Append(mempool, [req |-> held[w].req, by |-> NoWorker])
      BY <2>1, <3>1, <3>3, MempoolSent
    <3> QED BY <2>3, <3>2, <3>3 DEF RpcFails
  <2>4. CASE WaitFails(w) \/ Crash(w)
    BY <2>1, <2>4, MempoolOrphaned DEF WaitFails, Crash
  <2>5. ASSUME ~Send(w), ~RpcFails(w), ~WaitFails(w), ~Crash(w)
        PROVE  UNCHANGED mempool /\ (UNCHANGED local \/ pc[w] # "waiting")
    BY <1>3, <2>5 DEF WorkerAction, WorkerStep, Failure, Take, Screen, SkipProcessed,
       AnswerReplay, Refused, PostSettlements, Publish, Commit, Reschedule, Bury, Unlist,
       ReadDue, PromoteDueRetry, PromotionFails, TakeReplyLost, Strand, RecordFails,
       PostFails, RedisFails, local
  <2> QED BY <2>1, <2>2, <2>3, <2>4, <2>5, MempoolKept
<1> QED BY <1>1, <1>2, <1>3 DEF RelayNext, WorkerAction

-----------------------------------------------------------------------------
(* The lists, and what is written for others to read.                      *)

Entries == [msg : Messages, reason : Reasons]

ListsOK ==
  /\ inbound \in Seq(Messages) /\ retryQueue \subseteq Messages
  /\ IsABag(processing) /\ BagToSet(processing) \subseteq Messages
  /\ IsABag(deadLetters) /\ BagToSet(deadLetters) \subseteq Entries
  /\ cleared \subseteq Entries
  /\ delivered \subseteq Requests /\ discarded \subseteq Requests

LEMMA PushedInbound ==
  ASSUME ListsOK, NEW m \in Messages
  PROVE  /\ <<m>> \o inbound \in Seq(Messages)
         /\ \A r : (\E i \in DOMAIN (<<m>> \o inbound) : (<<m>> \o inbound)[i].req = r)
                     <=> m.req = r \/ \E i \in DOMAIN inbound : inbound[i].req = r
<1> DEFINE new == <<m>> \o inbound
           n == Len(inbound)
<1>1. inbound \in Seq(Messages)
  BY DEF ListsOK
<1>2. /\ new \in Seq(Messages) /\ n \in Nat
      /\ DOMAIN inbound = 1..n /\ DOMAIN new = 1..(n + 1)
      /\ new[1] = m /\ \A i \in 1..n : new[i + 1] = inbound[i]
  BY <1>1
<1> HIDE DEF new, n
<1>3. ASSUME NEW r
      PROVE  (\E i \in DOMAIN new : new[i].req = r)
               <=> m.req = r \/ \E i \in DOMAIN inbound : inbound[i].req = r
  <2>1. ASSUME NEW i \in DOMAIN inbound, inbound[i].req = r
        PROVE  \E j \in DOMAIN new : new[j].req = r
    <3>1. i + 1 \in DOMAIN new /\ new[i + 1].req = r
      BY <1>2, <2>1
    <3> QED BY <3>1
  <2>2. ASSUME m.req = r PROVE \E j \in DOMAIN new : new[j].req = r
    <3>1. 1 \in DOMAIN new /\ new[1].req = r
      BY <1>2, <2>2
    <3> QED BY <3>1
  <2>3. ASSUME NEW j \in DOMAIN new, new[j].req = r, m.req # r
        PROVE  \E i \in DOMAIN inbound : inbound[i].req = r
    <3>1. j # 1
      BY <1>2, <2>3
    <3>2. j - 1 \in 1..n /\ (j - 1) + 1 = j
      BY <1>2, <2>3, <3>1
    <3>3. new[j] = inbound[j - 1]
      BY <1>2, <3>2
    <3> QED BY <1>2, <2>3, <3>2, <3>3
  <2> QED BY <2>1, <2>2, <2>3
<1> QED BY <1>2, <1>3 DEF new

LEMMA InboundPushed ==
  ASSUME ListsOK, NEW m \in Messages, inbound' = <<m>> \o inbound, NEW r
  PROVE  Inbound(r)' <=> m.req = r \/ Inbound(r)
<1> DEFINE new == <<m>> \o inbound
<1>1. (\E i \in DOMAIN new : new[i].req = r)
        <=> m.req = r \/ \E i \in DOMAIN inbound : inbound[i].req = r
  BY PushedInbound
<1>2. inbound' = new
  OBVIOUS
<1> HIDE DEF new
<1> QED BY <1>1, <1>2 DEF Inbound

\* The last message leaves the inbound list; the others stay.
LEMMA PoppedInbound ==
  ASSUME ListsOK, inbound # <<>>
  PROVE  LET left == SubSeq(inbound, 1, Len(inbound) - 1)
             m == inbound[Len(inbound)]
         IN  /\ left \in Seq(Messages) /\ m \in Messages
             /\ \A r : (\E i \in DOMAIN inbound : inbound[i].req = r) =>
                         m.req = r \/ \E i \in DOMAIN left : left[i].req = r
<1> DEFINE left == SubSeq(inbound, 1, Len(inbound) - 1)
           n == Len(inbound)
<1>1. inbound \in Seq(Messages)
  BY DEF ListsOK
<1>2. /\ left \in Seq(Messages) /\ n \in Nat \ {0} /\ inbound[n] \in Messages
      /\ DOMAIN inbound = 1..n /\ DOMAIN left = 1..(n - 1)
      /\ \A i \in 1..(n - 1) : left[i] = inbound[i]
  BY <1>1
<1> HIDE DEF left, n
<1>3. \A i \in 1..n : i = n \/ i \in 1..(n - 1)
  BY <1>2
<1>4. \A r : (\E i \in DOMAIN inbound : inbound[i].req = r) =>
               inbound[n].req = r \/ \E i \in DOMAIN left : left[i].req = r
  BY <1>2, <1>3
<1> QED BY <1>2, <1>4 DEF left, n

\* The steps that leave the lists alone.
Elsewhere(w) ==
  /\ \/ Screen(w) \/ AnswerReplay(w) \/ Refused(w) \/ Send(w) \/ PostSettlements(w)
     \/ Publish(w) \/ RpcFails(w) \/ WaitFails(w) \/ PostFails(w) \/ Crash(w) \/ ReadDue(w)
     \/ RedisFails(w) \/ Strand(w) \/ \E m \in due[w] : PromotionFails(w, m)
  /\ UNCHANGED <<queues, operator, delivered>>

\* The steps that write a result.
Settles(w) ==
  /\ pc[w] = "committing" /\ Settle(w)
  /\ Commit(w) \/ RedisFails(w)
  /\ UNCHANGED <<inbound, retryQueue, deadLetters, settlements, authPosted, operator, delivered>>

\* The steps that move a message between two lists, whether the reply arrives or not.
Pops(w) ==
  /\ Take(w) \/ TakeReplyLost(w)
  /\ inbound # <<>> /\ inbound' = SubSeq(inbound, 1, Len(inbound) - 1)
  /\ KeepInHand(inbound[Len(inbound)])
  /\ UNCHANGED <<retryQueue, deadLetters, processedSet, operator, delivered>>

Buries(w) ==
  /\ Bury(w) \/ Strand(w)
  /\ pc[w] = "failing" /\ PushDeadLetter(w)
  /\ UNCHANGED <<inbound, processing, retryQueue, processedSet, operator, delivered>>

Unlists(w) ==
  /\ Unlist(w) \/ RecordFails(w)
  /\ pc[w] = "burying" /\ Finish(w)
  /\ processing' = processing (-) One(held[w])
  /\ UNCHANGED <<inbound, retryQueue, deadLetters, processedSet, operator, delivered>>

LEMMA WorkerActions ==
  ASSUME NEW w \in Workers, WorkerAction(w)
  PROVE  \/ Elsewhere(w) \/ Settles(w) \/ Pops(w) \/ SkipProcessed(w) \/ Reschedule(w)
         \/ Buries(w) \/ Unlists(w) \/ Promotes(w)
<1> USE DEF queues
<1>1. CASE \/ Screen(w) \/ AnswerReplay(w) \/ Refused(w) \/ Send(w) \/ PostSettlements(w)
           \/ Publish(w) \/ RpcFails(w) \/ WaitFails(w) \/ PostFails(w) \/ Crash(w) \/ ReadDue(w)
  BY <1>1 DEF Elsewhere, Screen, AnswerReplay, Refused, Send, PostSettlements, Publish,
     RpcFails, WaitFails, PostFails, Crash, ReadDue
<1>2. CASE Commit(w) \/ RedisFails(w)
  BY <1>2 DEF Settles, Elsewhere, Commit, RedisFails
<1>3. CASE Take(w) \/ TakeReplyLost(w)
  BY <1>3 DEF Pops, Take, TakeReplyLost
<1>4. CASE Bury(w) \/ Strand(w)
  BY <1>4 DEF Buries, Elsewhere, Bury, Strand
<1>5. CASE Unlist(w) \/ RecordFails(w)
  BY <1>5 DEF Unlists, Unlist, RecordFails
<1>6. ASSUME NEW m \in due[w], PromoteDueRetry(w, m) \/ PromotionFails(w, m)
      PROVE  Promotes(w) \/ Elsewhere(w)
  BY <1>6 DEF Promotes, Elsewhere, PromoteDueRetry, PromotionFails
<1> QED
  BY <1>1, <1>2, <1>3, <1>4, <1>5, <1>6 DEF WorkerAction, WorkerStep, Failure

LEMMA ElsewhereLists ==
  ASSUME NEW w \in Workers, Elsewhere(w)
  PROVE  UNCHANGED <<queues, operator, delivered>>
BY DEF Elsewhere

LEMMA FailureReason ==
  ASSUME ControlOK, NEW w \in Workers, pc[w] = "failing"
  PROVE  ReasonOf(w) \in Reasons
BY DEF ControlOK, WorkerOK, ReasonOf, Reasons, Retriable

\* A message that is tried again has tries left.
LEMMA TriedAgain ==
  ASSUME NEW w \in Workers, held[w] \in Messages, held[w].tries < Limit(w)
  PROVE  NextTry(held[w]) \in Messages /\ NextTry(held[w]).req = held[w].req
<1>1. Limit(w) <= MostRetries /\ Limit(w) \in Nat /\ MostRetries \in Nat
  BY RetryBound DEF Limit
<1>2. held[w].tries \in Nat
  BY MessageFields, RetryBound
<1> QED BY <1>1, <1>2, RetriedMessage

\* Every kind of step keeps the lists well formed.
LEMMA RetryLeft ==
  ASSUME RelayTypeOK, ControlOK, NEW w \in Workers, pc[w] = "failing", ~GivesUp(w)
  PROVE  held[w].tries < Limit(w)
<1>1. held[w].tries \in Nat /\ Limit(w) \in Nat
  BY HoldsMessage, MessageFields, RetryBound DEF Limit
<1> QED BY <1>1 DEF GivesUp

LEMMA WorkerLists ==
  ASSUME RelayTypeOK, ControlOK, ListsOK, NEW w \in Workers, WorkerAction(w)
  PROVE  ListsOK'
<1> DEFINE m == held[w]
<1> USE DEF operator
<1>1. CASE Elsewhere(w)
  BY <1>1, ElsewhereLists DEF ListsOK, queues
<1>2. CASE Pops(w)
  <2>1. inbound # <<>> /\ inbound' = SubSeq(inbound, 1, Len(inbound) - 1)
        /\ processing' = processing (+) One(inbound[Len(inbound)])
    BY <1>2 DEF Pops, KeepInHand
  <2>2. inbound' \in Seq(Messages) /\ inbound[Len(inbound)] \in Messages
    BY <2>1, PoppedInbound
  <2>3. IsABag(processing') /\ BagToSet(processing') \subseteq Messages
    BY <2>1, <2>2, CopiesPushed DEF ListsOK
  <2> QED BY <1>2, <2>2, <2>3 DEF Pops, ListsOK
<1>3. CASE Settles(w) \/ SkipProcessed(w) \/ Unlists(w)
  <2>1. processing' = processing (-) One(m)
        /\ UNCHANGED <<inbound, retryQueue, deadLetters, operator, delivered>>
    BY <1>3 DEF Settles, Settle, SkipProcessed, Unlists
  <2> HIDE DEF m
  <2>2. IsABag(processing') /\ BagToSet(processing') \subseteq Messages
    BY <2>1, CopiesRemoved DEF ListsOK
  <2> QED BY <2>1, <2>2 DEF ListsOK
<1>4. CASE Reschedule(w)
  <2>1. /\ processing' = processing (-) One(m) /\ retryQueue' = retryQueue \union {NextTry(m)}
        /\ UNCHANGED <<inbound, deadLetters, operator, delivered>>
        /\ pc[w] # "idle" /\ m.tries < Limit(w)
    BY <1>4, RetryLeft DEF Reschedule
  <2>2. NextTry(m) \in Messages
    BY <2>1, HoldsMessage, TriedAgain
  <2> HIDE DEF m
  <2>3. IsABag(processing') /\ BagToSet(processing') \subseteq Messages
    BY <2>1, CopiesRemoved DEF ListsOK
  <2> QED BY <2>1, <2>2, <2>3 DEF ListsOK
<1>5. CASE Buries(w)
  <2> DEFINE e == [msg |-> m, reason |-> ReasonOf(w)]
  <2>1. pc[w] = "failing"
    BY <1>5 DEF Buries
  <2>2. e \in Entries
    BY <2>1, HoldsMessage, FailureReason DEF Entries
  <2>3. deadLetters' = deadLetters (+) One(e)
        /\ UNCHANGED <<inbound, processing, retryQueue, operator, delivered>>
    BY <1>5 DEF Buries, PushDeadLetter
  <2> HIDE DEF e
  <2>4. IsABag(deadLetters') /\ BagToSet(deadLetters') \subseteq Entries
    BY <2>2, <2>3, CopiesPushed DEF ListsOK
  <2> QED BY <2>3, <2>4 DEF ListsOK
<1>6. CASE Promotes(w)
  <2>1. PICK x \in due[w] : Promote(x)
    BY <1>6 DEF Promotes
  <2>2. x \in Messages
    BY <2>1 DEF RelayTypeOK
  <2>3. inbound' = <<x>> \o inbound /\ retryQueue' \subseteq retryQueue
        /\ UNCHANGED <<processing, deadLetters, operator, delivered>>
    BY <1>6, <2>1 DEF Promotes, Promote
  <2> QED BY <2>2, <2>3, PushedInbound DEF ListsOK
<1> QED BY <1>1, <1>2, <1>3, <1>4, <1>5, <1>6, WorkerActions

LEMMA EntryMessage ==
  ASSUME NEW e \in Entries
  PROVE  e.msg \in Messages /\ e.msg.req \in Requests
BY MessageFields DEF Entries

LEMMA ListsStep ==
  ASSUME RelayTypeOK, ControlOK, RelayNext
  PROVE  ListsOK'
<1> USE DEF operator
<1>1. ListsOK
  BY DEF RelayTypeOK, ControlOK, ListsOK, Entries
<1>2. ASSUME NEW r \in Requests, Deliver(r) PROVE ListsOK'
  <2> DEFINE m == [req |-> r, tries |-> 0]
  <2>1. m \in Messages
    BY FreshMessage
  <2>2. inbound' = <<m>> \o inbound /\ delivered' = delivered \union {r}
        /\ UNCHANGED <<processing, retryQueue, deadLetters, operator>>
    BY <1>2 DEF Deliver
  <2> HIDE DEF m
  <2> QED BY <1>1, <2>1, <2>2, PushedInbound DEF ListsOK
<1>3. CASE Mine \/ ChainStep
  BY <1>1, <1>3 DEF Mine, ChainStep, Unpause, relay, queues, ListsOK
<1>4. ASSUME NEW e \in BagToSet(deadLetters), ValidateReplay(e) \/ Discard(e) PROVE ListsOK'
  <2>1. e \in Entries
    BY <1>1 DEF ListsOK
  <2>2. CASE ValidateReplay(e)
    BY <1>1, <2>1, <2>2 DEF ValidateReplay, ListsOK, queues
  <2>3. CASE Discard(e)
    <3>1. deadLetters' = deadLetters (-) One(e) /\ discarded' = discarded \union {e.msg.req}
          /\ UNCHANGED <<inbound, processing, retryQueue, cleared, delivered>>
      BY <2>3 DEF Discard
    <3>2. IsABag(deadLetters') /\ BagToSet(deadLetters') \subseteq Entries
      BY <1>1, <3>1, CopiesRemoved DEF ListsOK
    <3> QED BY <1>1, <2>1, <3>1, <3>2, EntryMessage DEF ListsOK
  <2> QED BY <1>4, <2>2, <2>3
<1>5. ASSUME NEW e \in cleared, ExecuteReplay(e) PROVE ListsOK'
  <2> DEFINE m == [e.msg EXCEPT !.tries = 0]
  <2>1. m \in Messages
    BY <1>1, EntryMessage, ReplayedMessage DEF ListsOK
  <2>2. /\ inbound' = <<m>> \o inbound /\ deadLetters' = deadLetters (-) One(e)
        /\ cleared' = cleared \ {e}
        /\ UNCHANGED <<processing, retryQueue, discarded, delivered>>
    BY <1>5 DEF ExecuteReplay
  <2> HIDE DEF m
  <2>3. IsABag(deadLetters') /\ BagToSet(deadLetters') \subseteq Entries
    BY <1>1, <2>2, CopiesRemoved DEF ListsOK
  <2> QED BY <1>1, <2>1, <2>2, <2>3, PushedInbound DEF ListsOK
<1>6. ASSUME NEW w \in Workers, WorkerAction(w) PROVE ListsOK'
  BY <1>1, <1>6, WorkerLists
<1> QED BY <1>2, <1>3, <1>4, <1>5, <1>6 DEF RelayNext, OperatorStep, WorkerAction

-----------------------------------------------------------------------------
(* What is written for others to read.                                     *)

Published == [key : Keys, status : Outcomes]
RecordOnly == {"error", "budget_exceeded_retry"}

OutputsOK ==
  /\ processedSet \subseteq Keys /\ authPosted \subseteq Keys
  /\ IsABag(settlements) /\ BagToSet(settlements) \subseteq Published
  /\ record \in [Keys -> Outcomes \union {"none"} \union RecordOnly]

\* The worker posts to the auth service, publishes, or notes a failure.
Posts(w) ==
  /\ pc[w] = "posting"
  /\ authPosted' = authPosted \union {held[w].req.key}
  /\ UNCHANGED <<processedSet, settlements, record>>

Publishes(w) ==
  /\ pc[w] = "publishing" /\ \E s \in {"committing", "failing"} : pc' = [pc EXCEPT ![w] = s]
  /\ settlements' = settlements (+) One([key |-> held[w].req.key, status |-> verdict[w]])
  /\ UNCHANGED <<processedSet, record, authPosted>>

Notes(w) ==
  /\ pc[w] # "idle"
  /\ \E s \in RecordOnly : record' = [record EXCEPT ![held[w].req.key] = s]
  /\ UNCHANGED <<processedSet, settlements, authPosted>>

LEMMA OutputEffects ==
  ASSUME NEW w \in Workers, WorkerAction(w)
  PROVE  \/ UNCHANGED <<processedSet, outputs>>
         \/ Posts(w) \/ Publishes(w) \/ Settles(w) \/ Notes(w)
<1> USE DEF queues, outputs
<1>1. CASE \/ Screen(w) \/ AnswerReplay(w) \/ Refused(w) \/ Send(w) \/ RpcFails(w)
           \/ WaitFails(w) \/ Crash(w) \/ Take(w) \/ SkipProcessed(w) \/ Bury(w)
           \/ Strand(w) \/ RecordFails(w) \/ Beforehand(w)
  BY <1>1, BeforehandFrame DEF Screen, AnswerReplay, Refused, Send, RpcFails, WaitFails, Crash,
     Take, SkipProcessed, Bury, Strand, RecordFails
<1>2. CASE PostSettlements(w) \/ PostFails(w)
  BY <1>2 DEF PostSettlements, PostFails, Posts
<1>3. CASE Publish(w)
  BY <1>3 DEF Publish, Announce, Publishes, Goto
<1>4. CASE Commit(w)
  BY <1>4 DEF Commit, Settles
<1>5. CASE Reschedule(w)
  BY <1>5 DEF Reschedule, Notes, RecordOnly
<1>6. CASE Unlist(w)
  BY <1>6 DEF Unlist, Notes, RecordOnly
<1>7. CASE RedisFails(w)
  <2>1. CASE UNCHANGED <<processedSet, processing, record, settlements>>
    BY <1>7, <2>1 DEF RedisFails
  <2>2. CASE pc[w] = "publishing" /\ Announce(w) /\ UNCHANGED <<processedSet, processing, record>>
    BY <1>7, <2>2 DEF RedisFails, Announce, Publishes, Goto
  <2>3. CASE pc[w] = "committing" /\ Settle(w) /\ UNCHANGED settlements
    BY <1>7, <2>3 DEF RedisFails, Settles
  <2> QED BY <1>7, <2>1, <2>2, <2>3 DEF RedisFails
<1> QED
  BY <1>1, <1>2, <1>3, <1>4, <1>5, <1>6, <1>7 DEF WorkerAction, WorkerStep, Failure, Beforehand

\* A worker that publishes or settles has the result in hand.
LEMMA InHand ==
  ASSUME RelayTypeOK, ControlOK, NEW w \in Workers, pc[w] \in Resolved
  PROVE  /\ held[w].req.key \in Keys /\ held[w].req.key \in processedIdempotencyKeys
         /\ verdict[w] \in Outcomes
         /\ verdict[w] = "minted" => held[w].req.key \in MintedKeys
         /\ pc[w] = "posting" => verdict[w] = "minted"
BY HoldsMessage DEF ControlOK, WorkerOK, Resolved

LEMMA WorkerOutputs ==
  ASSUME RelayTypeOK, ControlOK, OutputsOK, NEW w \in Workers, WorkerAction(w)
  PROVE  OutputsOK'
<1> DEFINE k == held[w].req.key
           v == verdict[w]
<1>1. pc[w] # "idle" => k \in Keys
  BY HoldsMessage
<1>2. pc[w] \in Resolved => k \in Keys /\ v \in Outcomes
  BY InHand
<1> HIDE DEF k, v
<1>3. CASE UNCHANGED <<processedSet, outputs>>
  BY <1>3 DEF OutputsOK, outputs
<1>4. CASE Posts(w)
  BY <1>1, <1>4 DEF Posts, OutputsOK, k
<1>5. CASE Publishes(w)
  <2> DEFINE s == [key |-> k, status |-> v]
  <2>1. s \in Published
    BY <1>2, <1>5 DEF Publishes, Resolved, Published
  <2>2. settlements' = settlements (+) One(s) /\ UNCHANGED <<processedSet, record, authPosted>>
    BY <1>5 DEF Publishes, k, v
  <2> HIDE DEF s
  <2> QED BY <2>1, <2>2, CopiesPushed DEF OutputsOK
<1>6. CASE Settles(w)
  <2>1. k \in Keys /\ v \in Outcomes
    BY <1>2, <1>6 DEF Settles, Resolved
  <2>2. /\ processedSet' = processedSet \union {k} /\ record' = [record EXCEPT ![k] = v]
        /\ UNCHANGED <<settlements, authPosted>>
    BY <1>6 DEF Settles, Settle, k, v
  <2> QED BY <2>1, <2>2 DEF OutputsOK
<1>7. CASE Notes(w)
  <2>1. k \in Keys
    BY <1>1, <1>7 DEF Notes
  <2>2. PICK s \in RecordOnly : record' = [record EXCEPT ![k] = s]
    BY <1>7 DEF Notes, k
  <2> QED BY <1>7, <2>1, <2>2 DEF Notes, OutputsOK
<1> QED BY <1>3, <1>4, <1>5, <1>6, <1>7, OutputEffects

LEMMA OthersWriteNothing ==
  ASSUME (\E r \in Requests : Deliver(r)) \/ Mine \/ OperatorStep \/ ChainStep
  PROVE  UNCHANGED <<processedSet, outputs>>
BY DEF Deliver, Mine, OperatorStep, ValidateReplay, Discard, ExecuteReplay, ChainStep, Unpause,
   relay, queues

\* A worker reads retries out of the sorted set and drops them one by one.
LEMMA DueStep ==
  ASSUME RelayTypeOK, RelayNext
  PROVE  due' \in [Workers -> SUBSET Messages]
<1>1. CASE UNCHANGED due
  BY <1>1 DEF RelayTypeOK
<1>2. ASSUME NEW w \in Workers, NEW S \in SUBSET Messages, due' = [due EXCEPT ![w] = S]
      PROVE  due' \in [Workers -> SUBSET Messages]
  BY <1>2 DEF RelayTypeOK
<1>3. ASSUME NEW w \in Workers, ReadDue(w) PROVE due' \in [Workers -> SUBSET Messages]
  BY <1>2, <1>3 DEF ReadDue, RelayTypeOK
<1>4. ASSUME NEW w \in Workers, NEW m, PromoteDueRetry(w, m) \/ PromotionFails(w, m)
      PROVE  due' \in [Workers -> SUBSET Messages]
  <2>1. due[w] \ {m} \in SUBSET Messages /\ {} \in SUBSET Messages
    BY DEF RelayTypeOK
  <2> QED BY <1>2, <1>4, <2>1 DEF PromoteDueRetry, PromotionFails
<1>5. ASSUME NEW w \in Workers, WorkerAction(w), ~ReadDue(w),
             ~\E m \in due[w] : PromoteDueRetry(w, m) \/ PromotionFails(w, m)
      PROVE  UNCHANGED due
  BY <1>5 DEF WorkerAction, WorkerStep, Failure, Take, Screen, SkipProcessed, AnswerReplay,
     Refused, Send, PostSettlements, Publish, Commit, Reschedule, Bury, Unlist, RpcFails,
     WaitFails, PostFails, RedisFails, TakeReplyLost, Strand, RecordFails, Crash
<1>6. ASSUME (\E r \in Requests : Deliver(r)) \/ Mine \/ OperatorStep \/ ChainStep
      PROVE  UNCHANGED due
  BY <1>6 DEF Deliver, Mine, OperatorStep, ValidateReplay, Discard, ExecuteReplay, ChainStep,
     Unpause, relay
<1> QED BY <1>1, <1>3, <1>4, <1>5, <1>6 DEF RelayNext, WorkerAction

LEMMA RelayTypeStep ==
  ASSUME TypeOK, KeysResolveOnce, RelayTypeOK, ControlOK, RelayNext
  PROVE  RelayTypeOK' /\ ControlOK'
<1>1. OutputsOK
  BY DEF RelayTypeOK, ControlOK, OutputsOK, Published, RecordOnly
<1>2. ASSUME UNCHANGED <<processedSet, outputs>> PROVE OutputsOK'
  BY <1>1, <1>2 DEF OutputsOK, outputs
<1>3. ASSUME NEW w \in Workers, WorkerAction(w) PROVE OutputsOK'
  BY <1>1, <1>3, WorkerOutputs
<1>4. OutputsOK'
  BY <1>2, <1>3, OthersWriteNothing DEF RelayNext, WorkerAction
<1>5. LocalOK' /\ MempoolOK' /\ ListsOK'
  BY LocalStep, MempoolStep, ListsStep
<1>6. RelayTypeOK'
  <2>1. /\ inbound' \in Seq(Messages) /\ retryQueue' \subseteq Messages
        /\ BagToSet(processing)' \subseteq Messages
        /\ BagToSet(deadLetters)' \subseteq [msg : Messages, reason : Reasons]
        /\ cleared' \subseteq [msg : Messages, reason : Reasons]
        /\ delivered' \subseteq Requests /\ discarded' \subseteq Requests
    BY <1>5 DEF ListsOK, Entries
  <2>2. /\ processedSet' \subseteq Keys /\ authPosted' \subseteq Keys
        /\ BagToSet(settlements)' \subseteq [key : Keys, status : Outcomes]
    BY <1>4 DEF OutputsOK, Published
  <2>3. record' \in [Keys -> Outcomes \union {"none", "error", "budget_exceeded_retry"}]
    <3>1. Outcomes \union {"none"} \union RecordOnly
            = Outcomes \union {"none", "error", "budget_exceeded_retry"}
      BY DEF RecordOnly
    <3> QED BY <1>4, <3>1 DEF OutputsOK
  <2>4. mempool' \in Seq([req : Requests, by : Workers \union {NoWorker}])
    BY <1>5 DEF MempoolOK, Transactions
  <2>5. /\ pc' \in [Workers -> {"idle", "taken", "handling", "waiting", "posting",
                                "publishing", "committing", "failing", "burying"}]
        /\ held' \in [Workers -> Messages \union {NoMessage}]
        /\ verdict' \in [Workers -> Outcomes \union Reasons \union Retriable \union {"none"}]
    BY <1>5 DEF LocalOK, States, Verdicts
  <2>6. due' \in [Workers -> SUBSET Messages]
    BY DueStep
  <2> QED BY <2>1, <2>2, <2>3, <2>4, <2>5, <2>6 DEF RelayTypeOK
<1>7. ControlOK'
  BY <1>4, <1>5 DEF ControlOK, OutputsOK, LocalOK, MempoolOK, ListsOK
<1> QED BY <1>6, <1>7

\* Nothing is called done before the contract has resolved it.
LEMMA DoneStep ==
  ASSUME TypeOK, KeysResolveOnce, RelayTypeOK, ControlOK, DoneMeansResolved, RelayNext
  PROVE  DoneMeansResolved'
<1> DEFINE P == processedIdempotencyKeys
<1>1. P \subseteq P'
  BY ChainKept
<1>2. /\ processedSet \subseteq P
      /\ \A s \in BagToSet(settlements) : s.key \in P
      /\ \A k \in Keys : record[k] \in Outcomes => k \in P
  BY DEF DoneMeansResolved
<1> SUFFICES /\ processedSet' \subseteq P'
             /\ \A s \in BagToSet(settlements)' : s.key \in P'
             /\ \A k \in Keys : record'[k] \in Outcomes => k \in P'
  BY DEF DoneMeansResolved
<1>3. CASE UNCHANGED <<processedSet, outputs>>
  BY <1>1, <1>2, <1>3 DEF outputs
<1>4. ASSUME NEW w \in Workers, WorkerAction(w), ~UNCHANGED <<processedSet, outputs>>
      PROVE  /\ processedSet' \subseteq P'
             /\ \A s \in BagToSet(settlements)' : s.key \in P'
             /\ \A k \in Keys : record'[k] \in Outcomes => k \in P'
  <2> DEFINE key == held[w].req.key
  <2>1. pc[w] \in Resolved => key \in P'
    BY <1>1, InHand
  <2>2. CASE Posts(w)
    BY <1>1, <1>2, <2>2 DEF Posts
  <2>3. CASE Publishes(w)
    <3> DEFINE s == [key |-> key, status |-> verdict[w]]
    <3>1. s.key \in P'
      BY <2>1, <2>3 DEF Publishes, Resolved
    <3>2. settlements' = settlements (+) One(s) /\ UNCHANGED <<processedSet, record>>
      BY <2>3 DEF Publishes
    <3> HIDE DEF s
    <3>3. BagToSet(settlements)' = BagToSet(settlements) \union {s}
      BY <3>2, CopiesPushed DEF ControlOK
    <3> QED BY <1>1, <1>2, <3>1, <3>2, <3>3
  <2>4. CASE Settles(w)
    <3>1. key \in P' /\ key \in Keys
      BY <2>1, <2>4, InHand DEF Settles, Resolved
    <3>2. /\ processedSet' = processedSet \union {key} /\ UNCHANGED settlements
          /\ record' = [record EXCEPT ![key] = verdict[w]]
      BY <2>4 DEF Settles, Settle
    <3>3. \A k \in Keys \ {key} : record'[k] = record[k]
      BY <3>2 DEF RelayTypeOK
    <3> QED BY <1>1, <1>2, <3>1, <3>2, <3>3
  <2>5. CASE Notes(w)
    <3>1. PICK s \in RecordOnly : record' = [record EXCEPT ![key] = s]
      BY <2>5 DEF Notes
    <3>2. key \in Keys
      BY <2>5, HoldsMessage DEF Notes
    <3>3. s \notin Outcomes
      BY DEF RecordOnly, Outcomes
    <3>4. \A k \in Keys : record'[k] = IF k = key THEN s ELSE record[k]
      BY <3>1, <3>2 DEF RelayTypeOK
    <3> QED BY <1>1, <1>2, <2>5, <3>3, <3>4 DEF Notes
  <2> QED BY <1>4, <2>2, <2>3, <2>4, <2>5, OutputEffects
<1> QED BY <1>3, <1>4, OthersWriteNothing DEF RelayNext, WorkerAction

-----------------------------------------------------------------------------
(* Mints are announced once.                                               *)

LEMMA MintedAreResolved ==
  ASSUME KeysResolveOnce
  PROVE  MintedKeys \subseteq processedIdempotencyKeys
BY DEF KeysResolveOnce, MintedKeys

\* A list of settlements announces minted keys once, counted key by key.
LEMMA OnceByKey ==
  ASSUME NEW bag, IsABag(bag), BagToSet(bag) \subseteq Published, NEW minted
  PROVE  (\A s \in BagToSet(bag) : s.status = "minted" => s.key \in minted /\ Copies(s, bag) = 1)
           <=> \A k \in Keys : \/ Copies(MintOf(k), bag) = 0
                               \/ Copies(MintOf(k), bag) = 1 /\ (k \in minted)
<1>1. ASSUME NEW s \in BagToSet(bag), s.status = "minted"
      PROVE  s.key \in Keys /\ s = MintOf(s.key)
  BY <1>1 DEF Published, MintOf
<1>2. \A x : Copies(x, bag) \in Nat /\ (x \in BagToSet(bag) <=> Copies(x, bag) > 0)
  BY CopiesType
<1>3. \A k : MintOf(k).status = "minted" /\ MintOf(k).key = k
  BY DEF MintOf
<1> HIDE DEF MintOf
<1> QED BY <1>1, <1>2, <1>3

\* After a worker's step, only workers that announced a mint before announce it,
\* and no longer the one that published it.
LEMMA AnnouncersKept ==
  ASSUME RelayTypeOK, NEW w \in Workers, WorkerAction(w), NEW u \in Workers, NEW k,
         Announcing(u, k)'
  PROVE  Announcing(u, k) /\ (Publishes(w) => u # w)
<1>1. CASE u = w
  <2> USE DEF Announcing
  <2>1. ASSUME NEW s, NEW m, NEW v, Lands(w, s, m, v), s \notin {"posting", "publishing"}
        PROVE  FALSE
    BY <1>1, <2>1, LandedAt
  <2>2. ASSUME NEW s, NEW m, Lands(w, s, m, "replay") PROVE FALSE
    BY <1>1, <2>2, LandedAt
  <2>3. ASSUME pc[w] = "posting", Lands(w, "publishing", held[w], verdict[w])
        PROVE  Announcing(w, k)
    BY <1>1, <2>3, LandedAt
  <2>4. CASE Takes(w)
    BY <2>1, <2>4 DEF Takes
  <2>5. CASE Proceeds(w)
    BY <1>1, <2>1, <2>2, <2>3, <2>5 DEF Proceeds, Publishes
  <2>6. CASE Leaves(w)
    BY <2>1, <2>6 DEF Leaves
  <2>7. CASE UNCHANGED local
    BY <1>1, <2>7 DEF local, Publishes, RelayTypeOK
  <2> QED BY <2>4, <2>5, <2>6, <2>7, WorkerLands, BeforehandFrame
<1>2. CASE u # w
  <2>1. OthersStay(w)
    BY OthersStayPut
  <2> QED BY <1>2, <2>1 DEF OthersStay, Announcing
<1> QED BY <1>1, <1>2

\* A receipt makes the worker that waits for it the only one to announce a mint.
LEMMA MinedAnnounced ==
  ASSUME TypeOK, KeysResolveOnce, RelayTypeOK, ControlOK, Mine, NEW u \in Workers, NEW k,
         Announcing(u, k)'
  PROVE  \/ /\ Announcing(u, k)
            /\ \A v \in Workers : Announcing(v, k)' => Announcing(v, k)
         \/ /\ k \notin processedIdempotencyKeys
            /\ \A v \in Workers : Announcing(v, k)' => v = u
<1> DEFINE tx == Head(mempool)
<1>1. MineLands(tx) /\ tx.by \in Workers \union {NoWorker}
  BY MinedLands, OldestTransaction DEF Mine
<1>2. tx.by # NoWorker => held[tx.by].req = tx.req
  BY OldestTransaction DEF ControlOK, WaitedFor, Mine
<1>3. \A v \in Workers : Announcing(v, k) => k \in processedIdempotencyKeys
  BY DEF Announcing, ControlOK, WorkerOK, Resolved
<1> HIDE DEF tx
<1>4. CASE UNCHANGED local
  BY <1>4 DEF local, Announcing
<1>5. ASSUME NEW s, NEW o, tx.by \in Workers, Lands(tx.by, s, held[tx.by], o),
             s # "posting", ~(s = "publishing" /\ o = "minted")
      PROVE  \A v \in Workers : Announcing(v, k)' => Announcing(v, k)
  BY <1>5, LandedAt DEF Announcing
<1>6. CASE tx.by \in Workers /\ Lands(tx.by, "failing", held[tx.by], "reverted")
  BY <1>5, <1>6
<1>7. ASSUME tx.by \in Workers, NEW outcome, ResolvesAs(tx.req, outcome), outcome # "minted",
             Lands(tx.by, "publishing", held[tx.by], outcome)
      PROVE  \A v \in Workers : Announcing(v, k)' => Announcing(v, k)
  BY <1>5, <1>7
<1>8. ASSUME NEW b \in Workers, tx.by = b, ResolvesAs(tx.req, "minted"),
             Lands(b, "posting", held[b], "minted")
      PROVE  \/ \A v \in Workers : Announcing(v, k)' => Announcing(v, k)
             \/ /\ k \notin processedIdempotencyKeys
                /\ \A v \in Workers : Announcing(v, k)' => v = u
  <2>1. \A v \in Workers \ {b} : Announcing(v, k)' => Announcing(v, k)
    BY <1>8, LandedAt DEF Announcing
  <2>2. Announcing(b, k)' => k = tx.req.key
    <3>1. b # NoWorker
      BY <1>8, RelayConstants DEF RelayConstants
    <3>2. held'[b] = held[b]
      BY <1>8, LandedAt
    <3> QED BY <1>2, <1>8, <3>1, <3>2 DEF Announcing
  <2>3. tx.req.key \notin processedIdempotencyKeys
    BY <1>8 DEF ResolvesAs
  <2>4. CASE Announcing(b, k)'
    <3>1. \A v \in Workers : ~Announcing(v, k)
      BY <1>3, <2>2, <2>3, <2>4
    <3> QED BY <2>1, <2>2, <2>3, <2>4, <3>1 DEF Announcing
  <2>5. CASE ~Announcing(b, k)'
    BY <2>1, <2>5 DEF Announcing
  <2> QED BY <2>4, <2>5
<1> QED BY <1>1, <1>4, <1>6, <1>7, <1>8 DEF MineLands

LEMMA MintsStep ==
  ASSUME TypeOK, KeysResolveOnce, RelayTypeOK, ControlOK, MintsCounted, RelayNext,
         RelayTypeOK', ControlOK'
  PROVE  MintsCounted'
<1> USE DEF outputs
<1>1. /\ MintedKeys \subseteq MintedKeys' /\ IsABag(settlements)
      /\ MintedKeys \subseteq processedIdempotencyKeys
  BY ChainKept, MintedAreResolved DEF ControlOK
<1>2. /\ BagToSet(settlements) \subseteq Published
      /\ IsABag(settlements') /\ BagToSet(settlements') \subseteq Published
  BY DEF RelayTypeOK, ControlOK, Published
<1>3. /\ authPosted \subseteq MintedKeys
      /\ \A k \in Keys : \/ Copies(MintOf(k), settlements) = 0
                         \/ Copies(MintOf(k), settlements) = 1 /\ (k \in MintedKeys)
  <2>1. \A s \in BagToSet(settlements) :
          s.status = "minted" => s.key \in MintedKeys /\ Copies(s, settlements) = 1
    BY DEF MintsCounted, MintsAnnouncedOnce
  <2> QED BY <1>1, <1>2, <2>1, OnceByKey DEF MintsCounted, MintsAnnouncedOnce
<1>4. ASSUME /\ authPosted' \subseteq MintedKeys'
             /\ \A k \in Keys : \/ Copies(MintOf(k), settlements') = 0
                                \/ Copies(MintOf(k), settlements') = 1 /\ (k \in MintedKeys')
      PROVE  MintsAnnouncedOnce'
  <2>1. \A s \in BagToSet(settlements') :
          s.status = "minted" => s.key \in MintedKeys' /\ Copies(s, settlements') = 1
    BY <1>2, <1>4, OnceByKey
  <2> QED BY <1>4, <2>1 DEF MintsAnnouncedOnce
<1>5. ASSUME UNCHANGED settlements,
             \A u \in Workers : \A k \in Keys : Announcing(u, k)' => Announcing(u, k)
      PROVE  \A k \in Keys : \A w \in Workers : Announcing(w, k)' =>
               /\ Copies(MintOf(k), settlements') = 0
               /\ \A v \in Workers : Announcing(v, k)' => v = w
  BY <1>5 DEF MintsCounted, Announcing
<1>6. ASSUME (\E r \in Requests : Deliver(r)) \/ OperatorStep \/ ChainStep
      PROVE  MintsCounted'
  <2>1. UNCHANGED <<pc, held, verdict, settlements, authPosted>>
    BY <1>6, OthersWriteNothing DEF Deliver, OperatorStep, ValidateReplay, Discard,
       ExecuteReplay, ChainStep, Unpause, relay, local
  <2>2. MintsAnnouncedOnce'
    BY <1>1, <1>3, <1>4, <2>1
  <2>3. \A u \in Workers : \A k \in Keys : Announcing(u, k)' => Announcing(u, k)
    BY <2>1 DEF Announcing
  <2> QED BY <1>5, <2>1, <2>2, <2>3 DEF MintsCounted
<1>7. CASE Mine
  <2>1. UNCHANGED <<settlements, authPosted>>
    BY <1>7, OthersWriteNothing
  <2>2. MintsAnnouncedOnce'
    BY <1>1, <1>3, <1>4, <2>1
  <2>3. ASSUME NEW k \in Keys, NEW w \in Workers, Announcing(w, k)'
        PROVE  /\ Copies(MintOf(k), settlements') = 0
               /\ \A v \in Workers : Announcing(v, k)' => v = w
    <3>1. CASE /\ Announcing(w, k)
               /\ \A v \in Workers : Announcing(v, k)' => Announcing(v, k)
      BY <2>1, <3>1 DEF MintsCounted, Announcing
    <3>2. CASE /\ k \notin processedIdempotencyKeys
               /\ \A v \in Workers : Announcing(v, k)' => v = w
      <4>1. Copies(MintOf(k), settlements) = 0
        BY <1>1, <1>3, <3>2
      <4> QED BY <2>1, <3>2, <4>1 DEF Announcing
    <3> QED BY <1>7, <2>3, <3>1, <3>2, MinedAnnounced
  <2> QED BY <2>2, <2>3 DEF MintsCounted, Announcing
<1>8. ASSUME NEW w \in Workers, WorkerAction(w) PROVE MintsCounted'
  <2> DEFINE k == held[w].req.key
             s == [key |-> k, status |-> verdict[w]]
  <2>1. \A u \in Workers : \A j \in Keys :
          Announcing(u, j)' => Announcing(u, j) /\ (Publishes(w) => u # w)
    BY <1>8, AnnouncersKept DEF Announcing
  <2>2. ASSUME ~Publishes(w) PROVE UNCHANGED settlements /\ authPosted' \subseteq MintedKeys'
    <3>1. CASE Posts(w)
      BY <1>1, <1>3, <3>1, InHand DEF Posts, Resolved
    <3> QED BY <1>1, <1>3, <1>8, <2>2, <3>1, OutputEffects DEF Settles, Notes
  <2>3. CASE ~Publishes(w)
    <3>1. MintsAnnouncedOnce'
      BY <1>1, <1>3, <1>4, <2>2, <2>3
    <3> QED BY <1>5, <2>1, <2>2, <2>3, <3>1 DEF MintsCounted, Announcing
  <2>4. CASE Publishes(w)
    <3>1. settlements' = settlements (+) One(s) /\ pc[w] = "publishing"
          /\ UNCHANGED authPosted
      BY <2>4 DEF Publishes
    <3>2. verdict[w] = "minted" => k \in MintedKeys
      BY <3>1, InHand DEF Resolved
    <3>3. \A j \in Keys : s = MintOf(j) <=> verdict[w] = "minted" /\ j = k
      BY DEF MintOf
    <3>4. \A j \in Keys : Announcing(w, j) <=> verdict[w] = "minted" /\ j = k
      BY <3>1 DEF Announcing
    <3> HIDE DEF k, s
    <3>5. /\ Copies(s, settlements') = Copies(s, settlements) + 1
          /\ \A x : x # s => Copies(x, settlements') = Copies(x, settlements)
      BY <1>1, <3>1, CopiesPushed
    <3>6. \A j \in Keys : Announcing(w, j) => Copies(MintOf(j), settlements) = 0
      BY DEF MintsCounted
    <3>7. ASSUME NEW j \in Keys
          PROVE  \/ Copies(MintOf(j), settlements') = 0
                 \/ Copies(MintOf(j), settlements') = 1 /\ (j \in MintedKeys')
      <4>1. CASE s = MintOf(j)
        <5>1. Copies(MintOf(j), settlements) = 0
          BY <3>3, <3>4, <3>6, <4>1
        <5> QED BY <1>1, <3>2, <3>3, <3>5, <4>1, <5>1
      <4>2. CASE s # MintOf(j)
        BY <1>1, <1>3, <3>5, <4>2
      <4> QED BY <4>1, <4>2
    <3>8. MintsAnnouncedOnce'
      BY <1>1, <1>3, <1>4, <3>1, <3>7
    <3>9. ASSUME NEW j \in Keys, NEW u \in Workers, Announcing(u, j)'
          PROVE  /\ Copies(MintOf(j), settlements') = 0
                 /\ \A v \in Workers : Announcing(v, j)' => v = u
      <4>1. Announcing(u, j) /\ u # w
        BY <2>1, <2>4, <3>9 DEF Announcing
      <4>2. /\ Copies(MintOf(j), settlements) = 0
            /\ \A v \in Workers : Announcing(v, j) => v = u
        BY <4>1 DEF MintsCounted
      <4>3. s # MintOf(j)
        BY <3>3, <3>4, <4>1, <4>2
      <4> QED BY <2>1, <3>5, <4>2, <4>3 DEF Announcing
    <3> QED BY <3>8, <3>9 DEF MintsCounted, Announcing
  <2> QED BY <2>3, <2>4
<1> QED BY <1>6, <1>7, <1>8 DEF RelayNext, WorkerAction

-----------------------------------------------------------------------------
(* What workers hold is listed, and what was enqueued is found.            *)

LEMMA HoldersFinite ==
  ASSUME NEW m
  PROVE  /\ IsFiniteSet(Holders(m)) /\ Cardinality(Holders(m)) \in Nat
         /\ IsFiniteSet(Buriers(m)) /\ Cardinality(Buriers(m)) \in Nat
         /\ Cardinality(Buriers(m)) <= Cardinality(Holders(m))
<1>1. Buriers(m) \subseteq Holders(m) /\ Holders(m) \subseteq Workers
  BY DEF Holders, Buriers
<1>2. IsFiniteSet(Workers)
  BY RelayConstants DEF RelayConstants
<1> HIDE DEF Holders, Buriers
<1>3. IsFiniteSet(Holders(m))
  BY <1>1, <1>2, FS_Subset
<1>4. IsFiniteSet(Buriers(m)) /\ Cardinality(Buriers(m)) <= Cardinality(Holders(m))
  BY <1>1, <1>3, FS_Subset
<1> QED BY <1>3, <1>4, FS_CardinalityType

\* A worker keeps its message or lets it go, unless it takes one.
LEMMA HeldOrDropped ==
  ASSUME NEW w \in Workers, WorkerAction(w), ~Take(w)
  PROVE  UNCHANGED held \/ held' = [held EXCEPT ![w] = NoMessage]
BY DEF WorkerAction, WorkerStep, Failure, Screen, SkipProcessed, AnswerReplay, Refused, Send,
   PostSettlements, Publish, Commit, Reschedule, Bury, Unlist, ReadDue, PromoteDueRetry,
   PromotionFails, TakeReplyLost, Strand, RecordFails, RpcFails, WaitFails, PostFails,
   RedisFails, Crash, Goto, Finish, local

\* The holders of a message after a worker has let go of its own.
LEMMA HoldersLess ==
  ASSUME RelayTypeOK, NEW w \in Workers, NEW m \in Messages,
         UNCHANGED held \/ held' = [held EXCEPT ![w] = NoMessage]
  PROVE  /\ Holders(m)' \subseteq Holders(m)
         /\ held' = [held EXCEPT ![w] = NoMessage] => Holders(m)' = Holders(m) \ {w}
<1>1. NoMessage # m
  BY RelayConstants DEF RelayConstants
<1>2. held \in [Workers -> Messages \union {NoMessage}]
  BY DEF RelayTypeOK
<1> QED BY <1>1, <1>2 DEF Holders

\* Only a worker that buries its message is added to those who have.
LEMMA BuriersLess ==
  ASSUME RelayTypeOK, NEW w \in Workers, WorkerAction(w), ~Bury(w), NEW m
  PROVE  /\ Buriers(m)' \subseteq Buriers(m)
         /\ Unlists(w) => Buriers(m)' = Buriers(m) \ {w}
<1>1. UNCHANGED local \/ pc'[w] # "burying"
  <2>1. ASSUME NEW s, NEW x, NEW v, Lands(w, s, x, v), s # "burying"
        PROVE  pc'[w] # "burying"
    BY <2>1, LandedAt
  <2>2. CASE Takes(w)
    BY <2>1, <2>2 DEF Takes
  <2>3. CASE Proceeds(w)
    BY <2>1, <2>3 DEF Proceeds
  <2>4. CASE Leaves(w)
    BY <2>1, <2>4 DEF Leaves
  <2> QED BY <2>2, <2>3, <2>4, WorkerLands, BeforehandFrame
<1>2. OthersStay(w)
  BY OthersStayPut
<1>3. Unlists(w) => pc'[w] = "idle"
  BY DEF Unlists, Finish, RelayTypeOK
<1> QED BY <1>1, <1>2, <1>3 DEF Buriers, OthersStay, local

LEMMA HeldWorker ==
  ASSUME RelayTypeOK, ControlOK, HeldIsListed, NEW w \in Workers, WorkerAction(w),
         NEW m \in Messages, m.req.key \notin processedSet'
  PROVE  Cardinality(Holders(m)') <= Copies(m, processing')
<1> DEFINE b == Cardinality(Holders(m))
           c == Copies(m, processing)
<1>1. IsABag(processing) /\ b \in Nat /\ c \in Nat
  BY CopiesType, HoldersFinite DEF ControlOK
<1>2. processedSet \subseteq processedSet'
  BY WorkerActions, ElsewhereLists DEF queues, Settles, Settle, Pops, SkipProcessed, Reschedule,
     Buries, Unlists, Promotes
<1>3. b <= c
  BY <1>2 DEF HeldIsListed
<1>4. ASSUME Holders(m)' \subseteq Holders(m) PROVE Cardinality(Holders(m)') <= b
  BY <1>4, HoldersFinite, FS_Subset
<1>5. CASE Take(w)
  <2> DEFINE x == inbound[Len(inbound)]
  <2>1. /\ processing' = processing (+) One(x) /\ held' = [held EXCEPT ![w] = x]
        /\ held[w] = NoMessage
    BY <1>5 DEF Take, KeepInHand, ControlOK, WorkerOK
  <2>2. NoMessage # m
    BY RelayConstants DEF RelayConstants
  <2> HIDE DEF x
  <2>3. Holders(m)' = IF m = x THEN Holders(m) \union {w} ELSE Holders(m)
    BY <2>1, <2>2 DEF Holders, RelayTypeOK
  <2>4. Copies(m, processing') = IF m = x THEN c + 1 ELSE c
    BY <1>1, <2>1, CopiesPushed
  <2>5. CASE m = x
    <3>1. Cardinality(Holders(m)') <= b + 1
      <4>1. IsFiniteSet(Holders(m)) /\ Holders(m)' = Holders(m) \union {w}
        BY <2>3, <2>5, HoldersFinite
      <4>2. Cardinality(Holders(m) \union {w}) = b \/ Cardinality(Holders(m) \union {w}) = b + 1
        BY <4>1, FS_AddElement
      <4> HIDE DEF b
      <4> QED BY <1>1, <4>1, <4>2
    <3>2. Cardinality(Holders(m)') \in Nat
      <4>1. IsFiniteSet(Holders(m)) /\ Holders(m)' = Holders(m) \union {w}
        BY <2>3, <2>5, HoldersFinite
      <4>2. IsFiniteSet(Holders(m)')
        BY <4>1, FS_AddElement
      <4> QED BY <4>2, FS_CardinalityType
    <3> HIDE DEF b, c
    <3> QED BY <1>1, <1>3, <2>4, <2>5, <3>1, <3>2
  <2>6. CASE m # x
    BY <1>3, <2>3, <2>4, <2>6
  <2> QED BY <2>5, <2>6
<1>6. ASSUME ~Take(w), Copies(m, processing') = c
      PROVE  Cardinality(Holders(m)') <= Copies(m, processing')
  <2>1. Holders(m)' \subseteq Holders(m)
    BY <1>6, HeldOrDropped, HoldersLess
  <2>2. IsFiniteSet(Holders(m)')
    BY <2>1, HoldersFinite, FS_Subset
  <2>3. Cardinality(Holders(m)') \in Nat /\ Cardinality(Holders(m)') <= b
    BY <1>4, <2>1, <2>2, FS_CardinalityType
  <2> HIDE DEF b, c
  <2> QED BY <1>1, <1>3, <1>6, <2>3
<1>7. ASSUME ~Take(w), processing' = processing (-) One(held[w]), m # held[w]
      PROVE  Copies(m, processing') = c
  BY <1>1, <1>7, CopiesRemoved
<1>8. CASE Elsewhere(w) \/ Buries(w) \/ Promotes(w)
  <2>1. UNCHANGED processing
    BY <1>8, ElsewhereLists DEF queues, Buries, Promotes
  <2> QED BY <1>5, <1>6, <2>1
<1>9. CASE Settles(w) \/ SkipProcessed(w)
  <2>1. processing' = processing (-) One(held[w]) /\ m # held[w]
    BY <1>9 DEF Settles, Settle, SkipProcessed
  <2> QED BY <1>5, <1>6, <1>7, <2>1
<1>10. CASE Reschedule(w) \/ Unlists(w)
  <2>1. /\ processing' = processing (-) One(held[w]) /\ pc[w] # "idle"
        /\ held' = [held EXCEPT ![w] = NoMessage]
    BY <1>10 DEF Reschedule, Unlists, Finish
  <2>2. ~Take(w)
    BY <2>1 DEF Take
  <2>3. CASE m # held[w]
    BY <1>6, <1>7, <2>1, <2>2, <2>3
  <2>4. CASE m = held[w]
    <3>1. Holders(m)' = Holders(m) \ {w} /\ w \in Holders(m)
      BY <2>1, <2>4, HoldersLess DEF Holders
    <3>2. Cardinality(Holders(m)') = b - 1
      BY <3>1, HoldersFinite, FS_RemoveElement
    <3>3. IsFiniteSet(Holders(m)')
      BY <3>1, HoldersFinite, FS_RemoveElement
    <3>4. Cardinality(Holders(m)') \in Nat
      BY <3>3, FS_CardinalityType
    <3>5. Copies(m, processing') = IF c = 0 THEN 0 ELSE c - 1
      BY <1>1, <2>1, <2>4, CopiesRemoved
    <3> HIDE DEF b, c
    <3> QED BY <1>1, <1>3, <3>2, <3>4, <3>5
  <2> QED BY <2>3, <2>4
<1>11. CASE TakeReplyLost(w)
  <2>1. processing' = processing (+) One(inbound[Len(inbound)]) /\ UNCHANGED held
    BY <1>11 DEF TakeReplyLost, KeepInHand, local
  <2>2. Copies(m, processing') >= c /\ Copies(m, processing') \in Nat
    <3>1. Copies(m, processing') = c \/ Copies(m, processing') = c + 1
      BY <1>1, <2>1, CopiesPushed
    <3> HIDE DEF c
    <3> QED BY <1>1, <3>1
  <2>3. Holders(m)' = Holders(m)
    BY <2>1 DEF Holders
  <2>4. Cardinality(Holders(m)') = b
    BY <2>3
  <2> HIDE DEF b, c
  <2> QED BY <1>1, <1>3, <2>2, <2>4
<1> QED BY <1>5, <1>8, <1>9, <1>10, <1>11, WorkerActions DEF Pops

LEMMA HeldStep ==
  ASSUME TypeOK, RelayTypeOK, ControlOK, HeldIsListed, RelayNext
  PROVE  HeldIsListed'
<1>1. ASSUME (\E r \in Requests : Deliver(r)) \/ Mine \/ OperatorStep \/ ChainStep
      PROVE  HeldIsListed'
  <2>1. UNCHANGED <<processing, processedSet>>
    BY <1>1 DEF Deliver, Mine, OperatorStep, ValidateReplay, Discard, ExecuteReplay, ChainStep,
       Unpause, relay, queues
  <2>2. UNCHANGED held
    BY <1>1 DEF Deliver, Mine, OperatorStep, ValidateReplay, Discard, ExecuteReplay, ChainStep,
       Unpause, relay, local, Goto
  <2> QED BY <2>1, <2>2 DEF HeldIsListed, Holders
<1>2. ASSUME NEW w \in Workers, WorkerAction(w) PROVE HeldIsListed'
  BY <1>2, HeldWorker DEF HeldIsListed, Holders
<1> QED BY <1>1, <1>2 DEF RelayNext, WorkerAction

\* A kept copy stays kept, when the step touches neither it nor who buries it.
LEMMA KeptStays ==
  ASSUME ControlOK, NEW r, Kept(r),
         \A m \in Messages : m.req = r =>
           /\ Buriers(m)' \subseteq Buriers(m)
           /\ Copies(m, processing') = Copies(m, processing)
  PROVE  Kept(r)'
<1>1. PICK m \in Messages : m.req = r /\ Cardinality(Buriers(m)) < Copies(m, processing)
  BY DEF Kept
<1> DEFINE b == Cardinality(Buriers(m))
           after == Cardinality(Buriers(m)')
<1>2. Buriers(m)' \subseteq Buriers(m) /\ IsFiniteSet(Buriers(m)) /\ b \in Nat
  BY <1>1, HoldersFinite
<1>3. after <= b /\ IsFiniteSet(Buriers(m)')
  BY <1>2, FS_Subset
<1>4. after \in Nat
  BY <1>3, FS_CardinalityType
<1>5. Copies(m, processing') = Copies(m, processing)
  BY <1>1
<1>6. b < Copies(m, processing) /\ Copies(m, processing) \in Nat
  BY <1>1, CopiesType DEF ControlOK
<1> HIDE DEF b
<1>7. after < Copies(m, processing')
  <2> HIDE DEF after
  <2> QED BY <1>2, <1>3, <1>4, <1>5, <1>6
<1> QED BY <1>1, <1>7 DEF Kept

\* A dead letter of a request stays when another entry leaves the list.
LEMMA BuriedStays ==
  ASSUME ControlOK, NEW r, Buried(r), NEW e, e.msg.req # r,
         deadLetters' = deadLetters (-) One(e)
  PROVE  Buried(r)'
<1>1. PICK d \in BagToSet(deadLetters) : d.msg.req = r
  BY DEF Buried
<1>2. IsABag(deadLetters) /\ IsABag(deadLetters') /\ d # e
  BY <1>1, CopiesRemoved DEF ControlOK
<1>3. Copies(d, deadLetters') = Copies(d, deadLetters)
  BY <1>2, CopiesRemoved
<1>4. d \in BagToSet(deadLetters')
  BY <1>1, <1>2, <1>3, CopiesType
<1> QED BY <1>1, <1>4 DEF Buried

LEMMA FoundTake ==
  ASSUME RelayTypeOK, ControlOK, HeldIsListed, ListsOK, NEW w \in Workers, Pops(w),
         NEW r, r.key \notin processedSet, Found(r)
  PROVE  Found(r)'
<1> PICK m : m = inbound[Len(inbound)]
  OBVIOUS
<1>1. /\ inbound # <<>> /\ inbound' = SubSeq(inbound, 1, Len(inbound) - 1)
      /\ processing' = processing (+) One(m) /\ IsABag(processing)
      /\ UNCHANGED <<retryQueue, deadLetters>>
  BY DEF Pops, KeepInHand, ControlOK
<1>2. /\ m \in Messages
      /\ \A x : Inbound(x) => m.req = x \/ \E i \in DOMAIN inbound' : inbound'[i].req = x
  BY <1>1, PoppedInbound DEF Inbound
<1>3. \A x \in Messages : Buriers(x)' \subseteq Buriers(x)
  <2>1. WorkerAction(w) /\ ~Bury(w)
    BY DEF Pops, WorkerAction, WorkerStep, Failure, Take, TakeReplyLost, Bury
  <2> QED BY <2>1, BuriersLess
<1>4. Copies(m, processing') = Copies(m, processing) + 1
      /\ \A x : x # m => Copies(x, processing') = Copies(x, processing)
  BY <1>1, CopiesPushed
<1>5. CASE m.req = r
  <2> DEFINE h == Cardinality(Holders(m))
             b == Cardinality(Buriers(m))
             after == Cardinality(Buriers(m)')
             c == Copies(m, processing)
  <2>1. h <= c
    BY <1>2, <1>5 DEF HeldIsListed
  <2>2. b <= h /\ b \in Nat /\ h \in Nat /\ c \in Nat /\ IsFiniteSet(Buriers(m))
    BY <1>1, HoldersFinite, CopiesType
  <2>3. after <= b /\ IsFiniteSet(Buriers(m)')
    BY <1>2, <1>3, <2>2, FS_Subset
  <2>4. after \in Nat
    BY <2>3, FS_CardinalityType
  <2> HIDE DEF h, b
  <2>5. after < Copies(m, processing')
    <3> HIDE DEF after, c
    <3>1. Copies(m, processing') = c + 1
      BY <1>4 DEF c
    <3> QED BY <2>1, <2>2, <2>3, <2>4, <3>1
  <2> QED BY <1>2, <1>5, <2>5 DEF Found, Kept
<1>6. CASE m.req # r
  <2>1. Inbound(r) => Inbound(r)'
    BY <1>2, <1>6 DEF Inbound
  <2>2. Retrying(r) => Retrying(r)'
    BY <1>1 DEF Retrying
  <2>3. Buried(r) => Buried(r)'
    BY <1>1 DEF Buried
  <2>4. Kept(r) => Kept(r)'
    BY <1>3, <1>4, <1>6, KeptStays
  <2> QED BY <2>1, <2>2, <2>3, <2>4 DEF Found
<1> QED BY <1>5, <1>6

LEMMA FoundBury ==
  ASSUME RelayTypeOK, ControlOK, ListsOK, NEW w \in Workers, Buries(w), NEW r, Found(r)
  PROVE  Found(r)'
<1> DEFINE e == [msg |-> held[w], reason |-> ReasonOf(w)]
<1>1. /\ UNCHANGED <<inbound, processing, retryQueue>>
      /\ deadLetters' = deadLetters (+) One(e)
  BY DEF Buries, PushDeadLetter
<1>2. BagToSet(deadLetters)' = BagToSet(deadLetters) \union {e}
  <2> HIDE DEF e
  <2> QED BY <1>1, CopiesPushed DEF ControlOK
<1>3. CASE held[w].req = r
  <2>1. e \in BagToSet(deadLetters)' /\ e.msg.req = r
    BY <1>2, <1>3
  <2>2. Buried(r)'
    BY <2>1 DEF Buried
  <2> QED BY <2>2 DEF Found
<1>4. CASE held[w].req # r
  <2>1. OthersStay(w) /\ (UNCHANGED held \/ held' = [held EXCEPT ![w] = NoMessage])
    BY OthersStayPut DEF Buries, WorkerAction, WorkerStep, Failure, Bury, Strand, Goto, Finish
  <2>2. \A m \in Messages : m.req = r => Buriers(m)' \subseteq Buriers(m)
    <3>1. ASSUME NEW m \in Messages, m.req = r PROVE held'[w] # m
      BY <1>4, <2>1, <3>1, RelayConstants DEF RelayTypeOK, RelayConstants
    <3> QED BY <2>1, <3>1 DEF Buriers, OthersStay
  <2>3. Kept(r) => Kept(r)'
    BY <1>1, <2>2, KeptStays
  <2>4. (Inbound(r) => Inbound(r)') /\ (Retrying(r) => Retrying(r)')
    BY <1>1 DEF Inbound, Retrying
  <2>5. Buried(r) => Buried(r)'
    BY <1>2 DEF Buried
  <2> QED BY <2>3, <2>4, <2>5 DEF Found
<1> QED BY <1>3, <1>4

LEMMA FoundUnlist ==
  ASSUME RelayTypeOK, ControlOK, NEW w \in Workers, Unlists(w), NEW r, Kept(r)
  PROVE  Kept(r)'
<1>1. PICK m \in Messages : m.req = r /\ Cardinality(Buriers(m)) < Copies(m, processing)
  BY DEF Kept
<1> DEFINE b == Cardinality(Buriers(m))
           after == Cardinality(Buriers(m)')
           c == Copies(m, processing)
<1>2. /\ IsABag(processing) /\ processing' = processing (-) One(held[w])
      /\ pc[w] = "burying"
  BY DEF Unlists, ControlOK
<1>3. /\ Buriers(m)' = Buriers(m) \ {w}
      /\ IsFiniteSet(Buriers(m)) /\ b \in Nat /\ c \in Nat /\ b < c
  <2>1. WorkerAction(w) /\ ~Bury(w)
    BY DEF Unlists, WorkerAction, WorkerStep, Failure, Unlist, RecordFails, Bury
  <2> QED BY <1>1, <1>2, <2>1, BuriersLess, HoldersFinite, CopiesType
<1>4. /\ IsFiniteSet(Buriers(m)')
      /\ after = IF w \in Buriers(m) THEN b - 1 ELSE b
  BY <1>3, FS_RemoveElement
<1>5. after \in Nat
  BY <1>4, FS_CardinalityType
<1>6. /\ held[w] = m => Copies(m, processing') = IF c = 0 THEN 0 ELSE c - 1
      /\ held[w] # m => Copies(m, processing') = c
  BY <1>2, CopiesRemoved
<1>7. held[w] = m => w \in Buriers(m)
  BY <1>2 DEF Buriers
<1>8. after < Copies(m, processing')
  <2> HIDE DEF after, b, c
  <2> QED BY <1>3, <1>4, <1>5, <1>6, <1>7
<1> QED BY <1>1, <1>8 DEF Kept

LEMMA FoundWorker ==
  ASSUME RelayTypeOK, ControlOK, HeldIsListed, ListsOK, NEW w \in Workers, WorkerAction(w),
         NEW r, Found(r), r.key \notin processedSet'
  PROVE  Found(r)'
<1>1. r.key \notin processedSet
  BY WorkerActions, ElsewhereLists DEF queues, Settles, Settle, Pops, SkipProcessed, Reschedule,
     Buries, Unlists, Promotes
<1>2. CASE Buries(w)
  BY <1>2, FoundBury
<1>3. CASE Pops(w)
  BY <1>1, <1>3, FoundTake
<1>4. ~Bury(w) => \A m \in Messages : Buriers(m)' \subseteq Buriers(m)
  BY BuriersLess
<1>5. CASE Elsewhere(w) /\ ~Bury(w)
  <2>1. UNCHANGED <<inbound, processing, retryQueue, deadLetters>>
    BY <1>5, ElsewhereLists DEF queues
  <2>2. Kept(r) => Kept(r)'
    BY <1>4, <1>5, <2>1, KeptStays
  <2>3. /\ Inbound(r) => Inbound(r)'
        /\ Retrying(r) => Retrying(r)'
        /\ Buried(r) => Buried(r)'
    BY <2>1 DEF Inbound, Retrying, Buried
  <2> QED BY <2>2, <2>3 DEF Found
<1>6. CASE (Settles(w) \/ SkipProcessed(w)) /\ ~Bury(w)
  <2>1. /\ UNCHANGED <<inbound, retryQueue, deadLetters>>
        /\ processing' = processing (-) One(held[w]) /\ held[w].req # r
    BY <1>1, <1>6 DEF Settles, Settle, SkipProcessed
  <2>2. \A m \in Messages : m.req = r => Copies(m, processing') = Copies(m, processing)
    BY <2>1, CopiesRemoved DEF ControlOK
  <2>3. Kept(r) => Kept(r)'
    BY <1>4, <1>6, <2>2, KeptStays
  <2>4. /\ Inbound(r) => Inbound(r)'
        /\ Retrying(r) => Retrying(r)'
        /\ Buried(r) => Buried(r)'
    BY <2>1 DEF Inbound, Retrying, Buried
  <2> QED BY <2>3, <2>4 DEF Found
<1>7. CASE Reschedule(w) /\ ~Bury(w)
  <2>1. /\ UNCHANGED <<inbound, deadLetters>> /\ pc[w] # "idle"
        /\ processing' = processing (-) One(held[w])
        /\ retryQueue' = retryQueue \union {NextTry(held[w])} /\ held[w].tries < Limit(w)
    BY <1>7, RetryLeft DEF Reschedule
  <2>2. NextTry(held[w]).req = held[w].req
    BY <2>1, HoldsMessage, TriedAgain
  <2>3. CASE held[w].req = r
    BY <2>1, <2>2, <2>3 DEF Found, Retrying
  <2>4. CASE held[w].req # r
    <3>1. \A m \in Messages : m.req = r => Copies(m, processing') = Copies(m, processing)
      BY <2>1, <2>4, CopiesRemoved DEF ControlOK
    <3>2. Kept(r) => Kept(r)'
      BY <1>4, <1>7, <3>1, KeptStays
    <3>3. /\ Inbound(r) => Inbound(r)'
          /\ Retrying(r) => Retrying(r)'
          /\ Buried(r) => Buried(r)'
      BY <2>1 DEF Inbound, Retrying, Buried
    <3> QED BY <3>2, <3>3 DEF Found
  <2> QED BY <2>3, <2>4
<1>8. CASE Unlists(w)
  <2>1. UNCHANGED <<inbound, retryQueue, deadLetters>>
    BY <1>8 DEF Unlists
  <2>2. /\ Inbound(r) => Inbound(r)'
        /\ Retrying(r) => Retrying(r)'
        /\ Buried(r) => Buried(r)'
    BY <2>1 DEF Inbound, Retrying, Buried
  <2> QED BY <1>8, <2>2, FoundUnlist DEF Found
<1>9. CASE Promotes(w) /\ ~Bury(w)
  <2> PICK x \in due[w] : Promote(x)
    BY <1>9 DEF Promotes
  <2>1. /\ inbound' = <<x>> \o inbound /\ retryQueue' = retryQueue \ {x} /\ x \in Messages
        /\ UNCHANGED <<processing, deadLetters>>
    BY <1>9 DEF Promotes, Promote, RelayTypeOK
  <2>2. Inbound(r)' <=> x.req = r \/ Inbound(r)
    BY <2>1, InboundPushed
  <2>3. Retrying(r) => Retrying(r)' \/ x.req = r
    BY <2>1 DEF Retrying
  <2>4. Kept(r) => Kept(r)'
    BY <1>4, <1>9, <2>1, KeptStays
  <2>5. Buried(r) => Buried(r)'
    BY <2>1 DEF Buried
  <2> QED BY <2>2, <2>3, <2>4, <2>5 DEF Found
<1>10. ASSUME Bury(w) PROVE Buries(w)
  BY <1>10 DEF Bury, Buries
<1> QED BY <1>2, <1>3, <1>5, <1>6, <1>7, <1>8, <1>9, <1>10, WorkerActions

\* Steps of the producer, the chain and the operator leave the workers' copies.
LEMMA KeptOutside ==
  ASSUME TypeOK, RelayTypeOK, ControlOK, NEW r, Kept(r),
         (\E q \in Requests : Deliver(q)) \/ Mine \/ OperatorStep \/ ChainStep
  PROVE  Kept(r)'
<1>1. UNCHANGED processing
  BY DEF Deliver, Mine, OperatorStep, ValidateReplay, Discard, ExecuteReplay, ChainStep,
     Unpause, relay, queues
<1>2. \A m \in Messages : Buriers(m)' \subseteq Buriers(m)
  <2>1. CASE UNCHANGED local
    BY <2>1 DEF local, Buriers
  <2>2. CASE Mine
    <3> DEFINE tx == Head(mempool)
    <3>1. MineLands(tx) /\ tx.by \in Workers \union {NoWorker}
      BY <2>2, MinedLands, OldestTransaction DEF Mine
    <3> HIDE DEF tx
    <3>2. ASSUME NEW b \in Workers, NEW s, NEW v, Lands(b, s, held[b], v), s # "burying"
          PROVE  \A m \in Messages : Buriers(m)' \subseteq Buriers(m)
      BY <3>2, LandedAt DEF Buriers
    <3>3. CASE tx.by = NoWorker
      BY <2>1, <3>1, <3>3 DEF MineLands
    <3>4. CASE tx.by \in Workers
      <4>1. \E s : \E v : Lands(tx.by, s, held[tx.by], v) /\ s # "burying"
        BY <3>1, <3>4, RelayConstants DEF MineLands, RelayConstants
      <4> QED BY <3>2, <3>4, <4>1
    <3> QED BY <3>1, <3>3, <3>4
  <2>3. ASSUME ~Mine PROVE UNCHANGED local
    BY <2>3 DEF Deliver, OperatorStep, ValidateReplay, Discard, ExecuteReplay, ChainStep,
       Unpause, relay
  <2> QED BY <2>1, <2>2, <2>3
<1> QED BY <1>1, <1>2, KeptStays

LEMMA FoundStep ==
  ASSUME TypeOK, RelayTypeOK, ControlOK, HeldIsListed, AllFound, RelayNext
  PROVE  AllFound'
<1>1. ListsOK
  BY DEF RelayTypeOK, ControlOK, ListsOK, Entries
<1> SUFFICES ASSUME NEW r \in delivered', r \notin discarded', r.key \notin processedSet'
             PROVE  Found(r)'
  BY DEF AllFound, Found, Inbound, Retrying, Kept, Buried, Buriers
<1> USE DEF operator
<1>2. ASSUME NEW q \in Requests, Deliver(q) PROVE Found(r)'
  <2> DEFINE m == [req |-> q, tries |-> 0]
  <2>1. m \in Messages /\ m.req = q
    BY FreshMessage
  <2>2. /\ inbound' = <<m>> \o inbound /\ delivered' = delivered \union {q}
        /\ UNCHANGED <<processing, retryQueue, deadLetters, processedSet, discarded>>
    BY <1>2 DEF Deliver
  <2> HIDE DEF m
  <2>3. Inbound(r)' <=> m.req = r \/ Inbound(r)
    BY <1>1, <2>1, <2>2, InboundPushed
  <2>4. r = q \/ Found(r)
    BY <2>2 DEF AllFound
  <2>5. Kept(r) => Kept(r)'
    BY <1>2, KeptOutside
  <2>6. (Retrying(r) => Retrying(r)') /\ (Buried(r) => Buried(r)')
    BY <2>2 DEF Retrying, Buried
  <2> QED BY <2>1, <2>3, <2>4, <2>5, <2>6 DEF Found
<1>3. CASE Mine \/ ChainStep
  <2>1. UNCHANGED <<queues, operator, delivered>>
    BY <1>3 DEF Mine, ChainStep, Unpause, relay
  <2>2. Found(r)
    BY <2>1 DEF AllFound, queues
  <2>3. Kept(r) => Kept(r)'
    BY <1>3, KeptOutside
  <2>4. /\ Inbound(r) => Inbound(r)'
        /\ Retrying(r) => Retrying(r)'
        /\ Buried(r) => Buried(r)'
    BY <2>1 DEF queues, Inbound, Retrying, Buried
  <2> QED BY <2>2, <2>3, <2>4 DEF Found
<1>4. ASSUME NEW e \in BagToSet(deadLetters), ValidateReplay(e) \/ Discard(e) PROVE Found(r)'
  <2>1. UNCHANGED <<inbound, processing, retryQueue, processedSet, delivered>>
        /\ discarded \subseteq discarded'
    BY <1>4 DEF ValidateReplay, Discard, queues
  <2>2. Found(r)
    BY <2>1 DEF AllFound
  <2>3. Kept(r) => Kept(r)'
    BY <1>4, KeptOutside DEF OperatorStep
  <2>4. (Inbound(r) => Inbound(r)') /\ (Retrying(r) => Retrying(r)')
    BY <2>1 DEF Inbound, Retrying
  <2>5. Buried(r) => Buried(r)'
    <3>1. CASE ValidateReplay(e)
      BY <3>1 DEF ValidateReplay, queues, Buried
    <3>2. CASE Discard(e)
      <4>1. deadLetters' = deadLetters (-) One(e) /\ e.msg.req # r
        BY <3>2 DEF Discard
      <4> QED BY <4>1, BuriedStays
    <3> QED BY <1>4, <3>1, <3>2
  <2> QED BY <2>2, <2>3, <2>4, <2>5 DEF Found
<1>5. ASSUME NEW e \in cleared, ExecuteReplay(e) PROVE Found(r)'
  <2> DEFINE m == [e.msg EXCEPT !.tries = 0]
  <2>1. m \in Messages /\ m.req = e.msg.req
    BY <1>1, EntryMessage, ReplayedMessage DEF ListsOK
  <2>2. /\ inbound' = <<m>> \o inbound /\ deadLetters' = deadLetters (-) One(e)
        /\ UNCHANGED <<processing, retryQueue, processedSet, discarded, delivered>>
    BY <1>5 DEF ExecuteReplay
  <2> HIDE DEF m
  <2>3. Inbound(r)' <=> m.req = r \/ Inbound(r)
    BY <1>1, <2>1, <2>2, InboundPushed
  <2>4. Found(r)
    BY <2>2 DEF AllFound
  <2>5. Kept(r) => Kept(r)'
    BY <1>5, KeptOutside DEF OperatorStep
  <2>6. Retrying(r) => Retrying(r)'
    BY <2>2 DEF Retrying
  <2>7. Buried(r) => Buried(r)' \/ e.msg.req = r
    BY <2>2, BuriedStays
  <2> QED BY <2>1, <2>3, <2>4, <2>5, <2>6, <2>7 DEF Found
<1>6. ASSUME NEW w \in Workers, WorkerAction(w) PROVE Found(r)'
  <2>1. UNCHANGED <<delivered, discarded>> /\ processedSet \subseteq processedSet'
    BY <1>6, WorkerActions, ElsewhereLists DEF queues, Settles, Settle, Pops, SkipProcessed,
       Reschedule, Buries, Unlists, Promotes
  <2>2. Found(r)
    BY <2>1 DEF AllFound
  <2> QED BY <1>1, <1>6, <2>2, FoundWorker
<1> QED BY <1>2, <1>3, <1>4, <1>5, <1>6 DEF RelayNext, OperatorStep, WorkerAction

-----------------------------------------------------------------------------
(* The inductive invariant, and what follows from it.                      *)

LEMMA RelayInitially ==
  ASSUME RelayInit
  PROVE  RelayInv
<1> USE RelayConstants DEF RelayConstants
<1>1. TypeOK
  <2>1. isAttester \in SUBSET Accounts /\ IsFiniteSet(isAttester)
        /\ attesterCount \in Nat /\ attesterThreshold \in Nat
    BY FS_CardinalityType DEF RelayInit
  <2>2. /\ modelWeightHead \in [Models -> Heads]
        /\ weightGenesis \in [Models -> Heads]
    BY DEF RelayInit, Heads
  <2>3. /\ status \in [Models -> {"unregistered", "active", "inactive"}]
        /\ tokenLink \in [Models -> {"none", "match", "mismatch"}]
        /\ tokensPerDeltaOne \in [Models -> Nat]
    BY ConstantTypes DEF ConstantTypes, RelayInit
  <2>4. /\ lineageLog \in [Models -> Seq(EdgeType)]
        /\ resolutions \in Seq(ResolutionType)
    BY DEF RelayInit
  <2>5. /\ mintBudgetRemaining \in [Models -> Nat]
        /\ lastSubmissionTime \in [Contributors -> Nat]
        /\ rewardMinted \in [Models -> Nat]
        /\ granted \in [Models -> Int] /\ legacyMinted \in [Models -> Nat]
    BY DEF RelayInit
  <2>6. /\ paused \in BOOLEAN /\ legacyMintsDisabled \in BOOLEAN
        /\ processedIdempotencyKeys \in SUBSET Keys
        /\ minImprovementBps \in Nat /\ maxReward \in Nat
        /\ now \in Nat /\ govOps \in Nat
    BY ConstantTypes DEF ConstantTypes, RelayInit
  <2> QED BY <2>1, <2>2, <2>3, <2>4, <2>5, <2>6 DEF TypeOK
<1>2. KeysResolveOnce
  BY DEF RelayInit, KeysResolveOnce
<1>3. BagToSet(EmptyBag) = {} /\ IsABag(EmptyBag) /\ \A x : Copies(x, EmptyBag) = 0
  BY EmptyCopies, CopiesType
<1>4. /\ processing = EmptyBag /\ deadLetters = EmptyBag /\ settlements = EmptyBag
      /\ \A w \in Workers : pc[w] = "idle" /\ held[w] = NoMessage
      /\ delivered = {} /\ authPosted = {} /\ processedSet = {}
  BY DEF RelayInit
<1>5. RelayTypeOK
  <2>1. BagToSet(processing) = {} /\ BagToSet(deadLetters) = {} /\ BagToSet(settlements) = {}
    BY <1>3, <1>4
  <2> QED BY <2>1 DEF RelayInit, RelayTypeOK
<1>6. ControlOK
  <2>1. \A w \in Workers : WorkerOK(w)
    BY <1>4 DEF WorkerOK, Resolved
  <2>2. \A i \in DOMAIN mempool : WaitedFor(i)
    BY DEF RelayInit
  <2> QED BY <1>3, <1>4, <2>1, <2>2 DEF ControlOK
<1>7. DoneMeansResolved
  BY <1>3 DEF RelayInit, DoneMeansResolved, Outcomes
<1>8. MintsCounted
  BY <1>3, <1>4 DEF MintsCounted, MintsAnnouncedOnce, Announcing
<1>9. HeldIsListed
  <2>1. ASSUME NEW m \in Messages PROVE Cardinality(Holders(m)) <= Copies(m, processing)
    <3>1. Holders(m) = {}
      BY <1>4 DEF Holders
    <3> QED BY <1>3, <1>4, <3>1, FS_EmptySet
  <2> QED BY <2>1 DEF HeldIsListed
<1>10. AllFound
  BY <1>4 DEF AllFound
<1> QED BY <1>1, <1>2, <1>5, <1>6, <1>7, <1>8, <1>9, <1>10 DEF RelayInv

LEMMA RelayStep ==
  ASSUME RelayInv, [RelayNext]_allVars
  PROVE  RelayInv'
<1>1. CASE RelayNext
  <2>1. TypeOK' /\ KeysResolveOnce'
    BY <1>1, ChainKept DEF RelayInv
  <2>2. RelayTypeOK' /\ ControlOK'
    BY <1>1, RelayTypeStep DEF RelayInv
  <2>3. DoneMeansResolved' /\ MintsCounted' /\ HeldIsListed' /\ AllFound'
    BY <1>1, <2>2, DoneStep, MintsStep, HeldStep, FoundStep DEF RelayInv
  <2> QED BY <2>1, <2>2, <2>3 DEF RelayInv
<1>2. CASE UNCHANGED allVars
  <2> USE <1>2 DEF allVars, relay, queues, outputs, local, operator, counts
  <2>1. UNCHANGED vars
    OBVIOUS
  <2>2. TypeOK' /\ KeysResolveOnce'
    BY <2>1, TypeStep, KeysStep DEF RelayInv
  <2>3. UNCHANGED <<processedIdempotencyKeys, resolutions>>
    BY <2>1 DEF vars, ledger
  <2>4. RelayTypeOK' /\ ControlOK'
    BY <2>3 DEF RelayInv, RelayTypeOK, ControlOK, WorkerOK, WaitedFor, MintedKeys
  <2>5. DoneMeansResolved' /\ MintsCounted'
    BY <2>3 DEF RelayInv, DoneMeansResolved, MintsCounted, MintsAnnouncedOnce, Announcing,
       MintedKeys
  <2>6. HeldIsListed' /\ AllFound'
    BY DEF RelayInv, HeldIsListed, Holders, AllFound, Found, Inbound, Retrying, Kept, Buriers,
       Buried
  <2> QED BY <2>2, <2>4, <2>5, <2>6 DEF RelayInv
<1> QED BY <1>1, <1>2

\* The relay keeps its types, its control state and its counts through every
\* interleaving of workers, chain and operator, every failed call and crash
\* (mint-request-consumer.ts, delta-verifier-client.ts, dlq.ts).
THEOREM RelayInvariant == RelaySpec => []RelayInv
<1>1. RelayInit => RelayInv
  BY RelayInitially
<1>2. RelayInv /\ [RelayNext]_allVars => RelayInv'
  BY RelayStep
<1> QED BY <1>1, <1>2, PTL DEF RelaySpec

\* Whatever fails or dies between two Redis calls, an enqueued request is done,
\* discarded by an operator, or still in one of the lists.
THEOREM RequestsAlwaysAccounted == RelaySpec => []MessagesAccounted
<1>1. ASSUME RelayInv PROVE MessagesAccounted
  <2>1. ASSUME NEW r, Kept(r) PROVE Queued(r)
    <3>1. PICK m \in Messages : m.req = r /\ Cardinality(Buriers(m)) < Copies(m, processing)
      BY <2>1 DEF Kept
    <3>2. /\ Cardinality(Buriers(m)) \in Nat /\ Copies(m, processing) \in Nat
          /\ m \in BagToSet(processing) <=> Copies(m, processing) > 0
      BY <1>1, HoldersFinite, CopiesType DEF RelayInv, ControlOK
    <3>3. Copies(m, processing) > 0
      BY <3>1, <3>2
    <3> QED BY <3>1, <3>2, <3>3 DEF Queued
  <2>2. ASSUME NEW r, Found(r) PROVE Queued(r) \/ Buried(r)
    BY <2>1, <2>2 DEF Found, Inbound, Retrying, Queued
  <2> QED BY <1>1, <2>2 DEF RelayInv, AllFound, MessagesAccounted, NothingLost
<1> QED BY <1>1, RelayInvariant, PTL

\* The relay calls done only what the contract has resolved.
THEOREM DoneAlwaysResolved == RelaySpec => []DoneMeansResolved
<1>1. RelayInv => DoneMeansResolved
  BY DEF RelayInv
<1> QED BY <1>1, RelayInvariant, PTL

\* However often a request is delivered, retried or replayed, its mint is
\* announced once at most, and only for a key that was minted.
THEOREM MintsAlwaysAnnouncedOnce == RelaySpec => []MintsAnnouncedOnce
<1>1. RelayInv => MintsAnnouncedOnce
  BY DEF RelayInv, MintsCounted
<1> QED BY <1>1, RelayInvariant, PTL

=============================================================================
