----------------------------- MODULE MintRelay -----------------------------
(***************************************************************************)
(* services/contract-deployer: the relay that takes signed mint requests   *)
(* from a Redis list, submits them to DeltaVerifier (MintAuthority) and    *)
(* publishes how they were settled.  Every await is a step boundary: other *)
(* workers, the chain, governance and the operator's DLQ tool move between *)
(* two Redis or RPC calls, calls fail, and a worker may die anywhere.      *)
(***************************************************************************)
EXTENDS MintAuthority, Counting

CONSTANTS
  Workers, NoWorker,   \* consumer loops (two during a rolling deployment)
  NoMessage,           \* what an idle worker holds
  Carried,             \* Carried[r]: message.attester_signatures, as signers
  Root, InitialBudget, \* the launch posture: genesis and budget of each model
  maxRetries, budgetMaxRetries,
  MaxDeliveries,       \* bound: messages the producer enqueues
  MaxFaults,           \* bound: failing RPC, auth-service and Redis calls
  MaxCrashes,          \* bound: workers that die
  MaxReplays           \* bound: operator replays

\* A queued message: the request and its _retryCount.
MostRetries == IF maxRetries > budgetMaxRetries THEN maxRetries ELSE budgetMaxRetries
Messages == [req : Requests, tries : 0..MostRetries]

ASSUME RelayConstants ==
  /\ IsFiniteSet(Workers) /\ IsFiniteSet(Accounts)
  /\ NoWorker \notin Workers /\ NoMessage \notin Messages
  /\ Carried \in [Requests -> Seq(Accounts)]
  /\ \A r \in Requests : \A i \in DOMAIN Carried[r] : Carried[r][i] \in SignedBy[r]
  /\ Root \in Commitments /\ InitialBudget \in Nat
  /\ {maxRetries, budgetMaxRetries, MaxDeliveries, MaxFaults, MaxCrashes,
      MaxReplays} \subseteq Nat

VARIABLES
  inbound,        \* list: LPUSH at the head, BRPOPLPUSH from the end
  processing,     \* bag: messages a worker has taken (LREM removes one)
  retryQueue,     \* sorted set: messages waiting for their backoff
  deadLetters,    \* bag of [msg, reason]
  processedSet,   \* keys the relay considers done
  settlements,    \* bag of [key, status], the queue other services read
  record,         \* MintRecordStore: [Keys -> last status written]
  authPosted,     \* keys whose direct-mint settlement reached auth
  mempool,        \* transactions sent and not mined, in nonce order
  pc, held, verdict,     \* each worker's control state, message and result
  due,            \* due[w]: retries worker w has read and not yet promoted
  cleared,        \* dead letters an operator has validated, not yet replayed
  delivered, discarded,  \* history: requests enqueued, requests discarded
  deliveries, faults, crashes, replays

queues  == <<inbound, processing, retryQueue, deadLetters, processedSet>>
outputs == <<settlements, record, authPosted>>
local   == <<pc, held, verdict>>
counts  == <<deliveries, faults, crashes, replays>>
operator == <<cleared, discarded>>
relay   == <<queues, outputs, local, due, mempool, operator, delivered, counts>>
allVars == <<vars, relay>>

\* The chain as the launch scripts leave it: every account an attester with
\* threshold one, every model active with a genesis and a budget.
RelayInit ==
  /\ paused = FALSE /\ legacyMintsDisabled = TRUE
  /\ isAttester = Accounts /\ attesterCount = Cardinality(Accounts)
  /\ attesterThreshold = 1
  /\ mintBudgetRemaining = [m \in Models |-> InitialBudget]
  /\ granted = [m \in Models |-> InitialBudget]
  /\ modelWeightHead = [m \in Models |-> NoCommitment]
  /\ weightGenesis = [m \in Models |-> Root]
  /\ processedIdempotencyKeys = {} /\ resolutions = <<>>
  /\ minImprovementBps \in MinImprovements /\ maxReward \in MaxRewards
  /\ lastSubmissionTime = [c \in Contributors |-> 0]
  /\ status = [m \in Models |-> "active"]
  /\ tokenLink = [m \in Models |-> "match"]
  /\ tokensPerDeltaOne \in [Models -> Rates]
  /\ rewardMinted = [m \in Models |-> 0] /\ legacyMinted = [m \in Models |-> 0]
  /\ lineageLog = [m \in Models |-> <<>>]
  /\ now = RateLimit /\ govOps = 0
  /\ inbound = <<>> /\ processing = EmptyBag /\ retryQueue = {}
  /\ deadLetters = EmptyBag /\ processedSet = {}
  /\ settlements = EmptyBag /\ record = [k \in Keys |-> "none"] /\ authPosted = {}
  /\ mempool = <<>>
  /\ pc = [w \in Workers |-> "idle"]
  /\ held = [w \in Workers |-> NoMessage]
  /\ verdict = [w \in Workers |-> "none"] /\ due = [w \in Workers |-> {}]
  /\ cleared = {} /\ discarded = {} /\ delivered = {}
  /\ deliveries = 0 /\ faults = 0 /\ crashes = 0 /\ replays = 0

-----------------------------------------------------------------------------
(* What a worker learns by simulating the transaction (estimateGas).       *)

BudgetShort(r) ==
  /\ AcceptRequest(r, Carried[r])
  /\ ~CostViolated(r.maxCost, r.actualCost)
  /\ ~WithinBudget(r.model, RequestReward(r))

WouldAccept(r) ==
  /\ AcceptRequest(r, Carried[r])
  /\ \/ CostViolated(r.maxCost, r.actualCost)
     \/ RequestReward(r) = 0
     \/ /\ WithinBudget(r.model, RequestReward(r))
        /\ Mintable(r.model, RequestReward(r))

\* The reason text tells a signer that is not an attester from other reverts.
RevertReason(r) ==
  IF \A i \in DOMAIN Carried[r] : Carried[r][i] \in isAttester
    THEN "reverted" ELSE "signer_not_attester"

Reasons == {"schema", "reverted", "signer_not_attester", "unknown_outcome",
            "auth_failed", "exhausted", "budget_exhausted"}
Outcomes == {"minted", "no_delta", "budget_blocked", "replay"}
Retriable == {"transient", "budget"}

Goto(w, place, result) ==
  /\ pc' = [pc EXCEPT ![w] = place]
  /\ verdict' = [verdict EXCEPT ![w] = result]
  /\ UNCHANGED held

Finish(w) ==
  /\ pc' = [pc EXCEPT ![w] = "idle"]
  /\ verdict' = [verdict EXCEPT ![w] = "none"]
  /\ held' = [held EXCEPT ![w] = NoMessage]

Fault == faults < MaxFaults /\ faults' = faults + 1
         /\ UNCHANGED <<deliveries, crashes, replays>>

\* A worker's transaction has nobody waiting for it any more.
Orphaned(pool, w) ==
  [i \in DOMAIN pool |-> IF pool[i].by = w THEN [pool[i] EXCEPT !.by = NoWorker]
                                           ELSE pool[i]]

-----------------------------------------------------------------------------
(* The consumer loop: promote due retries, take a message, screen it.      *)

\* The producer enqueues a request; it may enqueue the same one again.
Deliver(r) ==
  /\ deliveries < MaxDeliveries
  /\ deliveries' = deliveries + 1
  /\ delivered' = delivered \union {r}
  /\ inbound' = <<[req |-> r, tries |-> 0]>> \o inbound
  /\ UNCHANGED <<vars, processing, retryQueue, deadLetters, processedSet, outputs,
                 local, mempool, operator, faults, crashes, replays, due>>

\* promoteDueRetries first reads the retries whose backoff has elapsed, and then
\* moves them one by one; another worker may have read the same ones.
ReadDue(w) ==
  /\ pc[w] = "idle" /\ due[w] = {}
  /\ \E read \in SUBSET retryQueue \ {{}} : due' = [due EXCEPT ![w] = read]
  /\ UNCHANGED <<vars, queues, outputs, local, mempool, operator, delivered, counts>>

\* MULTI: LPUSH inbound, ZREM retry.  The push does not ask whether the removal
\* found anything.
Promote(m) ==
  /\ inbound' = <<m>> \o inbound
  /\ retryQueue' = retryQueue \ {m}

PromoteDueRetry(w, m) ==
  /\ m \in due[w]
  /\ due' = [due EXCEPT ![w] = @ \ {m}]
  /\ Promote(m)
  /\ UNCHANGED <<vars, processing, deadLetters, processedSet, outputs, local,
                 mempool, operator, delivered, counts>>

\* The MULTI fails, executed or not: start() swallows it, and the loop begins
\* again.  (A worker that dies here leaves the same behind.)
PromotionFails(w, m) ==
  /\ m \in due[w] /\ Fault
  /\ due' = [due EXCEPT ![w] = {}]
  /\ UNCHANGED <<inbound, retryQueue>> \/ Promote(m)
  /\ UNCHANGED <<vars, processing, deadLetters, processedSet, outputs, local,
                 mempool, operator, delivered>>

\* Mutant: BRPOP, no copy is kept while the message is in hand.
ForgetInHand(m) == UNCHANGED processing
KeepInHand(m) == processing' = processing (+) One(m)

\* BRPOPLPUSH, once what was due has been promoted.
Take(w) ==
  /\ pc[w] = "idle" /\ due[w] = {} /\ inbound # <<>>
  /\ LET m == inbound[Len(inbound)] IN
       /\ KeepInHand(m)
       /\ held' = [held EXCEPT ![w] = m]
  /\ inbound' = SubSeq(inbound, 1, Len(inbound) - 1)
  /\ pc' = [pc EXCEPT ![w] = "taken"]
  /\ UNCHANGED <<vars, retryQueue, deadLetters, processedSet, outputs, verdict, mempool,
                 operator, due, delivered, counts>>

\* BRPOPLPUSH is executed and its reply is lost: the message is in the
\* processing list, and no worker knows of it.
TakeReplyLost(w) ==
  /\ pc[w] = "idle" /\ due[w] = {} /\ inbound # <<>> /\ Fault
  /\ KeepInHand(inbound[Len(inbound)])
  /\ inbound' = SubSeq(inbound, 1, Len(inbound) - 1)
  /\ UNCHANGED <<vars, retryQueue, deadLetters, processedSet, outputs, local, due,
                 mempool, operator, delivered>>

\* The message fails the schema, or is handed on when its key is new.
Screen(w) ==
  /\ pc[w] = "taken"
  /\ \/ ~held[w].req.wellFormed /\ Goto(w, "failing", "schema")
     \/ /\ held[w].req.wellFormed /\ held[w].req.key \notin processedSet
        /\ Goto(w, "handling", "none")
  /\ UNCHANGED <<vars, queues, outputs, mempool, operator, due, delivered, counts>>

\* Mutant: the duplicate is skipped but stays in the processing list.
SkipSilently(w) ==
  /\ pc[w] = "taken"
  /\ held[w].req.wellFormed /\ held[w].req.key \in processedSet
  /\ Finish(w)
  /\ UNCHANGED <<vars, queues, outputs, mempool, operator, due, delivered, counts>>

SkipProcessed(w) ==
  /\ pc[w] = "taken"
  /\ held[w].req.wellFormed /\ held[w].req.key \in processedSet
  /\ processing' = processing (-) One(held[w])
  /\ Finish(w)
  /\ UNCHANGED <<vars, inbound, retryQueue, deadLetters, processedSet, outputs, mempool,
                 operator, due, delivered, counts>>

-----------------------------------------------------------------------------
(* The handler: DeltaVerifierClient.submitMintRequest, the auth service,   *)
(* the settlements queue.  The reads before a transaction is sent (the     *)
(* key, the model, the estimate) are one step: whatever lands between them *)
(* turns into the same answers, and the transaction is mined later anyway. *)

\* Mutant: a replay is reported as the mint.
ReplayAsMint(w) ==
  /\ pc[w] = "handling" /\ held[w].req.key \in processedIdempotencyKeys
  /\ Goto(w, "publishing", "minted")
  /\ UNCHANGED <<vars, queues, outputs, mempool, operator, due, delivered, counts>>

AnswerReplay(w) ==
  /\ pc[w] = "handling" /\ held[w].req.key \in processedIdempotencyKeys
  /\ Goto(w, "publishing", "replay")
  /\ UNCHANGED <<vars, queues, outputs, mempool, operator, due, delivered, counts>>

\* The model is not active, or estimateGas reverts: permanent, except for
\* MintBudgetExceeded.
Refused(w) ==
  LET r == held[w].req IN
  /\ pc[w] = "handling" /\ r.key \notin processedIdempotencyKeys
  /\ ~WouldAccept(r)
  /\ Goto(w, "failing", IF BudgetShort(r) THEN "budget" ELSE RevertReason(r))
  /\ UNCHANGED <<vars, queues, outputs, mempool, operator, due, delivered, counts>>

Send(w) ==
  LET r == held[w].req IN
  /\ pc[w] = "handling" /\ WouldAccept(r)
  /\ mempool' = Append(mempool, [req |-> r, by |-> w])
  /\ Goto(w, "waiting", "none")
  /\ UNCHANGED <<vars, queues, outputs, operator, due, delivered, counts>>

\* An RPC call fails.  When it is the send, the node may have the transaction.
RpcFails(w) ==
  LET r == held[w].req IN
  /\ pc[w] = "handling" /\ Fault
  /\ \/ UNCHANGED mempool
     \/ WouldAccept(r) /\ mempool' = Append(mempool, [req |-> r, by |-> NoWorker])
  /\ Goto(w, "failing", "transient")
  /\ UNCHANGED <<vars, queues, outputs, operator, due, delivered>>

\* The oldest transaction is mined, as the contract stands now: it resolves
\* its request or reverts.  A worker that waits for it gets the receipt.
Mine ==
  /\ mempool # <<>>
  /\ mempool' = Tail(mempool)
  /\ LET tx == Head(mempool) IN
       /\ \/ SubmitMintRequest(tx.req, Carried[tx.req])
          \/ ~WouldAccept(tx.req) /\ UNCHANGED vars
       /\ IF tx.by = NoWorker THEN UNCHANGED local
          ELSE IF resolutions' = resolutions THEN Goto(tx.by, "failing", "reverted")
          ELSE LET outcome == resolutions'[Len(resolutions')].outcome IN
               Goto(tx.by, IF outcome = "minted" THEN "posting" ELSE "publishing",
                    outcome)
  /\ UNCHANGED <<queues, outputs, operator, due, delivered, counts>>

\* tx.wait fails: the outcome is unknown, which is permanent.
WaitFails(w) ==
  /\ pc[w] = "waiting" /\ Fault
  /\ mempool' = Orphaned(mempool, w)
  /\ Goto(w, "failing", "unknown_outcome")
  /\ UNCHANGED <<vars, queues, outputs, operator, due, delivered>>

\* Mutant: the receipt is not decoded, and nothing is posted.
SkipAuth(w) ==
  /\ pc[w] = "posting"
  /\ Goto(w, "publishing", verdict[w])
  /\ UNCHANGED <<vars, queues, outputs, mempool, operator, due, delivered, counts>>

\* DirectMintSettlementClient.postSettlements after a paying mint.
PostSettlements(w) ==
  /\ pc[w] = "posting"
  /\ authPosted' = authPosted \union {held[w].req.key}
  /\ Goto(w, "publishing", verdict[w])
  /\ UNCHANGED <<vars, queues, settlements, record, mempool, operator, due, delivered,
                 counts>>

\* Any failure of it is permanent; the service may have stored the rows.
PostFails(w) ==
  /\ pc[w] = "posting" /\ Fault
  /\ \/ UNCHANGED authPosted
     \/ authPosted' = authPosted \union {held[w].req.key}
  /\ Goto(w, "failing", "auth_failed")
  /\ UNCHANGED <<vars, queues, settlements, record, mempool, operator, due, delivered>>

\* The listener's LPUSH on the settlements queue.
Announce(w) ==
  settlements' = settlements (+) One([key |-> held[w].req.key, status |-> verdict[w]])

Publish(w) ==
  /\ pc[w] = "publishing"
  /\ Announce(w)
  /\ Goto(w, "committing", verdict[w])
  /\ UNCHANGED <<vars, queues, record, authPosted, mempool, operator, due, delivered,
                 counts>>

\* MULTI: SADD processed set, LREM processing, SET record.
Settle(w) ==
  /\ processedSet' = processedSet \union {held[w].req.key}
  /\ processing' = processing (-) One(held[w])
  /\ record' = [record EXCEPT ![held[w].req.key] = verdict[w]]

Commit(w) ==
  /\ pc[w] = "committing"
  /\ Settle(w)
  /\ Finish(w)
  /\ UNCHANGED <<vars, inbound, retryQueue, deadLetters, settlements, authPosted,
                 mempool, operator, due, delivered, counts>>

\* The LPUSH or the MULTI fails, executed or not.
RedisFails(w) ==
  /\ pc[w] \in {"publishing", "committing"} /\ Fault
  /\ \/ UNCHANGED <<processedSet, processing, record, settlements>>
     \/ pc[w] = "publishing" /\ Announce(w) /\ UNCHANGED <<processedSet, processing, record>>
     \/ pc[w] = "committing" /\ Settle(w) /\ UNCHANGED settlements
  /\ Goto(w, "failing", "transient")
  /\ UNCHANGED <<vars, inbound, retryQueue, deadLetters, authPosted, mempool, operator,
                 due, delivered>>

-----------------------------------------------------------------------------
(* handleProcessingFailure and moveToDeadLetterQueue.                      *)

Limit(w) == IF verdict[w] = "budget" THEN budgetMaxRetries ELSE maxRetries

NextTry(m) == [m EXCEPT !.tries = @ + 1]

GivesUp(w) == verdict[w] \in Retriable => held[w].tries >= Limit(w)

\* MULTI: LREM processing, ZADD retry, SET record.
Reschedule(w) ==
  /\ pc[w] = "failing" /\ ~GivesUp(w)
  /\ processing' = processing (-) One(held[w])
  /\ retryQueue' = retryQueue \union {NextTry(held[w])}
  /\ record' = [record EXCEPT ![held[w].req.key] =
       IF verdict[w] = "budget" THEN "budget_exceeded_retry" ELSE "error"]
  /\ Finish(w)
  /\ UNCHANGED <<vars, inbound, deadLetters, processedSet, settlements, authPosted,
                 mempool, operator, due, delivered, counts>>

ReasonOf(w) ==
  CASE verdict[w] = "budget" -> "budget_exhausted"
    [] verdict[w] = "transient" -> "exhausted"
    [] OTHER -> verdict[w]

PushDeadLetter(w) ==
  deadLetters' = deadLetters (+) One([msg |-> held[w], reason |-> ReasonOf(w)])

\* LPUSH on the dead-letter queue, then, separately, LREM from processing.
Bury(w) ==
  /\ pc[w] = "failing" /\ GivesUp(w)
  /\ PushDeadLetter(w)
  /\ Goto(w, "burying", ReasonOf(w))
  /\ UNCHANGED <<vars, inbound, processing, retryQueue, processedSet, outputs, mempool,
                 operator, due, delivered, counts>>

\* Mutant: a dead-lettered key is marked as done.
UnlistAsDone(w) ==
  /\ pc[w] = "burying"
  /\ processing' = processing (-) One(held[w])
  /\ processedSet' = processedSet \union {held[w].req.key}
  /\ Finish(w)
  /\ UNCHANGED <<vars, inbound, retryQueue, deadLetters, outputs, mempool, operator,
                 due, delivered, counts>>

Unlist(w) ==
  /\ pc[w] = "burying"
  /\ processing' = processing (-) One(held[w])
  /\ record' = IF verdict[w] = "schema" THEN record
               ELSE [record EXCEPT ![held[w].req.key] = "error"]
  /\ Finish(w)
  /\ UNCHANGED <<vars, inbound, retryQueue, deadLetters, processedSet, settlements,
                 authPosted, mempool, operator, due, delivered, counts>>

\* A call outside the handler's try, or one of the failure handling, fails: the
\* look-up of the key or the removal of a duplicate, the retry MULTI, the push
\* on the dead letters (executed or not), the LREM after it.  start() swallows
\* that as well, and the message stays in the processing list with nobody on it.
\* (Executed with the reply lost, the other three do what they do anyway.)
Strand(w) ==
  /\ pc[w] \in {"taken", "failing", "burying"} /\ Fault
  /\ pc[w] = "taken" => held[w].req.wellFormed
  /\ \/ UNCHANGED deadLetters
     \/ pc[w] = "failing" /\ GivesUp(w) /\ PushDeadLetter(w)
  /\ Finish(w)
  /\ UNCHANGED <<vars, inbound, processing, retryQueue, processedSet, outputs, mempool,
                 operator, due, delivered>>

\* The LREM is executed, but recordError is not reached or fails.
RecordFails(w) ==
  /\ pc[w] = "burying" /\ Fault
  /\ processing' = processing (-) One(held[w])
  /\ Finish(w)
  /\ UNCHANGED <<vars, inbound, retryQueue, deadLetters, processedSet, outputs, mempool,
                 operator, due, delivered>>

\* The process dies: nothing takes the message out of the processing list again.
Crash(w) ==
  /\ crashes < MaxCrashes /\ pc[w] # "idle"
  /\ crashes' = crashes + 1
  /\ mempool' = Orphaned(mempool, w)
  /\ Finish(w)
  /\ UNCHANGED <<vars, queues, outputs, operator, due, delivered, deliveries, faults,
                 replays>>

-----------------------------------------------------------------------------
(* scripts/dlq.ts: the operator validates a dead letter against the chain, *)
(* and a later MULTI moves it back to the inbound list.                    *)

\* validateForReplay, on what getOnChainStatus reads: the raw modelWeightHead.
ReplayValid(e) ==
  /\ e.reason # "signer_not_attester"
  /\ e.msg.req.wellFormed
  /\ e.msg.req.key \notin processedIdempotencyKeys
  /\ modelWeightHead[e.msg.req.model] = e.msg.req.baseline

ValidateReplay(e) ==
  /\ BagIn(e, deadLetters) /\ e \notin cleared
  /\ replays < MaxReplays
  /\ replays' = replays + 1
  /\ ReplayValid(e)
  /\ cleared' = cleared \union {e}
  /\ UNCHANGED <<vars, queues, outputs, local, mempool, discarded, due, delivered,
                 deliveries, faults, crashes>>

\* The LPUSH happens even if the entry has meanwhile left the list.
ExecuteReplay(e) ==
  /\ e \in cleared
  /\ cleared' = cleared \ {e}
  /\ inbound' = <<[e.msg EXCEPT !.tries = 0]>> \o inbound
  /\ deadLetters' = deadLetters (-) One(e)
  /\ UNCHANGED <<vars, processing, retryQueue, processedSet, outputs, local, mempool,
                 discarded, due, delivered, counts>>

Discard(e) ==
  /\ BagIn(e, deadLetters)
  /\ replays < MaxReplays
  /\ replays' = replays + 1
  /\ deadLetters' = deadLetters (-) One(e)
  /\ discarded' = discarded \union {e.msg.req}
  /\ UNCHANGED <<vars, inbound, processing, retryQueue, processedSet, outputs, local,
                 mempool, cleared, due, delivered, deliveries, faults, crashes>>

-----------------------------------------------------------------------------

WorkerStep(w) ==
  \/ Take(w) \/ Screen(w) \/ SkipProcessed(w)
  \/ AnswerReplay(w) \/ Refused(w) \/ Send(w)
  \/ PostSettlements(w) \/ Publish(w) \/ Commit(w)
  \/ Reschedule(w) \/ Bury(w) \/ Unlist(w)
  \/ ReadDue(w) \/ \E m \in due[w] : PromoteDueRetry(w, m)

Failure(w) ==
  \/ RpcFails(w) \/ WaitFails(w) \/ PostFails(w) \/ RedisFails(w)
  \/ TakeReplyLost(w) \/ Strand(w) \/ RecordFails(w) \/ Crash(w)
  \/ \E m \in due[w] : PromotionFails(w, m)

OperatorStep ==
  \/ \E e \in BagToSet(deadLetters) : ValidateReplay(e) \/ Discard(e)
  \/ \E e \in cleared : ExecuteReplay(e)

\* The governance transactions a queued request can meet.  MaxGovOps bounds
\* them in such a way that a pause can always be lifted.
LeavesRoom(n) == govOps + n + (IF paused THEN 1 ELSE 0) <= MaxGovOps

Unpause == SetPaused(FALSE) /\ UNCHANGED relay

ChainStep ==
  \/ /\ \/ LeavesRoom(2) /\ SetPaused(TRUE)
        \/ Tick
        \/ /\ LeavesRoom(1)
           /\ \E m \in Models :
                \/ \E amount \in BudgetAmounts : TopUpMintBudget(m, amount)
                \/ \E c \in Commitments : ResetModelHead(m, c)
                \/ \E s \in {"active", "inactive"} : SetModelStatus(m, s)
     /\ UNCHANGED relay
  \/ Unpause

RelayNext ==
  \/ \E r \in Requests : Deliver(r)
  \/ \E w \in Workers : WorkerStep(w) \/ Failure(w)
  \/ Mine \/ OperatorStep \/ ChainStep

RelaySpec == RelayInit /\ [][RelayNext]_allVars

\* The consumer loops run, transactions with enough gas are mined, and a
\* pause does not last for ever.  Deliveries, faults, the operator and other
\* governance owe nothing.
Fairness ==
  /\ \A w \in Workers : WF_allVars(WorkerStep(w))
  /\ WF_allVars(Mine) /\ WF_allVars(Unpause)

FairRelaySpec == RelaySpec /\ Fairness

-----------------------------------------------------------------------------
(* Properties.                                                             *)

\* The relay's variables have their types; in particular record-only
\* statuses never reach the settlements queue.
RelayTypeOK ==
  /\ inbound \in Seq(Messages) /\ retryQueue \subseteq Messages
  /\ BagToSet(processing) \subseteq Messages
  /\ BagToSet(deadLetters) \subseteq [msg : Messages, reason : Reasons]
  /\ processedSet \subseteq Keys /\ authPosted \subseteq Keys
  /\ BagToSet(settlements) \subseteq [key : Keys, status : Outcomes]
  /\ record \in [Keys -> Outcomes \union {"none", "error", "budget_exceeded_retry"}]
  /\ mempool \in Seq([req : Requests, by : Workers \union {NoWorker}])
  /\ pc \in [Workers -> {"idle", "taken", "handling", "waiting", "posting",
                         "publishing", "committing", "failing", "burying"}]
  /\ held \in [Workers -> Messages \union {NoMessage}]
  /\ verdict \in [Workers -> Outcomes \union Reasons \union Retriable \union {"none"}]
  /\ due \in [Workers -> SUBSET Messages]
  /\ cleared \subseteq [msg : Messages, reason : Reasons]
  /\ delivered \subseteq Requests /\ discarded \subseteq Requests

MintedKeys == {resolutions[i].req.key :
                 i \in {j \in DOMAIN resolutions : resolutions[j].outcome = "minted"}}

Queued(r) ==
  \/ \E i \in DOMAIN inbound : inbound[i].req = r
  \/ \E m \in retryQueue \union BagToSet(processing) : m.req = r

Buried(r) == \E e \in BagToSet(deadLetters) : e.msg.req = r

\* Whatever dies or fails between two Redis calls, a request that was
\* enqueued is done, discarded by an operator, or still in one of the lists.
NothingLost ==
  \A r \in delivered :
    Queued(r) \/ Buried(r) \/ r \in discarded \/ r.key \in processedSet

\* Messages: each is of its kind and in a list, or done with.
MessagesAccounted == RelayTypeOK /\ NothingLost

\* The relay only calls done what the contract resolved: marked keys,
\* published settlements and settled records all name burnt keys.
DoneMeansResolved ==
  LET published == {s.key : s \in BagToSet(settlements)}
      recorded == {k \in Keys : record[k] \in Outcomes}
  IN  processedSet \union published \union recorded \subseteq processedIdempotencyKeys

\* A mint is announced for keys that were minted and at most once each,
\* however often the request was delivered, retried or replayed, also when the
\* announcement was pushed and its reply was lost; and only minted keys are
\* posted to the auth service.
MintsAnnouncedOnce ==
  /\ \A s \in BagToSet(settlements) :
       s.status = "minted" => s.key \in MintedKeys /\ Copies(s, settlements) = 1
  /\ authPosted \subseteq MintedKeys

\* A message of the request is in the processing list and no worker is on it.
Abandoned(r) ==
  \E m \in BagToSet(processing) :
    m.req = r /\ Copies(m, processing) > Cardinality({w \in Workers : held[w] = m})

\* Every enqueued request leaves the queues: it is done, or on the dead-letter
\* list for the operator.  Only a call that fails or a worker that dies can
\* leave it behind in the processing list, which nothing reads.
RequestsLeaveTheQueues ==
  \A r \in Requests :
    Queued(r) ~> ~Queued(r) \/ (Abandoned(r) /\ faults + crashes > 0)

\* Every mint is announced and posted, unless a call fails or a worker dies.
MintsAreReported ==
  \A k \in Keys :
    k \in MintedKeys ~>
      \/ /\ k \in authPosted
         /\ \E s \in BagToSet(settlements) : s.key = k /\ s.status = "minted"
      \/ faults + crashes > 0

=============================================================================
