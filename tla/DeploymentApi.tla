--------------------------- MODULE DeploymentApi ---------------------------
(***************************************************************************)
(* services/contract-deployer: DeploymentService, its Redis queue and the  *)
(* DeploymentProcessor, as one model's requests meet them.  A request's    *)
(* status and the model's mapping to a request are keys that expire.  The  *)
(* list of a user's requests and progress figures are left out.            *)
(***************************************************************************)
EXTENDS Naturals, Sequences

CONSTANTS Requests, NoRequest, MaxRedisFailures, MaxExpiries, MaxCrashes

ASSUME DeploymentConstants ==
  /\ NoRequest \notin Requests
  /\ MaxRedisFailures \in Nat /\ MaxExpiries \in Nat /\ MaxCrashes \in Nat

VARIABLES
  creating,               \* how far createDeployment has come for a request
  seen,                   \* the request its look-up found
  status, mapping,        \* the Redis keys; "none" and NoRequest when absent
  queue,
  hand, step,             \* the processor's request and where it is with it
  token,                  \* external: the request that deployed the model's token
  failures,               \* Redis failures, expiries and crashes so far
  lost,                   \* history: requests a crash or a failed write left unsettled
  interrupted,            \* history: requests that failed once their token was there
  disturbed               \* history: a mapping may be missing or another's

redisVars == <<status, mapping, queue>>
processorVars == <<hand, step, token>>
apiHistory == <<lost, interrupted, disturbed>>
deploymentVars == <<creating, seen, redisVars, processorVars, failures, apiHistory>>

Answered == {"new", "accepted", "refused", "gone"}

DeploymentInit ==
  /\ creating = [r \in Requests |-> "new"] /\ seen = [r \in Requests |-> NoRequest]
  /\ status = [r \in Requests |-> "none"] /\ mapping = NoRequest /\ queue = <<>>
  /\ hand = NoRequest /\ step = "idle" /\ token = NoRequest
  /\ failures = [redis |-> 0, expiries |-> 0, crashes |-> 0]
  /\ lost = {} /\ interrupted = {} /\ disturbed = FALSE

GoTo(r, next) == creating' = [creating EXCEPT ![r] = next]

\* getDeploymentByModelId reads the mapping, ...
LookUp(r) ==
  /\ creating[r] = "new"
  /\ seen' = [seen EXCEPT ![r] = mapping]
  /\ GoTo(r, IF mapping = NoRequest THEN "store" ELSE "check")
  /\ disturbed' = (disturbed \/ \E s \in Requests : creating[s] \notin Answered)
  /\ UNCHANGED <<redisVars, processorVars, failures, lost, interrupted>>

\* Mutant: a request that is being processed does not stop another.
IgnoresProcessing(r) ==
  /\ creating[r] = "check"
  /\ GoTo(r, CASE status[seen[r]] = "none" -> "drop"
               [] status[seen[r]] \in {"deployed", "pending"} -> "refused"
               [] OTHER -> "store")
  /\ UNCHANGED <<seen, redisVars, processorVars, failures, apiHistory>>

\* ... and the status of the request it names; a failed one may be tried again.
CheckExisting(r) ==
  /\ creating[r] = "check"
  /\ GoTo(r, CASE status[seen[r]] = "none" -> "drop"
               [] status[seen[r]] \in {"deployed", "pending", "processing"} -> "refused"
               [] OTHER -> "store")
  /\ UNCHANGED <<seen, redisVars, processorVars, failures, apiHistory>>

\* Without a status the mapping is deleted: whoever's it is by now.
DropMapping(r) ==
  /\ creating[r] = "drop"
  /\ mapping' = NoRequest
  /\ GoTo(r, "store")
  /\ UNCHANGED <<seen, status, queue, processorVars, failures, apiHistory>>

Write(r) ==
  \/ creating[r] = "store" /\ status' = [status EXCEPT ![r] = "pending"] /\ UNCHANGED <<mapping, queue>>
  \/ creating[r] = "map" /\ mapping' = r /\ UNCHANGED <<status, queue>>
  \/ creating[r] = "enqueue" /\ queue' = Append(queue, r) /\ UNCHANGED <<status, mapping>>

\* setDeploymentStatus, the mapping, and the queue, one await after the other.
StoreRequest(r) ==
  /\ Write(r)
  /\ GoTo(r, CASE creating[r] = "store" -> "map" [] creating[r] = "map" -> "enqueue"
               [] OTHER -> "accepted")
  /\ UNCHANGED <<seen, processorVars, failures, apiHistory>>

Delete(r) ==
  \/ creating[r] = "cleanStatus" /\ status' = [status EXCEPT ![r] = "none"] /\ UNCHANGED mapping
  \/ creating[r] = "cleanMapping" /\ mapping' = NoRequest /\ UNCHANGED status

\* After a failure the keys are deleted, one after the other.
CleanUp(r) ==
  /\ Delete(r)
  /\ GoTo(r, IF creating[r] = "cleanStatus" THEN "cleanMapping" ELSE "refused")
  /\ UNCHANGED <<seen, queue, processorVars, failures, apiHistory>>

CountFailure(kind, bound) ==
  /\ failures[kind] < bound
  /\ failures' = [failures EXCEPT ![kind] = @ + 1]

\* A call of createDeployment throws; a write or a deletion may have been done all
\* the same.
\* The look-up's own failure answers an error; a status that could not be read
\* counts as missing; a failed clean-up is only logged.
CreateFails(r) ==
  /\ CountFailure("redis", MaxRedisFailures)
  /\ \/ /\ creating[r] = "new" /\ GoTo(r, "refused")
        /\ UNCHANGED <<redisVars, lost, disturbed>>
     \/ /\ creating[r] = "drop" /\ GoTo(r, "refused") /\ mapping' \in {mapping, NoRequest}
        /\ UNCHANGED <<status, queue, lost, disturbed>>
     \/ /\ creating[r] = "check" /\ GoTo(r, "drop") /\ disturbed' = TRUE
        /\ UNCHANGED <<redisVars, lost>>
     \/ /\ creating[r] \in {"store", "map", "enqueue"} /\ GoTo(r, "cleanStatus")
        /\ \/ Write(r) /\ disturbed' = (disturbed \/ creating[r] = "enqueue")
           \/ UNCHANGED <<redisVars, disturbed>>
        /\ UNCHANGED lost
     \/ /\ creating[r] \in {"cleanStatus", "cleanMapping"} /\ GoTo(r, "refused")
        /\ Delete(r) \/ UNCHANGED <<status, mapping>>
        /\ lost' = lost \union {r}
        /\ UNCHANGED <<queue, disturbed>>
  /\ UNCHANGED <<seen, processorVars, interrupted>>

\* blPop: the message is gone from the queue.
Dequeue ==
  /\ step = "idle" /\ queue # <<>>
  /\ hand' = Head(queue) /\ queue' = Tail(queue) /\ step' = "start"
  /\ UNCHANGED <<creating, seen, status, mapping, token, failures, apiHistory>>

\* The message was popped and the reply lost: nobody has it.
DequeueReplyLost ==
  /\ CountFailure("redis", MaxRedisFailures)
  /\ step = "idle" /\ queue # <<>>
  /\ queue' = Tail(queue) /\ lost' = lost \union {Head(queue)}
  /\ UNCHANGED <<creating, seen, status, mapping, processorVars, interrupted, disturbed>>

\* updateDeploymentStatus throws if the status is gone.
UpdateStatus(to, next) ==
  IF status[hand] = "none" THEN step' = "failing" /\ UNCHANGED <<status, hand>>
  ELSE /\ status' = [status EXCEPT ![hand] = to] /\ step' = next
       /\ hand' = IF next = "idle" THEN NoRequest ELSE hand

BeginDeployment ==
  /\ step = "start" /\ UpdateStatus("processing", "deploying")
  /\ UNCHANGED <<creating, seen, mapping, queue, token, failures, apiHistory>>

\* External: the TokenManager deploys one token for a model.  deployToken may
\* throw without a token, or once the transaction is in: no receipt, and the
\* attempts that follow are reverted.
DeployModelToken ==
  /\ step = "deploying"
  /\ \/ token = NoRequest /\ token' = hand /\ step' = "minted" /\ UNCHANGED interrupted
     \/ /\ token = NoRequest /\ token' = hand /\ step' = "failing"
        /\ interrupted' = interrupted \union {hand}
     \/ step' = "failing" /\ UNCHANGED <<token, interrupted>>
  /\ UNCHANGED <<creating, seen, redisVars, hand, failures, lost, disturbed>>

CompleteDeployment ==
  /\ step = "minted" /\ UpdateStatus("deployed", "idle")
  /\ interrupted' = IF step' = "failing" THEN interrupted \union {hand} ELSE interrupted
  /\ UNCHANGED <<creating, seen, mapping, queue, token, failures, lost, disturbed>>

\* The processor logs the error, and takes the next message.
RecordFailure ==
  /\ step = "failing" /\ step' = "idle" /\ hand' = NoRequest
  /\ status' = IF status[hand] = "none" THEN status ELSE [status EXCEPT ![hand] = "failed"]
  /\ UNCHANGED <<creating, seen, mapping, queue, token, failures, apiHistory>>

\* A status cannot be written, or its answer is lost; with the failure itself
\* unrecorded the request stays as it is.
UpdateFails ==
  /\ CountFailure("redis", MaxRedisFailures)
  /\ \/ /\ step = "start" /\ step' = "failing"
        /\ UNCHANGED <<status, hand, lost, interrupted>>
     \/ /\ step = "minted" /\ step' = "failing"
        /\ status' \in {status, [status EXCEPT ![hand] = IF @ = "none" THEN @ ELSE "deployed"]}
        /\ interrupted' = interrupted \union {hand}
        /\ UNCHANGED <<hand, lost>>
     \/ /\ step = "failing" /\ step' = "idle" /\ hand' = NoRequest
        /\ lost' = lost \union {hand}
        /\ UNCHANGED <<status, interrupted>>
  /\ UNCHANGED <<creating, seen, mapping, queue, token, disturbed>>

\* After statusTtlSeconds, a day: longer than a call or a deployment takes, not
\* longer than a message may wait.
Expire ==
  /\ CountFailure("expiries", MaxExpiries)
  /\ \/ \E r \in Requests :
          /\ creating[r] \in Answered /\ r # hand /\ status[r] # "none"
          /\ status' = [status EXCEPT ![r] = "none"] /\ UNCHANGED mapping
     \/ mapping # NoRequest /\ mapping' = NoRequest /\ UNCHANGED status
  /\ disturbed' = TRUE
  /\ UNCHANGED <<creating, seen, queue, processorVars, lost, interrupted>>

\* API and processor are one process: calls in progress and the message in hand
\* are lost, the queue is not.
CrashService ==
  /\ CountFailure("crashes", MaxCrashes)
  /\ creating' = [r \in Requests |-> IF creating[r] \in Answered THEN creating[r] ELSE "gone"]
  /\ lost' = lost \union {r \in Requests : r = hand \/ creating[r] \notin Answered}
  /\ disturbed' = (disturbed \/ \E r \in Requests : creating[r] \notin Answered)
  /\ hand' = NoRequest /\ step' = "idle"
  /\ UNCHANGED <<seen, redisVars, token, interrupted>>

DeploymentNext ==
  \/ \E r \in Requests :
       \/ LookUp(r) \/ CheckExisting(r) \/ DropMapping(r)
       \/ StoreRequest(r) \/ CleanUp(r) \/ CreateFails(r)
  \/ Dequeue \/ DequeueReplyLost \/ BeginDeployment \/ DeployModelToken \/ CompleteDeployment
  \/ RecordFailure \/ UpdateFails \/ Expire \/ CrashService

DeploymentSpec == DeploymentInit /\ [][DeploymentNext]_deploymentVars

-----------------------------------------------------------------------------

Queued(r) == \E i \in DOMAIN queue : queue[i] = r

\* A status that says a request is under way is true, but for the requests a
\* crash or a failed write has cut off: a poller of any other one need not wait
\* for its status to expire.
PendingIsUnderWay ==
  \A r \in Requests : status[r] \in {"pending", "processing"} =>
    creating[r] \notin Answered \/ Queued(r) \/ hand = r \/ r \in lost

\* Calls that do not overlap, and whose keys do not expire, leave one request of
\* the model in the queue or with the processor.  Overlapping calls may each
\* find none and both be queued.
OneDeploymentAtATime ==
  ~disturbed => \A r, s \in Requests :
    (Queued(r) \/ hand = r) /\ (Queued(s) \/ hand = s) => r = s

\* A request that says deployed has deployed the token; one that says failed has
\* not, unless what failed came after the transaction.
StatusMatchesToken ==
  \A r \in Requests :
    /\ status[r] = "deployed" => token = r
    /\ status[r] = "failed" /\ token = r => r \in interrupted

\* The status a poller reads, the queue and the chain agree.
DeploymentsSound == PendingIsUnderWay /\ OneDeploymentAtATime /\ StatusMatchesToken

=============================================================================
