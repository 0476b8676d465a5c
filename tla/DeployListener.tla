--------------------------- MODULE DeployListener ---------------------------
(***************************************************************************)
(* services/contract-deployer: the consumer that takes "model ready"       *)
(* messages from a Redis list, deploys the model's token, registers it and *)
(* publishes an event.  Every await is a step boundary: several listeners  *)
(* share the lists (a rolling deployment), RPC and Redis calls fail before *)
(* or after they took effect, and a process may die between any two.       *)
(***************************************************************************)
EXTENDS Naturals, Sequences, FiniteSets, TLC, Counting

CONSTANTS
  Ids,            \* model ids the pipeline asks to launch
  Malformed,      \* ids whose messages fail the schema
  Unsupplied,     \* ids with no supplier recipient, on message or in config
  Workers,        \* listener processes
  NoMessage,      \* what an idle listener holds
  maxRetries,     \* retries by the queue (3 in the code)
  maxAttempts,    \* attempts within a handler (3 in the code)
  Registries,     \* may the registry have the functions the client's ABI names
  Networks,       \* may the event's schema list the name of the network
  MaxDeliveries,  \* bound: messages per id
  MaxRpcFaults, MaxRedisFaults, MaxCrashes  \* bounds on failures

Messages == [id : Ids, retryCount : 0..maxRetries]
Transactions == [kind : {"deploy", "register"}, id : Ids]

ASSUME ListenerConstants ==
  /\ NoMessage \notin Messages
  /\ Malformed \subseteq Ids /\ Unsupplied \subseteq Ids
  /\ IsFiniteSet(Workers)
  /\ maxRetries \in Nat \ {0} /\ maxAttempts \in Nat \ {0}
  /\ Registries \subseteq BOOLEAN /\ Networks \subseteq BOOLEAN
  /\ {MaxDeliveries, MaxRpcFaults, MaxRedisFaults, MaxCrashes} \subseteq Nat

VARIABLES
  inbound,      \* list: LPUSH at the head, BRPOPLPUSH from the end
  processing,   \* bag: LREM removes one equal string
  deadLetters,  \* bag
  published,    \* bag of ids: token_deployed events
  tokens,       \* TokenManager.modelTokens: ids with a token
  registry,     \* ids the registry maps to a token
  registryAnswers, \* the configured contract has the functions that are called
  networkListed, \* the schema of the event has the name the provider gives the chain
  mempool,      \* transactions whose sender gave up waiting, in nonce order
  pc, held, attempts, \* each listener's control state
  delivered, finished, \* history: [Ids -> Nat] enqueued; removed as successful
  rpcFaults, redisFaults, crashes

queues == <<inbound, processing, deadLetters, published>>
world  == <<registryAnswers, networkListed>>
chain  == <<tokens, registry, world, mempool>>
local  == <<pc, held, attempts>>
counts == <<rpcFaults, redisFaults, crashes>>
vars   == <<queues, chain, local, delivered, finished, counts>>

Init ==
  /\ inbound = <<>> /\ processing = EmptyBag /\ deadLetters = EmptyBag
  /\ published = EmptyBag
  /\ tokens = {} /\ registry = {} /\ mempool = <<>>
  /\ registryAnswers \in Registries /\ networkListed \in Networks
  /\ pc = [w \in Workers |-> "idle"]
  /\ held = [w \in Workers |-> NoMessage]
  /\ attempts = [w \in Workers |-> 0]
  /\ delivered = [id \in Ids |-> 0] /\ finished = [id \in Ids |-> 0]
  /\ rpcFaults = 0 /\ redisFaults = 0 /\ crashes = 0

\* Control: go on at state s with a fresh attempt counter, or stop.
Goto(w, s) ==
  /\ pc' = [pc EXCEPT ![w] = s]
  /\ attempts' = [attempts EXCEPT ![w] = 0]
  /\ UNCHANGED held

Finish(w) ==
  /\ pc' = [pc EXCEPT ![w] = "idle"]
  /\ attempts' = [attempts EXCEPT ![w] = 0]
  /\ held' = [held EXCEPT ![w] = NoMessage]

\* Mutant: a failed registration is swallowed and the event published.
CarryOn(w) == Goto(w, IF pc[w] = "register" THEN "publish" ELSE "failed")

\* The exception leaves the handler.
Throw(w) == Goto(w, "failed")

AttemptsLeft(w) == attempts[w] + 1 < maxAttempts

\* One more attempt of the same call, or the exception is passed on.
TryAgain(w) ==
  \/ /\ AttemptsLeft(w)
     /\ attempts' = [attempts EXCEPT ![w] = @ + 1] /\ UNCHANGED <<pc, held>>
  \/ ~AttemptsLeft(w) /\ Throw(w)

RpcFault   == rpcFaults < MaxRpcFaults /\ rpcFaults' = rpcFaults + 1
RedisFault == redisFaults < MaxRedisFaults /\ redisFaults' = redisFaults + 1

-----------------------------------------------------------------------------
(* The environment.                                                        *)

\* The evaluation pipeline pushes a message, possibly one it has pushed.
Deliver(id) ==
  /\ delivered[id] < MaxDeliveries
  /\ delivered' = [delivered EXCEPT ![id] = @ + 1]
  /\ inbound' = <<[id |-> id, retryCount |-> 0]>> \o inbound
  /\ UNCHANGED <<processing, deadLetters, published, chain, local, finished, counts>>

\* A transaction nobody waits for is mined; a second deployment of one model
\* and a second registration revert.
MineOrphan ==
  /\ mempool # <<>>
  /\ LET tx == Head(mempool)
     IN  /\ tokens' = IF tx.kind = "deploy" THEN tokens \union {tx.id} ELSE tokens
         /\ registry' = IF tx.kind = "register"
                        THEN registry \union {tx.id} ELSE registry
  /\ mempool' = Tail(mempool)
  /\ UNCHANGED <<queues, world, local, delivered, finished, counts>>

-----------------------------------------------------------------------------
(* ContractDeployListener.processMessage: check, deploy, register, publish. *)

\* Mutant: a model that already exists is announced, not skipped.
AnnounceExisting(w, id) == Goto(w, IF id \in registry THEN "publish" ELSE "deploy")

\* A registered model is skipped and its message acknowledged.
SkipExisting(w, id) == Goto(w, IF id \in registry THEN "ack" ELSE "deploy")

CheckModelExists(w) ==
  /\ pc[w] = "check"
  /\ registryAnswers
  /\ SkipExisting(w, held[w].id)
  /\ UNCHANGED <<queues, chain, delivered, finished, counts>>

\* checkModelExists reverts: the contract has no getTokenAddress(string).
CheckReverts(w) ==
  /\ pc[w] = "check"
  /\ ~registryAnswers
  /\ Throw(w)
  /\ UNCHANGED <<queues, chain, delivered, finished, counts>>

\* Mutant: a token that exists is taken for a launched model.
TakeAsLaunched(w) == Goto(w, "ack")

\* TokenManager reverts: "Token already deployed for this model".
DeploymentReverts(w) == TryAgain(w)

\* deployToken: one attempt, up to the receipt.  The deployer's transactions
\* are mined in nonce order, so an abandoned one comes first.
DeployToken(w) ==
  /\ pc[w] = "deploy"
  /\ held[w].id \notin Unsupplied
  /\ mempool = <<>>
  /\ \/ /\ held[w].id \notin tokens
        /\ tokens' = tokens \union {held[w].id}
        /\ Goto(w, "register")
     \/ /\ held[w].id \in tokens
        /\ DeploymentReverts(w)
        /\ UNCHANGED tokens
  /\ UNCHANGED <<queues, registry, world, mempool, delivered, finished, counts>>

\* deployToken refuses to launch without a supplier, before any attempt.
RefuseToDeploy(w) ==
  /\ pc[w] = "deploy"
  /\ held[w].id \in Unsupplied
  /\ Throw(w)
  /\ UNCHANGED <<queues, chain, delivered, finished, counts>>

\* Mutant: the message is acknowledged and no event published.
AcknowledgeOnly(w) == Goto(w, "ack")

AfterRegistration(w) == Goto(w, "publish")

\* registerModel: one attempt; "already registered" is not tried again.
RegisterModel(w) ==
  /\ pc[w] = "register"
  /\ mempool = <<>>
  /\ \/ /\ held[w].id \notin registry
        /\ registry' = registry \union {held[w].id}
        /\ AfterRegistration(w)
     \/ /\ held[w].id \in registry
        /\ Throw(w)
        /\ UNCHANGED registry
  /\ UNCHANGED <<queues, tokens, world, mempool, delivered, finished, counts>>

\* publish validates the event before it is pushed: the schema lists four names
\* of networks, and a chain with another fails every attempt.
RejectEvent(w) ==
  /\ pc[w] = "publish"
  /\ ~networkListed
  /\ TryAgain(w)
  /\ UNCHANGED <<queues, chain, delivered, finished, counts>>

\* An RPC call throws.  The existence check and getNetworkInfo, which comes
\* between registration and publication, leave the handler at once; a
\* transaction may have reached the node, and the call is attempted again.
RpcFails(w) ==
  /\ \/ /\ \/ pc[w] = "check"
           \/ pc[w] = "publish" /\ attempts[w] = 0
        /\ RpcFault
        /\ Throw(w) /\ UNCHANGED mempool
     \/ /\ pc[w] \in {"deploy", "register"}
        /\ pc[w] = "deploy" => held[w].id \notin Unsupplied
        /\ RpcFault
        /\ TryAgain(w)
        /\ \/ UNCHANGED mempool
           \/ mempool' = Append(mempool, [kind |-> pc[w], id |-> held[w].id])
  /\ UNCHANGED <<queues, tokens, registry, world, delivered, finished,
                 redisFaults, crashes>>

-----------------------------------------------------------------------------
(* The Redis calls: what each does to the lists, and where it leads.       *)

\* Mutant: BRPOP, as the deployment API's queue does, keeps no copy.
PopOnly(m) == UNCHANGED processing

KeepInProcessing(m) == processing' = processing (+) One(m)

\* brPopLPush: the message moves to the processing list.
Move ==
  /\ inbound # <<>>
  /\ inbound' = SubSeq(inbound, 1, Len(inbound) - 1)
  /\ KeepInProcessing(inbound[Len(inbound)])
  /\ UNCHANGED <<deadLetters, published>>

Publish(id) ==
  published' = published (+) One(id) /\ UNCHANGED <<inbound, processing, deadLetters>>

RemoveFromProcessing(m) ==
  processing' = processing (-) One(m) /\ UNCHANGED <<inbound, deadLetters, published>>

\* The requeued copy counts one retry more; the old one stays in processing.
Requeue(m) ==
  /\ inbound' = <<[m EXCEPT !.retryCount = @ + 1]>> \o inbound
  /\ UNCHANGED <<processing, deadLetters, published>>

Bury(m) ==
  deadLetters' = deadLetters (+) One(m) /\ UNCHANGED <<inbound, processing, published>>

\* The call a listener makes at each control state.  A rejected message is
\* dead-lettered within the try block, an exhausted one by its handler.
RedisCall(w) ==
  LET m == held[w]
  IN  \/ pc[w] = "publish" /\ networkListed /\ Publish(m.id)
      \/ pc[w] \in {"ack", "unlistRejected", "drop", "unlist"}
         /\ RemoveFromProcessing(m)
      \/ pc[w] = "failed" /\ m.retryCount < maxRetries /\ Requeue(m)
      \/ pc[w] \in {"reject", "bury"} /\ Bury(m)

CallsRedis(w) ==
  \/ pc[w] = "publish" /\ networkListed
  \/ pc[w] \in {"ack", "reject", "unlistRejected", "drop", "bury", "unlist"}
  \/ pc[w] = "failed" /\ held[w].retryCount < maxRetries

\* Mutant: an exhausted message is dropped and not dead-lettered.
DropOnly(w) ==
  CASE pc[w] = "publish" -> Goto(w, "ack")
    [] pc[w] = "reject"  -> Goto(w, "unlistRejected")
    [] pc[w] = "bury"    -> Goto(w, "unlist")
    [] OTHER -> Finish(w)

AfterCall(w) ==
  CASE pc[w] = "publish" -> Goto(w, "ack")
    [] pc[w] = "reject"  -> Goto(w, "unlistRejected")
    [] pc[w] = "drop"    -> Goto(w, "bury")
    [] pc[w] = "bury"    -> Goto(w, "unlist")
    [] OTHER -> Finish(w)

\* Redis throws: publication is attempted again, a call of the try block is
\* caught and handled as a failed message, one of the catch block is not.
AfterFailure(w) ==
  CASE pc[w] = "publish" -> TryAgain(w)
    [] pc[w] \in {"ack", "reject", "unlistRejected"} -> Throw(w)
    [] OTHER -> Finish(w)

\* history: what left the processing list as handled.
CountFinished(w) ==
  finished' = IF pc[w] = "ack" THEN [finished EXCEPT ![held[w].id] = @ + 1]
                               ELSE finished

TakeMessage(w) ==
  /\ pc[w] = "idle"
  /\ Move
  /\ LET m == inbound[Len(inbound)]
     IN  /\ held' = [held EXCEPT ![w] = m]
         /\ pc' = [pc EXCEPT ![w] = IF m.id \in Malformed THEN "reject" ELSE "check"]
  /\ UNCHANGED <<attempts, chain, delivered, finished, counts>>

\* The move was executed and its reply lost: the listener polls on.
TakeReplyLost(w) ==
  /\ pc[w] = "idle"
  /\ RedisFault
  /\ Move
  /\ UNCHANGED <<chain, local, delivered, finished, rpcFaults, crashes>>

CallRedis(w) ==
  /\ RedisCall(w)
  /\ AfterCall(w)
  /\ CountFinished(w)
  /\ UNCHANGED <<chain, delivered, counts>>

\* The call throws, executed or not.
RedisFails(w) ==
  /\ RedisFault
  /\ CallsRedis(w)
  /\ \/ RedisCall(w) /\ CountFinished(w)
     \/ UNCHANGED <<queues, finished>>
  /\ AfterFailure(w)
  /\ UNCHANGED <<chain, delivered, rpcFaults, crashes>>

\* A message that has used up its retries leaves the processing list before
\* it reaches the dead letters.
GiveUp(w) ==
  /\ pc[w] = "failed"
  /\ held[w].retryCount = maxRetries
  /\ Goto(w, "drop")
  /\ UNCHANGED <<queues, chain, delivered, finished, counts>>

\* The process dies; what it sent stays sent.
Crash(w) ==
  /\ pc[w] # "idle"
  /\ crashes < MaxCrashes
  /\ crashes' = crashes + 1
  /\ Finish(w)
  /\ \/ UNCHANGED mempool
     \/ /\ pc[w] \in {"deploy", "register"} /\ held[w].id \notin Unsupplied
        /\ mempool' = Append(mempool, [kind |-> pc[w], id |-> held[w].id])
  /\ UNCHANGED <<queues, tokens, registry, world, delivered, finished,
                 rpcFaults, redisFaults>>

-----------------------------------------------------------------------------

ListenerStep(w) ==
  \/ TakeMessage(w) \/ CheckModelExists(w) \/ CheckReverts(w)
  \/ DeployToken(w) \/ RefuseToDeploy(w)
  \/ RegisterModel(w) \/ RejectEvent(w) \/ CallRedis(w) \/ GiveUp(w)

Failure(w) == RpcFails(w) \/ RedisFails(w) \/ TakeReplyLost(w) \/ Crash(w)

Next ==
  \/ \E id \in Ids : Deliver(id)
  \/ \E w \in Workers : ListenerStep(w) \/ Failure(w)
  \/ MineOrphan

Spec == Init /\ [][Next]_vars

\* The listeners poll for ever, and transactions are mined.  Deliveries and
\* failures owe nothing.
FairSpec == Spec /\ WF_vars(MineOrphan) /\ \A w \in Workers : WF_vars(ListenerStep(w))

\* For TLC: listeners are interchangeable.
Listeners == Permutations(Workers)

-----------------------------------------------------------------------------
(* Properties.                                                             *)

\* The listener's variables have their types.
ListenerTypeOK ==
  /\ inbound \in Seq(Messages)
  /\ BagToSet(processing) \union BagToSet(deadLetters) \subseteq Messages
  /\ BagToSet(published) \subseteq Ids
  /\ tokens \subseteq Ids /\ registry \subseteq Ids
  /\ mempool \in Seq(Transactions)
  /\ pc \in [Workers -> {"idle", "check", "deploy", "register", "publish", "ack",
                         "reject", "unlistRejected", "failed", "drop", "bury", "unlist"}]
  /\ held \in [Workers -> Messages \union {NoMessage}]
  /\ attempts \in [Workers -> 0..(maxAttempts - 1)]
  /\ delivered \in [Ids -> 0..MaxDeliveries] /\ finished \in [Ids -> Nat]

\* The copies of a model's messages in a list, whatever their retry count.
CopiesOf(id, bag) ==
  SumOf([k \in 0..maxRetries |-> Copies([id |-> id, retryCount |-> k], bag)],
        0..maxRetries)

Waiting(id) == Cardinality({i \in DOMAIN inbound : inbound[i].id = id})

\* No delivered message vanishes, although an exhausted one leaves the
\* processing list before it is a dead letter and LREM may take the equal
\* copy of another listener: each is accounted for in some list, or handled.
NothingVanishes ==
  \A id \in Ids :
    delivered[id] <= finished[id] + Waiting(id)
                     + CopiesOf(id, processing) + CopiesOf(id, deadLetters)

\* Messages: each is of its kind and in a list, or handled.
MessagesAccounted == ListenerTypeOK /\ NothingVanishes

\* A message is only dismissed as handled when its model is registered.
FinishedMeansRegistered == \A id \in Ids : finished[id] > 0 => id \in registry

\* A model is announced once, however often its message was delivered or
\* retried and whichever listeners raced; only a publication whose reply was
\* lost is repeated.
AnnouncedOnce == \A id \in Ids : Copies(id, published) <= 1 + redisFaults

Launch == INSTANCE ModelLaunch WITH
            deployed <- tokens, registered <- registry,
            announced <- BagToSet(published)

\* Deployed, registered, announced: in this order and once for each model,
\* through every race, retry, crash and transaction mined late.
ImplementsLaunch == Launch!LaunchSpec

\* Every delivered message is handled or dead-lettered.  Holds when no
\* listener dies and Redis answers; features/contract-deploy-listener/
\* prd.md:129-132 promises it through crashes ("Zero message loss guarantee",
\* "Automatic recovery from crashes", "At-least-once delivery").
EveryMessageSettles ==
  \A id \in Ids : \A n \in 1..MaxDeliveries :
    delivered[id] = n ~> finished[id] + CopiesOf(id, deadLetters) >= n

Launched(id) == id \in registry /\ BagIn(id, published)

\* A well-formed message of a model with a supplier leads to a registered token,
\* whichever listeners race on its copies, unless a call fails; given a registry
\* that the client can talk to.  The model is announced exactly where the event's
\* schema knows the network's name: elsewhere each attempt to publish throws, the
\* retry finds the model registered and dismisses the message, against prd.md:101
\* ("Ensure message delivery before acknowledging source message").
ReadyModelsAreAnnounced ==
  \A id \in Ids \ (Malformed \union Unsupplied) :
    registryAnswers /\ delivered[id] > 0 ~>
      \/ id \in registry /\ finished[id] > 0 /\ (networkListed <=> BagIn(id, published))
      \/ rpcFaults + redisFaults + crashes > 0

=============================================================================
