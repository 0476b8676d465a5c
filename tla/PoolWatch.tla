----------------------------- MODULE PoolWatch -----------------------------
(***************************************************************************)
(* services/contract-deployer/src/monitoring: how the AMMMonitor comes to  *)
(* watch pools.  start() takes the factory's list, subscribes to its       *)
(* events, queries past ones and then starts a tracker for every pool it   *)
(* knows, while events of new pools are handled as they come.  The factory *)
(* of this repository emits PoolCreated without the protocolFeeBps of the  *)
(* monitor's ABI: another signature, which no subscription matches.        *)
(***************************************************************************)
EXTENDS Naturals, FiniteSets

CONSTANTS WatchedPools, Main, MaxReadFailures

ASSUME WatchConstants == Main \notin WatchedPools /\ MaxReadFailures \in Nat

\* start() is one task, the handler of each PoolCreated event another.
Tasks == WatchedPools \union {Main}

VARIABLES
  created,                \* external: the pools of the factory
  fromLatest,             \* is eventPollingFromBlock "latest"
  matches,                \* external: has the factory's event the signature of the ABI
  stage, todo,            \* where start() is, and the pools it has yet to handle
  subscription,           \* asked for, not awaited; effective or refused some time later
  doing,                  \* the pool a task is handling, and what it awaits
  discoveredPools,
  pollingIntervals, poolContracts, \* of the StateTracker; of the EventListener
  readFailures,
  unread, untracked,      \* history: pools not discovered, not tracked for a failed read
  bornAt,                 \* history: the stage in which a pool was created
  unheard                 \* history: created while the subscription was not in effect yet

monitoring == <<discoveredPools, pollingIntervals, poolContracts>>
watchHistory == <<unread, untracked, bornAt, unheard>>
watchVars == <<created, fromLatest, matches, stage, todo, subscription, doing,
               monitoring, readFailures, watchHistory>>

Idle == [pool |-> Main, awaits |-> "nothing"]

WatchInit ==
  /\ created = {} /\ fromLatest \in BOOLEAN /\ matches \in BOOLEAN
  /\ stage = "stopped" /\ todo = {} /\ subscription = "none"
  /\ doing = [t \in Tasks |-> Idle]
  /\ discoveredPools = {} /\ pollingIntervals = {} /\ poolContracts = {}
  /\ readFailures = 0 /\ unread = {} /\ untracked = {}
  /\ bornAt = [p \in WatchedPools |-> "unborn"] /\ unheard = {}

\* A pool is created; a subscriber is told of it if the signatures match.
PoolCreated(p) ==
  /\ p \notin created /\ created' = created \union {p}
  /\ doing' = IF subscription = "effective" /\ matches
              THEN [doing EXCEPT ![p] = [pool |-> p, awaits |-> "turn"]] ELSE doing
  /\ bornAt' = [bornAt EXCEPT ![p] = stage]
  /\ unheard' = IF subscription \in {"asked", "refused"} THEN unheard \union {p} ELSE unheard
  /\ UNCHANGED <<fromLatest, matches, stage, todo, subscription, monitoring, readFailures,
                 unread, untracked>>

\* addInitialPools and getAllPools; a pool that is known already is passed over.
StartMonitor ==
  /\ stage = "stopped" /\ stage' = "existing"
  /\ discoveredPools' \in SUBSET created /\ todo' = created
  /\ UNCHANGED <<created, fromLatest, matches, subscription, doing, pollingIntervals, poolContracts,
                 readFailures, watchHistory>>

\* getAllPools fails: start() goes on, and relies on events.
ListFails ==
  /\ stage = "stopped" /\ stage' = "existing"
  /\ readFailures < MaxReadFailures /\ readFailures' = readFailures + 1
  /\ discoveredPools' \in SUBSET created /\ unread' = created
  /\ UNCHANGED <<created, fromLatest, matches, todo, subscription, doing, pollingIntervals,
                 poolContracts, untracked, bornAt, unheard>>

\* The node answers the request to subscribe, at any time after it was made.
Subscribe ==
  /\ subscription = "asked" /\ subscription' = "effective"
  /\ UNCHANGED <<created, fromLatest, matches, stage, todo, doing, monitoring, readFailures,
                 watchHistory>>

\* It refuses, or the request is lost.  Nothing awaits the answer: over HTTP the
\* provider goes on without it; over a WebSocket the rejection ends the process.
SubscriptionFails ==
  /\ subscription = "asked" /\ subscription' = "refused"
  /\ readFailures < MaxReadFailures /\ readFailures' = readFailures + 1
  /\ UNCHANGED <<created, fromLatest, matches, stage, todo, doing, monitoring, watchHistory>>

\* Mutant: past events are queried before the subscription.
QueriesFirst ==
  /\ todo = {} /\ doing[Main] = Idle
  /\ \/ stage = "existing" /\ stage' = "listening" /\ UNCHANGED <<todo, subscription>>
     \/ /\ stage = "listening" /\ stage' = "history" /\ UNCHANGED subscription
        /\ todo' = IF fromLatest \/ ~matches THEN {} ELSE created
     \/ stage = "history" /\ stage' = "all" /\ todo' = discoveredPools /\ subscription' = "asked"
     \/ stage = "all" /\ stage' = "running" /\ UNCHANGED <<todo, subscription>>
  /\ UNCHANGED <<created, fromLatest, matches, doing, monitoring, readFailures, watchHistory>>

\* startListening asks for a subscription, then queries past events unless it
\* listens from the latest block; then every discovered pool is started.
NextStage ==
  /\ todo = {} /\ doing[Main] = Idle
  /\ \/ stage = "existing" /\ stage' = "listening" /\ subscription' = "asked" /\ UNCHANGED todo
     \/ /\ stage = "listening" /\ stage' = "history" /\ UNCHANGED subscription
        /\ todo' = IF fromLatest \/ ~matches THEN {} ELSE created
     \/ stage = "history" /\ stage' = "all" /\ todo' = discoveredPools /\ UNCHANGED subscription
     \/ stage = "all" /\ stage' = "running" /\ UNCHANGED <<todo, subscription>>
  /\ UNCHANGED <<created, fromLatest, matches, doing, monitoring, readFailures, watchHistory>>

\* The query of past events fails: start() goes on with the pools it knows.
QueryFails ==
  /\ stage = "listening" /\ stage' = "history" /\ ~fromLatest
  /\ readFailures < MaxReadFailures /\ readFailures' = readFailures + 1
  /\ unread' = unread \union created
  /\ UNCHANGED <<created, fromLatest, matches, todo, subscription, doing, monitoring, untracked,
                 bornAt, unheard>>

TakePool(p) ==
  /\ p \in todo /\ doing[Main] = Idle
  /\ todo' = todo \ {p}
  /\ doing' = [doing EXCEPT ![Main] = [pool |-> p, awaits |-> "turn"]]
  /\ UNCHANGED <<created, fromLatest, matches, stage, subscription, monitoring, readFailures,
                 watchHistory>>

Await(t, what) == doing' = [doing EXCEPT ![t].awaits = what]
Finish(t) == doing' = [doing EXCEPT ![t] = Idle]

\* startTracking returns at once if the pool has an interval; or else it polls
\* first.  The EventListener follows.
BeginTracking(t) ==
  IF doing[t].pool \in pollingIntervals
  THEN poolContracts' = poolContracts \union {doing[t].pool} /\ Finish(t)
  ELSE Await(t, "poll") /\ UNCHANGED poolContracts

\* A pool that is discovered already is left alone, but by the last stage of start().
Handle(t) ==
  /\ doing[t].awaits = "turn"
  /\ IF t = Main /\ stage = "all" THEN BeginTracking(t)
     ELSE /\ UNCHANGED poolContracts
          /\ IF doing[t].pool \in discoveredPools THEN Finish(t) ELSE Await(t, "config")
  /\ UNCHANGED <<created, fromLatest, matches, stage, todo, subscription, discoveredPools,
                 pollingIntervals, readFailures, watchHistory>>

\* The pool's configuration is there: it is stored and the callback is called,
\* also if another task has stored it meanwhile.
Discover(t) ==
  /\ doing[t].awaits = "config"
  /\ discoveredPools' = discoveredPools \union {doing[t].pool}
  /\ BeginTracking(t)
  /\ UNCHANGED <<created, fromLatest, matches, stage, todo, subscription, pollingIntervals,
                 readFailures, watchHistory>>

\* The first poll is answered: listeners and interval are set up.
Track(t) ==
  /\ doing[t].awaits = "poll"
  /\ pollingIntervals' = pollingIntervals \union {doing[t].pool}
  /\ poolContracts' = poolContracts \union {doing[t].pool}
  /\ Finish(t)
  /\ UNCHANGED <<created, fromLatest, matches, stage, todo, subscription, discoveredPools,
                 readFailures, watchHistory>>

\* A read fails, and the task goes no further with the pool; the query of past
\* events ends with the first that cannot be handled.
ReadFails(t) ==
  /\ readFailures < MaxReadFailures /\ readFailures' = readFailures + 1
  /\ \/ /\ doing[t].awaits = "config"
        /\ unread' = unread \union {doing[t].pool}
                     \union (IF t = Main /\ stage = "history" THEN todo ELSE {})
        /\ todo' = IF t = Main /\ stage = "history" THEN {} ELSE todo
        /\ UNCHANGED untracked
     \/ /\ doing[t].awaits = "poll"
        /\ untracked' = untracked \union {doing[t].pool} /\ UNCHANGED <<todo, unread>>
  /\ Finish(t)
  /\ UNCHANGED <<created, fromLatest, matches, stage, subscription, monitoring, bornAt, unheard>>

WatchNext ==
  \/ \E p \in WatchedPools : PoolCreated(p) \/ TakePool(p)
  \/ StartMonitor \/ ListFails \/ NextStage \/ QueryFails
  \/ Subscribe \/ SubscriptionFails
  \/ \E t \in Tasks : Handle(t) \/ Discover(t) \/ Track(t) \/ ReadFails(t)

-----------------------------------------------------------------------------

Settled == stage = "running" /\ \A t \in Tasks : doing[t] = Idle

\* Whenever a pool is created, before, during or after start(), the running
\* monitor knows it, as far as it can: the subscription is asked for before past
\* events are queried.  What it cannot know are pools whose reads failed; those
\* created while the subscription was asked for and not in effect, unless the query
\* of past events comes after them; from the latest block on, also those created
\* between the factory's list and the subscription; and, of a factory whose events
\* do not match, like this repository's, all that come after the list.
NoPoolIsMissed ==
  Settled => \A p \in created :
    \/ p \in discoveredPools \union unread
    \/ p \in unheard /\ (fromLatest \/ bornAt[p] # "listening")
    \/ fromLatest /\ bornAt[p] = "existing"
    \/ ~matches /\ bornAt[p] # "stopped"

\* A pool the monitor knows is polled and listened to, unless its first poll failed.
DiscoveredIsWatched ==
  Settled => \A p \in discoveredPools :
    p \in pollingIntervals \intersect poolContracts \/ p \in untracked

=============================================================================
