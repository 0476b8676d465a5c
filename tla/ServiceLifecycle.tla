-------------------------- MODULE ServiceLifecycle --------------------------
(***************************************************************************)
(* services/contract-deployer: index.ts and server.ts from their start to  *)
(* their exit.  Either sets up its parts one after the other, goes on      *)
(* without those that fail, and installs the handlers of SIGTERM and       *)
(* SIGINT last.  A handler stops the loops, waits for them and exits; a    *)
(* second signal runs it again beside the first.                           *)
(***************************************************************************)
EXTENDS Naturals

CONSTANT MaxTaken         \* bound: messages a loop takes

Entries == {"index", "server"}
Loops == {"deploy", "mint"}
Signals == {"SIGTERM", "SIGINT"}

VARIABLES
  entry,                  \* the script that runs
  setUp,                  \* what it sets up next, or "serving"
  loop,                   \* loop -> off, polling, busy or ended
  running,                \* loop -> the consumer's flag
  shutdown,               \* signal -> where its handler is
  connected,              \* are the Redis clients of the listeners open
  exit,                   \* no, or how the process ended
  received, after         \* history: messages taken by a loop, and since it was stopped

lifecycleVars == <<entry, setUp, loop, running, shutdown, connected, exit, received, after>>

LifecycleInit ==
  /\ entry \in Entries /\ setUp = "deploy"
  /\ loop = [l \in Loops |-> "off"] /\ running = [l \in Loops |-> FALSE]
  /\ shutdown = [s \in Signals |-> "none"] /\ connected = FALSE /\ exit = "no"
  /\ received = [l \in Loops |-> 0] /\ after = [l \in Loops |-> 0]

\* index.ts initializes both listeners and starts their loops at the end; server.ts
\* starts each as soon as it is there.  A part that fails, or is late, stays off.
PrepareLoop ==
  /\ exit = "no" /\ setUp \in Loops
  /\ \E works \in BOOLEAN :
       /\ loop' = [loop EXCEPT ![setUp] =
                    IF ~works THEN "off" ELSE IF entry = "server" THEN "polling" ELSE "set up"]
       /\ running' = [running EXCEPT ![setUp] = works /\ entry = "server"]
       /\ connected' = (connected \/ (works /\ (entry = "index" \/ setUp = "mint")))
  /\ setUp' = IF setUp = "deploy" THEN "mint" ELSE "handlers"
  /\ UNCHANGED <<entry, shutdown, exit, received, after>>

\* start() of the loops of index.ts, and the signals' handlers.
Serve ==
  /\ exit = "no" /\ setUp = "handlers" /\ setUp' = "serving"
  /\ loop' = [l \in Loops |-> IF loop[l] = "set up" THEN "polling" ELSE loop[l]]
  /\ running' = [l \in Loops |-> loop[l] # "off"]
  /\ UNCHANGED <<entry, shutdown, connected, exit, received, after>>

\* A poll is answered with a message, whatever the flag says meanwhile.
TakeMessage(l) ==
  /\ exit = "no" /\ loop[l] = "polling" /\ received[l] < MaxTaken
  /\ loop' = [loop EXCEPT ![l] = "busy"]
  /\ received' = [received EXCEPT ![l] = @ + 1]
  /\ after' = [after EXCEPT ![l] = IF running[l] THEN @ ELSE @ + 1]
  /\ UNCHANGED <<entry, setUp, running, shutdown, connected, exit>>

\* The message is handled, or the poll came back empty: the flag is read again.
Turn(l) ==
  /\ exit = "no"
  /\ loop[l] = "busy" \/ (loop[l] = "polling" /\ ~running[l])
  /\ loop' = [loop EXCEPT ![l] = IF running[l] THEN "polling" ELSE "ended"]
  /\ UNCHANGED <<entry, setUp, running, shutdown, connected, exit, received, after>>

\* Without a handler a signal ends the process.  The handler stops what it knows of:
\* the deployment processor of server.ts is not among it.
Signal(s) ==
  /\ exit = "no" /\ shutdown[s] = "none"
  /\ IF setUp # "serving" THEN exit' = "killed" /\ UNCHANGED <<running, shutdown>>
     ELSE /\ shutdown' = [shutdown EXCEPT ![s] = "waiting"]
          /\ running' = [running EXCEPT !["mint"] = FALSE,
                                        !["deploy"] = @ /\ entry = "server"]
          /\ UNCHANGED exit
  /\ UNCHANGED <<entry, setUp, loop, connected, received, after>>

\* The promises of the loops that were started are awaited.
LoopsEnded(s) ==
  /\ exit = "no" /\ shutdown[s] = "waiting"
  /\ loop["mint"] \in {"off", "ended"}
  /\ entry = "index" => loop["deploy"] \in {"off", "ended"}
  /\ shutdown' = [shutdown EXCEPT ![s] = "cleaning"]
  /\ UNCHANGED <<entry, setUp, loop, running, connected, exit, received, after>>

\* cleanup quits Redis: a second time it throws, which server.ts logs and index.ts
\* exits with 1 for.
CleanUpAndExit(s) ==
  /\ exit = "no" /\ shutdown[s] = "cleaning"
  /\ \/ /\ connected /\ connected' = FALSE /\ UNCHANGED <<shutdown, exit>>
     \/ /\ ~connected /\ UNCHANGED connected
        /\ shutdown' = [shutdown EXCEPT ![s] = "over"]
        /\ \/ exit' = "clean"
           \/ exit' = "failed" /\ entry = "index" /\ \A t \in Signals : shutdown[t] = "cleaning"
  /\ UNCHANGED <<entry, setUp, loop, running, received, after>>

LifecycleNext ==
  \/ PrepareLoop \/ Serve
  \/ \E l \in Loops : TakeMessage(l) \/ Turn(l)
  \/ \E s \in Signals : Signal(s) \/ LoopsEnded(s) \/ CleanUpAndExit(s)

-----------------------------------------------------------------------------

\* A process that ends by its handler, with one signal or two, leaves no mint
\* request half done, nor index.ts a deployment; a loop that was told to stop takes at
\* most the message its poll was waiting for.  What ends half done is a deployment
\* of server.ts, or what a signal before the handlers finds.
ExitFinishesWork ==
  /\ \A l \in Loops : exit # "no" /\ loop[l] = "busy" =>
       exit = "killed" \/ (entry = "server" /\ l = "deploy")
  /\ \A l \in Loops : after[l] <= 1
  /\ exit = "killed" /\ entry = "index" => \A l \in Loops : received[l] = 0

=============================================================================
