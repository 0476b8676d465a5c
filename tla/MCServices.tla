----------------------------- MODULE MCServices -----------------------------
(***************************************************************************)
(* Parts that share no state, side by side in one run: a behaviour is one  *)
(* of one part, chosen at the start, while the others rest.                *)
(***************************************************************************)
EXTENDS HokusaiAMMFactory, DataContributionRegistry, HokusaiParams,
        DeploymentApi, StateTracker, AlertManager, PoolWatch, UsageFeeRouter,
        TradeWatch, CostReconciliation, IngestionHeartbeat, ServiceLifecycle

VARIABLE part             \* the part that runs

ParseName == [n \in Names |-> IF n = "2" THEN 2 ELSE 1]
AlertType == [k \in AlertKeys |-> IF k = "whale" THEN "event" ELSE "state"]
Occurrence(kind, pool, size, trader) ==
  [kind |-> kind, pool |-> pool, size |-> size, trader |-> trader]

EventTable ==
  [bought |-> Occurrence("buy", "w1", 1, "a"), sold |-> Occurrence("sell", "w1", 5, "b"),
   fed |-> Occurrence("fees", "w2", 2, "b"), stopped |-> Occurrence("paused", "w1", 0, "a")]

EventNames == DOMAIN EventTable

TwoInvoices == {[amount |-> 4, start |-> 0, end |-> 1], [amount |-> 3, start |-> 1, end |-> 2]}

Reading(paused, balanced, held, taken) ==
  [paused |-> paused, balanced |-> balanced,
   reserve |-> held, price |-> 1 + held, supply |-> held, fees |-> taken]

PoolReadings == {Reading(FALSE, TRUE, 4, 0), Reading(FALSE, FALSE, 1, 2),
                 Reading(TRUE, TRUE, 0, 0)}

contractParts == <<vars, contributionVars, paramsVars, feesVars>>
apiParts == <<deploymentVars, lifecycleVars, costVars>>
monitorParts == <<trackerVars, alertVars, watchVars, tradeVars, heartbeatVars>>
parts == <<contractParts, apiParts, monitorParts>>

SideBySide ==
  /\ part \in {"factory", "contributions", "params", "deployment", "tracker", "alerts",
               "watch", "fees", "trades", "costs", "heartbeat", "lifecycle"}
  /\ Init /\ ContributionInit /\ ParamsInit /\ DeploymentInit /\ TrackerInit /\ AlertInit
  /\ WatchInit /\ FeesInit /\ TradeWatchInit /\ CostInit /\ HeartbeatInit /\ LifecycleInit
  /\ part # "watch" => fromLatest /\ matches
  /\ part # "heartbeat" => ~hasBackup
  /\ part # "lifecycle" => entry = "index"
  /\ accrualBps \in [Models -> {5000}] /\ epochDuration = 3 /\ reconciliationPeriod = 2

\* One part takes its step.
Only(name) == part = name /\ UNCHANGED part

FactoryStep ==
  /\ Only("factory") /\ Next
  /\ UNCHANGED <<contributionVars, paramsVars, feesVars, apiParts, monitorParts>>
ContributionStep ==
  /\ Only("contributions") /\ ContributionNext
  /\ UNCHANGED <<vars, paramsVars, feesVars, apiParts, monitorParts>>
ParamsStep ==
  /\ Only("params") /\ ParamsNext
  /\ UNCHANGED <<vars, contributionVars, feesVars, apiParts, monitorParts>>
FeesStep ==
  /\ Only("fees") /\ FeesNext
  /\ UNCHANGED <<vars, contributionVars, paramsVars, apiParts, monitorParts>>
DeploymentStep ==
  /\ Only("deployment") /\ DeploymentNext
  /\ UNCHANGED <<contractParts, lifecycleVars, costVars, monitorParts>>
LifecycleStep ==
  /\ Only("lifecycle") /\ LifecycleNext
  /\ UNCHANGED <<contractParts, deploymentVars, costVars, monitorParts>>
CostStep ==
  /\ Only("costs") /\ CostNext
  /\ UNCHANGED <<contractParts, deploymentVars, lifecycleVars, monitorParts>>
TrackerStep ==
  /\ Only("tracker") /\ TrackerNext
  /\ UNCHANGED <<contractParts, apiParts, alertVars, watchVars, tradeVars, heartbeatVars>>
AlertStep ==
  /\ Only("alerts") /\ AlertNext
  /\ UNCHANGED <<contractParts, apiParts, trackerVars, watchVars, tradeVars, heartbeatVars>>
WatchStep ==
  /\ Only("watch") /\ WatchNext
  /\ UNCHANGED <<contractParts, apiParts, trackerVars, alertVars, tradeVars, heartbeatVars>>
TradeStep ==
  /\ Only("trades") /\ TradeWatchNext
  /\ UNCHANGED <<contractParts, apiParts, trackerVars, alertVars, watchVars, heartbeatVars>>
HeartbeatStep ==
  /\ Only("heartbeat") /\ HeartbeatNext
  /\ UNCHANGED <<contractParts, apiParts, trackerVars, alertVars, watchVars, tradeVars>>

AnyStep ==
  \/ FactoryStep \/ ContributionStep \/ ParamsStep \/ DeploymentStep
  \/ TrackerStep \/ AlertStep \/ WatchStep \/ FeesStep
  \/ TradeStep \/ CostStep \/ HeartbeatStep \/ LifecycleStep

ServicesSpec == SideBySide /\ [][AnyStep]_<<part, parts>>

\* The monitor knows every pool, sees every pause, sends what its limits allow, counts
\* every trade, knows when it is blind and pages it once; and a service that is told to
\* stop leaves no mint request half done.
ServicesSound ==
  /\ NoPoolIsMissed /\ DiscoveredIsWatched /\ PauseIsReported
  /\ AlertsWithinLimits /\ SilenceFollowsAlert
  /\ RunwayIsHonest /\ CostsRemembered
  /\ TradesCounted /\ LateOnlyIfLarge /\ ListsSound
  /\ BlindnessIsNoticed /\ OutagePagedOnce
  /\ ExitFinishesWork

\* What a step of registration, verification or price setting may never do.
StepsSound == [][TakenIdStopsAutoIds /\ StatusMovesForward /\ QueuedValuesKeepEpochs]_<<part, parts>>

=============================================================================
