---------------------------- MODULE AlertManager ----------------------------
(***************************************************************************)
(* services/contract-deployer/src/monitoring/alert-manager.ts: alerts of   *)
(* the StateTracker, the EventListener and the heartbeat, e-mailed unless  *)
(* they repeat one of the last minutes or their type has reached its       *)
(* limits.  Metrics and the text of e-mails are left out; time is in ticks.*)
(***************************************************************************)
EXTENDS Integers, Sequences, FiniteSets, Counting

CONSTANTS
  AlertKeys,              \* what getAlertKey tells apart
  TypesOfAlerts, TypeOf,
  Hour, Day, MaxPerHour, MaxPerDay, DedupWindow,
  MaxTime, MaxRecords     \* bounds: the clock, and alerts let through

ASSUME AlertConstants ==
  /\ TypeOf \in [AlertKeys -> TypesOfAlerts]
  /\ Hour \in Nat /\ Day \in Nat /\ Hour <= Day /\ DedupWindow \in Nat
  /\ MaxPerHour \in Nat \ {0} /\ MaxPerDay \in Nat \ {0}
  /\ MaxTime \in Nat /\ MaxRecords \in Nat

VARIABLES
  now,
  recentAlerts,           \* key -> when it was last taken for new
  alertHistory,           \* type -> times of the alerts let through, as long as they are kept
  letThrough,             \* history: the same, all of them
  dropped                 \* history: type -> when one was last dropped, or Never

alertVars == <<now, recentAlerts, alertHistory, letThrough, dropped>>

Never == -DedupWindow - 1

AlertInit ==
  /\ now = 0
  /\ recentAlerts = [k \in AlertKeys |-> Never]
  /\ alertHistory = [t \in TypesOfAlerts |-> <<>>]
  /\ letThrough = [t \in TypesOfAlerts |-> <<>>]
  /\ dropped = [t \in TypesOfAlerts |-> Never]

\* The alerts of a window that ends now.
AtLeast(times, from) == {i \in DOMAIN times : times[i] >= from}
Since(times, window) == AtLeast(times, now - window)

\* A key is deleted DedupWindow after it was added.
IsDuplicate(k) == now < recentAlerts[k] + DedupWindow

IsRateLimited(t) ==
  \/ Cardinality(Since(alertHistory[t], Hour)) >= MaxPerHour
  \/ Cardinality(Since(alertHistory[t], Day)) >= MaxPerDay

\* sendAlert.  An alert over the limits counts as recent all the same, and one
\* that is let through is recorded before SES takes it or does not.
SendAlert(k) ==
  LET t == TypeOf[k]
      through == ~IsDuplicate(k) /\ ~IsRateLimited(t)
  IN /\ Len(letThrough[t]) < MaxRecords
     /\ recentAlerts' = [recentAlerts EXCEPT ![k] = IF IsDuplicate(k) THEN @ ELSE now]
     /\ alertHistory' = [alertHistory EXCEPT ![t] = IF through THEN Append(@, now) ELSE @]
     /\ letThrough' = [letThrough EXCEPT ![t] = IF through THEN Append(@, now) ELSE @]
     /\ dropped' = [dropped EXCEPT ![t] = IF through THEN @ ELSE now]
     /\ UNCHANGED now

\* By a timer.
CleanupOldAlerts ==
  /\ alertHistory' = [t \in TypesOfAlerts |->
                     Sublist(alertHistory[t], Since(alertHistory[t], Day))]
  /\ UNCHANGED <<now, recentAlerts, letThrough, dropped>>

AlertTick ==
  /\ now < MaxTime /\ now' = now + 1
  /\ UNCHANGED <<recentAlerts, alertHistory, letThrough, dropped>>

AlertNext == (\E k \in AlertKeys : SendAlert(k)) \/ CleanupOldAlerts \/ AlertTick

-----------------------------------------------------------------------------

\* The hour and the day that end now have seen at most the e-mails of a type that
\* the limits allow, whenever old alerts are cleaned up.
AlertsWithinLimits ==
  \A t \in TypesOfAlerts :
    /\ Cardinality(Since(letThrough[t], Hour)) <= MaxPerHour
    /\ Cardinality(Since(letThrough[t], Day)) <= MaxPerDay

\* Where an alert was dropped, one of its own type was let through in the day
\* before, or in the day before the one it repeats: no type falls silent for
\* another's alerts.
SilenceFollowsAlert ==
  \A t \in TypesOfAlerts : dropped[t] # Never =>
    \E i \in DOMAIN letThrough[t] :
      letThrough[t][i] \in dropped[t] - Day - DedupWindow .. dropped[t]

=============================================================================
