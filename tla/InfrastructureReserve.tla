----------------------- MODULE InfrastructureReserve -----------------------
(***************************************************************************)
(* contracts/InfrastructureCostOracle.sol: the cost of a thousand calls of *)
(* each model.  A new cost is queued by governance and applied by anyone,  *)
(* an epoch after the last one.  Readers see the applied cost alone.       *)
(*                                                                         *)
(* contracts/InfrastructureReserve.sol: what each model has accrued for    *)
(* its infrastructure, what was paid to providers, and the estimated and   *)
(* actual costs of its reconciliation periods.                             *)
(***************************************************************************)
EXTENDS Integers, FiniteSets, Counting

CONSTANTS
  Models,
  Costs, MaxCost,         \* costs per thousand calls, MAX_COST_PER_THOUSAND_CALLS
  EpochDurations,         \* MIN_EPOCH_DURATION up to MAX_EPOCH_DURATION
  EffectiveEpochs,        \* the caller's wish, zero for as soon as possible
  MaxClock                \* bound on block.timestamp

ASSUME OracleConstants ==
  /\ Costs \subseteq Nat /\ MaxCost \in Nat
  /\ EpochDurations \subseteq Nat \ {0} /\ EpochDurations # {}
  /\ EffectiveEpochs \subseteq Nat /\ MaxClock \in Nat

VARIABLES
  clock,                  \* block.timestamp, which is never zero
  costPerThousandCalls, lastUpdated,
  pendingCosts,           \* _pendingUpdates
  epochDuration

oracle == <<costPerThousandCalls, lastUpdated, pendingCosts, epochDuration>>

\* What delete leaves of a pending update.
Deleted == [cost |-> 0, effectiveAfter |-> 0, exists |-> FALSE]

OracleInit ==
  /\ clock = 1
  /\ costPerThousandCalls = [m \in Models |-> 0]
  /\ lastUpdated = [m \in Models |-> 0]
  /\ pendingCosts = [m \in Models |-> Deleted]
  /\ epochDuration \in EpochDurations

Larger(x, y) == IF x >= y THEN x ELSE y

\* When a cost queued now may be applied.
EffectiveAfter(m, wish) ==
  IF lastUpdated[m] = 0
  THEN IF wish > 0 THEN wish ELSE clock
  ELSE Larger(wish, lastUpdated[m] + epochDuration)

\* A second queued cost replaces the first.
SetEstimatedCost(m, cost, wish) ==
  /\ cost <= MaxCost
  /\ pendingCosts' = [pendingCosts EXCEPT ![m] =
       [cost |-> cost, effectiveAfter |-> EffectiveAfter(m, wish), exists |-> TRUE]]
  /\ UNCHANGED <<clock, costPerThousandCalls, lastUpdated, epochDuration>>

ApplyPendingUpdate(m) ==
  /\ pendingCosts[m].exists
  /\ clock >= pendingCosts[m].effectiveAfter
  /\ costPerThousandCalls' = [costPerThousandCalls EXCEPT ![m] = pendingCosts[m].cost]
  /\ lastUpdated' = [lastUpdated EXCEPT ![m] = clock]
  /\ pendingCosts' = [pendingCosts EXCEPT ![m] = Deleted]
  /\ UNCHANGED <<clock, epochDuration>>

\* It does not move a boundary that is already queued.
SetEpochDuration ==
  /\ epochDuration' \in EpochDurations
  /\ UNCHANGED <<clock, costPerThousandCalls, lastUpdated, pendingCosts>>

Tick ==
  /\ clock < MaxClock
  /\ clock' = clock + 1
  /\ UNCHANGED oracle

-----------------------------------------------------------------------------

CONSTANTS
  ReconciliationPeriods, \* positive durations
  MaxPeriod, MaxManual   \* bounds on periods and on costs recorded by hand

ASSUME ReserveConstants ==
  /\ IsFiniteSet(Models)
  /\ ReconciliationPeriods \subseteq Nat \ {0} /\ ReconciliationPeriods # {}
  /\ MaxPeriod \in Nat /\ MaxManual \in Nat

Periods == 0..MaxPeriod

VARIABLES
  accrued, paid,         \* by model
  totalAccrued, totalPaid,
  reserveUsdc,           \* reserveToken.balanceOf(this)
  actualCosts,           \* by model and period
  currentPeriod, periodStartTime, reconciliationPeriod,
  reservePaused,
  withdrawn,             \* history: what emergencyWithdraw took
  manual                 \* history: by model, what recordActualCosts added

accounts == <<accrued, paid, totalAccrued, totalPaid, reserveUsdc>>
periods == <<currentPeriod, periodStartTime, reconciliationPeriod>>
reserve == <<accounts, actualCosts, periods, reservePaused, withdrawn, manual>>

ReserveInit ==
  /\ accrued = [m \in Models |-> 0] /\ paid = [m \in Models |-> 0]
  /\ totalAccrued = 0 /\ totalPaid = 0 /\ reserveUsdc = 0
  /\ actualCosts = [m \in Models |-> [p \in Periods |-> 0]]
  /\ currentPeriod = [m \in Models |-> 0]
  /\ periodStartTime = [m \in Models |-> [p \in Periods |-> 0]]
  /\ reconciliationPeriod \in ReconciliationPeriods
  /\ reservePaused = FALSE /\ withdrawn = 0 /\ manual = [m \in Models |-> 0]

Entry(m, amount) == [model |-> m, amount |-> amount]

\* What two entries, of one model or of two, add to each model.
Added(m, first, second) ==
  (IF first.model = m THEN first.amount ELSE 0) + (IF second.model = m THEN second.amount ELSE 0)

\* The state after two deposits.
Accrue(first, second) ==
  /\ accrued' = [m \in Models |-> accrued[m] + Added(m, first, second)]
  /\ totalAccrued' = totalAccrued + first.amount + second.amount
  /\ reserveUsdc' = reserveUsdc + first.amount + second.amount
  /\ UNCHANGED <<paid, totalPaid, actualCosts, periods, reservePaused, withdrawn, manual>>

\* deposit, by the router; nothing happens for an amount the router does not send.
Deposit(m, amount) ==
  IF amount = 0 THEN UNCHANGED reserve
  ELSE ~reservePaused /\ Accrue(Entry(m, amount), Entry(m, 0))

\* batchDeposit takes no zero amount; the router calls it if the sum is positive.
BatchDeposit(first, second) ==
  IF first.amount + second.amount = 0 THEN UNCHANGED reserve
  ELSE /\ ~reservePaused
       /\ first.amount > 0 /\ second.amount > 0
       /\ Accrue(first, second)

\* A payment and a snapshot start the current period if it is not started.
Started(ms) ==
  [m \in Models |->
     IF m \in ms /\ periodStartTime[m][currentPeriod[m]] = 0
     THEN [periodStartTime[m] EXCEPT ![currentPeriod[m]] = clock] ELSE periodStartTime[m]]

\* The money of two payments, and the accounts it comes from.
MoneyOut(first, second) ==
  /\ ~reservePaused
  /\ first.amount + second.amount <= reserveUsdc
  /\ accrued' = [m \in Models |-> accrued[m] - Added(m, first, second)]
  /\ paid' = [m \in Models |-> paid[m] + Added(m, first, second)]
  /\ reserveUsdc' = reserveUsdc - first.amount - second.amount
  /\ periodStartTime' = Started({m \in Models : Added(m, first, second) > 0})
  /\ UNCHANGED <<totalAccrued, currentPeriod, reconciliationPeriod, reservePaused, withdrawn, manual>>

\* The actual costs of the models' current periods, with two payments.
Actuals(first, second) ==
  [m \in Models |-> [actualCosts[m] EXCEPT ![currentPeriod[m]] = @ + Added(m, first, second)]]

Covered(first, second) ==
  /\ first.amount > 0
  /\ \A m \in Models : Added(m, first, second) <= accrued[m]

\* payInfrastructureCost, and a batch of two; each payment is also the actual
\* cost of its model's current period.
Pay(first, second) ==
  /\ Covered(first, second) /\ MoneyOut(first, second)
  /\ totalPaid' = totalPaid + first.amount + second.amount
  /\ actualCosts' = Actuals(first, second)

\* emergencyWithdraw, paused or not: the accounts keep what is no longer there.
EmergencyWithdraw(amount) ==
  /\ 0 < amount /\ amount <= reserveUsdc
  /\ reserveUsdc' = reserveUsdc - amount
  /\ withdrawn' = withdrawn + amount
  /\ UNCHANGED <<accrued, paid, totalAccrued, totalPaid, actualCosts, periods,
                 reservePaused, manual>>

SnapshotEstimatedCosts(m) ==
  /\ periodStartTime' = Started({m})
  /\ UNCHANGED <<accounts, actualCosts, currentPeriod, reconciliationPeriod,
                 reservePaused, withdrawn, manual>>

\* recordActualCosts, for any period, started or not.
RecordActualCosts(m, p, amount) ==
  /\ manual[m] + amount <= MaxManual
  /\ actualCosts' = [actualCosts EXCEPT ![m][p] = @ + amount]
  /\ manual' = [manual EXCEPT ![m] = @ + amount]
  /\ UNCHANGED <<accounts, periods, reservePaused, withdrawn>>

AdvancePeriod(m) ==
  LET p == currentPeriod[m]
  IN /\ p < MaxPeriod
     /\ periodStartTime[m][p] > 0
     /\ clock >= periodStartTime[m][p] + reconciliationPeriod
     /\ currentPeriod' = [currentPeriod EXCEPT ![m] = p + 1]
     /\ periodStartTime' = [periodStartTime EXCEPT ![m][p + 1] = clock]
     /\ UNCHANGED <<accounts, actualCosts, reconciliationPeriod, reservePaused, withdrawn, manual>>

\* setReconciliationPeriod, pause and unpause.
GovernReserve ==
  /\ \/ reconciliationPeriod' \in ReconciliationPeriods \ {reconciliationPeriod}
        /\ UNCHANGED reservePaused
     \/ reservePaused' = ~reservePaused /\ UNCHANGED reconciliationPeriod
  /\ UNCHANGED <<accounts, actualCosts, currentPeriod, periodStartTime, withdrawn, manual>>

-----------------------------------------------------------------------------

\* The shortest epoch governance can set.
MinEpoch == CHOOSE d \in EpochDurations : \A e \in EpochDurations : d <= e

\* "Time-gated updates to ensure pricing stability across epochs": however costs
\* are queued, queued again and the epoch is changed, a model's cost is replaced
\* no sooner than the shortest epoch after it was set.
CostsKeepEpochs ==
  \A m \in Models :
    lastUpdated[m] > 0 /\ lastUpdated'[m] # lastUpdated[m]
      => lastUpdated'[m] - lastUpdated[m] >= MinEpoch

\* The balance is what all models have accrued, less what an administrator took:
\* the accounts outlive an emergency withdrawal, and later payments may fail.
ReserveBacked ==
  /\ reserveUsdc + withdrawn = SumOf(accrued, Models)
  /\ totalAccrued = totalPaid + SumOf(accrued, Models)

\* A model's actual costs, over its periods, are its payments, singly and in
\* batches, and what was recorded by hand.
PaymentsAreActuals ==
  \A m \in Models : SumOf(actualCosts[m], Periods) = paid[m] + manual[m]

MinPeriod == CHOOSE d \in ReconciliationPeriods : \A e \in ReconciliationPeriods : d <= e

\* A period that has ended was started, and lasted at least the shortest
\* reconciliation period; the one that follows was started when it ended.
PeriodsElapse ==
  \A m \in Models : \A p \in Periods :
    p < currentPeriod[m] =>
      /\ periodStartTime[m][p] > 0
      /\ periodStartTime[m][p + 1] - periodStartTime[m][p] >= MinPeriod

=============================================================================
