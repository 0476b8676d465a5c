--------------------------- MODULE UsageFeeRouter ---------------------------
(***************************************************************************)
(* contracts/UsageFeeRouter.sol: API fees are split between the model's    *)
(* infrastructure account and its pool.  The split follows the oracle's    *)
(* cost while it is fresh, and the model's accrual rate otherwise.         *)
(***************************************************************************)
EXTENDS InfrastructureReserve

CONSTANTS
  FeeAmounts, CallCounts, Withdrawals,
  AccrualRates,           \* infrastructureAccrualBps of the models' HokusaiParams
  Ceilings, CostAges,     \* setMaxInfraShareBps, setMaxCostAge
  MaxCollected,
  MaxAdminOps             \* bound on what governance and payers set or record

ASSUME RouterConstants ==
  /\ FeeAmounts \subseteq Nat \ {0} /\ CallCounts \subseteq Nat /\ Withdrawals \subseteq Nat \ {0}
  /\ AccrualRates \subseteq Nat /\ (\A r \in AccrualRates : r <= 10000)
  /\ Ceilings \subseteq Nat /\ (\A c \in Ceilings : c <= 10000)
  /\ CostAges \subseteq Nat /\ MaxCollected \in Nat /\ MaxAdminOps \in Nat

VARIABLES
  pools,                  \* models with a pool in the factory
  active,                 \* models the registry has active
  accrualBps,             \* each model's HokusaiParams
  maxCostAge, maxInfraShareBps,
  totalFeesDeposited, modelFees,
  routerUsdc,             \* what the router holds
  poolFees,               \* what depositFees of each model's pool took
  adminOps

router == <<maxCostAge, maxInfraShareBps, totalFeesDeposited, modelFees, routerUsdc>>
world == <<pools, active, accrualBps>>
feesVars == <<clock, oracle, reserve, router, world, poolFees, adminOps>>

FeesInit ==
  /\ OracleInit /\ ReserveInit
  /\ pools = {} /\ active = Models
  /\ accrualBps \in [Models -> AccrualRates]
  /\ maxCostAge = 0 /\ maxInfraShareBps = 10000
  /\ totalFeesDeposited = 0 /\ modelFees = [m \in Models |-> 0]
  /\ routerUsdc = 0 /\ poolFees = [m \in Models |-> 0] /\ adminOps = 0

AdminOp == adminOps < MaxAdminOps /\ adminOps' = adminOps + 1

-----------------------------------------------------------------------------

OracleCostFresh(m) ==
  \/ maxCostAge = 0
  \/ lastUpdated[m] # 0 /\ clock - lastUpdated[m] <= maxCostAge

Lesser(x, y) == IF x <= y THEN x ELSE y

\* Mutant: the oracle's cost is taken whole.
UncappedShare(m, amount, calls) ==
  IF costPerThousandCalls[m] > 0 /\ OracleCostFresh(m)
  THEN Lesser((costPerThousandCalls[m] * calls) \div 1000, amount)
  ELSE (amount * accrualBps[m]) \div 10000

\* _calculateFeeSplit: what goes to infrastructure; the profit is the rest.
InfraShare(m, amount, calls) ==
  IF costPerThousandCalls[m] > 0 /\ OracleCostFresh(m)
  THEN Lesser(Lesser((costPerThousandCalls[m] * calls) \div 1000, amount),
              (amount * maxInfraShareBps) \div 10000)
  ELSE (amount * accrualBps[m]) \div 10000

Infra(fee) == Entry(fee.model, InfraShare(fee.model, fee.amount, fee.calls))
Profit(fee) == Entry(fee.model, fee.amount - InfraShare(fee.model, fee.amount, fee.calls))
NoFee(m) == [model |-> m, amount |-> 0, calls |-> 0]

\* Fees come in, the shares go out, the totals count.
Collect(first, second) ==
  LET total == first.amount + second.amount
      shares == Infra(first).amount + Infra(second).amount
                + Profit(first).amount + Profit(second).amount
  IN /\ totalFeesDeposited + total <= MaxCollected
     /\ \A fee \in {first, second} : fee.model \in pools /\ fee.model \in active
     /\ routerUsdc' = routerUsdc + total - shares
     /\ poolFees' = [m \in Models |-> poolFees[m] + Added(m, Profit(first), Profit(second))]
     /\ modelFees' = [m \in Models |-> modelFees[m] + Added(m, first, second)]
     /\ totalFeesDeposited' = totalFeesDeposited + total
     /\ UNCHANGED <<clock, oracle, world, maxCostAge, maxInfraShareBps, adminOps>>

DepositFee(fee) ==
  /\ Collect(fee, NoFee(fee.model))
  /\ Deposit(fee.model, Infra(fee).amount)

\* Mutant: a batch books every fee of it to the first model's pool.
FirstPool(first, second) ==
  /\ Collect(first, [second EXCEPT !.model = first.model])
  /\ BatchDeposit(Infra(first), Infra(second))

\* A batch of two, of one model or of two.
BatchDepositFees(first, second) ==
  /\ Collect(first, second)
  /\ BatchDeposit(Infra(first), Infra(second))

\* setMaxCostAge, setMaxInfraShareBps.
GovernRouter ==
  /\ AdminOp
  /\ \/ maxCostAge' \in CostAges \ {maxCostAge} /\ UNCHANGED maxInfraShareBps
     \/ maxInfraShareBps' \in Ceilings \ {maxInfraShareBps} /\ UNCHANGED maxCostAge
  /\ UNCHANGED <<clock, oracle, reserve, world, totalFeesDeposited, modelFees, routerUsdc, poolFees>>

\* The factory, the registry and the models' params.
GovernModels ==
  /\ \/ \E m \in Models \ pools :
          pools' = pools \union {m} /\ UNCHANGED <<active, accrualBps, adminOps>>
     \/ AdminOp /\ \E m \in Models :
          active' = (active \ {m}) \union ({m} \ active) /\ UNCHANGED <<pools, accrualBps>>
     \/ AdminOp /\ \E m \in Models : \E rate \in AccrualRates \ {accrualBps[m]} :
          accrualBps' = [accrualBps EXCEPT ![m] = rate] /\ UNCHANGED <<pools, active>>
  /\ UNCHANGED <<clock, oracle, reserve, router, poolFees>>

fees == {[model |-> m, amount |-> a, calls |-> c] : m \in Models, a \in FeeAmounts, c \in CallCounts}
payments == {Entry(m, a) : m \in Models, a \in Withdrawals}
elsewhere == <<router, world, poolFees>>

FeesNext ==
  \/ \E fee \in fees : DepositFee(fee)
  \/ \E first, second \in fees : BatchDepositFees(first, second)
  \/ \E first \in payments : \E second \in payments \union {Entry(first.model, 0)} :
       Pay(first, second) /\ UNCHANGED <<clock, oracle, elsewhere, adminOps>>
  \/ \E m \in Models, p \in Periods, amount \in Withdrawals :
       AdminOp /\ RecordActualCosts(m, p, amount) /\ UNCHANGED <<clock, oracle, elsewhere>>
  \/ \E m \in Models :
       AdminOp /\ SnapshotEstimatedCosts(m) /\ UNCHANGED <<clock, oracle, elsewhere>>
  \/ \E m \in Models : AdvancePeriod(m) /\ UNCHANGED <<clock, oracle, elsewhere, adminOps>>
  \/ \E amount \in Withdrawals :
       AdminOp /\ EmergencyWithdraw(amount) /\ UNCHANGED <<clock, oracle, elsewhere>>
  \/ AdminOp /\ GovernReserve /\ UNCHANGED <<clock, oracle, elsewhere>>
  \/ GovernRouter \/ GovernModels
  \/ \E m \in Models, cost \in Costs, wish \in EffectiveEpochs :
       AdminOp /\ SetEstimatedCost(m, cost, wish) /\ UNCHANGED <<reserve, elsewhere>>
  \/ \E m \in Models : ApplyPendingUpdate(m) /\ UNCHANGED <<reserve, elsewhere, adminOps>>
  \/ SetEpochDuration /\ UNCHANGED <<reserve, elsewhere, adminOps>>
  \/ Tick /\ UNCHANGED <<reserve, elsewhere, adminOps>>

FeesSpec == FeesInit /\ [][FeesNext]_feesVars

-----------------------------------------------------------------------------

\* Every variable holds what the contracts' types allow.
FeesTypeOK ==
  /\ clock \in Nat \ {0} /\ epochDuration \in EpochDurations
  /\ \A f \in {costPerThousandCalls, lastUpdated, accrued, paid, currentPeriod, manual,
               modelFees, poolFees} : f \in [Models -> Nat]
  /\ \A n \in {totalAccrued, totalPaid, reserveUsdc, withdrawn, totalFeesDeposited,
               maxCostAge} : n \in Nat
  /\ actualCosts \in [Models -> [Periods -> Nat]]
  /\ periodStartTime \in [Models -> [Periods -> Nat]]
  /\ maxInfraShareBps \in Nat /\ maxInfraShareBps <= 10000 /\ routerUsdc \in Nat

\* Whatever the split and the batches, a model's fees are in its own pool and its
\* own infrastructure account, or were paid from that; the router keeps nothing.
FeesReachTheirModel ==
  /\ routerUsdc = 0
  /\ totalFeesDeposited = SumOf(modelFees, Models)
  /\ \A m \in Models : modelFees[m] = poolFees[m] + accrued[m] + paid[m]

FeeGain(m) == modelFees'[m] - modelFees[m]
InfraGain(m) == (accrued'[m] + paid'[m]) - (accrued[m] + paid[m])

\* The hardening of the split: whatever the oracle, the caller's call count and
\* the batch say, infrastructure gets no larger part of a fee than the ceiling or
\* the model's accrual rate, and the pool the rest.
ResidualSurvives ==
  \A m \in Models :
    InfraGain(m) * 10000 <= FeeGain(m) * Larger(maxInfraShareBps, accrualBps[m])

\* A batch in which one model owes infrastructure nothing, and another something,
\* does not go through: the reserve takes no empty entry, and refuses them all.
BatchNeedsEveryShare ==
  \A m, n \in Models :
    FeeGain(m) > 0 /\ FeeGain(n) > 0 => (InfraGain(m) > 0 <=> InfraGain(n) > 0)

\* Fees and accounts agree: each model's money is in its own accounts, the reserve
\* holds what it owes, payments are actual costs and periods have run their time.
FeesAccounted ==
  FeesTypeOK /\ FeesReachTheirModel /\ ReserveBacked /\ PaymentsAreActuals /\ PeriodsElapse

\* Every step splits fees within the ceilings, and a batch whole or not at all;
\* what a fee is split by keeps its epochs.
FeesSplitSoundly == [][ResidualSurvives /\ BatchNeedsEveryShare /\ CostsKeepEpochs]_feesVars

=============================================================================
