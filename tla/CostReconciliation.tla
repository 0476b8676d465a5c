------------------------- MODULE CostReconciliation -------------------------
(***************************************************************************)
(* services/contract-deployer/src/monitoring/cost-reconciliation-service.ts*)
(* and the POST of routes/reconciliation.ts: invoices are kept per model;  *)
(* a cycle computes for every model a variance, at once, and after a read  *)
(* of the chain its runway.  Cycles are started by an interval and may     *)
(* overlap; invoices come in between.  Money is in hundredths, days whole. *)
(***************************************************************************)
EXTENDS Counting, SequencesExt, FiniteSetsExt

CONSTANTS
  BilledModels,
  Invoices,               \* [amount, start, end] of the requests that are valid
  Balances,               \* what the reserve may answer
  VarianceWarning, WarnDays, CriticalDays, \* thresholds: percent, days, days
  Cycles,                 \* cycles that may be under way at once
  HistoryKept,            \* 12
  RecentDays,             \* 30
  MaxInvoices, LastDay    \* bounds: requests and days

ASSUME CostConstants ==
  /\ Invoices \subseteq [amount : Nat, start : Nat, end : Nat]
  /\ \A i \in Invoices : i.start <= i.end
  /\ Balances \subseteq Nat /\ HistoryKept \in Nat \ {0}
  /\ {VarianceWarning, WarnDays, CriticalDays} \subseteq Nat

VARIABLES
  today,
  costHistory,            \* model -> the invoices kept, in the order they came
  varianceHistory,        \* model -> the actual cost of each variance kept
  recommendations,        \* model -> the same of those that were recommended
  cycle,                  \* cycle -> models to go, the first of them under way
  runway,                 \* model -> the last runway computed, and from what
  ingested                \* history: model -> every invoice accepted

costVars == <<today, costHistory, varianceHistory, recommendations, cycle, runway,
              ingested>>

NoRunway == [status |-> "none", balance |-> 0, costs |-> <<>>]
OfModels(value) == [m \in BilledModels |-> value]

CostInit ==
  /\ today = 0
  /\ costHistory = OfModels(<<>>) /\ varianceHistory = OfModels(<<>>)
  /\ recommendations = OfModels(<<>>) /\ ingested = OfModels(<<>>)
  /\ cycle = [c \in Cycles |-> <<>>]
  /\ runway = OfModels(NoRunway)

Newest(list) == IF Len(list) > HistoryKept THEN Tail(list) ELSE list

\* ingestActualCosts: nothing tells a repeated request from another invoice.
IngestActualCosts(m, invoice) ==
  /\ SumOf([k \in BilledModels |-> Len(ingested[k])], BilledModels) < MaxInvoices
  /\ costHistory' = [costHistory EXCEPT ![m] = Newest(Append(@, invoice))]
  /\ ingested' = [ingested EXCEPT ![m] = Append(@, invoice)]
  /\ UNCHANGED <<today, varianceHistory, recommendations, cycle, runway>>

RecentOf(invoices) ==
  Sublist(invoices, {i \in DOMAIN invoices : invoices[i].end + RecentDays >= today})
TotalCost(invoices) == SumOf([i \in DOMAIN invoices |-> invoices[i].amount], DOMAIN invoices)
TotalDays(invoices) ==
  SumOf([i \in DOMAIN invoices |-> invoices[i].end - invoices[i].start], DOMAIN invoices)

\* The estimate is 95% of the actual cost, until the oracle is asked: 10%, the
\* default threshold, is never reached.
VarianceReaches(percent) == 100 * 5 >= percent * 95

Reconciled(history, m, actual) == [history EXCEPT ![m] = Newest(Append(@, actual))]

\* reconcileModel, up to the read of the reserve: what precedes it yields to nothing
\* else.
Begin(m) ==
  LET actual == TotalCost(RecentOf(costHistory[m]))
  IN /\ varianceHistory' = Reconciled(varianceHistory, m, actual)
     /\ recommendations' = IF VarianceReaches(VarianceWarning)
                           THEN Reconciled(recommendations, m, actual) ELSE recommendations

\* The models of todo from the first that waits for the reserve: one without recent
\* costs is left at once.
Awaiting(todo) ==
  LET waits == {i \in DOMAIN todo : TotalCost(RecentOf(costHistory[todo[i]])) > 0}
  IN IF waits = {} THEN <<>> ELSE SubSeq(todo, Min(waits), Len(todo))

GoOn(c, todo) ==
  /\ cycle' = [cycle EXCEPT ![c] = Awaiting(todo)]
  /\ IF Awaiting(todo) = <<>> THEN UNCHANGED <<varianceHistory, recommendations>>
     ELSE Begin(Head(Awaiting(todo)))

Tracked == SetToSeq({m \in BilledModels : ingested[m] # <<>>})

RunReconciliation(c) ==
  /\ cycle[c] = <<>> /\ Awaiting(Tracked) # <<>>
  /\ GoOn(c, Tracked)
  /\ UNCHANGED <<today, costHistory, runway, ingested>>

Status(balance, cost, days) ==
  IF balance * days < CriticalDays * cost THEN "critical"
  ELSE IF balance * days < WarnDays * cost THEN "warning" ELSE "healthy"

\* calculateRunway once the balance is there, with the costs of now, and its alert,
\* which is logged, no AlertManager being given; then the next model.  Without recent
\* days or costs there is no runway.
AnswerAccounting(c, balance) ==
  /\ cycle[c] # <<>>
  /\ LET m == Head(cycle[c])
         costs == RecentOf(costHistory[m])
     IN runway' = IF TotalDays(costs) = 0 \/ TotalCost(costs) = 0 THEN runway
                  ELSE [runway EXCEPT ![m] =
                         [status |-> Status(balance, TotalCost(costs), TotalDays(costs)),
                          balance |-> balance, costs |-> costs]]
  /\ GoOn(c, Tail(cycle[c]))
  /\ UNCHANGED <<today, costHistory, ingested>>

\* The read fails; the cycle goes on with the next model.
AccountingFails(c) ==
  /\ cycle[c] # <<>> /\ GoOn(c, Tail(cycle[c]))
  /\ UNCHANGED <<today, costHistory, runway, ingested>>

NextDay ==
  /\ today < LastDay /\ today' = today + 1
  /\ UNCHANGED <<costHistory, varianceHistory, recommendations, cycle, runway, ingested>>

CostNext ==
  \/ \E m \in BilledModels, i \in Invoices : IngestActualCosts(m, i)
  \/ \E c \in Cycles : RunReconciliation(c) \/ AccountingFails(c)
  \/ \E c \in Cycles, b \in Balances : AnswerAccounting(c, b)
  \/ NextDay

-----------------------------------------------------------------------------

DaysOf(invoice) == invoice.start..invoice.end - 1
Overlap(invoices) ==
  \E i, j \in DOMAIN invoices : i < j /\ DaysOf(invoices[i]) \intersect DaysOf(invoices[j]) # {}

\* A model called healthy can pay its recent daily cost for the days of the warning
\* and one that is not called critical for those of the alarm, over the days that
\* were really billed, if no two of its invoices are of one day.  (Where they are,
\* as with two providers of one month, their days add up and the figure is too good.)
RunwayIsHonest ==
  \A m \in BilledModels :
    LET costs == runway[m].costs
        days == Cardinality(UNION {DaysOf(costs[i]) : i \in DOMAIN costs})
    IN runway[m].status # "none" /\ ~Overlap(costs) =>
         /\ runway[m].status = "healthy" =>
              runway[m].balance * days >= WarnDays * TotalCost(costs)
         /\ runway[m].status # "critical" =>
              runway[m].balance * days >= CriticalDays * TotalCost(costs)

\* However cycles and requests interleave, a cost that was compared is the sum of
\* invoices of the model, all of them while no more came than are kept; what is kept
\* are the newest to come, not the newest periods; and every recommendation is of
\* a cost that was compared.
CostsRemembered ==
  \A m \in BilledModels :
    /\ costHistory[m] = SubSeq(ingested[m], Len(ingested[m]) - Len(costHistory[m]) + 1, Len(ingested[m]))
    /\ Len(costHistory[m]) = Min({HistoryKept, Len(ingested[m])})
    /\ \A i \in DOMAIN varianceHistory[m] : varianceHistory[m][i] <= TotalCost(ingested[m])
    /\ ToSet(recommendations[m]) \subseteq ToSet(varianceHistory[m])

=============================================================================
