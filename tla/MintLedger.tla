----------------------------- MODULE MintLedger -----------------------------
(***************************************************************************)
(* What the attested mint path promises, without saying how: a ledger of   *)
(* idempotency keys in which every key is settled at most once and for     *)
(* good, a paid key extends its model's lineage from the current head, and *)
(* what a model has been paid never exceeds what governance granted it.    *)
(***************************************************************************)
EXTENDS Integers

CONSTANTS Keys, Models, Commitments, NoCommitment

VARIABLES
  settled,    \* keys with a final answer
  payments,   \* records of the keys that were paid
  lineage,    \* [Models -> current head], NoCommitment before the root is set
  allowance,  \* [Models -> Nat], what may still be paid
  paid        \* [Models -> Nat], what has been paid

lvars == <<settled, payments, lineage, allowance, paid>>

LedgerInit ==
  /\ settled = {} /\ payments = {}
  /\ lineage = [m \in Models |-> NoCommitment]
  /\ allowance = [m \in Models |-> 0]
  /\ paid = [m \in Models |-> 0]

\* A key is answered without payment.
Decline(k) ==
  /\ k \notin settled
  /\ settled' = settled \union {k}
  /\ UNCHANGED <<payments, lineage, allowance, paid>>

\* A key is paid: in full, once, on top of the current head.
Pay(k, m, child) ==
  LET amount == paid'[m] - paid[m] IN
  /\ k \notin settled
  /\ lineage[m] # NoCommitment
  /\ 0 < amount /\ amount <= allowance[m]
  /\ settled' = settled \union {k}
  /\ payments' = payments \union
       {[key |-> k, model |-> m, parent |-> lineage[m], child |-> child,
         amount |-> amount]}
  /\ lineage' = [lineage EXCEPT ![m] = child]
  /\ allowance' = [allowance EXCEPT ![m] = @ - amount]
  /\ paid' = [paid EXCEPT ![m] = @ + amount]

\* Governance grants or withdraws an allowance, and sets or corrects a head.
Grant(m) ==
  /\ allowance'[m] \in Nat
  /\ allowance' = [allowance EXCEPT ![m] = allowance'[m]]
  /\ UNCHANGED <<settled, payments, lineage, paid>>

SetHead(m, c) ==
  /\ lineage' = [lineage EXCEPT ![m] = c]
  /\ UNCHANGED <<settled, payments, allowance, paid>>

LedgerNext ==
  \/ \E k \in Keys : Decline(k)
  \/ \E k \in Keys, m \in Models, c \in Commitments : Pay(k, m, c)
  \/ \E m \in Models : Grant(m)
  \/ \E m \in Models, c \in Commitments : SetHead(m, c)

LedgerSpec == LedgerInit /\ [][LedgerNext]_lvars

=============================================================================
