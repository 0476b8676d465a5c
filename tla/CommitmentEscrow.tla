-------------------------- MODULE CommitmentEscrow --------------------------
(***************************************************************************)
(* What a proposal of the funding vault promises its depositors: while it  *)
(* is open they come and go with exactly what they put in; a freeze fixes  *)
(* their shares and can be undone until the settlement; after it each one  *)
(* is paid the floor of their share of the proceeds, once.                 *)
(***************************************************************************)
EXTENDS Naturals

CONSTANT Users

VARIABLES
  phase,    \* "open", "frozen" or "settled"
  stake,    \* [Users -> Nat]
  total,    \* what all of them have put in
  proceeds, \* what the settlement brought
  paid,     \* users who took their share
  payout    \* [Users -> Nat]

escrow == <<phase, stake, total, proceeds, paid, payout>>

EscrowInit ==
  /\ phase = "open"
  /\ stake = [u \in Users |-> 0] /\ total = 0
  /\ proceeds = 0
  /\ paid = {} /\ payout = [u \in Users |-> 0]

Join(u) ==
  /\ phase = "open"
  /\ total' \in Nat /\ total' > total
  /\ stake' = [stake EXCEPT ![u] = @ + (total' - total)]
  /\ UNCHANGED <<phase, proceeds, paid, payout>>

Leave(u) ==
  /\ phase = "open"
  /\ stake[u] > 0
  /\ stake' = [stake EXCEPT ![u] = 0]
  /\ total' = total - stake[u]
  /\ UNCHANGED <<phase, proceeds, paid, payout>>

Freeze ==
  /\ phase = "open" /\ total > 0
  /\ phase' = "frozen"
  /\ UNCHANGED <<stake, total, proceeds, paid, payout>>

Thaw ==
  /\ phase = "frozen"
  /\ phase' = "open"
  /\ UNCHANGED <<stake, total, proceeds, paid, payout>>

Settle ==
  /\ phase = "frozen"
  /\ phase' = "settled"
  /\ proceeds' \in Nat \ {0}
  /\ UNCHANGED <<stake, total, paid, payout>>

Pay(u) ==
  /\ phase = "settled"
  /\ stake[u] > 0 /\ u \notin paid
  /\ paid' = paid \union {u}
  /\ payout' = [payout EXCEPT ![u] = (stake[u] * proceeds) \div total]
  /\ UNCHANGED <<phase, stake, total, proceeds>>

EscrowNext ==
  \/ Freeze \/ Thaw \/ Settle
  \/ \E u \in Users : Join(u) \/ Leave(u) \/ Pay(u)

EscrowSpec == EscrowInit /\ [][EscrowNext]_escrow

=============================================================================
