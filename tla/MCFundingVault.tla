--------------------------- MODULE MCFundingVault ---------------------------
(* An instance of FundingVault for TLC: a proposal large enough for shares *)
(* that round, and a second one that shares the vault's balance with it.   *)
EXTENDS FundingVault, TLC

CONSTANTS m1, m2

Bounds == [m \in Models |-> IF m = m1 THEN 3 ELSE 1]

=============================================================================
