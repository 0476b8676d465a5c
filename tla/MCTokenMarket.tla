--------------------------- MODULE MCTokenMarket ---------------------------
(* Instances of HokusaiAMM, with the TokenManager behind it, for TLC.      *)
EXTENDS HokusaiAMM

CONSTANTS m1, u1

Policy(enabled, bps, cliff, duration, rate) ==
  [enabled |-> enabled, immediateUnlockBps |-> bps, cliff |-> cliff,
   duration |-> duration, tokensPerDeltaOne |-> rate]

\* Half vests over two time units with a cliff of one, and nothing vests.
VestingOrNot == {Policy(TRUE, 5000, 1, 2, 4), Policy(FALSE, 10000, 0, 0, 4)}

=============================================================================
