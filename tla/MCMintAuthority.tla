--------------------------- MODULE MCMintAuthority ---------------------------
(* Instances of MintAuthority for TLC.                                       *)
EXTENDS MintAuthority, TLC

CONSTANTS m1, k1, k2, k3, c1, c2, c3, w1

Request(key, baseline, candidate, delta, actual, deadline) ==
  [key |-> key, model |-> m1, baseline |-> baseline, candidate |-> candidate,
   baselineScore |-> 5000, candidateScore |-> 5000 + delta,
   maxCost |-> 2, actualCost |-> actual, deadline |-> deadline,
   wellFormed |-> TRUE]

\* Two requests that race for the head c1, a third that builds on the first
\* one's candidate but reuses its key, one that goes back to c1, and two under
\* used keys that do not pay: no improvement, and a cost violation.
LineageRequests ==
  {Request(k1, c1, c2, 100, 1, 9), Request(k2, c1, c3, 200, 1, 9),
   Request(k1, c2, c3, 100, 1, 9), Request(k3, c2, c1, 100, 1, 9),
   Request(k2, c1, c2, 0, 1, 9), Request(k3, c1, c2, 100, 3, 1)}

\* Two requests, one that pays and one that does not.
AttestedRequests == {Request(k1, c1, c2, 100, 1, 9), Request(k2, c1, c2, 0, 1, 9)}

OneSigns == [r \in Requests |-> {1}]

\* Both accounts sign what pays, one of them what does not.
PayersSignedTwice ==
  [r \in Requests |-> IF r.candidateScore > r.baselineScore THEN {1, 2} ELSE {1}]

=============================================================================
