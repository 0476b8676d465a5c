----------------------------- MODULE MCMintRelay -----------------------------
(* Instances of MintRelay for TLC.                                           *)
EXTENDS MintRelay, TLC

CONSTANTS m1, k1, k2, c1, c2, c3, w1, w2

Request(key, baseline, candidate, deadline, ok) ==
  [key |-> key, model |-> m1, baseline |-> baseline, candidate |-> candidate,
   baselineScore |-> 5000, candidateScore |-> 5100,
   maxCost |-> 2, actualCost |-> 1, deadline |-> deadline, wellFormed |-> ok]

\* One key signed twice, over two deadlines, and a request that follows it.
ChainedRequests ==
  {Request(k1, c1, c2, 1, TRUE), Request(k1, c1, c2, 9, TRUE),
   Request(k2, c2, c1, 9, TRUE)}

MixedRequests == {Request(k1, c1, c2, 9, TRUE), Request(k2, c1, c2, 9, FALSE)}

Signers == [r \in Requests |-> {1}]
OneSignature == [r \in Requests |-> <<1>>]

\* The workers run the same loop.
Workmates == Permutations(Workers)

=============================================================================
