------------------------------ MODULE Counting ------------------------------
(* The sum of a function with natural values over a finite set, as the     *)
(* number of its units: one pair for each unit of each value.  So defined, *)
(* facts about sums follow from facts about cardinalities.  Redis lists    *)
(* and event queues whose order does not matter, as bags.                  *)
EXTENDS Integers, Sequences, FiniteSets, Bags

Units(f, S) == UNION {{x} \X (1..f[x]) : x \in S}

SumOf(f, S) == Cardinality(Units(f, S))

\* An entry, pushed with (+) and removed by LREM with (-): one equal copy, if any.
One(x) == SetToBag({x})

\* How many copies of x the list has.
Copies(x, bag) == IF BagIn(x, bag) THEN bag[x] ELSE 0

\* The entries of a list at some positions, in their order.
Sublist(list, at) ==
  LET upTo[n \in 0..Len(list)] ==
        IF n = 0 THEN <<>> ELSE IF n \in at THEN Append(upTo[n - 1], list[n]) ELSE upTo[n - 1]
  IN  upTo[Len(list)]

=============================================================================
