-------------------------- MODULE CountingTheorems --------------------------
(* Theorems about sums as numbers of units, and about adding one entry to  *)
(* a bag and removing one.                                                 *)
EXTENDS Counting, FiniteSetTheorems, SequenceTheorems, WellFoundedInduction, TLAPS

\* The units of one value are as many as the value.
LEMMA OneValue ==
  ASSUME NEW x, NEW n \in Nat
  PROVE  IsFiniteSet({x} \X (1..n)) /\ Cardinality({x} \X (1..n)) = n
<1>1. IsFiniteSet({x}) /\ Cardinality({x}) = 1
  BY FS_Singleton
<1>2. IsFiniteSet(1..n) /\ Cardinality(1..n) = n
  BY FS_Interval
<1>3. /\ IsFiniteSet({x} \X (1..n))
      /\ Cardinality({x} \X (1..n)) = Cardinality({x}) * Cardinality(1..n)
  BY <1>1, <1>2, FS_Product
<1> QED BY <1>1, <1>2, <1>3

\* A sum of finitely many naturals has finitely many units.
THEOREM SumType ==
  ASSUME NEW S, IsFiniteSet(S), NEW f, \A x \in S : f[x] \in Nat
  PROVE  IsFiniteSet(Units(f, S)) /\ SumOf(f, S) \in Nat
<1> DEFINE units == [x \in S |-> {x} \X (1..f[x])]
           parts == {{x} \X (1..f[x]) : x \in S}
<1>1. units \in Surjection(S, parts)
  BY DEF Surjection
<1>2. IsFiniteSet(parts)
  BY <1>1, FS_Surjection
<1>3. \A T \in parts : IsFiniteSet(T)
  <2>1. \A x \in S : IsFiniteSet({x} \X (1..f[x]))
    BY OneValue
  <2> QED BY <2>1
<1>4. IsFiniteSet(Units(f, S))
  BY <1>2, <1>3, FS_UNION DEF Units
<1> QED BY <1>4, FS_CardinalityType DEF SumOf

\* A sum depends on the function's values in the set only.
THEOREM SumSame ==
  ASSUME NEW S, NEW f, NEW g, \A x \in S : f[x] = g[x]
  PROVE  SumOf(f, S) = SumOf(g, S)
<1>1. {{x} \X (1..f[x]) : x \in S} = {{x} \X (1..g[x]) : x \in S}
  OBVIOUS
<1> QED BY <1>1 DEF SumOf, Units

\* One value can be taken out of the sum.
THEOREM SumSplit ==
  ASSUME NEW S, IsFiniteSet(S), NEW f, \A x \in S : f[x] \in Nat, NEW u \in S
  PROVE  SumOf(f, S) = SumOf(f, S \ {u}) + f[u]
<1> DEFINE rest == Units(f, S \ {u})
           one == {u} \X (1..f[u])
<1>1. Units(f, S) = rest \union one
  BY DEF Units
<1>2. rest \intersect one = {}
  BY DEF Units
<1>3. IsFiniteSet(S \ {u})
  BY FS_RemoveElement
<1>4. IsFiniteSet(rest) /\ Cardinality(rest) \in Nat
  BY <1>3, SumType DEF SumOf
<1>5. IsFiniteSet(one) /\ Cardinality(one) = f[u] /\ f[u] \in Nat
  BY OneValue
<1>6. Cardinality(rest \intersect one) = 0
  BY <1>2, FS_EmptySet
<1> HIDE DEF rest, one
<1>7. Cardinality(rest \union one) = Cardinality(rest) + Cardinality(one) - 0
  BY <1>4, <1>5, <1>6, FS_Union
<1> QED BY <1>1, <1>4, <1>5, <1>7 DEF SumOf, rest

\* A sum of zeros is zero.
THEOREM SumZero ==
  ASSUME NEW S, NEW f, \A x \in S : f[x] = 0
  PROVE  SumOf(f, S) = 0
<1>1. Units(f, S) = {}
  BY DEF Units
<1> QED BY <1>1, FS_EmptySet DEF SumOf

\* Changing one value changes the sum by the difference.
THEOREM SumChange ==
  ASSUME NEW S, IsFiniteSet(S), NEW u \in S,
         NEW f, \A x \in S : f[x] \in Nat,
         NEW g, \A x \in S : g[x] \in Nat,
         \A x \in S \ {u} : g[x] = f[x]
  PROVE  SumOf(g, S) = SumOf(f, S) - f[u] + g[u]
<1>1. SumOf(f, S) = SumOf(f, S \ {u}) + f[u]
  BY SumSplit
<1>2. SumOf(g, S) = SumOf(g, S \ {u}) + g[u]
  BY SumSplit
<1>3. SumOf(g, S \ {u}) = SumOf(f, S \ {u})
  BY SumSame
<1>4. IsFiniteSet(S \ {u})
  BY FS_RemoveElement
<1>5. SumOf(f, S \ {u}) \in Nat
  BY <1>4, SumType
<1> QED BY <1>1, <1>2, <1>3, <1>5

\* No value exceeds the sum.
THEOREM SumBounds ==
  ASSUME NEW S, IsFiniteSet(S), NEW f, \A x \in S : f[x] \in Nat, NEW u \in S
  PROVE  f[u] <= SumOf(f, S)
<1>1. SumOf(f, S) = SumOf(f, S \ {u}) + f[u]
  BY SumSplit
<1>2. IsFiniteSet(S \ {u})
  BY FS_RemoveElement
<1>3. SumOf(f, S \ {u}) \in Nat
  BY <1>2, SumType
<1> QED BY <1>1, <1>3

\* Values of zero can be left out of the sum.
THEOREM SumSupport ==
  ASSUME NEW S, NEW R, R \subseteq S, NEW f, \A x \in S \ R : f[x] = 0
  PROVE  SumOf(f, S) = SumOf(f, R)
<1>1. ASSUME NEW p \in Units(f, S)
      PROVE  p \in Units(f, R)
  <2>1. PICK x \in S : p \in {x} \X (1..f[x])
    BY DEF Units
  <2>2. x \in R
    BY <2>1
  <2> QED BY <2>1, <2>2 DEF Units
<1>2. Units(f, R) \subseteq Units(f, S)
  BY DEF Units
<1>3. Units(f, S) = Units(f, R)
  BY <1>1, <1>2
<1> QED BY <1>3 DEF SumOf

\* The sum over two sets without a common element.
THEOREM SumUnion ==
  ASSUME NEW S, IsFiniteSet(S), NEW T, IsFiniteSet(T), S \intersect T = {},
         NEW f, \A x \in S \union T : f[x] \in Nat
  PROVE  SumOf(f, S \union T) = SumOf(f, S) + SumOf(f, T)
<1>1. Units(f, S \union T) = Units(f, S) \union Units(f, T)
  BY DEF Units
<1>2. Units(f, S) \intersect Units(f, T) = {}
  BY DEF Units
<1>3. IsFiniteSet(Units(f, S)) /\ IsFiniteSet(Units(f, T)) /\ SumOf(f, S) \in Nat /\ SumOf(f, T) \in Nat
  BY SumType
<1>4. Cardinality(Units(f, S) \union Units(f, T))
        = SumOf(f, S) + SumOf(f, T) - Cardinality(Units(f, S) \intersect Units(f, T))
  BY <1>3, FS_Union DEF SumOf
<1>5. SumOf(f, S \union T) = SumOf(f, S) + SumOf(f, T) - 0
  BY <1>1, <1>2, <1>4, FS_EmptySet DEF SumOf
<1> QED BY <1>3, <1>5

\* The ids in S are those in B, counted on from n, and have the same values.
CountedOn(n, S, f, B, g) ==
  /\ n \in Nat /\ B \subseteq Nat
  /\ \A x : x \in S <=> \E i \in B : x = n + i
  /\ \A i \in B : g[i] \in Nat /\ f[n + i] = g[i]

\* The sum over ids that are counted on from another.
THEOREM SumShifted ==
  ASSUME NEW n, NEW S, NEW f, NEW B, IsFiniteSet(B), NEW g, CountedOn(n, S, f, B, g)
  PROVE  SumOf(f, S) = SumOf(g, B)
<1> USE DEF CountedOn
<1> DEFINE shift == [p \in Units(g, B) |-> <<n + p[1], p[2]>>]
<1>1. \A p : p \in Units(g, B) <=> \E i \in B : \E u \in 1..g[i] : p = <<i, u>>
  BY DEF Units
<1>2. \A p : p \in Units(f, S) <=> \E i \in B : \E u \in 1..g[i] : p = <<n + i, u>>
  BY DEF Units
<1>3. shift \in [Units(g, B) -> Units(f, S)]
  BY <1>1, <1>2
<1>4. \A p \in Units(f, S) : \E q \in Units(g, B) : shift[q] = p
  <2> SUFFICES ASSUME NEW p \in Units(f, S) PROVE \E q \in Units(g, B) : shift[q] = p
    OBVIOUS
  <2>1. PICK i \in B : \E u \in 1..g[i] : p = <<n + i, u>>
    BY <1>2
  <2>2. PICK u \in 1..g[i] : p = <<n + i, u>>
    BY <2>1
  <2>3. <<i, u>> \in Units(g, B)
    BY <1>1
  <2>4. shift[<<i, u>>] = <<n + i, u>>
    BY <2>3
  <2> QED BY <2>2, <2>3, <2>4
<1>5. \A p, q \in Units(g, B) : shift[p] = shift[q] => p = q
  <2> SUFFICES ASSUME NEW p \in Units(g, B), NEW q \in Units(g, B), shift[p] = shift[q]
               PROVE  p = q
    OBVIOUS
  <2>1. p = <<p[1], p[2]>> /\ p[1] \in Nat /\ q = <<q[1], q[2]>> /\ q[1] \in Nat
    BY <1>1
  <2>2. n + p[1] = n + q[1] /\ p[2] = q[2]
    OBVIOUS
  <2>3. p[1] = q[1]
    BY <2>1, <2>2
  <2> QED BY <2>1, <2>2, <2>3
<1>6. shift \in Bijection(Units(g, B), Units(f, S))
  BY <1>3, <1>4, <1>5 DEF Bijection, Injection, Surjection, IsInjective
<1>7. IsFiniteSet(Units(g, B))
  BY SumType
<1> QED BY <1>6, <1>7, FS_Bijection DEF ExistsBijection, SumOf

\* What is added to two values is added to the sum.
THEOREM TwoAdded ==
  ASSUME NEW S, IsFiniteSet(S), NEW x \in S, NEW y \in S, NEW a \in Nat, NEW b \in Nat,
         NEW f, \A m \in S : f[m] \in Nat,
         NEW g, \A m \in S : g[m] = f[m] + ((IF m = x THEN a ELSE 0) + (IF m = y THEN b ELSE 0))
  PROVE  SumOf(g, S) = SumOf(f, S) + (a + b)
<1> DEFINE h == [m \in S |-> f[m] + IF m = x THEN a ELSE 0]
<1>1. \A m \in S : h[m] \in Nat /\ (m # x => h[m] = f[m])
  OBVIOUS
<1>2. h[x] = f[x] + a
  OBVIOUS
<1>3. \A m \in S : g[m] \in Nat /\ (m # y => g[m] = h[m])
  OBVIOUS
<1>4. g[y] = h[y] + b
  OBVIOUS
<1> HIDE DEF h
<1>5. SumOf(h, S) = SumOf(f, S) - f[x] + h[x]
  BY <1>1, SumChange
<1>6. SumOf(g, S) = SumOf(h, S) - h[y] + g[y]
  BY <1>1, <1>3, SumChange
<1>7. SumOf(f, S) \in Nat /\ SumOf(h, S) \in Nat /\ f[x] \in Nat /\ h[y] \in Nat
  BY <1>1, SumType
<1> QED BY <1>2, <1>4, <1>5, <1>6, <1>7

\* A set of naturals that is not empty has a least element.
LEMMA LeastNatural ==
  ASSUME NEW T \in SUBSET Nat, T # {}
  PROVE  \E x \in T : \A y \in T : x <= y
<1>1. PICK x \in T : \A y \in T : ~ (<<y, x>> \in OpToRel(<, Nat))
  BY WFMin, NatLessThanWellFounded
<1>2. \A y \in T : ~ (y < x)
  BY <1>1 DEF OpToRel
<1> QED BY <1>2

\* One term more on both sides of an inequality between scaled sums.
LEMMA OneTermMore ==
  ASSUME NEW a \in Nat, NEW b \in Nat, NEW c \in Int, NEW n \in Nat,
         NEW F \in Nat, NEW G \in Nat, NEW x \in Nat, NEW y \in Nat,
         b * F + c * n <= a * G, b * x + c <= a * y
  PROVE  b * (F + x) + c * (n + 1) <= a * (G + y)
<1>1. b * (F + x) = b * F + b * x
  OBVIOUS
<1>2. c * (n + 1) = c * n + c
  OBVIOUS
<1>3. a * (G + y) = a * G + a * y
  OBVIOUS
<1>4. b * F \in Int /\ b * x \in Int /\ c * n \in Int /\ a * G \in Int /\ a * y \in Int
  OBVIOUS
<1> DEFINE bF == b * F  bx == b * x  cn == c * n  aG == a * G  ay == a * y
<1>5. bF + cn <= aG /\ bx + c <= ay
  OBVIOUS
<1> HIDE DEF bF, bx, cn, aG, ay
<1>6. (bF + bx) + (cn + c) <= aG + ay
  BY <1>4, <1>5 DEF bF, bx, cn, aG, ay
<1> QED BY <1>1, <1>2, <1>3, <1>6 DEF bF, bx, cn, aG, ay

\* An inequality between the terms of two sums, scaled and with a constant, holds
\* of the sums, with as many constants as there are terms.
THEOREM SumScaled ==
  ASSUME NEW U, IsFiniteSet(U), NEW a \in Nat, NEW b \in Nat, NEW c \in Int,
         NEW f, \A x \in U : f[x] \in Nat,
         NEW g, \A x \in U : g[x] \in Nat,
         \A x \in U : b * f[x] + c <= a * g[x]
  PROVE  b * SumOf(f, U) + c * Cardinality(U) <= a * SumOf(g, U)
<1> DEFINE Holds(S) == b * SumOf(f, S) + c * Cardinality(S) <= a * SumOf(g, S)
           failing == {n \in Nat : \E S \in SUBSET U : Cardinality(S) = n /\ ~Holds(S)}
<1>1. failing = {}
  <2> SUFFICES ASSUME failing # {} PROVE FALSE
    OBVIOUS
  <2>1. PICK n \in failing : \A k \in failing : n <= k
    <3>1. failing \in SUBSET Nat
      OBVIOUS
    <3> HIDE DEF failing
    <3> QED BY <3>1, LeastNatural
  <2>2. PICK S \in SUBSET U : Cardinality(S) = n /\ ~Holds(S)
    BY <2>1
  <2>3. IsFiniteSet(S) /\ n \in Nat
    BY <2>1, FS_Subset
  <2>4. S # {}
    <3>1. SumOf(f, {}) = 0 /\ SumOf(g, {}) = 0 /\ Cardinality({}) = 0
      BY SumZero, FS_EmptySet
    <3>2. b * 0 + c * 0 <= a * 0
      OBVIOUS
    <3>3. Holds({})
      BY <3>1, <3>2
    <3> QED BY <2>2, <3>3
  <2>5. PICK u \in S : TRUE
    BY <2>4
  <2> DEFINE R == S \ {u}
  <2>6. IsFiniteSet(R) /\ Cardinality(R) = n - 1 /\ Cardinality(R) \in Nat
    BY <2>2, <2>3, FS_RemoveElement, FS_CardinalityType
  <2>7. Holds(R)
    <3>1. Cardinality(R) \notin failing
      <4> HIDE DEF failing, R
      <4> QED BY <2>1, <2>3, <2>6
    <3> QED BY <2>6, <3>1
  <2>8. SumOf(f, S) = SumOf(f, R) + f[u] /\ SumOf(g, S) = SumOf(g, R) + g[u]
    BY <2>3, SumSplit
  <2>9. SumOf(f, R) \in Nat /\ SumOf(g, R) \in Nat
    BY <2>6, SumType
  <2>10. f[u] \in Nat /\ g[u] \in Nat /\ b * f[u] + c <= a * g[u]
    OBVIOUS
  <2> HIDE DEF R
  <2>11. b * (SumOf(f, R) + f[u]) + c * (Cardinality(R) + 1) <= a * (SumOf(g, R) + g[u])
    BY <2>6, <2>7, <2>9, <2>10, OneTermMore
  <2>12. Cardinality(R) + 1 = Cardinality(S)
    BY <2>2, <2>3, <2>6
  <2> QED BY <2>2, <2>8, <2>11, <2>12
<1>2. Cardinality(U) \in Nat
  BY FS_CardinalityType
<1> QED BY <1>1, <1>2

\* The same inequality without a constant.
COROLLARY SumScaledBelow ==
  ASSUME NEW U, IsFiniteSet(U), NEW a \in Nat, NEW b \in Nat,
         NEW f, \A x \in U : f[x] \in Nat,
         NEW g, \A x \in U : g[x] \in Nat,
         \A x \in U : b * f[x] <= a * g[x]
  PROVE  b * SumOf(f, U) <= a * SumOf(g, U)
<1> DEFINE c == 0
<1>1. c \in Int /\ c = 0
  OBVIOUS
<1>2. SumOf(f, U) \in Nat /\ Cardinality(U) \in Nat
  BY SumType, FS_CardinalityType
<1>3. \A x \in U : b * f[x] \in Int
  OBVIOUS
<1> HIDE DEF c
<1>4. \A x \in U : b * f[x] + c <= a * g[x]
  BY <1>1, <1>3
<1>5. b * SumOf(f, U) + c * Cardinality(U) <= a * SumOf(g, U)
  BY <1>1, <1>4, SumScaled
<1>6. c * Cardinality(U) = 0 /\ b * SumOf(f, U) \in Int
  BY <1>1, <1>2
<1> QED BY <1>5, <1>6

-----------------------------------------------------------------------------

\* An empty list has no copy of anything.
THEOREM EmptyCopies == IsABag(EmptyBag) /\ \A x : Copies(x, EmptyBag) = 0
BY DEF IsABag, EmptyBag, SetToBag, Copies, BagIn, BagToSet

\* A list has a number of copies of each of its entries, and none of the others.
THEOREM CopiesType ==
  ASSUME NEW bag, IsABag(bag), NEW x
  PROVE  /\ Copies(x, bag) \in Nat
         /\ x \in BagToSet(bag) <=> Copies(x, bag) > 0
BY DEF IsABag, Copies, BagIn, BagToSet

\* A push adds one copy of its entry and leaves the others alone.
THEOREM CopiesPushed ==
  ASSUME NEW bag, IsABag(bag), NEW y
  PROVE  /\ IsABag(bag (+) One(y))
         /\ BagToSet(bag (+) One(y)) = BagToSet(bag) \union {y}
         /\ Copies(y, bag (+) One(y)) = Copies(y, bag) + 1
         /\ \A x : x # y => Copies(x, bag (+) One(y)) = Copies(x, bag)
<1> DEFINE new == bag (+) One(y)
<1>1. /\ DOMAIN new = DOMAIN bag \union {y}
      /\ new = [e \in DOMAIN bag \union {y} |->
                  (IF e \in DOMAIN bag THEN bag[e] ELSE 0) + (IF e = y THEN 1 ELSE 0)]
  BY DEF (+), One, SetToBag
<1>2. \A e \in DOMAIN bag : bag[e] \in Nat /\ bag[e] > 0
  BY DEF IsABag
<1> HIDE DEF new
<1>3. IsABag(new)
  BY <1>1, <1>2 DEF IsABag
<1>4. Copies(y, new) = Copies(y, bag) + 1
  BY <1>1, <1>2 DEF Copies, BagIn, BagToSet
<1>5. ASSUME NEW x, x # y PROVE Copies(x, new) = Copies(x, bag)
  BY <1>1, <1>2, <1>5 DEF Copies, BagIn, BagToSet
<1> QED BY <1>1, <1>3, <1>4, <1>5 DEF new, BagToSet

\* A removal takes one copy of its entry, if there is one.
THEOREM CopiesRemoved ==
  ASSUME NEW bag, IsABag(bag), NEW y
  PROVE  /\ IsABag(bag (-) One(y))
         /\ BagToSet(bag (-) One(y)) \subseteq BagToSet(bag)
         /\ Copies(y, bag (-) One(y))
              = IF Copies(y, bag) = 0 THEN 0 ELSE Copies(y, bag) - 1
         /\ \A x : x # y => Copies(x, bag (-) One(y)) = Copies(x, bag)
<1> DEFINE left == [e \in DOMAIN bag |-> IF e = y THEN bag[e] - 1 ELSE bag[e]]
           new == bag (-) One(y)
<1>1. new = [e \in {d \in DOMAIN left : left[d] > 0} |-> left[e]]
  BY DEF (-), One, SetToBag
<1>2. \A e \in DOMAIN bag : bag[e] \in Nat /\ bag[e] > 0
  BY DEF IsABag
<1> HIDE DEF new
<1>3. IsABag(new)
  BY <1>1, <1>2 DEF IsABag
<1>4. Copies(y, new) = IF Copies(y, bag) = 0 THEN 0 ELSE Copies(y, bag) - 1
  BY <1>1, <1>2 DEF Copies, BagIn, BagToSet
<1>5. ASSUME NEW x, x # y PROVE Copies(x, new) = Copies(x, bag)
  BY <1>1, <1>2, <1>5 DEF Copies, BagIn, BagToSet
<1>6. BagToSet(new) \subseteq BagToSet(bag)
  BY <1>1 DEF BagToSet
<1> QED BY <1>3, <1>4, <1>5, <1>6 DEF new

-----------------------------------------------------------------------------
(* Sublists.                                                               *)

\* What a recursive definition of sublists comes to after n entries.
UpTo(f, list, at, n) ==
  /\ DOMAIN f = 0..n
  /\ f[0] = <<>>
  /\ \A i \in 1..n : f[i] = IF i \in at THEN Append(f[i - 1], list[i]) ELSE f[i - 1]

LEMMA UpToExists ==
  ASSUME NEW S, NEW s \in Seq(S), NEW at, NEW n \in 0..Len(s)
  PROVE  \E f : UpTo(f, s, at, n)
<1> DEFINE failing == {k \in Nat : k \in 0..Len(s) /\ ~ \E f : UpTo(f, s, at, k)}
<1>1. Len(s) \in Nat /\ DOMAIN s = 1..Len(s)
  OBVIOUS
<1>2. failing = {}
  <2> SUFFICES ASSUME failing # {} PROVE FALSE
    OBVIOUS
  <2>1. PICK k \in failing : \A j \in failing : k <= j
    <3>1. failing \in SUBSET Nat
      OBVIOUS
    <3> HIDE DEF failing
    <3> QED BY <3>1, LeastNatural
  <2>2. k \in Nat /\ k <= Len(s) /\ ~ \E f : UpTo(f, s, at, k)
    BY <1>1, <2>1
  <2>3. CASE k = 0
    <3>1. UpTo([i \in 0..0 |-> <<>>], s, at, 0)
      BY DEF UpTo
    <3> QED BY <2>2, <2>3, <3>1
  <2>4. CASE k # 0
    <3>1. k - 1 \in 0..Len(s) /\ k - 1 \in Nat /\ k - 1 < k
      BY <1>1, <2>2, <2>4
    <3>2. PICK f : UpTo(f, s, at, k - 1)
      <4>1. k - 1 \notin failing
        <5> HIDE DEF failing
        <5> QED BY <2>1, <2>2, <3>1
      <4> QED BY <3>1, <4>1
    <3> DEFINE next == IF k \in at THEN Append(f[k - 1], s[k]) ELSE f[k - 1]
               g == [i \in 0..k |-> IF i = k THEN next ELSE f[i]]
    <3>3. \A i \in 1..k : g[i] = IF i \in at THEN Append(g[i - 1], s[i]) ELSE g[i - 1]
      <4> TAKE i \in 1..k
      <4>1. CASE i = k
        <5>1. k - 1 \in 0..k /\ k - 1 # k /\ k \in 0..k
          BY <2>2, <3>1
        <5>2. g[k - 1] = f[k - 1] /\ g[k] = next
          BY <5>1, Zenon
        <5> QED BY <4>1, <5>2
      <4>2. CASE i # k
        <5>1. i \in 1..(k - 1) /\ i \in 0..k /\ i - 1 # k /\ i - 1 \in 0..k
          BY <2>2, <4>2
        <5>2. g[i] = f[i] /\ g[i - 1] = f[i - 1]
          BY <4>2, <5>1
        <5>3. f[i] = IF i \in at THEN Append(f[i - 1], s[i]) ELSE f[i - 1]
          BY <3>2, <5>1 DEF UpTo
        <5> HIDE DEF g
        <5> QED BY <5>2, <5>3
      <4> QED BY <4>1, <4>2
    <3>4. DOMAIN g = 0..k /\ g[0] = <<>>
      <4>1. 0 \in 0..k /\ f[0] = <<>>
        BY <2>2, <3>2 DEF UpTo
      <4> QED BY <2>4, <4>1
    <3>5. UpTo(g, s, at, k)
      BY <3>3, <3>4 DEF UpTo
    <3> QED BY <2>2, <3>5
  <2> QED BY <2>3, <2>4
<1>3. n \notin failing
  BY <1>2
<1> QED BY <1>1, <1>3

LEMMA SublistIs ==
  ASSUME NEW S, NEW s \in Seq(S), NEW at
  PROVE  \E f : UpTo(f, s, at, Len(s)) /\ Sublist(s, at) = f[Len(s)]
<1> DEFINE n == Len(s)
           Is(f) == f = [i \in 0..Len(s) |->
                           IF i = 0 THEN <<>>
                           ELSE IF i \in at THEN Append(f[i - 1], s[i]) ELSE f[i - 1]]
<1>1. n \in Nat /\ n \in 0..n
  OBVIOUS
<1>2. PICK f : UpTo(f, s, at, n)
  BY <1>1, UpToExists
<1> DEFINE g == [i \in 0..n |-> f[i]]
<1>3. Is(g)
  <2>1. \A i \in 0..n : g[i] = IF i = 0 THEN <<>>
                               ELSE IF i \in at THEN Append(g[i - 1], s[i]) ELSE g[i - 1]
    <3> TAKE i \in 0..n
    <3>1. i # 0 => i - 1 \in 0..n /\ i \in 1..n
      BY <1>1
    <3> QED BY <1>2, <3>1 DEF UpTo
  <2> HIDE DEF g
  <2>2. g = [i \in 0..n |-> g[i]]
    BY DEF g
  <2> QED BY <2>1, <2>2
<1> DEFINE h == CHOOSE x : Is(x)
<1>4. Is(h)
  <2> HIDE DEF Is
  <2> QED BY <1>3
<1>5. Sublist(s, at) = h[n]
  BY DEF Sublist
<1>6. UpTo(h, s, at, n)
  <2> HIDE DEF h
  <2>1. DOMAIN h = 0..n
    BY <1>4
  <2>2. ASSUME NEW i \in 0..n
        PROVE  h[i] = IF i = 0 THEN <<>> ELSE IF i \in at THEN Append(h[i - 1], s[i]) ELSE h[i - 1]
    BY <1>4, Zenon
  <2>3. 0 \in 0..n /\ \A i \in 1..n : i \in 0..n /\ i # 0
    BY <1>1
  <2> HIDE DEF Is
  <2> QED BY <2>1, <2>2, <2>3 DEF UpTo
<1> QED BY <1>5, <1>6

\* Where the entries of l come from in s: in order, from all of the positions.
ComesFrom(l, s, at, g) ==
  /\ g = [i \in DOMAIN l |-> g[i]]
  /\ \A i \in DOMAIN l : g[i] \in at /\ g[i] \in DOMAIN s /\ l[i] = s[g[i]]
  /\ \A i, j \in DOMAIN l : i < j => g[i] < g[j]
  /\ \A k \in DOMAIN s : k \in at => \E i \in DOMAIN l : g[i] = k

LEMMA OneEntryMore ==
  ASSUME NEW S, NEW s \in Seq(S), NEW at, NEW k \in Nat, k + 1 \in 1..Len(s),
         NEW l \in Seq(S), NEW g, ComesFrom(l, s, at \intersect (1..k), g),
         NEW r, r = IF k + 1 \in at THEN Append(l, s[k + 1]) ELSE l
  PROVE  r \in Seq(S) /\ \E h : ComesFrom(r, s, at \intersect (1..(k + 1)), h)
<1> DEFINE m == Append(l, s[k + 1])
           h == [i \in 1..(Len(l) + 1) |-> IF i = Len(l) + 1 THEN k + 1 ELSE g[i]]
<1>1. \A j \in 1..(k + 1) : j = k + 1 \/ j \in 1..k
  OBVIOUS
<1>2. \A j \in 1..k : j \in 1..(k + 1) /\ j < k + 1 /\ j \in Nat
  OBVIOUS
<1>3. k + 1 \in 1..(k + 1) /\ k + 1 \in DOMAIN s /\ s[k + 1] \in S
  OBVIOUS
<1>4. CASE k + 1 \notin at
  <2>1. at \intersect (1..(k + 1)) = at \intersect (1..k)
    BY <1>1, <1>2, <1>4
  <2> QED BY <1>4, <2>1
<1>5. CASE k + 1 \in at
  <2>1. /\ m \in Seq(S) /\ Len(l) \in Nat /\ DOMAIN l = 1..Len(l) /\ DOMAIN m = 1..(Len(l) + 1)
        /\ \A i \in 1..Len(l) : m[i] = l[i] /\ i # Len(l) + 1 /\ i \in 1..(Len(l) + 1) /\ i < Len(l) + 1
        /\ m[Len(l) + 1] = s[k + 1] /\ Len(l) + 1 \in 1..(Len(l) + 1)
        /\ \A i \in 1..(Len(l) + 1) : i = Len(l) + 1 \/ i \in 1..Len(l)
    BY <1>3
  <2>0. h = [i \in 1..(Len(l) + 1) |-> h[i]]
    OBVIOUS
  <2>2. DOMAIN h = 1..(Len(l) + 1) /\ h[Len(l) + 1] = k + 1 /\ \A i \in 1..Len(l) : h[i] = g[i]
    BY <2>1
  <2> HIDE DEF h, m
  <2> DEFINE top == Len(l) + 1
             was == at \intersect (1..k)
             now == at \intersect (1..(k + 1))
  <2>3. \A j : j \in now <=> j = k + 1 \/ j \in was
    BY <1>1, <1>2, <1>3, <1>5
  <2>4. \A i \in 1..Len(l) : g[i] \in was /\ g[i] \in DOMAIN s /\ l[i] = s[g[i]]
    BY <2>1, Zenon DEF ComesFrom
  <2>5. \A i \in 1..Len(l) : g[i] < k + 1
    BY <1>2, <2>4
  <2>6. /\ \A i, j \in 1..Len(l) : i < j => g[i] < g[j]
        /\ \A x \in DOMAIN s : x \in was => \E i \in 1..Len(l) : g[i] = x
    BY <2>1, Zenon DEF ComesFrom
  <2> HIDE DEF top, was, now
  <2>7. ASSUME NEW i \in 1..(Len(l) + 1)
        PROVE  h[i] \in now /\ h[i] \in DOMAIN s /\ m[i] = s[h[i]]
    <3>1. CASE i = Len(l) + 1
      <4>1. h[i] = k + 1 /\ m[i] = s[k + 1]
        BY <2>1, <2>2, <3>1
      <4> QED BY <1>3, <2>3, <4>1
    <3>2. CASE i \in 1..Len(l)
      <4>1. h[i] = g[i] /\ m[i] = l[i]
        BY <2>1, <2>2, <3>2
      <4> QED BY <2>3, <2>4, <3>2, <4>1
    <3> QED BY <2>1, <3>1, <3>2
  <2>8. ASSUME NEW i \in 1..(Len(l) + 1), NEW j \in 1..(Len(l) + 1), i < j
        PROVE  h[i] < h[j]
    <3>1. i \in 1..Len(l)
      BY <2>1, <2>8
    <3>2. CASE j = Len(l) + 1
      BY <2>2, <2>5, <3>1, <3>2
    <3>3. CASE j \in 1..Len(l)
      BY <2>2, <2>6, <2>8, <3>1, <3>3
    <3> QED BY <2>1, <3>2, <3>3
  <2>9. ASSUME NEW x \in DOMAIN s, x \in now
        PROVE  \E i \in 1..(Len(l) + 1) : h[i] = x
    <3>1. CASE x = k + 1
      BY <2>1, <2>2, <3>1
    <3>2. CASE x \in was
      <4>1. PICK i \in 1..Len(l) : g[i] = x
        BY <2>6, <3>2
      <4> QED BY <2>1, <2>2, <4>1
    <3> QED BY <2>3, <2>9, <3>1, <3>2
  <2>10. ComesFrom(m, s, now, h)
    BY <2>0, <2>1, <2>7, <2>8, <2>9 DEF ComesFrom
  <2> QED BY <1>5, <2>1, <2>10 DEF m, now
<1> QED BY <1>4, <1>5

\* The entries of a sublist are those at its positions, in order.
THEOREM SublistPlaces ==
  ASSUME NEW S, NEW s \in Seq(S), NEW at
  PROVE  Sublist(s, at) \in Seq(S) /\ \E g : ComesFrom(Sublist(s, at), s, at, g)
<1>1. PICK f : UpTo(f, s, at, Len(s)) /\ Sublist(s, at) = f[Len(s)]
  BY SublistIs
<1> DEFINE Good(k) == f[k] \in Seq(S) /\ \E g : ComesFrom(f[k], s, at \intersect (1..k), g)
           failing == {k \in Nat : k \in 0..Len(s) /\ ~Good(k)}
<1>2. Len(s) \in Nat /\ DOMAIN s = 1..Len(s)
  OBVIOUS
<1>3. failing = {}
  <2> SUFFICES ASSUME failing # {} PROVE FALSE
    OBVIOUS
  <2>1. PICK k \in failing : \A j \in failing : k <= j
    <3>1. failing \in SUBSET Nat
      OBVIOUS
    <3> HIDE DEF failing
    <3> QED BY <3>1, LeastNatural
  <2>2. k \in Nat /\ k \in 0..Len(s) /\ ~Good(k)
    BY <1>2, <2>1
  <2>3. CASE k = 0
    <3>1. f[0] = <<>> /\ <<>> \in Seq(S)
      BY <1>1 DEF UpTo
    <3>2. at \intersect (1..0) = {} /\ DOMAIN <<>> = {}
      OBVIOUS
    <3>3. ComesFrom(<<>>, s, {}, [i \in {} |-> i])
      BY <3>2 DEF ComesFrom
    <3> QED BY <2>2, <2>3, <3>1, <3>2, <3>3
  <2>4. CASE k # 0
    <3> DEFINE j == k - 1
    <3>1. j \in Nat /\ j \in 0..Len(s) /\ j < k /\ j + 1 = k /\ k \in 1..Len(s)
      BY <1>2, <2>2, <2>4
    <3>2. Good(j)
      <4>1. j \notin failing
        <5> HIDE DEF failing, j
        <5> QED BY <2>1, <2>2, <3>1
      <4> HIDE DEF Good
      <4> QED BY <3>1, <4>1
    <3>3. f[k] = IF k \in at THEN Append(f[k - 1], s[k]) ELSE f[k - 1]
      BY <1>1, <3>1 DEF UpTo
    <3>4. f[k] = IF j + 1 \in at THEN Append(f[j], s[j + 1]) ELSE f[j]
      BY <3>1, <3>3
    <3> HIDE DEF j
    <3>5. PICK g : ComesFrom(f[j], s, at \intersect (1..j), g)
      BY <3>2
    <3>6. f[k] \in Seq(S) /\ \E h : ComesFrom(f[k], s, at \intersect (1..(j + 1)), h)
      BY <3>1, <3>2, <3>4, <3>5, OneEntryMore
    <3> QED BY <2>2, <3>1, <3>6
  <2> QED BY <2>3, <2>4
<1>4. Good(Len(s))
  <2>1. Len(s) \in Nat /\ Len(s) \in 0..Len(s)
    BY <1>2
  <2> HIDE DEF Good
  <2> QED BY <1>3, <2>1
<1>5. PICK g : ComesFrom(f[Len(s)], s, at \intersect (1..Len(s)), g)
  BY <1>4
<1>6. ComesFrom(f[Len(s)], s, at, g)
  BY <1>2, <1>5, Zenon DEF ComesFrom
<1> QED BY <1>1, <1>4, <1>6

\* Values that are moved to other places by a bijection have the same sum.
THEOREM SumMoved ==
  ASSUME NEW A, IsFiniteSet(A), NEW B, NEW f, NEW e, NEW g,
         g \in [A -> B], \A x, y \in A : g[x] = g[y] => x = y, \A y \in B : \E x \in A : g[x] = y,
         \A x \in A : f[x] \in Nat /\ e[g[x]] = f[x]
  PROVE  SumOf(e, B) = SumOf(f, A)
<1> DEFINE move == [p \in Units(f, A) |-> <<g[p[1]], p[2]>>]
<1>1. \A p : p \in Units(f, A) <=> \E i \in A : \E u \in 1..f[i] : p = <<i, u>>
  BY DEF Units
<1>2. \A p : p \in Units(e, B) <=> \E i \in A : \E u \in 1..f[i] : p = <<g[i], u>>
  <2>1. ASSUME NEW p \in Units(e, B) PROVE \E i \in A : \E u \in 1..f[i] : p = <<g[i], u>>
    <3>1. PICK y \in B : p \in {y} \X (1..e[y])
      BY DEF Units
    <3>2. PICK i \in A : g[i] = y
      OBVIOUS
    <3>3. e[y] = f[i]
      BY <3>2
    <3> QED BY <3>1, <3>2, <3>3
  <2>2. ASSUME NEW i \in A, NEW u \in 1..f[i] PROVE <<g[i], u>> \in Units(e, B)
    <3>1. g[i] \in B /\ e[g[i]] = f[i]
      OBVIOUS
    <3>2. <<g[i], u>> \in {g[i]} \X (1..e[g[i]])
      BY <3>1
    <3> QED BY <3>1, <3>2 DEF Units
  <2> QED BY <2>1, <2>2
<1>3. move \in [Units(f, A) -> Units(e, B)]
  BY <1>1, <1>2
<1>4. \A p \in Units(e, B) : \E q \in Units(f, A) : move[q] = p
  <2> SUFFICES ASSUME NEW p \in Units(e, B) PROVE \E q \in Units(f, A) : move[q] = p
    OBVIOUS
  <2>1. PICK i \in A : \E u \in 1..f[i] : p = <<g[i], u>>
    BY <1>2
  <2>2. PICK u \in 1..f[i] : p = <<g[i], u>>
    BY <2>1
  <2>3. <<i, u>> \in Units(f, A)
    BY <1>1
  <2>4. move[<<i, u>>] = <<g[i], u>>
    BY <2>3
  <2> QED BY <2>2, <2>3, <2>4
<1>5. \A p, q \in Units(f, A) : move[p] = move[q] => p = q
  <2> SUFFICES ASSUME NEW p \in Units(f, A), NEW q \in Units(f, A), move[p] = move[q]
               PROVE  p = q
    OBVIOUS
  <2>1. p = <<p[1], p[2]>> /\ p[1] \in A /\ q = <<q[1], q[2]>> /\ q[1] \in A
    BY <1>1
  <2>2. g[p[1]] = g[q[1]] /\ p[2] = q[2]
    OBVIOUS
  <2>3. p[1] = q[1]
    BY <2>1, <2>2
  <2> QED BY <2>1, <2>2, <2>3
<1>6. move \in Bijection(Units(f, A), Units(e, B))
  BY <1>3, <1>4, <1>5 DEF Bijection, Injection, Surjection, IsInjective
<1>7. IsFiniteSet(Units(f, A))
  BY SumType
<1> QED BY <1>6, <1>7, FS_Bijection DEF ExistsBijection, SumOf

\* The positions of l are as many as those of s it comes from.
LEMMA PlacesMatch ==
  ASSUME NEW S, NEW l \in Seq(S), NEW s \in Seq(S), NEW at, NEW g, ComesFrom(l, s, at, g)
  PROVE  /\ g \in [DOMAIN l -> at \intersect DOMAIN s]
         /\ \A i, j \in DOMAIN l : g[i] = g[j] => i = j
         /\ \A k \in at \intersect DOMAIN s : \E i \in DOMAIN l : g[i] = k
<1>1. DOMAIN l \in SUBSET Nat /\ DOMAIN s \in SUBSET Nat
  OBVIOUS
<1>2. /\ g = [i \in DOMAIN l |-> g[i]]
      /\ \A i \in DOMAIN l : g[i] \in at /\ g[i] \in DOMAIN s
      /\ \A i, j \in DOMAIN l : i < j => g[i] < g[j]
      /\ \A k \in DOMAIN s : k \in at => \E i \in DOMAIN l : g[i] = k
  BY Zenon DEF ComesFrom
<1> DEFINE D == DOMAIN l
           E == at \intersect DOMAIN s
<1>3. g \in [D -> E]
  <2>1. \A i \in D : g[i] \in E
    BY <1>2
  <2> HIDE DEF E
  <2> QED BY <1>2, <2>1
<1>4. ASSUME NEW i \in D, NEW j \in D, g[i] = g[j] PROVE i = j
  <2>1. i \in Nat /\ j \in Nat /\ g[i] \in Nat
    BY <1>1, <1>2
  <2>2. ~ (i < j) /\ ~ (j < i)
    BY <1>2, <1>4, <2>1
  <2> QED BY <2>1, <2>2
<1> QED BY <1>2, <1>3, <1>4

\* The positions in at whose entries are in T.
PlacesIn(s, at, T) == {k \in DOMAIN s : k \in at /\ s[k] \in T}

\* A sublist has as many entries in T as there are at its positions.
THEOREM SublistCounts ==
  ASSUME NEW S, NEW s \in Seq(S), NEW at, NEW T
  PROVE  Cardinality(PlacesIn(Sublist(s, at), DOMAIN Sublist(s, at), T))
           = Cardinality(PlacesIn(s, at, T))
<1> DEFINE l == Sublist(s, at)
           A == {i \in DOMAIN l : l[i] \in T}
           B == {k \in DOMAIN s : k \in at /\ s[k] \in T}
<1>1. l \in Seq(S) /\ \E g : ComesFrom(l, s, at, g)
  BY SublistPlaces
<1> HIDE DEF l
<1>2. PICK g : ComesFrom(l, s, at, g)
  BY <1>1
<1>3. /\ g \in [DOMAIN l -> at \intersect DOMAIN s]
      /\ \A i, j \in DOMAIN l : g[i] = g[j] => i = j
      /\ \A k \in at \intersect DOMAIN s : \E i \in DOMAIN l : g[i] = k
  BY <1>1, <1>2, PlacesMatch
<1>4. \A i \in DOMAIN l : l[i] = s[g[i]]
  BY <1>2, Zenon DEF ComesFrom
<1> DEFINE h == [i \in A |-> g[i]]
<1>5. h \in [A -> B]
  BY <1>3, <1>4
<1>6. \A i, j \in A : h[i] = h[j] => i = j
  BY <1>3
<1>7. \A k \in B : \E i \in A : h[i] = k
  BY <1>3, <1>4
<1>8. h \in Bijection(A, B)
  <2> HIDE DEF A, B, h
  <2> QED BY <1>5, <1>6, <1>7 DEF Bijection, Injection, Surjection, IsInjective
<1>9. IsFiniteSet(A)
  <2>1. DOMAIN l = 1..Len(l) /\ Len(l) \in Nat
    BY <1>1
  <2>2. IsFiniteSet(DOMAIN l)
    BY <2>1, FS_Interval
  <2> QED BY <2>2, FS_Subset
<1> HIDE DEF A, B, h
<1>10. Cardinality(A) = Cardinality(B)
  BY <1>8, <1>9, FS_Bijection DEF ExistsBijection
<1> QED BY <1>10 DEF A, B, l, PlacesIn

\* The sum over the entries of a sublist is the sum over its positions.
THEOREM SublistSum ==
  ASSUME NEW S, NEW s \in Seq(S), NEW at, NEW f, NEW e,
         \A i \in DOMAIN Sublist(s, at) : f[i] \in Nat,
         \A k \in DOMAIN s : \A i \in DOMAIN Sublist(s, at) : s[k] = Sublist(s, at)[i] => e[k] = f[i]
  PROVE  SumOf(f, DOMAIN Sublist(s, at)) = SumOf(e, at \intersect DOMAIN s)
<1> DEFINE l == Sublist(s, at)
<1>1. l \in Seq(S) /\ \E g : ComesFrom(l, s, at, g)
  BY SublistPlaces
<1>a. /\ \A i \in DOMAIN l : f[i] \in Nat
      /\ \A k \in DOMAIN s : \A i \in DOMAIN l : s[k] = l[i] => e[k] = f[i]
  OBVIOUS
<1>2. SumOf(e, at \intersect DOMAIN s) = SumOf(f, DOMAIN l)
  <2> HIDE DEF l
  <2>1. PICK g : ComesFrom(l, s, at, g)
    BY <1>1
  <2>2. /\ g \in [DOMAIN l -> at \intersect DOMAIN s]
        /\ \A i, j \in DOMAIN l : g[i] = g[j] => i = j
        /\ \A k \in at \intersect DOMAIN s : \E i \in DOMAIN l : g[i] = k
    BY <1>1, <2>1, PlacesMatch
  <2>3. \A i \in DOMAIN l : l[i] = s[g[i]] /\ g[i] \in DOMAIN s
    BY <2>1, Zenon DEF ComesFrom
  <2>4. \A i \in DOMAIN l : f[i] \in Nat /\ e[g[i]] = f[i]
    BY <1>a, <2>3
  <2>5. DOMAIN l = 1..Len(l) /\ Len(l) \in Nat
    BY <1>1
  <2>6. IsFiniteSet(DOMAIN l)
    BY <2>5, FS_Interval
  <2> DEFINE A == DOMAIN l
             B == at \intersect DOMAIN s
  <2> HIDE DEF A, B
  <2>7. /\ g \in [A -> B] /\ IsFiniteSet(A)
        /\ \A x, y \in A : g[x] = g[y] => x = y
        /\ \A y \in B : \E x \in A : g[x] = y
        /\ \A x \in A : f[x] \in Nat /\ e[g[x]] = f[x]
    BY <2>2, <2>4, <2>6 DEF A, B
  <2> QED BY <2>7, SumMoved DEF A, B
<1> QED BY <1>2 DEF l

\* The entries of r are those of the list at some positions, one each.
Taken(r, list, at) ==
  \E g : /\ \A i \in DOMAIN r : r[i] = list[g[i]] /\ g[i] \in DOMAIN list /\ g[i] \in at
         /\ \A i, j \in DOMAIN r : g[i] = g[j] => i = j
         /\ \A k \in at \intersect DOMAIN list : \E i \in DOMAIN r : g[i] = k

LEMMA SublistTaken ==
  ASSUME NEW S, NEW list \in Seq(S), NEW at, NEW r, r = Sublist(list, at)
  PROVE  r \in Seq(S) /\ Taken(r, list, at)
<1>1. r \in Seq(S) /\ \E g : ComesFrom(r, list, at, g)
  BY SublistPlaces
<1>2. PICK g : ComesFrom(r, list, at, g)
  BY <1>1
<1>3. /\ g \in [DOMAIN r -> at \intersect DOMAIN list]
      /\ \A i, j \in DOMAIN r : g[i] = g[j] => i = j
      /\ \A k \in at \intersect DOMAIN list : \E i \in DOMAIN r : g[i] = k
  BY <1>1, <1>2, PlacesMatch
<1>4. \A i \in DOMAIN r : r[i] = list[g[i]] /\ g[i] \in DOMAIN list /\ g[i] \in at
  BY <1>2, Zenon DEF ComesFrom
<1> QED BY <1>1, <1>3, <1>4 DEF Taken

\* A sublist of a list without repetitions.
LEMMA SublistOnce ==
  ASSUME NEW S, NEW list \in Seq(S), \A i, j \in DOMAIN list : list[i] = list[j] => i = j, NEW at,
         NEW r, r = Sublist(list, at)
  PROVE  /\ r \in Seq(S)
         /\ \A i, j \in DOMAIN r : r[i] = r[j] => i = j
         /\ \A i \in DOMAIN r : \E k \in DOMAIN list : k \in at /\ r[i] = list[k]
         /\ \A k \in DOMAIN list : k \in at => \E i \in DOMAIN r : r[i] = list[k]
<1>1. r \in Seq(S) /\ Taken(r, list, at)
  BY SublistTaken
<1>2. PICK g : /\ \A i \in DOMAIN r : r[i] = list[g[i]] /\ g[i] \in DOMAIN list /\ g[i] \in at
               /\ \A i, j \in DOMAIN r : g[i] = g[j] => i = j
               /\ \A k \in at \intersect DOMAIN list : \E i \in DOMAIN r : g[i] = k
  BY <1>1 DEF Taken
<1>3. ASSUME NEW i \in DOMAIN r PROVE \E k \in DOMAIN list : k \in at /\ r[i] = list[k]
  BY <1>2
<1>5. ASSUME NEW i \in DOMAIN r, NEW j \in DOMAIN r, r[i] = r[j] PROVE i = j
  <2>1. list[g[i]] = list[g[j]] /\ g[i] \in DOMAIN list /\ g[j] \in DOMAIN list
    BY <1>2, <1>5
  <2>2. g[i] = g[j]
    BY <2>1
  <2> QED BY <1>2, <2>2
<1>6. ASSUME NEW k \in DOMAIN list, k \in at PROVE \E i \in DOMAIN r : r[i] = list[k]
  <2>1. PICK i \in DOMAIN r : g[i] = k
    BY <1>2, <1>6
  <2> QED BY <1>2, <2>1
<1> QED BY <1>1, <1>3, <1>5, <1>6

-----------------------------------------------------------------------------
(* Lists that keep their newest entries.                                   *)

\* s is the newest n entries of r, or all of them.
NewestOf(s, r, n) ==
  /\ Len(s) = IF Len(r) > n THEN n ELSE Len(r)
  /\ \A i \in 1..Len(s) : s[i] = r[Len(r) - Len(s) + i]

LEMMA NewestPushed ==
  ASSUME NEW S, NEW s \in Seq(S), NEW r \in Seq(S), NEW e \in S, NEW n \in Nat \ {0},
         NewestOf(s, r, n)
  PROVE  LET t == IF Len(s) < n THEN Append(s, e) ELSE Tail(Append(s, e))
         IN  t \in Seq(S) /\ NewestOf(t, Append(r, e), n)
<1> DEFINE a == Append(s, e)
           b == Append(r, e)
           k == Len(s)
           m == Len(r)
<1>1. /\ k \in Nat /\ m \in Nat /\ a \in Seq(S) /\ b \in Seq(S) /\ Len(a) = k + 1 /\ Len(b) = m + 1
      /\ a[k + 1] = e /\ b[m + 1] = e
      /\ \A i \in 1..k : a[i] = s[i]
      /\ \A i \in 1..m : b[i] = r[i]
  OBVIOUS
<1>2. k = (IF m > n THEN n ELSE m) /\ \A i \in 1..k : s[i] = r[m - k + i]
  BY DEF NewestOf
<1>3. k <= m /\ k <= n /\ \A i \in 1..k : m - k + i \in 1..m
  BY <1>1, <1>2
<1>4. \A i \in 1..(k + 1) : a[i] = b[m - k + i]
  <2> SUFFICES ASSUME NEW i \in 1..(k + 1) PROVE a[i] = b[m - k + i]
    OBVIOUS
  <2> HIDE DEF a, b, k, m
  <2>1. CASE i = k + 1
    <3>1. m - k + i = m + 1
      BY <1>1, <2>1
    <3> QED BY <1>1, <2>1, <3>1
  <2>2. CASE i # k + 1
    <3>1. i \in 1..k
      BY <1>1, <2>2
    <3>2. m - k + i \in 1..m
      BY <1>3, <3>1
    <3> QED BY <1>1, <1>2, <3>1, <3>2
  <2> QED BY <2>1, <2>2
<1>5. CASE k < n
  <2>1. k = m
    BY <1>1, <1>2, <1>5
  <2>2. NewestOf(a, b, n)
    <3> HIDE DEF a, b, k, m
    <3>1. Len(a) = IF Len(b) > n THEN n ELSE Len(b)
      BY <1>1, <1>5, <2>1
    <3>2. \A i \in 1..Len(a) : Len(b) - Len(a) + i = m - k + i
      BY <1>1
    <3> QED BY <1>1, <1>4, <3>1, <3>2 DEF NewestOf
  <2> QED BY <1>1, <1>5, <2>2
<1>6. CASE ~ (k < n)
  <2>1. k = n
    BY <1>1, <1>3, <1>6
  <2>2. a # <<>>
    BY <1>1
  <2>3. Tail(a) \in Seq(S) /\ Len(Tail(a)) = k /\ \A i \in 1..k : Tail(a)[i] = a[i + 1]
    <3> HIDE DEF a
    <3>1. Tail(a) \in Seq(S) /\ Len(Tail(a)) = Len(a) - 1
          /\ \A i \in 1..Len(Tail(a)) : Tail(a)[i] = a[i + 1]
      BY <1>1, <2>2, HeadTailProperties
    <3> QED BY <1>1, <3>1
  <2>4. NewestOf(Tail(a), b, n)
    <3> HIDE DEF a, b, k, m
    <3>1. Len(Tail(a)) = IF Len(b) > n THEN n ELSE Len(b)
      BY <1>1, <1>3, <2>1, <2>3
    <3>2. ASSUME NEW i \in 1..k PROVE Tail(a)[i] = b[Len(b) - k + i]
      <4>1. i + 1 \in 1..(k + 1) /\ m - k + (i + 1) = Len(b) - k + i
        BY <1>1
      <4> QED BY <1>4, <2>3, <4>1
    <3> QED BY <2>3, <3>1, <3>2 DEF NewestOf
  <2> QED BY <1>6, <2>3, <2>4
<1> QED BY <1>5, <1>6

LEMMA NewestIsSubSeq ==
  ASSUME NEW S, NEW s \in Seq(S), NEW r \in Seq(S), NEW n \in Nat \ {0}, NewestOf(s, r, n)
  PROVE  /\ s = SubSeq(r, (Len(r) - Len(s)) + 1, Len(r))
         /\ s = SubSeq(r, IF Len(r) > n THEN (Len(r) - n) + 1 ELSE 1, Len(r))
<1> DEFINE k == Len(s)
           m == Len(r)
           t == SubSeq(r, (m - k) + 1, m)
<1>1. k \in Nat /\ m \in Nat /\ k = (IF m > n THEN n ELSE m) /\ \A i \in 1..k : s[i] = r[m - k + i]
  BY DEF NewestOf
<1>2. \A i \in (m - k) + 1..m : r[i] \in S
  BY <1>1
<1>3. t \in Seq(S) /\ Len(t) = k /\ \A i \in 1..k : t[i] = r[m - k + i]
  <2>1. (m - k) + 1 \in Int /\ m \in Int
    BY <1>1
  <2>2. /\ t \in Seq(S)
        /\ Len(t) = IF (m - k) + 1 <= m THEN m - ((m - k) + 1) + 1 ELSE 0
        /\ \A i \in 1..m - ((m - k) + 1) + 1 : t[i] = r[(m - k) + 1 + i - 1]
    <3> HIDE DEF m, k
    <3> QED BY <1>2, <2>1, SubSeqProperties
  <2>3. m - ((m - k) + 1) + 1 = k /\ \A i \in 1..k : (m - k) + 1 + i - 1 = m - k + i
    BY <1>1
  <2>4. Len(t) = k
    <3> HIDE DEF t, m
    <3> QED BY <1>1, <2>2, <2>3
  <2> HIDE DEF t
  <2> QED BY <2>2, <2>3, <2>4
<1>4. s = t
  <2> HIDE DEF t
  <2> QED BY <1>1, <1>3, SeqEqual
<1>5. (IF m > n THEN (m - n) + 1 ELSE 1) = (m - k) + 1
  <2> HIDE DEF m, k
  <2> QED BY <1>1
<1> QED BY <1>4, <1>5

=============================================================================
