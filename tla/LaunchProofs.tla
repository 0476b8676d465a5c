----------------------------- MODULE LaunchProofs -----------------------------
(***************************************************************************)
(* What the order of the launch scripts guarantees, for any environments,  *)
(* configurations, models, failures and restarts.                          *)
(***************************************************************************)
EXTENDS LaunchConductor, CountingTheorems, SequenceTheorems

-----------------------------------------------------------------------------
(* Sequences that list sets, and sequences of sequences put together.      *)

\* Wherever b is in s, a is before it; b is in s at most once.
Precedes(s, a, b) == \A i \in DOMAIN s : s[i] = b => \E j \in DOMAIN s : j < i /\ s[j] = a
Once(s, b) == \A i, j \in DOMAIN s : s[i] = b /\ s[j] = b => i = j
Holds(s, a) == \E i \in DOMAIN s : s[i] = a

\* SetToSeq lists each member of a finite set once.
LEMMA Listed ==
  ASSUME NEW S, IsFiniteSet(S)
  PROVE  LET s == SetToSeq(S)
         IN  /\ s \in Seq(S) /\ DOMAIN s = 1..Cardinality(S)
             /\ \A x \in S : \E i \in DOMAIN s : s[i] = x
             /\ \A i, j \in DOMAIN s : s[i] = s[j] => i = j
<1> DEFINE n == Cardinality(S)
           s == SetToSeq(S)
<1>1. n \in Nat /\ IsFiniteSet(1..n) /\ Cardinality(1..n) = n
  BY FS_CardinalityType, FS_Interval
<1>2. \E f \in [1..n -> S] : IsInjective(f)
  <2>1. ExistsBijection(1..n, S)
    BY FS_CardinalityType
  <2> QED BY <2>1 DEF ExistsBijection, Bijection, Injection
<1>3. s \in [1..n -> S] /\ IsInjective(s)
  BY <1>2 DEF SetToSeq
<1> HIDE DEF s, n
<1>4. s \in Injection(1..n, S)
  BY <1>3 DEF Injection
<1>5. s \in Surjection(1..n, S)
  BY <1>1, <1>4, FS_Injection DEF n
<1>6. s \in Seq(S)
  BY <1>1, <1>3
<1>7. DOMAIN s = 1..n
  BY <1>3
<1>8. \A x \in S : \E i \in 1..n : s[i] = x
  BY <1>5 DEF Surjection
<1> QED BY <1>3, <1>6, <1>7, <1>8 DEF s, n, IsInjective

\* FlattenSeq puts the sequences together one after the other: f[i] is what the
\* first i of them come to.
Flattens(f, ss, n) ==
  /\ DOMAIN f = 1..n
  /\ \A i \in 1..n : f[i] = IF i = 1 THEN ss[i] ELSE f[i - 1] \o ss[i]

LEMMA FlattenExists ==
  ASSUME NEW T, NEW ss \in Seq(Seq(T)), NEW n \in 1..Len(ss)
  PROVE  \E f : Flattens(f, ss, n)
<1> DEFINE failing == {k \in Nat : k \in 1..Len(ss) /\ ~ \E f : Flattens(f, ss, k)}
<1>1. Len(ss) \in Nat /\ DOMAIN ss = 1..Len(ss)
  OBVIOUS
<1>2. failing = {}
  <2> SUFFICES ASSUME failing # {} PROVE FALSE
    OBVIOUS
  <2>1. PICK k \in failing : \A j \in failing : k <= j
    <3>1. failing \in SUBSET Nat
      OBVIOUS
    <3> HIDE DEF failing
    <3> QED BY <3>1, LeastNatural
  <2>2. k \in Nat /\ 1 <= k /\ k <= Len(ss) /\ ~ \E f : Flattens(f, ss, k)
    BY <1>1, <2>1
  <2>3. CASE k = 1
    <3>1. Flattens([i \in 1..1 |-> ss[i]], ss, 1)
      BY DEF Flattens
    <3> QED BY <2>2, <2>3, <3>1
  <2>4. CASE k # 1
    <3>1. k - 1 \in 1..Len(ss) /\ k - 1 \in Nat /\ k - 1 < k
      BY <1>1, <2>2, <2>4
    <3>2. PICK f : Flattens(f, ss, k - 1)
      <4>1. k - 1 \notin failing
        <5> HIDE DEF failing
        <5> QED BY <2>1, <2>2, <3>1
      <4> QED BY <3>1, <4>1
    <3> DEFINE g == [i \in 1..k |-> IF i = k THEN f[k - 1] \o ss[k] ELSE f[i]]
    <3>3. \A i \in 1..k : g[i] = IF i = 1 THEN ss[i] ELSE g[i - 1] \o ss[i]
      <4> TAKE i \in 1..k
      <4>1. CASE i = k
        <5>1. k - 1 \in 1..k /\ k - 1 # k /\ k \in 1..k
          BY <2>2, <3>1
        <5>2. g[k - 1] = f[k - 1] /\ g[k] = f[k - 1] \o ss[k]
          BY <5>1, Zenon
        <5> QED BY <2>4, <4>1, <5>2
      <4>2. CASE i # k
        <5>1. i \in 1..(k - 1) /\ i \in Nat /\ i - 1 # k /\ (i # 1 => i - 1 \in 1..k)
          BY <2>2, <4>2
        <5>2. g[i] = f[i] /\ (i # 1 => g[i - 1] = f[i - 1])
          BY <4>2, <5>1
        <5>3. f[i] = IF i = 1 THEN ss[i] ELSE f[i - 1] \o ss[i]
          BY <3>2, <5>1 DEF Flattens
        <5> HIDE DEF g
        <5> QED BY <5>2, <5>3
      <4> QED BY <4>1, <4>2
    <3>4. DOMAIN g = 1..k
      OBVIOUS
    <3>5. Flattens(g, ss, k)
      BY <3>3, <3>4 DEF Flattens
    <3> QED BY <2>2, <3>5
  <2> QED BY <2>3, <2>4
<1>3. n \notin failing
  BY <1>2
<1>4. n \in Nat
  BY <1>1
<1> QED BY <1>3, <1>4

LEMMA FlattenIs ==
  ASSUME NEW T, NEW ss \in Seq(Seq(T)), Len(ss) > 0
  PROVE  \E f : Flattens(f, ss, Len(ss)) /\ FlattenSeq(ss) = f[Len(ss)]
<1> DEFINE n == Len(ss)
           Is(f) == f = [i \in 1..Len(ss) |-> IF i = 1 THEN ss[i] ELSE f[i - 1] \o ss[i]]
<1>1. n \in Nat /\ n \in 1..n /\ n # 0
  OBVIOUS
<1>2. PICK f : Flattens(f, ss, n)
  BY <1>1, FlattenExists
<1> DEFINE g == [i \in 1..n |-> f[i]]
<1>3. Is(g)
  <2>1. \A i \in 1..n : g[i] = IF i = 1 THEN ss[i] ELSE g[i - 1] \o ss[i]
    <3> TAKE i \in 1..n
    <3>1. i # 1 => i - 1 \in 1..n
      BY <1>1
    <3> QED BY <1>2, <3>1 DEF Flattens
  <2> HIDE DEF g
  <2>2. g = [i \in 1..n |-> g[i]]
    BY DEF g
  <2> QED BY <2>1, <2>2
<1> DEFINE h == CHOOSE x : Is(x)
<1>4. Is(h)
  <2> HIDE DEF Is
  <2> QED BY <1>3
<1>5. FlattenSeq(ss) = h[n]
  BY <1>1 DEF FlattenSeq
<1>6. Flattens(h, ss, n)
  <2> HIDE DEF h
  <2>1. DOMAIN h = 1..n
    BY <1>4
  <2>2. ASSUME NEW i \in 1..n PROVE h[i] = IF i = 1 THEN ss[i] ELSE h[i - 1] \o ss[i]
    BY <1>4, Zenon
  <2> QED BY <2>1, <2>2 DEF Flattens
<1> QED BY <1>5, <1>6

\* Where in ss the elements of the flat sequence s come from: in order, and all
\* of them.
Places(s, ss, n, at, off) ==
  /\ DOMAIN at = DOMAIN s /\ DOMAIN off = DOMAIN s
  /\ \A i \in DOMAIN s : /\ at[i] \in 1..n /\ off[i] \in DOMAIN ss[at[i]]
                         /\ s[i] = ss[at[i]][off[i]]
  /\ \A i, j \in DOMAIN s : i < j => at[i] < at[j] \/ (at[i] = at[j] /\ off[i] < off[j])
  /\ \A k \in 1..n : \A o \in DOMAIN ss[k] : \E i \in DOMAIN s : at[i] = k /\ off[i] = o

LEMMA PlacesOne ==
  ASSUME NEW T, NEW ss \in Seq(Seq(T)), Len(ss) > 0
  PROVE  \E at, off : Places(ss[1], ss, 1, at, off)
<1> DEFINE s == ss[1]
           at == [i \in DOMAIN s |-> 1]
           off == [i \in DOMAIN s |-> i]
<1>1. s \in Seq(T) /\ DOMAIN s \in SUBSET Nat /\ 1 \in 1..1
  OBVIOUS
<1>2. DOMAIN at = DOMAIN s /\ DOMAIN off = DOMAIN s /\ \A i \in DOMAIN s : at[i] = 1 /\ off[i] = i
  OBVIOUS
<1>3. \A k \in 1..1 : k = 1
  OBVIOUS
<1> HIDE DEF at, off
<1>4. Places(s, ss, 1, at, off)
  BY <1>1, <1>2, <1>3 DEF Places
<1> QED BY <1>4

LEMMA PlacesMore ==
  ASSUME NEW T, NEW ss \in Seq(Seq(T)), NEW n \in Nat, n + 1 \in 1..Len(ss), 1 <= n,
         NEW s \in Seq(T), NEW at, NEW off, Places(s, ss, n, at, off)
  PROVE  \E x, y : Places(s \o ss[n + 1], ss, n + 1, x, y)
<1> DEFINE r == ss[n + 1]
           l == Len(s)
           t == s \o r
           x == [i \in 1..(l + Len(r)) |-> IF i <= l THEN at[i] ELSE n + 1]
           y == [i \in 1..(l + Len(r)) |-> IF i <= l THEN off[i] ELSE i - l]
<1>1. r \in Seq(T) /\ l \in Nat /\ Len(r) \in Nat /\ t \in Seq(T) /\ Len(t) = l + Len(r)
      /\ DOMAIN s = 1..l /\ DOMAIN r = 1..Len(r) /\ DOMAIN t = 1..(l + Len(r))
  OBVIOUS
<1>2. /\ \A i \in 1..l : t[i] = s[i]
      /\ \A i \in 1..(l + Len(r)) : i > l => t[i] = r[i - l]
  OBVIOUS
<1>3. DOMAIN x = DOMAIN t /\ DOMAIN y = DOMAIN t
  BY <1>1
<1>4. /\ \A i \in 1..(l + Len(r)) : i \in Nat
      /\ \A i \in 1..(l + Len(r)) : i <= l => i \in 1..l /\ x[i] = at[i] /\ y[i] = off[i]
      /\ \A i \in 1..(l + Len(r)) : i > l => i - l \in 1..Len(r) /\ x[i] = n + 1 /\ y[i] = i - l
  BY <1>1
<1>5. \A i \in 1..l : i \in 1..(l + Len(r)) /\ i <= l
  BY <1>1
<1>6. \A i \in 1..Len(r) : l + i \in 1..(l + Len(r)) /\ l + i > l /\ (l + i) - l = i
  BY <1>1
<1> HIDE DEF x, y, t, r, l
<1>7. /\ DOMAIN at = 1..l /\ DOMAIN off = 1..l
      /\ \A i \in 1..l : at[i] \in 1..n /\ off[i] \in DOMAIN ss[at[i]] /\ s[i] = ss[at[i]][off[i]]
      /\ \A i, j \in 1..l : i < j => at[i] < at[j] \/ (at[i] = at[j] /\ off[i] < off[j])
      /\ \A k \in 1..n : \A o \in DOMAIN ss[k] : \E i \in 1..l : at[i] = k /\ off[i] = o
  <2>1. DOMAIN s = 1..l
    BY <1>1
  <2> DEFINE D == DOMAIN s
  <2>2. /\ DOMAIN at = D /\ DOMAIN off = D
        /\ \A i \in D : at[i] \in 1..n /\ off[i] \in DOMAIN ss[at[i]] /\ s[i] = ss[at[i]][off[i]]
        /\ \A i, j \in D : i < j => at[i] < at[j] \/ (at[i] = at[j] /\ off[i] < off[j])
        /\ \A k \in 1..n : \A o \in DOMAIN ss[k] : \E i \in D : at[i] = k /\ off[i] = o
    BY Zenon DEF Places
  <2>3. D = 1..l
    BY <2>1
  <2> HIDE DEF D
  <2> QED BY <2>2, <2>3
<1>8. \A k \in 1..n : k \in 1..(n + 1) /\ k < n + 1
  OBVIOUS
<1>9. n + 1 \in 1..(n + 1) /\ \A k \in 1..(n + 1) : k = n + 1 \/ k \in 1..n
  OBVIOUS
<1>10. ASSUME NEW i \in 1..(l + Len(r))
       PROVE  x[i] \in 1..(n + 1) /\ y[i] \in DOMAIN ss[x[i]] /\ t[i] = ss[x[i]][y[i]]
  <2>1. CASE i <= l
    <3>1. i \in 1..l /\ x[i] = at[i] /\ y[i] = off[i] /\ t[i] = s[i]
      BY <1>2, <1>4, <2>1
    <3> QED BY <1>7, <1>8, <3>1
  <2>2. CASE i > l
    <3>1. i - l \in 1..Len(r) /\ x[i] = n + 1 /\ y[i] = i - l /\ t[i] = r[i - l]
      BY <1>2, <1>4, <2>2
    <3>2. ss[x[i]] = r
      BY <3>1 DEF r
    <3> QED BY <1>1, <1>9, <3>1, <3>2
  <2> QED BY <1>1, <1>4, <2>1, <2>2
<1>11. ASSUME NEW i \in 1..(l + Len(r)), NEW j \in 1..(l + Len(r)), i < j
       PROVE  x[i] < x[j] \/ (x[i] = x[j] /\ y[i] < y[j])
  <2>1. i \in Nat /\ j \in Nat
    BY <1>4
  <2>2. CASE j <= l
    <3>1. i <= l
      BY <1>1, <1>11, <2>1, <2>2
    <3>2. i \in 1..l /\ j \in 1..l /\ x[i] = at[i] /\ y[i] = off[i] /\ x[j] = at[j] /\ y[j] = off[j]
      BY <1>4, <2>2, <3>1
    <3> QED BY <1>7, <1>11, <3>2
  <2>3. CASE i <= l /\ j > l
    <3>1. i \in 1..l /\ x[i] = at[i] /\ x[j] = n + 1
      BY <1>4, <2>3
    <3> QED BY <1>7, <1>8, <3>1
  <2>4. CASE i > l /\ j > l
    <3>1. x[i] = n + 1 /\ x[j] = n + 1 /\ y[i] = i - l /\ y[j] = j - l
      BY <1>4, <2>4
    <3> QED BY <1>1, <1>11, <2>1, <3>1
  <2> QED BY <1>1, <1>11, <2>1, <2>2, <2>3, <2>4
<1>12. ASSUME NEW k \in 1..(n + 1), NEW o \in DOMAIN ss[k]
       PROVE  \E i \in 1..(l + Len(r)) : x[i] = k /\ y[i] = o
  <2>1. CASE k \in 1..n
    <3>1. PICK i \in 1..l : at[i] = k /\ off[i] = o
      BY <1>7, <2>1
    <3> QED BY <1>4, <1>5, <3>1
  <2>2. CASE k = n + 1
    <3>1. o \in 1..Len(r)
      BY <1>1, <2>2 DEF r
    <3>2. x[l + o] = n + 1 /\ y[l + o] = o
      BY <1>4, <1>6, <3>1
    <3> QED BY <1>6, <2>2, <3>1, <3>2
  <2> QED BY <1>9, <2>1, <2>2
<1>13. Places(t, ss, n + 1, x, y)
  <2> DEFINE D == DOMAIN t
  <2>1. D = 1..(l + Len(r))
    BY <1>1
  <2> HIDE DEF D
  <2>2. \A i \in D : x[i] \in 1..(n + 1) /\ y[i] \in DOMAIN ss[x[i]] /\ t[i] = ss[x[i]][y[i]]
    BY <2>1, <1>10
  <2>3. \A i, j \in D : i < j => x[i] < x[j] \/ (x[i] = x[j] /\ y[i] < y[j])
    BY <2>1, <1>11
  <2>4. \A k \in 1..(n + 1) : \A o \in DOMAIN ss[k] : \E i \in D : x[i] = k /\ y[i] = o
    BY <2>1, <1>12
  <2> QED BY <1>3, <2>2, <2>3, <2>4, Zenon DEF Places, D
<1> QED BY <1>13 DEF t, r

LEMMA FlattenPlaces ==
  ASSUME NEW T, NEW ss \in Seq(Seq(T)), Len(ss) > 0
  PROVE  /\ FlattenSeq(ss) \in Seq(T)
         /\ \E at, off : Places(FlattenSeq(ss), ss, Len(ss), at, off)
<1> DEFINE n == Len(ss)
<1>1. n \in Nat /\ n > 0 /\ n \in 1..n /\ 1 \in 1..n /\ DOMAIN ss = 1..n
  OBVIOUS
<1>2. PICK f : Flattens(f, ss, n) /\ FlattenSeq(ss) = f[n]
  BY FlattenIs
<1> DEFINE Good(k) == f[k] \in Seq(T) /\ \E at, off : Places(f[k], ss, k, at, off)
           failing == {k \in Nat : k \in 1..n /\ ~Good(k)}
<1>3. failing = {}
  <2> SUFFICES ASSUME failing # {} PROVE FALSE
    OBVIOUS
  <2>1. PICK k \in failing : \A j \in failing : k <= j
    <3>1. failing \in SUBSET Nat
      OBVIOUS
    <3> HIDE DEF failing
    <3> QED BY <3>1, LeastNatural
  <2>2. k \in Nat /\ 1 <= k /\ k <= n /\ k \in 1..n /\ ~Good(k)
    BY <1>1, <2>1
  <2>3. f[k] = IF k = 1 THEN ss[k] ELSE f[k - 1] \o ss[k]
    BY <1>2, <2>2 DEF Flattens
  <2>4. CASE k = 1
    <3>1. f[1] = ss[1]
      BY <2>3, <2>4
    <3>2. ss[1] \in Seq(T)
      BY <1>1
    <3>3. \E at, off : Places(ss[1], ss, 1, at, off)
      BY <1>1, PlacesOne
    <3> QED BY <2>2, <2>4, <3>1, <3>2, <3>3
  <2>5. CASE k # 1
    <3>1. k - 1 \in Nat /\ k - 1 \in 1..n /\ k - 1 < k /\ 1 <= k - 1 /\ (k - 1) + 1 = k
      BY <1>1, <2>2, <2>5
    <3>2. Good(k - 1)
      <4>1. k - 1 \notin failing
        <5> HIDE DEF failing
        <5> QED BY <2>1, <2>2, <3>1
      <4> HIDE DEF Good
      <4> QED BY <3>1, <4>1
    <3>3. PICK at, off : Places(f[k - 1], ss, k - 1, at, off)
      BY <3>2
    <3>4. f[k - 1] \in Seq(T)
      BY <3>2
    <3>5. f[k] = f[k - 1] \o ss[k] /\ ss[k] \in Seq(T)
      BY <1>1, <2>2, <2>3, <2>5, SMTT(30)
    <3>6. (k - 1) + 1 \in 1..Len(ss)
      BY <2>2, <3>1
    <3>7. \E x, y : Places(f[k - 1] \o ss[(k - 1) + 1], ss, (k - 1) + 1, x, y)
      <4> HIDE DEF Good, failing
      <4> QED BY <3>1, <3>3, <3>4, <3>6, PlacesMore
    <3>8. \E x, y : Places(f[k], ss, k, x, y)
      BY <3>1, <3>5, <3>7
    <3>9. f[k] \in Seq(T)
      BY <3>4, <3>5
    <3> QED BY <2>2, <3>8, <3>9
  <2> QED BY <2>4, <2>5
<1>4. n \notin failing
  BY <1>3
<1>5. Good(n)
  <2> HIDE DEF Good
  <2> QED BY <1>1, <1>4
<1> QED BY <1>2, <1>5

\* The same, of all of ss.
PlacesAll(s, ss, at, off) ==
  /\ \A i \in DOMAIN s : /\ at[i] \in DOMAIN ss /\ off[i] \in DOMAIN ss[at[i]]
                         /\ s[i] = ss[at[i]][off[i]] /\ Holds(ss[at[i]], s[i])
  /\ \A i, j \in DOMAIN s : i < j => at[i] < at[j] \/ (at[i] = at[j] /\ off[i] < off[j])
  /\ \A k \in DOMAIN ss : \A o \in DOMAIN ss[k] :
       \E i \in DOMAIN s : at[i] = k /\ off[i] = o /\ s[i] = ss[k][o]

LEMMA FlattenPlacesAll ==
  ASSUME NEW s, NEW ss, NEW n, DOMAIN ss = 1..n, NEW at, NEW off, Places(s, ss, n, at, off)
  PROVE  PlacesAll(s, ss, at, off)
<1> DEFINE D == DOMAIN ss
<1>1. D = 1..n
  OBVIOUS
<1>2. /\ \A i \in DOMAIN s : at[i] \in 1..n /\ off[i] \in DOMAIN ss[at[i]] /\ s[i] = ss[at[i]][off[i]]
      /\ \A i, j \in DOMAIN s : i < j => at[i] < at[j] \/ (at[i] = at[j] /\ off[i] < off[j])
      /\ \A k \in 1..n : \A o \in DOMAIN ss[k] : \E i \in DOMAIN s : at[i] = k /\ off[i] = o
  BY Zenon DEF Places
<1> HIDE DEF D
<1>3. \A i \in DOMAIN s : at[i] \in D /\ off[i] \in DOMAIN ss[at[i]] /\ s[i] = ss[at[i]][off[i]]
  BY <1>1, <1>2
<1>4. \A k \in D : \A o \in DOMAIN ss[k] : \E i \in DOMAIN s : at[i] = k /\ off[i] = o
  BY <1>1, <1>2
<1>5. \A i \in DOMAIN s : Holds(ss[at[i]], s[i])
  BY <1>3, Zenon DEF Holds
<1>6. \A k \in D : \A o \in DOMAIN ss[k] : \E i \in DOMAIN s : at[i] = k /\ off[i] = o /\ s[i] = ss[k][o]
  BY <1>3, <1>4
<1> QED BY <1>2, <1>3, <1>5, <1>6, Zenon DEF D, PlacesAll

LEMMA AllPlaced ==
  ASSUME NEW T, NEW ss \in Seq(Seq(T)), Len(ss) > 0
  PROVE  FlattenSeq(ss) \in Seq(T) /\ \E at, off : PlacesAll(FlattenSeq(ss), ss, at, off)
<1>1. DOMAIN ss = 1..Len(ss)
  OBVIOUS
<1>2. FlattenSeq(ss) \in Seq(T) /\ \E at, off : Places(FlattenSeq(ss), ss, Len(ss), at, off)
  BY FlattenPlaces
<1> QED BY <1>1, <1>2, FlattenPlacesAll

\* What is in the flat sequence, and in which order.
LEMMA Flattened ==
  ASSUME NEW T, NEW ss \in Seq(Seq(T))
  PROVE  /\ FlattenSeq(ss) \in Seq(T)
         /\ \A k \in DOMAIN ss : \A o \in DOMAIN ss[k] : Holds(FlattenSeq(ss), ss[k][o])
         /\ \A i \in DOMAIN FlattenSeq(ss) : \E k \in DOMAIN ss : Holds(ss[k], FlattenSeq(ss)[i])
<1>1. CASE Len(ss) = 0
  <2>1. FlattenSeq(ss) = ss /\ ss = <<>>
    BY <1>1 DEF FlattenSeq
  <2> QED BY <2>1
<1>2. CASE Len(ss) > 0
  <2> DEFINE s == FlattenSeq(ss)
  <2>1. s \in Seq(T) /\ \E at, off : PlacesAll(s, ss, at, off)
    BY <1>2, AllPlaced
  <2> HIDE DEF s
  <2>3. PICK at, off : PlacesAll(s, ss, at, off)
    BY <2>1
  <2>4. \A k \in DOMAIN ss : \A o \in DOMAIN ss[k] : Holds(s, ss[k][o])
    <3>1. ASSUME NEW k \in DOMAIN ss, NEW o \in DOMAIN ss[k] PROVE \E i \in DOMAIN s : s[i] = ss[k][o]
      <4>1. \A x \in DOMAIN ss : \A y \in DOMAIN ss[x] :
              \E i \in DOMAIN s : at[i] = x /\ off[i] = y /\ s[i] = ss[x][y]
        BY <2>3, Zenon DEF PlacesAll
      <4> QED BY <4>1
    <3> QED BY <3>1, Zenon DEF Holds
  <2>5. \A i \in DOMAIN s : \E k \in DOMAIN ss : Holds(ss[k], s[i])
    BY <2>3, Zenon DEF PlacesAll
  <2> QED BY <2>1, <2>4, <2>5 DEF s
<1> QED BY <1>1, <1>2

LEMMA FlattenedInOrder ==
  ASSUME NEW T, NEW ss \in Seq(Seq(T)), NEW a, NEW b,
         NEW k \in DOMAIN ss, Holds(ss[k], a), Precedes(ss[k], a, b),
         \A i \in DOMAIN ss : i < k => ~Holds(ss[i], b)
  PROVE  Precedes(FlattenSeq(ss), a, b)
<1> DEFINE s == FlattenSeq(ss)
           n == Len(ss)
<1>1. n \in Nat /\ DOMAIN ss = 1..n /\ n > 0 /\ k \in Nat
  OBVIOUS
<1>2. s \in Seq(T) /\ \E at, off : PlacesAll(s, ss, at, off)
  BY <1>1, AllPlaced
<1>3. \A i \in DOMAIN s : i \in Nat
  BY <1>2
<1> HIDE DEF s, n
<1>4. PICK at, off : PlacesAll(s, ss, at, off)
  BY <1>2
<1>5. /\ \A i \in DOMAIN s : /\ at[i] \in DOMAIN ss /\ off[i] \in DOMAIN ss[at[i]]
                             /\ s[i] = ss[at[i]][off[i]] /\ Holds(ss[at[i]], s[i])
      /\ \A i, j \in DOMAIN s : i < j => at[i] < at[j] \/ (at[i] = at[j] /\ off[i] < off[j])
      /\ \A x \in DOMAIN ss : \A o \in DOMAIN ss[x] :
           \E i \in DOMAIN s : at[i] = x /\ off[i] = o /\ s[i] = ss[x][o]
  BY <1>4, Zenon DEF PlacesAll
<1> SUFFICES ASSUME NEW i \in DOMAIN s, s[i] = b PROVE \E j \in DOMAIN s : j < i /\ s[j] = a
  BY DEF Precedes, s
<1>6. at[i] \in DOMAIN ss /\ off[i] \in DOMAIN ss[at[i]] /\ ss[at[i]][off[i]] = b
  BY <1>1, <1>5
<1>7. at[i] \in Nat /\ ~(at[i] < k) /\ at[i] \in 1..n
  <2>1. Holds(ss[at[i]], b)
    BY <1>5
  <2> QED BY <1>1, <1>6, <2>1
<1>8. \A x \in DOMAIN ss : \A o \in DOMAIN ss[x] : o \in Nat
  BY <1>1
<1>9. CASE at[i] = k
  <2>1. PICK o \in DOMAIN ss[k] : o < off[i] /\ ss[k][o] = a
    BY <1>6, <1>9, Zenon DEF Precedes
  <2>2. PICK j \in DOMAIN s : at[j] = k /\ off[j] = o /\ s[j] = ss[k][o]
    BY <1>5
  <2>3. s[j] = a
    BY <2>1, <2>2
  <2>4. ~(i < j) /\ i # j
    <3>1. o \in Nat /\ off[i] \in Nat
      BY <1>6, <1>8, <1>9
    <3>2. i < j => k < k \/ off[i] < o
      BY <1>5, <1>9, <2>2
    <3> QED BY <1>1, <1>9, <2>1, <2>2, <3>1, <3>2
  <2> QED BY <1>3, <2>3, <2>4
<1>10. CASE k < at[i]
  <2>1. PICK o \in DOMAIN ss[k] : ss[k][o] = a
    BY DEF Holds
  <2>2. PICK j \in DOMAIN s : at[j] = k /\ off[j] = o /\ s[j] = ss[k][o]
    BY <1>5
  <2>3. s[j] = a
    BY <2>1, <2>2
  <2>4. ~(i < j) /\ i # j
    <3>1. i < j => at[i] < k \/ at[i] = k
      BY <1>5, <2>2
    <3> QED BY <1>1, <1>7, <1>10, <2>2, <3>1
  <2> QED BY <1>3, <2>3, <2>4
<1> QED BY <1>1, <1>7, <1>9, <1>10

LEMMA FlattenedOnce ==
  ASSUME NEW T, NEW ss \in Seq(Seq(T)), NEW b,
         \A k \in DOMAIN ss : Once(ss[k], b),
         \A k, m \in DOMAIN ss : Holds(ss[k], b) /\ Holds(ss[m], b) => k = m
  PROVE  Once(FlattenSeq(ss), b)
<1>1. CASE Len(ss) = 0
  <2>1. FlattenSeq(ss) = ss /\ ss = <<>>
    BY <1>1 DEF FlattenSeq
  <2> QED BY <2>1 DEF Once
<1>2. CASE Len(ss) > 0
  <2> DEFINE s == FlattenSeq(ss)
             n == Len(ss)
  <2>1. n \in Nat /\ DOMAIN ss = 1..n
    OBVIOUS
  <2>2. s \in Seq(T) /\ \E at, off : PlacesAll(s, ss, at, off)
    BY <1>2, AllPlaced
  <2>3. \A i \in DOMAIN s : i \in Nat
    BY <2>2
  <2>4. \A x \in DOMAIN ss : \A o \in DOMAIN ss[x] : o \in Nat
    BY <2>1
  <2> HIDE DEF s, n
  <2>5. PICK at, off : PlacesAll(s, ss, at, off)
    BY <2>2
  <2>6. /\ \A i \in DOMAIN s : /\ at[i] \in DOMAIN ss /\ off[i] \in DOMAIN ss[at[i]]
                               /\ s[i] = ss[at[i]][off[i]] /\ Holds(ss[at[i]], s[i])
        /\ \A i, j \in DOMAIN s : i < j => at[i] < at[j] \/ (at[i] = at[j] /\ off[i] < off[j])
    BY <2>5, Zenon DEF PlacesAll
  <2> SUFFICES ASSUME NEW i \in DOMAIN s, NEW j \in DOMAIN s, s[i] = b, s[j] = b PROVE i = j
    BY DEF Once, s
  <2>7. at[i] \in DOMAIN ss /\ at[j] \in DOMAIN ss
    BY <2>1, <2>6
  <2>8. at[i] = at[j]
    <3>1. Holds(ss[at[i]], b) /\ Holds(ss[at[j]], b)
      BY <2>6
    <3> QED BY <2>7, <3>1
  <2>9. off[i] = off[j]
    <3>1. /\ off[i] \in DOMAIN ss[at[i]] /\ off[j] \in DOMAIN ss[at[i]]
          /\ ss[at[i]][off[i]] = b /\ ss[at[i]][off[j]] = b
      BY <2>6, <2>8
    <3>2. Once(ss[at[i]], b)
      BY <2>7
    <3> QED BY <3>1, <3>2, Zenon DEF Once
  <2>10. off[i] \in Nat /\ at[i] \in Nat
    BY <2>1, <2>4, <2>6, <2>7
  <2>11. ~(i < j) /\ ~(j < i)
    <3>1. i < j => at[i] < at[i] \/ off[i] < off[i]
      BY <2>6, <2>8, <2>9
    <3>2. j < i => at[i] < at[i] \/ off[i] < off[i]
      BY <2>6, <2>8, <2>9
    <3> QED BY <2>10, <3>1, <3>2
  <2> QED BY <2>3, <2>11
<1> QED BY <1>1, <1>2

\* Two sequences, one after the other.
LEMMA Concatenated ==
  ASSUME NEW T, NEW s \in Seq(T), NEW t \in Seq(T)
  PROVE  /\ s \o t \in Seq(T)
         /\ \A x : Holds(s \o t, x) <=> Holds(s, x) \/ Holds(t, x)
         /\ \A a, b : Precedes(s, a, b) /\ (Holds(s, a) \/ Precedes(t, a, b)) => Precedes(s \o t, a, b)
         /\ \A b : Once(s, b) /\ Once(t, b) /\ ~(Holds(s, b) /\ Holds(t, b)) => Once(s \o t, b)
<1> DEFINE r == s \o t
           l == Len(s)
<1>1. r \in Seq(T) /\ l \in Nat /\ Len(t) \in Nat /\ DOMAIN s = 1..l /\ DOMAIN t = 1..Len(t)
      /\ DOMAIN r = 1..(l + Len(t))
  OBVIOUS
<1>2. /\ \A i \in 1..l : r[i] = s[i] /\ i \in DOMAIN r
      /\ \A i \in 1..(l + Len(t)) : i > l => i - l \in 1..Len(t) /\ r[i] = t[i - l]
      /\ \A i \in 1..Len(t) : r[l + i] = t[i] /\ l + i \in DOMAIN r /\ l + i > l
  OBVIOUS
<1> HIDE DEF r, l
<1>3. /\ \A i \in DOMAIN s : r[i] = s[i] /\ i \in DOMAIN r /\ i \in Nat /\ i <= l
      /\ \A i \in DOMAIN t : r[l + i] = t[i] /\ l + i \in DOMAIN r /\ i \in Nat /\ l + i > l
      /\ \A i \in DOMAIN r : i \in Nat /\ (i \in DOMAIN s \/ (i > l /\ i - l \in DOMAIN t /\ r[i] = t[i - l]))
  BY <1>1, <1>2
<1>4. ASSUME NEW x PROVE Holds(r, x) <=> Holds(s, x) \/ Holds(t, x)
  <2>1. ASSUME Holds(s, x) PROVE Holds(r, x)
    BY <1>3, <2>1 DEF Holds
  <2>2. ASSUME Holds(t, x) PROVE Holds(r, x)
    <3>1. PICK i \in DOMAIN t : t[i] = x
      BY <2>2 DEF Holds
    <3>2. r[l + i] = x /\ l + i \in DOMAIN r
      BY <1>3, <3>1
    <3> QED BY <3>2, Zenon DEF Holds
  <2>3. ASSUME Holds(r, x) PROVE Holds(s, x) \/ Holds(t, x)
    <3>1. PICK i \in DOMAIN r : r[i] = x
      BY <2>3 DEF Holds
    <3>2. CASE i \in DOMAIN s
      BY <1>3, <3>1, <3>2 DEF Holds
    <3>3. CASE i - l \in DOMAIN t /\ r[i] = t[i - l]
      BY <3>1, <3>3, Zenon DEF Holds
    <3> QED BY <1>3, <3>2, <3>3
  <2> QED BY <2>1, <2>2, <2>3
<1>5. ASSUME NEW a, NEW b, Precedes(s, a, b), Holds(s, a) \/ Precedes(t, a, b)
      PROVE  Precedes(r, a, b)
  <2> SUFFICES ASSUME NEW i \in DOMAIN r, r[i] = b PROVE \E j \in DOMAIN r : j < i /\ r[j] = a
    BY DEF Precedes
  <2>1. CASE i \in DOMAIN s
    <3>1. PICK j \in DOMAIN s : j < i /\ s[j] = a
      BY <1>3, <1>5, <2>1 DEF Precedes
    <3> QED BY <1>3, <3>1
  <2>2. CASE i > l /\ i - l \in DOMAIN t /\ r[i] = t[i - l]
    <3>1. CASE Holds(s, a)
      <4>1. PICK j \in DOMAIN s : s[j] = a
        BY <3>1 DEF Holds
      <4>2. j < i
        BY <1>1, <1>3, <2>2, <4>1
      <4> QED BY <1>3, <4>1, <4>2
    <3>2. CASE Precedes(t, a, b)
      <4>1. PICK j \in DOMAIN t : j < i - l /\ t[j] = a
        BY <2>2, <3>2 DEF Precedes
      <4>2. l + j \in DOMAIN r /\ l + j < i /\ r[l + j] = a
        BY <1>1, <1>3, <4>1
      <4> QED BY <4>2
    <3> QED BY <1>5, <3>1, <3>2
  <2> QED BY <1>3, <2>1, <2>2
<1>6. ASSUME NEW b, Once(s, b), Once(t, b), ~(Holds(s, b) /\ Holds(t, b))
      PROVE  Once(r, b)
  <2> SUFFICES ASSUME NEW i \in DOMAIN r, NEW j \in DOMAIN r, r[i] = b, r[j] = b PROVE i = j
    BY DEF Once
  <2>1. \A k \in DOMAIN r : r[k] = b =>
          (k \in DOMAIN s /\ s[k] = b /\ Holds(s, b)) \/ (k - l \in DOMAIN t /\ t[k - l] = b /\ Holds(t, b))
    BY <1>3 DEF Holds
  <2>2. CASE Holds(s, b)
    <3>1. i \in DOMAIN s /\ j \in DOMAIN s /\ s[i] = b /\ s[j] = b
      BY <1>6, <2>1, <2>2
    <3> QED BY <1>6, <3>1 DEF Once
  <2>3. CASE ~Holds(s, b)
    <3>1. i - l \in DOMAIN t /\ j - l \in DOMAIN t /\ t[i - l] = b /\ t[j - l] = b
      BY <2>1, <2>3
    <3>2. i - l = j - l
      BY <1>6, <3>1 DEF Once
    <3> QED BY <1>1, <1>3, <3>2
  <2> QED BY <2>2, <2>3
<1> QED BY <1>1, <1>4, <1>5, <1>6 DEF r

\* The first element is done, the others remain.
LEMMA Shortened ==
  ASSUME NEW T, NEW s \in Seq(T), s # <<>>
  PROVE  /\ Tail(s) \in Seq(T) /\ Head(s) \in T /\ Holds(s, Head(s))
         /\ \A x : Holds(Tail(s), x) => Holds(s, x)
         /\ \A x : Holds(s, x) => Head(s) = x \/ Holds(Tail(s), x)
         /\ \A a, b : Precedes(s, a, b) => Head(s) # b /\ (Head(s) = a \/ Precedes(Tail(s), a, b))
         /\ \A b : Once(s, b) => Once(Tail(s), b) /\ (Head(s) = b => ~Holds(Tail(s), b))
<1> DEFINE t == Tail(s)
           h == Head(s)
           n == Len(s)
<1>1. n \in Nat /\ n > 0 /\ DOMAIN s = 1..n /\ t \in Seq(T) /\ DOMAIN t = 1..(n - 1) /\ h = s[1] /\ h \in T
  OBVIOUS
<1>2. /\ \A i \in 1..(n - 1) : t[i] = s[i + 1] /\ i + 1 \in 1..n
      /\ \A i \in 1..n : i # 1 => i - 1 \in 1..(n - 1) /\ t[i - 1] = s[i]
  OBVIOUS
<1> HIDE DEF t, h, n
<1>3. /\ 1 \in DOMAIN s /\ s[1] = h
      /\ \A i \in DOMAIN t : i \in Nat /\ i >= 1 /\ t[i] = s[i + 1] /\ i + 1 \in DOMAIN s
      /\ \A i \in DOMAIN s : i \in Nat /\ i >= 1 /\ (i # 1 => i - 1 \in DOMAIN t /\ t[i - 1] = s[i])
  BY <1>1, <1>2
<1>4. ASSUME NEW x, Holds(t, x) PROVE Holds(s, x)
  <2>1. PICK i \in DOMAIN t : t[i] = x
    BY <1>4 DEF Holds
  <2>2. i + 1 \in DOMAIN s /\ s[i + 1] = x
    BY <1>3, <2>1
  <2> QED BY <2>2, Zenon DEF Holds
<1>5. ASSUME NEW x, Holds(s, x) PROVE h = x \/ Holds(t, x)
  <2>1. PICK i \in DOMAIN s : s[i] = x
    BY <1>5 DEF Holds
  <2>2. CASE i # 1
    <3>1. i - 1 \in DOMAIN t /\ t[i - 1] = x
      BY <1>3, <2>1, <2>2
    <3> QED BY <3>1, Zenon DEF Holds
  <2> QED BY <1>3, <2>1, <2>2
<1>6. ASSUME NEW a, NEW b, Precedes(s, a, b) PROVE h # b /\ (h = a \/ Precedes(t, a, b))
  <2>1. \A i \in DOMAIN s : s[i] = b => \E j \in DOMAIN s : j < i /\ s[j] = a
    BY <1>6, Zenon DEF Precedes
  <2>2. h # b
    BY <1>3, <2>1
  <2>3. ASSUME h # a PROVE Precedes(t, a, b)
    <3> SUFFICES ASSUME NEW i \in DOMAIN t, t[i] = b PROVE \E j \in DOMAIN t : j < i /\ t[j] = a
      BY DEF Precedes
    <3>1. i + 1 \in DOMAIN s /\ s[i + 1] = b /\ i \in Nat
      BY <1>3
    <3>2. PICK j \in DOMAIN s : j < i + 1 /\ s[j] = a
      BY <2>1, <3>1
    <3>3. j \in Nat /\ j - 1 \in DOMAIN t /\ t[j - 1] = a
      BY <1>3, <2>3, <3>2
    <3> QED BY <3>1, <3>2, <3>3
  <2> QED BY <2>2, <2>3
<1>7. ASSUME NEW b, Once(s, b) PROVE Once(t, b) /\ (h = b => ~Holds(t, b))
  <2>1. \A i, j \in DOMAIN s : s[i] = b /\ s[j] = b => i = j
    BY <1>7, Zenon DEF Once
  <2>2. ASSUME NEW i \in DOMAIN t, NEW j \in DOMAIN t, t[i] = b, t[j] = b PROVE i = j
    <3>1. i + 1 = j + 1
      BY <1>3, <2>1, <2>2
    <3> QED BY <1>3, <3>1
  <2>3. ASSUME h = b, NEW i \in DOMAIN t, t[i] = b PROVE FALSE
    <3>1. i + 1 = 1
      BY <1>3, <2>1, <2>3
    <3> QED BY <1>3, <3>1
  <2>4. Once(t, b)
    BY <2>2, Zenon DEF Once
  <2>5. h = b => ~Holds(t, b)
    BY <2>3, Zenon DEF Holds
  <2> QED BY <2>4, <2>5
<1>8. Holds(s, h)
  BY <1>3, Zenon DEF Holds
<1> QED BY <1>1, <1>4, <1>5, <1>6, <1>7, <1>8, Zenon DEF t, h

-----------------------------------------------------------------------------
(* Who governs the stack.                                                  *)

Owned == {"ModelRegistry", "TokenManager", "HokusaiAMMFactory"}
ByTimelock == {"TokenManager", "InfrastructureReserve", "InfrastructureCostOracle", "UsageFeeRouter"}
BySafe == {"DeltaVerifier", "DataContributionRegistry"}

\* The holders that a launch is about.
Guarded ==
  (Owned \X {"owner"}) \union ((ByTimelock \union BySafe) \X {"ADMIN"})
    \union {<<"InfrastructureReserve", "PAUSER">>, <<"InfrastructureCostOracle", "GOV">>,
            <<"DeltaVerifier", "PAUSER">>, <<"HokusaiAMMFactory", "pauser">>, <<"timelock", "PROPOSER">>}

Still(F, c, f) == <<c, f, "deployer">> \in F

\* What holds of the facts F of a recorded stack, after the handoffs of C.
OwnersKnown(F) ==
  \A c \in Owned : /\ Still(F, c, "owner") \/ <<c, "owner", "timelock">> \in F
                   /\ \A w : <<c, "owner", w>> \in F => w \in {"deployer", "timelock"}
AdminsKnown(F, C) ==
  /\ \A c \in ByTimelock : Still(F, c, "ADMIN") \/ <<c, "ADMIN", "timelock">> \in F
  /\ \A c \in BySafe : Still(F, c, "ADMIN") \/ \E x \in C : <<c, "ADMIN", x.admin>> \in F
  /\ Still(F, "InfrastructureCostOracle", "ADMIN") \/ <<"InfrastructureCostOracle", "GOV", "timelock">> \in F
GivenUpLast(F) ==
  ~Still(F, "DataContributionRegistry", "ADMIN") =>
    /\ ~Still(F, "TokenManager", "ADMIN")
    /\ ~Still(F, "InfrastructureReserve", "PAUSER")
    /\ ~Still(F, "InfrastructureCostOracle", "GOV")
PausersKnown(F, C) ==
  /\ \A v, w : <<"HokusaiAMMFactory", "pauser", v>> \in F /\ <<"HokusaiAMMFactory", "pauser", w>> \in F => v = w
  /\ Still(F, "HokusaiAMMFactory", "owner") \/ \E x \in C : <<"HokusaiAMMFactory", "pauser", x.emergency>> \in F
  /\ \A w : <<"DeltaVerifier", "PAUSER", w>> \in F =>
              w = "deployer" \/ (/\ ~Still(F, "HokusaiAMMFactory", "owner")
                                 /\ <<"HokusaiAMMFactory", "pauser", w>> \in F)
ProposersKnown(F, C) == \A x \in C : <<"timelock", "PROPOSER", x.admin>> \in F

FactsKnown(F, C) ==
  /\ OwnersKnown(F) /\ AdminsKnown(F, C) /\ GivenUpLast(F) /\ PausersKnown(F, C) /\ ProposersKnown(F, C)

\* The facts that a deployment has made and those that it will make.
Made(D, todo) == D \union UNION {todo[i] : i \in DOMAIN todo}
FullStack(backend) == CorePhase \union FactoryPhase \union FeesPhase(backend) \union VerifierPhase

\* What a handoff of context x may do, with R for the holders nobody governs by.
Others == {"MINTER", "DEPLOYER", "SUBMITTER", "DEPOSITOR", "PAYER", "FEE_DEPOSITOR", "RECORDER", "VERIFIER"}
Stack == {"ModelRegistry"} \union Owned \union ByTimelock \union BySafe
Grants(x, R) ==
  (ByTimelock \X {"ADMIN"} \X {"timelock"}) \union (BySafe \X {"ADMIN"} \X {x.admin})
    \union {<<"DeltaVerifier", "PAUSER", x.emergency>>, <<"InfrastructureReserve", "PAUSER", x.emergency>>,
            <<"InfrastructureCostOracle", "GOV", "timelock">>}
    \union (Stack \X Others \X R)
Revoked == {"ADMIN", "PAUSER", "SUBMITTER", "GOV", "RECORDER"}
SetPauser(x) == Task("setter", "HokusaiAMMFactory", "pauser", x.emergency)
HandoffTasks(x, R) ==
  {Task("role", g[1], g[2], g[3]) : g \in Grants(x, R)}
    \union {SetPauser(x)}
    \union {Task("owner", c, "owner", "timelock") : c \in Owned}
    \union {Task("owner", m, "owner", x.admin) : m \in Models}
    \union {Task("renounce", g[1], g[2], "deployer") : g \in (Stack \union Models) \X Revoked}
Recorded(x) == {r[3] : r \in artifact.roles} \union {x.relayer, "DeltaVerifier"}

\* A role is given on before it is given up, the pauser is set before the factory
\* is, the verifier's pauser comes after both, and the contribution registry is
\* given up last.
RolesFirst(x, todo, F) ==
  /\ \A c \in ByTimelock :
       ~Still(F, c, "ADMIN") \/ <<c, "ADMIN", "timelock">> \in F
         \/ Precedes(todo, Task("role", c, "ADMIN", "timelock"), Task("renounce", c, "ADMIN", "deployer"))
  /\ \A c \in BySafe :
       ~Still(F, c, "ADMIN") \/ <<c, "ADMIN", x.admin>> \in F
         \/ Precedes(todo, Task("role", c, "ADMIN", x.admin), Task("renounce", c, "ADMIN", "deployer"))
  /\ ~Still(F, "InfrastructureCostOracle", "ADMIN") \/ <<"InfrastructureCostOracle", "GOV", "timelock">> \in F
       \/ Precedes(todo, Task("role", "InfrastructureCostOracle", "GOV", "timelock"),
                   Task("renounce", "InfrastructureCostOracle", "ADMIN", "deployer"))
PauserFirst(x, todo, F) ==
  /\ \A t \in {Task("owner", "HokusaiAMMFactory", "owner", "timelock"),
               Task("role", "DeltaVerifier", "PAUSER", x.emergency)} :
       <<"HokusaiAMMFactory", "pauser", x.emergency>> \in F \/ Precedes(todo, SetPauser(x), t)
  /\ ~Still(F, "HokusaiAMMFactory", "owner")
       \/ Precedes(todo, Task("owner", "HokusaiAMMFactory", "owner", "timelock"),
                   Task("role", "DeltaVerifier", "PAUSER", x.emergency))
RegistryLast(todo, F) ==
  \A g \in {<<"TokenManager", "ADMIN">>, <<"InfrastructureReserve", "PAUSER">>, <<"InfrastructureCostOracle", "GOV">>} :
    ~Still(F, g[1], g[2])
      \/ Precedes(todo, Task("renounce", g[1], g[2], "deployer"),
                  Task("renounce", "DataContributionRegistry", "ADMIN", "deployer"))

HandoffOrder(x, todo, F) == RolesFirst(x, todo, F) /\ PauserFirst(x, todo, F) /\ RegistryLast(todo, F)

-----------------------------------------------------------------------------
(* The inductive invariant.                                                *)

JobKnown ==
  /\ job = [script |-> job.script, todo |-> job.todo]
  /\ job.script \in Scripts \union {Unset}
  /\ Runs(Unset) => Idle
  /\ ~Idle => phase # Len(Phases)
  /\ phase \in 0..Len(Phases)
  /\ launched => phase = 0 /\ Idle
  /\ refused # Unset => phase = 0 /\ job.script \in {Unset, "bundle"}
  /\ Runs("posture") => ~mainnet
  /\ ~mainnet => bundle = <<>> /\ ~Runs("bundle")
  /\ phase > 1 \/ job.script \notin {Unset, "deploy-contracts"} => artifact.written

ArtifactKnown ==
  /\ env \in Environments
  /\ artifact \in [written : BOOLEAN, roles : {artifact.roles}, backend : {artifact.backend},
                   tokens : SUBSET Models, pending : {artifact.pending}, timelock : {Unset, "timelock"},
                   admin : {artifact.admin}, emergency : {artifact.emergency}]
  /\ artifact.admin # "deployer" /\ artifact.emergency # "deployer" /\ IsFiniteSet(artifact.roles)
  /\ Runs("deploy-timelock") => artifact.timelock = Unset
  /\ ~artifact.written => facts = {} /\ contexts = {}

ContextsKnown ==
  /\ IsFiniteSet(contexts)
  /\ contexts # {} => artifact.timelock = "timelock"
  /\ \A x \in contexts : x.timelock = "timelock" /\ x.admin # "deployer" /\ x.emergency # "deployer"

PoolOps == {"deploy", "register", "pool", "authorize", "fund", "distribute"}

ScriptKnown ==
  /\ Runs("deploy-contracts") =>
       Made(draft, job.todo) = FullStack(env.backend) /\ job.todo \in Seq(SUBSET FullStack(env.backend))
  /\ Runs("create-pools") => job.todo \in Seq(PoolOps \X Models)
  /\ Runs("handoff") => \E x \in contexts :
       job.todo \in Seq(HandoffTasks(x, Recorded(x))) /\ HandoffOrder(x, job.todo, facts)

Triples(F) == \A y \in F : y = <<y[1], y[2], y[3]>>

HandoverInv ==
  /\ JobKnown /\ ArtifactKnown /\ ContextsKnown /\ ScriptKnown /\ Triples(facts)
  /\ artifact.written => FactsKnown(facts, contexts)
  /\ HandoffResumes /\ LaunchedMeansHandedOver

-----------------------------------------------------------------------------
(* The posture.                                                            *)

Attesters == UNION {c.attesters : c \in Postures}
Geneses == {c.genesis : c \in Postures}
Knob == PlanItem("setMaxReward", TRUE)
Close == PlanItem("disableLegacyMints", TRUE)
PlanItems ==
  {PlanItem(op, a) : op \in {"addAttester", "removeAttester"}, a \in Attesters}
    \union {PlanItem("setAttesterThreshold", c.threshold) : c \in Postures}
    \union {PlanItem("setMintBudget", m) : m \in Models}
    \union {PlanItem("setWeightGenesis", g) : g \in Models \X Geneses}
    \union {Knob, Close}

\* A posture that the contracts allow.
PostureKnown(p) ==
  /\ p \in [attesters : SUBSET Attesters, threshold : Nat, closed : BOOLEAN, knob : BOOLEAN,
            budget : [Models -> {"none", "full", "spent"}], genesis : [Models -> Geneses \union {Unset}]]
  /\ IsFiniteSet(p.attesters) /\ Cardinality(p.attesters) >= p.threshold

\* A posture that has the threshold and the geneses that configuration c asks
\* for; one that is ready to be closed, by one of the configurations in C.
Suits(p, c) ==
  /\ c.threshold = 0 \/ p.threshold >= 1
  /\ \A m \in Models : c.genesis = Unset \/ p.genesis[m] # Unset
Ready(p, C) == (\A m \in Models : p.budget[m] # "none") /\ \E c \in C : Suits(p, c)
Sound(p, C) == PostureKnown(p) /\ (p.closed => Ready(p, C))

\* A plan that closes the legacy mints last, after what configuration c asks for.
Supplies(p, c, todo) ==
  /\ c.threshold = 0 \/ p.threshold >= 1
       \/ Precedes(todo, PlanItem("setAttesterThreshold", c.threshold), Close)
  /\ \A m \in Models :
       c.genesis = Unset \/ p.genesis[m] # Unset
         \/ Precedes(todo, PlanItem("setWeightGenesis", <<m, c.genesis>>), Close)
ClosesLast(p, todo, C) ==
  /\ todo \in Seq(PlanItems)
  /\ \A m \in Models : p.budget[m] # "none" \/ Precedes(todo, PlanItem("setMintBudget", m), Close)
  /\ Holds(todo, Close) => \E c \in C : Supplies(p, c, todo)

\* A posture on the way to configuration c, and a plan that leads there.
Fits(p, c) ==
  /\ p.attesters \subseteq c.attesters /\ p.threshold \in {0, c.threshold}
  /\ \A m \in Models : p.genesis[m] \in {Unset, c.genesis}
Leads(p, c, todo) ==
  /\ \A a \in Attesters :
       /\ ~Holds(todo, PlanItem("removeAttester", a))
       /\ Once(todo, PlanItem("addAttester", a))
       /\ Holds(todo, PlanItem("addAttester", a)) => a \in c.attesters /\ a \notin p.attesters
  /\ \A a \in c.attesters :
       a \in p.attesters \/ Precedes(todo, PlanItem("addAttester", a), PlanItem("setAttesterThreshold", c.threshold))
  /\ \A d \in Postures : Holds(todo, PlanItem("setAttesterThreshold", d.threshold)) => d.threshold = c.threshold /\ d.threshold # 0
  /\ \A m \in Models : \A g \in Geneses :
       /\ Once(todo, PlanItem("setWeightGenesis", <<m, g>>))
       /\ Holds(todo, PlanItem("setWeightGenesis", <<m, g>>)) => g = c.genesis /\ g # Unset /\ p.genesis[m] = Unset

PlansKnown ==
  /\ Sound(posture, configs) /\ config \in Postures
  /\ configs \subseteq Postures /\ IsFiniteSet(configs)
  /\ ClosesLast(posture, bundle, configs)
  /\ Runs("posture") \/ Runs("bundle") => ClosesLast(posture, job.todo, configs)
  /\ Runs("posture") => configs # {}
  /\ ~mainnet => \A c \in Postures : configs \subseteq {c} =>
       Fits(posture, c) /\ (Runs("posture") => Leads(posture, c, job.todo))

PostureInv == PlansKnown /\ PostureResumes

-----------------------------------------------------------------------------
(* The stack as it is deployed.                                            *)

LEMMA FewAreFinite == \A a, b, c, d : IsFiniteSet({a, b, c, d})
<1>1. \A x : IsFiniteSet({x})
  BY FS_Singleton
<1>2. \A S, T : IsFiniteSet(S) /\ IsFiniteSet(T) => IsFiniteSet(S \union T)
  BY FS_Union
<1> TAKE a, b, c, d
<1>3. {a, b, c, d} = ({a} \union {b}) \union ({c} \union {d})
  OBVIOUS
<1>4. IsFiniteSet({a} \union {b}) /\ IsFiniteSet({c} \union {d})
  BY <1>1, <1>2
<1> QED BY <1>2, <1>3, <1>4

LEMMA BootstrapFinite ==
  ASSUME NEW c, NEW fields, IsFiniteSet(fields)
  PROVE  IsFiniteSet(Bootstrap(c, fields))
<1> DEFINE g == [f \in fields |-> <<c, f, "deployer">>]
<1>1. g \in Surjection(fields, Bootstrap(c, fields))
  BY DEF Surjection, Bootstrap
<1> HIDE DEF g
<1> QED BY <1>1, FS_Surjection

LEMMA StackFinite == ASSUME NEW b PROVE IsFiniteSet(FullStack(b))
<1>1. \A S, T : IsFiniteSet(S) /\ IsFiniteSet(T) => IsFiniteSet(S \union T)
  BY FS_Union
<1>2. \A c, f, w : IsFiniteSet(Wire(c, f, w))
  BY FS_Singleton DEF Wire
<1>3. /\ \A c, f, g, h, i : IsFiniteSet(Bootstrap(c, {f, g, h, i}))
  BY FewAreFinite, BootstrapFinite
<1>5. /\ \A c, f : IsFiniteSet(Bootstrap(c, {f}))
      /\ \A c, f, g : IsFiniteSet(Bootstrap(c, {f, g}))
      /\ \A c, f, g, h : IsFiniteSet(Bootstrap(c, {f, g, h}))
  <2> SUFFICES ASSUME NEW c, NEW f, NEW g, NEW h
               PROVE  /\ IsFiniteSet(Bootstrap(c, {f})) /\ IsFiniteSet(Bootstrap(c, {f, g}))
                      /\ IsFiniteSet(Bootstrap(c, {f, g, h}))
    OBVIOUS
  <2>1. {f, f, f, f} = {f} /\ {f, g, g, g} = {f, g} /\ {f, g, h, h} = {f, g, h}
    OBVIOUS
  <2>2. /\ IsFiniteSet(Bootstrap(c, {f, f, f, f})) /\ IsFiniteSet(Bootstrap(c, {f, g, g, g}))
        /\ IsFiniteSet(Bootstrap(c, {f, g, h, h}))
    BY <1>3
  <2> QED BY <2>1, <2>2
<1>6. IsFiniteSet(CorePhase)
  BY <1>1, <1>2, <1>3, <1>5 DEF CorePhase
<1>7. IsFiniteSet(FactoryPhase)
  BY <1>1, <1>2, <1>5 DEF FactoryPhase
<1>8. IsFiniteSet(FeesPhase(b))
  BY <1>1, <1>2, <1>5 DEF FeesPhase
<1>9. IsFiniteSet(VerifierPhase)
  BY <1>1, <1>2, <1>5 DEF VerifierPhase
<1> QED BY <1>1, <1>6, <1>7, <1>8, <1>9 DEF FullStack

\* At first the deployer holds everything that a handoff will give on.
LEMMA StackKnown == ASSUME NEW b PROVE FactsKnown(FullStack(b), {})
<1> DEFINE F == FullStack(b)
<1>1. ASSUME NEW c, NEW f, NEW w, <<c, f, w>> \in F, <<c, f>> \in Guarded
      PROVE  w = "deployer" /\ <<c, f>> \notin {<<"HokusaiAMMFactory", "pauser">>, <<"timelock", "PROPOSER">>}
  <2>1. CASE <<c, f, w>> \in CorePhase
    BY <1>1, <2>1 DEF Guarded, CorePhase, Bootstrap, Wire, Owned, ByTimelock, BySafe
  <2>2. CASE <<c, f, w>> \in FactoryPhase
    BY <1>1, <2>2 DEF Guarded, FactoryPhase, Bootstrap, Wire, Owned, ByTimelock, BySafe
  <2>3. CASE <<c, f, w>> \in FeesPhase(b)
    BY <1>1, <2>3 DEF Guarded, FeesPhase, Bootstrap, Wire, Owned, ByTimelock, BySafe
  <2>4. CASE <<c, f, w>> \in VerifierPhase
    BY <1>1, <2>4 DEF Guarded, VerifierPhase, Bootstrap, Wire, Owned, ByTimelock, BySafe
  <2> QED BY <1>1, <2>1, <2>2, <2>3, <2>4 DEF FullStack
<1>2. \A c \in Owned : Still(F, c, "owner")
  BY DEF Owned, Still, FullStack, CorePhase, FactoryPhase, Bootstrap
<1>3. \A c \in ByTimelock \union BySafe : Still(F, c, "ADMIN")
  BY DEF ByTimelock, BySafe, Still, FullStack, CorePhase, FeesPhase, VerifierPhase, Bootstrap
<1> HIDE DEF F
<1>4. /\ <<"HokusaiAMMFactory", "pauser">> \in Guarded /\ <<"DeltaVerifier", "PAUSER">> \in Guarded
      /\ \A c \in Owned : <<c, "owner">> \in Guarded
  BY DEF Guarded
<1>5. OwnersKnown(F)
  BY <1>1, <1>2, <1>4 DEF OwnersKnown
<1>6. AdminsKnown(F, {})
  <2>1. "InfrastructureCostOracle" \in ByTimelock
    BY DEF ByTimelock
  <2> QED BY <1>3, <2>1 DEF AdminsKnown
<1>7. GivenUpLast(F)
  <2>1. Still(F, "DataContributionRegistry", "ADMIN")
    BY <1>3 DEF BySafe
  <2> QED BY <2>1 DEF GivenUpLast
<1>8. PausersKnown(F, {})
  <2>1. Still(F, "HokusaiAMMFactory", "owner")
    BY <1>2 DEF Owned
  <2>2. \A v : <<"HokusaiAMMFactory", "pauser", v>> \notin F
    BY <1>1, <1>4
  <2>3. \A w : <<"DeltaVerifier", "PAUSER", w>> \in F => w = "deployer"
    BY <1>1, <1>4
  <2> QED BY <2>1, <2>2, <2>3 DEF PausersKnown
<1>9. ProposersKnown(F, {})
  BY DEF ProposersKnown
<1> QED BY <1>5, <1>6, <1>7, <1>8, <1>9 DEF FactsKnown, F

-----------------------------------------------------------------------------
(* What a transaction of a handoff does to the facts.                      *)

SameHolders(F, G) ==
  \A c, f, w : <<c, f>> \in Guarded => (<<c, f, w>> \in F <=> <<c, f, w>> \in G)

LEMMA GuardedAre ==
  /\ \A c \in Owned : <<c, "owner">> \in Guarded
  /\ \A c \in ByTimelock \union BySafe : <<c, "ADMIN">> \in Guarded
  /\ <<"InfrastructureReserve", "PAUSER">> \in Guarded /\ <<"InfrastructureCostOracle", "GOV">> \in Guarded
  /\ <<"DeltaVerifier", "PAUSER">> \in Guarded /\ <<"HokusaiAMMFactory", "pauser">> \in Guarded
  /\ <<"timelock", "PROPOSER">> \in Guarded
  /\ "HokusaiAMMFactory" \in Owned /\ "InfrastructureCostOracle" \in ByTimelock
  /\ "TokenManager" \in ByTimelock /\ "DataContributionRegistry" \in BySafe
  BY DEF Guarded, Owned, ByTimelock, BySafe

LEMMA UntouchedKnown ==
  ASSUME NEW F, NEW G, NEW C, SameHolders(F, G), FactsKnown(F, C)
  PROVE  FactsKnown(G, C)
<1>1. \A c, f, w : <<c, f>> \in Guarded => (<<c, f, w>> \in F <=> <<c, f, w>> \in G)
  BY Zenon DEF SameHolders
<1>2. \A c, f : <<c, f>> \in Guarded => (Still(F, c, f) <=> Still(G, c, f))
  BY <1>1, Zenon DEF Still
<1>3. OwnersKnown(G)
  BY <1>1, <1>2, GuardedAre DEF FactsKnown, OwnersKnown
<1>4. AdminsKnown(G, C)
  BY <1>1, <1>2, GuardedAre DEF FactsKnown, AdminsKnown
<1>5. GivenUpLast(G)
  BY <1>2, GuardedAre DEF FactsKnown, GivenUpLast
<1>6. PausersKnown(G, C)
  BY <1>1, <1>2, GuardedAre DEF FactsKnown, PausersKnown
<1>7. ProposersKnown(G, C)
  BY <1>1, GuardedAre DEF FactsKnown, ProposersKnown
<1> QED BY <1>3, <1>4, <1>5, <1>6, <1>7 DEF FactsKnown

LEMMA ModelsApart == \A m \in Models : m \notin Stack /\ m # "timelock"
<1>1. /\ Policy[1].contract = "ModelRegistry" /\ Policy[2].contract = "TokenManager"
      /\ Policy[3].contract = "HokusaiAMMFactory" /\ Policy[4].contract = "DeltaVerifier"
      /\ Policy[5].contract = "InfrastructureReserve" /\ Policy[6].contract = "InfrastructureCostOracle"
      /\ Policy[7].contract = "UsageFeeRouter" /\ Policy[8].contract = "DataContributionRegistry"
  BY DEF Policy, Entry
<1>2. DOMAIN Policy = 1..8
  BY DEF Policy
<1>3. \A i \in 1..8 : Policy[i].contract \notin Models
  BY <1>2, LaunchConstants
<1>4. \A c \in Stack : \E i \in 1..8 : c = Policy[i].contract
  BY <1>1 DEF Stack, Owned, ByTimelock, BySafe
<1>5. "timelock" \notin Models
  BY LaunchConstants
<1> QED BY <1>3, <1>4, <1>5

\* A grant: of a role that nobody governs by, or to whom the policy says.
LEMMA GrantKnown ==
  ASSUME NEW F, NEW C, NEW x \in C, NEW R, NEW g \in Grants(x, R),
         x.admin # "deployer", x.emergency # "deployer", FactsKnown(F, C),
         g = <<"DeltaVerifier", "PAUSER", x.emergency>> =>
           <<"HokusaiAMMFactory", "pauser", x.emergency>> \in F /\ ~Still(F, "HokusaiAMMFactory", "owner")
  PROVE  FactsKnown(F \union {g}, C)
<1> DEFINE G == F \union {g}
<1>1. /\ <<g[1], g[2]>> \in Guarded =>
           \/ g[1] \in ByTimelock /\ g = <<g[1], "ADMIN", "timelock">>
           \/ g[1] \in BySafe /\ g = <<g[1], "ADMIN", x.admin>>
           \/ g = <<"DeltaVerifier", "PAUSER", x.emergency>>
           \/ g = <<"InfrastructureReserve", "PAUSER", x.emergency>>
           \/ g = <<"InfrastructureCostOracle", "GOV", "timelock">>
      /\ g = <<g[1], g[2], g[3]>>
  BY DEF Grants, Guarded, Others, Stack, Owned, ByTimelock, BySafe
<1>2. CASE <<g[1], g[2]>> \notin Guarded
  <2>1. SameHolders(F, G)
    BY <1>1, <1>2 DEF SameHolders
  <2> QED BY <2>1, UntouchedKnown
<1>3. CASE <<g[1], g[2]>> \in Guarded
  <2>1. g[3] # "deployer" /\ g[2] \notin {"owner", "pauser", "PROPOSER"}
    BY <1>1, <1>3
  <2>2. \A c, f : Still(G, c, f) <=> Still(F, c, f)
    BY <1>1, <2>1 DEF Still
  <2>3. /\ \A c, w : <<c, "owner", w>> \in G <=> <<c, "owner", w>> \in F
        /\ \A c, w : <<c, "pauser", w>> \in G <=> <<c, "pauser", w>> \in F
        /\ \A c, w : <<c, "PROPOSER", w>> \in G <=> <<c, "PROPOSER", w>> \in F
    BY <1>1, <2>1
  <2>4. \A w : <<"DeltaVerifier", "PAUSER", w>> \in G => <<"DeltaVerifier", "PAUSER", w>> \in F
                \/ (w = x.emergency /\ g = <<"DeltaVerifier", "PAUSER", x.emergency>>)
    BY <1>1, <1>3
  <2>5. F \subseteq G
    OBVIOUS
  <2> HIDE DEF G
  <2>6. OwnersKnown(G)
    BY <2>2, <2>3 DEF FactsKnown, OwnersKnown
  <2>7. AdminsKnown(G, C)
    BY <2>2, <2>5 DEF FactsKnown, AdminsKnown
  <2>8. GivenUpLast(G)
    BY <2>2 DEF FactsKnown, GivenUpLast
  <2>9. PausersKnown(G, C)
    BY <2>2, <2>3, <2>4 DEF FactsKnown, PausersKnown
  <2>10. ProposersKnown(G, C)
    BY <2>3 DEF FactsKnown, ProposersKnown
  <2> QED BY <2>6, <2>7, <2>8, <2>9, <2>10 DEF FactsKnown, G
<1> QED BY <1>2, <1>3

\* A role that the deployer gives up, when it is its turn.
LEMMA RevokeKnown ==
  ASSUME NEW F, NEW C, NEW x \in C, NEW c \in Stack \union Models, NEW f \in Revoked,
         FactsKnown(F, C),
         f = "ADMIN" /\ Still(F, c, "ADMIN") =>
           /\ c \in ByTimelock => <<c, "ADMIN", "timelock">> \in F
           /\ c \in BySafe => <<c, "ADMIN", x.admin>> \in F
           /\ c = "InfrastructureCostOracle" => <<"InfrastructureCostOracle", "GOV", "timelock">> \in F
           /\ c = "DataContributionRegistry" =>
                /\ ~Still(F, "TokenManager", "ADMIN")
                /\ ~Still(F, "InfrastructureReserve", "PAUSER")
                /\ ~Still(F, "InfrastructureCostOracle", "GOV"),
         x.admin # "deployer"
  PROVE  FactsKnown(F \ {<<c, f, "deployer">>}, C)
<1> DEFINE G == F \ {<<c, f, "deployer">>}
<1>1. \A d, e, w : w # "deployer" => (<<d, e, w>> \in G <=> <<d, e, w>> \in F)
  OBVIOUS
<1>2. \A d, e : Still(G, d, e) <=> Still(F, d, e) /\ ~(d = c /\ e = f)
  BY DEF Still
<1>3. f # "owner" /\ f # "pauser" /\ f # "PROPOSER"
  BY DEF Revoked
<1>4. /\ \A d, w : <<d, "owner", w>> \in G <=> <<d, "owner", w>> \in F
      /\ \A d, w : <<d, "pauser", w>> \in G <=> <<d, "pauser", w>> \in F
      /\ \A d, w : <<d, "PROPOSER", w>> \in G <=> <<d, "PROPOSER", w>> \in F
  BY <1>3
<1>5. G \subseteq F
  OBVIOUS
<1> HIDE DEF G
<1>6. OwnersKnown(G)
  BY <1>2, <1>3, <1>4 DEF FactsKnown, OwnersKnown
<1>7. AdminsKnown(G, C)
  <2>1. ASSUME NEW d \in ByTimelock PROVE Still(G, d, "ADMIN") \/ <<d, "ADMIN", "timelock">> \in G
    BY <1>1, <1>2 DEF FactsKnown, AdminsKnown
  <2>2. ASSUME NEW d \in BySafe PROVE Still(G, d, "ADMIN") \/ \E y \in C : <<d, "ADMIN", y.admin>> \in G
    <3>1. CASE Still(F, d, "ADMIN")
      <4>1. CASE d = c /\ f = "ADMIN"
        <5>1. <<d, "ADMIN", x.admin>> \in F
          BY <3>1, <4>1
        <5> QED BY <1>1, <5>1
      <4> QED BY <1>2, <3>1, <4>1
    <3>2. CASE ~Still(F, d, "ADMIN")
      <4>1. PICK y \in C : <<d, "ADMIN", y.admin>> \in F
        BY <3>2 DEF FactsKnown, AdminsKnown
      <4>2. y.admin # "deployer"
        BY <3>2, <4>1 DEF Still
      <4> QED BY <1>1, <4>1, <4>2
    <3> QED BY <3>1, <3>2
  <2>3. Still(G, "InfrastructureCostOracle", "ADMIN")
          \/ <<"InfrastructureCostOracle", "GOV", "timelock">> \in G
    BY <1>1, <1>2 DEF FactsKnown, AdminsKnown
  <2> QED BY <2>1, <2>2, <2>3 DEF AdminsKnown
<1>8. GivenUpLast(G)
  BY <1>2 DEF FactsKnown, GivenUpLast
<1>9. PausersKnown(G, C)
  BY <1>2, <1>3, <1>4, <1>5 DEF FactsKnown, PausersKnown
<1>10. ProposersKnown(G, C)
  BY <1>4 DEF FactsKnown, ProposersKnown
<1> QED BY <1>6, <1>7, <1>8, <1>9, <1>10 DEF FactsKnown, G

\* What one holder's move to another does to a set of facts.
MovedIn(F, c, f, w) == {y \in F : ~(y[1] = c /\ y[2] = f)} \union {<<c, f, w>>}

LEMMA MovedIs ==
  ASSUME NEW F, NEW c, NEW f, NEW w
  PROVE  /\ \A d, e, v : ~(d = c /\ e = f) => (<<d, e, v>> \in MovedIn(F, c, f, w) <=> <<d, e, v>> \in F)
         /\ \A v : <<c, f, v>> \in MovedIn(F, c, f, w) <=> v = w
  BY DEF MovedIn

\* The factory's pauser is set while the factory is the deployer's, or stays.
LEMMA PauserKnown ==
  ASSUME NEW F, NEW C, NEW x \in C, FactsKnown(F, C), x.emergency # "deployer",
         <<"HokusaiAMMFactory", "pauser", x.emergency>> \in F \/ Still(F, "HokusaiAMMFactory", "owner")
  PROVE  FactsKnown(MovedIn(F, "HokusaiAMMFactory", "pauser", x.emergency), C)
<1> DEFINE G == MovedIn(F, "HokusaiAMMFactory", "pauser", x.emergency)
<1>1. /\ \A d, e, v : ~(d = "HokusaiAMMFactory" /\ e = "pauser") => (<<d, e, v>> \in G <=> <<d, e, v>> \in F)
      /\ \A v : <<"HokusaiAMMFactory", "pauser", v>> \in G <=> v = x.emergency
  BY MovedIs
<1> HIDE DEF G
<1>2. \A d, e : e # "pauser" => (Still(G, d, e) <=> Still(F, d, e))
  BY <1>1 DEF Still
<1>3. OwnersKnown(G)
  BY <1>1, <1>2 DEF FactsKnown, OwnersKnown
<1>4. AdminsKnown(G, C)
  BY <1>1, <1>2 DEF FactsKnown, AdminsKnown
<1>5. GivenUpLast(G)
  BY <1>2 DEF FactsKnown, GivenUpLast
<1>6. PausersKnown(G, C)
  <2>1. \A v, w : <<"HokusaiAMMFactory", "pauser", v>> \in G /\ <<"HokusaiAMMFactory", "pauser", w>> \in G => v = w
    BY <1>1
  <2>2. \E y \in C : <<"HokusaiAMMFactory", "pauser", y.emergency>> \in G
    BY <1>1
  <2>3. ASSUME NEW w, <<"DeltaVerifier", "PAUSER", w>> \in G, w # "deployer"
        PROVE  ~Still(G, "HokusaiAMMFactory", "owner") /\ <<"HokusaiAMMFactory", "pauser", w>> \in G
    <3>1. <<"DeltaVerifier", "PAUSER", w>> \in F
      BY <1>1, <2>3
    <3>2. ~Still(F, "HokusaiAMMFactory", "owner") /\ <<"HokusaiAMMFactory", "pauser", w>> \in F
      BY <2>3, <3>1 DEF FactsKnown, PausersKnown
    <3>3. <<"HokusaiAMMFactory", "pauser", x.emergency>> \in F
      BY <3>2
    <3>4. w = x.emergency
      BY <3>2, <3>3 DEF FactsKnown, PausersKnown
    <3> QED BY <1>1, <1>2, <3>2, <3>4
  <2> QED BY <2>1, <2>2, <2>3 DEF PausersKnown
<1>7. ProposersKnown(G, C)
  BY <1>1 DEF FactsKnown, ProposersKnown
<1> QED BY <1>3, <1>4, <1>5, <1>6, <1>7 DEF FactsKnown, G

\* The deployer gives a contract to the timelock; the factory after its pauser is set.
LEMMA OwnerKnown ==
  ASSUME NEW F, NEW C, NEW x \in C, NEW c \in Owned, FactsKnown(F, C), Still(F, c, "owner"),
         c = "HokusaiAMMFactory" => <<"HokusaiAMMFactory", "pauser", x.emergency>> \in F
  PROVE  FactsKnown(MovedIn(F, c, "owner", "timelock"), C)
<1> DEFINE G == MovedIn(F, c, "owner", "timelock")
<1>1. /\ \A d, e, v : ~(d = c /\ e = "owner") => (<<d, e, v>> \in G <=> <<d, e, v>> \in F)
      /\ \A v : <<c, "owner", v>> \in G <=> v = "timelock"
  BY MovedIs
<1> HIDE DEF G
<1>2. /\ \A d, e : e # "owner" => (Still(G, d, e) <=> Still(F, d, e))
      /\ \A d : d # c => (Still(G, d, "owner") <=> Still(F, d, "owner"))
      /\ ~Still(G, c, "owner")
  BY <1>1 DEF Still
<1>3. OwnersKnown(G)
  BY <1>1, <1>2 DEF FactsKnown, OwnersKnown
<1>4. AdminsKnown(G, C)
  BY <1>1, <1>2 DEF FactsKnown, AdminsKnown
<1>5. GivenUpLast(G)
  BY <1>2 DEF FactsKnown, GivenUpLast
<1>6. PausersKnown(G, C)
  <2>1. \A v : <<"HokusaiAMMFactory", "pauser", v>> \in G <=> <<"HokusaiAMMFactory", "pauser", v>> \in F
    BY <1>1
  <2>2. \A v : <<"DeltaVerifier", "PAUSER", v>> \in G <=> <<"DeltaVerifier", "PAUSER", v>> \in F
    BY <1>1
  <2>3. ~Still(F, "HokusaiAMMFactory", "owner") => ~Still(G, "HokusaiAMMFactory", "owner")
    BY <1>2
  <2>4. Still(G, "HokusaiAMMFactory", "owner") \/ \E y \in C : <<"HokusaiAMMFactory", "pauser", y.emergency>> \in G
    BY <1>2, <2>1 DEF FactsKnown, PausersKnown
  <2> QED BY <2>1, <2>2, <2>3, <2>4 DEF FactsKnown, PausersKnown
<1>7. ProposersKnown(G, C)
  BY <1>1 DEF FactsKnown, ProposersKnown
<1> QED BY <1>3, <1>4, <1>5, <1>6, <1>7 DEF FactsKnown, G

\* AfterTask, of any facts.
DoneIn(F, t) ==
  CASE t.op = "role" /\ Still(F, t.on, "ADMIN") -> F \union {<<t.on, t.field, t.to>>}
    [] t.op = "owner" /\ Still(F, t.on, "owner") -> MovedIn(F, t.on, t.field, t.to)
    [] t.op = "setter" -> MovedIn(F, t.on, t.field, t.to)
    [] t.op = "renounce" -> F \ {<<t.on, t.field, t.to>>}
    [] OTHER -> F

LEMMA DoneIs ==
  ASSUME NEW F, NEW c, NEW f, NEW w
  PROVE  /\ Still(F, c, "ADMIN") => DoneIn(F, Task("role", c, f, w)) = F \union {<<c, f, w>>}
         /\ ~Still(F, c, "ADMIN") => DoneIn(F, Task("role", c, f, w)) = F
         /\ Still(F, c, "owner") => DoneIn(F, Task("owner", c, f, w)) = MovedIn(F, c, f, w)
         /\ ~Still(F, c, "owner") => DoneIn(F, Task("owner", c, f, w)) = F
         /\ DoneIn(F, Task("setter", c, f, w)) = MovedIn(F, c, f, w)
         /\ DoneIn(F, Task("renounce", c, f, w)) = F \ {<<c, f, w>>}
  BY DEF DoneIn, Task

\* The five kinds of transaction.
LEMMA TaskKinds ==
  ASSUME NEW x, NEW R, NEW t \in HandoffTasks(x, R)
  PROVE  \/ \E g \in Grants(x, R) : t = Task("role", g[1], g[2], g[3])
         \/ t = Task("setter", "HokusaiAMMFactory", "pauser", x.emergency)
         \/ \E c \in Owned : t = Task("owner", c, "owner", "timelock")
         \/ \E m \in Models : t = Task("owner", m, "owner", x.admin)
         \/ \E c \in Stack \union Models : \E f \in Revoked : t = Task("renounce", c, f, "deployer")
  BY DEF HandoffTasks, SetPauser

LEMMA GrantsAre ==
  ASSUME NEW x, NEW R, NEW g \in Grants(x, R), x.admin # "deployer", x.emergency # "deployer"
  PROVE  /\ g = <<g[1], g[2], g[3]>> /\ g[1] \in Stack
         /\ \/ g[2] = "ADMIN" /\ g[1] \in ByTimelock /\ g[3] = "timelock"
            \/ g[2] = "ADMIN" /\ g[1] \in BySafe /\ g[3] = x.admin
            \/ g[1] = "DeltaVerifier" /\ g[2] = "PAUSER" /\ g[3] = x.emergency
            \/ g[1] = "InfrastructureReserve" /\ g[2] = "PAUSER" /\ g[3] = x.emergency
            \/ g[1] = "InfrastructureCostOracle" /\ g[2] = "GOV" /\ g[3] = "timelock"
            \/ g[2] \in Others
         /\ g[2] \in {"ADMIN", "PAUSER", "GOV"} => g[3] # "deployer"
         /\ g[2] # "owner" /\ g[2] # "pauser" /\ g[2] # "PROPOSER"
  BY DEF Grants, Others, Stack, Owned, ByTimelock, BySafe

\* What was given on, or given up, stays so.
Keeps(x, F, G) ==
  /\ \A c : \A f \in {"ADMIN", "PAUSER", "GOV"} :
       /\ ~Still(F, c, f) => ~Still(G, c, f)
       /\ \A w : w # "deployer" /\ <<c, f, w>> \in F => <<c, f, w>> \in G
  /\ ~Still(F, "HokusaiAMMFactory", "owner") => ~Still(G, "HokusaiAMMFactory", "owner")
  /\ <<"HokusaiAMMFactory", "pauser", x.emergency>> \in F => <<"HokusaiAMMFactory", "pauser", x.emergency>> \in G

LEMMA TaskKeeps ==
  ASSUME NEW F, NEW x, x.admin # "deployer", x.emergency # "deployer", NEW R, NEW t \in HandoffTasks(x, R)
  PROVE  Keeps(x, F, DoneIn(F, t))
<1>1. ASSUME NEW g \in Grants(x, R) PROVE Keeps(x, F, F \union {g})
  <2>1. /\ g = <<g[1], g[2], g[3]>>
        /\ g[2] \in {"ADMIN", "PAUSER", "GOV"} => g[3] # "deployer"
        /\ g[2] # "owner"
    BY GrantsAre
  <2> QED BY <2>1 DEF Keeps, Still
<1>2. Keeps(x, F, F)
  BY DEF Keeps
<1>3. ASSUME NEW c, NEW f, NEW w, f = "owner" \/ f = "pauser", f = "pauser" => w = x.emergency,
             c = "HokusaiAMMFactory" => w # "deployer"
      PROVE  Keeps(x, F, MovedIn(F, c, f, w))
  <2> DEFINE G == MovedIn(F, c, f, w)
  <2>1. /\ \A d, e, v : ~(d = c /\ e = f) => (<<d, e, v>> \in G <=> <<d, e, v>> \in F)
        /\ \A v : <<c, f, v>> \in G <=> v = w
    BY MovedIs
  <2> HIDE DEF G
  <2>2. \A d : \A e \in {"ADMIN", "PAUSER", "GOV"} : \A v : <<d, e, v>> \in G <=> <<d, e, v>> \in F
    BY <1>3, <2>1
  <2>3. ~Still(F, "HokusaiAMMFactory", "owner") => ~Still(G, "HokusaiAMMFactory", "owner")
    BY <1>3, <2>1 DEF Still
  <2>4. <<"HokusaiAMMFactory", "pauser", x.emergency>> \in F => <<"HokusaiAMMFactory", "pauser", x.emergency>> \in G
    BY <1>3, <2>1
  <2> QED BY <2>2, <2>3, <2>4 DEF Keeps, Still, G
<1>4. ASSUME NEW c, NEW f \in Revoked PROVE Keeps(x, F, F \ {<<c, f, "deployer">>})
  BY <1>4 DEF Keeps, Still, Revoked
<1>5. CASE \E g \in Grants(x, R) : t = Task("role", g[1], g[2], g[3])
  <2>1. PICK g \in Grants(x, R) : t = Task("role", g[1], g[2], g[3])
    BY <1>5
  <2>2. g = <<g[1], g[2], g[3]>>
    BY GrantsAre
  <2>3. DoneIn(F, t) = F \/ DoneIn(F, t) = F \union {g}
    BY <2>1, <2>2, DoneIs
  <2> QED BY <1>1, <1>2, <2>3
<1>6. CASE t = Task("setter", "HokusaiAMMFactory", "pauser", x.emergency)
  BY <1>3, <1>6, DoneIs
<1>7. CASE \E c \in Owned : t = Task("owner", c, "owner", "timelock")
  <2>1. PICK c \in Owned : t = Task("owner", c, "owner", "timelock")
    BY <1>7
  <2>2. DoneIn(F, t) = F \/ DoneIn(F, t) = MovedIn(F, c, "owner", "timelock")
    BY <2>1, DoneIs
  <2> QED BY <1>2, <1>3, <2>2
<1>8. CASE \E m \in Models : t = Task("owner", m, "owner", x.admin)
  <2>1. PICK m \in Models : t = Task("owner", m, "owner", x.admin)
    BY <1>8
  <2>2. DoneIn(F, t) = F \/ DoneIn(F, t) = MovedIn(F, m, "owner", x.admin)
    BY <2>1, DoneIs
  <2> QED BY <1>2, <1>3, <2>2
<1>9. CASE \E c \in Stack \union Models : \E f \in Revoked : t = Task("renounce", c, f, "deployer")
  <2>1. PICK c \in Stack \union Models, f \in Revoked : t = Task("renounce", c, f, "deployer")
    BY <1>9
  <2>2. DoneIn(F, t) = F \ {<<c, f, "deployer">>}
    BY <2>1, DoneIs
  <2> QED BY <1>4, <2>2
<1> QED BY <1>5, <1>6, <1>7, <1>8, <1>9, TaskKinds

\* A handoff stays in its order, and does what the order waits for.
LEMMA OrderKept ==
  ASSUME NEW F, NEW x, x.admin # "deployer", x.emergency # "deployer", NEW R,
         NEW todo \in Seq(HandoffTasks(x, R)), todo # <<>>, HandoffOrder(x, todo, F)
  PROVE  HandoffOrder(x, Tail(todo), DoneIn(F, Head(todo)))
<1> DEFINE t == Head(todo)
           G == DoneIn(F, t)
           s == Tail(todo)
<1>1. \A a, b : Precedes(todo, a, b) => t = a \/ Precedes(s, a, b)
  BY Shortened
<1>2. Keeps(x, F, G)
  <2>1. t \in HandoffTasks(x, R)
    BY Shortened
  <2> QED BY <2>1, TaskKeeps
<1>3. /\ \A c, f : ~Still(F, c, f) /\ f \in {"ADMIN", "PAUSER", "GOV"} => ~Still(G, c, f)
      /\ \A c, f, w : w # "deployer" /\ f \in {"ADMIN", "PAUSER", "GOV"} /\ <<c, f, w>> \in F => <<c, f, w>> \in G
      /\ ~Still(F, "HokusaiAMMFactory", "owner") => ~Still(G, "HokusaiAMMFactory", "owner")
      /\ <<"HokusaiAMMFactory", "pauser", x.emergency>> \in F => <<"HokusaiAMMFactory", "pauser", x.emergency>> \in G
  BY <1>2, Zenon DEF Keeps
<1>4. ASSUME NEW c, NEW f, NEW w, t = Task("role", c, f, w) PROVE ~Still(F, c, "ADMIN") \/ <<c, f, w>> \in G
  BY <1>4, DoneIs
<1>5. t = SetPauser(x) => <<"HokusaiAMMFactory", "pauser", x.emergency>> \in G
  BY DoneIs, MovedIs DEF SetPauser
<1>6. t = Task("owner", "HokusaiAMMFactory", "owner", "timelock") => ~Still(G, "HokusaiAMMFactory", "owner")
  <2> SUFFICES ASSUME t = Task("owner", "HokusaiAMMFactory", "owner", "timelock")
               PROVE  ~Still(G, "HokusaiAMMFactory", "owner")
    OBVIOUS
  <2>1. CASE Still(F, "HokusaiAMMFactory", "owner")
    <3>1. G = MovedIn(F, "HokusaiAMMFactory", "owner", "timelock")
      BY <2>1, DoneIs
    <3> QED BY <3>1, MovedIs DEF Still
  <2>2. CASE ~Still(F, "HokusaiAMMFactory", "owner")
    BY <1>3, <2>2
  <2> QED BY <2>1, <2>2
<1>7. ASSUME NEW c, NEW f, t = Task("renounce", c, f, "deployer") PROVE ~Still(G, c, f)
  <2>1. G = F \ {<<c, f, "deployer">>}
    BY <1>7, DoneIs
  <2> HIDE DEF G
  <2> QED BY <2>1 DEF Still
<1> HIDE DEF t, G, s
<1>8. RolesFirst(x, s, G)
  <2>1. ASSUME NEW c \in ByTimelock
        PROVE  ~Still(G, c, "ADMIN") \/ <<c, "ADMIN", "timelock">> \in G
                 \/ Precedes(s, Task("role", c, "ADMIN", "timelock"), Task("renounce", c, "ADMIN", "deployer"))
    BY <1>1, <1>3, <1>4 DEF HandoffOrder, RolesFirst
  <2>2. ASSUME NEW c \in BySafe
        PROVE  ~Still(G, c, "ADMIN") \/ <<c, "ADMIN", x.admin>> \in G
                 \/ Precedes(s, Task("role", c, "ADMIN", x.admin), Task("renounce", c, "ADMIN", "deployer"))
    BY <1>1, <1>3, <1>4 DEF HandoffOrder, RolesFirst
  <2>3. ~Still(G, "InfrastructureCostOracle", "ADMIN") \/ <<"InfrastructureCostOracle", "GOV", "timelock">> \in G
          \/ Precedes(s, Task("role", "InfrastructureCostOracle", "GOV", "timelock"),
                      Task("renounce", "InfrastructureCostOracle", "ADMIN", "deployer"))
    BY <1>1, <1>3, <1>4 DEF HandoffOrder, RolesFirst
  <2> QED BY <2>1, <2>2, <2>3 DEF RolesFirst
<1>9. PauserFirst(x, s, G)
  <2>1. ASSUME NEW b \in {Task("owner", "HokusaiAMMFactory", "owner", "timelock"),
                          Task("role", "DeltaVerifier", "PAUSER", x.emergency)}
        PROVE  <<"HokusaiAMMFactory", "pauser", x.emergency>> \in G \/ Precedes(s, SetPauser(x), b)
    BY <1>1, <1>3, <1>5 DEF HandoffOrder, PauserFirst
  <2>2. ~Still(G, "HokusaiAMMFactory", "owner")
          \/ Precedes(s, Task("owner", "HokusaiAMMFactory", "owner", "timelock"),
                      Task("role", "DeltaVerifier", "PAUSER", x.emergency))
    BY <1>1, <1>3, <1>6 DEF HandoffOrder, PauserFirst
  <2> QED BY <2>1, <2>2 DEF PauserFirst
<1>10. RegistryLast(s, G)
  <2> SUFFICES ASSUME NEW g \in {<<"TokenManager", "ADMIN">>, <<"InfrastructureReserve", "PAUSER">>,
                                 <<"InfrastructureCostOracle", "GOV">>}
               PROVE  ~Still(G, g[1], g[2])
                        \/ Precedes(s, Task("renounce", g[1], g[2], "deployer"),
                                    Task("renounce", "DataContributionRegistry", "ADMIN", "deployer"))
    BY DEF RegistryLast
  <2>1. ~Still(F, g[1], g[2])
          \/ Precedes(todo, Task("renounce", g[1], g[2], "deployer"),
                      Task("renounce", "DataContributionRegistry", "ADMIN", "deployer"))
    BY DEF HandoffOrder, RegistryLast
  <2>2. g[2] \in {"ADMIN", "PAUSER", "GOV"}
    OBVIOUS
  <2> QED BY <1>1, <1>3, <1>7, <2>1, <2>2
<1> QED BY <1>8, <1>9, <1>10 DEF HandoffOrder, s, G, t

\* A transaction that is not reverted, in the order of a handoff, loses no governor.
LEMMA TaskKnown ==
  ASSUME NEW F, NEW C, NEW x \in C, x.admin # "deployer", x.emergency # "deployer", NEW R,
         NEW todo \in Seq(HandoffTasks(x, R)), todo # <<>>, HandoffOrder(x, todo, F), FactsKnown(F, C),
         Head(todo) = SetPauser(x) =>
           <<"HokusaiAMMFactory", "pauser", x.emergency>> \in F \/ Still(F, "HokusaiAMMFactory", "owner")
  PROVE  FactsKnown(DoneIn(F, Head(todo)), C)
<1> DEFINE t == Head(todo)
<1>1. t \in HandoffTasks(x, R) /\ \A a, b : Precedes(todo, a, b) => t # b
  BY Shortened
<1> HIDE DEF t
<1>2. /\ \A c \in ByTimelock : t = Task("renounce", c, "ADMIN", "deployer") =>
           ~Still(F, c, "ADMIN") \/ <<c, "ADMIN", "timelock">> \in F
      /\ \A c \in BySafe : t = Task("renounce", c, "ADMIN", "deployer") =>
           ~Still(F, c, "ADMIN") \/ <<c, "ADMIN", x.admin>> \in F
      /\ t = Task("renounce", "InfrastructureCostOracle", "ADMIN", "deployer") =>
           ~Still(F, "InfrastructureCostOracle", "ADMIN")
             \/ <<"InfrastructureCostOracle", "GOV", "timelock">> \in F
  BY <1>1 DEF HandoffOrder, RolesFirst
<1>3. /\ t = Task("owner", "HokusaiAMMFactory", "owner", "timelock") =>
           <<"HokusaiAMMFactory", "pauser", x.emergency>> \in F
      /\ t = Task("role", "DeltaVerifier", "PAUSER", x.emergency) =>
           <<"HokusaiAMMFactory", "pauser", x.emergency>> \in F /\ ~Still(F, "HokusaiAMMFactory", "owner")
  BY <1>1 DEF HandoffOrder, PauserFirst
<1>4. t = Task("renounce", "DataContributionRegistry", "ADMIN", "deployer") =>
        /\ ~Still(F, "TokenManager", "ADMIN")
        /\ ~Still(F, "InfrastructureReserve", "PAUSER")
        /\ ~Still(F, "InfrastructureCostOracle", "GOV")
  <2>1. \A g \in {<<"TokenManager", "ADMIN">>, <<"InfrastructureReserve", "PAUSER">>,
                  <<"InfrastructureCostOracle", "GOV">>} :
          t = Task("renounce", "DataContributionRegistry", "ADMIN", "deployer") => ~Still(F, g[1], g[2])
    BY <1>1 DEF HandoffOrder, RegistryLast
  <2>2. /\ <<"TokenManager", "ADMIN">>[1] = "TokenManager" /\ <<"TokenManager", "ADMIN">>[2] = "ADMIN"
        /\ <<"InfrastructureReserve", "PAUSER">>[1] = "InfrastructureReserve"
        /\ <<"InfrastructureReserve", "PAUSER">>[2] = "PAUSER"
        /\ <<"InfrastructureCostOracle", "GOV">>[1] = "InfrastructureCostOracle"
        /\ <<"InfrastructureCostOracle", "GOV">>[2] = "GOV"
    OBVIOUS
  <2> QED BY <2>1, <2>2
<1>5. ASSUME NEW g \in Grants(x, R), t = Task("role", g[1], g[2], g[3]) PROVE FactsKnown(DoneIn(F, t), C)
  <2>1. g = <<g[1], g[2], g[3]>>
    BY GrantsAre
  <2>2. CASE Still(F, g[1], "ADMIN")
    <3>1. DoneIn(F, t) = F \union {g}
      BY <1>5, <2>1, <2>2, DoneIs
    <3>2. g = <<"DeltaVerifier", "PAUSER", x.emergency>> =>
            <<"HokusaiAMMFactory", "pauser", x.emergency>> \in F /\ ~Still(F, "HokusaiAMMFactory", "owner")
      BY <1>3, <1>5
    <3> QED BY <3>1, <3>2, GrantKnown
  <2>3. CASE ~Still(F, g[1], "ADMIN")
    <3>1. DoneIn(F, t) = F
      BY <1>5, <2>3, DoneIs
    <3> QED BY <3>1
  <2> QED BY <2>2, <2>3
<1>6. CASE t = Task("setter", "HokusaiAMMFactory", "pauser", x.emergency)
  <2>1. DoneIn(F, t) = MovedIn(F, "HokusaiAMMFactory", "pauser", x.emergency)
    BY <1>6, DoneIs
  <2>2. <<"HokusaiAMMFactory", "pauser", x.emergency>> \in F \/ Still(F, "HokusaiAMMFactory", "owner")
    BY <1>6 DEF SetPauser, t
  <2>3. FactsKnown(MovedIn(F, "HokusaiAMMFactory", "pauser", x.emergency), C)
    BY <2>2, PauserKnown
  <2> QED BY <2>1, <2>3 DEF t
<1>7. ASSUME NEW c \in Owned, t = Task("owner", c, "owner", "timelock") PROVE FactsKnown(DoneIn(F, t), C)
  <2>1. CASE Still(F, c, "owner")
    <3>1. DoneIn(F, t) = MovedIn(F, c, "owner", "timelock")
      BY <1>7, <2>1, DoneIs
    <3>2. c = "HokusaiAMMFactory" => <<"HokusaiAMMFactory", "pauser", x.emergency>> \in F
      BY <1>3, <1>7
    <3> QED BY <2>1, <3>1, <3>2, OwnerKnown
  <2>2. CASE ~Still(F, c, "owner")
    <3>1. DoneIn(F, t) = F
      BY <1>7, <2>2, DoneIs
    <3> QED BY <3>1
  <2> QED BY <2>1, <2>2
<1>8. ASSUME NEW m \in Models, t = Task("owner", m, "owner", x.admin) PROVE FactsKnown(DoneIn(F, t), C)
  <2>1. SameHolders(F, DoneIn(F, t))
    <3>1. CASE Still(F, m, "owner")
      <4>1. DoneIn(F, t) = MovedIn(F, m, "owner", x.admin)
        BY <1>8, <3>1, DoneIs
      <4>2. \A c, f, w : ~(c = m /\ f = "owner") => (<<c, f, w>> \in DoneIn(F, t) <=> <<c, f, w>> \in F)
        BY <4>1, MovedIs
      <4>3. <<m, "owner">> \notin Guarded
        BY ModelsApart DEF Guarded, Stack
      <4> QED BY <4>2, <4>3 DEF SameHolders
    <3>2. CASE ~Still(F, m, "owner")
      <4>1. DoneIn(F, t) = F
        BY <1>8, <3>2, DoneIs
      <4> QED BY <4>1 DEF SameHolders
    <3> QED BY <3>1, <3>2
  <2> QED BY <2>1, UntouchedKnown
<1>9. ASSUME NEW c \in Stack \union Models, NEW f \in Revoked, t = Task("renounce", c, f, "deployer")
      PROVE  FactsKnown(DoneIn(F, t), C)
  <2>1. DoneIn(F, t) = F \ {<<c, f, "deployer">>}
    BY <1>9, DoneIs
  <2>2. f = "ADMIN" /\ Still(F, c, "ADMIN") =>
           /\ c \in ByTimelock => <<c, "ADMIN", "timelock">> \in F
           /\ c \in BySafe => <<c, "ADMIN", x.admin>> \in F
           /\ c = "InfrastructureCostOracle" => <<"InfrastructureCostOracle", "GOV", "timelock">> \in F
           /\ c = "DataContributionRegistry" =>
                /\ ~Still(F, "TokenManager", "ADMIN")
                /\ ~Still(F, "InfrastructureReserve", "PAUSER")
                /\ ~Still(F, "InfrastructureCostOracle", "GOV")
    BY <1>2, <1>4, <1>9
  <2> QED BY <2>1, <2>2, RevokeKnown
<1> QED BY <1>1, <1>5, <1>6, <1>7, <1>8, <1>9, TaskKinds DEF t

-----------------------------------------------------------------------------
(* The plan of a handoff.                                                  *)

HoldersFor(e, k, x) == Resolve(e.roles[k][2], e.contract, e.roles[k][1], x)

LEMMA RoleTasksAre ==
  ASSUME NEW e, NEW x, NEW n \in Nat, DOMAIN e.roles = 1..n, NEW T,
         \A k \in 1..n : /\ IsFiniteSet(HoldersFor(e, k, x))
                         /\ \A w \in HoldersFor(e, k, x) : Task("role", e.contract, e.roles[k][1], w) \in T
  PROVE  /\ RoleTasks(e, x) \in Seq(T)
         /\ \A k \in 1..n : \A w \in HoldersFor(e, k, x) :
              Holds(RoleTasks(e, x), Task("role", e.contract, e.roles[k][1], w))
         /\ \A t : Holds(RoleTasks(e, x), t) => t.op = "role" /\ t.on = e.contract
<1> DEFINE One_(k) == LET h == SetToSeq(HoldersFor(e, k, x))
                      IN [j \in DOMAIN h |-> Task("role", e.contract, e.roles[k][1], h[j])]
           ss == [k \in 1..n |-> One_(k)]
<1>1. RoleTasks(e, x) = FlattenSeq(ss)
  BY DEF RoleTasks, HoldersFor
<1>2. ASSUME NEW k \in 1..n
      PROVE  /\ One_(k) \in Seq(T)
             /\ \A w \in HoldersFor(e, k, x) : Holds(One_(k), Task("role", e.contract, e.roles[k][1], w))
             /\ \A t : Holds(One_(k), t) => t.op = "role" /\ t.on = e.contract
  <2> DEFINE S == HoldersFor(e, k, x)
             h == SetToSeq(S)
  <2>1. IsFiniteSet(S) /\ \A w \in S : Task("role", e.contract, e.roles[k][1], w) \in T
    OBVIOUS
  <2> HIDE DEF S
  <2>2. /\ h \in Seq(S) /\ \A w \in S : \E i \in DOMAIN h : h[i] = w
    BY <2>1, Listed
  <2> HIDE DEF h
  <2> DEFINE r == [j \in DOMAIN h |-> Task("role", e.contract, e.roles[k][1], h[j])]
  <2>3. One_(k) = r
    BY DEF h, S
  <2>4. DOMAIN h = 1..Len(h) /\ Len(h) \in Nat /\ \A j \in DOMAIN h : h[j] \in S
    BY <2>2
  <2>5. DOMAIN r = DOMAIN h /\ \A j \in DOMAIN h : r[j] = Task("role", e.contract, e.roles[k][1], h[j])
    OBVIOUS
  <2>6. r \in [1..Len(h) -> T]
    BY <2>1, <2>4
  <2>7. r \in Seq(T)
    BY <2>4, <2>6
  <2> HIDE DEF r
  <2>8. \A w \in S : Holds(r, Task("role", e.contract, e.roles[k][1], w))
    <3> TAKE w \in S
    <3>1. PICK i \in DOMAIN h : h[i] = w
      BY <2>2
    <3>2. r[i] = Task("role", e.contract, e.roles[k][1], w) /\ i \in DOMAIN r
      BY <2>5, <3>1
    <3> QED BY <3>2, Zenon DEF Holds
  <2>9. \A t : Holds(r, t) => t.op = "role" /\ t.on = e.contract
    BY <2>5 DEF Holds, Task
  <2> QED BY <2>3, <2>7, <2>8, <2>9 DEF S
<1> HIDE DEF One_
<1>3. ss \in Seq(Seq(T)) /\ DOMAIN ss = 1..n /\ \A k \in 1..n : ss[k] = One_(k)
  BY <1>2
<1> HIDE DEF ss
<1>4. /\ FlattenSeq(ss) \in Seq(T)
      /\ \A k \in DOMAIN ss : \A o \in DOMAIN ss[k] : Holds(FlattenSeq(ss), ss[k][o])
      /\ \A i \in DOMAIN FlattenSeq(ss) : \E k \in DOMAIN ss : Holds(ss[k], FlattenSeq(ss)[i])
  BY <1>3, Flattened
<1> DEFINE s == FlattenSeq(ss)
<1> HIDE DEF s
<1>5. ASSUME NEW k \in 1..n, NEW w \in HoldersFor(e, k, x)
      PROVE  Holds(s, Task("role", e.contract, e.roles[k][1], w))
  <2>1. PICK o \in DOMAIN ss[k] : ss[k][o] = Task("role", e.contract, e.roles[k][1], w)
    BY <1>2, <1>3 DEF Holds
  <2>2. Holds(s, ss[k][o])
    BY <1>3, <1>4 DEF s
  <2> QED BY <2>1, <2>2
<1>6. ASSUME NEW t, Holds(s, t) PROVE t.op = "role" /\ t.on = e.contract
  <2>1. PICK i \in DOMAIN s : s[i] = t
    BY <1>6 DEF Holds
  <2>2. PICK k \in DOMAIN ss : Holds(ss[k], t)
    BY <1>4, <2>1 DEF s
  <2> QED BY <1>2, <1>3, <2>2
<1> QED BY <1>1, <1>4, <1>5, <1>6 DEF s

\* What one contract's tasks are, and in which order.
LEMMA ContractTasksAre ==
  ASSUME NEW e, NEW x, NEW n \in Nat, DOMAIN e.roles = 1..n, NEW l \in Nat, DOMAIN e.revoked = 1..l, NEW T,
         \A k \in 1..n : /\ IsFiniteSet(HoldersFor(e, k, x))
                         /\ \A w \in HoldersFor(e, k, x) : Task("role", e.contract, e.roles[k][1], w) \in T,
         \A i \in 1..l : Task("renounce", e.contract, e.revoked[i], "deployer") \in T,
         e.contract = "HokusaiAMMFactory" => SetPauser(x) \in T,
         NEW o, e.owner # Unset => o \in T /\ OwnerTasks(e, x) = <<o>> /\ o.op = "owner" /\ o.on = e.contract
  PROVE  /\ ContractTasks(e, x) \in Seq(T)
         /\ \A t : Holds(ContractTasks(e, x), t) => t.on = e.contract
         /\ \A k \in 1..n : \A w \in HoldersFor(e, k, x) :
              /\ Holds(ContractTasks(e, x), Task("role", e.contract, e.roles[k][1], w))
              /\ \A c, f : Precedes(ContractTasks(e, x), Task("role", e.contract, e.roles[k][1], w),
                                    Task("renounce", c, f, "deployer"))
         /\ \A i \in 1..l : Holds(ContractTasks(e, x), Task("renounce", e.contract, e.revoked[i], "deployer"))
         /\ e.contract = "HokusaiAMMFactory" =>
              /\ Holds(ContractTasks(e, x), SetPauser(x))
              /\ \A c, f, w : Precedes(ContractTasks(e, x), SetPauser(x), Task("owner", c, f, w))
         /\ e.owner # Unset => Holds(ContractTasks(e, x), o)
<1> DEFINE rt == RoleTasks(e, x)
           st == SetterTasks(e, x)
           ot == OwnerTasks(e, x)
           nt == RenounceTasks(e)
<1>1. /\ rt \in Seq(T)
      /\ \A k \in 1..n : \A w \in HoldersFor(e, k, x) : Holds(rt, Task("role", e.contract, e.roles[k][1], w))
      /\ \A t : Holds(rt, t) => t.op = "role" /\ t.on = e.contract
  BY RoleTasksAre
<1>2. /\ st \in Seq(T)
      /\ \A t : Holds(st, t) => t.op = "setter" /\ t.on = e.contract
      /\ e.contract = "HokusaiAMMFactory" => Holds(st, SetPauser(x))
  BY DEF SetterTasks, SetPauser, Holds, Task
<1>3. /\ ot \in Seq(T)
      /\ \A t : Holds(ot, t) => t.op = "owner" /\ t.on = e.contract
      /\ e.owner # Unset => Holds(ot, o)
  <2>1. CASE e.owner = Unset
    <3>1. ot = <<>>
      BY <2>1 DEF OwnerTasks
    <3> QED BY <2>1, <3>1 DEF Holds
  <2>2. CASE e.owner # Unset
    <3>1. ot = <<o>> /\ o \in T /\ o.op = "owner" /\ o.on = e.contract
      BY <2>2
    <3> HIDE DEF ot
    <3> QED BY <3>1 DEF Holds
  <2> QED BY <2>1, <2>2
<1>4. /\ nt \in Seq(T)
      /\ \A t : Holds(nt, t) => t.op = "renounce" /\ t.on = e.contract
      /\ \A i \in 1..l : Holds(nt, Task("renounce", e.contract, e.revoked[i], "deployer"))
  <2>1. DOMAIN nt = 1..l /\ \A i \in 1..l : nt[i] = Task("renounce", e.contract, e.revoked[i], "deployer")
    BY DEF RenounceTasks
  <2>2. nt \in [1..l -> T]
    BY DEF RenounceTasks
  <2>3. nt \in Seq(T)
    BY <2>2
  <2> HIDE DEF nt
  <2>4. \A i \in 1..l : nt[i].op = "renounce" /\ nt[i].on = e.contract
    BY <2>1 DEF Task
  <2> QED BY <2>1, <2>3, <2>4 DEF Holds
<1>5. /\ \A c, f, w : Task("role", c, f, w).op = "role" /\ Task("owner", c, f, w).op = "owner"
                      /\ Task("renounce", c, f, w).op = "renounce"
      /\ SetPauser(x).op = "setter"
  BY DEF Task, SetPauser
<1> HIDE DEF rt, st, ot, nt
<1> DEFINE t1 == rt \o st
           t2 == t1 \o ot
           t3 == t2 \o nt
<1>6. /\ t1 \in Seq(T)
      /\ \A t : Holds(t1, t) <=> Holds(rt, t) \/ Holds(st, t)
      /\ \A a, b : Precedes(rt, a, b) /\ (Holds(rt, a) \/ Precedes(st, a, b)) => Precedes(t1, a, b)
  BY <1>1, <1>2, Concatenated
<1> HIDE DEF t1
<1>7. /\ t2 \in Seq(T)
      /\ \A t : Holds(t2, t) <=> Holds(t1, t) \/ Holds(ot, t)
      /\ \A a, b : Precedes(t1, a, b) /\ (Holds(t1, a) \/ Precedes(ot, a, b)) => Precedes(t2, a, b)
  BY <1>3, <1>6, Concatenated
<1> HIDE DEF t2
<1>8. /\ t3 \in Seq(T)
      /\ \A t : Holds(t3, t) <=> Holds(t2, t) \/ Holds(nt, t)
      /\ \A a, b : Precedes(t2, a, b) /\ (Holds(t2, a) \/ Precedes(nt, a, b)) => Precedes(t3, a, b)
  BY <1>4, <1>7, Concatenated
<1> HIDE DEF t3
<1>9. ContractTasks(e, x) = t3
  BY DEF ContractTasks, rt, st, ot, nt, t1, t2, t3
<1>10. \A s, a, b : ~Holds(s, b) => Precedes(s, a, b)
  BY Zenon DEF Holds, Precedes
<1>11. ASSUME NEW k \in 1..n, NEW w \in HoldersFor(e, k, x), NEW c, NEW f
       PROVE  /\ Holds(t3, Task("role", e.contract, e.roles[k][1], w))
              /\ Precedes(t3, Task("role", e.contract, e.roles[k][1], w), Task("renounce", c, f, "deployer"))
  <2> DEFINE a == Task("role", e.contract, e.roles[k][1], w)
             b == Task("renounce", c, f, "deployer")
  <2>1. Holds(rt, a)
    BY <1>1
  <2>2. b.op = "renounce"
    BY <1>5
  <2> HIDE DEF a, b
  <2>3. ~Holds(rt, b) /\ ~Holds(st, b) /\ ~Holds(ot, b)
    BY <1>1, <1>2, <1>3, <2>2
  <2>4. Holds(t2, a) /\ ~Holds(t2, b)
    BY <1>6, <1>7, <2>1, <2>3
  <2>5. Precedes(t2, a, b)
    BY <1>10, <2>4
  <2> QED BY <1>8, <2>4, <2>5 DEF a, b
<1>12. ASSUME e.contract = "HokusaiAMMFactory", NEW c, NEW f, NEW w
       PROVE  Holds(t3, SetPauser(x)) /\ Precedes(t3, SetPauser(x), Task("owner", c, f, w))
  <2> DEFINE a == SetPauser(x)
             b == Task("owner", c, f, w)
  <2>1. Holds(st, a) /\ b.op = "owner"
    BY <1>2, <1>5, <1>12
  <2> HIDE DEF a, b
  <2>2. ~Holds(rt, b) /\ ~Holds(st, b) /\ ~Holds(nt, b)
    BY <1>1, <1>2, <1>4, <2>1
  <2>3. Holds(t1, a) /\ ~Holds(t1, b)
    BY <1>6, <2>1, <2>2
  <2>4. Precedes(t1, a, b)
    BY <1>10, <2>3
  <2>5. Holds(t2, a) /\ Precedes(t2, a, b)
    BY <1>7, <2>3, <2>4
  <2> QED BY <1>8, <2>5 DEF a, b
<1>13. \A t : Holds(t3, t) => t.on = e.contract
  BY <1>1, <1>2, <1>3, <1>4, <1>6, <1>7, <1>8
<1>14. /\ \A i \in 1..l : Holds(t3, Task("renounce", e.contract, e.revoked[i], "deployer"))
       /\ e.owner # Unset => Holds(t3, o)
  BY <1>3, <1>4, <1>7, <1>8
<1> QED BY <1>8, <1>9, <1>11, <1>12, <1>13, <1>14

\* Each entry of the policy asks only for what a handoff may do.
RoleFits(c, role, symbol, x, T) ==
  /\ IsFiniteSet(Resolve(symbol, c, role, x))
  /\ \A w \in Resolve(symbol, c, role, x) : Task("role", c, role, w) \in T

LEMMA RolesFit ==
  ASSUME NEW x, x.timelock = "timelock", IsFiniteSet(artifact.roles)
  PROVE  LET T == HandoffTasks(x, Recorded(x)) IN
         /\ \A c \in ByTimelock : RoleFits(c, "ADMIN", "TIMELOCK", x, T)
         /\ \A c \in BySafe : RoleFits(c, "ADMIN", "ADMIN_SAFE", x, T)
         /\ RoleFits("DeltaVerifier", "PAUSER", "EMERGENCY_SAFE", x, T)
         /\ RoleFits("InfrastructureReserve", "PAUSER", "EMERGENCY_SAFE", x, T)
         /\ RoleFits("InfrastructureCostOracle", "GOV", "TIMELOCK", x, T)
         /\ \A c \in Stack : \A r \in Others : \A symbol \in {"RECORDED", "RELAYER", "DeltaVerifier"} :
              RoleFits(c, r, symbol, x, T)
<1> DEFINE R == Recorded(x)
           T == HandoffTasks(x, R)
<1>1. \A g \in Grants(x, R) : Task("role", g[1], g[2], g[3]) \in T
  BY DEF HandoffTasks
<1>2. \A c, r, w : <<c, r, w>> \in Grants(x, R) => Task("role", c, r, w) \in T
  <2> TAKE c, r, w
  <2> HIDE DEF T, R
  <2> DEFINE g == <<c, r, w>>
  <2>1. g[1] = c /\ g[2] = r /\ g[3] = w
    OBVIOUS
  <2> HIDE DEF g
  <2>2. g \in Grants(x, R) => Task("role", c, r, w) \in T
    BY <1>1, <2>1
  <2> QED BY <2>2 DEF g
<1> HIDE DEF T
<1>3. \A c, r : /\ Resolve("TIMELOCK", c, r, x) = {"timelock"}
                /\ Resolve("ADMIN_SAFE", c, r, x) = {x.admin}
                /\ Resolve("EMERGENCY_SAFE", c, r, x) = {x.emergency}
                /\ Resolve("RELAYER", c, r, x) \subseteq {x.relayer}
                /\ Resolve("DeltaVerifier", c, r, x) = {"DeltaVerifier"}
                /\ Resolve("RECORDED", c, r, x) = {y[3] : y \in {z \in artifact.roles : z[1] = c /\ z[2] = r}}
  BY DEF Resolve
<1>4. \A w : IsFiniteSet({w})
  BY FS_Singleton
<1>5. ASSUME NEW S \in SUBSET artifact.roles PROVE IsFiniteSet({y[3] : y \in S})
  <2> DEFINE I == {y[3] : y \in S}
             h == [y \in S |-> y[3]]
  <2>1. h \in Surjection(S, I)
    BY DEF Surjection
  <2>2. IsFiniteSet(S)
    BY FS_Subset
  <2> HIDE DEF h, I
  <2>3. IsFiniteSet(I)
    BY <2>1, <2>2, FS_Surjection
  <2> QED BY <2>3 DEF I
<1>6. ASSUME NEW c \in ByTimelock PROVE RoleFits(c, "ADMIN", "TIMELOCK", x, T)
  <2>1. <<c, "ADMIN", "timelock">> \in Grants(x, R)
    BY DEF Grants
  <2> HIDE DEF R
  <2>2. Resolve("TIMELOCK", c, "ADMIN", x) = {"timelock"}
    BY <1>3
  <2>3. IsFiniteSet({"timelock"}) /\ Task("role", c, "ADMIN", "timelock") \in T
    BY <1>2, <1>4, <2>1
  <2> QED BY <2>2, <2>3 DEF RoleFits
<1>7. ASSUME NEW c \in BySafe PROVE RoleFits(c, "ADMIN", "ADMIN_SAFE", x, T)
  <2>1. <<c, "ADMIN", x.admin>> \in Grants(x, R)
    BY DEF Grants
  <2> HIDE DEF R
  <2>2. Resolve("ADMIN_SAFE", c, "ADMIN", x) = {x.admin}
    BY <1>3
  <2>3. IsFiniteSet({x.admin}) /\ Task("role", c, "ADMIN", x.admin) \in T
    BY <1>2, <1>4, <2>1
  <2> QED BY <2>2, <2>3 DEF RoleFits
<1>8. ASSUME NEW c \in {"DeltaVerifier", "InfrastructureReserve"} PROVE RoleFits(c, "PAUSER", "EMERGENCY_SAFE", x, T)
  <2>1. <<c, "PAUSER", x.emergency>> \in Grants(x, R)
    BY DEF Grants
  <2> HIDE DEF R
  <2>2. Resolve("EMERGENCY_SAFE", c, "PAUSER", x) = {x.emergency}
    BY <1>3
  <2>3. IsFiniteSet({x.emergency}) /\ Task("role", c, "PAUSER", x.emergency) \in T
    BY <1>2, <1>4, <2>1
  <2> QED BY <2>2, <2>3 DEF RoleFits
<1>9. RoleFits("InfrastructureCostOracle", "GOV", "TIMELOCK", x, T)
  <2>1. <<"InfrastructureCostOracle", "GOV", "timelock">> \in Grants(x, R)
    BY DEF Grants
  <2> HIDE DEF R
  <2>2. Resolve("TIMELOCK", "InfrastructureCostOracle", "GOV", x) = {"timelock"}
    BY <1>3
  <2>3. IsFiniteSet({"timelock"}) /\ Task("role", "InfrastructureCostOracle", "GOV", "timelock") \in T
    BY <1>2, <1>4, <2>1
  <2> QED BY <2>2, <2>3 DEF RoleFits
<1>10. ASSUME NEW c \in Stack, NEW r \in Others, NEW symbol \in {"RECORDED", "RELAYER", "DeltaVerifier"}
       PROVE  RoleFits(c, r, symbol, x, T)
  <2>1. \A w \in R : <<c, r, w>> \in Grants(x, R)
    BY DEF Grants
  <2>2. x.relayer \in R /\ "DeltaVerifier" \in R /\ \A y \in artifact.roles : y[3] \in R
    BY DEF Recorded
  <2> HIDE DEF R
  <2>3. \A w \in R : Task("role", c, r, w) \in T
    BY <1>2, <2>1
  <2>4. Resolve(symbol, c, r, x) \subseteq R
    BY <1>3, <2>2
  <2>5. IsFiniteSet(Resolve(symbol, c, r, x))
    <3>1. CASE symbol = "RECORDED"
      <4>1. {z \in artifact.roles : z[1] = c /\ z[2] = r} \in SUBSET artifact.roles
        OBVIOUS
      <4> QED BY <1>3, <1>5, <3>1, <4>1
    <3>2. CASE symbol = "RELAYER"
      <4>1. Resolve(symbol, c, r, x) \subseteq {x.relayer}
        BY <1>3, <3>2
      <4>2. Resolve(symbol, c, r, x) \in SUBSET {x.relayer}
        BY <4>1
      <4> QED BY <1>4, <4>2, FS_Subset
    <3>3. CASE symbol = "DeltaVerifier"
      <4>1. Resolve(symbol, c, r, x) = {"DeltaVerifier"} /\ IsFiniteSet({"DeltaVerifier"})
        BY <1>3, <1>4, <3>3
      <4> QED BY <4>1
    <3> QED BY <3>1, <3>2, <3>3
  <2> QED BY <2>3, <2>4, <2>5 DEF RoleFits
<1> QED BY <1>6, <1>7, <1>8, <1>9, <1>10 DEF T, R

\* An entry of which ContractTasksAre speaks.
EntryFits(e, x, T) ==
  /\ \E n \in Nat : /\ DOMAIN e.roles = 1..n
                    /\ \A k \in 1..n : RoleFits(e.contract, e.roles[k][1], e.roles[k][2], x, T)
  /\ \E l \in Nat : /\ DOMAIN e.revoked = 1..l
                    /\ \A i \in 1..l : Task("renounce", e.contract, e.revoked[i], "deployer") \in T
  /\ e.contract = "HokusaiAMMFactory" => SetPauser(x) \in T
  /\ e.owner # Unset =>
       LET o == Task("owner", e.contract, "owner", IF e.owner = "TIMELOCK" THEN "timelock" ELSE x.admin)
       IN  o \in T /\ OwnerTasks(e, x) = <<o>>

LEMMA PolicyIs ==
  /\ DOMAIN Policy = 1..8
  /\ Policy[1] = Entry("ModelRegistry", <<>>, "TIMELOCK", <<>>)
  /\ Policy[2] = Entry("TokenManager",
           << <<"ADMIN", "TIMELOCK">>, <<"MINTER", "RECORDED">>, <<"DEPLOYER", "RECORDED">> >>,
           "TIMELOCK", <<"ADMIN">>)
  /\ Policy[3] = Entry("HokusaiAMMFactory", <<>>, "TIMELOCK", <<>>)
  /\ Policy[4] = Entry("DeltaVerifier",
           << <<"ADMIN", "ADMIN_SAFE">>, <<"SUBMITTER", "RELAYER">>, <<"PAUSER", "EMERGENCY_SAFE">> >>,
           Unset, <<"ADMIN", "PAUSER", "SUBMITTER">>)
  /\ Policy[5] = Entry("InfrastructureReserve",
           << <<"ADMIN", "TIMELOCK">>, <<"DEPOSITOR", "RECORDED">>, <<"PAYER", "RECORDED">>,
              <<"PAUSER", "EMERGENCY_SAFE">> >>,
           Unset, <<"ADMIN", "PAUSER">>)
  /\ Policy[6] = Entry("InfrastructureCostOracle", << <<"ADMIN", "TIMELOCK">>, <<"GOV", "TIMELOCK">> >>,
           Unset, <<"ADMIN", "GOV">>)
  /\ Policy[7] = Entry("UsageFeeRouter", << <<"ADMIN", "TIMELOCK">>, <<"FEE_DEPOSITOR", "RECORDED">> >>,
           Unset, <<"ADMIN">>)
  /\ Policy[8] = Entry("DataContributionRegistry",
           << <<"ADMIN", "ADMIN_SAFE">>, <<"RECORDER", "DeltaVerifier">>, <<"VERIFIER", "RECORDED">> >>,
           Unset, <<"ADMIN", "RECORDER">>)
  BY DEF Policy

LEMMA OwnerTasksAre ==
  ASSUME NEW c, NEW roles, NEW revoked, NEW x, x.timelock = "timelock",
         NEW s \in {"TIMELOCK", "ADMIN_SAFE"}, s # Unset
  PROVE  OwnerTasks(Entry(c, roles, s, revoked), x) =
           <<Task("owner", c, "owner", IF s = "TIMELOCK" THEN "timelock" ELSE x.admin)>>
<1> DEFINE e == Entry(c, roles, s, revoked)
<1>1. e.owner = s /\ e.contract = c
  BY DEF Entry
<1>2. Resolve(s, c, "owner", x) = {IF s = "TIMELOCK" THEN "timelock" ELSE x.admin}
  BY DEF Resolve
<1> HIDE DEF e
<1>3. \A w : (CHOOSE v \in {w} : TRUE) = w
  OBVIOUS
<1> QED BY <1>1, <1>2, <1>3 DEF OwnerTasks, e


\* The tasks of an entry that fits.
LEMMA EntryTasks ==
  ASSUME NEW e, NEW x, NEW T, EntryFits(e, x, T)
  PROVE  /\ ContractTasks(e, x) \in Seq(T)
         /\ \A t : Holds(ContractTasks(e, x), t) => t.on = e.contract
         /\ \A k \in DOMAIN e.roles : \A w \in HoldersFor(e, k, x) :
              /\ Holds(ContractTasks(e, x), Task("role", e.contract, e.roles[k][1], w))
              /\ \A c, f : Precedes(ContractTasks(e, x), Task("role", e.contract, e.roles[k][1], w),
                                    Task("renounce", c, f, "deployer"))
         /\ \A i \in DOMAIN e.revoked :
              Holds(ContractTasks(e, x), Task("renounce", e.contract, e.revoked[i], "deployer"))
         /\ e.contract = "HokusaiAMMFactory" =>
              /\ Holds(ContractTasks(e, x), SetPauser(x))
              /\ \A c, f, w : Precedes(ContractTasks(e, x), SetPauser(x), Task("owner", c, f, w))
         /\ e.owner = "TIMELOCK" /\ Unset # "TIMELOCK" =>
              Holds(ContractTasks(e, x), Task("owner", e.contract, "owner", "timelock"))
<1>1. PICK n \in Nat : /\ DOMAIN e.roles = 1..n
                       /\ \A k \in 1..n : RoleFits(e.contract, e.roles[k][1], e.roles[k][2], x, T)
  BY DEF EntryFits
<1>2. PICK l \in Nat : /\ DOMAIN e.revoked = 1..l
                       /\ \A i \in 1..l : Task("renounce", e.contract, e.revoked[i], "deployer") \in T
  BY DEF EntryFits
<1> DEFINE o == Task("owner", e.contract, "owner", IF e.owner = "TIMELOCK" THEN "timelock" ELSE x.admin)
<1>3. e.owner # Unset => o \in T /\ OwnerTasks(e, x) = <<o>>
  BY DEF EntryFits
<1>4. o.op = "owner" /\ o.on = e.contract
  BY DEF Task
<1>5. e.owner = "TIMELOCK" => o = Task("owner", e.contract, "owner", "timelock")
  OBVIOUS
<1>6. e.contract = "HokusaiAMMFactory" => SetPauser(x) \in T
  BY DEF EntryFits
<1> HIDE DEF o
<1>7. \A k \in 1..n : /\ IsFiniteSet(HoldersFor(e, k, x))
                      /\ \A w \in HoldersFor(e, k, x) : Task("role", e.contract, e.roles[k][1], w) \in T
  BY <1>1 DEF RoleFits, HoldersFor
<1>8. /\ ContractTasks(e, x) \in Seq(T)
      /\ \A t : Holds(ContractTasks(e, x), t) => t.on = e.contract
      /\ \A k \in 1..n : \A w \in HoldersFor(e, k, x) :
           /\ Holds(ContractTasks(e, x), Task("role", e.contract, e.roles[k][1], w))
           /\ \A c, f : Precedes(ContractTasks(e, x), Task("role", e.contract, e.roles[k][1], w),
                                 Task("renounce", c, f, "deployer"))
      /\ \A i \in 1..l : Holds(ContractTasks(e, x), Task("renounce", e.contract, e.revoked[i], "deployer"))
      /\ e.contract = "HokusaiAMMFactory" =>
           /\ Holds(ContractTasks(e, x), SetPauser(x))
           /\ \A c, f, w : Precedes(ContractTasks(e, x), SetPauser(x), Task("owner", c, f, w))
      /\ e.owner # Unset => Holds(ContractTasks(e, x), o)
  BY <1>1, <1>2, <1>3, <1>4, <1>6, <1>7, ContractTasksAre
<1>9. \A k \in DOMAIN e.roles : \A w \in HoldersFor(e, k, x) :
        /\ Holds(ContractTasks(e, x), Task("role", e.contract, e.roles[k][1], w))
        /\ \A c, f : Precedes(ContractTasks(e, x), Task("role", e.contract, e.roles[k][1], w),
                              Task("renounce", c, f, "deployer"))
  BY <1>1, <1>8
<1>10. \A i \in DOMAIN e.revoked :
         Holds(ContractTasks(e, x), Task("renounce", e.contract, e.revoked[i], "deployer"))
  BY <1>2, <1>8
<1> QED BY <1>5, <1>8, <1>9, <1>10

LEMMA PolicyFits ==
  ASSUME NEW x, x.timelock = "timelock", IsFiniteSet(artifact.roles)
  PROVE  LET T == HandoffTasks(x, Recorded(x)) IN
         /\ \A i \in 1..8 : EntryFits(Policy[i], x, T)
         /\ \A m \in Models : EntryFits(Entry(m, <<>>, "ADMIN_SAFE", <<"ADMIN", "GOV">>), x, T)
<1> DEFINE T == HandoffTasks(x, Recorded(x))
<1>1. /\ \A c \in ByTimelock : RoleFits(c, "ADMIN", "TIMELOCK", x, T)
      /\ \A c \in BySafe : RoleFits(c, "ADMIN", "ADMIN_SAFE", x, T)
      /\ RoleFits("DeltaVerifier", "PAUSER", "EMERGENCY_SAFE", x, T)
      /\ RoleFits("InfrastructureReserve", "PAUSER", "EMERGENCY_SAFE", x, T)
      /\ RoleFits("InfrastructureCostOracle", "GOV", "TIMELOCK", x, T)
      /\ \A c \in Stack : \A r \in Others : \A symbol \in {"RECORDED", "RELAYER", "DeltaVerifier"} :
           RoleFits(c, r, symbol, x, T)
  BY RolesFit
<1>2. /\ SetPauser(x) \in T
      /\ \A c \in Owned : Task("owner", c, "owner", "timelock") \in T
      /\ \A m \in Models : Task("owner", m, "owner", x.admin) \in T
  BY DEF HandoffTasks
<1>3. \A c \in Stack \union Models : \A f \in Revoked : Task("renounce", c, f, "deployer") \in T
  <2> TAKE c \in Stack \union Models
  <2> TAKE f \in Revoked
  <2>1. <<c, f>> \in (Stack \union Models) \X Revoked /\ <<c, f>>[1] = c /\ <<c, f>>[2] = f
    OBVIOUS
  <2> QED BY <2>1, Zenon DEF HandoffTasks
<1> HIDE DEF T
<1>4. /\ {"ModelRegistry", "TokenManager", "HokusaiAMMFactory"} = Owned
      /\ \A c \in Owned \union ByTimelock \union BySafe : c \in Stack
      /\ {"MINTER", "DEPLOYER", "SUBMITTER", "DEPOSITOR", "PAYER", "FEE_DEPOSITOR", "RECORDER", "VERIFIER"} = Others
      /\ {"ADMIN", "PAUSER", "SUBMITTER", "GOV", "RECORDER"} = Revoked
      /\ {"TokenManager", "InfrastructureReserve", "InfrastructureCostOracle", "UsageFeeRouter"} = ByTimelock
      /\ {"DeltaVerifier", "DataContributionRegistry"} = BySafe
  BY DEF Owned, Stack, Others, Revoked, ByTimelock, BySafe
<1>5. Unset # "TIMELOCK" /\ Unset # "ADMIN_SAFE"
  BY StackConstants
<1>6. ASSUME NEW c \in Stack \union Models, NEW roles, NEW n \in Nat, DOMAIN roles = 1..n,
             \A k \in 1..n : RoleFits(c, roles[k][1], roles[k][2], x, T),
             NEW owner, owner # Unset => \/ owner = "TIMELOCK" /\ c \in Owned
                                         \/ owner = "ADMIN_SAFE" /\ c \in Models,
             NEW revoked, NEW l \in Nat, DOMAIN revoked = 1..l, \A i \in 1..l : revoked[i] \in Revoked
      PROVE  EntryFits(Entry(c, roles, owner, revoked), x, T)
  <2> DEFINE e == Entry(c, roles, owner, revoked)
  <2>1. e.contract = c /\ e.roles = roles /\ e.owner = owner /\ e.revoked = revoked
    BY DEF Entry
  <2>2. \A i \in 1..l : Task("renounce", c, revoked[i], "deployer") \in T
    BY <1>3, <1>6
  <2>3. ASSUME owner # Unset
        PROVE  LET o == Task("owner", c, "owner", IF owner = "TIMELOCK" THEN "timelock" ELSE x.admin)
               IN  o \in T /\ OwnerTasks(e, x) = <<o>>
    <3>1. owner \in {"TIMELOCK", "ADMIN_SAFE"}
      BY <1>6, <2>3
    <3>2. OwnerTasks(e, x) = <<Task("owner", c, "owner", IF owner = "TIMELOCK" THEN "timelock" ELSE x.admin)>>
      BY <2>3, <3>1, OwnerTasksAre
    <3> HIDE DEF e
    <3>3. Task("owner", c, "owner", IF owner = "TIMELOCK" THEN "timelock" ELSE x.admin) \in T
      BY <1>2, <1>6, <2>3
    <3> QED BY <3>2, <3>3
  <2> HIDE DEF e
  <2>4. EntryFits(e, x, T)
    BY <1>2, <1>6, <2>1, <2>2, <2>3 DEF EntryFits
  <2> QED BY <2>4 DEF e
<1>7. EntryFits(Policy[1], x, T)
  <2> DEFINE r == <<>>
             v == <<>>
  <2>1. DOMAIN r = 1..0 /\ DOMAIN v = 1..0 /\ \A i \in 1..0 : FALSE
    OBVIOUS
  <2> HIDE DEF r, v
  <2>4. EntryFits(Entry("ModelRegistry", r, "TIMELOCK", v), x, T)
    BY <1>4, <1>6, <2>1
  <2> QED BY <2>4, PolicyIs DEF r, v
<1>8. EntryFits(Policy[2], x, T)
  <2> DEFINE r == << <<"ADMIN", "TIMELOCK">>, <<"MINTER", "RECORDED">>, <<"DEPLOYER", "RECORDED">> >>
             v == <<"ADMIN">>
  <2>1. DOMAIN r = 1..3 /\ r[1][1] = "ADMIN" /\ r[1][2] = "TIMELOCK" /\ r[2][1] = "MINTER" /\ r[2][2] = "RECORDED" /\ r[3][1] = "DEPLOYER" /\ r[3][2] = "RECORDED"
    OBVIOUS
  <2>2. DOMAIN v = 1..1 /\ \A i \in 1..1 : v[i] \in Revoked
    BY DEF Revoked
  <2> HIDE DEF r, v
  <2>3. \A k \in 1..3 : RoleFits("TokenManager", r[k][1], r[k][2], x, T)
    BY <1>1, <1>4, <2>1
  <2>4. EntryFits(Entry("TokenManager", r, "TIMELOCK", v), x, T)
    BY <1>4, <1>6, <2>1, <2>2, <2>3
  <2> QED BY <2>4, PolicyIs DEF r, v
<1>9. EntryFits(Policy[3], x, T)
  <2> DEFINE r == <<>>
             v == <<>>
  <2>1. DOMAIN r = 1..0 /\ DOMAIN v = 1..0 /\ \A i \in 1..0 : FALSE
    OBVIOUS
  <2> HIDE DEF r, v
  <2>4. EntryFits(Entry("HokusaiAMMFactory", r, "TIMELOCK", v), x, T)
    BY <1>4, <1>6, <2>1
  <2> QED BY <2>4, PolicyIs DEF r, v
<1>10. EntryFits(Policy[4], x, T)
  <2> DEFINE r == << <<"ADMIN", "ADMIN_SAFE">>, <<"SUBMITTER", "RELAYER">>, <<"PAUSER", "EMERGENCY_SAFE">> >>
             v == <<"ADMIN", "PAUSER", "SUBMITTER">>
  <2>1. DOMAIN r = 1..3 /\ r[1][1] = "ADMIN" /\ r[1][2] = "ADMIN_SAFE" /\ r[2][1] = "SUBMITTER" /\ r[2][2] = "RELAYER" /\ r[3][1] = "PAUSER" /\ r[3][2] = "EMERGENCY_SAFE"
    OBVIOUS
  <2>2. DOMAIN v = 1..3 /\ \A i \in 1..3 : v[i] \in Revoked
    BY DEF Revoked
  <2> HIDE DEF r, v
  <2>3. \A k \in 1..3 : RoleFits("DeltaVerifier", r[k][1], r[k][2], x, T)
    BY <1>1, <1>4, <2>1
  <2>4. EntryFits(Entry("DeltaVerifier", r, Unset, v), x, T)
    BY <1>4, <1>6, <2>1, <2>2, <2>3
  <2> QED BY <2>4, PolicyIs DEF r, v
<1>11. EntryFits(Policy[5], x, T)
  <2> DEFINE r == << <<"ADMIN", "TIMELOCK">>, <<"DEPOSITOR", "RECORDED">>, <<"PAYER", "RECORDED">>, <<"PAUSER", "EMERGENCY_SAFE">> >>
             v == <<"ADMIN", "PAUSER">>
  <2>1. DOMAIN r = 1..4 /\ r[1][1] = "ADMIN" /\ r[1][2] = "TIMELOCK" /\ r[2][1] = "DEPOSITOR" /\ r[2][2] = "RECORDED" /\ r[3][1] = "PAYER" /\ r[3][2] = "RECORDED" /\ r[4][1] = "PAUSER" /\ r[4][2] = "EMERGENCY_SAFE"
    OBVIOUS
  <2>2. DOMAIN v = 1..2 /\ \A i \in 1..2 : v[i] \in Revoked
    BY DEF Revoked
  <2> HIDE DEF r, v
  <2>3. \A k \in 1..4 : RoleFits("InfrastructureReserve", r[k][1], r[k][2], x, T)
    BY <1>1, <1>4, <2>1
  <2>4. EntryFits(Entry("InfrastructureReserve", r, Unset, v), x, T)
    BY <1>4, <1>6, <2>1, <2>2, <2>3
  <2> QED BY <2>4, PolicyIs DEF r, v
<1>12. EntryFits(Policy[6], x, T)
  <2> DEFINE r == << <<"ADMIN", "TIMELOCK">>, <<"GOV", "TIMELOCK">> >>
             v == <<"ADMIN", "GOV">>
  <2>1. DOMAIN r = 1..2 /\ r[1][1] = "ADMIN" /\ r[1][2] = "TIMELOCK" /\ r[2][1] = "GOV" /\ r[2][2] = "TIMELOCK"
    OBVIOUS
  <2>2. DOMAIN v = 1..2 /\ \A i \in 1..2 : v[i] \in Revoked
    BY DEF Revoked
  <2> HIDE DEF r, v
  <2>3. \A k \in 1..2 : RoleFits("InfrastructureCostOracle", r[k][1], r[k][2], x, T)
    BY <1>1, <1>4, <2>1
  <2>4. EntryFits(Entry("InfrastructureCostOracle", r, Unset, v), x, T)
    BY <1>4, <1>6, <2>1, <2>2, <2>3
  <2> QED BY <2>4, PolicyIs DEF r, v
<1>13. EntryFits(Policy[7], x, T)
  <2> DEFINE r == << <<"ADMIN", "TIMELOCK">>, <<"FEE_DEPOSITOR", "RECORDED">> >>
             v == <<"ADMIN">>
  <2>1. DOMAIN r = 1..2 /\ r[1][1] = "ADMIN" /\ r[1][2] = "TIMELOCK" /\ r[2][1] = "FEE_DEPOSITOR" /\ r[2][2] = "RECORDED"
    OBVIOUS
  <2>2. DOMAIN v = 1..1 /\ \A i \in 1..1 : v[i] \in Revoked
    BY DEF Revoked
  <2> HIDE DEF r, v
  <2>3. \A k \in 1..2 : RoleFits("UsageFeeRouter", r[k][1], r[k][2], x, T)
    BY <1>1, <1>4, <2>1
  <2>4. EntryFits(Entry("UsageFeeRouter", r, Unset, v), x, T)
    BY <1>4, <1>6, <2>1, <2>2, <2>3
  <2> QED BY <2>4, PolicyIs DEF r, v
<1>14. EntryFits(Policy[8], x, T)
  <2> DEFINE r == << <<"ADMIN", "ADMIN_SAFE">>, <<"RECORDER", "DeltaVerifier">>, <<"VERIFIER", "RECORDED">> >>
             v == <<"ADMIN", "RECORDER">>
  <2>1. DOMAIN r = 1..3 /\ r[1][1] = "ADMIN" /\ r[1][2] = "ADMIN_SAFE" /\ r[2][1] = "RECORDER" /\ r[2][2] = "DeltaVerifier" /\ r[3][1] = "VERIFIER" /\ r[3][2] = "RECORDED"
    OBVIOUS
  <2>2. DOMAIN v = 1..2 /\ \A i \in 1..2 : v[i] \in Revoked
    BY DEF Revoked
  <2> HIDE DEF r, v
  <2>3. \A k \in 1..3 : RoleFits("DataContributionRegistry", r[k][1], r[k][2], x, T)
    BY <1>1, <1>4, <2>1
  <2>4. EntryFits(Entry("DataContributionRegistry", r, Unset, v), x, T)
    BY <1>4, <1>6, <2>1, <2>2, <2>3
  <2> QED BY <2>4, PolicyIs DEF r, v
<1>15. ASSUME NEW m \in Models PROVE EntryFits(Entry(m, <<>>, "ADMIN_SAFE", <<"ADMIN", "GOV">>), x, T)
  <2> DEFINE r == <<>>
             v == <<"ADMIN", "GOV">>
  <2>1. DOMAIN r = 1..0 /\ \A i \in 1..0 : FALSE
    OBVIOUS
  <2>2. DOMAIN v = 1..2 /\ \A i \in 1..2 : v[i] \in Revoked
    BY DEF Revoked
  <2> HIDE DEF r, v
  <2>3. EntryFits(Entry(m, r, "ADMIN_SAFE", v), x, T)
    BY <1>5, <1>6, <2>1, <2>2
  <2> QED BY <2>3 DEF r, v
<1>16. \A i \in 1..8 : i = 1 \/ i = 2 \/ i = 3 \/ i = 4 \/ i = 5 \/ i = 6 \/ i = 7 \/ i = 8
  OBVIOUS
<1> QED BY <1>7, <1>8, <1>9, <1>10, <1>11, <1>12, <1>13, <1>14, <1>15, <1>16 DEF T


LEMMA EntriesAre ==
  ASSUME artifact.tokens \in SUBSET Models
  PROVE  \E n \in Nat :
           /\ DOMAIN Entries = 1..(8 + n)
           /\ \A i \in 1..8 : Entries[i] = Policy[i]
           /\ \A i \in 1..(8 + n) : i > 8 =>
                \E m \in Models : Entries[i] = Entry(m, <<>>, "ADMIN_SAFE", <<"ADMIN", "GOV">>)
<1> DEFINE S == artifact.tokens
           n == Cardinality(S)
           s == SetToSeq(S)
           r == [i \in 1..n |-> Entry(s[i], <<>>, "ADMIN_SAFE", <<"ADMIN", "GOV">>)]
<1>1. IsFiniteSet(S)
  BY LaunchConstants, FS_Subset
<1>2. n \in Nat
  BY <1>1, FS_CardinalityType
<1>3. s \in Seq(S) /\ DOMAIN s = 1..n
  BY <1>1, Listed
<1>a. S \subseteq Models
  OBVIOUS
<1> HIDE DEF S
<1>4. \A i \in 1..n : s[i] \in Models
  <2>1. \A z \in Seq(S) : \A i \in DOMAIN z : z[i] \in S
    OBVIOUS
  <2> HIDE DEF s, n
  <2>2. \A i \in 1..n : s[i] \in S
    BY <1>3, <2>1
  <2> QED BY <1>a, <2>2
<1>5. Entries = Policy \o r
  BY DEF Entries, S
<1> HIDE DEF n, s
<1>6. DOMAIN r = 1..n /\ \A i \in 1..n : r[i] = Entry(s[i], <<>>, "ADMIN_SAFE", <<"ADMIN", "GOV">>)
  OBVIOUS
<1>7. Len(r) = n /\ r \in Seq({r[i] : i \in 1..n})
  BY <1>2
<1> HIDE DEF r
<1>8. Len(Policy) = 8 /\ Policy \in Seq({Policy[i] : i \in 1..8})
  <2> DEFINE Q(a, b, c, d, e, f, g, h) == <<a, b, c, d, e, f, g, h>>
  <2>1. \A a, b, c, d, e, f, g, h :
          Len(Q(a, b, c, d, e, f, g, h)) = 8
          /\ Q(a, b, c, d, e, f, g, h) \in Seq({Q(a, b, c, d, e, f, g, h)[i] : i \in 1..8})
    OBVIOUS
  <2>2. \E a, b, c, d, e, f, g, h : Policy = Q(a, b, c, d, e, f, g, h)
    BY Zenon DEF Policy
  <2> HIDE DEF Q
  <2> QED BY <2>1, <2>2
<1>9. /\ DOMAIN (Policy \o r) = 1..(8 + n)
      /\ \A i \in 1..8 : (Policy \o r)[i] = Policy[i]
      /\ \A i \in 1..(8 + n) : i > 8 => i - 8 \in 1..n /\ (Policy \o r)[i] = r[i - 8]
  <2> DEFINE p == Policy
             U == {Policy[i] : i \in 1..8} \union {r[i] : i \in 1..n}
  <2>1. p \in Seq(U) /\ r \in Seq(U) /\ Len(p) = 8 /\ Len(r) = n
    <3>1. \A A, B : \A z : (z \in Seq(A) => z \in Seq(A \union B)) /\ (z \in Seq(B) => z \in Seq(A \union B))
      OBVIOUS
    <3> QED BY <1>7, <1>8, <3>1
  <2>2. ASSUME NEW V, NEW y \in Seq(V), NEW z \in Seq(V), Len(y) = 8, Len(z) = n
        PROVE  /\ DOMAIN (y \o z) = 1..(8 + n)
               /\ \A i \in 1..8 : (y \o z)[i] = y[i]
               /\ \A i \in 1..(8 + n) : i > 8 => i - 8 \in 1..n /\ (y \o z)[i] = z[i - 8]
    <3> DEFINE k == Len(y)
    <3>a. k \in Nat /\ y \o z \in Seq(V) /\ Len(y \o z) = k + Len(z)
      OBVIOUS
    <3>b. \A i \in 1..(k + Len(z)) : (y \o z)[i] = IF i <= k THEN y[i] ELSE z[i - k]
      OBVIOUS
    <3>c. DOMAIN (y \o z) = 1..(k + Len(z))
      BY <3>a
    <3>d. k = 8 /\ Len(z) = n
      BY <2>2
    <3> HIDE DEF k
    <3>1. DOMAIN (y \o z) = 1..(8 + n)
      BY <3>c, <3>d
    <3>2. \A i \in 1..(8 + n) : (y \o z)[i] = IF i <= 8 THEN y[i] ELSE z[i - 8]
      BY <3>b, <3>d
    <3>3. \A i \in 1..8 : i \in 1..(8 + n) /\ i <= 8
      BY <1>2
    <3>4. \A i \in 1..(8 + n) : i > 8 => i - 8 \in 1..n /\ ~(i <= 8)
      BY <1>2
    <3>5. \A i \in 1..8 : (y \o z)[i] = y[i]
      BY <3>2, <3>3
    <3>6. \A i \in 1..(8 + n) : i > 8 => i - 8 \in 1..n /\ (y \o z)[i] = z[i - 8]
      BY <3>2, <3>4
    <3> QED BY <3>1, <3>5, <3>6
  <2> HIDE DEF p, U
  <2>3. /\ DOMAIN (p \o r) = 1..(8 + n)
        /\ \A i \in 1..8 : (p \o r)[i] = p[i]
        /\ \A i \in 1..(8 + n) : i > 8 => i - 8 \in 1..n /\ (p \o r)[i] = r[i - 8]
    BY <2>1, <2>2, SMTT(30)
  <2> QED BY <2>3 DEF p
<1>10. \A i \in 1..(8 + n) : i > 8 =>
         \E m \in Models : Entries[i] = Entry(m, <<>>, "ADMIN_SAFE", <<"ADMIN", "GOV">>)
  BY <1>4, <1>5, <1>6, <1>9
<1> QED BY <1>2, <1>5, <1>9, <1>10

\* What a handoff sets out to do is in the order that it needs.
LEMMA HandoffPlanned ==
  ASSUME NEW x, x.timelock = "timelock", IsFiniteSet(artifact.roles), artifact.tokens \in SUBSET Models, NEW F
  PROVE  LET todo == FlattenSeq([i \in DOMAIN Entries |-> ContractTasks(Entries[i], x)])
         IN  todo \in Seq(HandoffTasks(x, Recorded(x))) /\ HandoffOrder(x, todo, F)
<1> DEFINE T == HandoffTasks(x, Recorded(x))
           ss == [i \in DOMAIN Entries |-> ContractTasks(Entries[i], x)]
           todo == FlattenSeq(ss)
<1>1. PICK n \in Nat :
        /\ DOMAIN Entries = 1..(8 + n)
        /\ \A i \in 1..8 : Entries[i] = Policy[i]
        /\ \A i \in 1..(8 + n) : i > 8 =>
             \E m \in Models : Entries[i] = Entry(m, <<>>, "ADMIN_SAFE", <<"ADMIN", "GOV">>)
  BY EntriesAre
<1>2. /\ \A i \in 1..8 : EntryFits(Policy[i], x, T)
      /\ \A m \in Models : EntryFits(Entry(m, <<>>, "ADMIN_SAFE", <<"ADMIN", "GOV">>), x, T)
  BY PolicyFits
<1> HIDE DEF T
<1>3. \A i \in 1..(8 + n) : i \in 1..8 \/ i > 8
  OBVIOUS
<1>4. \A i \in 1..(8 + n) : EntryFits(Entries[i], x, T)
  BY <1>1, <1>2, <1>3
<1>5. \A i \in 1..(8 + n) : ContractTasks(Entries[i], x) \in Seq(T)
  BY <1>4, EntryTasks
<1>6. ss \in Seq(Seq(T)) /\ DOMAIN ss = 1..(8 + n) /\ \A i \in 1..8 : i \in DOMAIN ss /\ ss[i] = ContractTasks(Policy[i], x)
  <2>1. \A i \in 1..8 : i \in 1..(8 + n)
    OBVIOUS
  <2>2. DOMAIN ss = 1..(8 + n)
    BY <1>1
  <2>3. \A i \in 1..(8 + n) : ss[i] = ContractTasks(Entries[i], x)
    BY <1>1
  <2>4. ss \in [1..(8 + n) -> Seq(T)]
    BY <1>1, <1>5
  <2>5. ss \in Seq(Seq(T))
    BY <2>4
  <2> HIDE DEF ss
  <2> QED BY <1>1, <2>1, <2>2, <2>3, <2>5
<1> HIDE DEF ss
<1>7. todo \in Seq(T)
  BY <1>6, Flattened
<1> HIDE DEF todo
<1> DEFINE on(i) == Policy[i].contract
<1>8. /\ on(1) = "ModelRegistry" /\ on(2) = "TokenManager" /\ on(3) = "HokusaiAMMFactory" /\ on(4) = "DeltaVerifier"
      /\ on(5) = "InfrastructureReserve" /\ on(6) = "InfrastructureCostOracle" /\ on(7) = "UsageFeeRouter"
      /\ on(8) = "DataContributionRegistry"
  BY PolicyIs DEF Entry
<1> HIDE DEF on
<1>9. \A i \in 1..8 :
        /\ \A t : Holds(ss[i], t) => t.on = on(i)
        /\ \A k \in DOMAIN Policy[i].roles : \A w \in HoldersFor(Policy[i], k, x) :
             /\ Holds(ss[i], Task("role", on(i), Policy[i].roles[k][1], w))
             /\ \A c, f : Precedes(ss[i], Task("role", on(i), Policy[i].roles[k][1], w), Task("renounce", c, f, "deployer"))
        /\ \A k \in DOMAIN Policy[i].revoked : Holds(ss[i], Task("renounce", on(i), Policy[i].revoked[k], "deployer"))
        /\ on(i) = "HokusaiAMMFactory" =>
             /\ Holds(ss[i], SetPauser(x))
             /\ \A c, f, w : Precedes(ss[i], SetPauser(x), Task("owner", c, f, w))
        /\ Policy[i].owner = "TIMELOCK" /\ Unset # "TIMELOCK" =>
             Holds(ss[i], Task("owner", on(i), "owner", "timelock"))
  <2> TAKE i \in 1..8
  <2>1. EntryFits(Policy[i], x, T) /\ ss[i] = ContractTasks(Policy[i], x)
    BY <1>2, <1>6
  <2> QED BY <2>1, EntryTasks DEF on
<1>10. ASSUME NEW i \in 1..8, NEW a, NEW b, Holds(ss[i], a), Precedes(ss[i], a, b),
              \A j \in 1..8 : j < i => on(j) # b.on
       PROVE  Precedes(todo, a, b)
  <2>1. \A j \in DOMAIN ss : j < i => ~Holds(ss[j], b)
    <3> SUFFICES ASSUME NEW j \in DOMAIN ss, j < i, Holds(ss[j], b) PROVE FALSE
      OBVIOUS
    <3>1. j \in 1..8
      <4>1. j \in 1..(8 + n)
        BY <1>6
      <4> QED BY <4>1, i \in 1..8, n \in Nat, j < i
    <3> QED BY <1>9, <1>10, <3>1
  <2>2. i \in DOMAIN ss
    BY <1>6
  <2> QED BY <1>6, <1>10, <2>1, <2>2, FlattenedInOrder DEF todo
<1>11. ASSUME NEW i \in 1..8, NEW a, NEW b, Holds(ss[i], a), \A j \in 1..8 : j <= i => on(j) # b.on
       PROVE  Precedes(todo, a, b)
  <2>1. ~Holds(ss[i], b)
    BY <1>9, <1>11
  <2>2. Precedes(ss[i], a, b)
    BY <2>1, Zenon DEF Holds, Precedes
  <2>3. \A j \in 1..8 : j < i => on(j) # b.on
    BY <1>11
  <2> QED BY <1>10, <1>11, <2>2, <2>3
<1>12. \A j \in 1..8 : j = 1 \/ j = 2 \/ j = 3 \/ j = 4 \/ j = 5 \/ j = 6 \/ j = 7 \/ j = 8
  OBVIOUS
<1>13. /\ \A op, c, f, w : Task(op, c, f, w).on = c
       /\ SetPauser(x).on = "HokusaiAMMFactory"
  BY DEF Task, SetPauser
<1>14. Unset # "TIMELOCK"
  BY StackConstants
<1>15. Precedes(todo, Task("role", "TokenManager", "ADMIN", "timelock"), Task("renounce", "TokenManager", "ADMIN", "deployer"))
  <2>1. 1 \in DOMAIN Policy[2].roles /\ Policy[2].roles[1][1] = "ADMIN" /\ Policy[2].roles[1][2] = "TIMELOCK"
    BY PolicyIs DEF Entry
  <2>2. "timelock" \in HoldersFor(Policy[2], 1, x)
    BY <2>1 DEF HoldersFor, Resolve
  <2>3. 2 \in 1..8
    OBVIOUS
  <2>4. /\ Holds(ss[2], Task("role", "TokenManager", "ADMIN", "timelock"))
        /\ Precedes(ss[2], Task("role", "TokenManager", "ADMIN", "timelock"), Task("renounce", "TokenManager", "ADMIN", "deployer"))
    BY <1>8, <1>9, <2>1, <2>2, <2>3
  <2>5. \A j \in 1..8 : j < 2 => on(j) # Task("renounce", "TokenManager", "ADMIN", "deployer").on
    BY <1>8, <1>12, <1>13
  <2> QED BY <1>10, <2>3, <2>4, <2>5
<1>16. Precedes(todo, Task("role", "InfrastructureReserve", "ADMIN", "timelock"), Task("renounce", "InfrastructureReserve", "ADMIN", "deployer"))
  <2>1. 1 \in DOMAIN Policy[5].roles /\ Policy[5].roles[1][1] = "ADMIN" /\ Policy[5].roles[1][2] = "TIMELOCK"
    BY PolicyIs DEF Entry
  <2>2. "timelock" \in HoldersFor(Policy[5], 1, x)
    BY <2>1 DEF HoldersFor, Resolve
  <2>3. 5 \in 1..8
    OBVIOUS
  <2>4. /\ Holds(ss[5], Task("role", "InfrastructureReserve", "ADMIN", "timelock"))
        /\ Precedes(ss[5], Task("role", "InfrastructureReserve", "ADMIN", "timelock"), Task("renounce", "InfrastructureReserve", "ADMIN", "deployer"))
    BY <1>8, <1>9, <2>1, <2>2, <2>3
  <2>5. \A j \in 1..8 : j < 5 => on(j) # Task("renounce", "InfrastructureReserve", "ADMIN", "deployer").on
    BY <1>8, <1>12, <1>13
  <2> QED BY <1>10, <2>3, <2>4, <2>5
<1>17. Precedes(todo, Task("role", "InfrastructureCostOracle", "ADMIN", "timelock"), Task("renounce", "InfrastructureCostOracle", "ADMIN", "deployer"))
  <2>1. 1 \in DOMAIN Policy[6].roles /\ Policy[6].roles[1][1] = "ADMIN" /\ Policy[6].roles[1][2] = "TIMELOCK"
    BY PolicyIs DEF Entry
  <2>2. "timelock" \in HoldersFor(Policy[6], 1, x)
    BY <2>1 DEF HoldersFor, Resolve
  <2>3. 6 \in 1..8
    OBVIOUS
  <2>4. /\ Holds(ss[6], Task("role", "InfrastructureCostOracle", "ADMIN", "timelock"))
        /\ Precedes(ss[6], Task("role", "InfrastructureCostOracle", "ADMIN", "timelock"), Task("renounce", "InfrastructureCostOracle", "ADMIN", "deployer"))
    BY <1>8, <1>9, <2>1, <2>2, <2>3
  <2>5. \A j \in 1..8 : j < 6 => on(j) # Task("renounce", "InfrastructureCostOracle", "ADMIN", "deployer").on
    BY <1>8, <1>12, <1>13
  <2> QED BY <1>10, <2>3, <2>4, <2>5
<1>18. Precedes(todo, Task("role", "UsageFeeRouter", "ADMIN", "timelock"), Task("renounce", "UsageFeeRouter", "ADMIN", "deployer"))
  <2>1. 1 \in DOMAIN Policy[7].roles /\ Policy[7].roles[1][1] = "ADMIN" /\ Policy[7].roles[1][2] = "TIMELOCK"
    BY PolicyIs DEF Entry
  <2>2. "timelock" \in HoldersFor(Policy[7], 1, x)
    BY <2>1 DEF HoldersFor, Resolve
  <2>3. 7 \in 1..8
    OBVIOUS
  <2>4. /\ Holds(ss[7], Task("role", "UsageFeeRouter", "ADMIN", "timelock"))
        /\ Precedes(ss[7], Task("role", "UsageFeeRouter", "ADMIN", "timelock"), Task("renounce", "UsageFeeRouter", "ADMIN", "deployer"))
    BY <1>8, <1>9, <2>1, <2>2, <2>3
  <2>5. \A j \in 1..8 : j < 7 => on(j) # Task("renounce", "UsageFeeRouter", "ADMIN", "deployer").on
    BY <1>8, <1>12, <1>13
  <2> QED BY <1>10, <2>3, <2>4, <2>5
<1>19. Precedes(todo, Task("role", "DeltaVerifier", "ADMIN", x.admin), Task("renounce", "DeltaVerifier", "ADMIN", "deployer"))
  <2>1. 1 \in DOMAIN Policy[4].roles /\ Policy[4].roles[1][1] = "ADMIN" /\ Policy[4].roles[1][2] = "ADMIN_SAFE"
    BY PolicyIs DEF Entry
  <2>2. x.admin \in HoldersFor(Policy[4], 1, x)
    BY <2>1 DEF HoldersFor, Resolve
  <2>3. 4 \in 1..8
    OBVIOUS
  <2>4. /\ Holds(ss[4], Task("role", "DeltaVerifier", "ADMIN", x.admin))
        /\ Precedes(ss[4], Task("role", "DeltaVerifier", "ADMIN", x.admin), Task("renounce", "DeltaVerifier", "ADMIN", "deployer"))
    BY <1>8, <1>9, <2>1, <2>2, <2>3
  <2>5. \A j \in 1..8 : j < 4 => on(j) # Task("renounce", "DeltaVerifier", "ADMIN", "deployer").on
    BY <1>8, <1>12, <1>13
  <2> QED BY <1>10, <2>3, <2>4, <2>5
<1>20. Precedes(todo, Task("role", "DataContributionRegistry", "ADMIN", x.admin), Task("renounce", "DataContributionRegistry", "ADMIN", "deployer"))
  <2>1. 1 \in DOMAIN Policy[8].roles /\ Policy[8].roles[1][1] = "ADMIN" /\ Policy[8].roles[1][2] = "ADMIN_SAFE"
    BY PolicyIs DEF Entry
  <2>2. x.admin \in HoldersFor(Policy[8], 1, x)
    BY <2>1 DEF HoldersFor, Resolve
  <2>3. 8 \in 1..8
    OBVIOUS
  <2>4. /\ Holds(ss[8], Task("role", "DataContributionRegistry", "ADMIN", x.admin))
        /\ Precedes(ss[8], Task("role", "DataContributionRegistry", "ADMIN", x.admin), Task("renounce", "DataContributionRegistry", "ADMIN", "deployer"))
    BY <1>8, <1>9, <2>1, <2>2, <2>3
  <2>5. \A j \in 1..8 : j < 8 => on(j) # Task("renounce", "DataContributionRegistry", "ADMIN", "deployer").on
    BY <1>8, <1>12, <1>13
  <2> QED BY <1>10, <2>3, <2>4, <2>5
<1>21. Precedes(todo, Task("role", "InfrastructureCostOracle", "GOV", "timelock"), Task("renounce", "InfrastructureCostOracle", "ADMIN", "deployer"))
  <2>1. 2 \in DOMAIN Policy[6].roles /\ Policy[6].roles[2][1] = "GOV" /\ Policy[6].roles[2][2] = "TIMELOCK"
    BY PolicyIs DEF Entry
  <2>2. "timelock" \in HoldersFor(Policy[6], 2, x)
    BY <2>1 DEF HoldersFor, Resolve
  <2>3. 6 \in 1..8
    OBVIOUS
  <2>4. /\ Holds(ss[6], Task("role", "InfrastructureCostOracle", "GOV", "timelock"))
        /\ Precedes(ss[6], Task("role", "InfrastructureCostOracle", "GOV", "timelock"), Task("renounce", "InfrastructureCostOracle", "ADMIN", "deployer"))
    BY <1>8, <1>9, <2>1, <2>2, <2>3
  <2>5. \A j \in 1..8 : j < 6 => on(j) # Task("renounce", "InfrastructureCostOracle", "ADMIN", "deployer").on
    BY <1>8, <1>12, <1>13
  <2> QED BY <1>10, <2>3, <2>4, <2>5
<1>22. Precedes(todo, SetPauser(x), Task("owner", "HokusaiAMMFactory", "owner", "timelock"))
  <2>1. 3 \in 1..8
    OBVIOUS
  <2>2. /\ Holds(ss[3], SetPauser(x))
        /\ Precedes(ss[3], SetPauser(x), Task("owner", "HokusaiAMMFactory", "owner", "timelock"))
    BY <1>8, <1>9, <2>1
  <2>3. \A j \in 1..8 : j < 3 => on(j) # Task("owner", "HokusaiAMMFactory", "owner", "timelock").on
    BY <1>8, <1>12, <1>13
  <2> QED BY <1>10, <2>1, <2>2, <2>3
<1>23. Precedes(todo, SetPauser(x), Task("role", "DeltaVerifier", "PAUSER", x.emergency))
  <2>1. 3 \in 1..8
    OBVIOUS
  <2>2. Holds(ss[3], SetPauser(x))
    BY <1>8, <1>9, <2>1
  <2>3. \A j \in 1..8 : j <= 3 => on(j) # Task("role", "DeltaVerifier", "PAUSER", x.emergency).on
    BY <1>8, <1>12, <1>13
  <2> QED BY <1>11, <2>1, <2>2, <2>3
<1>24. Precedes(todo, Task("owner", "HokusaiAMMFactory", "owner", "timelock"),
                   Task("role", "DeltaVerifier", "PAUSER", x.emergency))
  <2>1. 3 \in 1..8
    OBVIOUS
  <2>2. Policy[3].owner = "TIMELOCK"
    BY PolicyIs DEF Entry
  <2>3. Holds(ss[3], Task("owner", "HokusaiAMMFactory", "owner", "timelock"))
    BY <1>8, <1>9, <1>14, <2>1, <2>2
  <2>4. \A j \in 1..8 : j <= 3 => on(j) # Task("role", "DeltaVerifier", "PAUSER", x.emergency).on
    BY <1>8, <1>12, <1>13
  <2> QED BY <1>11, <2>1, <2>3, <2>4
<1>25. Precedes(todo, Task("renounce", "TokenManager", "ADMIN", "deployer"),
                   Task("renounce", "DataContributionRegistry", "ADMIN", "deployer"))
  <2>1. 2 \in 1..8
    OBVIOUS
  <2>2. 1 \in DOMAIN Policy[2].revoked /\ Policy[2].revoked[1] = "ADMIN"
    BY PolicyIs DEF Entry
  <2>3. Holds(ss[2], Task("renounce", "TokenManager", "ADMIN", "deployer"))
    BY <1>8, <1>9, <2>1, <2>2
  <2>4. \A j \in 1..8 : j <= 2 => on(j) # Task("renounce", "DataContributionRegistry", "ADMIN", "deployer").on
    BY <1>8, <1>12, <1>13
  <2> QED BY <1>11, <2>1, <2>3, <2>4
<1>26. Precedes(todo, Task("renounce", "InfrastructureReserve", "PAUSER", "deployer"),
                   Task("renounce", "DataContributionRegistry", "ADMIN", "deployer"))
  <2>1. 5 \in 1..8
    OBVIOUS
  <2>2. 2 \in DOMAIN Policy[5].revoked /\ Policy[5].revoked[2] = "PAUSER"
    BY PolicyIs DEF Entry
  <2>3. Holds(ss[5], Task("renounce", "InfrastructureReserve", "PAUSER", "deployer"))
    BY <1>8, <1>9, <2>1, <2>2
  <2>4. \A j \in 1..8 : j <= 5 => on(j) # Task("renounce", "DataContributionRegistry", "ADMIN", "deployer").on
    BY <1>8, <1>12, <1>13
  <2> QED BY <1>11, <2>1, <2>3, <2>4
<1>27. Precedes(todo, Task("renounce", "InfrastructureCostOracle", "GOV", "deployer"),
                   Task("renounce", "DataContributionRegistry", "ADMIN", "deployer"))
  <2>1. 6 \in 1..8
    OBVIOUS
  <2>2. 2 \in DOMAIN Policy[6].revoked /\ Policy[6].revoked[2] = "GOV"
    BY PolicyIs DEF Entry
  <2>3. Holds(ss[6], Task("renounce", "InfrastructureCostOracle", "GOV", "deployer"))
    BY <1>8, <1>9, <2>1, <2>2
  <2>4. \A j \in 1..8 : j <= 6 => on(j) # Task("renounce", "DataContributionRegistry", "ADMIN", "deployer").on
    BY <1>8, <1>12, <1>13
  <2> QED BY <1>11, <2>1, <2>3, <2>4
<1>28. RolesFirst(x, todo, F)
  BY <1>15, <1>16, <1>17, <1>18, <1>19, <1>20, <1>21, Zenon DEF RolesFirst, ByTimelock, BySafe
<1>29. PauserFirst(x, todo, F)
  BY <1>22, <1>23, <1>24, Zenon DEF PauserFirst
<1>30. RegistryLast(todo, F)
  <2>1. \A c, f : <<c, f>>[1] = c /\ <<c, f>>[2] = f
    OBVIOUS
  <2> QED BY <1>25, <1>26, <1>27, <2>1 DEF RegistryLast
<1> QED BY <1>7, <1>28, <1>29, <1>30 DEF HandoffOrder, T, todo, ss

-----------------------------------------------------------------------------
(* The scripts and the conductor.                                          *)

LEMMA CurrentIs ==
  ASSUME phase \in 0..Len(Phases)
  PROVE  /\ Len(Phases) = 10
         /\ Current = "deploy-contracts" => phase = 1
         /\ Current = "deploy-timelock" => phase = 2
         /\ Current = "create-pools" => phase = 3
         /\ Current = "posture" => phase = 4
         /\ Current = "verify-posture-pre" => phase = 5
         /\ Current = "confirm-handoff" => phase = 6
         /\ Current = "handoff-dry-run" => phase = 7
         /\ Current = "handoff" => phase = 8
         /\ Current = "verify-governance" => phase = 9
         /\ Current = "verify-posture-post" => phase = 10
<1>1. /\ Phases[1] = "deploy-contracts" /\ Phases[2] = "deploy-timelock" /\ Phases[3] = "create-pools"
      /\ Phases[4] = "posture" /\ Phases[5] = "verify-posture-pre" /\ Phases[6] = "confirm-handoff"
      /\ Phases[7] = "handoff-dry-run" /\ Phases[8] = "handoff" /\ Phases[9] = "verify-governance"
      /\ Phases[10] = "verify-posture-post" /\ Len(Phases) = 10
  BY DEF Phases
<1>2. \A p \in 0..10 : p = 0 \/ p = 1 \/ p = 2 \/ p = 3 \/ p = 4 \/ p = 5 \/ p = 6 \/ p = 7 \/ p = 8 \/ p = 9 \/ p = 10
  OBVIOUS
<1> QED BY <1>1, <1>2 DEF Current

\* A script begins, goes on, or has ended.
LEMMA JobBegins ==
  ASSUME JobKnown, NEW s \in Scripts \ {"bundle"}, NEW todo, job' = [script |-> s, todo |-> todo],
         phase \in 1..9, phase > 1 \/ s # "deploy-contracts" => artifact'.written, s = "posture" => ~mainnet,
         phase' = phase, launched' = launched, refused' = refused, bundle' = bundle, mainnet' = mainnet
  PROVE  JobKnown'
<1>1. Len(Phases) = 10 /\ Unset \notin Scripts
  BY CurrentIs, StackConstants DEF JobKnown
<1>2. job'.script = s /\ job'.todo = todo
  OBVIOUS
<1>3. refused = Unset /\ ~launched /\ phase # 10
  BY DEF JobKnown
<1> QED BY <1>1, <1>2, <1>3 DEF JobKnown, Runs, Idle, NoJob, Scripts

LEMMA JobGoesOn ==
  ASSUME JobKnown, ~Idle, NEW todo, job' = [job EXCEPT !.todo = todo], artifact'.written = artifact.written,
         phase' = phase, launched' = launched, refused' = refused, bundle' = bundle, mainnet' = mainnet
  PROVE  JobKnown' /\ job'.todo = todo /\ job'.script = job.script
<1>1. job.script # Unset
  BY DEF JobKnown, Runs
<1>2. job' = [script |-> job.script, todo |-> todo] /\ job'.script = job.script /\ job'.todo = todo
  BY DEF JobKnown
<1> QED BY <1>1, <1>2 DEF JobKnown, Runs, Idle, NoJob

LEMMA JobEnds ==
  ASSUME JobKnown, job' = NoJob, phase' \in 0..Len(Phases), phase' > 1 => artifact'.written,
         launched' => phase' = 0, refused' # Unset => phase' = 0,
         mainnet' = mainnet, ~mainnet => bundle' = <<>>
  PROVE  JobKnown'
<1>1. Unset \notin Scripts
  BY StackConstants
<1>2. job'.script = Unset /\ job'.todo = <<>>
  BY DEF NoJob
<1> QED BY <1>1, <1>2 DEF JobKnown, Runs, Idle, NoJob, Scripts


LEMMA JobKept ==
  ASSUME JobKnown, ArtifactKnown, LaunchNext
  PROVE  JobKnown'
<1>0. phase \in 0..10 /\ Len(Phases) = 10
  BY CurrentIs DEF JobKnown
<1>a. Unset \notin Scripts
  BY StackConstants
<1>1. CASE StartConductor
  <2>1. phase' \in 1..10 /\ (phase' > 1 => artifact'.written) /\ launched' = FALSE /\ refused' = Unset
    BY <1>0, <1>1 DEF StartConductor, NewRun
  <2>2. job' = NoJob /\ mainnet' = mainnet /\ bundle' = bundle
    BY <1>1 DEF StartConductor, NewRun, Idle, postureVars
  <2>3. phase' \in 0..Len(Phases)
    BY <1>0, <2>1
  <2>4. ~mainnet => bundle' = <<>>
    BY <2>2 DEF JobKnown
  <2> QED BY <2>1, <2>2, <2>3, <2>4, JobEnds
<1>2. CASE BeginPhase
  <2>1. phase' = phase /\ launched' = launched
    BY <1>2 DEF BeginPhase, conductorVars
  <2>2. CASE Current = "deploy-contracts" /\ StartDeploy /\ UNCHANGED <<contexts, built, postureVars>>
    <3>1. phase = 1
      BY <2>2, CurrentIs DEF JobKnown
    <3>2. PICK todo : job' = [script |-> "deploy-contracts", todo |-> todo]
      BY <2>2 DEF StartDeploy, Begin
    <3>3. refused' = refused /\ bundle' = bundle /\ mainnet' = mainnet
      BY <2>2 DEF StartDeploy, postureVars
    <3> QED BY <2>1, <3>1, <3>2, <3>3, JobBegins DEF Scripts
  <2>3. CASE Current = "deploy-timelock" /\ StartTimelock /\ UNCHANGED <<built, postureVars>>
    <3>1. phase = 2
      BY <2>3, CurrentIs DEF JobKnown
    <3>2. PICK todo : job' = [script |-> "deploy-timelock", todo |-> todo]
      BY <2>3 DEF StartTimelock, Begin
    <3>3. refused' = refused /\ bundle' = bundle /\ mainnet' = mainnet /\ artifact' = artifact
      BY <2>3 DEF StartTimelock, postureVars
    <3>4. artifact'.written
      BY <3>1, <3>3 DEF JobKnown
    <3> QED BY <2>1, <3>1, <3>2, <3>3, <3>4, JobBegins DEF Scripts
  <2>4. CASE Current = "create-pools" /\ StartPools /\ UNCHANGED <<contexts, postureVars>>
    <3>1. phase = 3
      BY <2>4, CurrentIs DEF JobKnown
    <3>2. PICK todo : job' = [script |-> "create-pools", todo |-> todo]
      BY <2>4 DEF StartPools, Begin
    <3>3. refused' = refused /\ bundle' = bundle /\ mainnet' = mainnet /\ artifact' = artifact
      BY <2>4 DEF StartPools, postureVars
    <3>4. artifact'.written
      BY <3>1, <3>3 DEF JobKnown
    <3> QED BY <2>1, <3>1, <3>2, <3>3, <3>4, JobBegins DEF Scripts
  <2>5. CASE Current = "posture" /\ StartPosture
    <3>1. phase = 4
      BY <2>5, CurrentIs DEF JobKnown
    <3>2. PICK todo : job' = [script |-> "posture", todo |-> todo]
      BY <2>5 DEF StartPosture, Begin
    <3>3. refused' = refused /\ bundle' = bundle /\ mainnet' = mainnet /\ artifact' = artifact /\ ~mainnet
      BY <2>5 DEF StartPosture, rest
    <3>4. artifact'.written
      BY <3>1, <3>3 DEF JobKnown
    <3> QED BY <2>1, <3>1, <3>2, <3>3, <3>4, JobBegins DEF Scripts
  <2>6. CASE Current = "handoff" /\ StartHandoff /\ UNCHANGED <<built, postureVars>>
    <3>1. phase = 8
      BY <2>6, CurrentIs DEF JobKnown
    <3>2. PICK todo : job' = [script |-> "handoff", todo |-> todo]
      BY <2>6 DEF StartHandoff, Begin
    <3>3. refused' = refused /\ bundle' = bundle /\ mainnet' = mainnet /\ artifact' = artifact
      BY <2>6 DEF StartHandoff, postureVars
    <3>4. artifact'.written
      BY <3>1, <3>3 DEF JobKnown
    <3> QED BY <2>1, <3>1, <3>2, <3>3, <3>4, JobBegins DEF Scripts
  <2> QED BY <1>2, <2>2, <2>3, <2>4, <2>5, <2>6 DEF BeginPhase
\* The run goes on to its next phase, or ends.
<1>b. ASSUME NextPhase, phase > 0 => artifact'.written, refused' # Unset => phase = 0
      PROVE  /\ phase' \in 0..Len(Phases) /\ (phase' > 1 => artifact'.written)
             /\ (launched' => phase' = 0) /\ (refused' # Unset => phase' = 0)
  <2>1. phase' = IF phase = 0 \/ phase = 10 THEN 0 ELSE phase + 1
    BY <1>0, <1>b DEF NextPhase
  <2>2. phase' \in 0..Len(Phases) /\ (phase = 10 => phase' = 0) /\ (phase = 0 => phase' = 0)
    BY <1>0, <2>1
  <2>3. phase' > 1 => phase > 0
    BY <1>0, <2>1
  <2>4. launched' => phase = 10
    BY <1>0, <1>b, Zenon DEF NextPhase
  <2> QED BY <1>b, <2>2, <2>3, <2>4, Zenon
<1>c. ASSUME Abort, ~launched
      PROVE  phase' = 0 /\ phase' \in 0..Len(Phases) /\ ~launched'
  BY <1>0, <1>c DEF Abort
<1>d. ~Idle => ~launched
  BY DEF JobKnown
<1>e. ~mainnet => bundle = <<>>
  BY DEF JobKnown
<1>f. refused # Unset => phase = 0
  BY DEF JobKnown
<1>3. CASE PassPhase
  <2>1. job' = NoJob /\ mainnet' = mainnet /\ bundle' = bundle /\ artifact' = artifact /\ refused' = refused
    BY <1>3 DEF PassPhase, scriptVars, stackVars, postureVars, Idle
  <2>2. phase > 1
    BY <1>3, CurrentIs DEF PassPhase, JobKnown
  <2>3. artifact'.written
    BY <2>1, <2>2 DEF JobKnown
  <2>4. NextPhase
    BY <1>3 DEF PassPhase
  <2> QED BY <1>b, <1>e, <1>f, <2>1, <2>3, <2>4, JobEnds
<1>4. CASE StopForSafe
  <2>1. job' = NoJob /\ mainnet' = mainnet /\ mainnet /\ Abort /\ refused' = refused
    BY <1>4 DEF StopForSafe, WriteBundle, rest, Idle
  <2>2. phase = 4
    BY <1>4, CurrentIs DEF StopForSafe, JobKnown
  <2>3. ~launched
    BY <2>2 DEF JobKnown
  <2> QED BY <1>0, <1>c, <2>1, <2>3, JobEnds
<1>5. CASE FailPhase
  <2>1. job' = NoJob /\ mainnet' = mainnet /\ bundle' = bundle /\ artifact' = artifact /\ refused' = refused /\ Abort
    BY <1>5 DEF FailPhase, scriptVars, stackVars, postureVars, Idle
  <2>2. phase # 0
    BY <1>5, CurrentIs DEF FailPhase, JobKnown
  <2>3. ~launched
    BY <2>2 DEF JobKnown
  <2> QED BY <1>0, <1>c, <1>e, <2>1, <2>3, JobEnds
<1>6. CASE NewStack
  <2>1. job' = NoJob /\ mainnet' = mainnet /\ bundle' = <<>> /\ refused' = Unset /\ NextPhase /\ artifact'.written
    BY <1>6 DEF NewStack, RecordStack, FreshArtifact
  <2> QED BY <1>b, <2>1, JobEnds
<1>7. CASE ScriptStep
  <2>1. phase' = phase /\ launched' = launched
    BY <1>7 DEF ScriptStep, conductorVars
  <2>2. /\ ~Idle /\ job' = [job EXCEPT !.todo = Tail(@)] /\ refused' = refused /\ bundle' = bundle
        /\ mainnet' = mainnet /\ artifact' = artifact
    <3>1. job.script \in Scripts => ~Idle
      BY <1>a DEF Idle, NoJob
    <3>2. CASE DeployStep /\ UNCHANGED <<contexts, built, postureVars>>
      BY <3>1, <3>2 DEF DeployStep, TaskDone, Runs, Scripts, postureVars
    <3>3. CASE TimelockStep /\ UNCHANGED <<built, postureVars>>
      BY <3>1, <3>3 DEF TimelockStep, TaskDone, Runs, Scripts, postureVars
    <3>4. CASE PoolStep /\ UNCHANGED <<contexts, postureVars>>
      BY <3>1, <3>4 DEF PoolStep, TaskDone, Runs, Scripts, postureVars
    <3>5. CASE PostureStep
      BY <3>1, <3>5 DEF PostureStep, TaskDone, Runs, Scripts, rest
    <3>6. CASE HandoffStep /\ UNCHANGED <<built, postureVars>>
      BY <3>1, <3>6 DEF HandoffStep, TaskDone, Runs, Scripts, postureVars
    <3> QED BY <1>7, <3>2, <3>3, <3>4, <3>5, <3>6 DEF ScriptStep
  <2>3. job' = [job EXCEPT !.todo = Tail(job.todo)]
    BY <2>2
  <2> QED BY <2>1, <2>2, <2>3, JobGoesOn
<1>8. CASE ScriptEnds
  <2>1. /\ job.script \in Scripts \ {"deploy-contracts"} /\ job' = NoJob /\ refused' = refused /\ bundle' = bundle
        /\ mainnet' = mainnet /\ artifact'.written = artifact.written
    <3>1. CASE RecordTimelock /\ UNCHANGED <<built, postureVars>>
      BY <3>1 DEF RecordTimelock, Runs, Scripts, postureVars, ArtifactKnown
    <3>2. CASE RecordPools /\ UNCHANGED <<contexts, postureVars>>
      BY <3>2 DEF RecordPools, Runs, Scripts, postureVars, ArtifactKnown
    <3>3. CASE EndPosture
      BY <3>3 DEF EndPosture, Runs, Scripts, postureVars, rest
    <3>4. CASE RecordHandoff /\ UNCHANGED <<built, postureVars>>
      BY <3>4 DEF RecordHandoff, Runs, Scripts, postureVars, ArtifactKnown
    <3> QED BY <1>8, <3>1, <3>2, <3>3, <3>4 DEF ScriptEnds
  <2>2. artifact'.written
    BY <1>a, <2>1 DEF JobKnown
  <2> QED BY <1>b, <1>e, <1>f, <1>8, <2>1, <2>2, JobEnds DEF ScriptEnds
<1>9. CASE ScriptAborts
  <2>1. job.script # Unset /\ job' = NoJob /\ bundle' = bundle /\ mainnet' = mainnet /\ artifact' = artifact
    <3>1. CASE ScriptFails /\ UNCHANGED <<contexts, built, postureVars>>
      BY <3>1 DEF ScriptFails, JobKnown, Runs, postureVars
    <3>2. CASE PoolReverts /\ UNCHANGED <<contexts, postureVars>>
      BY <1>a, <3>2 DEF PoolReverts, Runs, Scripts, postureVars
    <3>3. CASE PostureReverts
      BY <1>a, <3>3 DEF PostureReverts, Runs, Scripts, postureVars, rest
    <3>4. CASE HandoffReverts /\ UNCHANGED <<built, postureVars>>
      BY <1>a, <3>4 DEF HandoffReverts, Runs, Scripts, postureVars
    <3> QED BY <1>9, <3>1, <3>2, <3>3, <3>4 DEF ScriptAborts
  <2>2. ~launched
    BY <1>d, <2>1 DEF Idle, NoJob
  <2> QED BY <1>0, <1>c, <1>e, <1>9, <2>1, <2>2, JobEnds DEF ScriptAborts
<1>10. CASE ByHand
  <2>1. phase' = phase /\ phase = 0 /\ launched' = FALSE /\ Idle
    BY <1>10 DEF ByHand
  <2>2. CASE StartBundle
    <3>1. /\ job' = [script |-> "bundle", todo |-> bundle] /\ mainnet /\ mainnet' = mainnet /\ refused' = refused
          /\ bundle' = bundle /\ artifact' = artifact
      BY <2>2 DEF StartBundle, Begin, rest, postureVars
    <3>2. artifact.written
      BY <2>2 DEF StartBundle, Has, ArtifactKnown
    <3>3. job'.script = "bundle" /\ "bundle" \in Scripts
      BY <3>1 DEF Scripts
    <3> QED BY <1>0, <1>a, <2>1, <3>1, <3>2, <3>3 DEF JobKnown, Runs, Idle, NoJob
  <2>3. CASE SafeSubmits \/ EditConfig
    <3>1. job' = NoJob /\ mainnet' = mainnet /\ refused' = refused /\ bundle' = bundle /\ artifact' = artifact
      BY <2>1, <2>3 DEF SafeSubmits, EditConfig, rest, Idle
    <3> QED BY <1>0, <1>e, <2>1, <3>1, JobEnds
  <2> QED BY <1>10, <2>2, <2>3 DEF ByHand
<1>11. CASE FixRoles
  <2>1. /\ job' = NoJob /\ mainnet' = mainnet /\ refused' = refused /\ bundle' = bundle /\ artifact' = artifact
        /\ phase' = phase /\ phase = 0 /\ launched' = FALSE
    BY <1>11 DEF FixRoles, Idle, postureVars
  <2> QED BY <1>0, <1>e, <2>1, JobEnds
<1>12. CASE MintDuringLaunch
  <2>1. /\ job' = job /\ mainnet' = mainnet /\ refused' = refused /\ bundle' = bundle /\ artifact' = artifact
        /\ phase' = phase /\ launched' = launched
    BY <1>12 DEF MintDuringLaunch, MintSpends, rest, conductorVars
  <2> QED BY <2>1 DEF JobKnown, Runs, Idle
<1>13. CASE SkipEveryPhase
  <2>1. /\ job' = NoJob /\ mainnet' = mainnet /\ bundle' = bundle /\ refused' = Unset
        /\ phase' = phase /\ phase = 0
    BY <1>13 DEF SkipEveryPhase, NewRun, Idle, postureVars
  <2>2. phase' \in 0..Len(Phases) /\ ~(phase' > 1)
    BY <1>0, <2>1
  <2> QED BY <1>e, <2>1, <2>2, JobEnds
<1> QED BY <1>1, <1>2, <1>3, <1>4, <1>5, <1>6, <1>7, <1>8, <1>9, <1>10, <1>11, <1>12, <1>13 DEF LaunchNext


\* Of three, the first that is there.
LEMMA FirstIs ==
  ASSUME NEW a, NEW b, NEW c
  PROVE  First(<<a, b, c>>) \in {a, b, c, Unset}
<1> DEFINE s == <<a, b, c>>
           P(i) == s[i] # Unset /\ \A j \in 1..(i - 1) : s[j] = Unset
<1>1. DOMAIN s = 1..3 /\ s[1] = a /\ s[2] = b /\ s[3] = c
  OBVIOUS
<1>2. \A i \in 1..3 : i = 1 \/ i = 2 \/ i = 3
  OBVIOUS
<1>3. 1 \in 1..3 /\ 2 \in 1..3 /\ 3 \in 1..3
  OBVIOUS
<1>4. (\A j \in 1..(1 - 1) : FALSE) /\ (\A j \in 1..(2 - 1) : j = 1) /\ (\A j \in 1..(3 - 1) : j = 1 \/ j = 2)
  OBVIOUS
<1> HIDE DEF s
<1>5. (\E i \in 1..3 : s[i] # Unset) => \E i \in 1..3 : P(i)
  <2>1. s[1] # Unset => P(1)
    BY <1>4
  <2>2. s[1] = Unset /\ s[2] # Unset => P(2)
    BY <1>4
  <2>3. s[1] = Unset /\ s[2] = Unset /\ s[3] # Unset => P(3)
    BY <1>4
  <2> HIDE DEF P
  <2> QED BY <1>2, <1>3, <2>1, <2>2, <2>3
<1> HIDE DEF P
<1>6. First(s) = IF \E i \in 1..3 : s[i] # Unset THEN s[CHOOSE i \in 1..3 : P(i)] ELSE Unset
  BY <1>1 DEF First, P
<1>7. CASE \E i \in 1..3 : s[i] # Unset
  <2>1. (CHOOSE i \in 1..3 : P(i)) \in 1..3
    BY <1>5, <1>7
  <2> QED BY <1>1, <1>2, <1>6, <1>7, <2>1 DEF s
<1>8. CASE ~\E i \in 1..3 : s[i] # Unset
  BY <1>6, <1>8 DEF s
<1> QED BY <1>7, <1>8

\* Every handoff is told to hand over to somebody else.
LEMMA ContextIs ==
  ASSUME ArtifactKnown
  PROVE  Context.admin # "deployer" /\ Context.emergency # "deployer" /\ Context.timelock = artifact.timelock
<1> DEFINE admin == First(<<env.admin, artifact.admin, "safe">>)
           emergency == First(<<env.emergency, artifact.emergency, admin>>)
<1>1. Unset # "deployer" /\ env.admin # "deployer" /\ env.emergency # "deployer"
  BY StackConstants DEF ArtifactKnown
<1>2. admin # "deployer"
  BY <1>1, FirstIs DEF ArtifactKnown
<1> HIDE DEF admin
<1>3. emergency # "deployer"
  BY <1>1, <1>2, FirstIs DEF ArtifactKnown
<1> HIDE DEF emergency
<1>4. Context.admin = admin /\ Context.emergency = emergency /\ Context.timelock = artifact.timelock
  BY DEF Context, admin, emergency
<1> QED BY <1>2, <1>3, <1>4

\* What the scripts read and write besides the chain.
LEMMA ArtifactKept ==
  ASSUME JobKnown, ArtifactKnown, ContextsKnown, ScriptKnown, LaunchNext
  PROVE  ArtifactKnown'
<1>0. Unset \notin Scripts /\ (Runs("deploy-timelock") => job.script = "deploy-timelock")
  BY StackConstants DEF Runs
<1>a. ASSUME artifact' = artifact, env' \in Environments, Runs("deploy-timelock")' => artifact.timelock = Unset,
             ~artifact.written => facts' = facts /\ contexts' = contexts
      PROVE  ArtifactKnown'
  BY <1>a DEF ArtifactKnown
<1>b. ASSUME artifact' = artifact, env' = env, job' = NoJob, UNCHANGED <<facts, contexts>> PROVE ArtifactKnown'
  <2>1. ~Runs("deploy-timelock")'
    BY <1>b, StackConstants DEF Runs, NoJob, Scripts
  <2> QED BY <1>b, <2>1 DEF ArtifactKnown
<1>c. ASSUME artifact' = artifact, env' = env, job' = job, UNCHANGED <<facts, contexts>> PROVE ArtifactKnown'
  BY <1>c DEF ArtifactKnown, Runs
<1>d. ASSUME artifact' = artifact, env' = env, job' = [job EXCEPT !.todo = Tail(@)], UNCHANGED contexts,
             artifact.written
      PROVE ArtifactKnown'
  <2>1. job'.script = job.script
    BY <1>d DEF JobKnown
  <2> QED BY <1>d, <2>1 DEF ArtifactKnown, Runs
<1>1. CASE StartConductor
  <2>1. artifact' = artifact /\ env' \in Environments /\ job' = NoJob /\ UNCHANGED <<facts, contexts>>
    BY <1>1 DEF StartConductor, NewRun, Idle
  <2>2. ~Runs("deploy-timelock")'
    BY <2>1, StackConstants DEF Runs, NoJob, Scripts
  <2> QED BY <1>a, <2>1, <2>2
<1>2. CASE BeginPhase
  <2>2. CASE Current = "deploy-contracts" /\ StartDeploy /\ UNCHANGED <<contexts, built, postureVars>>
    <3>1. artifact' = artifact /\ env' = env /\ job'.script = "deploy-contracts" /\ UNCHANGED <<facts, contexts>>
      BY <2>2 DEF StartDeploy, Begin
    <3> QED BY <3>1 DEF ArtifactKnown, Runs
  <2>3. CASE Current = "deploy-timelock" /\ StartTimelock /\ UNCHANGED <<built, postureVars>>
    <3>1. artifact' = artifact /\ env' = env /\ artifact.timelock = Unset /\ UNCHANGED <<facts, contexts>>
      BY <2>3 DEF StartTimelock
    <3> QED BY <3>1 DEF ArtifactKnown
  <2>4. CASE Current = "create-pools" /\ StartPools /\ UNCHANGED <<contexts, postureVars>>
    <3>1. artifact' = artifact /\ env' = env /\ job'.script = "create-pools" /\ UNCHANGED contexts
      BY <2>4 DEF StartPools, Begin
    <3>2. artifact.written
      BY <2>4, CurrentIs DEF JobKnown
    <3> QED BY <3>1, <3>2 DEF ArtifactKnown, Runs
  <2>5. CASE Current = "posture" /\ StartPosture
    <3>1. artifact' = artifact /\ env' = env /\ job'.script = "posture" /\ UNCHANGED <<facts, contexts>>
      BY <2>5 DEF StartPosture, Begin, rest
    <3> QED BY <3>1 DEF ArtifactKnown, Runs
  <2>6. CASE Current = "handoff" /\ StartHandoff /\ UNCHANGED <<built, postureVars>>
    <3>1. artifact' = artifact /\ env' = env /\ job'.script = "handoff" /\ UNCHANGED facts
      BY <2>6 DEF StartHandoff, Begin
    <3>2. artifact.written
      BY <2>6, CurrentIs DEF JobKnown
    <3> QED BY <3>1, <3>2 DEF ArtifactKnown, Runs
  <2> QED BY <1>2, <2>2, <2>3, <2>4, <2>5, <2>6 DEF BeginPhase
<1>3. CASE PassPhase
  BY <1>3, <1>c DEF PassPhase, scriptVars, stackVars
<1>4. CASE StopForSafe
  BY <1>4, <1>c DEF StopForSafe, WriteBundle, rest
<1>5. CASE FailPhase
  BY <1>5, <1>c DEF FailPhase, scriptVars, stackVars
<1>6. CASE NewStack
  <2>1. /\ artifact' = FreshArtifact(draft) /\ env' = env /\ job' = NoJob
        /\ Runs("deploy-contracts") /\ job.todo = <<>>
    BY <1>6 DEF NewStack, RecordStack
  <2>2. ~Runs("deploy-timelock")'
    BY <2>1, StackConstants DEF Runs, NoJob, Scripts
  <2>3. draft \subseteq FullStack(env.backend)
    BY <2>1 DEF ScriptKnown, Made
  <2>4. IsFiniteSet(ListedRoles(draft))
    <3>1. ListedRoles(draft) \subseteq FullStack(env.backend)
      BY <2>3 DEF ListedRoles
    <3> QED BY <3>1, StackFinite, FS_Subset
  <2>5. /\ artifact'.written /\ artifact'.roles = ListedRoles(draft) /\ artifact'.tokens = {} /\ artifact'.timelock = Unset
        /\ artifact'.admin = Unset /\ artifact'.emergency = Unset
        /\ artifact' = [written |-> TRUE, roles |-> artifact'.roles, backend |-> artifact'.backend, tokens |-> {},
                        pending |-> artifact'.pending, timelock |-> Unset, admin |-> Unset, emergency |-> Unset]
    BY <2>1 DEF FreshArtifact
  <2>6. Unset # "deployer" /\ env \in Environments
    BY StackConstants DEF ArtifactKnown
  <2> QED BY <2>1, <2>2, <2>4, <2>5, <2>6 DEF ArtifactKnown
<1>7. CASE ScriptStep
  <2>1. artifact' = artifact /\ env' = env /\ contexts' = contexts /\ job' = [job EXCEPT !.todo = Tail(@)]
        /\ (facts' = facts \/ artifact.written)
    <3>2. CASE DeployStep /\ UNCHANGED <<contexts, built, postureVars>>
      BY <3>2 DEF DeployStep, TaskDone
    <3>3. CASE TimelockStep /\ UNCHANGED <<built, postureVars>>
      BY <1>0, <3>3 DEF TimelockStep, TaskDone, JobKnown, Runs, Scripts
    <3>4. CASE PoolStep /\ UNCHANGED <<contexts, postureVars>>
      BY <1>0, <3>4 DEF PoolStep, TaskDone, JobKnown, Runs, Scripts
    <3>5. CASE PostureStep
      BY <3>5 DEF PostureStep, TaskDone, rest
    <3>6. CASE HandoffStep /\ UNCHANGED <<built, postureVars>>
      BY <1>0, <3>6 DEF HandoffStep, TaskDone, JobKnown, Runs, Scripts
    <3> QED BY <1>7, <3>2, <3>3, <3>4, <3>5, <3>6 DEF ScriptStep
  <2>2. job'.script = job.script
    BY <2>1 DEF JobKnown
  <2> QED BY <2>1, <2>2 DEF ArtifactKnown, Runs
<1>8. CASE ScriptEnds
  <2>e. job' = NoJob
    BY <1>8 DEF ScriptEnds, RecordTimelock, RecordPools, EndPosture, RecordHandoff
  <2>0. ~Runs("deploy-timelock")'
    BY <2>e, StackConstants DEF Runs, NoJob, Scripts
  <2>1. CASE RecordTimelock /\ UNCHANGED <<built, postureVars>>
    <3>1. /\ artifact' = [artifact EXCEPT !.timelock = "timelock", !.admin = Context.admin, !.emergency = Context.emergency]
          /\ env' = env /\ UNCHANGED <<facts, contexts>>
      BY <2>1, ContextIs DEF RecordTimelock
    <3> QED BY <2>0, <3>1, ContextIs DEF ArtifactKnown
  <2>2. CASE RecordPools /\ UNCHANGED <<contexts, postureVars>>
    <3>1. /\ artifact' = [artifact EXCEPT !.tokens = @ \union Models, !.pending = @ \union (Models \ PreLaunch)]
          /\ env' = env /\ UNCHANGED <<facts, contexts>>
      BY <2>2 DEF RecordPools
    <3> QED BY <2>0, <3>1 DEF ArtifactKnown
  <2>3. CASE EndPosture
    BY <2>3, <2>e, <1>b DEF EndPosture, rest
  <2>4. CASE RecordHandoff /\ UNCHANGED <<built, postureVars>>
    <3>1. /\ artifact' = [artifact EXCEPT !.admin = Context.admin, !.emergency = Context.emergency]
          /\ env' = env /\ UNCHANGED <<facts, contexts>>
      BY <2>4 DEF RecordHandoff
    <3> QED BY <2>0, <3>1, ContextIs DEF ArtifactKnown
  <2> QED BY <1>8, <2>1, <2>2, <2>3, <2>4 DEF ScriptEnds
<1>9. CASE ScriptAborts
  <2>1. artifact' = artifact /\ env' = env /\ job' = NoJob /\ UNCHANGED <<facts, contexts>>
    BY <1>9 DEF ScriptAborts, ScriptFails, PoolReverts, PostureReverts, HandoffReverts, rest
  <2> QED BY <1>b, <2>1
<1>10. CASE ByHand
  <2>1. CASE StartBundle
    <3>1. artifact' = artifact /\ env' = env /\ job'.script = "bundle" /\ UNCHANGED <<facts, contexts>>
      BY <2>1 DEF StartBundle, Begin, rest
    <3> QED BY <3>1 DEF ArtifactKnown, Runs
  <2>2. CASE SafeSubmits \/ EditConfig
    BY <1>c, <2>2 DEF SafeSubmits, EditConfig, rest
  <2> QED BY <1>10, <2>1, <2>2 DEF ByHand
<1>11. CASE FixRoles
  <2>1. artifact' = artifact /\ env' = env /\ job' = job /\ contexts' = contexts
    BY <1>11 DEF FixRoles
  <2>2. artifact.written
    BY <1>11 DEF FixRoles, Has, ArtifactKnown
  <2> QED BY <2>1, <2>2 DEF ArtifactKnown, Runs
<1>12. CASE MintDuringLaunch
  BY <1>12, <1>c DEF MintDuringLaunch, MintSpends, rest
<1>13. CASE SkipEveryPhase
  <2>1. artifact' = artifact /\ env' \in Environments /\ job' = NoJob /\ UNCHANGED <<facts, contexts>>
    BY <1>13 DEF SkipEveryPhase, NewRun, Idle
  <2>2. ~Runs("deploy-timelock")'
    BY <2>1, StackConstants DEF Runs, NoJob, Scripts
  <2> QED BY <1>a, <2>1, <2>2
<1> QED BY <1>1, <1>2, <1>3, <1>4, <1>5, <1>6, <1>7, <1>8, <1>9, <1>10, <1>11, <1>12, <1>13 DEF LaunchNext


\* The handoffs of the stack so far.
LEMMA ContextsKept ==
  ASSUME JobKnown, ArtifactKnown, ContextsKnown, LaunchNext
  PROVE  ContextsKnown'
<1>a. ASSUME contexts' = contexts, artifact'.timelock \in {artifact.timelock, "timelock"} PROVE ContextsKnown'
  BY <1>a DEF ContextsKnown
<1>1. CASE StartConductor
  BY <1>1, <1>a DEF StartConductor, NewRun
<1>2. CASE BeginPhase
  <2>1. CASE Current = "handoff" /\ StartHandoff /\ UNCHANGED <<built, postureVars>>
    <3>1. contexts' = contexts \union {Context} /\ artifact' = artifact /\ artifact.timelock # Unset
      BY <2>1 DEF StartHandoff, TimelockReady
    <3>2. artifact.timelock = "timelock"
      BY <3>1 DEF ArtifactKnown
    <3>3. IsFiniteSet(contexts')
      BY <3>1, FS_AddElement DEF ContextsKnown
    <3> QED BY <3>1, <3>2, <3>3, ContextIs DEF ContextsKnown
  <2>2. CASE Current = "deploy-contracts" /\ StartDeploy /\ UNCHANGED <<contexts, built, postureVars>>
    BY <2>2, <1>a DEF StartDeploy
  <2>3. CASE Current = "deploy-timelock" /\ StartTimelock /\ UNCHANGED <<built, postureVars>>
    BY <2>3, <1>a DEF StartTimelock
  <2>4. CASE Current = "create-pools" /\ StartPools /\ UNCHANGED <<contexts, postureVars>>
    BY <2>4, <1>a DEF StartPools
  <2>5. CASE Current = "posture" /\ StartPosture
    BY <2>5, <1>a DEF StartPosture, rest
  <2> QED BY <1>2, <2>1, <2>2, <2>3, <2>4, <2>5 DEF BeginPhase
<1>3. CASE PassPhase
  BY <1>3, <1>a DEF PassPhase, scriptVars, stackVars
<1>4. CASE StopForSafe
  BY <1>4, <1>a DEF StopForSafe, WriteBundle, rest
<1>5. CASE FailPhase
  BY <1>5, <1>a DEF FailPhase, scriptVars, stackVars
<1>6. CASE NewStack
  <2>1. contexts' = {}
    BY <1>6 DEF NewStack
  <2> QED BY <2>1, FS_EmptySet DEF ContextsKnown
<1>7. CASE ScriptStep
  <2>1. contexts' = contexts /\ artifact' = artifact
    BY <1>7 DEF ScriptStep, DeployStep, TimelockStep, PoolStep, PostureStep, HandoffStep, rest
  <2> QED BY <2>1, <1>a
<1>8. CASE ScriptEnds
  <2>1. contexts' = contexts /\ artifact'.timelock \in {artifact.timelock, "timelock"}
    <3>1. CASE RecordTimelock /\ UNCHANGED <<built, postureVars>>
      BY <3>1 DEF RecordTimelock, ArtifactKnown
    <3>2. CASE RecordPools /\ UNCHANGED <<contexts, postureVars>>
      BY <3>2 DEF RecordPools, ArtifactKnown
    <3>3. CASE EndPosture
      BY <3>3 DEF EndPosture, rest
    <3>4. CASE RecordHandoff /\ UNCHANGED <<built, postureVars>>
      BY <3>4 DEF RecordHandoff, ArtifactKnown
    <3> QED BY <1>8, <3>1, <3>2, <3>3, <3>4 DEF ScriptEnds
  <2> QED BY <2>1, <1>a
<1>9. CASE ScriptAborts
  <2>1. contexts' = contexts /\ artifact' = artifact
    BY <1>9 DEF ScriptAborts, ScriptFails, PoolReverts, PostureReverts, HandoffReverts, rest
  <2> QED BY <1>a, <2>1
<1>10. CASE ByHand
  BY <1>10, <1>a DEF ByHand, StartBundle, SafeSubmits, EditConfig, rest
<1>11. CASE FixRoles
  BY <1>11, <1>a DEF FixRoles
<1>12. CASE MintDuringLaunch
  BY <1>12, <1>a DEF MintDuringLaunch, MintSpends, rest
<1>13. CASE SkipEveryPhase
  BY <1>13, <1>a DEF SkipEveryPhase, NewRun
<1> QED BY <1>1, <1>2, <1>3, <1>4, <1>5, <1>6, <1>7, <1>8, <1>9, <1>10, <1>11, <1>12, <1>13 DEF LaunchNext

\* Only where an earlier handoff of another context set the pauser, and gave the
\* factory on, is setting it refused.
LEMMA ResumesKept ==
  ASSUME JobKnown, ContextsKnown, ScriptKnown, artifact.written => FactsKnown(facts, contexts), HandoffResumes, LaunchNext
  PROVE  HandoffResumes'
<1>a. ASSUME contexts' = contexts, refused' \in {refused, Unset, "create-pools", "posture", "bundle"} PROVE HandoffResumes'
  <2>1. Unset # "handoff"
    BY StackConstants DEF Scripts
  <2> QED BY <1>a, <2>1 DEF HandoffResumes
<1>1. CASE StartConductor
  BY <1>1, <1>a DEF StartConductor, NewRun
<1>2. CASE BeginPhase
  <2>1. refused' = refused /\ phase # 0
    <3>1. refused' = refused
      BY <1>2 DEF BeginPhase, StartDeploy, StartTimelock, StartPools, StartPosture, StartHandoff
    <3>2. phase # 0
      BY <1>2, CurrentIs DEF BeginPhase, JobKnown
    <3> QED BY <3>1, <3>2
  <2>2. Unset # "handoff"
    BY StackConstants DEF Scripts
  <2> QED BY <2>1, <2>2 DEF HandoffResumes, JobKnown
<1>3. CASE PassPhase
  BY <1>3, <1>a DEF PassPhase, scriptVars, stackVars
<1>4. CASE StopForSafe
  BY <1>4, <1>a DEF StopForSafe, WriteBundle, rest
<1>5. CASE FailPhase
  BY <1>5, <1>a DEF FailPhase, scriptVars, stackVars
<1>6. CASE NewStack
  <2>1. refused' = Unset /\ Unset # "handoff"
    BY <1>6, StackConstants DEF NewStack, RecordStack, Scripts
  <2> QED BY <2>1 DEF HandoffResumes
<1>7. CASE ScriptStep
  <2>1. contexts' = contexts /\ refused' = refused
    BY <1>7 DEF ScriptStep, DeployStep, TimelockStep, PoolStep, PostureStep, HandoffStep, rest
  <2> QED BY <2>1, <1>a
<1>8. CASE ScriptEnds
  <2>1. contexts' = contexts /\ refused' = refused
    BY <1>8 DEF ScriptEnds, RecordTimelock, RecordPools, EndPosture, RecordHandoff, rest
  <2> QED BY <2>1, <1>a
<1>9. CASE ScriptAborts
  <2>1. CASE ScriptFails /\ UNCHANGED <<contexts, built, postureVars>>
    BY <2>1, <1>a DEF ScriptFails
  <2>2. CASE PoolReverts /\ UNCHANGED <<contexts, postureVars>>
    BY <2>2, <1>a DEF PoolReverts
  <2>3. CASE PostureReverts
    BY <2>3, <1>a DEF PostureReverts, Runs, rest
  <2>4. CASE HandoffReverts /\ UNCHANGED <<built, postureVars>>
    <3>1. /\ Runs("handoff") /\ job.todo # <<>> /\ TaskReverts(Head(job.todo)) /\ contexts' = contexts
          /\ artifact.written
      <4>1. Runs("handoff") /\ job.todo # <<>> /\ TaskReverts(Head(job.todo)) /\ contexts' = contexts
        BY <2>4 DEF HandoffReverts, NextTask
      <4> QED BY <4>1, StackConstants DEF JobKnown, Runs, Scripts
    <3>2. PICK x \in contexts : job.todo \in Seq(HandoffTasks(x, Recorded(x)))
      BY <3>1 DEF ScriptKnown
    <3> DEFINE t == Head(job.todo)
    <3>3. t \in HandoffTasks(x, Recorded(x))
      BY <3>1, <3>2, Shortened
    <3> HIDE DEF t
    <3>4. t = Task("setter", "HokusaiAMMFactory", "pauser", x.emergency)
      <4>1. t.op = "setter"
        BY <3>1 DEF TaskReverts, t
      <4> QED BY <3>3, <4>1, TaskKinds DEF Task
    <3>5. /\ <<"HokusaiAMMFactory", "pauser", x.emergency>> \notin facts /\ ~Still(facts, "HokusaiAMMFactory", "owner")
      <4>1. ~Has(t.on, t.field, t.to) /\ ~Has(t.on, "owner", "deployer")
        BY <3>1 DEF TaskReverts, t
      <4> QED BY <3>4, <4>1 DEF Task, Has, Still
    <3>6. PICK y \in contexts : <<"HokusaiAMMFactory", "pauser", y.emergency>> \in facts
      BY <3>1, <3>5 DEF FactsKnown, PausersKnown
    <3>7. x # y
      BY <3>5, <3>6
    <3>8. Cardinality(contexts) > 1
      <4>1. Cardinality({x}) = 1 /\ IsFiniteSet({x})
        BY FS_Singleton
      <4>2. {x} \subseteq contexts /\ {x} # contexts
        BY <3>6, <3>7
      <4>3. IsFiniteSet(contexts) /\ Cardinality(contexts) \in Nat
        BY FS_CardinalityType DEF ContextsKnown
      <4>4. Cardinality({x}) < Cardinality(contexts)
        BY <4>2, <4>3, FS_Subset, FS_CardinalityType, FS_Subset
      <4> QED BY <4>1, <4>3, <4>4
    <3> QED BY <3>1, <3>8 DEF HandoffResumes
  <2> QED BY <1>9, <2>1, <2>2, <2>3, <2>4 DEF ScriptAborts
<1>10. CASE ByHand
  BY <1>10, <1>a DEF ByHand, StartBundle, SafeSubmits, EditConfig, rest
<1>11. CASE FixRoles
  BY <1>11, <1>a DEF FixRoles
<1>12. CASE MintDuringLaunch
  BY <1>12, <1>a DEF MintDuringLaunch, MintSpends, rest
<1>13. CASE SkipEveryPhase
  BY <1>13, <1>a DEF SkipEveryPhase, NewRun
<1> QED BY <1>1, <1>2, <1>3, <1>4, <1>5, <1>6, <1>7, <1>8, <1>9, <1>10, <1>11, <1>12, <1>13 DEF LaunchNext


-----------------------------------------------------------------------------
(* The facts of the stack, step by step.                                   *)

LEMMA StackTriples == ASSUME NEW b PROVE Triples(FullStack(b))
<1>1. \A c, fields : Triples(Bootstrap(c, fields))
  BY DEF Bootstrap, Triples
<1>2. \A c, f, w : Triples(Wire(c, f, w))
  BY DEF Wire, Triples
<1>3. \A F, G : Triples(F) /\ Triples(G) => Triples(F \union G)
  BY DEF Triples
<1>4. Triples(CorePhase)
  BY <1>1, <1>2, <1>3 DEF CorePhase
<1>5. Triples(FactoryPhase)
  BY <1>1, <1>2, <1>3 DEF FactoryPhase
<1>6. Triples(FeesPhase(b))
  BY <1>1, <1>2, <1>3 DEF FeesPhase
<1>7. Triples(VerifierPhase)
  BY <1>1, <1>2, <1>3 DEF VerifierPhase
<1> QED BY <1>3, <1>4, <1>5, <1>6, <1>7 DEF FullStack

LEMMA DoneTriples ==
  ASSUME NEW F, Triples(F), NEW t
  PROVE  Triples(DoneIn(F, t))
<1>1. \A c, f, w : Triples(F \union {<<c, f, w>>}) /\ Triples(F \ {<<c, f, w>>}) /\ Triples(MovedIn(F, c, f, w))
  BY DEF Triples, MovedIn
<1> QED BY <1>1 DEF DoneIn

\* Another handoff, of a context that the timelock answers to.
LEMMA ContextAdded ==
  ASSUME NEW F, NEW C, NEW x, FactsKnown(F, C), <<"timelock", "PROPOSER", x.admin>> \in F
  PROVE  FactsKnown(F, C \union {x})
<1>1. OwnersKnown(F) /\ GivenUpLast(F)
  BY DEF FactsKnown
<1>2. AdminsKnown(F, C \union {x})
  BY DEF FactsKnown, AdminsKnown
<1>3. PausersKnown(F, C \union {x})
  BY DEF FactsKnown, PausersKnown
<1>4. ProposersKnown(F, C \union {x})
  BY DEF FactsKnown, ProposersKnown
<1> QED BY <1>1, <1>2, <1>3, <1>4 DEF FactsKnown

\* Another timelock, before the first handoff.
LEMMA TimelockMoved ==
  ASSUME NEW F, NEW w, FactsKnown(F, {})
  PROVE  FactsKnown(MovedIn(F, "timelock", "PROPOSER", w), {})
<1> DEFINE G == MovedIn(F, "timelock", "PROPOSER", w)
<1>1. \A c, f, v : c # "timelock" => (<<c, f, v>> \in G <=> <<c, f, v>> \in F)
  BY MovedIs
<1> HIDE DEF G
<1>2. \A c, f : c # "timelock" => (Still(G, c, f) <=> Still(F, c, f))
  BY <1>1 DEF Still
<1>3. OwnersKnown(G)
  BY <1>1, <1>2 DEF FactsKnown, OwnersKnown, Owned
<1>4. AdminsKnown(G, {})
  BY <1>1, <1>2 DEF FactsKnown, AdminsKnown, ByTimelock, BySafe
<1>5. GivenUpLast(G)
  BY <1>2 DEF FactsKnown, GivenUpLast
<1>6. PausersKnown(G, {})
  BY <1>1, <1>2 DEF FactsKnown, PausersKnown
<1>7. ProposersKnown(G, {})
  BY DEF ProposersKnown
<1> QED BY <1>3, <1>4, <1>5, <1>6, <1>7 DEF FactsKnown, G

\* The pools' and the repair's transactions leave the governors alone.
LEMMA PoolsApart ==
  ASSUME NEW F, NEW t \in PoolOps \X Models
  PROVE  SameHolders(F, F \union StepFacts(t))
<1>1. PICK m \in Models : t[2] = m
  OBVIOUS
<1>2. \A f, g : <<m, f>> \notin Guarded /\ <<"TokenManager", "MINTER">> \notin Guarded
  BY ModelsApart DEF Guarded, Stack, Owned, ByTimelock, BySafe
<1>3. \A y \in StepFacts(t) : (y[2] = "MINTER" /\ y[1] = "TokenManager") \/ y[1] = m
  BY <1>1 DEF StepFacts
<1> QED BY <1>2, <1>3 DEF SameHolders

LEMMA RepairApart ==
  ASSUME NEW F, NEW G, NEW H,
         \A y \in G \union H : /\ y[1] \in {"DeltaVerifier", "DataContributionRegistry", "ModelRegistry"}
                               /\ y[2] \in {"SUBMITTER", "RECORDER", "poolRegistrars"}
  PROVE  SameHolders(F, (F \union G) \ H)
<1>1. \A c, f : <<c, f>> \in Guarded => f \notin {"SUBMITTER", "RECORDER", "poolRegistrars"}
  BY DEF Guarded
<1> QED BY <1>1 DEF SameHolders


LEMMA FactsKept ==
  ASSUME JobKnown, ArtifactKnown, ContextsKnown, ScriptKnown, Triples(facts),
         artifact.written => FactsKnown(facts, contexts), LaunchNext
  PROVE  (artifact'.written => FactsKnown(facts', contexts')) /\ Triples(facts')
<1>w. \A s \in Scripts \ {"deploy-contracts"} : Runs(s) => artifact.written
  BY StackConstants DEF JobKnown, Runs
<1>a. ASSUME facts' = facts, contexts' = contexts, artifact'.written = artifact.written
      PROVE  (artifact'.written => FactsKnown(facts', contexts')) /\ Triples(facts')
  BY <1>a
<1>b. ASSUME artifact.written, contexts' = contexts, SameHolders(facts, facts')
      PROVE  FactsKnown(facts', contexts')
  BY <1>b, UntouchedKnown
<1>1. CASE StartConductor
  BY <1>1, <1>a DEF StartConductor, NewRun
<1>2. CASE BeginPhase
  <2>1. CASE Current = "deploy-contracts" /\ StartDeploy /\ UNCHANGED <<contexts, built, postureVars>>
    BY <2>1, <1>a DEF StartDeploy
  <2>2. CASE Current = "deploy-timelock" /\ StartTimelock /\ UNCHANGED <<built, postureVars>>
    BY <2>2, <1>a DEF StartTimelock
  <2>3. CASE Current = "create-pools" /\ StartPools /\ UNCHANGED <<contexts, postureVars>>
    <3>1. facts' = facts \union Wire("ModelRegistry", "poolRegistrars", "HokusaiAMMFactory") /\ contexts' = contexts
      BY <2>3 DEF StartPools
    <3>2. artifact.written
      BY <2>3, CurrentIs DEF JobKnown
    <3> DEFINE G == Wire("ModelRegistry", "poolRegistrars", "HokusaiAMMFactory")
    <3>a. \A y \in G \union {} : y[1] = "ModelRegistry" /\ y[2] = "poolRegistrars"
      BY DEF Wire
    <3>b. (facts \union G) \ {} = facts \union G
      OBVIOUS
    <3> HIDE DEF G
    <3>3. SameHolders(facts, (facts \union G) \ {})
      BY <3>a, RepairApart
    <3>4. SameHolders(facts, facts')
      BY <3>1, <3>3, <3>b DEF G
    <3>5. Triples(facts')
      BY <3>1 DEF Triples, Wire
    <3> QED BY <3>1, <3>2, <3>3, <3>4, <3>5, <1>b
  <2>4. CASE Current = "posture" /\ StartPosture
    BY <2>4, <1>a DEF StartPosture, rest
  <2>5. CASE Current = "handoff" /\ StartHandoff /\ UNCHANGED <<built, postureVars>>
    <3>1. /\ facts' = facts /\ contexts' = contexts \union {Context} /\ artifact' = artifact
          /\ <<"timelock", "PROPOSER", Context.admin>> \in facts
      BY <2>5 DEF StartHandoff, TimelockReady, Has
    <3> QED BY <3>1, ContextAdded
  <2> QED BY <1>2, <2>1, <2>2, <2>3, <2>4, <2>5 DEF BeginPhase
<1>3. CASE PassPhase
  BY <1>3, <1>a DEF PassPhase, scriptVars, stackVars
<1>4. CASE StopForSafe
  BY <1>4, <1>a DEF StopForSafe, WriteBundle, rest
<1>5. CASE FailPhase
  BY <1>5, <1>a DEF FailPhase, scriptVars, stackVars
<1>6. CASE NewStack
  <2>1. facts' = draft /\ contexts' = {} /\ Runs("deploy-contracts") /\ job.todo = <<>>
    BY <1>6 DEF NewStack, RecordStack
  <2>2. draft = FullStack(env.backend)
    <3>1. Made(draft, <<>>) = draft
      BY DEF Made
    <3> QED BY <2>1, <3>1 DEF ScriptKnown
  <2> QED BY <2>1, <2>2, StackKnown, StackTriples
<1>7. CASE ScriptStep
  <2>1. CASE DeployStep /\ UNCHANGED <<contexts, built, postureVars>>
    BY <2>1, <1>a DEF DeployStep
  <2>2. CASE TimelockStep /\ UNCHANGED <<built, postureVars>>
    <3>1. facts' = MovedIn(facts, "timelock", "PROPOSER", Context.admin) /\ contexts' = contexts /\ artifact' = artifact
      BY <2>2 DEF TimelockStep, Moved, MovedIn
    <3>2. contexts = {}
      BY <2>2, StackConstants DEF TimelockStep, ArtifactKnown, ContextsKnown
    <3>3. Triples(facts')
      BY <3>1 DEF MovedIn, Triples
    <3> QED BY <3>1, <3>2, <3>3, TimelockMoved
  <2>3. CASE PoolStep /\ UNCHANGED <<contexts, postureVars>>
    <3>1. /\ facts' = facts \union StepFacts(Head(job.todo)) /\ contexts' = contexts /\ artifact' = artifact
          /\ Runs("create-pools") /\ job.todo # <<>>
      BY <2>3 DEF PoolStep, NextTask
    <3>2. Head(job.todo) \in PoolOps \X Models
      BY <3>1, Shortened DEF ScriptKnown
    <3>3. SameHolders(facts, facts')
      BY <3>1, <3>2, PoolsApart
    <3>4. \A t : Triples(StepFacts(t))
      BY DEF StepFacts, Triples
    <3>5. Triples(facts')
      BY <3>1, <3>4 DEF Triples
    <3>6. artifact.written
      BY <1>w, <3>1 DEF Scripts
    <3> QED BY <1>b, <3>1, <3>3, <3>5, <3>6
  <2>4. CASE PostureStep
    BY <2>4, <1>a DEF PostureStep, rest
  <2>5. CASE HandoffStep /\ UNCHANGED <<built, postureVars>>
    <3>1. /\ facts' = AfterTask(Head(job.todo)) /\ contexts' = contexts /\ artifact' = artifact
          /\ Runs("handoff") /\ job.todo # <<>> /\ ~TaskReverts(Head(job.todo))
      BY <2>5 DEF HandoffStep, NextTask
    <3>2. facts' = DoneIn(facts, Head(job.todo))
      BY <3>1 DEF AfterTask, DoneIn, Has, Still, Moved, MovedIn
    <3>3. PICK x \in contexts : job.todo \in Seq(HandoffTasks(x, Recorded(x))) /\ HandoffOrder(x, job.todo, facts)
      BY <3>1 DEF ScriptKnown
    <3>4. x.admin # "deployer" /\ x.emergency # "deployer"
      BY DEF ContextsKnown
    <3>5. Head(job.todo) = SetPauser(x) =>
            <<"HokusaiAMMFactory", "pauser", x.emergency>> \in facts \/ Still(facts, "HokusaiAMMFactory", "owner")
      <4> DEFINE t == Head(job.todo)
      <4>1. SetPauser(x).op = "setter" /\ SetPauser(x).on = "HokusaiAMMFactory" /\ SetPauser(x).field = "pauser"
            /\ SetPauser(x).to = x.emergency
        BY DEF SetPauser, Task
      <4>2. t.op = "setter" => <<t.on, t.field, t.to>> \in facts \/ <<t.on, "owner", "deployer">> \in facts
        BY <3>1 DEF TaskReverts, Has
      <4> HIDE DEF t
      <4>3. t = SetPauser(x) =>
              <<"HokusaiAMMFactory", "pauser", x.emergency>> \in facts \/ Still(facts, "HokusaiAMMFactory", "owner")
        BY <4>1, <4>2 DEF Still
      <4> QED BY <4>3 DEF t
    <3>6. artifact.written
      BY <1>w, <3>1 DEF Scripts
    <3> QED BY <3>1, <3>2, <3>3, <3>4, <3>5, <3>6, TaskKnown, DoneTriples
  <2> QED BY <1>7, <2>1, <2>2, <2>3, <2>4, <2>5 DEF ScriptStep
<1>8. CASE ScriptEnds
  <2>1. facts' = facts /\ contexts' = contexts /\ artifact'.written = artifact.written
    <3>1. CASE RecordTimelock /\ UNCHANGED <<built, postureVars>>
      BY <3>1 DEF RecordTimelock, ArtifactKnown
    <3>2. CASE RecordPools /\ UNCHANGED <<contexts, postureVars>>
      BY <3>2 DEF RecordPools, ArtifactKnown
    <3>3. CASE EndPosture
      BY <3>3 DEF EndPosture, rest
    <3>4. CASE RecordHandoff /\ UNCHANGED <<built, postureVars>>
      BY <3>4 DEF RecordHandoff, ArtifactKnown
    <3> QED BY <1>8, <3>1, <3>2, <3>3, <3>4 DEF ScriptEnds
  <2> QED BY <2>1, <1>a
<1>9. CASE ScriptAborts
  <2>1. facts' = facts /\ contexts' = contexts /\ artifact' = artifact
    BY <1>9 DEF ScriptAborts, ScriptFails, PoolReverts, PostureReverts, HandoffReverts, rest
  <2> QED BY <1>a, <2>1
<1>10. CASE ByHand
  BY <1>10, <1>a DEF ByHand, StartBundle, SafeSubmits, EditConfig, rest
<1>11. CASE FixRoles
  <2>1. contexts' = contexts /\ artifact' = artifact
    BY <1>11 DEF FixRoles
  <2>2. PICK G, H : /\ facts' = (facts \union G) \ H /\ Triples(G)
                    /\ \A y \in G \union H : /\ y[1] \in {"DeltaVerifier", "DataContributionRegistry", "ModelRegistry"}
                                             /\ y[2] \in {"SUBMITTER", "RECORDER", "poolRegistrars"}
    <3>1. PICK done \in 1..3 : facts' =
            (facts \union {<<"DeltaVerifier", "SUBMITTER", "relayer">>})
                \ ({<<"DeltaVerifier", "SUBMITTER", "deployer">> : k \in 2..done}
                   \union {<<"DataContributionRegistry", "RECORDER", "deployer">> : k \in 3..done})
      BY <1>11 DEF FixRoles
    <3> DEFINE G == {<<"DeltaVerifier", "SUBMITTER", "relayer">>}
               H == {<<"DeltaVerifier", "SUBMITTER", "deployer">> : k \in 2..done}
                      \union {<<"DataContributionRegistry", "RECORDER", "deployer">> : k \in 3..done}
    <3>2. Triples(G)
      BY DEF Triples
    <3>3. \A y \in G \union H : /\ y[1] \in {"DeltaVerifier", "DataContributionRegistry", "ModelRegistry"}
                                /\ y[2] \in {"SUBMITTER", "RECORDER", "poolRegistrars"}
      OBVIOUS
    <3>4. facts' = (facts \union G) \ H
      BY <3>1
    <3> QED BY <3>2, <3>3, <3>4, Zenon
  <2>3. artifact.written
    BY <1>11 DEF FixRoles, Has, ArtifactKnown
  <2>4. Triples(facts')
    BY <2>2 DEF Triples
  <2>5. SameHolders(facts, facts')
    BY <2>2, RepairApart
  <2> QED BY <1>b, <2>1, <2>3, <2>4, <2>5
<1>12. CASE MintDuringLaunch
  BY <1>12, <1>a DEF MintDuringLaunch, MintSpends, rest
<1>13. CASE SkipEveryPhase
  BY <1>13, <1>a DEF SkipEveryPhase, NewRun
<1> QED BY <1>1, <1>2, <1>3, <1>4, <1>5, <1>6, <1>7, <1>8, <1>9, <1>10, <1>11, <1>12, <1>13 DEF LaunchNext


-----------------------------------------------------------------------------
(* What each script has still to do.                                       *)

LEMMA DeployPlanned ==
  ASSUME NEW b
  PROVE  Made({}, StackSteps(b)) = FullStack(b) /\ StackSteps(b) \in Seq(SUBSET FullStack(b))
<1> DEFINE x == CorePhase
           y == FactoryPhase
           z == FeesPhase(b)
           w == VerifierPhase
           s == StackSteps(b)
<1>1. FullStack(b) = x \union y \union z \union w /\ s = <<x, y, z, w>>
  BY DEF FullStack, StackSteps
<1> HIDE DEF x, y, z, w, s
<1>2. DOMAIN s = 1..4 /\ s[1] = x /\ s[2] = y /\ s[3] = z /\ s[4] = w
  BY <1>1
<1>3. \A i \in 1..4 : i = 1 \/ i = 2 \/ i = 3 \/ i = 4
  OBVIOUS
<1>4. 1 \in 1..4 /\ 2 \in 1..4 /\ 3 \in 1..4 /\ 4 \in 1..4
  OBVIOUS
<1>5. s \in Seq(SUBSET (x \union y \union z \union w))
  BY <1>1
<1>6. {s[i] : i \in DOMAIN s} = {x, y, z, w}
  BY <1>2, <1>3, <1>4
<1>7. {} \union UNION {x, y, z, w} = x \union y \union z \union w
  OBVIOUS
<1>8. Made({}, s) = x \union y \union z \union w
  BY <1>6, <1>7 DEF Made
<1>9. s \in Seq(SUBSET FullStack(b)) /\ Made({}, s) = FullStack(b)
  BY <1>1, <1>5, <1>8, Zenon
<1> QED BY <1>9 DEF s

LEMMA DeployGoesOn ==
  ASSUME NEW T, NEW s \in Seq(T), s # <<>>, NEW D
  PROVE  Made(D \union Head(s), Tail(s)) = Made(D, s)
<1>1. Len(s) \in Nat /\ Len(s) >= 1 /\ DOMAIN s = 1..Len(s) /\ Head(s) = s[1]
  OBVIOUS
<1>2. DOMAIN Tail(s) = 1..(Len(s) - 1) /\ \A i \in 1..(Len(s) - 1) : Tail(s)[i] = s[i + 1]
  OBVIOUS
<1>3. \A i \in 1..Len(s) : i = 1 \/ (i - 1 \in 1..(Len(s) - 1) /\ (i - 1) + 1 = i)
  BY <1>1
<1>4. 1 \in 1..Len(s) /\ \A i \in 1..(Len(s) - 1) : i + 1 \in 1..Len(s)
  BY <1>1
<1> DEFINE U == UNION {Tail(s)[i] : i \in DOMAIN Tail(s)}
           V == UNION {s[i] : i \in DOMAIN s}
<1>5. \A y : y \in V <=> \E i \in 1..Len(s) : y \in s[i]
  BY <1>1
<1>6. \A y : y \in U <=> \E i \in 1..(Len(s) - 1) : y \in s[i + 1]
  BY <1>2
<1> HIDE DEF U, V
<1>7. \A y : y \in V <=> y \in s[1] \/ y \in U
  BY <1>3, <1>4, <1>5, <1>6
<1> QED BY <1>1, <1>7 DEF Made, U, V

LEMMA PoolsPlanned ==
  FlattenSeq([i \in 1..Cardinality(Models) |-> PoolSteps(SetToSeq(Models)[i])]) \in Seq(PoolOps \X Models)
<1> DEFINE T == PoolOps \X Models
           n == Cardinality(Models)
           s == SetToSeq(Models)
           ss == [i \in 1..n |-> PoolSteps(s[i])]
<1>1. IsFiniteSet(Models) /\ n \in Nat
  BY LaunchConstants, FS_CardinalityType
<1>2. s \in Seq(Models) /\ DOMAIN s = 1..n
  BY <1>1, Listed
<1>3. \A m \in Models : PoolSteps(m) \in Seq(T)
  <2> TAKE m \in Models
  <2>a. /\ <<"deploy", m>> \in T /\ <<"register", m>> \in T /\ <<"pool", m>> \in T
        /\ <<"authorize", m>> \in T /\ <<"fund", m>> \in T /\ <<"distribute", m>> \in T
    <3>1. \A o \in PoolOps : <<o, m>> \in T
      OBVIOUS
    <3>2. /\ "deploy" \in PoolOps /\ "register" \in PoolOps /\ "pool" \in PoolOps
          /\ "authorize" \in PoolOps /\ "fund" \in PoolOps /\ "distribute" \in PoolOps
      BY DEF PoolOps
    <3> HIDE DEF T
    <3> QED BY <3>1, <3>2, Zenon
  <2> HIDE DEF T
  <2>b. \A a, b, c, d, e \in T : <<a, b, c, d, e>> \in Seq(T)
    OBVIOUS
  <2>c. \A a \in T : <<a>> \in Seq(T)
    OBVIOUS
  <2>d. <<>> \in Seq(T)
    OBVIOUS
  <2>1. << <<"deploy", m>>, <<"register", m>>, <<"pool", m>>, <<"authorize", m>>, <<"fund", m>> >> \in Seq(T)
    BY <2>a, <2>b, Zenon
  <2>2. << <<"distribute", m>> >> \in Seq(T) /\ <<>> \in Seq(T)
    BY <2>a, <2>c, <2>d, Zenon
  <2> QED BY <2>1, <2>2, Concatenated DEF PoolSteps
<1> HIDE DEF T, s, n
<1>4. \A i \in 1..n : s[i] \in Models
  <2>1. \A z \in Seq(Models) : \A i \in DOMAIN z : z[i] \in Models
    OBVIOUS
  <2> QED BY <1>2, <2>1
<1>5. ss \in [1..n -> Seq(T)]
  BY <1>3, <1>4
<1>6. ss \in Seq(Seq(T))
  BY <1>1, <1>5
<1> HIDE DEF ss
<1>7. FlattenSeq(ss) \in Seq(T)
  BY <1>6, Flattened
<1> QED BY <1>7 DEF ss, T, s, n

LEMMA ScriptKept ==
  ASSUME JobKnown, ArtifactKnown, ContextsKnown, ScriptKnown, LaunchNext
  PROVE  ScriptKnown'
<1>0. Unset \notin Scripts
  BY StackConstants
<1>a. ASSUME job'.script \notin {"deploy-contracts", "create-pools", "handoff"} PROVE ScriptKnown'
  BY <1>a DEF ScriptKnown, Runs
<1>b. ASSUME job' = NoJob PROVE ScriptKnown'
  BY <1>0, <1>a, <1>b DEF NoJob, Scripts
<1>1. CASE StartConductor
  BY <1>1, <1>b DEF StartConductor, NewRun, Idle
<1>2. CASE BeginPhase
  <2>1. CASE Current = "deploy-contracts" /\ StartDeploy /\ UNCHANGED <<contexts, built, postureVars>>
    <3>1. job' = [script |-> "deploy-contracts", todo |-> StackSteps(env.backend)] /\ draft' = {} /\ env' = env
      BY <2>1 DEF StartDeploy, Begin
    <3>2. job'.script = "deploy-contracts" /\ job'.todo = StackSteps(env.backend)
      BY <3>1
    <3> QED BY <3>1, <3>2, DeployPlanned DEF ScriptKnown, Runs
  <2>2. CASE Current = "deploy-timelock" /\ StartTimelock /\ UNCHANGED <<built, postureVars>>
    BY <2>2, <1>a DEF StartTimelock, Begin
  <2>3. CASE Current = "create-pools" /\ StartPools /\ UNCHANGED <<contexts, postureVars>>
    <3> DEFINE todo == FlattenSeq([i \in 1..Cardinality(Models) |-> PoolSteps(SetToSeq(Models)[i])])
    <3>1. job' = [script |-> "create-pools", todo |-> todo]
      BY <2>3 DEF StartPools, Begin
    <3>2. todo \in Seq(PoolOps \X Models)
      BY PoolsPlanned
    <3> HIDE DEF todo
    <3>3. job'.script = "create-pools" /\ job'.todo = todo
      BY <3>1
    <3> QED BY <3>2, <3>3 DEF ScriptKnown, Runs
  <2>4. CASE Current = "posture" /\ StartPosture
    BY <2>4, <1>a DEF StartPosture, Begin
  <2>5. CASE Current = "handoff" /\ StartHandoff /\ UNCHANGED <<built, postureVars>>
    <3> DEFINE todo == FlattenSeq([i \in DOMAIN Entries |-> ContractTasks(Entries[i], Context)])
               x == Context
    <3>1. /\ job' = [script |-> "handoff", todo |-> todo] /\ facts' = facts /\ contexts' = contexts \union {x}
          /\ artifact' = artifact /\ artifact.timelock # Unset
      BY <2>5 DEF StartHandoff, Begin, TimelockReady
    <3>2. x.timelock = "timelock"
      BY <3>1, ContextIs DEF ArtifactKnown
    <3>3. IsFiniteSet(artifact.roles) /\ artifact.tokens \in SUBSET Models
      BY DEF ArtifactKnown
    <3>4. todo \in Seq(HandoffTasks(x, Recorded(x))) /\ HandoffOrder(x, todo, facts)
      <4> HIDE DEF x
      <4>1. LET t == FlattenSeq([i \in DOMAIN Entries |-> ContractTasks(Entries[i], x)])
            IN  t \in Seq(HandoffTasks(x, Recorded(x))) /\ HandoffOrder(x, t, facts)
        BY <3>2, <3>3, HandoffPlanned
      <4> QED BY <4>1 DEF x
    <3> HIDE DEF todo, x
    <3>5. job'.script = "handoff" /\ job'.todo = todo
      BY <3>1
    <3>6. \A y : (y = x => (artifact' = artifact => Recorded(y)' = Recorded(y)))
      BY DEF Recorded
    <3>7. \E y \in contexts' : todo \in Seq(HandoffTasks(y, Recorded(y)')) /\ HandoffOrder(y, todo, facts)
      BY <3>1, <3>4, <3>6
    <3> QED BY <3>1, <3>5, <3>7 DEF ScriptKnown, Runs
  <2> QED BY <1>2, <2>1, <2>2, <2>3, <2>4, <2>5 DEF BeginPhase
<1>3. CASE PassPhase
  BY <1>3, <1>b DEF PassPhase, scriptVars, stackVars, Idle
<1>4. CASE StopForSafe
  BY <1>4, <1>b DEF StopForSafe, Idle
<1>5. CASE FailPhase
  BY <1>5, <1>b DEF FailPhase, scriptVars, stackVars, Idle
<1>6. CASE NewStack
  BY <1>6, <1>b DEF NewStack, RecordStack
<1>7. CASE ScriptStep
  <2>0. ASSUME job' = [job EXCEPT !.todo = Tail(@)] PROVE job'.script = job.script /\ job'.todo = Tail(job.todo)
    BY <2>0 DEF JobKnown
  <2>1. CASE DeployStep /\ UNCHANGED <<contexts, built, postureVars>>
    <3>1. /\ Runs("deploy-contracts") /\ job.todo # <<>> /\ draft' = draft \union Head(job.todo) /\ env' = env
          /\ job' = [job EXCEPT !.todo = Tail(@)]
      BY <2>1 DEF DeployStep, NextTask, TaskDone
    <3>2. Made(draft, job.todo) = FullStack(env.backend) /\ job.todo \in Seq(SUBSET FullStack(env.backend))
      BY <3>1 DEF ScriptKnown
    <3>3. Made(draft', Tail(job.todo)) = FullStack(env.backend)
      BY <3>1, <3>2, DeployGoesOn
    <3>4. Tail(job.todo) \in Seq(SUBSET FullStack(env.backend))
      BY <3>1, <3>2, Shortened
    <3>5. job'.script = "deploy-contracts" /\ job'.todo = Tail(job.todo)
      BY <3>1, <2>0 DEF Runs
    <3> QED BY <3>1, <3>3, <3>4, <3>5 DEF ScriptKnown, Runs
  <2>2. CASE TimelockStep /\ UNCHANGED <<built, postureVars>>
    BY <2>0, <2>2, <1>a DEF TimelockStep, TaskDone, Runs
  <2>3. CASE PoolStep /\ UNCHANGED <<contexts, postureVars>>
    <3>1. Runs("create-pools") /\ job.todo # <<>> /\ job' = [job EXCEPT !.todo = Tail(@)]
      BY <2>3 DEF PoolStep, TaskDone
    <3>2. job'.script = "create-pools" /\ job'.todo = Tail(job.todo)
      BY <3>1, <2>0 DEF Runs
    <3>3. Tail(job.todo) \in Seq(PoolOps \X Models)
      BY <3>1, Shortened DEF ScriptKnown
    <3> QED BY <3>2, <3>3 DEF ScriptKnown, Runs
  <2>4. CASE PostureStep
    BY <2>0, <2>4, <1>a DEF PostureStep, TaskDone, Runs
  <2>5. CASE HandoffStep /\ UNCHANGED <<built, postureVars>>
    <3>1. /\ facts' = AfterTask(Head(job.todo)) /\ contexts' = contexts /\ artifact' = artifact
          /\ Runs("handoff") /\ job.todo # <<>> /\ job' = [job EXCEPT !.todo = Tail(@)]
      BY <2>5 DEF HandoffStep, NextTask, TaskDone
    <3>2. facts' = DoneIn(facts, Head(job.todo))
      BY <3>1 DEF AfterTask, DoneIn, Has, Still, Moved, MovedIn
    <3>3. PICK x \in contexts : job.todo \in Seq(HandoffTasks(x, Recorded(x))) /\ HandoffOrder(x, job.todo, facts)
      BY <3>1 DEF ScriptKnown
    <3>4. x.admin # "deployer" /\ x.emergency # "deployer"
      BY DEF ContextsKnown
    <3>5. HandoffOrder(x, Tail(job.todo), facts')
      BY <3>1, <3>2, <3>3, <3>4, OrderKept
    <3>6. Tail(job.todo) \in Seq(HandoffTasks(x, Recorded(x)))
      BY <3>1, <3>3, Shortened
    <3>7. job'.script = "handoff" /\ job'.todo = Tail(job.todo)
      BY <3>1, <2>0 DEF Runs
    <3>8. Recorded(x)' = Recorded(x)
      BY <3>1 DEF Recorded
    <3> QED BY <3>1, <3>5, <3>6, <3>7, <3>8 DEF ScriptKnown, Runs
  <2> QED BY <1>7, <2>1, <2>2, <2>3, <2>4, <2>5 DEF ScriptStep
<1>8. CASE ScriptEnds
  BY <1>8, <1>b DEF ScriptEnds, RecordTimelock, RecordPools, EndPosture, RecordHandoff
<1>9. CASE ScriptAborts
  BY <1>9, <1>b DEF ScriptAborts, ScriptFails, PoolReverts, PostureReverts, HandoffReverts
<1>10. CASE ByHand
  <2>1. CASE StartBundle
    BY <1>a, <2>1 DEF StartBundle, Begin
  <2>2. CASE SafeSubmits \/ EditConfig
    BY <1>10, <1>b, <2>2 DEF ByHand, SafeSubmits, EditConfig, Idle
  <2> QED BY <1>10, <2>1, <2>2 DEF ByHand
<1>11. CASE FixRoles
  BY <1>11, <1>b DEF FixRoles, Idle
<1>12. CASE MintDuringLaunch
  <2>1. UNCHANGED <<job, draft, env, artifact, facts, contexts>>
    BY <1>12 DEF MintDuringLaunch, MintSpends, rest
  <2>2. \A x : Recorded(x)' = Recorded(x)
    BY <2>1 DEF Recorded
  <2> QED BY <2>1, <2>2 DEF ScriptKnown, Runs
<1>13. CASE SkipEveryPhase
  BY <1>13, <1>b DEF SkipEveryPhase, NewRun, Idle
<1> QED BY <1>1, <1>2, <1>3, <1>4, <1>5, <1>6, <1>7, <1>8, <1>9, <1>10, <1>11, <1>12, <1>13 DEF LaunchNext


-----------------------------------------------------------------------------
(* A launch that is called complete.                                       *)

HoldersIn(F, c, f) == {x[3] : x \in {y \in F : y[1] = c /\ y[2] = f}}
EntryHanded(e, F) ==
  /\ \A a : Holds(e.revoked, a) => <<e.contract, a, "deployer">> \notin F
  /\ e.owner # Unset => HoldersIn(F, e.contract, "owner") = {"timelock"}
  /\ \A r : Holds(e.roles, r) /\ r[2] = "TIMELOCK" => <<e.contract, r[1], "timelock">> \in F
HandedOver(F, timelock) ==
  /\ \A i \in DOMAIN Policy : EntryHanded(Policy[i], F)
  /\ <<"HokusaiAMMFactory", "pauser", "safe">> \in F /\ <<"timelock", "PROPOSER", "safe">> \in F
  /\ timelock = "timelock"

LEMMA HandedIs ==
  /\ LaunchedMeansHandedOver <=> (launched /\ ran /\ mainnet => HandedOver(facts, artifact.timelock))
  /\ LaunchedMeansHandedOver' <=> (launched' /\ ran' /\ mainnet' => HandedOver(facts', artifact'.timelock))
<1>1. ASSUME NEW e, NEW F
      PROVE  EntryHanded(e, F) <=>
               /\ \A j \in DOMAIN e.revoked : <<e.contract, e.revoked[j], "deployer">> \notin F
               /\ e.owner # Unset => HoldersIn(F, e.contract, "owner") = {"timelock"}
               /\ \A j \in DOMAIN e.roles : e.roles[j][2] = "TIMELOCK" => <<e.contract, e.roles[j][1], "timelock">> \in F
  BY DEF EntryHanded, Holds
<1>2. \A c, f, w : (Has(c, f, w) <=> <<c, f, w>> \in facts) /\ (Has(c, f, w)' <=> <<c, f, w>> \in facts')
  BY DEF Has
<1>3. \A c, f : HoldersOf(c, f) = HoldersIn(facts, c, f) /\ HoldersOf(c, f)' = HoldersIn(facts', c, f)
  BY DEF HoldersOf, HoldersIn
<1>4. LaunchedMeansHandedOver <=> (launched /\ ran /\ mainnet => HandedOver(facts, artifact.timelock))
  BY <1>1, <1>2, <1>3, ZenonT(60) DEF LaunchedMeansHandedOver, HandedOverByPolicy, HandedOver
<1>5. LaunchedMeansHandedOver' <=> (launched' /\ ran' /\ mainnet' => HandedOver(facts', artifact'.timelock))
  BY <1>1, <1>2, <1>3, ZenonT(60) DEF LaunchedMeansHandedOver, HandedOverByPolicy, HandedOver
<1> QED BY <1>4, <1>5

\* What is in a short list.
LEMMA HoldsFew ==
  /\ \A z : ~Holds(<<>>, z)
  /\ \A a, z : Holds(<<a>>, z) => z = a
  /\ \A a, b, z : Holds(<<a, b>>, z) => z = a \/ z = b
  /\ \A a, b, c, z : Holds(<<a, b, c>>, z) => z = a \/ z = b \/ z = c
  /\ \A a, b, c, d, z : Holds(<<a, b, c, d>>, z) => z = a \/ z = b \/ z = c \/ z = d
<1>1. \A z : ~Holds(<<>>, z)
  BY DEF Holds
<1>2. \A a, z : Holds(<<a>>, z) => z = a
  BY DEF Holds
<1>3. \A a, b, z : Holds(<<a, b>>, z) => z = a \/ z = b
  BY DEF Holds
<1>4. \A a, b, c, z : Holds(<<a, b, c>>, z) => z = a \/ z = b \/ z = c
  BY DEF Holds
<1>5. \A a, b, c, d, z : Holds(<<a, b, c, d>>, z) => z = a \/ z = b \/ z = c \/ z = d
  BY DEF Holds
<1> QED BY <1>1, <1>2, <1>3, <1>4, <1>5

\* What the last gate reads, and the order of the handoffs, leave nothing with
\* the deployer.
LEMMA HandedOverAll ==
  ASSUME NEW F, NEW C, NEW tl \in {Unset, "timelock"}, Triples(F), FactsKnown(F, C),
         \A c \in Owned : HoldersIn(F, c, "owner") = {tl},
         HoldersIn(F, "DeltaVerifier", "ADMIN") = {"safe"},
         HoldersIn(F, "DeltaVerifier", "PAUSER") = {"safe"},
         HoldersIn(F, "DeltaVerifier", "SUBMITTER") = {"relayer"},
         HoldersIn(F, "DataContributionRegistry", "ADMIN") = {"safe"},
         HoldersIn(F, "DataContributionRegistry", "RECORDER") = {"DeltaVerifier"},
         \A c \in {"InfrastructureReserve", "UsageFeeRouter", "InfrastructureCostOracle"} :
           <<c, "ADMIN", tl>> \in F /\ ~Still(F, c, "ADMIN")
  PROVE  HandedOver(F, tl)
<1>1. \A c, f, w : <<c, f, w>> \in F <=> w \in HoldersIn(F, c, f)
  <2> TAKE c, f, w
  <2>1. <<c, f, w>> \in F => w \in HoldersIn(F, c, f)
    BY DEF HoldersIn
  <2>2. ASSUME w \in HoldersIn(F, c, f) PROVE <<c, f, w>> \in F
    <3>1. PICK y \in F : y[1] = c /\ y[2] = f /\ y[3] = w
      BY <2>2 DEF HoldersIn
    <3>2. y = <<c, f, w>>
      BY <3>1 DEF Triples
    <3> QED BY <3>1, <3>2
  <2> QED BY <2>1, <2>2
<1>2. tl = "timelock"
  <2>1. <<"ModelRegistry", "owner", tl>> \in F
    BY <1>1 DEF Owned
  <2>2. tl \in {"deployer", "timelock"}
    BY <2>1 DEF FactsKnown, OwnersKnown, Owned
  <2> QED BY <2>2, StackConstants
<1>3. /\ ~Still(F, "DeltaVerifier", "ADMIN") /\ ~Still(F, "DeltaVerifier", "PAUSER") /\ ~Still(F, "DeltaVerifier", "SUBMITTER")
      /\ ~Still(F, "DataContributionRegistry", "ADMIN") /\ ~Still(F, "DataContributionRegistry", "RECORDER")
  BY <1>1 DEF Still
<1>4. /\ ~Still(F, "TokenManager", "ADMIN") /\ ~Still(F, "InfrastructureReserve", "PAUSER")
      /\ ~Still(F, "InfrastructureCostOracle", "GOV")
  BY <1>3 DEF FactsKnown, GivenUpLast
<1>5. /\ <<"TokenManager", "ADMIN", "timelock">> \in F
      /\ <<"InfrastructureCostOracle", "GOV", "timelock">> \in F
  BY <1>4 DEF FactsKnown, AdminsKnown, ByTimelock
<1>6. <<"HokusaiAMMFactory", "pauser", "safe">> \in F
  <2>1. <<"DeltaVerifier", "PAUSER", "safe">> \in F
    BY <1>1
  <2> QED BY <2>1 DEF FactsKnown, PausersKnown
<1>7. <<"timelock", "PROPOSER", "safe">> \in F
  <2>1. PICK x \in C : <<"DeltaVerifier", "ADMIN", x.admin>> \in F
    BY <1>3 DEF FactsKnown, AdminsKnown, BySafe
  <2>2. x.admin = "safe"
    BY <1>1, <2>1
  <2> QED BY <2>2 DEF FactsKnown, ProposersKnown
<1>8. \A c \in Owned : HoldersIn(F, c, "owner") = {"timelock"}
  BY <1>2
<1>9. \A c \in {"InfrastructureReserve", "UsageFeeRouter", "InfrastructureCostOracle"} :
        <<c, "ADMIN", "timelock">> \in F /\ ~Still(F, c, "ADMIN")
  BY <1>2
<1>10. ASSUME NEW c, NEW roles, NEW owner, NEW revoked,
              \A a : Holds(revoked, a) => ~Still(F, c, a),
              owner = Unset \/ c \in Owned,
              \A r : Holds(roles, r) /\ r[2] = "TIMELOCK" => <<c, r[1], "timelock">> \in F
       PROVE  EntryHanded(Entry(c, roles, owner, revoked), F)
  BY <1>8, <1>10 DEF EntryHanded, Entry, Still
<1>11. EntryHanded(Policy[1], F)
  BY <1>10, PolicyIs, HoldsFew DEF Owned
<1>12. EntryHanded(Policy[2], F)
  <2>1. \A a : Holds(<<"ADMIN">>, a) => ~Still(F, "TokenManager", a)
    BY <1>4, HoldsFew
  <2>2. \A r : Holds(<< <<"ADMIN", "TIMELOCK">>, <<"MINTER", "RECORDED">>, <<"DEPLOYER", "RECORDED">> >>, r)
                 /\ r[2] = "TIMELOCK" => <<"TokenManager", r[1], "timelock">> \in F
    BY <1>5, HoldsFew
  <2> QED BY <1>10, <2>1, <2>2, PolicyIs DEF Owned
<1>13. EntryHanded(Policy[3], F)
  BY <1>10, PolicyIs, HoldsFew DEF Owned
<1>14. EntryHanded(Policy[4], F)
  <2>1. \A a : Holds(<<"ADMIN", "PAUSER", "SUBMITTER">>, a) => ~Still(F, "DeltaVerifier", a)
    BY <1>3, HoldsFew
  <2>2. \A r : Holds(<< <<"ADMIN", "ADMIN_SAFE">>, <<"SUBMITTER", "RELAYER">>, <<"PAUSER", "EMERGENCY_SAFE">> >>, r)
                 /\ r[2] = "TIMELOCK" => <<"DeltaVerifier", r[1], "timelock">> \in F
    BY HoldsFew
  <2> DEFINE roles == << <<"ADMIN", "ADMIN_SAFE">>, <<"SUBMITTER", "RELAYER">>, <<"PAUSER", "EMERGENCY_SAFE">> >>
             revoked == <<"ADMIN", "PAUSER", "SUBMITTER">>
  <2>3. /\ \A a : Holds(revoked, a) => ~Still(F, "DeltaVerifier", a)
        /\ \A r : Holds(roles, r) /\ r[2] = "TIMELOCK" => <<"DeltaVerifier", r[1], "timelock">> \in F
        /\ Policy[4] = Entry("DeltaVerifier", roles, Unset, revoked)
    BY <2>1, <2>2, PolicyIs, Zenon
  <2> HIDE DEF roles, revoked
  <2> QED BY <1>10, <2>3
<1>15. EntryHanded(Policy[5], F)
  <2>1. \A a : Holds(<<"ADMIN", "PAUSER">>, a) => ~Still(F, "InfrastructureReserve", a)
    BY <1>4, <1>9, HoldsFew
  <2>2. \A r : Holds(<< <<"ADMIN", "TIMELOCK">>, <<"DEPOSITOR", "RECORDED">>, <<"PAYER", "RECORDED">>,
                        <<"PAUSER", "EMERGENCY_SAFE">> >>, r)
                 /\ r[2] = "TIMELOCK" => <<"InfrastructureReserve", r[1], "timelock">> \in F
    BY <1>9, HoldsFew
  <2> DEFINE roles == << <<"ADMIN", "TIMELOCK">>, <<"DEPOSITOR", "RECORDED">>, <<"PAYER", "RECORDED">>,
                           <<"PAUSER", "EMERGENCY_SAFE">> >>
             revoked == <<"ADMIN", "PAUSER">>
  <2>3. /\ \A a : Holds(revoked, a) => ~Still(F, "InfrastructureReserve", a)
        /\ \A r : Holds(roles, r) /\ r[2] = "TIMELOCK" => <<"InfrastructureReserve", r[1], "timelock">> \in F
        /\ Policy[5] = Entry("InfrastructureReserve", roles, Unset, revoked)
    BY <2>1, <2>2, PolicyIs, Zenon
  <2> HIDE DEF roles, revoked
  <2> QED BY <1>10, <2>3
<1>16. EntryHanded(Policy[6], F)
  <2>1. \A a : Holds(<<"ADMIN", "GOV">>, a) => ~Still(F, "InfrastructureCostOracle", a)
    BY <1>4, <1>9, HoldsFew
  <2>2. \A r : Holds(<< <<"ADMIN", "TIMELOCK">>, <<"GOV", "TIMELOCK">> >>, r)
                 /\ r[2] = "TIMELOCK" => <<"InfrastructureCostOracle", r[1], "timelock">> \in F
    BY <1>5, <1>9, HoldsFew
  <2> DEFINE roles == << <<"ADMIN", "TIMELOCK">>, <<"GOV", "TIMELOCK">> >>
             revoked == <<"ADMIN", "GOV">>
  <2>3. /\ \A a : Holds(revoked, a) => ~Still(F, "InfrastructureCostOracle", a)
        /\ \A r : Holds(roles, r) /\ r[2] = "TIMELOCK" => <<"InfrastructureCostOracle", r[1], "timelock">> \in F
        /\ Policy[6] = Entry("InfrastructureCostOracle", roles, Unset, revoked)
    BY <2>1, <2>2, PolicyIs, Zenon
  <2> HIDE DEF roles, revoked
  <2> QED BY <1>10, <2>3
<1>17. EntryHanded(Policy[7], F)
  <2>1. \A a : Holds(<<"ADMIN">>, a) => ~Still(F, "UsageFeeRouter", a)
    BY <1>9, HoldsFew
  <2>2. \A r : Holds(<< <<"ADMIN", "TIMELOCK">>, <<"FEE_DEPOSITOR", "RECORDED">> >>, r)
                 /\ r[2] = "TIMELOCK" => <<"UsageFeeRouter", r[1], "timelock">> \in F
    BY <1>9, HoldsFew
  <2> DEFINE roles == << <<"ADMIN", "TIMELOCK">>, <<"FEE_DEPOSITOR", "RECORDED">> >>
             revoked == <<"ADMIN">>
  <2>3. /\ \A a : Holds(revoked, a) => ~Still(F, "UsageFeeRouter", a)
        /\ \A r : Holds(roles, r) /\ r[2] = "TIMELOCK" => <<"UsageFeeRouter", r[1], "timelock">> \in F
        /\ Policy[7] = Entry("UsageFeeRouter", roles, Unset, revoked)
    BY <2>1, <2>2, PolicyIs, Zenon
  <2> HIDE DEF roles, revoked
  <2> QED BY <1>10, <2>3
<1>18. EntryHanded(Policy[8], F)
  <2>1. \A a : Holds(<<"ADMIN", "RECORDER">>, a) => ~Still(F, "DataContributionRegistry", a)
    BY <1>3, HoldsFew
  <2>2. \A r : Holds(<< <<"ADMIN", "ADMIN_SAFE">>, <<"RECORDER", "DeltaVerifier">>, <<"VERIFIER", "RECORDED">> >>, r)
                 /\ r[2] = "TIMELOCK" => <<"DataContributionRegistry", r[1], "timelock">> \in F
    BY HoldsFew
  <2> DEFINE roles == << <<"ADMIN", "ADMIN_SAFE">>, <<"RECORDER", "DeltaVerifier">>, <<"VERIFIER", "RECORDED">> >>
             revoked == <<"ADMIN", "RECORDER">>
  <2>3. /\ \A a : Holds(revoked, a) => ~Still(F, "DataContributionRegistry", a)
        /\ \A r : Holds(roles, r) /\ r[2] = "TIMELOCK" => <<"DataContributionRegistry", r[1], "timelock">> \in F
        /\ Policy[8] = Entry("DataContributionRegistry", roles, Unset, revoked)
    BY <2>1, <2>2, PolicyIs, Zenon
  <2> HIDE DEF roles, revoked
  <2> QED BY <1>10, <2>3
<1>19. \A i \in DOMAIN Policy : i = 1 \/ i = 2 \/ i = 3 \/ i = 4 \/ i = 5 \/ i = 6 \/ i = 7 \/ i = 8
  <2>1. DOMAIN Policy = 1..8
    BY PolicyIs
  <2> QED BY <2>1
<1>20. \A i \in DOMAIN Policy : EntryHanded(Policy[i], F)
  BY <1>11, <1>12, <1>13, <1>14, <1>15, <1>16, <1>17, <1>18, <1>19
<1> QED BY <1>2, <1>6, <1>7, <1>20 DEF HandedOver


LEMMA LaunchedKept ==
  ASSUME JobKnown, ArtifactKnown, Triples(facts), artifact.written => FactsKnown(facts, contexts),
         LaunchedMeansHandedOver, LaunchNext
  PROVE  LaunchedMeansHandedOver'
<1>a. ASSUME ~launched' PROVE LaunchedMeansHandedOver'
  BY <1>a, HandedIs
<1>b. ASSUME phase # 0, launched' = launched PROVE LaunchedMeansHandedOver'
  <2>1. ~launched
    BY <1>b DEF JobKnown
  <2> QED BY <1>a, <1>b, <2>1, Zenon
<1>c. ASSUME ~Idle, launched' = launched \/ NextPhase PROVE LaunchedMeansHandedOver'
  <2>1. ~launched /\ phase # Len(Phases)
    BY <1>c DEF JobKnown
  <2>2. ~launched'
    BY <1>c, <2>1, Zenon DEF NextPhase
  <2> QED BY <1>a, <2>2
<1>d. ASSUME UNCHANGED <<launched, ran, mainnet, facts, artifact>> PROVE LaunchedMeansHandedOver'
  BY <1>d, HandedIs, Zenon
<1>e. \A s \in Scripts : Runs(s) => ~Idle
  BY StackConstants DEF Runs, Idle, NoJob
<1>1. CASE StartConductor
  BY <1>1, <1>a DEF StartConductor, NewRun
<1>2. CASE BeginPhase
  <2>1. launched' = launched
    BY <1>2, Zenon DEF BeginPhase, conductorVars
  <2>2. phase # 0
    BY <1>2, CurrentIs DEF BeginPhase, JobKnown
  <2> QED BY <1>b, <2>1, <2>2
<1>3. CASE PassPhase
  <2>1. facts' = facts /\ artifact' = artifact /\ mainnet' = mainnet
    BY <1>3 DEF PassPhase, scriptVars, stackVars
  <2>2. launched' => phase = 10
    BY <1>3, CurrentIs, Zenon DEF PassPhase, NextPhase, JobKnown
  <2>3. ASSUME phase = 10, mainnet PROVE HandedOver(facts, artifact.timelock)
    <3>1. PostureVerified
      <4>1. \/ Current = "deploy-timelock" \/ Current = "verify-posture-pre" \/ Current = "confirm-handoff"
            \/ Current = "handoff-dry-run" \/ Current = "verify-governance" \/ PostureVerified
        BY <1>3 DEF PassPhase
      <4> QED BY <2>3, <4>1, CurrentIs DEF JobKnown
    <3>2. /\ \A c \in Owned : HoldersIn(facts, c, "owner") = {artifact.timelock}
          /\ HoldersIn(facts, "DeltaVerifier", "ADMIN") = {"safe"}
          /\ HoldersIn(facts, "DeltaVerifier", "PAUSER") = {"safe"}
          /\ HoldersIn(facts, "DeltaVerifier", "SUBMITTER") = {"relayer"}
          /\ HoldersIn(facts, "DataContributionRegistry", "ADMIN") = {"safe"}
          /\ HoldersIn(facts, "DataContributionRegistry", "RECORDER") = {"DeltaVerifier"}
          /\ \A c \in {"InfrastructureReserve", "UsageFeeRouter", "InfrastructureCostOracle"} :
               <<c, "ADMIN", artifact.timelock>> \in facts /\ ~Still(facts, c, "ADMIN")
      <4>1. \A c, f : HoldersOf(c, f) = HoldersIn(facts, c, f)
        BY DEF HoldersOf, HoldersIn
      <4>2. \A c, f, w : Has(c, f, w) <=> <<c, f, w>> \in facts
        BY DEF Has
      <4> QED BY <2>3, <3>1, <4>1, <4>2, Zenon DEF PostureVerified, Owned, Still
    <3>3. artifact.timelock \in {Unset, "timelock"} /\ artifact.written
      BY <2>3 DEF ArtifactKnown, JobKnown
    <3> QED BY <3>2, <3>3, HandedOverAll
  <2> QED BY <2>1, <2>2, <2>3, HandedIs, Zenon
<1>4. CASE StopForSafe
  <2>1. phase # 0
    BY <1>4, CurrentIs DEF StopForSafe, JobKnown
  <2>2. launched' = launched
    BY <1>4, Zenon DEF StopForSafe, Abort
  <2> QED BY <1>b, <2>1, <2>2
<1>5. CASE FailPhase
  <2>1. phase # 0
    BY <1>5, CurrentIs DEF FailPhase, JobKnown
  <2>2. launched' = launched
    BY <1>5, Zenon DEF FailPhase, Abort
  <2> QED BY <1>b, <2>1, <2>2
<1>6. CASE NewStack
  <2>1. Runs("deploy-contracts") /\ NextPhase
    BY <1>6, Zenon DEF NewStack, RecordStack
  <2> QED BY <1>c, <1>e, <2>1 DEF Scripts
<1>7. CASE ScriptStep
  <2>1. ~Idle
    BY <1>7, <1>e DEF ScriptStep, DeployStep, TimelockStep, PoolStep, PostureStep, HandoffStep, Scripts
  <2>2. launched' = launched
    BY <1>7, Zenon DEF ScriptStep, conductorVars
  <2> QED BY <1>c, <2>1, <2>2
<1>8. CASE ScriptEnds
  <2>1. ~Idle
    BY <1>8, <1>e DEF ScriptEnds, RecordTimelock, RecordPools, EndPosture, RecordHandoff, Scripts
  <2>2. NextPhase
    BY <1>8, Zenon DEF ScriptEnds
  <2> QED BY <1>c, <2>1, <2>2
<1>9. CASE ScriptAborts
  <2>1. ~Idle
    BY <1>9, <1>e DEF ScriptAborts, ScriptFails, PoolReverts, PostureReverts, HandoffReverts, Scripts
  <2>2. launched' = launched
    BY <1>9, Zenon DEF ScriptAborts, Abort
  <2> QED BY <1>c, <2>1, <2>2
<1>10. CASE ByHand
  BY <1>10, <1>a DEF ByHand
<1>11. CASE FixRoles
  BY <1>11, <1>a DEF FixRoles
<1>12. CASE MintDuringLaunch
  <2>1. UNCHANGED <<launched, ran, mainnet, facts, artifact>>
    BY <1>12, Zenon DEF MintDuringLaunch, MintSpends, rest, conductorVars
  <2> QED BY <1>d, <2>1
<1>13. CASE SkipEveryPhase
  BY <1>13, HandedIs, Zenon DEF SkipEveryPhase
<1> QED BY <1>1, <1>2, <1>3, <1>4, <1>5, <1>6, <1>7, <1>8, <1>9, <1>10, <1>11, <1>12, <1>13 DEF LaunchNext

\* The scripts keep to their order whatever fails and whoever starts again.
THEOREM HandoverInvariant == LaunchSpec => []HandoverInv
<1>1. LaunchInit => HandoverInv
  <2> SUFFICES ASSUME LaunchInit PROVE HandoverInv
    OBVIOUS
  <2>1. /\ env \in Environments /\ facts = {} /\ contexts = {} /\ job = NoJob /\ refused = Unset
        /\ phase = 0 /\ launched = FALSE /\ bundle = <<>>
        /\ artifact = [written |-> FALSE, roles |-> {}, backend |-> Unset, tokens |-> {},
                       pending |-> {}, timelock |-> Unset, admin |-> Unset, emergency |-> Unset]
    BY DEF LaunchInit, StackInit, PostureInit
  <2>2. Unset \notin Scripts /\ Unset # "deployer"
    BY StackConstants
  <2>3. job.script = Unset /\ job.todo = <<>>
    BY <2>1 DEF NoJob
  <2>4. \A s \in Scripts : ~Runs(s)
    BY <2>2, <2>3 DEF Runs
  <2>5. Len(Phases) = 10
    BY DEF Phases
  <2>6. JobKnown
    BY <2>1, <2>2, <2>3, <2>4, <2>5 DEF JobKnown, Runs, Idle, NoJob, Scripts
  <2>7. ArtifactKnown
    BY <2>1, <2>2, <2>4, FS_EmptySet DEF ArtifactKnown, Scripts
  <2>8. ContextsKnown
    BY <2>1, FS_EmptySet DEF ContextsKnown
  <2>9. ScriptKnown
    BY <2>4 DEF ScriptKnown, Scripts
  <2>10. Triples(facts) /\ ~artifact.written
    BY <2>1 DEF Triples
  <2>11. HandoffResumes
    BY <2>1, <2>2 DEF HandoffResumes, Scripts
  <2>12. LaunchedMeansHandedOver
    BY <2>1 DEF LaunchedMeansHandedOver
  <2> QED BY <2>6, <2>7, <2>8, <2>9, <2>10, <2>11, <2>12 DEF HandoverInv
<1>2. HandoverInv /\ [LaunchNext]_launchVars => HandoverInv'
  <2> SUFFICES ASSUME HandoverInv, [LaunchNext]_launchVars PROVE HandoverInv'
    OBVIOUS
  <2>1. CASE LaunchNext
    <3>1. JobKnown'
      BY <2>1, JobKept DEF HandoverInv
    <3>2. ArtifactKnown'
      BY <2>1, ArtifactKept DEF HandoverInv
    <3>3. ContextsKnown'
      BY <2>1, ContextsKept DEF HandoverInv
    <3>4. ScriptKnown'
      BY <2>1, ScriptKept DEF HandoverInv
    <3>5. Triples(facts)' /\ (artifact.written => FactsKnown(facts, contexts))'
      BY <2>1, FactsKept DEF HandoverInv
    <3>6. HandoffResumes'
      BY <2>1, ResumesKept DEF HandoverInv
    <3>7. LaunchedMeansHandedOver'
      BY <2>1, LaunchedKept DEF HandoverInv
    <3> QED BY <3>1, <3>2, <3>3, <3>4, <3>5, <3>6, <3>7 DEF HandoverInv
  <2>2. CASE UNCHANGED launchVars
    <3>1. /\ UNCHANGED <<mainnet, env, facts, draft, artifact, job, refused, contexts, bundle, phase, launched, ran>>
      BY <2>2 DEF launchVars, scriptVars, stackVars, postureVars, conductorVars
    <3>2. JobKnown'
      BY <3>1 DEF HandoverInv, JobKnown, Runs, Idle
    <3>3. ArtifactKnown'
      BY <3>1 DEF HandoverInv, ArtifactKnown, Runs
    <3>4. ContextsKnown'
      BY <3>1 DEF HandoverInv, ContextsKnown
    <3>5. ScriptKnown'
      <4>1. \A x : Recorded(x)' = Recorded(x)
        BY <3>1 DEF Recorded
      <4> QED BY <3>1, <4>1 DEF HandoverInv, ScriptKnown, Runs
    <3>6. Triples(facts)' /\ (artifact.written => FactsKnown(facts, contexts))'
      BY <3>1 DEF HandoverInv
    <3>7. HandoffResumes'
      BY <3>1 DEF HandoverInv, HandoffResumes
    <3>8. LaunchedMeansHandedOver'
      BY <3>1, HandedIs, Zenon DEF HandoverInv
    <3> QED BY <3>2, <3>3, <3>4, <3>5, <3>6, <3>7, <3>8 DEF HandoverInv
  <2> QED BY <2>1, <2>2
<1> QED BY <1>1, <1>2, PTL DEF LaunchSpec

\* A launch that the conductor calls complete has been handed over altogether,
\* also what its last gate does not read.
THEOREM CompleteLaunchIsHandedOver == LaunchSpec => []LaunchedMeansHandedOver
<1>1. HandoverInv => LaunchedMeansHandedOver
  BY DEF HandoverInv
<1> QED BY <1>1, HandoverInvariant, PTL

\* No contract is without a governor: in the recorded stack each is the
\* deployer's, the timelock's, or the Safe's that a handoff was told of.
THEOREM NobodyOrphaned == LaunchSpec => []NothingOrphaned
<1>1. HandoverInv => NothingOrphaned
  <2> SUFFICES ASSUME HandoverInv, facts # {} PROVE
        /\ \A c \in Owned : Governed(c, "owner")
        /\ \A c \in ByTimelock \union BySafe : Governed(c, "ADMIN")
    BY DEF NothingOrphaned, Owned, ByTimelock, BySafe
  <2>1. FactsKnown(facts, contexts)
    BY DEF HandoverInv, ArtifactKnown
  <2>2. \A c, f, w : <<c, f, w>> \in facts /\ w \in {"deployer", "timelock"} \union {x.admin : x \in contexts}
                       => Governed(c, f)
    <3> SUFFICES ASSUME NEW c, NEW f, NEW w \in {"deployer", "timelock"} \union {x.admin : x \in contexts},
                        <<c, f, w>> \in facts
                 PROVE  Governed(c, f)
      OBVIOUS
    <3>1. w \in HoldersOf(c, f)
      BY DEF HoldersOf
    <3> QED BY <3>1 DEF Governed
  <2>3. \A c \in Owned : Governed(c, "owner")
    BY <2>1, <2>2 DEF FactsKnown, OwnersKnown, Still
  <2>4. \A c \in ByTimelock \union BySafe : Governed(c, "ADMIN")
    BY <2>1, <2>2 DEF FactsKnown, AdminsKnown, Still
  <2> QED BY <2>3, <2>4
<1> QED BY <1>1, HandoverInvariant, PTL


-----------------------------------------------------------------------------
(* What one transaction of a plan does to the posture.                     *)

LEMMA ItemKinds ==
  ASSUME NEW t \in PlanItems
  PROVE  \/ \E a \in Attesters : t = PlanItem("addAttester", a)
         \/ \E a \in Attesters : t = PlanItem("removeAttester", a)
         \/ \E c \in Postures : t = PlanItem("setAttesterThreshold", c.threshold)
         \/ \E m \in Models : t = PlanItem("setMintBudget", m)
         \/ \E m \in Models : \E g \in Geneses : t = PlanItem("setWeightGenesis", <<m, g>>)
         \/ t = Knob
         \/ t = Close
<1> DEFINE A == {PlanItem(op, a) : op \in {"addAttester", "removeAttester"}, a \in Attesters}
           B == {PlanItem("setAttesterThreshold", c.threshold) : c \in Postures}
           C == {PlanItem("setMintBudget", m) : m \in Models}
           D == {PlanItem("setWeightGenesis", g) : g \in Models \X Geneses}
<1>1. t \in A => \/ \E a \in Attesters : t = PlanItem("addAttester", a)
                 \/ \E a \in Attesters : t = PlanItem("removeAttester", a)
  OBVIOUS
<1>2. t \in B => \E c \in Postures : t = PlanItem("setAttesterThreshold", c.threshold)
  OBVIOUS
<1>3. t \in C => \E m \in Models : t = PlanItem("setMintBudget", m)
  OBVIOUS
<1>4. t \in D => \E m \in Models : \E g \in Geneses : t = PlanItem("setWeightGenesis", <<m, g>>)
  <2> SUFFICES ASSUME NEW x \in Models \X Geneses, t = PlanItem("setWeightGenesis", x)
               PROVE  \E m \in Models : \E g \in Geneses : t = PlanItem("setWeightGenesis", <<m, g>>)
    OBVIOUS
  <2>1. PICK m \in Models, g \in Geneses : x = <<m, g>>
    OBVIOUS
  <2> QED BY <2>1
<1>5. t \in A \/ t \in B \/ t \in C \/ t \in D \/ t = Knob \/ t = Close
  BY DEF PlanItems
<1> HIDE DEF A, B, C, D
<1> QED BY <1>1, <1>2, <1>3, <1>4, <1>5, Zenon

LEMMA AfterIs ==
  ASSUME NEW p
  PROVE  /\ \A a : After(p, PlanItem("addAttester", a)) = [p EXCEPT !.attesters = @ \union {a}]
         /\ \A a : After(p, PlanItem("removeAttester", a)) = [p EXCEPT !.attesters = @ \ {a}]
         /\ \A k : After(p, PlanItem("setAttesterThreshold", k)) = [p EXCEPT !.threshold = k]
         /\ \A m : After(p, PlanItem("setMintBudget", m)) = [p EXCEPT !.budget[m] = "full"]
         /\ After(p, Knob) = [p EXCEPT !.knob = TRUE]
         /\ After(p, Close) = [p EXCEPT !.closed = TRUE]
<1>1. \A op, a : PlanItem(op, a).op = op /\ PlanItem(op, a).arg = a
  BY DEF PlanItem
<1>3. \A a : After(p, PlanItem("addAttester", a)) = [p EXCEPT !.attesters = @ \union {a}]
  BY <1>1 DEF After
<1>4. \A a : After(p, PlanItem("removeAttester", a)) = [p EXCEPT !.attesters = @ \ {a}]
  BY <1>1 DEF After
<1>5. \A k : After(p, PlanItem("setAttesterThreshold", k)) = [p EXCEPT !.threshold = k]
  BY <1>1 DEF After
<1>6. \A m : After(p, PlanItem("setMintBudget", m)) = [p EXCEPT !.budget[m] = "full"]
  BY <1>1 DEF After
<1>8. After(p, Knob) = [p EXCEPT !.knob = TRUE]
  <2>1. Knob.op = "setMaxReward"
    BY <1>1, Zenon DEF Knob
  <2> QED BY <2>1 DEF After
<1>9. After(p, Close) = [p EXCEPT !.closed = TRUE]
  <2>1. Close.op = "disableLegacyMints"
    BY <1>1, Zenon DEF Close
  <2> QED BY <2>1 DEF After
<1> QED BY <1>3, <1>4, <1>5, <1>6, <1>8, <1>9

LEMMA GenesisIs ==
  ASSUME NEW p, NEW m, NEW g
  PROVE  After(p, PlanItem("setWeightGenesis", <<m, g>>)) = [p EXCEPT !.genesis[m] = g]
<1> DEFINE x == <<m, g>>
<1>1. PlanItem("setWeightGenesis", x).op = "setWeightGenesis" /\ PlanItem("setWeightGenesis", x).arg = x
  BY DEF PlanItem
<1>2. x[1] = m /\ x[2] = g
  OBVIOUS
<1> HIDE DEF x
<1>3. After(p, PlanItem("setWeightGenesis", x)) = [p EXCEPT !.genesis[m] = g]
  BY <1>1, <1>2 DEF After
<1> QED BY <1>3 DEF x

\* What the contract allows, whoever asks; what a posture has, it keeps.
Allowed(p, t) ==
  /\ \A a : t = PlanItem("removeAttester", a) => a \in p.attesters /\ p.threshold <= Cardinality(p.attesters) - 1
  /\ \A c \in Postures : t = PlanItem("setAttesterThreshold", c.threshold) =>
       c.threshold >= 1 /\ c.threshold <= Cardinality(p.attesters)
  /\ \A m, g : t = PlanItem("setWeightGenesis", <<m, g>>) => g # Unset
Later(p, q) ==
  /\ p.threshold >= 1 => q.threshold >= 1
  /\ \A m \in Models : /\ p.budget[m] # "none" => q.budget[m] # "none"
                       /\ p.genesis[m] # Unset => q.genesis[m] # Unset

LEMMA ItemKnown ==
  ASSUME NEW p, PostureKnown(p), NEW t \in PlanItems, Allowed(p, t)
  PROVE  PostureKnown(After(p, t)) /\ Later(p, After(p, t)) /\ (After(p, t).closed => p.closed \/ t = Close)
<1> DEFINE q == After(p, t)
<1>0. /\ p \in [attesters : SUBSET Attesters, threshold : Nat, closed : BOOLEAN, knob : BOOLEAN,
                budget : [Models -> {"none", "full", "spent"}], genesis : [Models -> Geneses \union {Unset}]]
      /\ IsFiniteSet(p.attesters) /\ Cardinality(p.attesters) >= p.threshold
      /\ Cardinality(p.attesters) \in Nat
  BY FS_CardinalityType DEF PostureKnown
<1>a. ASSUME NEW z, z \in [attesters : SUBSET Attesters, threshold : Nat, closed : BOOLEAN, knob : BOOLEAN,
                budget : [Models -> {"none", "full", "spent"}], genesis : [Models -> Geneses \union {Unset}]],
             IsFiniteSet(z.attesters), Cardinality(z.attesters) >= z.threshold, z.closed => p.closed \/ t = Close,
             Later(p, z)
      PROVE  PostureKnown(z) /\ Later(p, z) /\ (z.closed => p.closed \/ t = Close)
  BY <1>a DEF PostureKnown
<1>1. CASE \E a \in Attesters : t = PlanItem("addAttester", a)
  <2>1. PICK a \in Attesters : t = PlanItem("addAttester", a)
    BY <1>1
  <2>2. q = [p EXCEPT !.attesters = @ \union {a}]
    BY <2>1, AfterIs
  <2>3. /\ q.attesters = p.attesters \union {a} /\ q.threshold = p.threshold /\ q.closed = p.closed
        /\ q.budget = p.budget /\ q.genesis = p.genesis
        /\ q \in [attesters : SUBSET Attesters, threshold : Nat, closed : BOOLEAN, knob : BOOLEAN,
                budget : [Models -> {"none", "full", "spent"}], genesis : [Models -> Geneses \union {Unset}]]
    BY <1>0, <2>2
  <2>4. IsFiniteSet(q.attesters) /\ Cardinality(q.attesters) >= q.threshold
    <3>1. \/ Cardinality(p.attesters \union {a}) = Cardinality(p.attesters)
          \/ Cardinality(p.attesters \union {a}) = Cardinality(p.attesters) + 1
      BY <1>0, FS_AddElement
    <3>2. IsFiniteSet(p.attesters \union {a})
      BY <1>0, FS_AddElement
    <3> QED BY <1>0, <2>3, <3>1, <3>2
  <2> HIDE DEF q
  <2> QED BY <1>a, <2>3, <2>4 DEF Later, q
<1>2. CASE \E a \in Attesters : t = PlanItem("removeAttester", a)
  <2>1. PICK a \in Attesters : t = PlanItem("removeAttester", a)
    BY <1>2
  <2>2. q = [p EXCEPT !.attesters = @ \ {a}]
    BY <2>1, AfterIs
  <2>3. /\ q.attesters = p.attesters \ {a} /\ q.threshold = p.threshold /\ q.closed = p.closed
        /\ q.budget = p.budget /\ q.genesis = p.genesis
        /\ q \in [attesters : SUBSET Attesters, threshold : Nat, closed : BOOLEAN, knob : BOOLEAN,
                budget : [Models -> {"none", "full", "spent"}], genesis : [Models -> Geneses \union {Unset}]]
    BY <1>0, <2>2
  <2>4. IsFiniteSet(q.attesters) /\ Cardinality(q.attesters) >= q.threshold
    <3>1. a \in p.attesters /\ p.threshold <= Cardinality(p.attesters) - 1
      BY <2>1 DEF Allowed
    <3>2. IsFiniteSet(p.attesters \ {a}) /\ Cardinality(p.attesters \ {a}) = Cardinality(p.attesters) - 1
      BY <1>0, <3>1, FS_RemoveElement
    <3> QED BY <1>0, <2>3, <3>1, <3>2
  <2> HIDE DEF q
  <2> QED BY <1>a, <2>3, <2>4 DEF Later, q
<1>3. CASE \E c \in Postures : t = PlanItem("setAttesterThreshold", c.threshold)
  <2>1. PICK c \in Postures : t = PlanItem("setAttesterThreshold", c.threshold)
    BY <1>3
  <2>2. q = [p EXCEPT !.threshold = c.threshold]
    BY <2>1, AfterIs
  <2>3. c.threshold \in Nat /\ c.threshold >= 1 /\ c.threshold <= Cardinality(p.attesters)
    BY <2>1, LaunchConstants DEF Allowed
  <2>4. /\ q.attesters = p.attesters /\ q.threshold = c.threshold /\ q.closed = p.closed
        /\ q.budget = p.budget /\ q.genesis = p.genesis
        /\ q \in [attesters : SUBSET Attesters, threshold : Nat, closed : BOOLEAN, knob : BOOLEAN,
                budget : [Models -> {"none", "full", "spent"}], genesis : [Models -> Geneses \union {Unset}]]
    BY <1>0, <2>2, <2>3
  <2> HIDE DEF q
  <2> QED BY <1>0, <1>a, <2>3, <2>4 DEF Later, q
<1>4. CASE \E m \in Models : t = PlanItem("setMintBudget", m)
  <2>1. PICK m \in Models : t = PlanItem("setMintBudget", m)
    BY <1>4
  <2>2. q = [p EXCEPT !.budget[m] = "full"]
    BY <2>1, AfterIs
  <2>3. /\ q.attesters = p.attesters /\ q.threshold = p.threshold /\ q.closed = p.closed
        /\ q.budget = [p.budget EXCEPT ![m] = "full"] /\ q.genesis = p.genesis
        /\ q \in [attesters : SUBSET Attesters, threshold : Nat, closed : BOOLEAN, knob : BOOLEAN,
                budget : [Models -> {"none", "full", "spent"}], genesis : [Models -> Geneses \union {Unset}]]
    BY <1>0, <2>2
  <2>4. \A n \in Models : q.budget[n] = IF n = m THEN "full" ELSE p.budget[n]
    BY <1>0, <2>3
  <2> HIDE DEF q
  <2> QED BY <1>0, <1>a, <2>3, <2>4 DEF Later, q
<1>5. CASE \E m \in Models : \E g \in Geneses : t = PlanItem("setWeightGenesis", <<m, g>>)
  <2>1. PICK m \in Models, g \in Geneses : t = PlanItem("setWeightGenesis", <<m, g>>)
    BY <1>5
  <2>2. q = [p EXCEPT !.genesis[m] = g]
    <3>1. After(p, PlanItem("setWeightGenesis", <<m, g>>)) = [p EXCEPT !.genesis[m] = g]
      BY GenesisIs, ZenonT(30)
    <3> QED BY <2>1, <3>1
  <2>3. /\ q.attesters = p.attesters /\ q.threshold = p.threshold /\ q.closed = p.closed
        /\ q.budget = p.budget /\ q.genesis = [p.genesis EXCEPT ![m] = g]
        /\ q \in [attesters : SUBSET Attesters, threshold : Nat, closed : BOOLEAN, knob : BOOLEAN,
                budget : [Models -> {"none", "full", "spent"}], genesis : [Models -> Geneses \union {Unset}]]
    BY <1>0, <2>2
  <2>4. g # Unset
    BY <2>1, Zenon DEF Allowed
  <2>5. \A n \in Models : q.genesis[n] = IF n = m THEN g ELSE p.genesis[n]
    BY <1>0, <2>3
  <2> HIDE DEF q
  <2> QED BY <1>0, <1>a, <2>3, <2>4, <2>5 DEF Later, q
<1>6. CASE t = Knob
  <2>2. q = [p EXCEPT !.knob = TRUE]
    BY <1>6, AfterIs
  <2>3. /\ q.attesters = p.attesters /\ q.threshold = p.threshold /\ q.closed = p.closed
        /\ q.budget = p.budget /\ q.genesis = p.genesis
        /\ q \in [attesters : SUBSET Attesters, threshold : Nat, closed : BOOLEAN, knob : BOOLEAN,
                budget : [Models -> {"none", "full", "spent"}], genesis : [Models -> Geneses \union {Unset}]]
    BY <1>0, <2>2
  <2> HIDE DEF q
  <2> QED BY <1>0, <1>a, <2>3 DEF Later, q
<1>7. CASE t = Close
  <2>2. q = [p EXCEPT !.closed = TRUE]
    BY <1>7, AfterIs
  <2>3. /\ q.attesters = p.attesters /\ q.threshold = p.threshold
        /\ q.budget = p.budget /\ q.genesis = p.genesis
        /\ q \in [attesters : SUBSET Attesters, threshold : Nat, closed : BOOLEAN, knob : BOOLEAN,
                budget : [Models -> {"none", "full", "spent"}], genesis : [Models -> Geneses \union {Unset}]]
    BY <1>0, <2>2
  <2> HIDE DEF q
  <2> QED BY <1>0, <1>a, <1>7, <2>3 DEF Later, q
<1> QED BY <1>1, <1>2, <1>3, <1>4, <1>5, <1>6, <1>7, ItemKinds

LEMMA LaterReady ==
  ASSUME NEW p, NEW q, NEW C, Ready(p, C), Later(p, q)
  PROVE  Ready(q, C)
<1>1. PICK c \in C : Suits(p, c)
  BY DEF Ready
<1>2. Suits(q, c)
  BY <1>1 DEF Suits, Later
<1>3. \A m \in Models : q.budget[m] # "none"
  BY DEF Ready, Later
<1> QED BY <1>2, <1>3 DEF Ready

LEMMA LaterCloses ==
  ASSUME NEW p, NEW q, NEW s, NEW C, ClosesLast(p, s, C), Later(p, q)
  PROVE  ClosesLast(q, s, C)
<1>1. s \in Seq(PlanItems)
  BY DEF ClosesLast
<1>2. ASSUME Holds(s, Close) PROVE \E c \in C : Supplies(q, c, s)
  <2>1. PICK c \in C : Supplies(p, c, s)
    BY <1>2 DEF ClosesLast
  <2>2. Supplies(q, c, s)
    BY <2>1 DEF Supplies, Later
  <2> QED BY <2>2
<1>3. \A m \in Models : q.budget[m] # "none" \/ Precedes(s, PlanItem("setMintBudget", m), Close)
  BY DEF ClosesLast, Later
<1> QED BY <1>1, <1>2, <1>3 DEF ClosesLast

\* More configurations are planned.
LEMMA MoreCloses ==
  ASSUME NEW p, NEW s, NEW C, NEW D, C \subseteq D
  PROVE  (ClosesLast(p, s, C) => ClosesLast(p, s, D)) /\ (Sound(p, C) => Sound(p, D))
BY DEF ClosesLast, Sound, Ready

\* A plan that closes the legacy mints last does so step by step.
LEMMA ItemCloses ==
  ASSUME NEW p, NEW C \in SUBSET Postures, Sound(p, C), NEW todo, ClosesLast(p, todo, C), todo # <<>>,
         Allowed(p, Head(todo))
  PROVE  /\ Sound(After(p, Head(todo)), C) /\ Later(p, After(p, Head(todo)))
         /\ ClosesLast(After(p, Head(todo)), Tail(todo), C)
<1> DEFINE t == Head(todo)
           q == After(p, t)
           s == Tail(todo)
<1>0. PostureKnown(p) /\ (p.closed => Ready(p, C))
  BY DEF Sound
<1>1. /\ todo \in Seq(PlanItems) /\ s \in Seq(PlanItems) /\ t \in PlanItems
      /\ \A a, b : Precedes(todo, a, b) => t # b /\ (t = a \/ Precedes(s, a, b))
      /\ Holds(todo, t) /\ \A x : Holds(s, x) => Holds(todo, x)
  BY Shortened DEF ClosesLast
<1> HIDE DEF t, s
<1>2. ASSUME t = Close PROVE Ready(p, C)
  <2>1. PICK c \in C : Supplies(p, c, todo)
    BY <1>1, <1>2 DEF ClosesLast
  <2>2. Suits(p, c)
    BY <1>1, <1>2, <2>1 DEF Supplies, Suits
  <2>3. \A m \in Models : p.budget[m] # "none"
    BY <1>1, <1>2 DEF ClosesLast
  <2> QED BY <2>2, <2>3 DEF Ready
<1>a. Allowed(p, t)
  BY DEF t
<1>3. PostureKnown(q) /\ Later(p, q) /\ (q.closed => p.closed \/ t = Close)
  BY <1>0, <1>1, <1>a, ItemKnown
<1>b. Sound(q, C)
  <2> HIDE DEF q
  <2> QED BY <1>0, <1>2, <1>3, LaterReady DEF Sound
<1>4. ASSUME NEW c \in C, c.threshold # 0, t = PlanItem("setAttesterThreshold", c.threshold) PROVE q.threshold >= 1
  <2>1. After(p, PlanItem("setAttesterThreshold", c.threshold)) = [p EXCEPT !.threshold = c.threshold]
    BY AfterIs, Zenon
  <2>2. c.threshold \in Nat /\ c.threshold >= 1
    BY <1>4, LaunchConstants
  <2>3. q = [p EXCEPT !.threshold = c.threshold]
    BY <1>4, <2>1
  <2>4. q.threshold = c.threshold
    BY <1>0, <2>3 DEF PostureKnown
  <2> QED BY <2>2, <2>4
<1>5. ASSUME NEW m \in Models, t = PlanItem("setMintBudget", m) PROVE q.budget[m] # "none"
  <2>1. After(p, PlanItem("setMintBudget", m)) = [p EXCEPT !.budget[m] = "full"]
    BY AfterIs, Zenon
  <2>2. q = [p EXCEPT !.budget[m] = "full"]
    BY <1>5, <2>1
  <2> HIDE DEF q
  <2> QED BY <1>0, <2>2 DEF PostureKnown
<1>6. ASSUME NEW m \in Models, NEW g, t = PlanItem("setWeightGenesis", <<m, g>>) PROVE q.genesis[m] # Unset
  <2>1. After(p, PlanItem("setWeightGenesis", <<m, g>>)) = [p EXCEPT !.genesis[m] = g]
    BY GenesisIs, ZenonT(60)
  <2>2. q = [p EXCEPT !.genesis[m] = g]
    BY <1>6, <2>1
  <2>3. g # Unset
    BY <1>6, <1>a, Zenon DEF Allowed
  <2> HIDE DEF q
  <2> QED BY <1>0, <2>2, <2>3 DEF PostureKnown
<1> HIDE DEF q
<1>7. ASSUME Holds(s, Close) PROVE \E c \in C : Supplies(q, c, s)
  <2>1. PICK c \in C : Supplies(p, c, todo)
    BY <1>1, <1>7 DEF ClosesLast
  <2>2. c.threshold = 0 \/ q.threshold >= 1 \/ Precedes(s, PlanItem("setAttesterThreshold", c.threshold), Close)
    <3>1. c.threshold = 0 \/ p.threshold >= 1 \/ Precedes(todo, PlanItem("setAttesterThreshold", c.threshold), Close)
      BY <2>1 DEF Supplies
    <3> QED BY <1>1, <1>3, <1>4, <3>1 DEF Later
  <2>3. ASSUME NEW m \in Models
        PROVE  c.genesis = Unset \/ q.genesis[m] # Unset \/ Precedes(s, PlanItem("setWeightGenesis", <<m, c.genesis>>), Close)
    <3>1. c.genesis = Unset \/ p.genesis[m] # Unset \/ Precedes(todo, PlanItem("setWeightGenesis", <<m, c.genesis>>), Close)
      BY <2>1 DEF Supplies
    <3> QED BY <1>1, <1>3, <1>6, <3>1 DEF Later
  <2> QED BY <2>2, <2>3 DEF Supplies
<1>8. ASSUME NEW m \in Models PROVE q.budget[m] # "none" \/ Precedes(s, PlanItem("setMintBudget", m), Close)
  <2>1. p.budget[m] # "none" \/ Precedes(todo, PlanItem("setMintBudget", m), Close)
    BY DEF ClosesLast
  <2> QED BY <1>1, <1>3, <1>5, <2>1 DEF Later
<1>9. ClosesLast(q, s, C)
  BY <1>1, <1>7, <1>8 DEF ClosesLast
<1> QED BY <1>3, <1>9, <1>b DEF q, s, t


LEMMA ItemsDiffer ==
  /\ \A op, o, a, b : PlanItem(op, a) = PlanItem(o, b) => op = o /\ a = b
  /\ \A m, g, n, h : PlanItem("setWeightGenesis", <<m, g>>) = PlanItem("setWeightGenesis", <<n, h>>) => m = n /\ g = h
<1>1. ASSUME NEW op, NEW o, NEW a, NEW b, PlanItem(op, a) = PlanItem(o, b) PROVE op = o /\ a = b
  <2>1. PlanItem(op, a).op = op /\ PlanItem(op, a).arg = a /\ PlanItem(o, b).op = o /\ PlanItem(o, b).arg = b
    BY DEF PlanItem
  <2> QED BY <1>1, <2>1
<1>2. ASSUME NEW m, NEW g, NEW n, NEW h,
             PlanItem("setWeightGenesis", <<m, g>>) = PlanItem("setWeightGenesis", <<n, h>>)
      PROVE  m = n /\ g = h
  <2>1. <<m, g>> = <<n, h>>
    BY <1>1, <1>2
  <2> QED BY <2>1
<1> QED BY <1>1, <1>2

\* The two switches are not like the other transactions.
LEMMA KnobAndClose ==
  /\ \A op, a : op \in {"addAttester", "removeAttester", "setAttesterThreshold", "setMintBudget", "setWeightGenesis"}
                => PlanItem(op, a) # Knob /\ PlanItem(op, a) # Close
  /\ Knob # Close
<1>1. \A op, a : PlanItem(op, a).op = op
  BY DEF PlanItem
<1>2. Knob.op = "setMaxReward" /\ Close.op = "disableLegacyMints"
  BY <1>1, Zenon DEF Knob, Close
<1>3. Knob # Close
  BY <1>2
<1>4. ASSUME NEW op, NEW a,
             op \in {"addAttester", "removeAttester", "setAttesterThreshold", "setMintBudget", "setWeightGenesis"}
      PROVE  PlanItem(op, a) # Knob /\ PlanItem(op, a) # Close
  <2>1. op # "setMaxReward" /\ op # "disableLegacyMints"
    BY <1>4
  <2>2. PlanItem(op, a).op = op
    BY <1>1
  <2> QED BY <1>2, <2>1, <2>2
<1> QED BY <1>3, <1>4

\* What may change, and what changed it.
LEMMA ItemChanges ==
  ASSUME NEW p, PostureKnown(p), NEW t \in PlanItems
  PROVE  LET q == After(p, t) IN
         /\ \A a \in q.attesters : a \in p.attesters \/ t = PlanItem("addAttester", a)
         /\ \A a \in p.attesters : a \in q.attesters \/ t = PlanItem("removeAttester", a)
         /\ \A a : t = PlanItem("addAttester", a) => a \in q.attesters
         /\ q.threshold = p.threshold
              \/ \E d \in Postures : t = PlanItem("setAttesterThreshold", d.threshold) /\ q.threshold = d.threshold
         /\ \A m \in Models : q.genesis[m] = p.genesis[m]
              \/ \E g \in Geneses : t = PlanItem("setWeightGenesis", <<m, g>>) /\ q.genesis[m] = g
<1> DEFINE q == After(p, t)
<1>0. p \in [attesters : SUBSET Attesters, threshold : Nat, closed : BOOLEAN, knob : BOOLEAN,
             budget : [Models -> {"none", "full", "spent"}], genesis : [Models -> Geneses \union {Unset}]]
  BY DEF PostureKnown
<1>a. ASSUME q.attesters = p.attesters, q.genesis = p.genesis, q.threshold = p.threshold,
             \A a : t # PlanItem("addAttester", a)
      PROVE  /\ \A a \in q.attesters : a \in p.attesters \/ t = PlanItem("addAttester", a)
             /\ \A a \in p.attesters : a \in q.attesters \/ t = PlanItem("removeAttester", a)
             /\ \A a : t = PlanItem("addAttester", a) => a \in q.attesters
             /\ q.threshold = p.threshold
                  \/ \E d \in Postures : t = PlanItem("setAttesterThreshold", d.threshold) /\ q.threshold = d.threshold
             /\ \A m \in Models : q.genesis[m] = p.genesis[m]
                  \/ \E g \in Geneses : t = PlanItem("setWeightGenesis", <<m, g>>) /\ q.genesis[m] = g
  BY <1>a
<1>1. CASE \E a \in Attesters : t = PlanItem("addAttester", a)
  <2>1. PICK a \in Attesters : t = PlanItem("addAttester", a)
    BY <1>1
  <2>2. q = [p EXCEPT !.attesters = @ \union {a}]
    BY <2>1, AfterIs
  <2>3. q.attesters = p.attesters \union {a} /\ q.threshold = p.threshold /\ q.genesis = p.genesis
    BY <1>0, <2>2
  <2>4. \A b : t = PlanItem("addAttester", b) => b = a
    BY <2>1, ItemsDiffer
  <2> HIDE DEF q
  <2> QED BY <2>1, <2>3, <2>4 DEF q
<1>2. CASE \E a \in Attesters : t = PlanItem("removeAttester", a)
  <2>1. PICK a \in Attesters : t = PlanItem("removeAttester", a)
    BY <1>2
  <2>2. q = [p EXCEPT !.attesters = @ \ {a}]
    BY <2>1, AfterIs
  <2>3. q.attesters = p.attesters \ {a} /\ q.threshold = p.threshold /\ q.genesis = p.genesis
    BY <1>0, <2>2
  <2>4. \A b : t # PlanItem("addAttester", b)
    BY <2>1, ItemsDiffer
  <2> HIDE DEF q
  <2> QED BY <2>1, <2>3, <2>4 DEF q
<1>3. CASE \E c \in Postures : t = PlanItem("setAttesterThreshold", c.threshold)
  <2>1. PICK c \in Postures : t = PlanItem("setAttesterThreshold", c.threshold)
    BY <1>3
  <2>2. q = [p EXCEPT !.threshold = c.threshold]
    BY <2>1, AfterIs
  <2>3. q.attesters = p.attesters /\ q.threshold = c.threshold /\ q.genesis = p.genesis
    BY <1>0, <2>2
  <2>4. \A b : t # PlanItem("addAttester", b)
    BY <2>1, ItemsDiffer
  <2> HIDE DEF q
  <2> QED BY <2>1, <2>3, <2>4 DEF q
<1>4. CASE \E m \in Models : t = PlanItem("setMintBudget", m)
  <2>1. PICK m \in Models : t = PlanItem("setMintBudget", m)
    BY <1>4
  <2>2. q = [p EXCEPT !.budget[m] = "full"]
    BY <2>1, AfterIs
  <2>3. q.attesters = p.attesters /\ q.threshold = p.threshold /\ q.genesis = p.genesis
    BY <1>0, <2>2
  <2>4. \A b : t # PlanItem("addAttester", b)
    BY <2>1, ItemsDiffer
  <2> QED BY <1>a, <2>3, <2>4
<1>5. CASE \E m \in Models : \E g \in Geneses : t = PlanItem("setWeightGenesis", <<m, g>>)
  <2>1. PICK m \in Models, g \in Geneses : t = PlanItem("setWeightGenesis", <<m, g>>)
    BY <1>5
  <2>2. q = [p EXCEPT !.genesis[m] = g]
    BY <2>1, GenesisIs
  <2>3. /\ q.attesters = p.attesters /\ q.threshold = p.threshold
        /\ \A n \in Models : q.genesis[n] = IF n = m THEN g ELSE p.genesis[n]
    BY <1>0, <2>2
  <2>4. \A b : t # PlanItem("addAttester", b)
    BY <2>1, ItemsDiffer
  <2> HIDE DEF q
  <2> QED BY <2>1, <2>3, <2>4 DEF q
<1>6. CASE t = Knob
  <2>2. q = [p EXCEPT !.knob = TRUE]
    BY <1>6, AfterIs
  <2>3. q.attesters = p.attesters /\ q.threshold = p.threshold /\ q.genesis = p.genesis
    BY <1>0, <2>2
  <2>4. \A b : t # PlanItem("addAttester", b)
    BY <1>6, ItemsDiffer, Zenon DEF Knob
  <2> QED BY <1>a, <2>3, <2>4
<1>7. CASE t = Close
  <2>2. q = [p EXCEPT !.closed = TRUE]
    BY <1>7, AfterIs
  <2>3. q.attesters = p.attesters /\ q.threshold = p.threshold /\ q.genesis = p.genesis
    BY <1>0, <2>2
  <2>4. \A b : t # PlanItem("addAttester", b)
    BY <1>7, ItemsDiffer, Zenon DEF Close
  <2> QED BY <1>a, <2>3, <2>4
<1> QED BY <1>1, <1>2, <1>3, <1>4, <1>5, <1>6, <1>7, ItemKinds

\* A plan that leads to a configuration does so step by step.
LEMMA ItemLeads ==
  ASSUME NEW p, PostureKnown(p), NEW c \in Postures, Fits(p, c),
         NEW todo \in Seq(PlanItems), todo # <<>>, Leads(p, c, todo)
  PROVE  Fits(After(p, Head(todo)), c) /\ Leads(After(p, Head(todo)), c, Tail(todo))
<1> DEFINE t == Head(todo)
           q == After(p, t)
           s == Tail(todo)
           thr == PlanItem("setAttesterThreshold", c.threshold)
<1>1. /\ s \in Seq(PlanItems) /\ t \in PlanItems /\ Holds(todo, t)
      /\ \A x : Holds(s, x) => Holds(todo, x)
      /\ \A a, b : Precedes(todo, a, b) => t # b /\ (t = a \/ Precedes(s, a, b))
      /\ \A b : Once(todo, b) => Once(s, b) /\ (t = b => ~Holds(s, b))
  BY Shortened
<1>2. PostureKnown(p) /\ c.attesters \subseteq Attesters /\ p.attesters \subseteq Attesters
  BY DEF PostureKnown, Attesters
<1> HIDE DEF t, s
<1>3. /\ \A a \in q.attesters : a \in p.attesters \/ t = PlanItem("addAttester", a)
      /\ \A a \in p.attesters : a \in q.attesters \/ t = PlanItem("removeAttester", a)
      /\ \A a : t = PlanItem("addAttester", a) => a \in q.attesters
      /\ q.threshold = p.threshold
           \/ \E d \in Postures : t = PlanItem("setAttesterThreshold", d.threshold) /\ q.threshold = d.threshold
      /\ \A m \in Models : q.genesis[m] = p.genesis[m]
           \/ \E g \in Geneses : t = PlanItem("setWeightGenesis", <<m, g>>) /\ q.genesis[m] = g
  BY <1>1, ItemChanges
<1> HIDE DEF q, thr
<1>a. /\ \A a \in Attesters :
           /\ ~Holds(todo, PlanItem("removeAttester", a)) /\ Once(todo, PlanItem("addAttester", a))
           /\ Holds(todo, PlanItem("addAttester", a)) => a \in c.attesters /\ a \notin p.attesters
      /\ \A a \in c.attesters : a \in p.attesters \/ Precedes(todo, PlanItem("addAttester", a), thr)
      /\ \A d \in Postures : Holds(todo, PlanItem("setAttesterThreshold", d.threshold)) => d.threshold = c.threshold /\ d.threshold # 0
      /\ \A m \in Models : \A g \in Geneses :
           /\ Once(todo, PlanItem("setWeightGenesis", <<m, g>>))
           /\ Holds(todo, PlanItem("setWeightGenesis", <<m, g>>)) => g = c.genesis /\ g # Unset /\ p.genesis[m] = Unset
  BY DEF Leads, thr
<1>b. /\ p.attesters \subseteq c.attesters /\ p.threshold \in {0, c.threshold}
      /\ \A m \in Models : p.genesis[m] \in {Unset, c.genesis}
  BY DEF Fits
<1>c. ASSUME NEW a, t = PlanItem("addAttester", a) PROVE a \in c.attesters
  <2>1. PICK b \in Attesters : t = PlanItem("addAttester", b)
    <3>1. /\ \A b : t # PlanItem("removeAttester", b) /\ t # PlanItem("setAttesterThreshold", b)
          /\ \A b : t # PlanItem("setMintBudget", b) /\ t # PlanItem("setWeightGenesis", b)
      BY <1>c, ItemsDiffer
    <3>2. t # Knob /\ t # Close
      BY <1>c, KnobAndClose
    <3> QED BY <1>1, <3>1, <3>2, ItemKinds, Zenon
  <2>2. b = a
    BY <1>c, <2>1, ItemsDiffer
  <2> QED BY <1>1, <1>a, <2>1, <2>2
<1>4. q.attesters \subseteq c.attesters
  BY <1>3, <1>b, <1>c
<1>5. q.threshold \in {0, c.threshold}
  BY <1>1, <1>3, <1>a, <1>b
<1>6. \A m \in Models : q.genesis[m] \in {Unset, c.genesis}
  BY <1>1, <1>3, <1>a, <1>b
<1>7. Fits(q, c)
  BY <1>4, <1>5, <1>6 DEF Fits
<1>8. ASSUME NEW a \in Attesters
      PROVE  /\ ~Holds(s, PlanItem("removeAttester", a)) /\ Once(s, PlanItem("addAttester", a))
             /\ Holds(s, PlanItem("addAttester", a)) => a \in c.attesters /\ a \notin q.attesters
  BY <1>1, <1>3, <1>a
<1>9. ASSUME NEW a \in c.attesters PROVE a \in q.attesters \/ Precedes(s, PlanItem("addAttester", a), thr)
  <2>1. CASE a \in p.attesters
    BY <1>1, <1>2, <1>3, <1>a, <2>1
  <2>2. CASE Precedes(todo, PlanItem("addAttester", a), thr)
    BY <1>1, <1>3, <2>2
  <2> QED BY <1>a, <2>1, <2>2
<1>10. \A d \in Postures : Holds(s, PlanItem("setAttesterThreshold", d.threshold)) => d.threshold = c.threshold /\ d.threshold # 0
  BY <1>1, <1>a
<1>11. ASSUME NEW m \in Models, NEW g \in Geneses
       PROVE  /\ Once(s, PlanItem("setWeightGenesis", <<m, g>>))
              /\ Holds(s, PlanItem("setWeightGenesis", <<m, g>>)) => g = c.genesis /\ g # Unset /\ q.genesis[m] = Unset
  <2> DEFINE w(h) == PlanItem("setWeightGenesis", <<m, h>>)
  <2>1. \A h \in Geneses : Once(todo, w(h)) /\ (Holds(todo, w(h)) => h = c.genesis /\ h # Unset /\ p.genesis[m] = Unset)
    BY <1>a
  <2>2. q.genesis[m] = p.genesis[m] \/ \E h \in Geneses : t = w(h)
    BY <1>3
  <2> HIDE DEF w
  <2>3. Once(s, w(g)) /\ (Holds(s, w(g)) => g = c.genesis /\ g # Unset /\ q.genesis[m] = Unset)
    <3>1. Once(s, w(g)) /\ (Holds(s, w(g)) => Holds(todo, w(g)))
      BY <1>1, <2>1
    <3>2. ASSUME Holds(s, w(g)), NEW h \in Geneses, t = w(h) PROVE FALSE
      <4>1. h = c.genesis /\ g = c.genesis
        BY <1>1, <2>1, <3>1, <3>2
      <4> QED BY <1>1, <2>1, <3>2, <4>1
    <3> QED BY <2>1, <2>2, <3>1, <3>2
  <2> QED BY <2>3 DEF w
<1>12. Leads(q, c, s)
  BY <1>8, <1>9, <1>10, <1>11 DEF Leads, thr
<1> QED BY <1>7, <1>12 DEF q, s, t


-----------------------------------------------------------------------------
(* The plan.                                                               *)

LEMMA EachHolds ==
  ASSUME NEW op, NEW S, IsFiniteSet(S), NEW T, \A a \in S : PlanItem(op, a) \in T
  PROVE  /\ Each(op, S) \in Seq(T)
         /\ \A x : Holds(Each(op, S), x) <=> \E a \in S : x = PlanItem(op, a)
         /\ \A x : Once(Each(op, S), x)
<1> DEFINE s == SetToSeq(S)
           n == Cardinality(S)
           r == [i \in DOMAIN s |-> PlanItem(op, s[i])]
<1>1. /\ s \in Seq(S) /\ DOMAIN s = 1..n /\ n \in Nat
      /\ \A x \in S : \E i \in DOMAIN s : s[i] = x
      /\ \A i, j \in DOMAIN s : s[i] = s[j] => i = j
  BY Listed, FS_CardinalityType
<1>2. \A i \in DOMAIN s : s[i] \in S
  BY <1>1
<1>3. Each(op, S) = r
  BY DEF Each
<1>4. \A a, b : PlanItem(op, a) = PlanItem(op, b) => a = b
  BY ItemsDiffer, Zenon
<1> HIDE DEF s, n
<1>5. r \in [1..n -> T] /\ DOMAIN r = DOMAIN s /\ \A i \in DOMAIN s : r[i] = PlanItem(op, s[i])
  BY <1>1, <1>2
<1> HIDE DEF r
<1>6. r \in Seq(T)
  BY <1>1, <1>5
<1>7. ASSUME NEW x PROVE Holds(r, x) <=> \E a \in S : x = PlanItem(op, a)
  <2>1. ASSUME Holds(r, x) PROVE \E a \in S : x = PlanItem(op, a)
    BY <1>2, <1>5, <2>1 DEF Holds
  <2>2. ASSUME NEW a \in S, x = PlanItem(op, a) PROVE Holds(r, x)
    <3>1. PICK i \in DOMAIN s : s[i] = a
      BY <1>1
    <3> QED BY <1>5, <2>2, <3>1 DEF Holds
  <2> QED BY <2>1, <2>2
<1>8. ASSUME NEW x PROVE Once(r, x)
  <2> SUFFICES ASSUME NEW i \in DOMAIN r, NEW j \in DOMAIN r, r[i] = x, r[j] = x PROVE i = j
    BY DEF Once
  <2>1. PlanItem(op, s[i]) = PlanItem(op, s[j])
    BY <1>5
  <2>2. s[i] = s[j]
    BY <1>4, <2>1
  <2> QED BY <1>1, <1>5, <2>2
<1> QED BY <1>3, <1>6, <1>7, <1>8

LEMMA PlanIfHolds ==
  ASSUME NEW wanted, NEW op, NEW arg, NEW T, PlanItem(op, arg) \in T
  PROVE  /\ PlanIf(wanted, op, arg) \in Seq(T)
         /\ \A x : Holds(PlanIf(wanted, op, arg), x) => x = PlanItem(op, arg) /\ wanted
         /\ wanted => Holds(PlanIf(wanted, op, arg), PlanItem(op, arg))
         /\ \A x : Once(PlanIf(wanted, op, arg), x)
<1> DEFINE t == PlanItem(op, arg)
<1>1. PlanIf(wanted, op, arg) = IF wanted THEN <<t>> ELSE <<>>
  BY Zenon DEF PlanIf
<1>2. t \in T
  OBVIOUS
<1> HIDE DEF t
<1>3. <<t>> \in Seq(T) /\ Holds(<<t>>, t) /\ \A x : (Holds(<<t>>, x) => x = t) /\ Once(<<t>>, x)
  <2>1. DOMAIN <<t>> = {1} /\ <<t>>[1] = t /\ <<t>> \in Seq(T)
    BY <1>2
  <2> QED BY <2>1 DEF Holds, Once
<1>4. <<>> \in Seq(T) /\ \A x : ~Holds(<<>>, x) /\ Once(<<>>, x)
  BY DEF Holds, Once
<1>5. CASE wanted
  <2>1. PlanIf(wanted, op, arg) = <<t>>
    BY <1>1, <1>5, Zenon
  <2> QED BY <1>3, <1>5, <2>1, Zenon DEF t
<1>6. CASE ~wanted
  <2>1. PlanIf(wanted, op, arg) = <<>>
    BY <1>1, <1>6, Zenon
  <2> QED BY <1>4, <1>6, <2>1, Zenon
<1> QED BY <1>5, <1>6, Zenon

\* Six sequences, one after the other, as far as their order matters.
Joined(s, a, b, c, d, e, f) ==
  /\ \A x : Holds(s, x) <=> Holds(a, x) \/ Holds(b, x) \/ Holds(c, x) \/ Holds(d, x) \/ Holds(e, x) \/ Holds(f, x)
  /\ \A x, y : Holds(a, x) /\ ~Holds(a, y) => Precedes(s, x, y)
  /\ \A x, y : /\ Holds(c, x) \/ Holds(d, x)
               /\ ~Holds(a, y) /\ ~Holds(b, y) /\ ~Holds(c, y) /\ ~Holds(d, y) /\ ~Holds(e, y)
               => Precedes(s, x, y)
  /\ \A y : /\ Once(a, y) /\ Once(d, y) /\ ~(Holds(a, y) /\ Holds(d, y))
            /\ ~Holds(b, y) /\ ~Holds(c, y) /\ ~Holds(e, y) /\ ~Holds(f, y)
            => Once(s, y)

LEMMA SixParts ==
  ASSUME NEW T, NEW a \in Seq(T), NEW b \in Seq(T), NEW c \in Seq(T), NEW d \in Seq(T), NEW e \in Seq(T), NEW f \in Seq(T),
         NEW s, s = a \o b \o c \o d \o e \o f
  PROVE  s \in Seq(T) /\ Joined(s, a, b, c, d, e, f)
<1> DEFINE ab == a \o b
           abc == ab \o c
           abcd == abc \o d
           abcde == abcd \o e
<1>s. s = abcde \o f
  OBVIOUS
<1>0. \A r, x, y : ~Holds(r, y) => Precedes(r, x, y) /\ Once(r, y)
  BY Zenon DEF Holds, Precedes, Once
<1>1. /\ ab \in Seq(T)
      /\ \A x : Holds(ab, x) <=> Holds(a, x) \/ Holds(b, x)
      /\ \A x, y : Precedes(a, x, y) /\ (Holds(a, x) \/ Precedes(b, x, y)) => Precedes(ab, x, y)
      /\ \A y : Once(a, y) /\ Once(b, y) /\ ~(Holds(a, y) /\ Holds(b, y)) => Once(ab, y)
  BY Concatenated, Zenon
<1> HIDE DEF ab
<1>2. /\ abc \in Seq(T)
      /\ \A x : Holds(abc, x) <=> Holds(ab, x) \/ Holds(c, x)
      /\ \A x, y : Precedes(ab, x, y) /\ (Holds(ab, x) \/ Precedes(c, x, y)) => Precedes(abc, x, y)
      /\ \A y : Once(ab, y) /\ Once(c, y) /\ ~(Holds(ab, y) /\ Holds(c, y)) => Once(abc, y)
  BY <1>1, Concatenated, Zenon
<1> HIDE DEF abc
<1>3. /\ abcd \in Seq(T)
      /\ \A x : Holds(abcd, x) <=> Holds(abc, x) \/ Holds(d, x)
      /\ \A x, y : Precedes(abc, x, y) /\ (Holds(abc, x) \/ Precedes(d, x, y)) => Precedes(abcd, x, y)
      /\ \A y : Once(abc, y) /\ Once(d, y) /\ ~(Holds(abc, y) /\ Holds(d, y)) => Once(abcd, y)
  BY <1>2, Concatenated, Zenon
<1> HIDE DEF abcd
<1>4. /\ abcde \in Seq(T)
      /\ \A x : Holds(abcde, x) <=> Holds(abcd, x) \/ Holds(e, x)
      /\ \A x, y : Precedes(abcd, x, y) /\ (Holds(abcd, x) \/ Precedes(e, x, y)) => Precedes(abcde, x, y)
      /\ \A y : Once(abcd, y) /\ Once(e, y) /\ ~(Holds(abcd, y) /\ Holds(e, y)) => Once(abcde, y)
  BY <1>3, Concatenated, Zenon
<1> HIDE DEF abcde
<1>5. /\ s \in Seq(T)
      /\ \A x : Holds(s, x) <=> Holds(abcde, x) \/ Holds(f, x)
      /\ \A x, y : Precedes(abcde, x, y) /\ (Holds(abcde, x) \/ Precedes(f, x, y)) => Precedes(s, x, y)
      /\ \A y : Once(abcde, y) /\ Once(f, y) /\ ~(Holds(abcde, y) /\ Holds(f, y)) => Once(s, y)
  <2>1. /\ abcde \o f \in Seq(T)
        /\ \A x : Holds(abcde \o f, x) <=> Holds(abcde, x) \/ Holds(f, x)
        /\ \A x, y : Precedes(abcde, x, y) /\ (Holds(abcde, x) \/ Precedes(f, x, y)) => Precedes(abcde \o f, x, y)
        /\ \A y : Once(abcde, y) /\ Once(f, y) /\ ~(Holds(abcde, y) /\ Holds(f, y)) => Once(abcde \o f, y)
    BY <1>4, Concatenated, Zenon
  <2> QED BY <1>s, <2>1, Zenon
<1>6. \A x : Holds(s, x) <=> Holds(a, x) \/ Holds(b, x) \/ Holds(c, x) \/ Holds(d, x) \/ Holds(e, x) \/ Holds(f, x)
  BY <1>1, <1>2, <1>3, <1>4, <1>5
<1>7. ASSUME NEW x, NEW y, Holds(a, x), ~Holds(a, y) PROVE Precedes(s, x, y)
  <2>1. Precedes(ab, x, y) /\ Holds(ab, x)
    BY <1>0, <1>1, <1>7
  <2>2. Precedes(abcd, x, y) /\ Holds(abcd, x)
    BY <1>2, <1>3, <2>1
  <2> QED BY <1>4, <1>5, <2>2
<1>8. ASSUME NEW x, NEW y, Holds(c, x) \/ Holds(d, x),
             ~Holds(a, y) /\ ~Holds(b, y) /\ ~Holds(c, y) /\ ~Holds(d, y) /\ ~Holds(e, y)
      PROVE  Precedes(s, x, y)
  <2>1. ~Holds(abcde, y) /\ Holds(abcde, x)
    BY <1>1, <1>2, <1>3, <1>4, <1>8
  <2> QED BY <1>0, <1>5, <2>1
<1>9. ASSUME NEW y, Once(a, y), Once(d, y), ~(Holds(a, y) /\ Holds(d, y)),
             ~Holds(b, y), ~Holds(c, y), ~Holds(e, y), ~Holds(f, y)
      PROVE  Once(s, y)
  <2>1. Once(ab, y) /\ (Holds(ab, y) => Holds(a, y))
    BY <1>0, <1>1, <1>9
  <2>2. Once(abc, y) /\ (Holds(abc, y) => Holds(a, y))
    BY <1>0, <1>2, <1>9, <2>1
  <2>3. Once(abcd, y)
    BY <1>3, <1>9, <2>2
  <2>4. Once(abcde, y)
    BY <1>0, <1>4, <1>9, <2>3
  <2> QED BY <1>0, <1>5, <1>9, <2>4
<1>10. s \in Seq(T)
  BY <1>5
<1> QED BY <1>6, <1>7, <1>8, <1>9, <1>10, Zenon DEF Joined

LEMMA ItemsKnown ==
  /\ \A a \in Attesters : PlanItem("addAttester", a) \in PlanItems /\ PlanItem("removeAttester", a) \in PlanItems
  /\ \A c \in Postures : PlanItem("setAttesterThreshold", c.threshold) \in PlanItems
  /\ \A m \in Models : PlanItem("setMintBudget", m) \in PlanItems
  /\ \A m \in Models : \A g \in Geneses : PlanItem("setWeightGenesis", <<m, g>>) \in PlanItems
  /\ Knob \in PlanItems /\ Close \in PlanItems
<1>1. ASSUME NEW a \in Attesters
      PROVE  PlanItem("addAttester", a) \in PlanItems /\ PlanItem("removeAttester", a) \in PlanItems
  BY DEF PlanItems
<1>2. \A c \in Postures : PlanItem("setAttesterThreshold", c.threshold) \in PlanItems
  BY DEF PlanItems
<1>3. \A m \in Models : PlanItem("setMintBudget", m) \in PlanItems
  BY DEF PlanItems
<1>4. ASSUME NEW m \in Models, NEW g \in Geneses PROVE PlanItem("setWeightGenesis", <<m, g>>) \in PlanItems
  <2> DEFINE x == <<m, g>>
  <2>1. x \in Models \X Geneses
    OBVIOUS
  <2> HIDE DEF x
  <2>2. PlanItem("setWeightGenesis", x) \in PlanItems
    BY <2>1 DEF PlanItems
  <2> QED BY <2>2 DEF x
<1>5. Knob \in PlanItems /\ Close \in PlanItems
  BY DEF PlanItems
<1> QED BY <1>1, <1>2, <1>3, <1>4, <1>5, Zenon

\* The plan from posture p to configuration c.
ModelPart(p, c, m) ==
  PlanIf(p.budget[m] # "full", "setMintBudget", m)
  \o PlanIf(p.genesis[m] # c.genesis, "setWeightGenesis", <<m, c.genesis>>)
ModelParts(p, c) == FlattenSeq([i \in 1..Cardinality(Models) |-> ModelPart(p, c, SetToSeq(Models)[i])])
PlanFor(p, c) ==
  Each("addAttester", c.attesters \ p.attesters)
  \o Each("removeAttester", p.attesters \ c.attesters)
  \o PlanIf(p.threshold # c.threshold, "setAttesterThreshold", c.threshold)
  \o ModelParts(p, c)
  \o PlanIf(~p.knob, "setMaxReward", TRUE)
  \o PlanIf(~p.closed, "disableLegacyMints", TRUE)

LEMMA PlanIs == Plan = PlanFor(posture, config)
BY Zenon DEF Plan, PlanFor, ModelParts, ModelPart

LEMMA ModelPartHolds ==
  ASSUME NEW p, NEW c \in Postures, NEW m \in Models
  PROVE  /\ ModelPart(p, c, m) \in Seq(PlanItems)
         /\ \A x : Holds(ModelPart(p, c, m), x) =>
              x = PlanItem("setMintBudget", m)
                \/ (x = PlanItem("setWeightGenesis", <<m, c.genesis>>) /\ p.genesis[m] # c.genesis)
         /\ p.budget[m] # "full" => Holds(ModelPart(p, c, m), PlanItem("setMintBudget", m))
         /\ p.genesis[m] # c.genesis => Holds(ModelPart(p, c, m), PlanItem("setWeightGenesis", <<m, c.genesis>>))
         /\ \A g : Once(ModelPart(p, c, m), PlanItem("setWeightGenesis", g))
<1> DEFINE x == <<m, c.genesis>>
           b == PlanItem("setMintBudget", m)
           g == PlanItem("setWeightGenesis", x)
           s == PlanIf(p.budget[m] # "full", "setMintBudget", m)
           t == PlanIf(p.genesis[m] # c.genesis, "setWeightGenesis", x)
<1>1. b \in PlanItems /\ g \in PlanItems
  <2>1. c.genesis \in Geneses
    BY DEF Geneses
  <2> QED BY <2>1, ItemsKnown, Zenon
<1> HIDE DEF x
<1>2. \A h : PlanItem("setWeightGenesis", h) # b
  BY ItemsDiffer
<1>3. /\ s \in Seq(PlanItems) /\ \A y : (Holds(s, y) => y = b /\ p.budget[m] # "full") /\ Once(s, y)
      /\ p.budget[m] # "full" => Holds(s, b)
  BY <1>1, PlanIfHolds, Zenon
<1>4. /\ t \in Seq(PlanItems) /\ \A y : (Holds(t, y) => y = g /\ p.genesis[m] # c.genesis) /\ Once(t, y)
      /\ p.genesis[m] # c.genesis => Holds(t, g)
  BY <1>1, PlanIfHolds, Zenon
<1>5. ModelPart(p, c, m) = s \o t
  BY Zenon DEF ModelPart, x
<1> HIDE DEF s, t
<1>6. /\ s \o t \in Seq(PlanItems)
      /\ \A y : Holds(s \o t, y) <=> Holds(s, y) \/ Holds(t, y)
      /\ \A y : Once(s, y) /\ Once(t, y) /\ ~(Holds(s, y) /\ Holds(t, y)) => Once(s \o t, y)
  BY <1>3, <1>4, Concatenated, Zenon
<1> HIDE DEF b, g
<1>7. ASSUME NEW h PROVE Once(s \o t, PlanItem("setWeightGenesis", h))
  <2>1. ~Holds(s, PlanItem("setWeightGenesis", h))
    <3>1. PlanItem("setWeightGenesis", h) # b
      BY <1>2
    <3> QED BY <1>3, <3>1
  <2> QED BY <1>3, <1>4, <1>6, <2>1, Zenon
<1>8. /\ \A y : Holds(s \o t, y) => y = b \/ (y = g /\ p.genesis[m] # c.genesis)
      /\ p.budget[m] # "full" => Holds(s \o t, b)
      /\ p.genesis[m] # c.genesis => Holds(s \o t, g)
  BY <1>3, <1>4, <1>6, Zenon
<1> QED BY <1>5, <1>6, <1>7, <1>8, Zenon DEF x, b, g

LEMMA ModelPartsHold ==
  ASSUME NEW p, NEW c \in Postures
  PROVE  /\ ModelParts(p, c) \in Seq(PlanItems)
         /\ \A x : Holds(ModelParts(p, c), x) => \E m \in Models :
              x = PlanItem("setMintBudget", m)
                \/ (x = PlanItem("setWeightGenesis", <<m, c.genesis>>) /\ p.genesis[m] # c.genesis)
         /\ \A m \in Models :
              /\ p.budget[m] # "full" => Holds(ModelParts(p, c), PlanItem("setMintBudget", m))
              /\ p.genesis[m] # c.genesis => Holds(ModelParts(p, c), PlanItem("setWeightGenesis", <<m, c.genesis>>))
              /\ \A g : Once(ModelParts(p, c), PlanItem("setWeightGenesis", <<m, g>>))
<1> DEFINE n == Cardinality(Models)
           s == SetToSeq(Models)
           ss == [i \in 1..n |-> ModelPart(p, c, s[i])]
           D == DOMAIN s
           P(m) == ModelPart(p, c, m)
           B(m) == PlanItem("setMintBudget", m)
           G(m, g) == PlanItem("setWeightGenesis", <<m, g>>)
<1>1. /\ s \in Seq(Models) /\ D = 1..n /\ n \in Nat
      /\ \A x \in Models : \E i \in D : s[i] = x
      /\ \A i, j \in D : s[i] = s[j] => i = j
  BY Listed, FS_CardinalityType, LaunchConstants
<1>2. \A i \in D : s[i] \in Models
  BY <1>1
<1>3. \A m \in Models :
        /\ P(m) \in Seq(PlanItems)
        /\ \A x : Holds(P(m), x) => x = B(m) \/ (x = G(m, c.genesis) /\ p.genesis[m] # c.genesis)
        /\ p.budget[m] # "full" => Holds(P(m), B(m))
        /\ p.genesis[m] # c.genesis => Holds(P(m), G(m, c.genesis))
        /\ \A k, g : Once(P(m), G(k, g))
  BY ModelPartHolds, Zenon
<1>4. \A k, l, g, h : (G(k, g) = G(l, h) => k = l) /\ G(k, g) # B(l)
  <2>1. \A k, l, g, h : G(k, g) = G(l, h) => k = l
    BY ItemsDiffer
  <2>2. \A y, l : PlanItem("setWeightGenesis", y) # B(l)
    BY ItemsDiffer
  <2> QED BY <2>1, <2>2, Zenon
<1>5. ModelParts(p, c) = FlattenSeq(ss)
  BY Zenon DEF ModelParts
<1> HIDE DEF s, n, P, B, G
<1>6. /\ DOMAIN ss = D /\ \A i \in D : ss[i] = P(s[i])
  BY <1>1 DEF P
<1>7. ss \in Seq(Seq(PlanItems))
  <2>1. ss \in [1..n -> Seq(PlanItems)]
    BY <1>1, <1>2, <1>3 DEF P
  <2> HIDE DEF ss
  <2> QED BY <1>1, <2>1
<1> HIDE DEF ss, D
<1> DEFINE r == FlattenSeq(ss)
<1>8. /\ r \in Seq(PlanItems)
      /\ \A k \in DOMAIN ss : \A o \in DOMAIN ss[k] : Holds(r, ss[k][o])
      /\ \A i \in DOMAIN r : \E k \in DOMAIN ss : Holds(ss[k], r[i])
  BY <1>7, Flattened
<1>9. ASSUME NEW m \in Models, NEW g PROVE Once(r, G(m, g))
  <2>1. \A k \in DOMAIN ss : Once(ss[k], G(m, g))
    BY <1>2, <1>3, <1>6
  <2>2. ASSUME NEW k \in DOMAIN ss, NEW l \in DOMAIN ss, Holds(ss[k], G(m, g)), Holds(ss[l], G(m, g)) PROVE k = l
    <3>1. s[k] = m
      BY <1>2, <1>3, <1>4, <1>6, <2>2
    <3>2. s[l] = m
      BY <1>2, <1>3, <1>4, <1>6, <2>2
    <3> QED BY <1>1, <1>6, <2>2, <3>1, <3>2
  <2> HIDE DEF r
  <2>3. Once(FlattenSeq(ss), G(m, g))
    BY <1>7, <2>1, <2>2, FlattenedOnce
  <2> QED BY <2>3 DEF r
<1> HIDE DEF r
<1>10. \A m \in Models : \A x : Holds(P(m), x) => Holds(r, x)
  <2> SUFFICES ASSUME NEW m \in Models, NEW x, Holds(P(m), x) PROVE Holds(r, x)
    OBVIOUS
  <2>1. PICK i \in D : s[i] = m
    BY <1>1
  <2>2. Holds(ss[i], x) /\ i \in DOMAIN ss
    BY <1>6, <2>1
  <2>3. PICK o \in DOMAIN ss[i] : ss[i][o] = x
    BY <2>2 DEF Holds
  <2> QED BY <1>8, <2>2, <2>3
<1>11. ASSUME NEW x, Holds(r, x)
       PROVE  \E m \in Models : x = B(m) \/ (x = G(m, c.genesis) /\ p.genesis[m] # c.genesis)
  <2>1. PICK i \in DOMAIN r : r[i] = x
    BY <1>11 DEF Holds
  <2>2. PICK k \in DOMAIN ss : Holds(ss[k], x)
    BY <1>8, <2>1
  <2> QED BY <1>2, <1>3, <1>6, <2>2
<1>12. ModelParts(p, c) = r
  BY <1>5 DEF r
<1>13. \A m \in Models :
         /\ p.budget[m] # "full" => Holds(r, B(m))
         /\ p.genesis[m] # c.genesis => Holds(r, G(m, c.genesis))
         /\ \A g : Once(r, G(m, g))
  BY <1>3, <1>9, <1>10, Zenon
<1> QED BY <1>8, <1>11, <1>12, <1>13, Zenon DEF B, G


\* What a plan holds, and in which order.
LEMMA PlanHolds ==
  ASSUME NEW p, PostureKnown(p), NEW c \in Postures
  PROVE  /\ PlanFor(p, c) \in Seq(PlanItems)
         /\ \A a : Holds(PlanFor(p, c), PlanItem("addAttester", a)) => a \in c.attesters /\ a \notin p.attesters
         /\ \A a : Holds(PlanFor(p, c), PlanItem("removeAttester", a)) => a \in p.attesters /\ a \notin c.attesters
         /\ \A k : Holds(PlanFor(p, c), PlanItem("setAttesterThreshold", k)) => k = c.threshold /\ p.threshold # c.threshold
         /\ \A m, g : Holds(PlanFor(p, c), PlanItem("setWeightGenesis", <<m, g>>)) => g = c.genesis /\ p.genesis[m] # c.genesis
         /\ \A a : Once(PlanFor(p, c), PlanItem("addAttester", a))
         /\ \A m \in Models : \A g : Once(PlanFor(p, c), PlanItem("setWeightGenesis", <<m, g>>))
         /\ \A a \in c.attesters : a \notin p.attesters =>
              Precedes(PlanFor(p, c), PlanItem("addAttester", a), PlanItem("setAttesterThreshold", c.threshold))
         /\ p.threshold # c.threshold => Precedes(PlanFor(p, c), PlanItem("setAttesterThreshold", c.threshold), Close)
         /\ \A m \in Models : p.budget[m] # "full" => Precedes(PlanFor(p, c), PlanItem("setMintBudget", m), Close)
         /\ \A m \in Models : p.genesis[m] # c.genesis => Precedes(PlanFor(p, c), PlanItem("setWeightGenesis", <<m, c.genesis>>), Close)
<1> DEFINE add(a) == PlanItem("addAttester", a)
           remove(a) == PlanItem("removeAttester", a)
           thr(k) == PlanItem("setAttesterThreshold", k)
           B(m) == PlanItem("setMintBudget", m)
           G(m, g) == PlanItem("setWeightGenesis", <<m, g>>)
           sa == Each("addAttester", c.attesters \ p.attesters)
           sb == Each("removeAttester", p.attesters \ c.attesters)
           sc == PlanIf(p.threshold # c.threshold, "setAttesterThreshold", c.threshold)
           sd == ModelParts(p, c)
           se == PlanIf(~p.knob, "setMaxReward", TRUE)
           sf == PlanIf(~p.closed, "disableLegacyMints", TRUE)
           s == sa \o sb \o sc \o sd \o se \o sf
<1>1. /\ c.attesters \subseteq Attesters /\ p.attesters \subseteq Attesters
      /\ IsFiniteSet(c.attesters \ p.attesters) /\ IsFiniteSet(p.attesters \ c.attesters)
  <2>1. IsFiniteSet(c.attesters) /\ IsFiniteSet(p.attesters) /\ c.attesters \subseteq Attesters
    BY LaunchConstants DEF PostureKnown, Attesters
  <2>2. p.attesters \subseteq Attesters
    BY DEF PostureKnown
  <2> QED BY <2>1, <2>2, FS_Difference
<1>2. /\ sa \in Seq(PlanItems) /\ \A x : Holds(sa, x) <=> \E a \in c.attesters \ p.attesters : x = add(a)
      /\ \A x : Once(sa, x)
  <2>1. \A a \in c.attesters \ p.attesters : add(a) \in PlanItems
    BY <1>1, ItemsKnown, Zenon
  <2> QED BY <1>1, <2>1, EachHolds, Zenon
<1>3. sb \in Seq(PlanItems) /\ \A x : Holds(sb, x) <=> \E a \in p.attesters \ c.attesters : x = remove(a)
  <2>1. \A a \in p.attesters \ c.attesters : remove(a) \in PlanItems
    BY <1>1, ItemsKnown, Zenon
  <2> QED BY <1>1, <2>1, EachHolds, Zenon
<1>4. /\ sc \in Seq(PlanItems) /\ \A x : Holds(sc, x) => x = thr(c.threshold) /\ p.threshold # c.threshold
      /\ p.threshold # c.threshold => Holds(sc, thr(c.threshold))
  <2>1. thr(c.threshold) \in PlanItems
    BY ItemsKnown, Zenon
  <2> QED BY <2>1, PlanIfHolds, Zenon
<1>5. /\ sd \in Seq(PlanItems)
      /\ \A x : Holds(sd, x) => \E m \in Models : x = B(m) \/ (x = G(m, c.genesis) /\ p.genesis[m] # c.genesis)
      /\ \A m \in Models : /\ p.budget[m] # "full" => Holds(sd, B(m))
                           /\ p.genesis[m] # c.genesis => Holds(sd, G(m, c.genesis))
                           /\ \A g : Once(sd, G(m, g))
  BY ModelPartsHold, Zenon
<1>6. se \in Seq(PlanItems) /\ \A x : Holds(se, x) => x = Knob
  <2>1. PlanItem("setMaxReward", TRUE) \in PlanItems
    BY ItemsKnown, Zenon DEF Knob
  <2> QED BY <2>1, PlanIfHolds, Zenon DEF Knob
<1>7. sf \in Seq(PlanItems) /\ \A x : Holds(sf, x) => x = Close
  <2>1. PlanItem("disableLegacyMints", TRUE) \in PlanItems
    BY ItemsKnown, Zenon DEF Close
  <2> QED BY <2>1, PlanIfHolds, Zenon DEF Close
<1>8. PlanFor(p, c) = s
  BY Zenon DEF PlanFor
<1>9. /\ \A a, b : (add(a) = add(b) => a = b) /\ (remove(a) = remove(b) => a = b) /\ (thr(a) = thr(b) => a = b)
      /\ \A a, b : add(a) # remove(b) /\ add(a) # thr(b) /\ add(a) # B(b) /\ remove(a) # thr(b) /\ remove(a) # B(b)
                   /\ thr(a) # B(b)
  BY ItemsDiffer
<1>10. \A m, g, n, h : /\ G(m, g) = G(n, h) => m = n /\ g = h
                       /\ G(m, g) # add(n) /\ G(m, g) # remove(n) /\ G(m, g) # thr(n) /\ G(m, g) # B(n)
  <2> SUFFICES ASSUME NEW m, NEW g, NEW n, NEW h
               PROVE  /\ G(m, g) = G(n, h) => m = n /\ g = h
                      /\ G(m, g) # add(n) /\ G(m, g) # remove(n) /\ G(m, g) # thr(n) /\ G(m, g) # B(n)
    OBVIOUS
  <2>1. G(m, g) = G(n, h) => m = n /\ g = h
    BY ItemsDiffer
  <2> DEFINE x == <<m, g>>
  <2> HIDE DEF x
  <2>2. LET y == PlanItem("setWeightGenesis", x) IN y # add(n) /\ y # remove(n) /\ y # thr(n) /\ y # B(n)
    BY ItemsDiffer
  <2> QED BY <2>1, <2>2 DEF x
<1>11. /\ \A a : add(a) # Knob /\ remove(a) # Knob /\ thr(a) # Knob /\ B(a) # Knob
       /\ \A a : add(a) # Close /\ remove(a) # Close /\ thr(a) # Close /\ B(a) # Close
       /\ \A m, g : G(m, g) # Knob /\ G(m, g) # Close
       /\ Knob # Close
  <2>1. \A a : LET y == PlanItem("setWeightGenesis", a) IN
          /\ add(a) # Knob /\ remove(a) # Knob /\ thr(a) # Knob /\ B(a) # Knob /\ y # Knob
          /\ add(a) # Close /\ remove(a) # Close /\ thr(a) # Close /\ B(a) # Close /\ y # Close
    BY KnobAndClose
  <2> QED BY <2>1, KnobAndClose, Zenon
<1>s. s = sa \o sb \o sc \o sd \o se \o sf
  OBVIOUS
<1> HIDE DEF add, remove, thr, B, G, sa, sb, sc, sd, se, sf, s
<1>12. /\ s \in Seq(PlanItems)
       /\ \A x : Holds(s, x) <=> Holds(sa, x) \/ Holds(sb, x) \/ Holds(sc, x) \/ Holds(sd, x) \/ Holds(se, x) \/ Holds(sf, x)
       /\ \A x, y : Holds(sa, x) /\ ~Holds(sa, y) => Precedes(s, x, y)
       /\ \A x, y : /\ Holds(sc, x) \/ Holds(sd, x)
                    /\ ~Holds(sa, y) /\ ~Holds(sb, y) /\ ~Holds(sc, y) /\ ~Holds(sd, y) /\ ~Holds(se, y)
                    => Precedes(s, x, y)
       /\ \A y : /\ Once(sa, y) /\ Once(sd, y) /\ ~(Holds(sa, y) /\ Holds(sd, y))
                 /\ ~Holds(sb, y) /\ ~Holds(sc, y) /\ ~Holds(se, y) /\ ~Holds(sf, y)
                 => Once(s, y)
  <2>1. sa \in Seq(PlanItems) /\ sb \in Seq(PlanItems) /\ sc \in Seq(PlanItems)
    BY <1>2, <1>3, <1>4
  <2>2. sd \in Seq(PlanItems) /\ se \in Seq(PlanItems) /\ sf \in Seq(PlanItems)
    BY <1>5, <1>6, <1>7
  <2>3. s \in Seq(PlanItems) /\ Joined(s, sa, sb, sc, sd, se, sf)
    BY <1>s, <2>1, <2>2, SixParts
  <2> QED BY <2>3, Zenon DEF Joined
<1>20. ASSUME NEW a
       PROVE  /\ ~Holds(sb, add(a)) /\ ~Holds(sc, add(a)) /\ ~Holds(sd, add(a)) /\ ~Holds(se, add(a)) /\ ~Holds(sf, add(a))
              /\ ~Holds(sa, remove(a)) /\ ~Holds(sc, remove(a)) /\ ~Holds(sd, remove(a)) /\ ~Holds(se, remove(a))
              /\ ~Holds(sf, remove(a))
              /\ ~Holds(sa, thr(a)) /\ ~Holds(sb, thr(a)) /\ ~Holds(sd, thr(a)) /\ ~Holds(se, thr(a)) /\ ~Holds(sf, thr(a))
  <2>1. ~Holds(sa, remove(a)) /\ ~Holds(sa, thr(a))
    BY <1>2, <1>9
  <2>2. ~Holds(sb, add(a)) /\ ~Holds(sb, thr(a))
    BY <1>3, <1>9
  <2>3. ~Holds(sc, add(a)) /\ ~Holds(sc, remove(a))
    BY <1>4, <1>9
  <2>4. ~Holds(sd, add(a)) /\ ~Holds(sd, remove(a)) /\ ~Holds(sd, thr(a))
    BY <1>5, <1>9, <1>10
  <2>5. ~Holds(se, add(a)) /\ ~Holds(se, remove(a)) /\ ~Holds(se, thr(a))
    BY <1>6, <1>11
  <2>6. ~Holds(sf, add(a)) /\ ~Holds(sf, remove(a)) /\ ~Holds(sf, thr(a))
    BY <1>7, <1>11
  <2> QED BY <2>1, <2>2, <2>3, <2>4, <2>5, <2>6
<1>21. ASSUME NEW m, NEW g
       PROVE  /\ ~Holds(sa, G(m, g)) /\ ~Holds(sb, G(m, g)) /\ ~Holds(sc, G(m, g)) /\ ~Holds(se, G(m, g)) /\ ~Holds(sf, G(m, g))
              /\ Holds(sd, G(m, g)) => g = c.genesis /\ p.genesis[m] # c.genesis
  <2>1. ~Holds(sa, G(m, g))
    BY <1>2, <1>10
  <2>2. ~Holds(sb, G(m, g))
    BY <1>3, <1>10
  <2>3. ~Holds(sc, G(m, g))
    BY <1>4, <1>10
  <2>4. ~Holds(se, G(m, g))
    BY <1>6, <1>11
  <2>5. ~Holds(sf, G(m, g))
    BY <1>7, <1>11
  <2>6. Holds(sd, G(m, g)) => g = c.genesis /\ p.genesis[m] # c.genesis
    BY <1>5, <1>10
  <2> QED BY <2>1, <2>2, <2>3, <2>4, <2>5, <2>6
<1>22. ~Holds(sa, Close) /\ ~Holds(sb, Close) /\ ~Holds(sc, Close) /\ ~Holds(sd, Close) /\ ~Holds(se, Close)
  BY <1>2, <1>3, <1>4, <1>5, <1>6, <1>7, <1>11
<1>23. \A a : Holds(s, add(a)) => a \in c.attesters /\ a \notin p.attesters
  BY <1>2, <1>9, <1>12, <1>20
<1>24. \A a : Holds(s, remove(a)) => a \in p.attesters /\ a \notin c.attesters
  BY <1>3, <1>9, <1>12, <1>20
<1>25. \A k : Holds(s, thr(k)) => k = c.threshold /\ p.threshold # c.threshold
  BY <1>4, <1>9, <1>12, <1>20
<1>26. \A m, g : Holds(s, G(m, g)) => g = c.genesis /\ p.genesis[m] # c.genesis
  BY <1>12, <1>21
<1>27. \A a : Once(s, add(a))
  <2>1. \A r, x : ~Holds(r, x) => Once(r, x)
    BY Zenon DEF Holds, Once
  <2> QED BY <1>2, <1>12, <1>20, <2>1
<1>28. \A m \in Models : \A g : Once(s, G(m, g))
  BY <1>2, <1>5, <1>12, <1>21
<1>29. \A a \in c.attesters : a \notin p.attesters => Precedes(s, add(a), thr(c.threshold))
  BY <1>2, <1>12, <1>20
<1>30. p.threshold # c.threshold => Precedes(s, thr(c.threshold), Close)
  BY <1>4, <1>12, <1>22
<1>31. \A m \in Models : p.budget[m] # "full" => Precedes(s, B(m), Close)
  BY <1>5, <1>12, <1>22
<1>32. \A m \in Models : p.genesis[m] # c.genesis => Precedes(s, G(m, c.genesis), Close)
  BY <1>5, <1>12, <1>22
<1> QED BY <1>8, <1>12, <1>23, <1>24, <1>25, <1>26, <1>27, <1>28, <1>29, <1>30, <1>31, <1>32, Zenon DEF add, remove, thr, B, G

LEMMA PlanCloses ==
  ASSUME NEW p, PostureKnown(p), NEW c \in Postures, NEW C, c \in C
  PROVE  ClosesLast(p, PlanFor(p, c), C)
<1> DEFINE s == PlanFor(p, c)
<1>1. c.threshold = 0 \/ p.threshold >= 1 \/ Precedes(s, PlanItem("setAttesterThreshold", c.threshold), Close)
  <2>1. c.threshold \in Nat /\ p.threshold \in Nat
    BY LaunchConstants DEF PostureKnown
  <2>2. c.threshold = 0 \/ p.threshold >= 1 \/ p.threshold # c.threshold
    BY <2>1
  <2>3. p.threshold # c.threshold => Precedes(s, PlanItem("setAttesterThreshold", c.threshold), Close)
    BY PlanHolds, Zenon
  <2> QED BY <2>2, <2>3
<1>2. ASSUME NEW m \in Models
      PROVE  /\ p.budget[m] # "none" \/ Precedes(s, PlanItem("setMintBudget", m), Close)
             /\ c.genesis = Unset \/ p.genesis[m] # Unset
                  \/ Precedes(s, PlanItem("setWeightGenesis", <<m, c.genesis>>), Close)
  <2>2. p.budget[m] # "full" => Precedes(s, PlanItem("setMintBudget", m), Close)
    BY PlanHolds, Zenon
  <2>3. p.genesis[m] # c.genesis => Precedes(s, PlanItem("setWeightGenesis", <<m, c.genesis>>), Close)
    BY PlanHolds, Zenon
  <2> HIDE DEF s
  <2> QED BY <2>2, <2>3
<1>3. s \in Seq(PlanItems)
  BY PlanHolds, Zenon
<1> HIDE DEF s
<1>4. Supplies(p, c, s)
  BY <1>1, <1>2 DEF Supplies
<1> QED BY <1>2, <1>3, <1>4 DEF ClosesLast, s

LEMMA PlanLeads ==
  ASSUME NEW p, PostureKnown(p), NEW c \in Postures, Fits(p, c)
  PROVE  Leads(p, c, PlanFor(p, c))
<1> DEFINE s == PlanFor(p, c)
<1>1. /\ \A a : Holds(s, PlanItem("addAttester", a)) => a \in c.attesters /\ a \notin p.attesters
      /\ \A a : Holds(s, PlanItem("removeAttester", a)) => a \in p.attesters /\ a \notin c.attesters
      /\ \A k : Holds(s, PlanItem("setAttesterThreshold", k)) => k = c.threshold /\ p.threshold # c.threshold
      /\ \A m, g : Holds(s, PlanItem("setWeightGenesis", <<m, g>>)) => g = c.genesis /\ p.genesis[m] # c.genesis
      /\ \A a : Once(s, PlanItem("addAttester", a))
      /\ \A m \in Models : \A g : Once(s, PlanItem("setWeightGenesis", <<m, g>>))
      /\ \A a \in c.attesters : a \notin p.attesters =>
           Precedes(s, PlanItem("addAttester", a), PlanItem("setAttesterThreshold", c.threshold))
  BY PlanHolds, Zenon
<1> HIDE DEF s
<1>2. \A a : ~Holds(s, PlanItem("removeAttester", a))
  BY <1>1 DEF Fits
<1>3. \A d \in Postures : Holds(s, PlanItem("setAttesterThreshold", d.threshold)) =>
        d.threshold = c.threshold /\ d.threshold # 0
  BY <1>1 DEF Fits
<1>4. \A m \in Models : \A g : Holds(s, PlanItem("setWeightGenesis", <<m, g>>)) =>
        g = c.genesis /\ g # Unset /\ p.genesis[m] = Unset
  <2> SUFFICES ASSUME NEW m \in Models, NEW g, Holds(s, PlanItem("setWeightGenesis", <<m, g>>))
               PROVE  g = c.genesis /\ g # Unset /\ p.genesis[m] = Unset
    OBVIOUS
  <2>1. g = c.genesis /\ p.genesis[m] # c.genesis
    BY <1>1, Zenon
  <2> QED BY <2>1 DEF Fits
<1> QED BY <1>1, <1>2, <1>3, <1>4, Zenon DEF Leads, s


-----------------------------------------------------------------------------
(* A plan that is executed as one transaction.                             *)

\* f[i] is posture p after the first i transactions of s.
Executes(f, p, s, n) ==
  /\ DOMAIN f = 0..n
  /\ \A i \in 0..n : f[i] = IF i = 0 THEN p ELSE After(f[i - 1], s[i])

LEMMA ExecutionExists ==
  ASSUME NEW p, NEW s, NEW n \in Nat
  PROVE  \E f : Executes(f, p, s, n)
<1> DEFINE failing == {k \in Nat : ~ \E f : Executes(f, p, s, k)}
<1>2. failing = {}
  <2> SUFFICES ASSUME failing # {} PROVE FALSE
    OBVIOUS
  <2>1. PICK k \in failing : \A j \in failing : k <= j
    <3>1. failing \in SUBSET Nat
      OBVIOUS
    <3> HIDE DEF failing
    <3> QED BY <3>1, LeastNatural
  <2>2. k \in Nat /\ ~ \E f : Executes(f, p, s, k)
    BY <2>1
  <2>3. CASE k = 0
    <3>1. Executes([i \in 0..0 |-> p], p, s, 0)
      BY DEF Executes
    <3> QED BY <2>2, <2>3, <3>1
  <2>4. CASE k # 0
    <3>1. k - 1 \in Nat /\ k - 1 < k
      BY <2>2, <2>4
    <3>2. PICK f : Executes(f, p, s, k - 1)
      <4>1. k - 1 \notin failing
        <5> HIDE DEF failing
        <5> QED BY <2>1, <2>2, <3>1
      <4> QED BY <3>1, <4>1
    <3> DEFINE g == [i \in 0..k |-> IF i = k THEN After(f[k - 1], s[k]) ELSE f[i]]
    <3>3. \A i \in 0..k : g[i] = IF i = 0 THEN p ELSE After(g[i - 1], s[i])
      <4> TAKE i \in 0..k
      <4>1. CASE i = k
        <5>1. k - 1 \in 0..k /\ k - 1 # k /\ k \in 0..k
          BY <2>2, <3>1
        <5>2. g[k - 1] = f[k - 1] /\ g[k] = After(f[k - 1], s[k])
          BY <5>1, Zenon
        <5> HIDE DEF g
        <5> QED BY <2>4, <4>1, <5>2
      <4>2. CASE i # k
        <5>1. i \in 0..(k - 1) /\ i \in Nat /\ i - 1 # k /\ (i # 0 => i - 1 \in 0..k)
          BY <2>2, <4>2
        <5>2. g[i] = f[i] /\ (i # 0 => g[i - 1] = f[i - 1])
          BY <4>2, <5>1
        <5>3. f[i] = IF i = 0 THEN p ELSE After(f[i - 1], s[i])
          BY <3>2, <5>1 DEF Executes
        <5> HIDE DEF g
        <5> QED BY <5>2, <5>3
      <4> QED BY <4>1, <4>2
    <3>4. DOMAIN g = 0..k
      OBVIOUS
    <3>5. Executes(g, p, s, k)
      BY <3>3, <3>4 DEF Executes
    <3> QED BY <2>2, <3>5
  <2> QED BY <2>3, <2>4
<1> QED BY <1>2

LEMMA BundleAfterIs ==
  ASSUME bundle \in Seq(PlanItems)
  PROVE  \E f : /\ Executes(f, posture, bundle, Len(bundle))
                /\ \A k \in 0..Len(bundle) : BundleAfter(k) = f[k]
<1> DEFINE n == Len(bundle)
           Is(f) == f = [i \in 0..Len(bundle) |-> IF i = 0 THEN posture ELSE After(f[i - 1], bundle[i])]
<1>1. n \in Nat
  OBVIOUS
<1>2. PICK f : Executes(f, posture, bundle, n)
  BY <1>1, ExecutionExists
<1> DEFINE g == [i \in 0..n |-> f[i]]
<1>3. Is(g)
  <2>1. \A i \in 0..n : g[i] = IF i = 0 THEN posture ELSE After(g[i - 1], bundle[i])
    <3> TAKE i \in 0..n
    <3>1. i # 0 => i - 1 \in 0..n
      BY <1>1
    <3>2. g[i] = f[i] /\ (i # 0 => g[i - 1] = f[i - 1])
      BY <3>1
    <3>3. f[i] = IF i = 0 THEN posture ELSE After(f[i - 1], bundle[i])
      BY <1>2 DEF Executes
    <3> HIDE DEF g
    <3> QED BY <3>2, <3>3
  <2> HIDE DEF g
  <2>2. g = [i \in 0..n |-> g[i]]
    BY DEF g
  <2> QED BY <2>1, <2>2
<1> DEFINE h == CHOOSE x : Is(x)
<1>4. Is(h)
  <2> HIDE DEF Is
  <2> QED BY <1>3
<1>5. \A k : BundleAfter(k) = h[k]
  BY DEF BundleAfter
<1>6. Executes(h, posture, bundle, n)
  <2> HIDE DEF h
  <2>1. DOMAIN h = 0..n
    BY <1>4
  <2>2. ASSUME NEW i \in 0..n PROVE h[i] = IF i = 0 THEN posture ELSE After(h[i - 1], bundle[i])
    BY <1>4, Zenon
  <2> QED BY <2>1, <2>2 DEF Executes
<1> QED BY <1>5, <1>6

\* Executed as a whole, a plan that closes the legacy mints last does so too.
LEMMA ExecutedCloses ==
  ASSUME NEW p, NEW C \in SUBSET Postures, Sound(p, C), NEW s, ClosesLast(p, s, C), NEW f, Executes(f, p, s, Len(s)),
         \A k \in DOMAIN s : PostureKnown(f[k - 1]) => Allowed(f[k - 1], s[k])
  PROVE  Sound(f[Len(s)], C) /\ Later(p, f[Len(s)])
<1> DEFINE n == Len(s)
           Good(k) == Sound(f[k], C) /\ Later(p, f[k]) /\ ClosesLast(f[k], SubSeq(s, k + 1, n), C)
           failing == {k \in Nat : k <= n /\ ~Good(k)}
<1>1. s \in Seq(PlanItems) /\ n \in Nat /\ DOMAIN s = 1..n
  BY DEF ClosesLast
<1>2. \A i \in 0..n : f[i] = IF i = 0 THEN p ELSE After(f[i - 1], s[i])
  BY DEF Executes
<1>3. Good(0)
  <2>1. f[0] = p
    BY <1>1, <1>2
  <2>2. SubSeq(s, 0 + 1, n) = s
    BY <1>1, SubSeqFull
  <2>3. Later(p, p)
    BY DEF Later
  <2> QED BY <2>1, <2>2, <2>3
<1>4. ASSUME NEW k \in Nat, k # 0, k <= n, Good(k - 1) PROVE Good(k)
  <2> DEFINE todo == SubSeq(s, k, n)
  <2>1. k \in 1..n /\ k - 1 + 1 = k /\ k \in 0..n
    BY <1>1, <1>4
  <2>2. Head(todo) = s[k] /\ Tail(todo) = SubSeq(s, k + 1, n) /\ todo # <<>>
    <3>1. n \in k..n
      BY <1>1, <2>1
    <3>2. Head(todo) = s[k] /\ Tail(todo) = SubSeq(s, k + 1, n)
      BY <1>1, <2>1, <3>1, HeadTailOfSubSeq
    <3>3. Len(todo) = n - k + 1
      BY <1>1, <2>1
    <3> QED BY <1>1, <2>1, <3>2, <3>3
  <2>3. f[k] = After(f[k - 1], s[k])
    BY <1>2, <1>4, <2>1
  <2>4. Sound(f[k - 1], C) /\ Later(p, f[k - 1]) /\ ClosesLast(f[k - 1], todo, C)
    BY <1>4, <2>1
  <2>5. Allowed(f[k - 1], s[k])
    BY <1>1, <2>1, <2>4 DEF Sound
  <2> HIDE DEF todo, n
  <2>6. /\ Sound(f[k], C) /\ Later(f[k - 1], f[k]) /\ ClosesLast(f[k], SubSeq(s, k + 1, n), C)
    <3>1. /\ Sound(After(f[k - 1], Head(todo)), C) /\ Later(f[k - 1], After(f[k - 1], Head(todo)))
          /\ ClosesLast(After(f[k - 1], Head(todo)), Tail(todo), C)
      BY <2>2, <2>4, <2>5, ItemCloses
    <3> QED BY <2>2, <2>3, <3>1
  <2>7. Later(p, f[k])
    BY <2>4, <2>6 DEF Later
  <2> QED BY <2>6, <2>7
<1>5. failing = {}
  <2> SUFFICES ASSUME failing # {} PROVE FALSE
    OBVIOUS
  <2>1. PICK k \in failing : \A j \in failing : k <= j
    <3>1. failing \in SUBSET Nat
      OBVIOUS
    <3> HIDE DEF failing
    <3> QED BY <3>1, LeastNatural
  <2> HIDE DEF Good
  <2>2. k \in Nat /\ k <= n /\ ~Good(k)
    BY <2>1
  <2>3. k # 0
    BY <1>3, <2>2
  <2>4. k - 1 \in Nat /\ k - 1 <= n /\ k - 1 < k
    BY <1>1, <2>2, <2>3
  <2>5. k - 1 \notin failing
    <3> HIDE DEF failing
    <3> QED BY <2>1, <2>2, <2>4
  <2>6. Good(k - 1)
    BY <2>4, <2>5
  <2> QED BY <1>4, <2>2, <2>3, <2>6
<1>6. Good(n)
  <2> HIDE DEF Good
  <2> QED BY <1>1, <1>5
<1> QED BY <1>6

LEMMA RefusesAllows ==
  ASSUME NEW p, NEW who, NEW t, ~Refuses(p, who, t), PostureKnown(p)
  PROVE  Allowed(p, t)
<1>1. \A op, a : PlanItem(op, a).op = op /\ PlanItem(op, a).arg = a
  BY DEF PlanItem
<1>2. p.threshold \in Nat /\ Cardinality(p.attesters) \in Nat
  BY FS_CardinalityType DEF PostureKnown
<1>3. ASSUME NEW a, t = PlanItem("removeAttester", a)
      PROVE  a \in p.attesters /\ p.threshold <= Cardinality(p.attesters) - 1
  <2>1. t.op = "removeAttester" /\ t.arg = a
    BY <1>1, <1>3
  <2> QED BY <1>2, <2>1 DEF Refuses
<1>4. ASSUME NEW c \in Postures, t = PlanItem("setAttesterThreshold", c.threshold)
      PROVE  c.threshold >= 1 /\ c.threshold <= Cardinality(p.attesters)
  <2>1. t.op = "setAttesterThreshold" /\ t.arg = c.threshold
    BY <1>1, <1>4
  <2>2. c.threshold \in Nat
    BY LaunchConstants
  <2> QED BY <1>2, <2>1, <2>2 DEF Refuses
<1>5. ASSUME NEW m, NEW g, t = PlanItem("setWeightGenesis", <<m, g>>) PROVE g # Unset
  <2>1. t.op = "setWeightGenesis" /\ t.arg = <<m, g>>
    BY <1>5 DEF PlanItem
  <2>2. t.arg[2] = g
    BY <2>1
  <2> QED BY <2>1, <2>2 DEF Refuses
<1> QED BY <1>3, <1>4, <1>5 DEF Allowed


LEMMA SubmitKnown ==
  ASSUME configs \in SUBSET Postures, Sound(posture, configs), ClosesLast(posture, bundle, configs), SafeSubmits
  PROVE  Sound(posture', configs) /\ Later(posture, posture')
<1> DEFINE n == Len(bundle)
<1>1. bundle \in Seq(PlanItems) /\ n \in Nat /\ DOMAIN bundle = 1..n
  BY DEF ClosesLast
<1>2. PICK f : Executes(f, posture, bundle, n) /\ \A k \in 0..n : BundleAfter(k) = f[k]
  BY <1>1, BundleAfterIs
<1>3. ASSUME NEW k \in DOMAIN bundle, PostureKnown(f[k - 1]) PROVE Allowed(f[k - 1], bundle[k])
  <2>1. k - 1 \in 0..n
    BY <1>1
  <2>2. ~Refuses(f[k - 1], "safe", bundle[k])
    <3>1. ~Refuses(BundleAfter(k - 1), "safe", bundle[k])
      BY DEF SafeSubmits
    <3>2. BundleAfter(k - 1) = f[k - 1]
      BY <1>2, <2>1
    <3> QED BY <3>1, <3>2
  <2> QED BY <1>3, <2>2, RefusesAllows
<1>4. Sound(f[n], configs) /\ Later(posture, f[n])
  BY <1>2, <1>3, ExecutedCloses
<1>5. posture' = f[n]
  <2>1. n \in 0..n
    BY <1>1
  <2> QED BY <1>2, <2>1 DEF SafeSubmits
<1> QED BY <1>4, <1>5

\* A mint spends a budget, and nothing else.
LEMMA SpentKnown ==
  ASSUME NEW p, NEW C, Sound(p, C), NEW m \in Models, p.budget[m] = "full",
         NEW q, q = [p EXCEPT !.budget[m] = "spent"]
  PROVE  /\ Sound(q, C) /\ Later(p, q)
         /\ q.attesters = p.attesters /\ q.threshold = p.threshold /\ q.genesis = p.genesis
<1>0. /\ p \in [attesters : SUBSET Attesters, threshold : Nat, closed : BOOLEAN, knob : BOOLEAN,
                budget : [Models -> {"none", "full", "spent"}], genesis : [Models -> Geneses \union {Unset}]]
      /\ IsFiniteSet(p.attesters) /\ Cardinality(p.attesters) >= p.threshold /\ (p.closed => Ready(p, C))
  BY DEF Sound, PostureKnown
<1>1. /\ q.attesters = p.attesters /\ q.threshold = p.threshold /\ q.closed = p.closed /\ q.genesis = p.genesis
      /\ q.budget = [p.budget EXCEPT ![m] = "spent"]
      /\ q \in [attesters : SUBSET Attesters, threshold : Nat, closed : BOOLEAN, knob : BOOLEAN,
                budget : [Models -> {"none", "full", "spent"}], genesis : [Models -> Geneses \union {Unset}]]
  BY <1>0
<1>2. \A n \in Models : q.budget[n] = IF n = m THEN "spent" ELSE p.budget[n]
  BY <1>0, <1>1
<1>3. Later(p, q)
  BY <1>1, <1>2 DEF Later
<1>4. PostureKnown(q)
  BY <1>0, <1>1 DEF PostureKnown
<1>5. q.closed => Ready(q, C)
  BY <1>0, <1>1, <1>3, LaterReady
<1> QED BY <1>1, <1>3, <1>4, <1>5 DEF Sound

LEMMA FreshKnown ==
  /\ \A C : Sound(FreshPosture, C) /\ ClosesLast(FreshPosture, <<>>, C)
  /\ \A c \in Postures : Fits(FreshPosture, c)
<1> DEFINE p == FreshPosture
<1>1. /\ p.attesters = {} /\ p.threshold = 0 /\ p.closed = FALSE
      /\ \A m \in Models : p.genesis[m] = Unset
      /\ p \in [attesters : SUBSET Attesters, threshold : Nat, closed : BOOLEAN, knob : BOOLEAN,
                budget : [Models -> {"none", "full", "spent"}], genesis : [Models -> Geneses \union {Unset}]]
  BY DEF FreshPosture
<1> HIDE DEF p
<1>2. PostureKnown(p)
  BY <1>1, FS_EmptySet DEF PostureKnown
<1>3. \A c \in Postures : Fits(p, c)
  BY <1>1 DEF Fits
<1>4. ASSUME NEW C PROVE ClosesLast(p, <<>>, C)
  <2>1. \A a, b : Precedes(<<>>, a, b) /\ ~Holds(<<>>, a)
    BY DEF Precedes, Holds
  <2> QED BY <2>1 DEF ClosesLast
<1>5. \A C : Sound(p, C)
  BY <1>1, <1>2 DEF Sound
<1> QED BY <1>3, <1>4, <1>5 DEF p


-----------------------------------------------------------------------------
(* The posture, step by step.                                              *)

LEMMA PlansKept ==
  ASSUME JobKnown, PlansKnown, LaunchNext
  PROVE  PlansKnown'
<1>0. Unset \notin Scripts
  BY StackConstants
<1>a. ASSUME posture' = posture, config' = config, bundle' = bundle, configs' = configs, mainnet' = mainnet,
             job'.script \notin {"posture", "bundle"}
      PROVE  PlansKnown'
  BY <1>a DEF PlansKnown, Runs
<1>b. ASSUME posture' = posture, config' = config, bundle' = bundle, configs' = configs, mainnet' = mainnet, job' = NoJob
      PROVE  PlansKnown'
  BY <1>0, <1>a, <1>b DEF NoJob, Scripts
<1>c. posture \in [attesters : SUBSET Attesters, threshold : Nat, closed : BOOLEAN, knob : BOOLEAN,
                   budget : [Models -> {"none", "full", "spent"}], genesis : [Models -> Geneses \union {Unset}]]
  BY DEF PlansKnown, Sound, PostureKnown
<1>d. Idle => ~Runs("posture") /\ ~Runs("bundle")
  BY <1>0 DEF Idle, NoJob, Runs, Scripts
\* A configuration is planned for the stack.
<1>e. ASSUME configs' = configs \union {config}
      PROVE  /\ configs' \subseteq Postures /\ IsFiniteSet(configs') /\ configs' # {}
             /\ \A c : configs' \subseteq {c} => configs \subseteq {c} /\ c = config
             /\ Sound(posture, configs') /\ ClosesLast(posture, bundle, configs') /\ ClosesLast(posture, Plan, configs')
  <2>1. IsFiniteSet(configs \union {config})
    BY FS_AddElement DEF PlansKnown
  <2> DEFINE C == configs \union {config}
  <2>2. configs \subseteq C /\ config \in C /\ configs' = C
    BY <1>e
  <2>3. PostureKnown(posture) /\ config \in Postures /\ Sound(posture, configs) /\ ClosesLast(posture, bundle, configs)
    BY DEF PlansKnown, Sound
  <2> HIDE DEF C
  <2>4. Sound(posture, C) /\ ClosesLast(posture, bundle, C)
    BY <2>2, <2>3, MoreCloses
  <2>5. ClosesLast(posture, Plan, C)
    BY <2>2, <2>3, PlanIs, PlanCloses
  <2> QED BY <1>e, <2>1, <2>2, <2>4, <2>5 DEF PlansKnown
<1>f. /\ PostureKnown(posture) /\ config \in Postures /\ Sound(posture, configs)
      /\ configs \in SUBSET Postures
  BY DEF PlansKnown, Sound
<1>g. Fits(posture, config) => Leads(posture, config, Plan)
  BY <1>f, PlanIs, PlanLeads
<1>1. CASE StartConductor
  BY <1>1, <1>b DEF StartConductor, NewRun, Idle, postureVars
<1>2. CASE BeginPhase
  <2>1. CASE /\ \/ Current = "deploy-contracts" /\ StartDeploy /\ UNCHANGED <<contexts, built, postureVars>>
                \/ Current = "deploy-timelock" /\ StartTimelock /\ UNCHANGED <<built, postureVars>>
                \/ Current = "create-pools" /\ StartPools /\ UNCHANGED <<contexts, postureVars>>
                \/ Current = "handoff" /\ StartHandoff /\ UNCHANGED <<built, postureVars>>
    <3>1. /\ posture' = posture /\ config' = config /\ bundle' = bundle /\ configs' = configs /\ mainnet' = mainnet
          /\ job'.script \in {"deploy-contracts", "deploy-timelock", "create-pools", "handoff"}
      BY <2>1 DEF StartDeploy, StartTimelock, StartPools, StartHandoff, Begin, postureVars
    <3> QED BY <3>1, <1>a
  <2>2. CASE Current = "posture" /\ StartPosture
    <3>1. /\ job' = [script |-> "posture", todo |-> Plan] /\ configs' = configs \union {config} /\ posture' = posture
          /\ config' = config /\ bundle' = bundle /\ mainnet' = mainnet
      BY <2>2 DEF StartPosture, Begin, rest
    <3>2. job'.script = "posture" /\ job'.todo = Plan
      BY <3>1
    <3>3. ASSUME ~mainnet, NEW c \in Postures, configs' \subseteq {c} PROVE Fits(posture, c) /\ Leads(posture, c, Plan)
      <4>1. configs \subseteq {c} /\ c = config
        BY <1>e, <3>1, <3>3
      <4>2. Fits(posture, c)
        BY <3>3, <4>1 DEF PlansKnown
      <4> QED BY <1>g, <4>1, <4>2
    <3> QED BY <1>e, <1>g, <3>1, <3>2, <3>3 DEF PlansKnown, Runs
  <2> QED BY <1>2, <2>1, <2>2 DEF BeginPhase
<1>3. CASE PassPhase
  BY <1>3, <1>b DEF PassPhase, scriptVars, stackVars, postureVars, Idle
<1>4. CASE StopForSafe
  <2>1. /\ job' = job /\ configs' = configs \union {config} /\ posture' = posture /\ Idle
        /\ config' = config /\ bundle' = Plan /\ mainnet' = mainnet /\ mainnet
    BY <1>4 DEF StopForSafe, WriteBundle, rest
  <2>2. ~Runs("posture") /\ ~Runs("bundle")
    BY <1>d, <2>1
  <2> QED BY <1>e, <1>g, <2>1, <2>2 DEF PlansKnown, Runs
<1>5. CASE FailPhase
  BY <1>5, <1>b DEF FailPhase, scriptVars, stackVars, postureVars, Idle
<1>6. CASE NewStack
  <2>1. /\ job' = NoJob /\ configs' = {} /\ posture' = FreshPosture /\ config' = config /\ bundle' = <<>>
    BY <1>6 DEF NewStack, RecordStack
  <2>2. job'.script \notin {"posture", "bundle"}
    BY <1>0, <2>1 DEF NoJob, Scripts
  <2>3. Sound(posture', configs') /\ (\A c \in Postures : Fits(posture', c)) /\ ClosesLast(posture', bundle', configs')
    BY <2>1, FreshKnown
  <2> QED BY <1>f, <2>1, <2>2, <2>3, FS_EmptySet DEF PlansKnown, Runs
<1>7. CASE ScriptStep
  <2>1. CASE /\ \/ DeployStep /\ UNCHANGED <<contexts, built, postureVars>>
                \/ TimelockStep /\ UNCHANGED <<built, postureVars>>
                \/ PoolStep /\ UNCHANGED <<contexts, postureVars>>
                \/ HandoffStep /\ UNCHANGED <<built, postureVars>>
    <3>1. /\ posture' = posture /\ config' = config /\ bundle' = bundle /\ configs' = configs /\ mainnet' = mainnet
          /\ job' = [job EXCEPT !.todo = Tail(@)]
          /\ job.script \in {"deploy-contracts", "deploy-timelock", "create-pools", "handoff"}
      BY <2>1 DEF DeployStep, TimelockStep, PoolStep, HandoffStep, TaskDone, Runs, postureVars
    <3>2. job'.script = job.script
      BY <3>1 DEF JobKnown
    <3> QED BY <3>1, <3>2, <1>a
  <2>2. CASE PostureStep
    <3> DEFINE t == Head(job.todo)
               todo == Tail(job.todo)
    <3>1. /\ Runs("posture") \/ Runs("bundle")
          /\ job.todo # <<>> /\ ~Refuses(posture, "deployer", t) /\ posture' = After(posture, t)
          /\ config' = config /\ bundle' = bundle /\ configs' = configs /\ mainnet' = mainnet
          /\ job' = [job EXCEPT !.todo = todo]
      BY <2>2 DEF PostureStep, NextTask, TaskDone, rest
    <3>2. job'.script = job.script /\ job'.todo = todo
      BY <3>1 DEF JobKnown
    <3>3. ClosesLast(posture, job.todo, configs) /\ job.todo \in Seq(PlanItems)
      BY <3>1 DEF PlansKnown, ClosesLast
    <3>4. Allowed(posture, t)
      BY <1>f, <3>1, RefusesAllows
    <3>5. Sound(posture', configs) /\ Later(posture, posture') /\ ClosesLast(posture', todo, configs)
      BY <1>f, <3>1, <3>3, <3>4, ItemCloses
    <3>6. ClosesLast(posture', bundle', configs)
      BY <3>1, <3>5, LaterCloses DEF PlansKnown
    <3>7. ASSUME ~mainnet, NEW c \in Postures, configs \subseteq {c}
          PROVE  Fits(posture', c) /\ Leads(posture', c, todo)
      <4>1. Runs("posture")
        BY <3>1, <3>7 DEF JobKnown
      <4>2. Fits(posture, c) /\ Leads(posture, c, job.todo)
        BY <3>7, <4>1 DEF PlansKnown
      <4> QED BY <1>f, <3>1, <3>3, <4>2, ItemLeads
    <3> HIDE DEF t, todo
    <3> QED BY <1>f, <3>1, <3>2, <3>5, <3>6, <3>7 DEF PlansKnown, Runs
  <2> QED BY <1>7, <2>1, <2>2 DEF ScriptStep
<1>8. CASE ScriptEnds
  <2>1. UNCHANGED postureVars /\ job' = NoJob /\ mainnet' = mainnet
    BY <1>8 DEF ScriptEnds, RecordTimelock, RecordPools, EndPosture, RecordHandoff, rest
  <2> QED BY <2>1, <1>b DEF postureVars
<1>9. CASE ScriptAborts
  <2>1. UNCHANGED postureVars /\ job' = NoJob /\ mainnet' = mainnet
    BY <1>9 DEF ScriptAborts, ScriptFails, PoolReverts, PostureReverts, HandoffReverts, rest
  <2> QED BY <2>1, <1>b DEF postureVars
<1>10. CASE ByHand
  <2>0. Idle
    BY <1>10 DEF ByHand
  <2>1. CASE StartBundle
    <3>1. /\ mainnet /\ mainnet' = mainnet /\ posture' = posture /\ config' = config /\ bundle' = bundle /\ configs' = configs
          /\ job' = [script |-> "bundle", todo |-> bundle]
      BY <2>1 DEF StartBundle, Begin, rest, postureVars
    <3>2. job'.script = "bundle" /\ job'.todo = bundle
      BY <3>1
    <3> QED BY <3>1, <3>2 DEF PlansKnown, Runs
  <2>2. CASE SafeSubmits
    <3>1. /\ job' = job /\ config' = config /\ bundle' = bundle /\ configs' = configs /\ mainnet' = mainnet /\ bundle # <<>>
      BY <2>2 DEF SafeSubmits, rest
    <3>2. Sound(posture', configs) /\ Later(posture, posture')
      BY <1>f, <2>2, SubmitKnown DEF PlansKnown
    <3>3. ClosesLast(posture', bundle', configs)
      BY <3>1, <3>2, LaterCloses DEF PlansKnown
    <3>4. mainnet
      BY <3>1 DEF JobKnown
    <3>5. ~Runs("posture")' /\ ~Runs("bundle")'
      BY <1>d, <2>0, <3>1 DEF Runs
    <3> QED BY <1>f, <3>1, <3>2, <3>3, <3>4, <3>5 DEF PlansKnown
  <2>3. CASE EditConfig
    <3>1. /\ job' = job /\ config' \in Postures /\ bundle' = bundle /\ configs' = configs /\ mainnet' = mainnet
          /\ posture' = posture
      BY <2>3 DEF EditConfig, rest
    <3> QED BY <3>1 DEF PlansKnown, Runs
  <2> QED BY <1>10, <2>1, <2>2, <2>3 DEF ByHand
<1>11. CASE FixRoles
  BY <1>11, <1>b DEF FixRoles, Idle, postureVars
<1>12. CASE MintDuringLaunch
  <2>1. PICK m \in Models : MintSpends(m)
    BY <1>12 DEF MintDuringLaunch
  <2>2. /\ job' = job /\ config' = config /\ bundle' = bundle /\ configs' = configs /\ mainnet' = mainnet
        /\ posture.budget[m] = "full" /\ posture' = [posture EXCEPT !.budget[m] = "spent"]
    BY <2>1 DEF MintSpends, rest
  <2>3. /\ Sound(posture', configs) /\ Later(posture, posture')
        /\ posture'.attesters = posture.attesters /\ posture'.threshold = posture.threshold
        /\ posture'.genesis = posture.genesis
    BY <1>f, <2>2, SpentKnown
  <2>4. \A s : ClosesLast(posture, s, configs) => ClosesLast(posture', s, configs)
    BY <2>3, LaterCloses
  <2>5. \A c, s : (Fits(posture, c) => Fits(posture', c)) /\ (Leads(posture, c, s) => Leads(posture', c, s))
    BY <2>3 DEF Fits, Leads
  <2> QED BY <2>2, <2>3, <2>4, <2>5 DEF PlansKnown, Runs
<1>13. CASE SkipEveryPhase
  BY <1>13, <1>b DEF SkipEveryPhase, NewRun, Idle, postureVars
<1> QED BY <1>1, <1>2, <1>3, <1>4, <1>5, <1>6, <1>7, <1>8, <1>9, <1>10, <1>11, <1>12, <1>13 DEF LaunchNext


LEMMA OnlyOne ==
  ASSUME NEW S, IsFiniteSet(S), S # {}, ~(Cardinality(S) > 1)
  PROVE  \E x : S = {x}
<1>1. PICK x : x \in S
  OBVIOUS
<1>2. Cardinality({x}) = 1 /\ IsFiniteSet({x})
  BY FS_Singleton
<1>3. Cardinality(S) \in Nat
  BY FS_CardinalityType
<1>4. {x} \subseteq S
  BY <1>1
<1>5. {x} # S => Cardinality({x}) < Cardinality(S)
  BY <1>3, <1>4, FS_Subset, FS_CardinalityType, FS_Subset
<1>6. S = {x}
  BY <1>2, <1>3, <1>5
<1> QED BY <1>6

\* A plan that leads to its configuration is refused only where the deployer has
\* lost its roles, a model is not registered, or the configuration asks for more
\* signatures than it names attesters.
LEMMA LeadingIsAllowed ==
  ASSUME NEW p, PostureKnown(p), NEW c \in Postures, Fits(p, c),
         NEW todo \in Seq(PlanItems), todo # <<>>, Leads(p, c, todo), Refuses(p, "deployer", Head(todo))
  PROVE  \/ ~Has("DeltaVerifier", "ADMIN", "deployer") \/ ~Has("ModelRegistry", "owner", "deployer")
         \/ \E m \in Models : <<"register", m>> \notin built
         \/ c.threshold > Cardinality(c.attesters)
<1> DEFINE t == Head(todo)
           thr == PlanItem("setAttesterThreshold", c.threshold)
<1> SUFFICES ASSUME Has("DeltaVerifier", "ADMIN", "deployer"), Has("ModelRegistry", "owner", "deployer"),
                    \A m \in Models : <<"register", m>> \in built,
                    ~(c.threshold > Cardinality(c.attesters))
             PROVE  FALSE
  OBVIOUS
<1>1. /\ t \in PlanItems /\ Holds(todo, t)
      /\ \A a, b : Precedes(todo, a, b) => t # b
  BY Shortened
<1>2. Refuses(p, "deployer", t)
  OBVIOUS
<1> HIDE DEF t, thr
<1>a. /\ \A a \in Attesters :
           /\ ~Holds(todo, PlanItem("removeAttester", a))
           /\ Holds(todo, PlanItem("addAttester", a)) => a \in c.attesters /\ a \notin p.attesters
      /\ \A a \in c.attesters : a \in p.attesters \/ Precedes(todo, PlanItem("addAttester", a), thr)
      /\ \A d \in Postures : Holds(todo, PlanItem("setAttesterThreshold", d.threshold)) => d.threshold = c.threshold /\ d.threshold # 0
      /\ \A m \in Models : \A g \in Geneses :
           Holds(todo, PlanItem("setWeightGenesis", <<m, g>>)) => g = c.genesis /\ g # Unset /\ p.genesis[m] = Unset
  BY DEF Leads, thr
<1>b. \A op, a : PlanItem(op, a).op = op /\ PlanItem(op, a).arg = a
  BY DEF PlanItem
<1>3. ASSUME NEW a \in Attesters, t = PlanItem("addAttester", a) PROVE FALSE
  <2>1. t.op = "addAttester" /\ t.arg = a
    BY <1>b, <1>3
  <2>2. a \in p.attesters
    BY <1>2, <2>1 DEF Refuses
  <2> QED BY <1>1, <1>3, <1>a, <2>2
<1>4. ASSUME NEW a \in Attesters, t = PlanItem("removeAttester", a) PROVE FALSE
  BY <1>1, <1>4, <1>a
<1>5. ASSUME NEW d \in Postures, t = PlanItem("setAttesterThreshold", d.threshold) PROVE FALSE
  <2>1. d.threshold = c.threshold /\ c.threshold # 0 /\ t = thr
    BY <1>1, <1>5, <1>a DEF thr
  <2>2. c.attesters \subseteq p.attesters
    BY <1>1, <1>a, <2>1
  <2>3. p.attesters = c.attesters
    BY <2>2 DEF Fits
  <2>4. t.op = "setAttesterThreshold" /\ t.arg = c.threshold
    BY <1>b, <1>5, <2>1
  <2>5. c.threshold = 0 \/ c.threshold > Cardinality(c.attesters)
    BY <1>2, <2>3, <2>4 DEF Refuses
  <2> QED BY <2>1, <2>5
<1>6. ASSUME NEW m \in Models, t = PlanItem("setMintBudget", m) PROVE FALSE
  <2>1. t.op = "setMintBudget"
    BY <1>b, <1>6
  <2> QED BY <1>2, <2>1 DEF Refuses
<1>7. ASSUME NEW m \in Models, NEW g \in Geneses, t = PlanItem("setWeightGenesis", <<m, g>>) PROVE FALSE
  <2>1. p.genesis[m] = Unset /\ g # Unset
    BY <1>1, <1>7, <1>a
  <2>2. t.op = "setWeightGenesis" /\ t.arg = <<m, g>>
    BY <1>7 DEF PlanItem
  <2>3. t.arg[1] = m /\ t.arg[2] = g
    BY <2>2
  <2> QED BY <1>2, <2>1, <2>2, <2>3 DEF Refuses
<1>8. t # Knob
  <2>1. ASSUME t = Knob PROVE t.op = "setMaxReward"
    BY <1>b, <2>1, Zenon DEF Knob
  <2> QED BY <1>2, <2>1 DEF Refuses
<1>9. t # Close
  <2>1. ASSUME t = Close PROVE t.op = "disableLegacyMints"
    BY <1>b, <2>1, Zenon DEF Close
  <2> QED BY <1>2, <2>1 DEF Refuses
<1> QED BY <1>1, <1>3, <1>4, <1>5, <1>6, <1>7, <1>8, <1>9, ItemKinds, Zenon

LEMMA RetriesKept ==
  ASSUME JobKnown, PlansKnown, PostureResumes, LaunchNext
  PROVE  PostureResumes'
<1>0. Unset \notin Scripts
  BY StackConstants
\* What refused it is still so.
<1>a. ASSUME refused' \in {refused, Unset, "create-pools", "bundle", "handoff"},
             configs' = configs, facts' = facts, built' = built
      PROVE  PostureResumes'
  BY <1>0, <1>a DEF PostureResumes, Has, Scripts
<1>b. ASSUME refused' = refused, refused = Unset PROVE PostureResumes'
  BY <1>0, <1>b DEF PostureResumes, Scripts
<1>c. phase # 0 => refused = Unset
  BY DEF JobKnown
<1>d. ASSUME ~Runs(Unset), ~Runs("bundle") PROVE refused = Unset
  BY <1>d DEF JobKnown, Runs
<1>1. CASE StartConductor
  BY <1>1, <1>a DEF StartConductor, NewRun, postureVars
<1>2. CASE BeginPhase
  <2>1. refused' = refused
    BY <1>2 DEF BeginPhase, StartDeploy, StartTimelock, StartPools, StartPosture, StartHandoff
  <2>2. phase # 0
    BY <1>2, CurrentIs DEF BeginPhase, JobKnown
  <2> QED BY <1>b, <1>c, <2>1, <2>2
<1>3. CASE PassPhase
  BY <1>3, <1>a DEF PassPhase, scriptVars, stackVars, postureVars
<1>4. CASE StopForSafe
  <2>1. refused' = refused
    BY <1>4 DEF StopForSafe, WriteBundle
  <2>2. phase # 0
    BY <1>4, CurrentIs DEF StopForSafe, JobKnown
  <2> QED BY <1>b, <1>c, <2>1, <2>2
<1>5. CASE FailPhase
  BY <1>5, <1>a DEF FailPhase, scriptVars, stackVars, postureVars
<1>6. CASE NewStack
  <2>1. refused' = Unset
    BY <1>6 DEF NewStack, RecordStack
  <2> QED BY <1>0, <2>1 DEF PostureResumes, Scripts
<1>7. CASE ScriptStep
  <2>1. CASE /\ \/ DeployStep /\ UNCHANGED <<contexts, built, postureVars>>
                \/ TimelockStep /\ UNCHANGED <<built, postureVars>>
                \/ PoolStep /\ UNCHANGED <<contexts, postureVars>>
                \/ HandoffStep /\ UNCHANGED <<built, postureVars>>
    <3>1. refused' = refused /\ job.script \in {"deploy-contracts", "deploy-timelock", "create-pools", "handoff"}
      BY <2>1 DEF DeployStep, TimelockStep, PoolStep, HandoffStep, Runs
    <3> QED BY <1>0, <1>b, <1>d, <3>1 DEF Runs, Scripts
  <2>2. CASE PostureStep
    BY <2>2, <1>a DEF PostureStep, rest
  <2> QED BY <1>7, <2>1, <2>2 DEF ScriptStep
<1>8. CASE ScriptEnds
  <2>1. facts' = facts /\ built' = built /\ configs' = configs /\ refused' = refused
    BY <1>8 DEF ScriptEnds, RecordTimelock, RecordPools, EndPosture, RecordHandoff, postureVars, rest
  <2> QED BY <2>1, <1>a
<1>9. CASE ScriptAborts
  <2>1. facts' = facts /\ built' = built /\ configs' = configs
    BY <1>9 DEF ScriptAborts, ScriptFails, PoolReverts, PostureReverts, HandoffReverts, postureVars, rest
  <2>2. CASE \/ ScriptFails \/ PoolReverts \/ HandoffReverts \/ (PostureReverts /\ Runs("bundle"))
    <3>1. refused' \in {refused, "create-pools", "bundle", "handoff"}
      BY <2>2 DEF ScriptFails, PoolReverts, PostureReverts, HandoffReverts, Runs
    <3> QED BY <1>a, <2>1, <3>1
  <2>3. CASE PostureReverts /\ Runs("posture")
    <3>1. job.todo # <<>> /\ Refuses(posture, "deployer", Head(job.todo)) /\ ~mainnet
      BY <2>3 DEF PostureReverts, NextTask, JobKnown
    <3>2. CASE Cardinality(configs) > 1
      BY <2>1, <3>2 DEF PostureResumes
    <3>3. CASE ~(Cardinality(configs) > 1)
      <4>1. PICK c : configs = {c}
        BY <2>3, <3>3, OnlyOne DEF PlansKnown
      <4>2. c \in Postures /\ Fits(posture, c) /\ Leads(posture, c, job.todo)
        BY <2>3, <3>1, <4>1 DEF PlansKnown
      <4>3. PostureKnown(posture) /\ job.todo \in Seq(PlanItems)
        BY <2>3 DEF PlansKnown, Sound, ClosesLast
      <4>4. \/ ~Has("DeltaVerifier", "ADMIN", "deployer") \/ ~Has("ModelRegistry", "owner", "deployer")
            \/ \E m \in Models : <<"register", m>> \notin built
            \/ c.threshold > Cardinality(c.attesters)
        BY <3>1, <4>2, <4>3, LeadingIsAllowed
      <4> QED BY <2>1, <4>1, <4>4 DEF PostureResumes, Has
    <3> QED BY <3>2, <3>3
  <2> QED BY <1>9, <2>2, <2>3 DEF ScriptAborts, PostureReverts
<1>10. CASE ByHand
  BY <1>10, <1>a DEF ByHand, StartBundle, SafeSubmits, EditConfig, rest, postureVars
<1>11. CASE FixRoles
  <2>1. /\ refused' = refused /\ configs' = configs /\ built' = built
        /\ Has("DeltaVerifier", "ADMIN", "deployer")
    BY <1>11 DEF FixRoles, postureVars
  <2>2. ~Has("ModelRegistry", "owner", "deployer") => ~Has("ModelRegistry", "owner", "deployer")'
    BY <1>11 DEF FixRoles, Has
  <2> QED BY <2>1, <2>2 DEF PostureResumes
<1>12. CASE MintDuringLaunch
  BY <1>12, <1>a DEF MintDuringLaunch, MintSpends, rest
<1>13. CASE SkipEveryPhase
  BY <1>13, <1>a DEF SkipEveryPhase, NewRun, postureVars
<1> QED BY <1>1, <1>2, <1>3, <1>4, <1>5, <1>6, <1>7, <1>8, <1>9, <1>10, <1>11, <1>12, <1>13 DEF LaunchNext

\* Whatever configuration is planned, interrupted, executed by the deployer or
\* the Safe, the plans keep their order.
THEOREM PostureInvariant == LaunchSpec => []PostureInv
<1>1. LaunchInit => PostureInv
  <2> SUFFICES ASSUME LaunchInit PROVE PostureInv
    OBVIOUS
  <2>1. /\ job = NoJob /\ refused = Unset /\ config \in Postures /\ posture = FreshPosture /\ bundle = <<>> /\ configs = {}
    BY DEF LaunchInit, StackInit, PostureInit
  <2>2. ~Runs("posture") /\ ~Runs("bundle") /\ refused # "posture"
    BY <2>1, StackConstants DEF NoJob, Runs, Scripts
  <2>3. PlansKnown
    BY <2>1, <2>2, FreshKnown, FS_EmptySet DEF PlansKnown
  <2> QED BY <2>2, <2>3 DEF PostureInv, PostureResumes
<1>2. PostureInv /\ HandoverInv /\ [LaunchNext]_launchVars => PostureInv'
  <2> SUFFICES ASSUME PostureInv, HandoverInv, [LaunchNext]_launchVars PROVE PostureInv'
    OBVIOUS
  <2>1. CASE LaunchNext
    BY <2>1, PlansKept, RetriesKept DEF PostureInv, HandoverInv
  <2>2. CASE UNCHANGED launchVars
    <3>1. UNCHANGED <<mainnet, facts, job, refused, built, config, posture, bundle, configs>>
      BY <2>2 DEF launchVars, scriptVars, stackVars, postureVars
    <3>2. PlansKnown'
      BY <3>1 DEF PostureInv, PlansKnown, Runs
    <3>3. PostureResumes'
      BY <3>1 DEF PostureInv, PostureResumes, Has
    <3> QED BY <3>2, <3>3 DEF PostureInv
  <2> QED BY <2>1, <2>2
<1> QED BY <1>1, <1>2, HandoverInvariant, PTL DEF LaunchSpec

\* The launch is sound: nobody is orphaned, a handoff and a posture that stopped
\* can be run again, and the legacy mints are closed only after what a planned
\* configuration asks for is in place.
THEOREM LaunchIsSound == LaunchSpec => []LaunchSound
<1>1. HandoverInv => HandoffResumes
  BY DEF HandoverInv
<1>2. PostureInv => PostureResumes /\ ClosedOnlyWhenReady
  <2> SUFFICES ASSUME PostureInv PROVE PostureResumes /\ ClosedOnlyWhenReady
    OBVIOUS
  <2>1. PostureKnown(posture) /\ (posture.closed => Ready(posture, configs)) /\ PostureResumes
    BY DEF PostureInv, PlansKnown, Sound
  <2>2. ClosedOnlyWhenReady
    BY <2>1 DEF PostureKnown, ClosedOnlyWhenReady, Ready, Suits
  <2> QED BY <2>1, <2>2
<1>3. NothingOrphaned /\ HandoffResumes /\ PostureResumes /\ ClosedOnlyWhenReady => LaunchSound
  BY DEF LaunchSound
<1> QED BY <1>1, <1>2, <1>3, NobodyOrphaned, HandoverInvariant, PostureInvariant, PTL

=============================================================================
