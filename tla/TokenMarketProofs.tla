------------------------- MODULE TokenMarketProofs -------------------------
(***************************************************************************)
(* The tokens, their vesting, the escrow and the pool's USDC are accounted *)
(* for, for any models, accounts, amounts, policies and curve.             *)
(***************************************************************************)
EXTENDS HokusaiAMM, CountingTheorems

Kinds == {"none", "legacy", "capped"}
Holdings == [Holders -> Nat]
Schedules ==
  [token : Models, beneficiary : Holders, totalAmount : Nat, claimed : Nat,
   start : Nat, cliff : Nat, duration : Nat \ {0}]

\* Schedules that have paid no more than has vested.
SoundSchedules(q, t) ==
  q \in Seq(Schedules) /\ \A i \in DOMAIN q : q[i].claimed <= VestedAmount(q[i], t)

\* What the schedules of a model's token still owe to some of the holders.
Due(q, m, B) ==
  SumOf([i \in DOMAIN q |-> q[i].totalAmount - q[i].claimed],
        {i \in DOMAIN q : q[i].token = m /\ q[i].beneficiary \in B})

\* What the counters of a model account for; legacy tokens are not counted.
Covered(k, supply, investor, reward, supplied) ==
  k # "legacy" =>
    /\ supply <= investor + reward + supplied
    /\ investor <= InvestorAllocation
    /\ \E p \in Policies : reward <= RewardCap(p.tokensPerDeltaOne)

\* The supply is what the holders hold, which is why no burn takes it below zero.
SupplyInv ==
  /\ kind \in [Models -> Kinds] /\ policy \in [Models -> Policies]
  /\ balances \in [Models -> Holdings] /\ totalSupply \in [Models -> Nat]
  /\ investorMinted \in [Models -> Nat] /\ rewardMinted \in [Models -> Nat]
  /\ supplierDistributed \subseteq Models
  /\ \A m \in Models :
       /\ totalSupply[m] = SumOf(balances[m], Holders)
       /\ Covered(kind[m], totalSupply[m], investorMinted[m], rewardMinted[m], Supplied(m))

\* What the vault and the escrow hold.
BooksInv ==
  /\ now \in Nat /\ SoundSchedules(schedules, now)
  /\ balances \in [Models -> Holdings] /\ strays \in [Models -> Int]
  /\ totalReleased \in [Models -> Int] /\ credited \in [Models -> Int]
  /\ \A m \in Models :
       /\ balances[m][Vault] = Due(schedules, m, Holders) + strays[m]
       /\ balances[m][Escrow] + Due(schedules, m, {Escrow}) + totalReleased[m] = credited[m]

\* The pool, and the fees of the TokenManager.
PoolInv ==
  /\ reserveBalance \in Nat /\ usdc \in Nat /\ donated \in Nat
  /\ tradeFee \in TradeFees /\ maxTradeBps \in Nat /\ maxTradeBps <= 10000
  /\ eth \in Nat /\ deploymentFee \in Nat
  /\ PoolAccounted

MarketInv == SupplyInv /\ BooksInv /\ PoolInv

-----------------------------------------------------------------------------
(* Holders, and what they hold.                                            *)

\* There are finitely many holders; vault, escrow, manager and supplier are four.
LEMMA HoldersFinite ==
  /\ IsFiniteSet(Holders)
  /\ Vault \in Holders /\ Escrow \in Holders /\ Manager \in Holders /\ Supplier \in Holders
  /\ Vault # Escrow /\ Vault # Manager /\ Escrow # Manager
  /\ Supplier \notin {Vault, Escrow} /\ Vault \notin Users /\ Escrow \notin Users
  /\ Users \subseteq Holders
<1>1. IsFiniteSet(Users)
  BY TokenConstants DEF TokenConstants
<1> DEFINE A == Users \union {Supplier}
           B == A \union {Vault}
           C == B \union {Escrow}
           D == C \union {Manager}
<1>2. IsFiniteSet(A)
  BY <1>1, FS_AddElement
<1>3. IsFiniteSet(B)
  <2> HIDE DEF A
  <2> QED BY <1>2, FS_AddElement
<1>4. IsFiniteSet(C)
  <2> HIDE DEF B
  <2> QED BY <1>3, FS_AddElement
<1>5. IsFiniteSet(D)
  <2> HIDE DEF C
  <2> QED BY <1>4, FS_AddElement
<1>6. D = Holders
  BY DEF Holders
<1> QED BY <1>5, <1>6, TokenConstants DEF TokenConstants, Holders

\* A credit adds to one holder and to the sum.
LEMMA Crediting ==
  ASSUME NEW f \in Holdings, NEW h \in Holders, NEW a \in Nat
  PROVE  /\ Credit(f, h, a) \in Holdings
         /\ SumOf(Credit(f, h, a), Holders) = SumOf(f, Holders) + a
         /\ Credit(f, h, a)[h] = f[h] + a
         /\ \A x \in Holders \ {h} : Credit(f, h, a)[x] = f[x]
<1> DEFINE g == Credit(f, h, a)
<1>1. g \in Holdings /\ g[h] = f[h] + a /\ \A x \in Holders \ {h} : g[x] = f[x]
  BY DEF Credit, Holdings
<1>2. (\A x \in Holders : f[x] \in Nat) /\ \A x \in Holders : g[x] \in Nat
  BY <1>1 DEF Holdings
<1> HIDE DEF g
<1>3. SumOf(g, Holders) = SumOf(f, Holders) - f[h] + g[h]
  BY <1>1, <1>2, HoldersFinite, SumChange
<1>4. SumOf(f, Holders) \in Nat
  BY <1>2, HoldersFinite, SumType
<1>5. SumOf(g, Holders) = SumOf(f, Holders) + a
  BY <1>1, <1>2, <1>3, <1>4
<1> QED BY <1>1, <1>5 DEF g

\* A debit takes from one holder, who has it, and from the sum.
LEMMA Debiting ==
  ASSUME NEW f \in Holdings, NEW h \in Holders, NEW a \in Nat, a <= f[h]
  PROVE  /\ Debit(f, h, a) \in Holdings
         /\ SumOf(f, Holders) \in Nat /\ a <= SumOf(f, Holders)
         /\ SumOf(Debit(f, h, a), Holders) = SumOf(f, Holders) - a
         /\ Debit(f, h, a)[h] = f[h] - a
         /\ \A x \in Holders \ {h} : Debit(f, h, a)[x] = f[x]
<1> DEFINE g == Debit(f, h, a)
<1>0. f[h] \in Nat
  BY DEF Holdings
<1>1. g \in Holdings /\ g[h] = f[h] - a /\ \A x \in Holders \ {h} : g[x] = f[x]
  BY <1>0 DEF Debit, Holdings
<1>2. (\A x \in Holders : f[x] \in Nat) /\ \A x \in Holders : g[x] \in Nat
  BY <1>1 DEF Holdings
<1> HIDE DEF g
<1>3. SumOf(g, Holders) = SumOf(f, Holders) - f[h] + g[h]
  BY <1>1, <1>2, HoldersFinite, SumChange
<1>4. SumOf(f, Holders) \in Nat /\ f[h] <= SumOf(f, Holders)
  BY <1>2, HoldersFinite, SumType, SumBounds
<1>5. SumOf(g, Holders) = SumOf(f, Holders) - a /\ a <= SumOf(f, Holders)
  BY <1>0, <1>1, <1>2, <1>3, <1>4
<1> QED BY <1>1, <1>4, <1>5 DEF g

-----------------------------------------------------------------------------
(* Vesting and what schedules owe.                                         *)

\* What vests is a natural, at most the total, and never less later.
LEMMA Vesting ==
  ASSUME NEW s \in Schedules, NEW t \in Nat, NEW u \in Nat, t <= u
  PROVE  /\ VestedAmount(s, t) \in Nat /\ VestedAmount(s, t) <= s.totalAmount
         /\ VestedAmount(s, t) <= VestedAmount(s, u)
<1> DEFINE n == s.totalAmount
           d == s.duration
           b == s.start
<1>1. n \in Nat /\ d \in Nat \ {0} /\ b \in Nat /\ s.cliff \in Nat
  BY DEF Schedules
<1> HIDE DEF n, d, b
<1>2. ASSUME NEW x \in Nat, x <= d PROVE (n * x) \div d \in Nat /\ (n * x) \div d <= n
  <2>1. n * x \in Nat /\ n * x <= n * d
    BY <1>1, <1>2
  <2> QED BY <1>1, <2>1
<1>3. ASSUME NEW x \in Nat, NEW y \in Nat, x <= y PROVE (n * x) \div d <= (n * y) \div d
  <2>1. n * x \in Nat /\ n * y \in Nat /\ n * x <= n * y
    BY <1>1, <1>3
  <2> QED BY <1>1, <2>1
<1>4. VestedAmount(s, t) \in Nat /\ VestedAmount(s, t) <= n
  <2>1. CASE t < b + s.cliff
    BY <1>1, <2>1 DEF VestedAmount, n, b, d
  <2>2. CASE t >= b + s.cliff /\ t >= b + d
    BY <1>1, <2>2 DEF VestedAmount, n, b, d
  <2>3. CASE t >= b + s.cliff /\ t < b + d
    <3>1. t - b \in Nat /\ t - b <= d
      BY <1>1, <2>3
    <3>2. VestedAmount(s, t) = (n * (t - b)) \div d
      BY <1>1, <2>3 DEF VestedAmount, n, b, d
    <3> QED BY <1>2, <3>1, <3>2
  <2> QED BY <1>1, <2>1, <2>2, <2>3
<1>5. VestedAmount(s, t) <= VestedAmount(s, u)
  <2>1. CASE t < b + s.cliff
    <3>1. VestedAmount(s, t) = 0
      BY <2>1 DEF VestedAmount, b
    <3>2. VestedAmount(s, u) \in Nat
      BY <1>1, <1>2 DEF VestedAmount, n, b, d
    <3> QED BY <3>1, <3>2
  <2>2. CASE t >= b + s.cliff /\ u >= b + d
    <3>1. VestedAmount(s, u) = n
      BY <1>1, <2>2 DEF VestedAmount, n, b, d
    <3> QED BY <1>4, <3>1
  <2>3. CASE t >= b + s.cliff /\ u < b + d
    <3>1. t - b \in Nat /\ u - b \in Nat /\ t - b <= u - b
      BY <1>1, <2>3
    <3>2. /\ VestedAmount(s, t) = (n * (t - b)) \div d
          /\ VestedAmount(s, u) = (n * (u - b)) \div d
      BY <1>1, <2>3 DEF VestedAmount, n, b, d
    <3> QED BY <1>3, <3>1, <3>2
  <2> QED BY <1>1, <2>1, <2>2, <2>3
<1> QED BY <1>4, <1>5 DEF n

Sound(q) == \A i \in DOMAIN q : q[i] \in Schedules /\ q[i].claimed <= q[i].totalAmount

\* Schedules that have paid no more than has vested have paid no more than their total.
LEMMA SoundHere ==
  ASSUME NEW q, NEW t \in Nat, SoundSchedules(q, t)
  PROVE  Sound(q) /\ IsFiniteSet(DOMAIN q) /\ DOMAIN q = 1..Len(q) /\ Len(q) \in Nat
<1>1. q \in Seq(Schedules)
  BY DEF SoundSchedules
<1>2. DOMAIN q = 1..Len(q) /\ Len(q) \in Nat /\ \A i \in DOMAIN q : q[i] \in Schedules
  BY <1>1
<1>3. IsFiniteSet(DOMAIN q)
  BY <1>2, FS_Interval
<1>4. ASSUME NEW i \in DOMAIN q PROVE q[i].claimed <= q[i].totalAmount
  <2> DEFINE s == q[i]
  <2>1. s \in Schedules /\ s.claimed <= VestedAmount(s, t)
    BY <1>2 DEF SoundSchedules
  <2> HIDE DEF s
  <2>2. VestedAmount(s, t) \in Nat /\ VestedAmount(s, t) <= s.totalAmount
    BY <2>1, Vesting
  <2>3. s.claimed \in Nat /\ s.totalAmount \in Nat
    BY <2>1 DEF Schedules
  <2>4. s.claimed <= s.totalAmount
    BY <2>1, <2>2, <2>3
  <2> QED BY <2>4 DEF s
<1> QED BY <1>2, <1>3, <1>4 DEF Sound

\* What one schedule owes, to the holders in B of model m's token.
Part(s, m, B) == IF s.token = m /\ s.beneficiary \in B THEN s.totalAmount - s.claimed ELSE 0

\* What is due, as a sum over all schedules.
LEMMA DueOverAll ==
  ASSUME NEW q, Sound(q), NEW m, NEW B
  PROVE  /\ Due(q, m, B) = SumOf([i \in DOMAIN q |-> Part(q[i], m, B)], DOMAIN q)
         /\ \A i \in DOMAIN q : Part(q[i], m, B) \in Nat
<1> DEFINE R == {i \in DOMAIN q : q[i].token = m /\ q[i].beneficiary \in B}
           f == [i \in DOMAIN q |-> Part(q[i], m, B)]
           g == [i \in DOMAIN q |-> q[i].totalAmount - q[i].claimed]
<1>1. \A i \in DOMAIN q \ R : f[i] = 0
  BY DEF Part
<1>2. \A i \in R : f[i] = g[i]
  BY DEF Part
<1>3. R \subseteq DOMAIN q
  OBVIOUS
<1>4. ASSUME NEW i \in DOMAIN q PROVE Part(q[i], m, B) \in Nat
  BY DEF Part, Sound, Schedules
<1>5. Due(q, m, B) = SumOf(g, R)
  BY DEF Due
<1> HIDE DEF f, g, R
<1>6. SumOf(f, DOMAIN q) = SumOf(f, R)
  BY <1>1, <1>3, SumSupport
<1>7. SumOf(f, R) = SumOf(g, R)
  BY <1>2, SumSame
<1> QED BY <1>4, <1>5, <1>6, <1>7 DEF f

\* A new schedule adds what it owes.
LEMMA DueOpened ==
  ASSUME NEW q \in Seq(Schedules), Sound(q), NEW s \in Schedules, s.claimed <= s.totalAmount,
         NEW m, NEW B
  PROVE  /\ Due(Append(q, s), m, B) = Due(q, m, B) + Part(s, m, B)
         /\ Due(q, m, B) \in Nat
<1> DEFINE r == Append(q, s)
           n == Len(q)
           f == [i \in DOMAIN q |-> Part(q[i], m, B)]
           g == [i \in DOMAIN r |-> Part(r[i], m, B)]
<1>1. n \in Nat /\ DOMAIN q = 1..n
  OBVIOUS
<1>2. DOMAIN r = 1..(n + 1) /\ r[n + 1] = s /\ \A i \in 1..n : r[i] = q[i]
  OBVIOUS
<1> HIDE DEF r, n
<1>3. Sound(r)
  BY <1>1, <1>2 DEF Sound
<1>4. /\ Due(q, m, B) = SumOf(f, DOMAIN q) /\ \A i \in DOMAIN q : f[i] \in Nat
      /\ Due(r, m, B) = SumOf(g, DOMAIN r) /\ \A i \in DOMAIN r : g[i] \in Nat
  <2>1. /\ Due(q, m, B) = SumOf(f, DOMAIN q) /\ \A i \in DOMAIN q : Part(q[i], m, B) \in Nat
    BY DueOverAll
  <2>2. /\ Due(r, m, B) = SumOf(g, DOMAIN r) /\ \A i \in DOMAIN r : Part(r[i], m, B) \in Nat
    BY <1>3, DueOverAll
  <2> QED BY <2>1, <2>2
<1>5. g[n + 1] = Part(s, m, B) /\ \A i \in DOMAIN q : g[i] = f[i]
  BY <1>1, <1>2
<1> HIDE DEF f, g
<1>6. n + 1 \in DOMAIN r /\ DOMAIN r \ {n + 1} = DOMAIN q
  BY <1>1, <1>2
<1>7. IsFiniteSet(DOMAIN r) /\ IsFiniteSet(DOMAIN q)
  BY <1>1, <1>2, FS_Interval
<1>8. SumOf(g, DOMAIN r) = SumOf(g, DOMAIN q) + g[n + 1]
  <2>1. PICK u \in DOMAIN r : u = n + 1
    BY <1>6
  <2>2. SumOf(g, DOMAIN r) = SumOf(g, DOMAIN r \ {u}) + g[u]
    BY <1>4, <1>7, SumSplit
  <2> QED BY <1>6, <2>1, <2>2
<1>9. SumOf(g, DOMAIN q) = SumOf(f, DOMAIN q)
  BY <1>5, SumSame
<1>10. SumOf(f, DOMAIN q) \in Nat
  BY <1>4, <1>7, SumType
<1> QED BY <1>4, <1>5, <1>8, <1>9, <1>10 DEF r

\* What a claim that brings a schedule to c pays, to the holders in B of m's token.
PaidOf(s, c, m, B) == IF s.token = m /\ s.beneficiary \in B THEN c - s.claimed ELSE 0

\* From q to r, a claim brings schedule i to c.
Claims(q, r, i, c) == r = [q EXCEPT ![i].claimed = c]

\* A claim takes what it pays from what its schedule owes, and from nothing else.
LEMMA DueClaimed ==
  ASSUME NEW q \in Seq(Schedules), Sound(q), NEW i \in DOMAIN q, NEW c \in Nat,
         c <= q[i].totalAmount, NEW r, Claims(q, r, i, c), NEW m, NEW B
  PROVE  /\ Due(r, m, B) = Due(q, m, B) - PaidOf(q[i], c, m, B)
         /\ Due(q, m, B) \in Nat
         /\ r \in Seq(Schedules) /\ Sound(r)
<1> DEFINE f == [j \in DOMAIN q |-> Part(q[j], m, B)]
           g == [j \in DOMAIN r |-> Part(r[j], m, B)]
<1>0. q[i] \in Schedules /\ \A j \in DOMAIN q : q[j] \in Schedules
  BY DEF Sound
<1>1. /\ DOMAIN r = DOMAIN q /\ \A j \in DOMAIN q \ {i} : r[j] = q[j]
      /\ r[i] = [q[i] EXCEPT !.claimed = c] /\ r = [j \in DOMAIN q |-> r[j]]
  BY DEF Claims
<1>2. /\ r[i] \in Schedules /\ r[i].claimed = c /\ r[i].token = q[i].token
      /\ r[i].beneficiary = q[i].beneficiary /\ r[i].totalAmount = q[i].totalAmount
  BY <1>0, <1>1 DEF Schedules
<1>3. DOMAIN q = 1..Len(q) /\ Len(q) \in Nat
  OBVIOUS
<1>4. r \in Seq(Schedules)
  <2>1. r = [j \in 1..Len(q) |-> r[j]]
    BY <1>1, <1>3
  <2>2. \A j \in 1..Len(q) : r[j] \in Schedules
    BY <1>0, <1>1, <1>2, <1>3
  <2> QED BY <1>3, <2>1, <2>2
<1>5. Sound(r)
  BY <1>1, <1>2 DEF Sound
<1>6. /\ Due(q, m, B) = SumOf(f, DOMAIN q) /\ \A j \in DOMAIN q : f[j] \in Nat
      /\ Due(r, m, B) = SumOf(g, DOMAIN q) /\ \A j \in DOMAIN q : g[j] \in Nat
  <2>1. /\ Due(q, m, B) = SumOf(f, DOMAIN q) /\ \A j \in DOMAIN q : Part(q[j], m, B) \in Nat
    BY DueOverAll
  <2>2. /\ Due(r, m, B) = SumOf(g, DOMAIN r) /\ \A j \in DOMAIN r : Part(r[j], m, B) \in Nat
    BY <1>5, DueOverAll
  <2> QED BY <1>1, <2>1, <2>2
<1>7. \A j \in DOMAIN q \ {i} : g[j] = f[j]
  BY <1>1
<1>8. f[i] - g[i] = PaidOf(q[i], c, m, B)
  <2>1. f[i] = Part(q[i], m, B) /\ g[i] = Part(r[i], m, B)
    BY <1>1
  <2>2. q[i].totalAmount \in Nat /\ q[i].claimed \in Nat
    BY <1>0 DEF Schedules
  <2> HIDE DEF f, g
  <2> QED BY <1>2, <2>1, <2>2 DEF Part, PaidOf
<1>9. IsFiniteSet(DOMAIN q)
  BY <1>3, FS_Interval, SMTT(30)
<1>10. q[i].claimed \in Nat
  BY <1>0 DEF Schedules
<1> HIDE DEF f, g
<1>11. SumOf(g, DOMAIN q) = SumOf(f, DOMAIN q) - f[i] + g[i]
  BY <1>6, <1>7, <1>9, SumChange
<1>12. SumOf(f, DOMAIN q) \in Nat
  BY <1>6, <1>9, SumType
<1> DEFINE paid == PaidOf(q[i], c, m, B)
<1>13. paid \in Int /\ f[i] - g[i] = paid /\ f[i] \in Nat /\ g[i] \in Nat
  BY <1>6, <1>8, <1>10 DEF PaidOf
<1> HIDE DEF paid
<1>14. Due(r, m, B) = Due(q, m, B) - paid
  BY <1>6, <1>11, <1>12, <1>13
<1> QED BY <1>4, <1>5, <1>6, <1>12, <1>14 DEF paid

\* The model's sums are these.
LEMMA OwedIsDue ==
  ASSUME NEW m, BooksInv
  PROVE  Owed(m) = Due(schedules, m, Holders) /\ Locked(m) = Due(schedules, m, {Escrow})
<1>1. Sound(schedules)
  BY SoundHere DEF BooksInv
<1>2. \A i \in DOMAIN schedules : schedules[i].beneficiary \in Holders
  BY <1>1 DEF Sound, Schedules
<1>3. /\ SchedulesOf(m)
           = {i \in DOMAIN schedules : schedules[i].token = m /\ schedules[i].beneficiary \in Holders}
      /\ {i \in SchedulesOf(m) : schedules[i].beneficiary = Escrow}
           = {i \in DOMAIN schedules : schedules[i].token = m /\ schedules[i].beneficiary \in {Escrow}}
  BY <1>2 DEF SchedulesOf
<1> QED BY <1>3 DEF Owed, Locked, Due, Unclaimed

\* What is due is a natural.
LEMMA DueType ==
  ASSUME NEW m, NEW B, BooksInv
  PROVE  Due(schedules, m, B) \in Nat
<1> DEFINE f == [i \in DOMAIN schedules |-> Part(schedules[i], m, B)]
<1>1. Sound(schedules) /\ IsFiniteSet(DOMAIN schedules)
  BY SoundHere DEF BooksInv
<1>2. /\ Due(schedules, m, B) = SumOf(f, DOMAIN schedules)
      /\ \A i \in DOMAIN schedules : f[i] \in Nat
  <2>1. \A i \in DOMAIN schedules : Part(schedules[i], m, B) \in Nat
    BY <1>1, DueOverAll
  <2>2. Due(schedules, m, B) = SumOf(f, DOMAIN schedules)
    BY <1>1, DueOverAll
  <2> QED BY <2>1, <2>2
<1> HIDE DEF f
<1> QED BY <1>1, <1>2, SumType

-----------------------------------------------------------------------------
(* Steps that change the books of one model's token.                       *)

\* Supply and counters: it is enough to look at the model that changes.
LEMMA SupplyStep ==
  ASSUME SupplyInv, NEW m \in Models,
         NEW k \in Kinds, kind' = [kind EXCEPT ![m] = k],
         NEW g \in Holdings, balances' = [balances EXCEPT ![m] = g],
         NEW s \in Nat, totalSupply' = [totalSupply EXCEPT ![m] = s],
         NEW i \in Nat, investorMinted' = [investorMinted EXCEPT ![m] = i],
         NEW r \in Nat, rewardMinted' = [rewardMinted EXCEPT ![m] = r],
         supplierDistributed' \in {supplierDistributed, supplierDistributed \union {m}},
         policy' = policy,
         s = SumOf(g, Holders), Covered(k, s, i, r, Supplied(m)')
  PROVE  SupplyInv'
<1>1. /\ kind' \in [Models -> Kinds] /\ policy' \in [Models -> Policies]
      /\ balances' \in [Models -> Holdings] /\ totalSupply' \in [Models -> Nat]
      /\ investorMinted' \in [Models -> Nat] /\ rewardMinted' \in [Models -> Nat]
      /\ supplierDistributed' \subseteq Models
  BY DEF SupplyInv
<1>2. ASSUME NEW n \in Models
      PROVE  /\ totalSupply'[n] = SumOf(balances'[n], Holders)
             /\ Covered(kind'[n], totalSupply'[n], investorMinted'[n], rewardMinted'[n],
                        Supplied(n)')
  <2>1. CASE n = m
    BY <2>1 DEF SupplyInv
  <2>2. CASE n # m
    <3>1. /\ kind'[n] = kind[n] /\ balances'[n] = balances[n]
          /\ totalSupply'[n] = totalSupply[n] /\ investorMinted'[n] = investorMinted[n]
          /\ rewardMinted'[n] = rewardMinted[n]
      BY <2>2 DEF SupplyInv
    <3>2. Supplied(n)' = Supplied(n)
      BY <2>2 DEF Supplied
    <3> QED BY <3>1, <3>2 DEF SupplyInv
  <2> QED BY <2>1, <2>2
<1> QED BY <1>1, <1>2 DEF SupplyInv

\* Tokens that change hands are no change of the supply.
LEMMA SupplyMoved ==
  ASSUME SupplyInv, NEW m \in Models,
         NEW g \in Holdings, balances' = [balances EXCEPT ![m] = g],
         SumOf(g, Holders) = SumOf(balances[m], Holders),
         UNCHANGED <<kind, totalSupply, investorMinted, rewardMinted, supplierDistributed, policy>>
  PROVE  SupplyInv'
<1>1. /\ kind[m] \in Kinds /\ totalSupply[m] \in Nat /\ investorMinted[m] \in Nat
      /\ rewardMinted[m] \in Nat
  BY DEF SupplyInv
<1>2. /\ kind' = [kind EXCEPT ![m] = kind[m]]
      /\ totalSupply' = [totalSupply EXCEPT ![m] = totalSupply[m]]
      /\ investorMinted' = [investorMinted EXCEPT ![m] = investorMinted[m]]
      /\ rewardMinted' = [rewardMinted EXCEPT ![m] = rewardMinted[m]]
  BY DEF SupplyInv
<1>3. /\ totalSupply[m] = SumOf(g, Holders)
      /\ Covered(kind[m], totalSupply[m], investorMinted[m], rewardMinted[m], Supplied(m)')
  BY DEF SupplyInv, Supplied
<1>4. PICK k \in Kinds, s \in Nat, i \in Nat, r \in Nat :
        k = kind[m] /\ s = totalSupply[m] /\ i = investorMinted[m] /\ r = rewardMinted[m]
  BY <1>1
<1>5. supplierDistributed' \in {supplierDistributed, supplierDistributed \union {m}} /\ policy' = policy
  OBVIOUS
<1>6. s = SumOf(g, Holders) /\ Covered(k, s, i, r, Supplied(m)')
  BY <1>3, <1>4
<1>7. /\ kind' = [kind EXCEPT ![m] = k] /\ totalSupply' = [totalSupply EXCEPT ![m] = s]
      /\ investorMinted' = [investorMinted EXCEPT ![m] = i]
      /\ rewardMinted' = [rewardMinted EXCEPT ![m] = r]
  BY <1>2, <1>4
<1> QED BY <1>5, <1>6, <1>7, SupplyStep

\* Vault and escrow: it is enough to look at the model that changes.
LEMMA BooksStep ==
  ASSUME BooksInv, NEW m \in Models,
         NEW g \in Holdings, balances' = [balances EXCEPT ![m] = g],
         NEW stray \in Int, strays' = [strays EXCEPT ![m] = stray],
         NEW released \in Int, totalReleased' = [totalReleased EXCEPT ![m] = released],
         NEW given \in Int, credited' = [credited EXCEPT ![m] = given],
         now' = now, SoundSchedules(schedules', now),
         \A n \in Models \ {m} :
           /\ Due(schedules', n, Holders) = Due(schedules, n, Holders)
           /\ Due(schedules', n, {Escrow}) = Due(schedules, n, {Escrow}),
         g[Vault] = Due(schedules', m, Holders) + stray,
         g[Escrow] + Due(schedules', m, {Escrow}) + released = given
  PROVE  BooksInv'
<1>1. /\ now' \in Nat /\ SoundSchedules(schedules', now')
      /\ balances' \in [Models -> Holdings] /\ strays' \in [Models -> Int]
      /\ totalReleased' \in [Models -> Int] /\ credited' \in [Models -> Int]
  BY DEF BooksInv
<1>2. ASSUME NEW n \in Models
      PROVE  /\ balances'[n][Vault] = Due(schedules', n, Holders) + strays'[n]
             /\ balances'[n][Escrow] + Due(schedules', n, {Escrow}) + totalReleased'[n]
                  = credited'[n]
  <2>1. CASE n = m
    BY <2>1 DEF BooksInv
  <2>2. CASE n # m
    <3>1. /\ balances'[n] = balances[n] /\ strays'[n] = strays[n]
          /\ totalReleased'[n] = totalReleased[n] /\ credited'[n] = credited[n]
      BY <2>2 DEF BooksInv
    <3>2. /\ Due(schedules', n, Holders) = Due(schedules, n, Holders)
          /\ Due(schedules', n, {Escrow}) = Due(schedules, n, {Escrow})
      BY <2>2
    <3>3. /\ balances[n][Vault] = Due(schedules, n, Holders) + strays[n]
          /\ balances[n][Escrow] + Due(schedules, n, {Escrow}) + totalReleased[n] = credited[n]
      BY DEF BooksInv
    <3> QED BY <3>1, <3>2, <3>3, Zenon
  <2> QED BY <2>1, <2>2
<1> QED BY <1>1, <1>2 DEF BooksInv

\* What the vault, and what the escrow, got is what the books say it got.
VaultFollows(held, was, stray, had) == held - was = stray - had
EscrowFollows(held, was, released, had, given, before) ==
  held - was + released - had = given - before

\* The same where no schedule changes.
LEMMA BooksMoved ==
  ASSUME BooksInv, NEW m \in Models,
         NEW g \in Holdings, balances' = [balances EXCEPT ![m] = g],
         NEW stray \in Int, strays' = [strays EXCEPT ![m] = stray],
         NEW released \in Int, totalReleased' = [totalReleased EXCEPT ![m] = released],
         NEW given \in Int, credited' = [credited EXCEPT ![m] = given],
         UNCHANGED <<now, schedules>>,
         VaultFollows(g[Vault], balances[m][Vault], stray, strays[m]),
         EscrowFollows(g[Escrow], balances[m][Escrow], released, totalReleased[m],
                       given, credited[m])
  PROVE  BooksInv'
<1> DEFINE v == balances[m][Vault]  e == balances[m][Escrow]
           gv == g[Vault]  ge == g[Escrow]
           dv == Due(schedules, m, Holders)  de == Due(schedules, m, {Escrow})
<1>1. v \in Nat /\ e \in Nat /\ gv \in Nat /\ ge \in Nat
  BY HoldersFinite DEF BooksInv, Holdings
<1>2. dv \in Nat /\ de \in Nat
  BY DueType
<1>3. strays[m] \in Int /\ totalReleased[m] \in Int /\ credited[m] \in Int
  BY DEF BooksInv
<1>4. v = dv + strays[m] /\ e + de + totalReleased[m] = credited[m]
  BY DEF BooksInv
<1>5. gv - v = stray - strays[m] /\ ge - e + released - totalReleased[m] = given - credited[m]
  BY DEF VaultFollows, EscrowFollows
<1> HIDE DEF v, e, gv, ge, dv, de
<1>6. gv = dv + stray /\ ge + de + released = given
  BY <1>1, <1>2, <1>3, <1>4, <1>5
<1>7. g[Vault] = Due(schedules', m, Holders) + stray
      /\ g[Escrow] + Due(schedules', m, {Escrow}) + released = given
  BY <1>6 DEF gv, ge, dv, de
<1>8. SoundSchedules(schedules', now)
  BY DEF BooksInv
<1> QED BY <1>7, <1>8, BooksStep

\* The same where neither vault nor escrow gets or gives a token.
LEMMA BooksKept ==
  ASSUME BooksInv, NEW m \in Models,
         NEW g \in Holdings, balances' = [balances EXCEPT ![m] = g],
         g[Vault] = balances[m][Vault], g[Escrow] = balances[m][Escrow],
         UNCHANGED <<strays, totalReleased, credited, now, schedules>>
  PROVE  BooksInv'
<1>1. \A n \in Models :
        balances'[n][Vault] = balances[n][Vault] /\ balances'[n][Escrow] = balances[n][Escrow]
  BY DEF BooksInv
<1>2. balances' \in [Models -> Holdings]
  BY DEF BooksInv
<1> QED BY <1>1, <1>2 DEF BooksInv

\* What a model has; a function changed to what it is at a model does not change.
LEMMA ModelTypes ==
  ASSUME SupplyInv, BooksInv, NEW m \in Models
  PROVE  /\ kind[m] \in Kinds /\ balances[m] \in Holdings
         /\ totalSupply[m] \in Nat /\ investorMinted[m] \in Nat /\ rewardMinted[m] \in Nat
         /\ strays[m] \in Int /\ totalReleased[m] \in Int /\ credited[m] \in Int
         /\ policy[m] \in Policies
         /\ kind = [kind EXCEPT ![m] = kind[m]]
         /\ balances = [balances EXCEPT ![m] = balances[m]]
         /\ totalSupply = [totalSupply EXCEPT ![m] = totalSupply[m]]
         /\ investorMinted = [investorMinted EXCEPT ![m] = investorMinted[m]]
         /\ rewardMinted = [rewardMinted EXCEPT ![m] = rewardMinted[m]]
         /\ strays = [strays EXCEPT ![m] = strays[m]]
         /\ totalReleased = [totalReleased EXCEPT ![m] = totalReleased[m]]
         /\ credited = [credited EXCEPT ![m] = credited[m]]
         /\ totalSupply[m] = SumOf(balances[m], Holders)
         /\ \A h \in Holders : balances[m][h] \in Nat
BY DEF SupplyInv, BooksInv, Holdings

-----------------------------------------------------------------------------
(* Minting, burning and transfers.                                         *)

\* A mint for an account with a key.
LEMMA MintedTokens ==
  ASSUME SupplyInv, BooksInv, NEW m \in Models, NEW to \in Users, NEW amount \in Nat,
         MintTokens(m, to, amount),
         UNCHANGED <<policy, schedules, now, totalReleased, credited>>
  PROVE  SupplyInv' /\ BooksInv'
<1> DEFINE g == Credit(balances[m], to, amount)
<1>1. /\ g \in Holdings /\ SumOf(g, Holders) = totalSupply[m] + amount
      /\ g[Vault] = balances[m][Vault] /\ g[Escrow] = balances[m][Escrow]
  <2>1. balances[m] \in Holdings /\ totalSupply[m] = SumOf(balances[m], Holders)
    BY ModelTypes
  <2>2. to \in Holders /\ Vault \in Holders \ {to} /\ Escrow \in Holders \ {to}
    BY HoldersFinite
  <2> QED BY <2>1, <2>2, Crediting
<1>2. /\ HasToken(m) /\ balances' = [balances EXCEPT ![m] = g]
      /\ totalSupply' = [totalSupply EXCEPT ![m] = totalSupply[m] + amount]
      /\ UNCHANGED <<kind, rewardMinted, supplierDistributed, strays>>
  BY DEF MintTokens, MintInvestor, MintTo
<1> HIDE DEF g
<1>3. PICK i \in Nat : /\ investorMinted' = [investorMinted EXCEPT ![m] = i]
                       /\ Capped(m) => i = investorMinted[m] + amount /\ i <= InvestorAllocation
  <2>1. CASE Capped(m)
    <3>1. /\ investorMinted' = [investorMinted EXCEPT ![m] = investorMinted[m] + amount]
          /\ investorMinted[m] + amount <= InvestorAllocation
      BY <2>1 DEF MintTokens, MintInvestor
    <3>2. PICK i \in Nat : i = investorMinted[m] + amount
      BY ModelTypes
    <3> QED BY <3>1, <3>2
  <2>2. CASE ~Capped(m)
    <3>1. investorMinted' = investorMinted
      BY <2>2 DEF MintTokens, MintInvestor
    <3>2. PICK i \in Nat : i = investorMinted[m]
      BY ModelTypes
    <3> QED BY <2>2, <3>1, <3>2, ModelTypes
  <2> QED BY <2>1, <2>2
<1>4. PICK k \in Kinds, s \in Nat, r \in Nat :
        k = kind[m] /\ s = totalSupply[m] + amount /\ r = rewardMinted[m]
  BY ModelTypes
<1>5. Supplied(m)' = Supplied(m) /\ Supplied(m) \in Nat
  BY <1>2, TokenConstants DEF Supplied, TokenConstants
<1>6. Covered(k, s, i, r, Supplied(m)')
  <2>1. CASE k = "legacy"
    BY <2>1 DEF Covered
  <2>2. CASE k # "legacy"
    <3>1. Capped(m)
      BY <1>2, <1>4, <2>2, ModelTypes DEF Capped, HasToken, Kinds
    <3>2. /\ totalSupply[m] <= investorMinted[m] + rewardMinted[m] + Supplied(m)
          /\ \E p \in Policies : rewardMinted[m] <= RewardCap(p.tokensPerDeltaOne)
      BY <1>4, <2>2 DEF SupplyInv, Covered
    <3>3. s <= i + r + Supplied(m)
      BY <1>3, <1>4, <1>5, <3>1, <3>2, ModelTypes
    <3> QED BY <1>3, <1>4, <1>5, <3>1, <3>2, <3>3 DEF Covered
  <2> QED BY <2>1, <2>2
<1>7. SupplyInv'
  <2>1. /\ kind' = [kind EXCEPT ![m] = k] /\ totalSupply' = [totalSupply EXCEPT ![m] = s]
        /\ rewardMinted' = [rewardMinted EXCEPT ![m] = r] /\ s = SumOf(g, Holders)
    BY <1>1, <1>2, <1>4, ModelTypes
  <2>2. supplierDistributed' \in {supplierDistributed, supplierDistributed \union {m}}
        /\ policy' = policy
    BY <1>2
  <2> QED BY <1>1, <1>2, <1>3, <1>6, <2>1, <2>2, SupplyStep
<1>8. BooksInv'
  BY <1>1, <1>2, BooksKept
<1> QED BY <1>7, <1>8

\* A burn, whatever it takes from the counters, as long as the counters still
\* account for what is left.
LEMMA BurntTokens ==
  ASSUME SupplyInv, BooksInv, NEW m \in Models, NEW from \in Holders, NEW amount \in Nat,
         HasToken(m), BurnFrom(m, from, amount), Credited(m, from, -amount),
         NEW i \in Nat, investorMinted' = [investorMinted EXCEPT ![m] = i],
         NEW r \in Nat, rewardMinted' = [rewardMinted EXCEPT ![m] = r],
         Capped(m) => /\ i <= investorMinted[m] /\ r <= rewardMinted[m]
                      /\ investorMinted[m] + rewardMinted[m] <= i + r + amount,
         UNCHANGED <<kind, supplierDistributed, policy, schedules, now, totalReleased>>
  PROVE  SupplyInv' /\ BooksInv'
<1> DEFINE g == Debit(balances[m], from, amount)
<1>1. /\ amount <= balances[m][from] /\ balances' = [balances EXCEPT ![m] = g]
      /\ totalSupply' = [totalSupply EXCEPT ![m] = totalSupply[m] - amount]
  BY DEF BurnFrom
<1>2. /\ g \in Holdings /\ SumOf(g, Holders) = totalSupply[m] - amount
      /\ amount <= totalSupply[m]
      /\ g[from] = balances[m][from] - amount
      /\ \A x \in Holders \ {from} : g[x] = balances[m][x]
  <2>1. balances[m] \in Holdings /\ totalSupply[m] = SumOf(balances[m], Holders)
    BY ModelTypes
  <2> QED BY <1>1, <2>1, Debiting
<1> HIDE DEF g
<1>3. PICK k \in Kinds, s \in Nat : k = kind[m] /\ s = totalSupply[m] - amount
  <2>1. totalSupply[m] - amount \in Nat /\ kind[m] \in Kinds
    BY <1>2, ModelTypes
  <2> QED BY <2>1
<1>4. Supplied(m)' = Supplied(m) /\ Supplied(m) \in Nat
  BY TokenConstants DEF Supplied, TokenConstants
<1>5. Covered(k, s, i, r, Supplied(m)')
  <2>1. CASE k = "legacy"
    BY <2>1 DEF Covered
  <2>2. CASE k # "legacy"
    <3>1. Capped(m)
      BY <1>3, <2>2, ModelTypes DEF Capped, HasToken, Kinds
    <3>2. /\ totalSupply[m] <= investorMinted[m] + rewardMinted[m] + Supplied(m)
          /\ investorMinted[m] <= InvestorAllocation
          /\ \E p \in Policies : rewardMinted[m] <= RewardCap(p.tokensPerDeltaOne)
      BY <1>3, <2>2 DEF SupplyInv, Covered
    <3>3. s <= i + r + Supplied(m)
      BY <1>3, <1>4, <3>1, <3>2, ModelTypes
    <3>4. i <= InvestorAllocation
      BY <3>1, <3>2, ModelTypes, TokenConstants DEF TokenConstants
    <3>5. \E p \in Policies : r <= RewardCap(p.tokensPerDeltaOne)
      <4>1. PICK p \in Policies : rewardMinted[m] <= RewardCap(p.tokensPerDeltaOne)
        BY <3>2
      <4>2. RewardCap(p.tokensPerDeltaOne) \in Nat
        BY TokenConstants, ManagerConstants DEF TokenConstants, ManagerConstants, RewardCap
      <4>3. r <= RewardCap(p.tokensPerDeltaOne)
        BY <3>1, <4>1, <4>2, ModelTypes
      <4> QED BY <4>3
    <3> QED BY <1>4, <3>3, <3>4, <3>5 DEF Covered
  <2> QED BY <2>1, <2>2
<1>6. SupplyInv'
  <2>1. /\ kind' = [kind EXCEPT ![m] = k] /\ totalSupply' = [totalSupply EXCEPT ![m] = s]
        /\ s = SumOf(g, Holders)
    BY <1>1, <1>2, <1>3, ModelTypes
  <2>2. supplierDistributed' \in {supplierDistributed, supplierDistributed \union {m}}
        /\ policy' = policy
    OBVIOUS
  <2> QED BY <1>1, <1>2, <1>5, <2>1, <2>2, SupplyStep
<1>7. BooksInv'
  <2>1. PICK x \in Int, y \in Int, z \in Int :
          /\ x = IF from = Vault THEN strays[m] - amount ELSE strays[m]
          /\ y = totalReleased[m]
          /\ z = IF from = Escrow THEN credited[m] - amount ELSE credited[m]
    BY ModelTypes
  <2>2. strays' = [strays EXCEPT ![m] = x]
    BY <2>1, ModelTypes DEF BurnFrom
  <2>3. credited' = [credited EXCEPT ![m] = z]
    <3>1. CASE from = Escrow
      <4>1. credited' = [credited EXCEPT ![m] = credited[m] + -amount]
        BY <3>1 DEF Credited
      <4>2. credited[m] + -amount = z
        BY <2>1, <3>1, ModelTypes
      <4> QED BY <4>1, <4>2
    <3>2. CASE from # Escrow
      BY <2>1, <3>2, ModelTypes DEF Credited
    <3> QED BY <3>1, <3>2
  <2>4. totalReleased' = [totalReleased EXCEPT ![m] = y] /\ UNCHANGED <<now, schedules>>
    BY <2>1, ModelTypes
  <2>5. balances[m][Vault] \in Nat /\ balances[m][Escrow] \in Nat /\ balances[m][from] \in Nat
    BY ModelTypes, HoldersFinite
  <2>6. /\ g[Vault] - balances[m][Vault] = x - strays[m]
        /\ g[Escrow] - balances[m][Escrow] + y - totalReleased[m] = z - credited[m]
    <3>1. CASE from = Vault
      BY <1>2, <2>1, <2>5, <3>1, HoldersFinite, ModelTypes
    <3>2. CASE from = Escrow
      BY <1>2, <2>1, <2>5, <3>2, HoldersFinite, ModelTypes
    <3>3. CASE from \notin {Vault, Escrow}
      <4>1. g[Vault] = balances[m][Vault] /\ g[Escrow] = balances[m][Escrow]
        BY <1>2, <3>3, HoldersFinite
      <4>2. x = strays[m] /\ z = credited[m]
        BY <2>1, <3>3
      <4> QED BY <2>1, <2>5, <4>1, <4>2, ModelTypes
    <3> QED BY <3>1, <3>2, <3>3
  <2>7. /\ VaultFollows(g[Vault], balances[m][Vault], x, strays[m])
        /\ EscrowFollows(g[Escrow], balances[m][Escrow], y, totalReleased[m], z, credited[m])
    BY <2>6 DEF VaultFollows, EscrowFollows
  <2> QED BY <1>1, <1>2, <2>2, <2>3, <2>4, <2>7, BooksMoved
<1> QED BY <1>6, <1>7

\* The three burns.
LEMMA Burns ==
  ASSUME SupplyInv, BooksInv, NEW m \in Models, NEW from \in Holders, NEW amount \in Nat,
         \/ Burn(m, from, amount) \/ BurnInvestor(m, from, amount)
         \/ BurnAMMTokens(m, from, amount),
         Credited(m, from, -amount),
         UNCHANGED <<policy, schedules, now, totalReleased>>
  PROVE  SupplyInv' /\ BooksInv'
<1>1. HasToken(m) /\ BurnFrom(m, from, amount) /\ UNCHANGED <<kind, supplierDistributed>>
  BY DEF Burn, BurnInvestor, BurnAMMTokens, BurnAMM
<1> DEFINE Leaves(i, r) ==
             /\ investorMinted' = [investorMinted EXCEPT ![m] = i]
             /\ rewardMinted' = [rewardMinted EXCEPT ![m] = r]
             /\ Capped(m) => /\ i <= investorMinted[m] /\ r <= rewardMinted[m]
                             /\ investorMinted[m] + rewardMinted[m] <= i + r + amount
<1>2. \E i \in Nat, r \in Nat : Leaves(i, r)
  <2>0. investorMinted[m] \in Nat /\ rewardMinted[m] \in Nat
    BY ModelTypes
  <2>1. ASSUME UNCHANGED <<investorMinted, rewardMinted>>
        PROVE  \E i \in Nat, r \in Nat : Leaves(i, r)
    <3>1. PICK i \in Nat, r \in Nat : i = investorMinted[m] /\ r = rewardMinted[m]
      BY <2>0
    <3>2. /\ investorMinted' = [investorMinted EXCEPT ![m] = i]
          /\ rewardMinted' = [rewardMinted EXCEPT ![m] = r]
      BY <2>1, <3>1, ModelTypes
    <3>3. Leaves(i, r)
      BY <3>1, <3>2
    <3> HIDE DEF Leaves
    <3> QED BY <3>3
  <2>2. CASE Burn(m, from, amount)
    BY <2>1, <2>2 DEF Burn
  <2>3. CASE BurnInvestor(m, from, amount) /\ ~Capped(m)
    BY <2>1, <2>3 DEF BurnInvestor
  <2>4. CASE BurnInvestor(m, from, amount) /\ Capped(m)
    <3>1. /\ amount <= investorMinted[m] /\ rewardMinted' = rewardMinted
          /\ investorMinted' = [investorMinted EXCEPT ![m] = investorMinted[m] - amount]
      BY <2>4 DEF BurnInvestor
    <3>2. PICK i \in Nat, r \in Nat : i = investorMinted[m] - amount /\ r = rewardMinted[m]
      BY <2>0, <3>1
    <3>3. /\ investorMinted' = [investorMinted EXCEPT ![m] = i]
          /\ rewardMinted' = [rewardMinted EXCEPT ![m] = r]
      BY <3>1, <3>2, ModelTypes
    <3>4. /\ i <= investorMinted[m] /\ r <= rewardMinted[m]
          /\ investorMinted[m] + rewardMinted[m] <= i + r + amount
      BY <2>0, <3>1, <3>2
    <3>5. Leaves(i, r)
      BY <3>3, <3>4
    <3> HIDE DEF Leaves
    <3> QED BY <3>5
  <2>5. CASE BurnAMMTokens(m, from, amount) /\ ~Capped(m)
    BY <2>1, <2>5 DEF BurnAMMTokens, BurnAMM
  <2>6. CASE BurnAMMTokens(m, from, amount) /\ Capped(m)
    <3> DEFINE x == AMMBurnSplit(m, amount).investor
               y == AMMBurnSplit(m, amount).reward
    <3>1. /\ x \in Nat /\ y \in Nat /\ x <= investorMinted[m] /\ y <= rewardMinted[m]
          /\ x + y <= amount
      BY <2>0 DEF AMMBurnSplit, Lesser
    <3>2. /\ investorMinted' = [investorMinted EXCEPT ![m] = investorMinted[m] - x]
          /\ rewardMinted' = [rewardMinted EXCEPT ![m] = rewardMinted[m] - y]
      BY <2>6 DEF BurnAMMTokens, BurnAMM
    <3> HIDE DEF x, y
    <3>3. PICK i \in Nat, r \in Nat : i = investorMinted[m] - x /\ r = rewardMinted[m] - y
      BY <2>0, <3>1
    <3>4. /\ investorMinted' = [investorMinted EXCEPT ![m] = i]
          /\ rewardMinted' = [rewardMinted EXCEPT ![m] = r]
      BY <3>2, <3>3
    <3>5. Leaves(i, r)
      BY <2>0, <3>1, <3>3, <3>4
    <3> HIDE DEF Leaves
    <3> QED BY <3>5
  <2> QED BY <2>2, <2>3, <2>4, <2>5, <2>6
<1> QED BY <1>1, <1>2, BurntTokens

\* What one holder passes to another leaves the sum as it is.
LEMMA Passing ==
  ASSUME NEW f \in Holdings, NEW from \in Holders, NEW to \in Holders, from # to,
         NEW a \in Nat, a <= f[from]
  PROVE  /\ Credit(Debit(f, from, a), to, a) \in Holdings
         /\ SumOf(Credit(Debit(f, from, a), to, a), Holders) = SumOf(f, Holders)
         /\ Credit(Debit(f, from, a), to, a)[from] = f[from] - a
         /\ Credit(Debit(f, from, a), to, a)[to] = f[to] + a
         /\ \A x \in Holders \ {from, to} : Credit(Debit(f, from, a), to, a)[x] = f[x]
<1> DEFINE g == Debit(f, from, a)
<1>1. /\ g \in Holdings /\ SumOf(f, Holders) \in Nat
      /\ SumOf(g, Holders) = SumOf(f, Holders) - a
      /\ g[from] = f[from] - a /\ \A x \in Holders \ {from} : g[x] = f[x]
  BY Debiting
<1> HIDE DEF g
<1> DEFINE h == Credit(g, to, a)
<1>2. /\ h \in Holdings /\ SumOf(h, Holders) = SumOf(g, Holders) + a
      /\ h[to] = g[to] + a /\ \A x \in Holders \ {to} : h[x] = g[x]
  BY <1>1, Crediting
<1> HIDE DEF h
<1>3. SumOf(h, Holders) = SumOf(f, Holders)
  BY <1>1, <1>2
<1>4. h[from] = f[from] - a /\ h[to] = f[to] + a /\ \A x \in Holders \ {from, to} : h[x] = f[x]
  BY <1>1, <1>2
<1> QED BY <1>2, <1>3, <1>4 DEF h, g

\* A transfer from an account with a key.
LEMMA TransferredTokens ==
  ASSUME SupplyInv, BooksInv, NEW m \in Models, NEW from \in Users,
         NEW to \in Users \union {Vault, Escrow}, NEW amount \in Nat,
         Transfer(m, from, to, amount), Credited(m, to, amount),
         UNCHANGED <<policy, schedules, now, totalReleased>>
  PROVE  SupplyInv' /\ BooksInv'
<1> DEFINE g == Credit(Debit(balances[m], from, amount), to, amount)
<1>1. /\ from # to /\ amount <= balances[m][from] /\ balances' = [balances EXCEPT ![m] = g]
      /\ UNCHANGED <<kind, totalSupply, investorMinted, rewardMinted, supplierDistributed>>
  BY DEF Transfer
<1>2. /\ g \in Holdings /\ SumOf(g, Holders) = SumOf(balances[m], Holders)
      /\ g[to] = balances[m][to] + amount
      /\ \A x \in Holders \ {from, to} : g[x] = balances[m][x]
  <2>1. balances[m] \in Holdings /\ from \in Holders /\ to \in Holders
    BY ModelTypes, HoldersFinite
  <2> QED BY <1>1, <2>1, Passing
<1> HIDE DEF g
<1>3. SupplyInv'
  BY <1>1, <1>2, SupplyMoved
<1>4. balances[m][Vault] \in Nat /\ balances[m][Escrow] \in Nat
  BY ModelTypes, HoldersFinite
<1>5. CASE to \in Users
  <2>1. UNCHANGED <<strays, totalReleased, credited, now, schedules>>
    BY <1>5, HoldersFinite DEF Transfer, Credited
  <2>2. g[Vault] = balances[m][Vault] /\ g[Escrow] = balances[m][Escrow]
    BY <1>2, <1>5, HoldersFinite
  <2> QED BY <1>1, <1>2, <1>3, <2>1, <2>2, BooksKept
<1>6. CASE to \in {Vault, Escrow}
  <2>1. PICK x \in Int, y \in Int, z \in Int :
          /\ x = IF to = Vault THEN strays[m] + amount ELSE strays[m]
          /\ y = totalReleased[m]
          /\ z = IF to = Escrow THEN credited[m] + amount ELSE credited[m]
    BY ModelTypes
  <2>2. strays' = [strays EXCEPT ![m] = x]
    BY <2>1, ModelTypes DEF Transfer
  <2>3. credited' = [credited EXCEPT ![m] = z]
    BY <2>1, ModelTypes DEF Credited
  <2>4. totalReleased' = [totalReleased EXCEPT ![m] = y] /\ UNCHANGED <<now, schedules>>
    BY <2>1, ModelTypes
  <2>5. /\ g[Vault] = IF to = Vault THEN balances[m][Vault] + amount ELSE balances[m][Vault]
        /\ g[Escrow] = IF to = Escrow THEN balances[m][Escrow] + amount ELSE balances[m][Escrow]
    BY <1>2, <1>6, HoldersFinite
  <2>6. /\ g[Vault] - balances[m][Vault] = x - strays[m]
        /\ g[Escrow] - balances[m][Escrow] + y - totalReleased[m] = z - credited[m]
    BY <1>4, <2>1, <2>5, ModelTypes
  <2>7. /\ VaultFollows(g[Vault], balances[m][Vault], x, strays[m])
        /\ EscrowFollows(g[Escrow], balances[m][Escrow], y, totalReleased[m], z, credited[m])
    BY <2>6 DEF VaultFollows, EscrowFollows
  <2> QED BY <1>1, <1>2, <1>3, <2>2, <2>3, <2>4, <2>7, BooksMoved
<1> QED BY <1>5, <1>6

\* A release out of the escrow.
LEMMA ReleasedTokens ==
  ASSUME SupplyInv, BooksInv, NEW m \in Models, NEW a \in Users, NEW b \in Users,
         NEW x \in Nat, NEW y \in Nat, Release(m, Share(a, x), Share(b, y)), policy' = policy
  PROVE  SupplyInv' /\ BooksInv'
<1> DEFINE f == balances[m]
           f1 == Debit(f, Escrow, x + y)
           f2 == Credit(f1, a, x)
           g == Credit(f2, b, y)
<1>1. /\ x + y <= f[Escrow] /\ balances' = [balances EXCEPT ![m] = g]
      /\ totalReleased' = [totalReleased EXCEPT ![m] = totalReleased[m] + x + y]
      /\ UNCHANGED <<tokenRest, schedules, now, credited>>
  BY DEF Release, Share
<1>2. f \in Holdings /\ SumOf(f, Holders) = totalSupply[m] /\ f[Escrow] \in Nat /\ f[Vault] \in Nat
  BY ModelTypes, HoldersFinite
<1>3. a \in Holders \ {Vault, Escrow} /\ b \in Holders \ {Vault, Escrow} /\ x + y \in Nat
  BY HoldersFinite
<1> HIDE DEF f
<1>4. /\ f1 \in Holdings /\ SumOf(f, Holders) \in Nat
      /\ SumOf(f1, Holders) = SumOf(f, Holders) - (x + y)
      /\ f1[Escrow] = f[Escrow] - (x + y) /\ f1[Vault] = f[Vault]
  BY <1>1, <1>2, <1>3, HoldersFinite, Debiting
<1> HIDE DEF f1
<1>5. /\ f2 \in Holdings /\ SumOf(f2, Holders) = SumOf(f1, Holders) + x
      /\ f2[Escrow] = f1[Escrow] /\ f2[Vault] = f1[Vault]
  BY <1>3, <1>4, HoldersFinite, Crediting
<1> HIDE DEF f2
<1>6. /\ g \in Holdings /\ SumOf(g, Holders) = SumOf(f2, Holders) + y
      /\ g[Escrow] = f2[Escrow] /\ g[Vault] = f2[Vault]
  BY <1>3, <1>5, HoldersFinite, Crediting
<1> HIDE DEF g
<1>7. SumOf(g, Holders) = SumOf(f, Holders)
  BY <1>4, <1>5, <1>6
<1>8. SupplyInv'
  <2>1. UNCHANGED <<kind, totalSupply, investorMinted, rewardMinted, supplierDistributed, policy>>
    BY <1>1 DEF tokenRest
  <2> QED BY <1>1, <1>6, <1>7, <2>1, SupplyMoved DEF f
<1>9. BooksInv'
  <2>1. PICK u \in Int, v \in Int, w \in Int :
          u = strays[m] /\ v = totalReleased[m] + x + y /\ w = credited[m]
    BY ModelTypes
  <2>2. strays' = [strays EXCEPT ![m] = u] /\ credited' = [credited EXCEPT ![m] = w]
    BY <1>1, <2>1, ModelTypes DEF tokenRest
  <2>3. totalReleased' = [totalReleased EXCEPT ![m] = v] /\ UNCHANGED <<now, schedules>>
    BY <1>1, <2>1
  <2>4. /\ g[Vault] - f[Vault] = u - strays[m]
        /\ g[Escrow] - f[Escrow] + v - totalReleased[m] = w - credited[m]
    BY <1>2, <1>3, <1>4, <1>5, <1>6, <2>1, ModelTypes
  <2>5. /\ VaultFollows(g[Vault], balances[m][Vault], u, strays[m])
        /\ EscrowFollows(g[Escrow], balances[m][Escrow], v, totalReleased[m], w, credited[m])
    BY <2>4 DEF f, VaultFollows, EscrowFollows
  <2> QED BY <1>1, <1>6, <2>2, <2>3, <2>5, BooksMoved DEF f
<1> QED BY <1>8, <1>9

\* A rescue out of the escrow.
LEMMA RescuedTokens ==
  ASSUME SupplyInv, BooksInv, NEW m \in Models, NEW to \in Users, NEW amount \in Nat,
         Rescue(m, to, amount), policy' = policy
  PROVE  SupplyInv' /\ BooksInv'
<1> DEFINE g == Credit(Debit(balances[m], Escrow, amount), to, amount)
<1>1. /\ amount <= balances[m][Escrow] /\ balances' = [balances EXCEPT ![m] = g]
      /\ credited' = [credited EXCEPT ![m] = credited[m] - amount]
      /\ UNCHANGED <<tokenRest, schedules, now, totalReleased>>
  BY DEF Rescue
<1>2. /\ g \in Holdings /\ SumOf(g, Holders) = SumOf(balances[m], Holders)
      /\ g[Escrow] = balances[m][Escrow] - amount /\ g[Vault] = balances[m][Vault]
  <2>1. balances[m] \in Holdings /\ to \in Holders /\ to # Escrow /\ to # Vault
    BY ModelTypes, HoldersFinite
  <2> QED BY <1>1, <2>1, HoldersFinite, Passing
<1> HIDE DEF g
<1>3. SupplyInv'
  BY <1>1, <1>2, SupplyMoved DEF tokenRest
<1>4. BooksInv'
  <2>1. PICK x \in Int, y \in Int, z \in Int :
          x = strays[m] /\ y = totalReleased[m] /\ z = credited[m] - amount
    BY ModelTypes
  <2>2. strays' = [strays EXCEPT ![m] = x] /\ credited' = [credited EXCEPT ![m] = z]
    BY <1>1, <2>1, ModelTypes DEF tokenRest
  <2>3. totalReleased' = [totalReleased EXCEPT ![m] = y] /\ UNCHANGED <<now, schedules>>
    BY <1>1, <2>1, ModelTypes
  <2>4. balances[m][Vault] \in Nat /\ balances[m][Escrow] \in Nat
    BY ModelTypes, HoldersFinite
  <2>5. /\ g[Vault] - balances[m][Vault] = x - strays[m]
        /\ g[Escrow] - balances[m][Escrow] + y - totalReleased[m] = z - credited[m]
    BY <1>2, <2>1, <2>4, ModelTypes
  <2>6. /\ VaultFollows(g[Vault], balances[m][Vault], x, strays[m])
        /\ EscrowFollows(g[Escrow], balances[m][Escrow], y, totalReleased[m], z, credited[m])
    BY <2>5 DEF VaultFollows, EscrowFollows
  <2> QED BY <1>1, <1>2, <2>2, <2>3, <2>6, BooksMoved
<1> QED BY <1>3, <1>4

\* A token's constructor.
LEMMA ConstructedTokens ==
  ASSUME SupplyInv, BooksInv, NEW m \in Models, NEW type \in {"legacy", "capped"},
         Construct(m, type), UNCHANGED <<policy, schedules, now, totalReleased, credited>>
  PROVE  SupplyInv' /\ BooksInv'
<1>1. kind[m] # "legacy" /\ kind' = [kind EXCEPT ![m] = type] /\ type \in Kinds
      /\ UNCHANGED <<investorMinted, rewardMinted, supplierDistributed, strays>>
  BY DEF Construct, HasToken, Kinds
<1>2. PICK i \in Nat, r \in Nat : i = investorMinted[m] /\ r = rewardMinted[m]
  BY ModelTypes
<1>3. /\ investorMinted' = [investorMinted EXCEPT ![m] = i]
      /\ rewardMinted' = [rewardMinted EXCEPT ![m] = r] /\ policy' = policy
      /\ supplierDistributed' \in {supplierDistributed, supplierDistributed \union {m}}
      /\ Supplied(m)' = Supplied(m)
  BY <1>1, <1>2, ModelTypes DEF Supplied
<1>4. PICK g \in Holdings, s \in Nat :
        /\ balances' = [balances EXCEPT ![m] = g]
        /\ totalSupply' = [totalSupply EXCEPT ![m] = s]
        /\ s = SumOf(g, Holders)
        /\ g[Vault] = balances[m][Vault] /\ g[Escrow] = balances[m][Escrow]
        /\ type # "legacy" => s = totalSupply[m]
  <2>1. CASE type = "legacy"
    <3> DEFINE g == Credit(balances[m], Manager, InitialSupply)
    <3>1. /\ balances' = [balances EXCEPT ![m] = g]
          /\ totalSupply' = [totalSupply EXCEPT ![m] = totalSupply[m] + InitialSupply]
      BY <2>1 DEF Construct, MintTo
    <3>2. balances[m] \in Holdings /\ totalSupply[m] = SumOf(balances[m], Holders)
          /\ totalSupply[m] \in Nat /\ InitialSupply \in Nat
      BY ModelTypes, TokenConstants DEF TokenConstants
    <3>3. /\ g \in Holdings /\ SumOf(g, Holders) = totalSupply[m] + InitialSupply
          /\ g[Vault] = balances[m][Vault] /\ g[Escrow] = balances[m][Escrow]
      <4>1. Manager \in Holders /\ Vault \in Holders \ {Manager} /\ Escrow \in Holders \ {Manager}
        BY HoldersFinite
      <4>2. /\ g \in Holdings /\ SumOf(g, Holders) = SumOf(balances[m], Holders) + InitialSupply
            /\ \A x \in Holders \ {Manager} : g[x] = balances[m][x]
        BY <3>2, <4>1, Crediting, ZenonT(30)
      <4> HIDE DEF g
      <4> QED BY <3>2, <4>1, <4>2
    <3> HIDE DEF g
    <3>4. PICK s \in Nat : s = totalSupply[m] + InitialSupply
      BY <3>2, TokenConstants DEF TokenConstants
    <3> QED BY <2>1, <3>1, <3>3, <3>4
  <2>2. CASE type = "capped"
    <3>1. UNCHANGED <<balances, totalSupply>>
      BY <2>2 DEF Construct
    <3>2. PICK g \in Holdings, s \in Nat : g = balances[m] /\ s = totalSupply[m]
      BY ModelTypes
    <3> QED BY <3>1, <3>2, ModelTypes
  <2> QED BY <2>1, <2>2
<1>5. Covered(type, s, i, r, Supplied(m)')
  <2>1. Covered(kind[m], totalSupply[m], investorMinted[m], rewardMinted[m], Supplied(m))
    BY DEF SupplyInv
  <2> QED BY <1>1, <1>2, <1>3, <1>4, <2>1 DEF Covered
<1>6. SupplyInv'
  <2>1. type \in Kinds /\ kind' = [kind EXCEPT ![m] = type]
    BY <1>1
  <2> QED BY <1>3, <1>4, <1>5, <2>1, SupplyStep
<1>7. BooksInv'
  BY <1>1, <1>4, BooksKept
<1> QED BY <1>6, <1>7

\* Time passes.
LEMMA Ticked ==
  ASSUME SupplyInv, BooksInv, Tick, UNCHANGED <<policy, totalReleased, credited>>
  PROVE  SupplyInv' /\ BooksInv'
<1>1. now' = now + 1 /\ now \in Nat
  BY DEF Tick, BooksInv
<1>2. /\ UNCHANGED <<kind, balances, totalSupply, investorMinted, rewardMinted>>
      /\ UNCHANGED <<supplierDistributed, strays, schedules>>
  BY DEF Tick, token
<1>3. SoundSchedules(schedules, now')
  <2>1. schedules \in Seq(Schedules)
    BY DEF BooksInv, SoundSchedules
  <2>2. ASSUME NEW i \in DOMAIN schedules
        PROVE  schedules[i].claimed <= VestedAmount(schedules[i], now')
    <3>1. PICK s \in Schedules : s = schedules[i]
      BY <2>1
    <3>2. s.claimed \in Nat /\ s.claimed <= VestedAmount(s, now)
      BY <3>1 DEF BooksInv, SoundSchedules, Schedules
    <3>3. PICK t \in Nat : t = now'
      BY <1>1
    <3>4. /\ VestedAmount(s, now) \in Nat /\ VestedAmount(s, now) <= VestedAmount(s, t)
          /\ VestedAmount(s, t) \in Nat
      BY <1>1, <3>3, Vesting
    <3>5. s.claimed <= VestedAmount(s, t)
      BY <3>2, <3>4
    <3> QED BY <3>1, <3>3, <3>5
  <2> QED BY <2>1, <2>2 DEF SoundSchedules
<1>4. SupplyInv'
  BY <1>2 DEF SupplyInv, Supplied
<1>5. BooksInv'
  <2>1. now' \in Nat
    BY <1>1
  <2>2. \A m \in Models :
          /\ balances'[m][Vault] = Due(schedules', m, Holders) + strays'[m]
          /\ balances'[m][Escrow] + Due(schedules', m, {Escrow}) + totalReleased'[m]
               = credited'[m]
    BY <1>2 DEF BooksInv
  <2>3. /\ balances' \in [Models -> Holdings] /\ strays' \in [Models -> Int]
        /\ totalReleased' \in [Models -> Int] /\ credited' \in [Models -> Int]
    BY <1>2 DEF BooksInv
  <2>4. SoundSchedules(schedules', now')
    BY <1>2, <1>3
  <2> QED BY <2>1, <2>2, <2>3, <2>4 DEF BooksInv
<1> QED BY <1>4, <1>5

-----------------------------------------------------------------------------
(* Schedules that open and pay.                                            *)

\* From q to r, the schedules of m's token owe d more to the holders in B, and
\* those of the other tokens what they owed.
Adds(q, r, m, B, d) ==
  \A n \in Models : Due(q, n, B) \in Nat /\ Due(r, n, B) = Due(q, n, B) + (IF n = m THEN d ELSE 0)

\* Two such changes in a row.
LEMMA AddsTwice ==
  ASSUME NEW q, NEW r, NEW s, NEW m, NEW B, NEW d \in Int, NEW e \in Int,
         Adds(q, r, m, B, d), Adds(r, s, m, B, e)
  PROVE  Adds(q, s, m, B, d + e)
<1>1. ASSUME NEW n \in Models
      PROVE  /\ Due(q, n, B) \in Nat
             /\ Due(s, n, B) = Due(q, n, B) + (IF n = m THEN d + e ELSE 0)
  <2>1. /\ Due(q, n, B) \in Nat /\ Due(r, n, B) = Due(q, n, B) + (IF n = m THEN d ELSE 0)
        /\ Due(s, n, B) = Due(r, n, B) + (IF n = m THEN e ELSE 0)
    BY DEF Adds
  <2>2. CASE n = m
    BY <2>1, <2>2
  <2>3. CASE n # m
    BY <2>1, <2>3
  <2> QED BY <2>2, <2>3
<1> QED BY <1>1 DEF Adds

\* A claim pays what has vested and has not been paid.
LEMMA ClaimAdds ==
  ASSUME NEW t \in Nat, NEW q, SoundSchedules(q, t), NEW i \in DOMAIN q,
         NEW c, c = VestedAmount(q[i], t), NEW r, Claims(q, r, i, c), NEW B
  PROVE  /\ SoundSchedules(r, t)
         /\ c \in Nat /\ q[i].claimed \in Nat /\ q[i].claimed <= c
         /\ Adds(q, r, q[i].token, B, IF q[i].beneficiary \in B THEN q[i].claimed - c ELSE 0)
<1>1. q \in Seq(Schedules) /\ Sound(q)
  BY SoundHere DEF SoundSchedules
<1>2. PICK s \in Schedules : s = q[i]
  BY <1>1
<1>3. c \in Nat /\ c <= s.totalAmount
  BY <1>2, Vesting
<1>4. s.claimed \in Nat /\ s.claimed <= c
  BY <1>2 DEF SoundSchedules, Schedules
<1>5. r \in Seq(Schedules) /\ Sound(r)
  BY <1>1, <1>2, <1>3, DueClaimed
<1>6. SoundSchedules(r, t)
  <2>1. /\ DOMAIN r = DOMAIN q /\ \A j \in DOMAIN q \ {i} : r[j] = q[j]
        /\ r[i] = [q[i] EXCEPT !.claimed = c]
    BY <1>1 DEF Claims
  <2>2. ASSUME NEW j \in DOMAIN q PROVE r[j].claimed <= VestedAmount(r[j], t)
    <3>1. CASE j # i
      <4>1. r[j] = q[j]
        BY <2>1, <3>1
      <4> QED BY <4>1 DEF SoundSchedules
    <3>2. CASE j = i
      <4>1. /\ r[j].claimed = c /\ r[j].start = s.start /\ r[j].cliff = s.cliff
            /\ r[j].duration = s.duration /\ r[j].totalAmount = s.totalAmount
        BY <1>2, <2>1, <3>2 DEF Schedules
      <4>2. VestedAmount(r[j], t) = VestedAmount(s, t)
        BY <4>1 DEF VestedAmount
      <4> QED BY <1>2, <1>3, <4>1, <4>2
    <3> QED BY <3>1, <3>2
  <2> QED BY <1>5, <2>1, <2>2 DEF SoundSchedules
<1>7. ASSUME NEW n \in Models
      PROVE  /\ Due(q, n, B) \in Nat
             /\ Due(r, n, B) = Due(q, n, B)
                  + (IF n = s.token
                     THEN IF s.beneficiary \in B THEN s.claimed - c ELSE 0 ELSE 0)
  <2>1. /\ Due(q, n, B) \in Nat
        /\ Due(r, n, B)
             = Due(q, n, B) - (IF s.token = n /\ s.beneficiary \in B THEN c - s.claimed ELSE 0)
    <3>1. c <= q[i].totalAmount
      BY <1>2, <1>3
    <3>2. /\ Due(r, n, B) = Due(q, n, B) - PaidOf(q[i], c, n, B)
          /\ Due(q, n, B) \in Nat
      BY <1>1, <1>3, <3>1, DueClaimed
    <3> QED BY <1>2, <3>2 DEF PaidOf
  <2>2. CASE n = s.token /\ s.beneficiary \in B
    BY <1>3, <1>4, <2>1, <2>2
  <2>3. CASE n = s.token /\ s.beneficiary \notin B
    BY <2>1, <2>3
  <2>4. CASE n # s.token
    BY <2>1, <2>4
  <2> QED BY <2>2, <2>3, <2>4
<1>8. Adds(q, r, s.token, B, IF s.beneficiary \in B THEN s.claimed - c ELSE 0)
  BY <1>7 DEF Adds
<1> QED BY <1>2, <1>3, <1>4, <1>6, <1>8

\* A new schedule s, if there is a total to vest.
Opens(o, s, m, to, total) ==
  /\ o = IF total > 0 THEN <<s>> ELSE <<>>
  /\ total > 0 => s \in Schedules
  /\ s.token = m /\ s.beneficiary = to /\ s.totalAmount = total /\ s.claimed = 0

\* It owes its total.
LEMMA OpeningAdds ==
  ASSUME NEW t \in Nat, NEW q, SoundSchedules(q, t),
         NEW total \in Nat, NEW m, NEW to, NEW s, NEW o, Opens(o, s, m, to, total), NEW B
  PROVE  /\ SoundSchedules(q \o o, t)
         /\ Adds(q, q \o o, m, B, IF to \in B THEN total ELSE 0)
<1>1. q \in Seq(Schedules) /\ Sound(q)
  BY SoundHere DEF SoundSchedules
<1>2. CASE total = 0
  <2>1. q \o o = q
    BY <1>1, <1>2 DEF Opens
  <2>2. \A n \in Models : Due(q, n, B) \in Nat
    <3>1. ASSUME NEW n \in Models PROVE Due(q, n, B) \in Nat
      <4> DEFINE f == [i \in DOMAIN q |-> Part(q[i], n, B)]
      <4>1. IsFiniteSet(DOMAIN q)
        BY SoundHere
      <4>2. \A i \in DOMAIN q : Part(q[i], n, B) \in Nat
        BY <1>1, DueOverAll
      <4>3. Due(q, n, B) = SumOf(f, DOMAIN q)
        BY <1>1, DueOverAll
      <4>4. \A i \in DOMAIN q : f[i] \in Nat
        BY <4>2
      <4> HIDE DEF f
      <4> QED BY <4>1, <4>3, <4>4, SumType
    <3> QED BY <3>1
  <2>3. (IF to \in B THEN total ELSE 0) = 0
    BY <1>2
  <2> DEFINE d == IF to \in B THEN total ELSE 0
  <2> HIDE DEF d
  <2>4. \A n \in Models : Due(q, n, B) = Due(q, n, B) + (IF n = m THEN d ELSE 0)
    BY <2>2, <2>3 DEF d
  <2>5. Adds(q, q, m, B, d)
    BY <2>2, <2>4 DEF Adds
  <2> QED BY <2>1, <2>5 DEF d
<1>3. CASE total > 0
  <2>0. /\ s \in Schedules /\ o = <<s>>
        /\ s.token = m /\ s.beneficiary = to /\ s.totalAmount = total /\ s.claimed = 0
    BY <1>3 DEF Opens
  <2>1. q \o o = Append(q, s)
    <3>1. q \o <<s>> = Append(q, s)
      BY <1>1, <2>0
    <3> QED BY <2>0, <3>1
  <2>2. ASSUME NEW n \in Models
        PROVE  /\ Due(q, n, B) \in Nat
               /\ Due(Append(q, s), n, B)
                    = Due(q, n, B) + (IF n = m THEN IF to \in B THEN total ELSE 0 ELSE 0)
    <3>1. /\ Due(q, n, B) \in Nat
          /\ Due(Append(q, s), n, B) = Due(q, n, B) + Part(s, n, B)
      BY <1>1, <2>0, DueOpened
    <3>2. Part(s, n, B) = IF n = m THEN IF to \in B THEN total ELSE 0 ELSE 0
      BY <2>0 DEF Part
    <3> QED BY <3>1, <3>2
  <2>3. Adds(q, Append(q, s), m, B, IF to \in B THEN total ELSE 0)
    BY <2>2 DEF Adds
  <2>4. SoundSchedules(Append(q, s), t)
    <3>1. Append(q, s) \in Seq(Schedules)
      BY <1>1, <2>0
    <3>2. 0 <= VestedAmount(s, t)
      <4>1. VestedAmount(s, t) \in Nat
        BY <2>0, Vesting
      <4> QED BY <4>1
    <3>3. ASSUME NEW i \in DOMAIN Append(q, s)
          PROVE  Append(q, s)[i].claimed <= VestedAmount(Append(q, s)[i], t)
      <4>1. CASE i \in DOMAIN q
        <5>1. Append(q, s)[i] = q[i]
          BY <1>1, <4>1
        <5> QED BY <4>1, <5>1 DEF SoundSchedules
      <4>2. CASE i \notin DOMAIN q
        <5>1. Append(q, s)[i] = s
          BY <1>1, <4>2
        <5> QED BY <2>0, <3>2, <5>1
      <4> QED BY <4>1, <4>2
    <3> QED BY <3>1, <3>3 DEF SoundSchedules
  <2> QED BY <2>1, <2>3, <2>4
<1> QED BY <1>2, <1>3

\* A step that changes the schedules of one model's token.
LEMMA BooksScheduled ==
  ASSUME BooksInv, NEW m \in Models,
         NEW g \in Holdings, balances' = [balances EXCEPT ![m] = g],
         NEW given \in Int, credited' = [credited EXCEPT ![m] = given],
         UNCHANGED <<now, strays, totalReleased>>, SoundSchedules(schedules', now),
         NEW dv \in Int, Adds(schedules, schedules', m, Holders, dv),
         NEW de \in Int, Adds(schedules, schedules', m, {Escrow}, de),
         VaultFollows(g[Vault], balances[m][Vault], dv, 0),
         EscrowFollows(g[Escrow], balances[m][Escrow], de, 0, given, credited[m])
  PROVE  BooksInv'
<1>1. \A n \in Models \ {m} :
        /\ Due(schedules', n, Holders) = Due(schedules, n, Holders)
        /\ Due(schedules', n, {Escrow}) = Due(schedules, n, {Escrow})
  BY DEF Adds
<1>2. /\ Due(schedules', m, Holders) = Due(schedules, m, Holders) + dv
      /\ Due(schedules', m, {Escrow}) = Due(schedules, m, {Escrow}) + de
  BY DEF Adds
<1>3. Due(schedules, m, Holders) \in Nat /\ Due(schedules, m, {Escrow}) \in Nat
  BY DueType
<1>4. g[Vault] \in Nat /\ g[Escrow] \in Nat /\ balances[m][Vault] \in Nat
      /\ balances[m][Escrow] \in Nat
  BY HoldersFinite DEF BooksInv, Holdings
<1>5. g[Vault] - balances[m][Vault] = dv /\ g[Escrow] - balances[m][Escrow] + de = given - credited[m]
  BY <1>4 DEF VaultFollows, EscrowFollows
<1>6. PICK x \in Int, y \in Int : x = strays[m] /\ y = totalReleased[m]
  BY DEF BooksInv
<1>7. strays' = [strays EXCEPT ![m] = x] /\ totalReleased' = [totalReleased EXCEPT ![m] = y]
  BY <1>6 DEF BooksInv
<1>8. /\ balances[m][Vault] = Due(schedules, m, Holders) + x
      /\ balances[m][Escrow] + Due(schedules, m, {Escrow}) + y = credited[m]
      /\ credited[m] \in Int
  BY <1>6 DEF BooksInv
<1>9. g[Vault] = Due(schedules', m, Holders) + x
      /\ g[Escrow] + Due(schedules', m, {Escrow}) + y = given
  <2>1. ASSUME NEW gv \in Nat, NEW v \in Nat, NEW d \in Nat, gv - v = dv, v = d + x
        PROVE  gv = d + dv + x
    BY <2>1
  <2>2. ASSUME NEW ge \in Nat, NEW e \in Nat, NEW d \in Nat, NEW c \in Int,
               ge - e + de = given - c, e + d + y = c
        PROVE  ge + (d + de) + y = given
    BY <2>2
  <2>3. g[Vault] = Due(schedules, m, Holders) + dv + x
    BY <1>3, <1>4, <1>5, <1>8, <2>1
  <2>4. g[Escrow] + (Due(schedules, m, {Escrow}) + de) + y = given
    BY <1>3, <1>4, <1>5, <1>8, <2>2, ZenonT(30)
  <2> QED BY <1>2, <2>3, <2>4
<1>10. now' = now
  OBVIOUS
<1> QED BY <1>1, <1>7, <1>9, <1>10, BooksStep

\* A claim by a schedule's beneficiary.
LEMMA ClaimedTokens ==
  ASSUME SupplyInv, BooksInv, NEW i \in DOMAIN schedules,
         schedules[i].beneficiary \in Users \union {Supplier, Escrow},
         Claim(i), UNCHANGED <<policy, totalReleased, credited>>
  PROVE  SupplyInv' /\ BooksInv'
<1>1. SoundSchedules(schedules, now) /\ now \in Nat
  BY DEF BooksInv
<1>2. PICK s \in Schedules : s = schedules[i]
  BY <1>1 DEF SoundSchedules
<1>3. PICK m \in Models, b \in Holders, c \in Nat :
        m = s.token /\ b = s.beneficiary /\ c = VestedAmount(s, now)
  BY <1>1, <1>2, Vesting DEF Schedules
<1> DEFINE p == c - s.claimed
           g == Credit(Debit(balances[m], Vault, p), b, p)
<1>4. /\ p <= balances[m][Vault] /\ balances' = [balances EXCEPT ![m] = g]
      /\ Claims(schedules, schedules', i, c)
      /\ UNCHANGED <<kind, totalSupply, investorMinted, rewardMinted, supplierDistributed>>
      /\ UNCHANGED <<strays, now>>
  BY <1>2, <1>3 DEF Claim, Claimable, Claims
<1>5. /\ SoundSchedules(schedules', now) /\ p \in Nat /\ s.claimed \in Nat
      /\ Adds(schedules, schedules', m, Holders, IF b \in Holders THEN s.claimed - c ELSE 0)
      /\ Adds(schedules, schedules', m, {Escrow}, IF b \in {Escrow} THEN s.claimed - c ELSE 0)
  <2>1. /\ SoundSchedules(schedules', now) /\ s.claimed \in Nat /\ s.claimed <= c
        /\ Adds(schedules, schedules', m, Holders, IF b \in Holders THEN s.claimed - c ELSE 0)
    BY <1>1, <1>2, <1>3, <1>4, ClaimAdds
  <2>2. Adds(schedules, schedules', m, {Escrow}, IF b \in {Escrow} THEN s.claimed - c ELSE 0)
    BY <1>1, <1>2, <1>3, <1>4, ClaimAdds
  <2> QED BY <2>1, <2>2
<1>6. b # Vault
  BY <1>2, <1>3, HoldersFinite
<1>7. /\ balances[m] \in Holdings /\ balances[m][Vault] \in Nat /\ balances[m][Escrow] \in Nat
  BY ModelTypes, HoldersFinite
<1> HIDE DEF p
<1>8. /\ g \in Holdings /\ SumOf(g, Holders) = SumOf(balances[m], Holders)
      /\ g[Vault] = balances[m][Vault] - p /\ g[b] = balances[m][b] + p
      /\ \A x \in Holders \ {Vault, b} : g[x] = balances[m][x]
  BY <1>4, <1>5, <1>6, <1>7, HoldersFinite, Passing
<1> HIDE DEF g
<1>9. SupplyInv'
  BY <1>4, <1>8, SupplyMoved
<1>10. BooksInv'
  <2>1. PICK z \in Int : z = credited[m] /\ credited' = [credited EXCEPT ![m] = z]
    BY ModelTypes
  <2>2. PICK dv \in Int, de \in Int : /\ dv = s.claimed - c
                                      /\ de = IF b = Escrow THEN s.claimed - c ELSE 0
    BY <1>5
  <2>3. Adds(schedules, schedules', m, Holders, dv) /\ Adds(schedules, schedules', m, {Escrow}, de)
    BY <1>5, <2>2
  <2>4. dv = -p /\ de = IF b = Escrow THEN -p ELSE 0
    BY <1>5, <2>2 DEF p
  <2>5. VaultFollows(g[Vault], balances[m][Vault], dv, 0)
    BY <1>5, <1>7, <1>8, <2>4 DEF VaultFollows
  <2>6. EscrowFollows(g[Escrow], balances[m][Escrow], de, 0, z, credited[m])
    <3>1. g[Escrow] = IF b = Escrow THEN balances[m][Escrow] + p ELSE balances[m][Escrow]
      BY <1>8, HoldersFinite
    <3> QED BY <1>5, <1>7, <2>1, <2>4, <3>1 DEF EscrowFollows
  <2>7. UNCHANGED <<now, strays, totalReleased>>
    BY <1>4
  <2> QED BY <1>4, <1>5, <1>8, <2>1, <2>3, <2>5, <2>6, <2>7, BooksScheduled
<1> QED BY <1>9, <1>10

\* A claim of two of the escrow's schedules at once.
LEMMA ClaimedBatch ==
  ASSUME SupplyInv, BooksInv, NEW i \in DOMAIN schedules, NEW j \in DOMAIN schedules,
         ClaimVestedBatch(i, j), policy' = policy
  PROVE  SupplyInv' /\ BooksInv'
<1>1. SoundSchedules(schedules, now) /\ now \in Nat /\ schedules \in Seq(Schedules)
  BY DEF BooksInv, SoundSchedules
<1>2. PICK s \in Schedules, t \in Schedules : s = schedules[i] /\ t = schedules[j]
  BY <1>1
<1>3. /\ i # j /\ s.beneficiary = Escrow /\ t.beneficiary = Escrow /\ t.token = s.token
  BY <1>2 DEF ClaimVestedBatch
<1>4. PICK m \in Models, c \in Nat, d \in Nat :
        m = s.token /\ c = VestedAmount(s, now) /\ d = VestedAmount(t, now)
  <2>1. VestedAmount(s, now) \in Nat
    BY <1>1, Vesting
  <2>2. VestedAmount(t, now) \in Nat
    BY <1>1, Vesting
  <2> QED BY <2>1, <2>2 DEF Schedules
<1> DEFINE p == (c - s.claimed) + (d - t.claimed)
           g == Credit(Debit(balances[m], Vault, p), Escrow, p)
<1>5. /\ p <= balances[m][Vault] /\ balances' = [balances EXCEPT ![m] = g]
      /\ UNCHANGED <<kind, totalSupply, investorMinted, rewardMinted, supplierDistributed>>
      /\ UNCHANGED <<strays, now, totalReleased, credited>>
  BY <1>2, <1>4 DEF ClaimVestedBatch, Claimable, tokenRest, escrow
<1>6. schedules' = [schedules EXCEPT ![i].claimed = c, ![j].claimed = d]
  BY <1>2, <1>4 DEF ClaimVestedBatch
<1>7. PICK q : q = [schedules EXCEPT ![i].claimed = c]
  OBVIOUS
<1>8. Claims(schedules, q, i, c) /\ Claims(q, schedules', j, d)
  BY <1>6, <1>7 DEF Claims
<1>9. DOMAIN q = DOMAIN schedules /\ q[j] = t
  BY <1>1, <1>2, <1>3, <1>7
<1> HIDE <1>6, <1>7
<1>10. /\ SoundSchedules(q, now) /\ s.claimed \in Nat /\ s.claimed <= c
       /\ Adds(schedules, q, m, Holders, IF Escrow \in Holders THEN s.claimed - c ELSE 0)
       /\ Adds(schedules, q, m, {Escrow}, IF Escrow \in {Escrow} THEN s.claimed - c ELSE 0)
  <2>1. /\ SoundSchedules(q, now) /\ s.claimed \in Nat /\ s.claimed <= c
        /\ Adds(schedules, q, m, Holders, IF Escrow \in Holders THEN s.claimed - c ELSE 0)
    BY <1>1, <1>2, <1>3, <1>4, <1>8, ClaimAdds
  <2>2. Adds(schedules, q, m, {Escrow}, IF Escrow \in {Escrow} THEN s.claimed - c ELSE 0)
    BY <1>1, <1>2, <1>3, <1>4, <1>8, ClaimAdds, ZenonT(30)
  <2> QED BY <2>1, <2>2
<1>11. /\ SoundSchedules(schedules', now) /\ t.claimed \in Nat /\ t.claimed <= d
       /\ Adds(q, schedules', m, Holders, IF Escrow \in Holders THEN t.claimed - d ELSE 0)
       /\ Adds(q, schedules', m, {Escrow}, IF Escrow \in {Escrow} THEN t.claimed - d ELSE 0)
  <2>0. j \in DOMAIN q /\ d = VestedAmount(q[j], now) /\ q[j] = t
    BY <1>4, <1>9
  <2>1. /\ SoundSchedules(schedules', now) /\ t.claimed \in Nat /\ t.claimed <= d
        /\ Adds(q, schedules', m, Holders, IF Escrow \in Holders THEN t.claimed - d ELSE 0)
    BY <1>1, <1>3, <1>4, <1>8, <1>10, <2>0, ClaimAdds
  <2>2. Adds(q, schedules', m, {Escrow}, IF Escrow \in {Escrow} THEN t.claimed - d ELSE 0)
    BY <1>1, <1>3, <1>4, <1>8, <1>10, <2>0, ClaimAdds
  <2> QED BY <2>1, <2>2
<1>12. PICK x \in Int, y \in Int : x = s.claimed - c /\ y = t.claimed - d
  BY <1>10, <1>11
<1>13. /\ Adds(schedules, schedules', m, Holders, x + y)
       /\ Adds(schedules, schedules', m, {Escrow}, x + y)
  <2>1. Adds(schedules, q, m, Holders, x) /\ Adds(q, schedules', m, Holders, y)
    BY <1>10, <1>11, <1>12, HoldersFinite
  <2>2. Adds(schedules, q, m, {Escrow}, x) /\ Adds(q, schedules', m, {Escrow}, y)
    BY <1>10, <1>11, <1>12
  <2>3. Adds(schedules, schedules', m, Holders, x + y)
    BY <2>1, AddsTwice
  <2>4. Adds(schedules, schedules', m, {Escrow}, x + y)
    BY <2>2, AddsTwice
  <2> QED BY <2>3, <2>4
<1>14. p \in Nat /\ x + y = -p
  BY <1>10, <1>11, <1>12
<1>15. /\ balances[m] \in Holdings /\ balances[m][Vault] \in Nat /\ balances[m][Escrow] \in Nat
  BY ModelTypes, HoldersFinite
<1> HIDE DEF p
<1>16. /\ g \in Holdings /\ SumOf(g, Holders) = SumOf(balances[m], Holders)
       /\ g[Vault] = balances[m][Vault] - p /\ g[Escrow] = balances[m][Escrow] + p
  BY <1>5, <1>14, <1>15, HoldersFinite, Passing
<1> HIDE DEF g
<1>17. SupplyInv'
  BY <1>5, <1>16, SupplyMoved
<1>18. BooksInv'
  <2>1. PICK z \in Int, w \in Int :
          z = credited[m] /\ credited' = [credited EXCEPT ![m] = z] /\ w = x + y
    BY <1>5, ModelTypes
  <2>2. Adds(schedules, schedules', m, Holders, w) /\ Adds(schedules, schedules', m, {Escrow}, w)
    BY <1>13, <2>1
  <2>3. /\ VaultFollows(g[Vault], balances[m][Vault], w, 0)
        /\ EscrowFollows(g[Escrow], balances[m][Escrow], w, 0, z, credited[m])
    BY <1>14, <1>15, <1>16, <2>1 DEF VaultFollows, EscrowFollows
  <2>4. UNCHANGED <<now, strays, totalReleased>>
    BY <1>5
  <2> QED BY <1>5, <1>11, <1>16, <2>1, <2>2, <2>3, <2>4, BooksScheduled
<1> QED BY <1>17, <1>18

\* An amount, if it is for one of the holders in B.
AmountFor(B, h, amount) == IF h \in B THEN amount ELSE 0

\* Up to two schedules open.
LEMMA CreatedSchedules ==
  ASSUME BooksInv, NEW m \in Models, NEW pol \in Policies, NEW a \in Holders, NEW b \in Holders,
         NEW x \in Nat, NEW y \in Nat,
         CreateSchedules(m, pol, [to |-> a, total |-> x], [to |-> b, total |-> y]), NEW B
  PROVE  /\ SoundSchedules(schedules', now)
         /\ Adds(schedules, schedules', m, B, AmountFor(B, a, x) + AmountFor(B, b, y))
<1> DEFINE s == Schedule(m, a, x, pol)
           t == Schedule(m, b, y, pol)
           o == IF x > 0 THEN <<s>> ELSE <<>>
           u == IF y > 0 THEN <<t>> ELSE <<>>
<1>1. /\ schedules' = (schedules \o o) \o u
      /\ x + y > 0 => pol.duration > 0
  BY DEF CreateSchedules
<1>2. pol.duration \in Nat /\ pol.cliff \in Nat
  BY ManagerConstants DEF ManagerConstants
<1>3. now \in Nat /\ SoundSchedules(schedules, now)
  BY DEF BooksInv
<1>4. /\ x > 0 => s \in Schedules
      /\ s.token = m /\ s.beneficiary = a /\ s.totalAmount = x /\ s.claimed = 0
  BY <1>1, <1>2, <1>3 DEF Schedule, Schedules
<1>5. /\ y > 0 => t \in Schedules
      /\ t.token = m /\ t.beneficiary = b /\ t.totalAmount = y /\ t.claimed = 0
  BY <1>1, <1>2, <1>3 DEF Schedule, Schedules
<1> HIDE DEF s, t
<1>6. Opens(o, s, m, a, x) /\ Opens(u, t, m, b, y)
  BY <1>4, <1>5 DEF Opens
<1> HIDE DEF o, u
<1>7. PICK q : q = schedules \o o
  OBVIOUS
<1>8. SoundSchedules(q, now) /\ Adds(schedules, q, m, B, IF a \in B THEN x ELSE 0)
  <2>1. /\ SoundSchedules(schedules \o o, now)
        /\ Adds(schedules, schedules \o o, m, B, IF a \in B THEN x ELSE 0)
    BY <1>3, <1>6, OpeningAdds
  <2> QED BY <1>7, <2>1
<1>9. SoundSchedules(q \o u, now) /\ Adds(q, q \o u, m, B, IF b \in B THEN y ELSE 0)
  BY <1>3, <1>6, <1>8, OpeningAdds
<1>10. PICK d \in Int, e \in Int :
         d = (IF a \in B THEN x ELSE 0) /\ e = (IF b \in B THEN y ELSE 0)
  OBVIOUS
<1>11. Adds(schedules, q, m, B, d) /\ Adds(q, q \o u, m, B, e)
  BY <1>8, <1>9, <1>10
<1>12. Adds(schedules, q \o u, m, B, d + e)
  BY <1>11, AddsTwice
<1>13. schedules' = q \o u
  BY <1>1, <1>7
<1> QED BY <1>9, <1>10, <1>12, <1>13 DEF AmountFor

-----------------------------------------------------------------------------
(* Rewards and the supplier's allocation.                                  *)

\* A policy divides an amount without a remainder.
LEMMA PartsAddUp ==
  ASSUME SupplyInv, NEW m \in Models, NEW amount \in Nat
  PROVE  /\ Parts(m, amount).immediate \in Nat /\ Parts(m, amount).vested \in Nat
         /\ Parts(m, amount).immediate + Parts(m, amount).vested = amount
<1>1. PICK bps \in Nat : bps = policy[m].immediateUnlockBps /\ bps <= 10000
  <2>1. policy[m] \in Policies
    BY DEF SupplyInv
  <2> QED BY <2>1, ManagerConstants DEF ManagerConstants
<1> DEFINE w == amount * bps
<1>2. w \in Nat /\ w <= amount * 10000
  BY <1>1
<1>3. w \div 10000 \in Nat /\ w \div 10000 <= amount
  <2> HIDE DEF w
  <2> QED BY <1>2
<1>4. PICK q \in Nat : q = w \div 10000 /\ q <= amount
  BY <1>3
<1>5. CASE policy[m].enabled
  <2>1. Parts(m, amount) = [immediate |-> q, vested |-> amount - q]
    BY <1>1, <1>4, <1>5 DEF Parts, Split
  <2> QED BY <1>4, <2>1
<1>6. CASE ~policy[m].enabled
  BY <1>6 DEF Parts
<1> QED BY <1>5, <1>6

\* A share goes to its recipient and to the vault.
LEMMA Paying ==
  ASSUME SupplyInv, NEW m \in Models, NEW f \in Holdings, NEW to \in Users \union {Escrow},
         NEW amount \in Nat
  PROVE  /\ Pay(m, f, Share(to, amount)) \in Holdings
         /\ SumOf(Pay(m, f, Share(to, amount)), Holders) = SumOf(f, Holders) + amount
         /\ Pay(m, f, Share(to, amount))[Vault] = f[Vault] + Parts(m, amount).vested
         /\ Pay(m, f, Share(to, amount))[Escrow]
              = f[Escrow] + AmountFor({Escrow}, to, Parts(m, amount).immediate)
<1>1. PICK i \in Nat, v \in Nat :
        i = Parts(m, amount).immediate /\ v = Parts(m, amount).vested /\ i + v = amount
  BY PartsAddUp
<1>2. to \in Holders /\ to # Vault
  BY HoldersFinite
<1>3. SumOf(f, Holders) \in Nat /\ f[Escrow] \in Nat
  BY HoldersFinite, SumType DEF Holdings
<1> DEFINE h == Credit(f, to, i)
           g == Credit(h, Vault, v)
<1>4. Pay(m, f, Share(to, amount)) = g
  BY <1>1 DEF Pay, Share
<1>5. /\ h \in Holdings /\ SumOf(h, Holders) = SumOf(f, Holders) + i
      /\ h[to] = f[to] + i /\ \A x \in Holders \ {to} : h[x] = f[x]
  BY <1>2, Crediting
<1> HIDE DEF h
<1>6. /\ g \in Holdings /\ SumOf(g, Holders) = SumOf(h, Holders) + v
      /\ g[Vault] = h[Vault] + v /\ \A x \in Holders \ {Vault} : g[x] = h[x]
  BY <1>5, HoldersFinite, Crediting, ZenonT(30)
<1> HIDE DEF g
<1>7. SumOf(g, Holders) = SumOf(f, Holders) + amount
  BY <1>1, <1>3, <1>5, <1>6
<1>8. g[Vault] = f[Vault] + v
  BY <1>2, <1>5, <1>6, HoldersFinite
<1>9. g[Escrow] = f[Escrow] + (IF to = Escrow THEN i ELSE 0)
  BY <1>3, <1>5, <1>6, HoldersFinite
<1> QED BY <1>1, <1>4, <1>6, <1>7, <1>8, <1>9 DEF AmountFor

\* A reward, alone or in a batch.
LEMMA RewardedTokens ==
  ASSUME SupplyInv, BooksInv, NEW m \in Models,
         NEW a \in Users \union {Escrow}, NEW b \in Users \union {Escrow},
         NEW x \in Nat, NEW y \in Nat, BatchMintReward(m, Share(a, x), Share(b, y))
  PROVE  SupplyInv' /\ BooksInv'
<1>0. PICK f \in Holdings : f = balances[m]
  BY ModelTypes
<1> DEFINE h == Pay(m, f, Share(a, x))
           g == Pay(m, h, Share(b, y))
<1>1. PICK i \in Nat, v \in Nat :
        i = Parts(m, x).immediate /\ v = Parts(m, x).vested /\ i + v = x
  BY PartsAddUp
<1>2. PICK j \in Nat, w \in Nat :
        j = Parts(m, y).immediate /\ w = Parts(m, y).vested /\ j + w = y
  BY PartsAddUp
<1>3. /\ HasToken(m) /\ balances' = [balances EXCEPT ![m] = g]
      /\ totalSupply' = [totalSupply EXCEPT ![m] = totalSupply[m] + (x + y)]
      /\ UNCHANGED <<kind, investorMinted, supplierDistributed, strays, now, policy>>
      /\ UNCHANGED totalReleased
  BY <1>0 DEF BatchMintReward, MintReward, MintTo, Share, admin, escrowRest
<1>4. CreateSchedules(m, policy[m], [to |-> a, total |-> v], [to |-> b, total |-> w])
  BY <1>1, <1>2 DEF BatchMintReward, Vested, Share
<1>5. credited' = [credited EXCEPT ![m] = credited[m] + EarnedBy(Escrow, Share(a, x), Share(b, y))]
  BY DEF BatchMintReward
<1>6. /\ Capped(m) => /\ rewardMinted[m] + (x + y) <= RewardCap(policy[m].tokensPerDeltaOne)
                      /\ rewardMinted' = [rewardMinted EXCEPT ![m] = rewardMinted[m] + (x + y)]
      /\ ~Capped(m) => rewardMinted' = rewardMinted
  BY DEF BatchMintReward, MintReward, Share
<1>7. /\ balances[m] \in Holdings /\ balances[m][Vault] \in Nat /\ balances[m][Escrow] \in Nat
      /\ SumOf(balances[m], Holders) = totalSupply[m] /\ totalSupply[m] \in Nat
      /\ policy[m] \in Policies /\ a \in Holders /\ b \in Holders
  BY ModelTypes, HoldersFinite
<1>8. /\ h \in Holdings /\ SumOf(h, Holders) = totalSupply[m] + x
      /\ h[Vault] = balances[m][Vault] + v
      /\ h[Escrow] = balances[m][Escrow] + AmountFor({Escrow}, a, i)
  <2>1. /\ h \in Holdings /\ SumOf(h, Holders) = SumOf(f, Holders) + x
        /\ h[Vault] = f[Vault] + Parts(m, x).vested
        /\ h[Escrow] = f[Escrow] + AmountFor({Escrow}, a, Parts(m, x).immediate)
    BY Paying, ZenonT(30)
  <2> HIDE DEF h
  <2> QED BY <1>0, <1>1, <1>7, <2>1
<1> HIDE DEF h
<1>9. /\ g \in Holdings /\ SumOf(g, Holders) = SumOf(h, Holders) + y
      /\ g[Vault] = h[Vault] + w
      /\ g[Escrow] = h[Escrow] + AmountFor({Escrow}, b, j)
  <2>1. h \in Holdings
    BY <1>8
  <2>2. /\ g \in Holdings /\ SumOf(g, Holders) = SumOf(h, Holders) + y
        /\ g[Vault] = h[Vault] + Parts(m, y).vested
        /\ g[Escrow] = h[Escrow] + AmountFor({Escrow}, b, Parts(m, y).immediate)
    <3>1. \A k \in Holdings :
            /\ Pay(m, k, Share(b, y)) \in Holdings
            /\ SumOf(Pay(m, k, Share(b, y)), Holders) = SumOf(k, Holders) + y
            /\ Pay(m, k, Share(b, y))[Vault] = k[Vault] + Parts(m, y).vested
            /\ Pay(m, k, Share(b, y))[Escrow]
                 = k[Escrow] + AmountFor({Escrow}, b, Parts(m, y).immediate)
      <4> HIDE <1>1, <1>2, <1>3, <1>4, <1>5, <1>6, <1>7, <1>8
      <4> QED BY Paying, ZenonT(30)
    <3> QED BY <2>1, <3>1, Zenon
  <2> HIDE DEF g
  <2> QED BY <1>2, <2>2
<1> HIDE DEF g
<1>10. PICK s \in Nat, e \in Nat : s = totalSupply[m] + (x + y) /\ e = investorMinted[m]
  BY <1>7, ModelTypes
<1>11. PICK r \in Nat : /\ rewardMinted' = [rewardMinted EXCEPT ![m] = r]
                        /\ Capped(m) => /\ r = rewardMinted[m] + (x + y)
                                        /\ r <= RewardCap(policy[m].tokensPerDeltaOne)
  <2>1. CASE Capped(m)
    <3>1. PICK r \in Nat : r = rewardMinted[m] + (x + y)
      BY ModelTypes
    <3> QED BY <1>6, <2>1, <3>1
  <2>2. CASE ~Capped(m)
    <3>1. PICK r \in Nat : r = rewardMinted[m]
      BY ModelTypes
    <3> QED BY <1>6, <2>2, <3>1, ModelTypes
  <2> QED BY <2>1, <2>2
<1>12. Supplied(m)' = Supplied(m) /\ Supplied(m) \in Nat
  BY <1>3, TokenConstants DEF Supplied, TokenConstants
<1>13. PICK k \in Kinds : k = kind[m] /\ kind' = [kind EXCEPT ![m] = k]
  BY <1>3, ModelTypes
<1>14. Covered(k, s, e, r, Supplied(m)')
  <2>1. CASE k = "legacy"
    BY <2>1 DEF Covered
  <2>2. CASE k # "legacy"
    <3>1. Capped(m)
      BY <1>3, <1>13, <2>2, ModelTypes DEF Capped, HasToken, Kinds
    <3>2. /\ totalSupply[m] <= investorMinted[m] + rewardMinted[m] + Supplied(m)
          /\ investorMinted[m] <= InvestorAllocation
      BY <1>13, <2>2 DEF SupplyInv, Covered
    <3>3. s <= e + r + Supplied(m)
      BY <1>10, <1>11, <1>12, <3>1, <3>2, ModelTypes
    <3> QED BY <1>7, <1>10, <1>11, <1>12, <3>1, <3>2, <3>3 DEF Covered
  <2> QED BY <2>1, <2>2
<1>15. SupplyInv'
  <2>1. /\ totalSupply' = [totalSupply EXCEPT ![m] = s] /\ s = SumOf(g, Holders)
        /\ investorMinted' = [investorMinted EXCEPT ![m] = e]
    BY <1>3, <1>7, <1>8, <1>9, <1>10, ModelTypes
  <2>2. supplierDistributed' \in {supplierDistributed, supplierDistributed \union {m}}
        /\ policy' = policy
    BY <1>3
  <2>3. g \in Holdings /\ balances' = [balances EXCEPT ![m] = g]
    BY <1>3, <1>9
  <2> QED BY <1>11, <1>13, <1>14, <2>1, <2>2, <2>3, SupplyStep
<1>16. BooksInv'
  <2> DEFINE vest == AmountFor({Escrow}, a, v) + AmountFor({Escrow}, b, w)
  <2>1. PICK got \in Nat : /\ got = EarnedBy(Escrow, Share(a, x), Share(b, y))
                           /\ got = AmountFor({Escrow}, a, x) + AmountFor({Escrow}, b, y)
    BY DEF EarnedBy, Share, AmountFor
  <2>2. PICK z \in Int : z = credited[m] + got /\ credited' = [credited EXCEPT ![m] = z]
    <3>1. PICK z \in Int : z = credited[m] + got
      BY ModelTypes
    <3> QED BY <1>5, <2>1, <3>1
  <2>3. /\ SoundSchedules(schedules', now)
        /\ Adds(schedules, schedules', m, Holders,
                AmountFor(Holders, a, v) + AmountFor(Holders, b, w))
    BY <1>4, <1>7, CreatedSchedules
  <2>4. Adds(schedules, schedules', m, {Escrow},
             AmountFor({Escrow}, a, v) + AmountFor({Escrow}, b, w))
    BY <1>4, <1>7, CreatedSchedules
  <2>5. PICK dv \in Int, de \in Int : dv = v + w /\ de = vest
    BY DEF AmountFor
  <2>6. Adds(schedules, schedules', m, Holders, dv) /\ Adds(schedules, schedules', m, {Escrow}, de)
    <3>1. AmountFor(Holders, a, v) + AmountFor(Holders, b, w) = dv
      BY <1>7, <2>5 DEF AmountFor
    <3> QED BY <2>3, <2>4, <2>5, <3>1
  <2>7. VaultFollows(g[Vault], balances[m][Vault], dv, 0)
    BY <1>7, <1>8, <1>9, <2>5 DEF VaultFollows
  <2>8. EscrowFollows(g[Escrow], balances[m][Escrow], de, 0, z, credited[m])
    <3>1. PICK p \in Nat, q \in Nat :
            p = AmountFor({Escrow}, a, i) /\ q = AmountFor({Escrow}, b, j)
      BY DEF AmountFor
    <3>2. g[Escrow] = (balances[m][Escrow] + p) + q
      BY <1>8, <1>9, <3>1
    <3>3. credited[m] \in Int
      BY ModelTypes
    <3>4. p + q + de = got
      BY <1>1, <1>2, <2>1, <2>5, <3>1 DEF AmountFor
    <3> QED BY <1>7, <2>2, <3>2, <3>3, <3>4 DEF EscrowFollows
  <2>9. UNCHANGED <<now, strays, totalReleased>>
    BY <1>3
  <2> QED BY <1>3, <1>9, <2>2, <2>3, <2>6, <2>7, <2>8, <2>9, BooksScheduled
<1> QED BY <1>15, <1>16

\* The supplier's allocation, once for each capped token.
LEMMA DistributedTokens ==
  ASSUME SupplyInv, BooksInv, NEW m \in Models, DistributeSupplierWithVesting(m)
  PROVE  SupplyInv' /\ BooksInv'
<1> DEFINE n == SupplierAllocation
<1>1. n \in Nat
  BY TokenConstants DEF TokenConstants
<1>2. PICK i \in Nat, v \in Nat :
        i = Parts(m, n).immediate /\ v = Parts(m, n).vested /\ i + v = n
  BY <1>1, PartsAddUp
<1> DEFINE h == Credit(balances[m], Supplier, n - v)
           g == Credit(h, Vault, v)
<1>3. /\ Capped(m) /\ m \notin supplierDistributed
      /\ supplierDistributed' = supplierDistributed \union {m}
      /\ balances' = [balances EXCEPT ![m] = g]
      /\ totalSupply' = [totalSupply EXCEPT ![m] = totalSupply[m] + n]
      /\ UNCHANGED <<kind, investorMinted, rewardMinted, strays, now, policy>>
      /\ UNCHANGED <<totalReleased, credited>>
  BY <1>2 DEF DistributeSupplierWithVesting, DistributeModelSupplierAllocation, MintTo,
              admin, escrow
<1>4. CreateSchedules(m, policy[m], [to |-> Supplier, total |-> v], [to |-> Supplier, total |-> 0])
  BY <1>2 DEF DistributeSupplierWithVesting, Nothing
<1>5. /\ balances[m] \in Holdings /\ balances[m][Vault] \in Nat /\ balances[m][Escrow] \in Nat
      /\ SumOf(balances[m], Holders) = totalSupply[m] /\ totalSupply[m] \in Nat
      /\ policy[m] \in Policies
  BY ModelTypes, HoldersFinite
<1>6. n - v \in Nat
  BY <1>1, <1>2
<1>7. /\ h \in Holdings /\ SumOf(h, Holders) = totalSupply[m] + (n - v)
      /\ h[Vault] = balances[m][Vault] /\ h[Escrow] = balances[m][Escrow]
  <2>1. Supplier \in Holders /\ Vault \in Holders \ {Supplier} /\ Escrow \in Holders \ {Supplier}
    BY HoldersFinite
  <2>2. /\ h \in Holdings /\ SumOf(h, Holders) = SumOf(balances[m], Holders) + (n - v)
        /\ \A x \in Holders \ {Supplier} : h[x] = balances[m][x]
    <3>1. PICK z \in Nat : z = n - v
      BY <1>6
    <3>2. PICK f \in Holdings : f = balances[m]
      BY <1>5
    <3>3. /\ h \in Holdings /\ SumOf(h, Holders) = SumOf(balances[m], Holders) + z
          /\ \A x \in Holders \ {Supplier} : h[x] = balances[m][x]
      <4>1. h = Credit(f, Supplier, z)
        BY <3>1, <3>2
      <4> HIDE DEF h, n
      <4>2. /\ h \in Holdings /\ SumOf(h, Holders) = SumOf(f, Holders) + z
            /\ \A x \in Holders \ {Supplier} : h[x] = f[x]
        BY <2>1, <4>1, Crediting
      <4> QED BY <3>2, <4>2
    <3>4. SumOf(balances[m], Holders) + z = SumOf(balances[m], Holders) + (n - v)
      BY <3>1
    <3> QED BY <3>3, <3>4
  <2> HIDE DEF h
  <2> QED BY <1>5, <2>1, <2>2
<1> HIDE DEF h
<1>8. /\ g \in Holdings /\ SumOf(g, Holders) = SumOf(h, Holders) + v
      /\ g[Vault] = h[Vault] + v /\ g[Escrow] = h[Escrow]
  BY <1>7, HoldersFinite, Crediting
<1> HIDE DEF g
<1>9. PICK k \in Kinds, s \in Nat, e \in Nat, r \in Nat :
        /\ k = kind[m] /\ s = totalSupply[m] + n
        /\ e = investorMinted[m] /\ r = rewardMinted[m]
  BY <1>1, ModelTypes
<1>10. Supplied(m) = 0 /\ Supplied(m)' = n
  BY <1>3 DEF Supplied
<1>11. Covered(k, s, e, r, Supplied(m)')
  <2>1. Covered(kind[m], totalSupply[m], investorMinted[m], rewardMinted[m], Supplied(m))
        /\ kind[m] = "capped"
    BY <1>3 DEF SupplyInv, Capped
  <2>2. /\ totalSupply[m] <= e + r + 0
        /\ e <= InvestorAllocation
        /\ \E p \in Policies : r <= RewardCap(p.tokensPerDeltaOne)
    BY <1>9, <1>10, <2>1 DEF Covered
  <2>3. s <= e + r + n
    BY <1>1, <1>5, <1>9, <2>2
  <2> QED BY <1>10, <2>2, <2>3 DEF Covered
<1>12. SupplyInv'
  <2>1. /\ totalSupply' = [totalSupply EXCEPT ![m] = s] /\ s = SumOf(g, Holders)
        /\ kind' = [kind EXCEPT ![m] = k] /\ investorMinted' = [investorMinted EXCEPT ![m] = e]
        /\ rewardMinted' = [rewardMinted EXCEPT ![m] = r]
    BY <1>1, <1>2, <1>3, <1>5, <1>7, <1>8, <1>9, ModelTypes
  <2>2. supplierDistributed' \in {supplierDistributed, supplierDistributed \union {m}}
        /\ policy' = policy
    BY <1>3
  <2>3. g \in Holdings /\ balances' = [balances EXCEPT ![m] = g]
    BY <1>3, <1>8
  <2> QED BY <1>11, <2>1, <2>2, <2>3, SupplyStep
<1>13. BooksInv'
  <2>1. PICK z \in Int : z = credited[m] /\ credited' = [credited EXCEPT ![m] = z]
    BY <1>3, ModelTypes
  <2>2. /\ SoundSchedules(schedules', now)
        /\ Adds(schedules, schedules', m, Holders,
                AmountFor(Holders, Supplier, v) + AmountFor(Holders, Supplier, 0))
    BY <1>4, <1>5, HoldersFinite, CreatedSchedules
  <2>3. Adds(schedules, schedules', m, {Escrow},
             AmountFor({Escrow}, Supplier, v) + AmountFor({Escrow}, Supplier, 0))
    BY <1>4, <1>5, HoldersFinite, CreatedSchedules
  <2>4. PICK dv \in Int, de \in Int : dv = v /\ de = 0
    OBVIOUS
  <2>5. Adds(schedules, schedules', m, Holders, dv) /\ Adds(schedules, schedules', m, {Escrow}, de)
    <3>1. AmountFor(Holders, Supplier, v) + AmountFor(Holders, Supplier, 0) = dv
      BY <2>4, HoldersFinite DEF AmountFor
    <3>2. AmountFor({Escrow}, Supplier, v) + AmountFor({Escrow}, Supplier, 0) = de
      BY <2>4, HoldersFinite DEF AmountFor
    <3> QED BY <2>2, <2>3, <3>1, <3>2
  <2>6. credited[m] \in Int
    BY ModelTypes
  <2>7. /\ VaultFollows(g[Vault], balances[m][Vault], dv, 0)
        /\ EscrowFollows(g[Escrow], balances[m][Escrow], de, 0, z, credited[m])
    BY <1>5, <1>7, <1>8, <2>1, <2>4, <2>6 DEF VaultFollows, EscrowFollows
  <2>8. UNCHANGED <<now, strays, totalReleased>>
    BY <1>3
  <2> QED BY <1>3, <1>8, <2>1, <2>2, <2>5, <2>7, <2>8, BooksScheduled
<1> QED BY <1>12, <1>13

-----------------------------------------------------------------------------
(* The TokenManager and the pool.                                          *)

Unmoved == UNCHANGED <<token, schedules, now, totalReleased, credited>>

\* No token moves.
LEMMA BooksUnmoved ==
  ASSUME SupplyInv, BooksInv, Unmoved, policy' \in [Models -> Policies]
  PROVE  SupplyInv' /\ BooksInv'
<1>1. /\ UNCHANGED <<kind, balances, totalSupply, investorMinted, rewardMinted>>
      /\ UNCHANGED <<supplierDistributed, strays, schedules, now, totalReleased, credited>>
  BY DEF Unmoved, token
<1>2. SupplyInv'
  BY <1>1 DEF SupplyInv, Supplied
<1>3. BooksInv'
  BY <1>1 DEF BooksInv
<1> QED BY <1>2, <1>3

\* The transactions of the TokenManager, the vault and the escrow that name a model.
ModelNext(m) ==
  \/ DeployTokenWithParams(m) \/ DeployTokenWithAllocations(m)
  \/ DistributeSupplierWithVesting(m)
  \/ \E to \in Users, amount \in Amounts : MintTokensByOwner(m, to, amount)
  \/ \E a, b \in Users \union {Escrow}, x \in Rewards, y \in Rewards \union {0} :
       BatchMintReward(m, Share(a, x), Share(b, y))
  \/ \E h \in Holders, amount \in Amounts :
       \/ BurnTokens(m, h, amount) \/ BurnInvestorTokens(m, h, amount)
       \/ BurnAMMTokensByOwner(m, h, amount)
  \/ \E from \in Users, to \in Users \union {Vault, Escrow}, amount \in Amounts :
       TransferTokens(m, from, to, amount)
  \/ /\ \E a, b \in Users, x \in Amounts, y \in Amounts \union {0} :
          Release(m, Share(a, x), Share(b, y))
     /\ UNCHANGED <<admin, eth, adminOps>>
  \/ /\ AdminOp /\ \E to \in Users, amount \in Amounts : Rescue(m, to, amount)
     /\ UNCHANGED <<admin, eth>>

\* The amounts that are put in are naturals.
LEMMA InputTypes ==
  /\ Amounts \subseteq Nat /\ Rewards \subseteq Nat /\ Fees \subseteq Nat
  /\ Spends \subseteq Nat /\ Sales \subseteq Nat
BY ManagerConstants, PoolConstants DEF ManagerConstants, PoolConstants

\* They keep the books.
LEMMA ModelStep ==
  ASSUME SupplyInv, BooksInv, NEW m \in Models, ModelNext(m)
  PROVE  SupplyInv' /\ BooksInv'
<1>1. CASE DeployTokenWithParams(m)
  <2>1. Construct(m, "legacy") /\ UNCHANGED <<policy, schedules, now, totalReleased, credited>>
    BY <1>1 DEF DeployTokenWithParams, admin, escrow
  <2> QED BY <2>1, ConstructedTokens
<1>2. CASE DeployTokenWithAllocations(m)
  <2>1. Construct(m, "capped") /\ UNCHANGED <<policy, schedules, now, totalReleased, credited>>
    BY <1>2 DEF DeployTokenWithAllocations, admin, escrow
  <2> QED BY <2>1, ConstructedTokens
<1>3. CASE DistributeSupplierWithVesting(m)
  BY <1>3, DistributedTokens
<1>4. ASSUME NEW to \in Users, NEW amount \in Amounts, MintTokensByOwner(m, to, amount)
      PROVE  SupplyInv' /\ BooksInv'
  <2>1. /\ MintTokens(m, to, amount)
        /\ UNCHANGED <<policy, schedules, now, totalReleased, credited>>
    BY <1>4, HoldersFinite DEF MintTokensByOwner, Credited, noneElse, admin, escrowRest
  <2> QED BY <2>1, InputTypes, MintedTokens
<1>5. ASSUME NEW a \in Users \union {Escrow}, NEW b \in Users \union {Escrow},
             NEW x \in Rewards, NEW y \in Rewards \union {0},
             BatchMintReward(m, Share(a, x), Share(b, y))
      PROVE  SupplyInv' /\ BooksInv'
  <2>1. x \in Nat /\ y \in Nat
    BY InputTypes
  <2> QED BY <1>5, <2>1, RewardedTokens
<1>6. ASSUME NEW h \in Holders, NEW amount \in Amounts,
             \/ BurnTokens(m, h, amount) \/ BurnInvestorTokens(m, h, amount)
             \/ BurnAMMTokensByOwner(m, h, amount)
      PROVE  SupplyInv' /\ BooksInv'
  <2>1. /\ \/ Burn(m, h, amount) \/ BurnInvestor(m, h, amount) \/ BurnAMMTokens(m, h, amount)
        /\ Credited(m, h, -amount) /\ UNCHANGED <<policy, schedules, now, totalReleased>>
    BY <1>6 DEF BurnTokens, BurnInvestorTokens, BurnAMMTokensByOwner, noneElse, admin, escrowRest
  <2>2. amount \in Nat
    BY InputTypes
  <2> QED BY <2>1, <2>2, Burns
<1>7. ASSUME NEW from \in Users, NEW to \in Users \union {Vault, Escrow}, NEW amount \in Amounts,
             TransferTokens(m, from, to, amount)
      PROVE  SupplyInv' /\ BooksInv'
  <2>1. /\ Transfer(m, from, to, amount) /\ Credited(m, to, amount)
        /\ UNCHANGED <<policy, schedules, now, totalReleased>>
    BY <1>7 DEF TransferTokens, noneElse, admin, escrowRest
  <2> QED BY <2>1, InputTypes, TransferredTokens
<1>8. ASSUME NEW a \in Users, NEW b \in Users, NEW x \in Amounts, NEW y \in Amounts \union {0},
             Release(m, Share(a, x), Share(b, y)), UNCHANGED <<admin, eth, adminOps>>
      PROVE  SupplyInv' /\ BooksInv'
  <2>1. policy' = policy /\ x \in Nat /\ y \in Nat
    BY <1>8, InputTypes DEF admin
  <2> QED BY <1>8, <2>1, ReleasedTokens
<1>9. ASSUME NEW to \in Users, NEW amount \in Amounts,
             Rescue(m, to, amount), UNCHANGED <<admin, eth>>
      PROVE  SupplyInv' /\ BooksInv'
  <2>1. policy' = policy /\ amount \in Nat
    BY <1>9, InputTypes DEF admin
  <2> QED BY <1>9, <2>1, RescuedTokens
<1> QED BY <1>1, <1>2, <1>3, <1>4, <1>5, <1>6, <1>7, <1>8, <1>9 DEF ModelNext

\* The transactions that name a schedule.
LEMMA ScheduleStep ==
  ASSUME SupplyInv, BooksInv, NEW i \in DOMAIN schedules, NEW j \in DOMAIN schedules,
         \/ ClaimByHolder(i)
         \/ (ClaimVested(i) \/ ClaimVestedBatch(i, j)) /\ UNCHANGED <<admin, eth, adminOps>>
  PROVE  SupplyInv' /\ BooksInv'
<1>1. CASE ClaimByHolder(i)
  <2>1. /\ schedules[i].beneficiary \in Users \union {Supplier, Escrow} /\ Claim(i)
        /\ UNCHANGED <<policy, totalReleased, credited>>
    BY <1>1 DEF ClaimByHolder, admin, escrow
  <2> QED BY <2>1, ClaimedTokens
<1>2. CASE ClaimVested(i) /\ UNCHANGED <<admin, eth, adminOps>>
  <2>1. /\ schedules[i].beneficiary \in Users \union {Supplier, Escrow} /\ Claim(i)
        /\ UNCHANGED <<policy, totalReleased, credited>>
    BY <1>2 DEF ClaimVested, admin, escrow
  <2> QED BY <2>1, ClaimedTokens
<1>3. CASE ClaimVestedBatch(i, j) /\ UNCHANGED <<admin, eth, adminOps>>
  <2>1. policy' = policy
    BY <1>3 DEF admin
  <2> QED BY <1>3, <2>1, ClaimedBatch
<1> QED BY <1>1, <1>2, <1>3

\* The transactions of the TokenManager and its contracts keep the books.
LEMMA ManagerStep ==
  ASSUME SupplyInv, BooksInv, ManagerNext
  PROVE  SupplyInv' /\ BooksInv'
<1>0. policy \in [Models -> Policies]
  BY DEF SupplyInv
<1>1. CASE \E m \in Models : ModelNext(m)
  BY <1>1, ModelStep
<1>2. CASE \E i \in DOMAIN schedules : ClaimByHolder(i)
  BY <1>2, ScheduleStep
<1>3. CASE /\ \E i, j \in DOMAIN schedules : ClaimVested(i) \/ ClaimVestedBatch(i, j)
           /\ UNCHANGED <<admin, eth, adminOps>>
  BY <1>3, ScheduleStep
<1>4. CASE AdminOp /\ PauseReleases /\ UNCHANGED <<admin, eth>>
  <2>1. Unmoved /\ policy' = policy
    BY <1>4 DEF PauseReleases, Unmoved, admin
  <2> QED BY <1>0, <2>1, BooksUnmoved
<1>5. CASE SetUp
  <2>1. Unmoved /\ policy' = policy
    BY <1>5 DEF SetUp, Unmoved, escrow
  <2> QED BY <1>0, <2>1, BooksUnmoved
<1>6. CASE Administer
  <2>1. Unmoved
    BY <1>6 DEF Administer, Unmoved, escrow
  <2>2. policy' \in [Models -> Policies]
    <3>1. \/ policy' = policy
          \/ \E m \in Models : \E p \in Policies \ {policy[m]} : policy' = [policy EXCEPT ![m] = p]
      BY <1>6 DEF Administer
    <3> QED BY <1>0, <3>1
  <2> QED BY <2>1, <2>2, BooksUnmoved
<1>7. CASE WithdrawDeploymentFees
  <2>1. Unmoved /\ policy' = policy
    BY <1>7 DEF WithdrawDeploymentFees, Unmoved, admin, escrow
  <2> QED BY <1>0, <2>1, BooksUnmoved
<1>8. CASE Tick /\ UNCHANGED <<admin, eth, escrow, adminOps>>
  <2>1. UNCHANGED <<policy, totalReleased, credited>>
    BY <1>8 DEF admin, escrow
  <2> QED BY <1>8, <2>1, Ticked
<1> QED BY <1>1, <1>2, <1>3, <1>4, <1>5, <1>6, <1>7, <1>8 DEF ManagerNext, ModelNext

\* They leave the fees and the ETH natural.
LEMMA ManagerFees ==
  ASSUME eth \in Nat, deploymentFee \in Nat, ManagerNext
  PROVE  eth' \in Nat /\ deploymentFee' \in Nat
<1>1. CASE \E m \in Models : DeployTokenWithParams(m) \/ DeployTokenWithAllocations(m)
  BY <1>1 DEF DeployTokenWithParams, DeployTokenWithAllocations, admin
<1>2. CASE Administer
  BY <1>2, InputTypes DEF Administer
<1>3. CASE WithdrawDeploymentFees
  BY <1>3 DEF WithdrawDeploymentFees, admin
<1>4. CASE UNCHANGED <<deploymentFee, eth>>
  BY <1>4
<1>5. \/ \E m \in Models : DeployTokenWithParams(m) \/ DeployTokenWithAllocations(m)
      \/ Administer \/ WithdrawDeploymentFees \/ UNCHANGED <<deploymentFee, eth>>
  <2>1. ASSUME NEW m \in Models, ModelNext(m)
        PROVE  \/ DeployTokenWithParams(m) \/ DeployTokenWithAllocations(m)
               \/ UNCHANGED <<deploymentFee, eth>>
    BY <2>1 DEF ModelNext, DistributeSupplierWithVesting, MintTokensByOwner, BatchMintReward,
                BurnTokens, BurnInvestorTokens, BurnAMMTokensByOwner, TransferTokens,
                noneElse, admin
  <2>2. ASSUME NEW i \in DOMAIN schedules, ClaimByHolder(i)
        PROVE  UNCHANGED <<deploymentFee, eth>>
    BY <2>2 DEF ClaimByHolder, admin
  <2>3. CASE SetUp
    BY <2>3 DEF SetUp
  <2>4. CASE UNCHANGED <<admin, eth>>
    BY <2>4 DEF admin
  <2> QED BY <2>1, <2>2, <2>3, <2>4 DEF ManagerNext, ModelNext
<1> QED BY <1>1, <1>2, <1>3, <1>4, <1>5

\* A part in basis points is at most the whole.
LEMMA PartOf ==
  ASSUME NEW a \in Nat, NEW b \in Nat, b <= 10000
  PROVE  (a * b) \div 10000 \in Nat /\ (a * b) \div 10000 <= a
<1> DEFINE w == a * b
<1>1. w \in Nat /\ w <= a * 10000
  OBVIOUS
<1> HIDE DEF w
<1>2. w \div 10000 \in Nat /\ w \div 10000 <= a
  BY <1>1
<1> QED BY <1>2 DEF w

\* Fees are part of the amount.
LEMMA FeeBounds ==
  ASSUME PoolInv, NEW amount \in Nat
  PROVE  Fee(amount) \in Nat /\ Net(amount) \in Nat /\ Fee(amount) + Net(amount) = amount
<1>1. tradeFee \in Nat /\ tradeFee <= 10000
  BY PoolConstants DEF PoolInv, PoolConstants
<1>2. Fee(amount) \in Nat /\ Fee(amount) <= amount
  BY <1>1, PartOf DEF Fee
<1> QED BY <1>2 DEF Net

\* A reserve that grows, and USDC that grows with it.
LEMMA ReserveGrows ==
  ASSUME PoolInv, NEW amount \in Nat, Raise(reserveBalance + amount), usdc' = usdc + amount,
         UNCHANGED <<donated, tradeFee, maxTradeBps, eth, deploymentFee>>
  PROVE  PoolInv'
<1>1. /\ reserveBalance' = reserveBalance + amount
      /\ hasGraduated' = (hasGraduated \/ reserveBalance + amount >= Threshold)
      /\ crossed' = (crossed \/ reserveBalance + amount >= Threshold)
  BY DEF Raise
<1>2. /\ reserveBalance \in Nat /\ usdc \in Nat /\ donated \in Nat
      /\ usdc = reserveBalance + donated /\ (hasGraduated <=> crossed)
  BY DEF PoolInv, PoolAccounted, PoolBacked, LatchTracksPeak
<1>3. /\ reserveBalance' \in Nat /\ usdc' \in Nat /\ donated' \in Nat
      /\ usdc' >= reserveBalance' /\ usdc' = reserveBalance' + donated'
  BY <1>1, <1>2
<1>4. hasGraduated' <=> crossed'
  <2> DEFINE over == reserveBalance + amount >= Threshold
  <2>1. hasGraduated' = (hasGraduated \/ over) /\ crossed' = (crossed \/ over)
    BY <1>1
  <2> HIDE DEF over
  <2> QED BY <1>2, <2>1, Zenon
<1>5. /\ tradeFee' \in TradeFees /\ maxTradeBps' \in Nat /\ maxTradeBps' <= 10000
      /\ eth' \in Nat /\ deploymentFee' \in Nat
  BY DEF PoolInv
<1>6. PoolAccounted'
  <2>1. LatchTracksPeak'
    BY <1>4 DEF LatchTracksPeak
  <2>2. PoolBacked'
    BY <1>3 DEF PoolBacked
  <2> QED BY <2>1, <2>2 DEF PoolAccounted
<1> QED BY <1>3, <1>5, <1>6 DEF PoolInv

\* What a pool and its TokenManager have.
LEMMA PoolTypes ==
  ASSUME PoolInv
  PROVE  /\ reserveBalance \in Nat /\ usdc \in Nat /\ donated \in Nat
         /\ usdc = reserveBalance + donated /\ (hasGraduated <=> crossed)
         /\ maxTradeBps \in Nat /\ maxTradeBps <= 10000 /\ tradeFee \in TradeFees
         /\ eth \in Nat /\ deploymentFee \in Nat
BY DEF PoolInv, PoolAccounted, PoolBacked, LatchTracksPeak

\* The latch of a step that does not touch it still tracks the peak.
LEMMA LatchStays ==
  ASSUME PoolInv, UNCHANGED <<hasGraduated, crossed>>
  PROVE  LatchTracksPeak'
<1>1. hasGraduated' <=> crossed'
  BY PoolTypes
<1> QED BY <1>1 DEF LatchTracksPeak

\* The latch tracks the peak, and the USDC still is the reserve and what was donated.
LEMMA ReserveFollows ==
  ASSUME LatchTracksPeak',
         NEW r \in Nat, NEW d \in Nat, reserveBalance' = r, donated' = d, usdc' = r + d,
         tradeFee' \in TradeFees, maxTradeBps' \in Nat, maxTradeBps' <= 10000,
         eth' \in Nat, deploymentFee' \in Nat
  PROVE  PoolInv'
<1>1. /\ reserveBalance' \in Nat /\ donated' \in Nat /\ usdc' \in Nat
      /\ usdc' >= reserveBalance' /\ usdc' = reserveBalance' + donated'
  OBVIOUS
<1>2. PoolBacked'
  BY <1>1 DEF PoolBacked
<1>3. PoolAccounted'
  BY <1>2 DEF PoolAccounted
<1>4. /\ tradeFee' \in TradeFees /\ maxTradeBps' \in Nat /\ maxTradeBps' <= 10000
      /\ eth' \in Nat /\ deploymentFee' \in Nat
  OBVIOUS
<1> QED BY <1>1, <1>3, <1>4 DEF PoolInv

\* A buy.
LEMMA BuyStep ==
  ASSUME MarketInv, NEW buyer \in Users, NEW spent \in Spends, Buy(buyer, spent)
  PROVE  MarketInv'
<1>1. SupplyInv /\ BooksInv /\ PoolInv /\ spent \in Nat /\ market \in Models
  BY InputTypes, PoolConstants DEF MarketInv, PoolConstants
<1>2. PICK tokensOut \in Nat : MintTokens(market, buyer, tokensOut)
  BY DEF Buy
<1>3. /\ UNCHANGED <<policy, schedules, now, totalReleased, credited>>
      /\ UNCHANGED <<donated, tradeFee, maxTradeBps, eth, deploymentFee>>
  BY DEF Buy, settings, noneElse, admin, escrow
<1>4. SupplyInv' /\ BooksInv'
  BY <1>1, <1>2, <1>3, MintedTokens
<1>5. PICK net \in Nat : net = Net(spent) /\ net = spent - Fee(spent)
  <2>1. Net(spent) \in Nat
    BY <1>1, FeeBounds
  <2> QED BY <2>1 DEF Net
<1>6. Raise(reserveBalance + net) /\ usdc' = usdc + net
  <2>1. Raise(reserveBalance + Net(spent)) /\ usdc' = usdc + spent - Fee(spent)
    BY DEF Buy
  <2>2. usdc \in Nat /\ Fee(spent) \in Nat
    BY <1>1, FeeBounds, PoolTypes
  <2> QED BY <1>1, <1>5, <2>1, <2>2
<1>7. PoolInv'
  BY <1>1, <1>3, <1>6, ReserveGrows
<1> QED BY <1>4, <1>7 DEF MarketInv

\* A sell.
LEMMA SellStep ==
  ASSUME MarketInv, NEW seller \in Users \union {Supplier}, NEW tokens \in Sales,
         Sell(seller, tokens)
  PROVE  MarketInv'
<1>1. SupplyInv /\ BooksInv /\ PoolInv /\ tokens \in Nat /\ market \in Models
  BY InputTypes, PoolConstants DEF MarketInv, PoolConstants
<1>2. seller \in Holders /\ seller # Escrow
  BY HoldersFinite
<1>3. /\ BurnAMMTokens(market, seller, tokens) /\ Credited(market, seller, -tokens)
      /\ UNCHANGED <<policy, schedules, now, totalReleased>>
      /\ UNCHANGED <<donated, tradeFee, maxTradeBps, eth, deploymentFee, hasGraduated, crossed>>
  BY <1>2 DEF Sell, Credited, settings, noneElse, admin, escrow
<1>4. SupplyInv' /\ BooksInv'
  BY <1>1, <1>2, <1>3, Burns
<1>5. PICK quote \in Nat : /\ WithinTradeLimit(quote)
                           /\ reserveBalance' = reserveBalance - quote /\ usdc' = usdc - quote
  BY DEF Sell
<1>6. quote <= reserveBalance
  <2>1. /\ (reserveBalance * maxTradeBps) \div 10000 \in Nat
        /\ (reserveBalance * maxTradeBps) \div 10000 <= reserveBalance
    BY <1>1, PoolTypes, PartOf
  <2>2. quote <= (reserveBalance * maxTradeBps) \div 10000
    BY <1>5 DEF WithinTradeLimit
  <2> DEFINE limit == (reserveBalance * maxTradeBps) \div 10000
  <2>3. limit \in Nat /\ limit <= reserveBalance /\ quote <= limit /\ reserveBalance \in Nat
    BY <1>1, <2>1, <2>2, PoolTypes
  <2> HIDE DEF limit
  <2> QED BY <2>3
<1>7. PoolInv'
  <2>1. reserveBalance' \in Nat /\ donated' \in Nat /\ usdc' = reserveBalance' + donated'
    BY <1>1, <1>3, <1>5, <1>6, PoolTypes
  <2>2. /\ tradeFee' \in TradeFees /\ maxTradeBps' \in Nat /\ maxTradeBps' <= 10000
        /\ eth' \in Nat /\ deploymentFee' \in Nat
    BY <1>1, <1>3, <1>5, <1>6, PoolTypes
  <2>3. LatchTracksPeak'
    BY <1>1, <1>3, LatchStays
  <2>4. PICK r \in Nat, d \in Nat : reserveBalance' = r /\ donated' = d /\ usdc' = r + d
    BY <2>1
  <2> QED BY <2>2, <2>3, <2>4, ReserveFollows
<1> QED BY <1>4, <1>7 DEF MarketInv

\* The pool's other functions move no token.
LEMMA PoolStep ==
  ASSUME MarketInv,
         \/ \E amount \in Spends : DepositFees(amount) \/ Donate(amount) \/ WithdrawTreasury(amount)
         \/ DeployPool \/ Govern
  PROVE  MarketInv'
<1>1. SupplyInv /\ BooksInv /\ PoolInv /\ policy \in [Models -> Policies]
  BY DEF MarketInv, SupplyInv
<1>2. Unmoved /\ policy' = policy /\ UNCHANGED <<eth, deploymentFee>>
  <2>1. CASE Govern
    BY <2>1 DEF Govern, Unmoved, admin, escrow
  <2>2. CASE UNCHANGED managerVars
    BY <2>2 DEF managerVars, Unmoved, admin, escrow
  <2> QED BY <2>1, <2>2 DEF DepositFees, Donate, WithdrawTreasury, DeployPool
<1>3. SupplyInv' /\ BooksInv'
  BY <1>1, <1>2, BooksUnmoved
<1>4. ASSUME NEW amount \in Spends, DepositFees(amount) PROVE PoolInv'
  <2>1. /\ Raise(reserveBalance + amount) /\ usdc' = usdc + amount
        /\ UNCHANGED <<donated, tradeFee, maxTradeBps>> /\ amount \in Nat
    BY <1>4, InputTypes DEF DepositFees, settings
  <2> QED BY <1>1, <1>2, <2>1, ReserveGrows
<1>5. ASSUME NEW amount \in Spends, Donate(amount) \/ WithdrawTreasury(amount) PROVE PoolInv'
  <2>1. /\ UNCHANGED <<reserveBalance, hasGraduated, crossed, tradeFee, maxTradeBps>>
        /\ amount \in Nat
    BY <1>5, InputTypes DEF Donate, WithdrawTreasury, settings
  <2>2. donated' \in Nat /\ usdc' = reserveBalance + donated'
    <3>1. CASE Donate(amount)
      BY <1>1, <2>1, <3>1, PoolTypes DEF Donate
    <3>2. CASE WithdrawTreasury(amount)
      BY <1>1, <2>1, <3>2, PoolTypes DEF WithdrawTreasury
    <3> QED BY <1>5, <3>1, <3>2
  <2>3. /\ tradeFee' \in TradeFees /\ maxTradeBps' \in Nat /\ maxTradeBps' <= 10000
        /\ eth' \in Nat /\ deploymentFee' \in Nat
    BY <1>1, <1>2, <2>1, PoolTypes
  <2>4. LatchTracksPeak'
    BY <1>1, <2>1, LatchStays
  <2>5. PICK r \in Nat, d \in Nat : reserveBalance' = r /\ donated' = d /\ usdc' = r + d
    <3>1. reserveBalance' \in Nat /\ usdc' = reserveBalance' + donated'
      BY <1>1, <2>1, <2>2, PoolTypes
    <3> QED BY <2>2, <3>1
  <2> QED BY <2>3, <2>4, <2>5, ReserveFollows
<1>6. CASE DeployPool \/ Govern
  <2>1. UNCHANGED <<reserveBalance, usdc, donated, hasGraduated, crossed>>
    BY <1>6 DEF DeployPool, Govern
  <2>2. /\ tradeFee' \in TradeFees
        /\ maxTradeBps' = maxTradeBps \/ maxTradeBps' \in TradeLimits
    BY <1>1, <1>6, PoolTypes DEF DeployPool, Govern
  <2>3. maxTradeBps' \in Nat /\ maxTradeBps' <= 10000
    <3>1. CASE maxTradeBps' = maxTradeBps
      BY <1>1, <3>1, PoolTypes
    <3>2. CASE maxTradeBps' \in TradeLimits
      <4>1. \A l \in TradeLimits : l \in Nat /\ l <= 5000
        BY PoolConstants DEF PoolConstants
      <4>2. PICK l \in Nat : l = maxTradeBps' /\ l <= 5000
        BY <3>2, <4>1
      <4>3. l <= 10000
        BY <4>2
      <4> QED BY <4>2, <4>3
    <3> QED BY <2>2, <3>1, <3>2
  <2>4. /\ reserveBalance' \in Nat /\ donated' \in Nat /\ usdc' = reserveBalance' + donated'
        /\ eth' \in Nat /\ deploymentFee' \in Nat
    BY <1>1, <1>2, <2>1, PoolTypes
  <2>5. PoolInv'
    <3>1. LatchTracksPeak'
      BY <1>1, <2>1, LatchStays
    <3>2. PICK r \in Nat, d \in Nat : reserveBalance' = r /\ donated' = d /\ usdc' = r + d
      BY <2>4
    <3> QED BY <2>2, <2>3, <2>4, <3>1, <3>2, ReserveFollows
  <2> QED BY <1>3, <2>5 DEF MarketInv
<1> QED BY <1>3, <1>4, <1>5, <1>6 DEF MarketInv

-----------------------------------------------------------------------------
(* The theorems.                                                           *)

\* A market without tokens, and the pool not deployed.
LEMMA MarketInit == Init => MarketInv
<1> SUFFICES ASSUME Init PROVE MarketInv
  OBVIOUS
<1> USE DEF Init, ManagerInit, TokenInit, EscrowInit, None
<1>1. SupplyInv
  <2> DEFINE nothing == [h \in Holders |-> 0]
  <2>1. nothing \in Holdings
    BY DEF Holdings
  <2>2. SumOf(nothing, Holders) = 0
    <3>1. \A h \in Holders : nothing[h] = 0
      OBVIOUS
    <3> HIDE DEF nothing
    <3> QED BY <3>1, SumZero
  <2>3. ASSUME NEW m \in Models
        PROVE  /\ totalSupply[m] = SumOf(balances[m], Holders)
               /\ Covered(kind[m], totalSupply[m], investorMinted[m], rewardMinted[m], Supplied(m))
    <3>1. totalSupply[m] = 0 /\ balances[m] = nothing /\ investorMinted[m] = 0 /\ rewardMinted[m] = 0
      OBVIOUS
    <3>2. policy[m] \in Policies
      OBVIOUS
    <3>3. 0 <= RewardCap(policy[m].tokensPerDeltaOne)
      <4>1. policy[m].tokensPerDeltaOne \in Nat
        BY <3>2, ManagerConstants DEF ManagerConstants
      <4>2. RewardCap(policy[m].tokensPerDeltaOne) \in Nat
        BY <4>1, TokenConstants DEF TokenConstants, RewardCap
      <4> QED BY <4>2
    <3>4. Supplied(m) = 0
      BY DEF Supplied
    <3> QED BY <2>2, <3>1, <3>2, <3>3, <3>4, TokenConstants DEF Covered, TokenConstants
  <2>4. /\ kind \in [Models -> Kinds] /\ policy \in [Models -> Policies]
        /\ balances \in [Models -> Holdings] /\ totalSupply \in [Models -> Nat]
        /\ investorMinted \in [Models -> Nat] /\ rewardMinted \in [Models -> Nat]
        /\ supplierDistributed \subseteq Models
    BY <2>1 DEF Kinds
  <2> QED BY <2>3, <2>4 DEF SupplyInv
<1>2. BooksInv
  <2>1. /\ now \in Nat /\ balances \in [Models -> Holdings] /\ strays \in [Models -> Int]
        /\ totalReleased \in [Models -> Int] /\ credited \in [Models -> Int]
    BY DEF Holdings
  <2>2. SoundSchedules(schedules, now)
    BY DEF SoundSchedules
  <2>3. ASSUME NEW m \in Models, NEW B PROVE Due(schedules, m, B) = 0
    <3> DEFINE f == [i \in DOMAIN schedules |-> schedules[i].totalAmount - schedules[i].claimed]
               S == {i \in DOMAIN schedules : /\ schedules[i].token = m
                                              /\ schedules[i].beneficiary \in B}
    <3>1. S = {}
      OBVIOUS
    <3>2. \A i \in S : f[i] = 0
      BY <3>1
    <3>3. Due(schedules, m, B) = SumOf(f, S)
      BY DEF Due
    <3> HIDE DEF f, S
    <3> QED BY <3>2, <3>3, SumZero
  <2>4. \A m \in Models :
          /\ balances[m][Vault] = 0 /\ strays[m] = 0 /\ balances[m][Escrow] = 0
          /\ totalReleased[m] = 0 /\ credited[m] = 0
    BY HoldersFinite
  <2>5. \A m \in Models :
          /\ balances[m][Vault] = Due(schedules, m, Holders) + strays[m]
          /\ balances[m][Escrow] + Due(schedules, m, {Escrow}) + totalReleased[m] = credited[m]
    BY <2>3, <2>4
  <2> QED BY <2>1, <2>2, <2>5, ZenonT(30) DEF BooksInv
<1>3. PoolInv
  BY DEF PoolInv, PoolAccounted, PoolBacked, LatchTracksPeak
<1> QED BY <1>1, <1>2, <1>3 DEF MarketInv

\* Every step of the market keeps the invariant.
LEMMA MarketStep == MarketInv /\ [Next]_vars => MarketInv'
<1> SUFFICES ASSUME MarketInv, [Next]_vars PROVE MarketInv'
  OBVIOUS
<1>1. SupplyInv /\ BooksInv /\ PoolInv
  BY DEF MarketInv
<1>2. CASE ManagerNext /\ UNCHANGED pool
  <2>1. SupplyInv' /\ BooksInv'
    BY <1>1, <1>2, ManagerStep
  <2>2. eth' \in Nat /\ deploymentFee' \in Nat
    BY <1>1, <1>2, ManagerFees, PoolTypes
  <2>3. UNCHANGED <<reserveBalance, usdc, donated, hasGraduated, crossed, tradeFee, maxTradeBps>>
    BY <1>2 DEF pool, settings
  <2>4. PoolInv'
    <3>1. reserveBalance' \in Nat /\ donated' \in Nat /\ usdc' = reserveBalance' + donated'
      BY <1>1, <2>3, PoolTypes
    <3>2. tradeFee' \in TradeFees /\ maxTradeBps' \in Nat /\ maxTradeBps' <= 10000
      BY <1>1, <2>3, PoolTypes
    <3>3. LatchTracksPeak'
      BY <1>1, <2>3, LatchStays
    <3>4. PICK r \in Nat, d \in Nat : reserveBalance' = r /\ donated' = d /\ usdc' = r + d
      BY <3>1
    <3> QED BY <2>2, <3>3, <3>4, <3>2, ReserveFollows
  <2> QED BY <2>1, <2>4 DEF MarketInv
<1>3. CASE \E u \in Users, spent \in Spends : Buy(u, spent)
  BY <1>3, BuyStep
<1>4. CASE \E u \in Users \union {Supplier}, tokens \in Sales : Sell(u, tokens)
  BY <1>4, SellStep
<1>5. CASE \/ \E amount \in Spends :
                DepositFees(amount) \/ Donate(amount) \/ WithdrawTreasury(amount)
           \/ DeployPool \/ Govern
  BY <1>5, PoolStep
<1>6. CASE UNCHANGED vars
  <2>1. Unmoved /\ policy' = policy /\ UNCHANGED <<eth, deploymentFee>>
    BY <1>6 DEF vars, managerVars, Unmoved, admin, escrow
  <2>2. SupplyInv' /\ BooksInv'
    BY <1>1, <2>1, BooksUnmoved DEF SupplyInv
  <2>3. UNCHANGED <<reserveBalance, usdc, donated, hasGraduated, crossed, tradeFee, maxTradeBps>>
    BY <1>6 DEF vars, pool, settings
  <2>4. PoolInv'
    BY <1>1, <2>1, <2>3 DEF PoolInv, PoolAccounted, PoolBacked, LatchTracksPeak
  <2> QED BY <2>2, <2>4 DEF MarketInv
<1> QED BY <1>2, <1>3, <1>4, <1>5, <1>6 DEF Next

\* The books of the market, as an invariant of its specification.
THEOREM MarketInvariant == Spec => []MarketInv
<1>1. Init => MarketInv
  BY MarketInit
<1>2. MarketInv /\ [Next]_vars => MarketInv'
  BY MarketStep
<1> QED BY <1>1, <1>2, PTL DEF Spec

\* Whatever is deployed, minted, rewarded, vested, claimed, released, sold and
\* burnt: a capped token has no more supply than its counters account for, the
\* vault holds what its schedules owe, no schedule has paid more than has vested,
\* and the escrow has, awaits or released all it was given.
THEOREM TokensAlwaysAccounted == Spec => []TokensAccounted
<1>1. MarketInv => TokensAccounted
  <2> SUFFICES ASSUME MarketInv PROVE TokensAccounted
    OBVIOUS
  <2>1. SupplyInv /\ BooksInv /\ PoolInv
    BY DEF MarketInv
  <2>2. MarketTypeOK
    BY <2>1, PoolTypes DEF SupplyInv, BooksInv, Kinds, Holdings, MarketTypeOK
  <2>3. CountersCoverSupply
    BY <2>1 DEF SupplyInv, Covered, CountersCoverSupply, Capped
  <2>4. VestingBacked /\ EscrowAccounts
    BY <2>1, OwedIsDue DEF BooksInv, VestingBacked, EscrowAccounts
  <2>5. ClaimsWithinVesting
    BY <2>1 DEF BooksInv, SoundSchedules, ClaimsWithinVesting
  <2> QED BY <2>2, <2>3, <2>4, <2>5 DEF TokensAccounted
<1> QED BY <1>1, MarketInvariant, PTL

\* The pool always holds its reserve, and its graduation latch is set exactly if
\* the reserve was ever at the threshold.
THEOREM PoolAlwaysAccounted == Spec => []PoolAccounted
<1>1. MarketInv => PoolAccounted
  BY DEF MarketInv, PoolInv
<1> QED BY <1>1, MarketInvariant, PTL

=============================================================================
