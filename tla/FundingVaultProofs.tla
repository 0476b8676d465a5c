------------------------- MODULE FundingVaultProofs -------------------------
(***************************************************************************)
(* Theorems about FundingVault, for every value of its constants.          *)
(***************************************************************************)
EXTENDS FundingVault, CountingTheorems

-----------------------------------------------------------------------------
(* The inductive invariant.                                                *)

\* A proposal is registered, announced and graduated in this order; nothing is
\* committed before it is registered, something once it is announced.
FlagsOrdered ==
  /\ graduated \subseteq graduationAnnounced
  /\ graduationAnnounced \subseteq registered
  /\ \A m \in graduationAnnounced : totalCommitted[m] > 0
  /\ \A m \in Models \ registered : totalCommitted[m] = 0

\* The depositors' list has everyone who has, or once had, a stake, once.
DepositorsListed ==
  \A m \in Models :
    /\ \A i, j \in DOMAIN depositors[m] : depositors[m][i] = depositors[m][j] => i = j
    /\ \A u \in Users :
         commitments[m][u] > 0 \/ snapshottedCommitments[m][u] > 0 => IsDepositor(m, u)

\* Claims are counted, and made by depositors of graduated proposals only.
ClaimsCounted ==
  \A m \in Models :
    /\ claimed[m] # {} => m \in graduated
    /\ claimed[m] \subseteq Claimants(m)
    /\ claimedAccounts[m] = Cardinality(claimed[m])
    /\ \A u \in Users \ claimed[m] : received[m][u] = 0

VaultInv ==
  /\ VaultTypeOK /\ VaultSolvent /\ SnapshotExact
  /\ FlagsOrdered /\ DepositorsListed /\ ClaimsCounted

-----------------------------------------------------------------------------
(* What the invariant says of one proposal.                                *)

\* What one depositor has committed is part of the total, and the total of an
\* ungraduated proposal is part of the vault's balance.
LEMMA StakesBacked ==
  ASSUME VaultInv, NEW m \in Models
  PROVE  /\ \A u \in Users : commitments[m][u] <= totalCommitted[m]
         /\ m \notin graduated => totalCommitted[m] <= usdc
<1>1. IsFiniteSet(Users) /\ IsFiniteSet(Models \ graduated)
  BY VaultConstants, FS_Difference DEF VaultConstants
<1>2. \A u \in Users : commitments[m][u] \in Nat
  BY DEF VaultInv, VaultTypeOK
<1>3. \A n \in Models \ graduated : totalCommitted[n] \in Nat
  BY DEF VaultInv, VaultTypeOK
<1>4. \A u \in Users : commitments[m][u] <= SumOf(commitments[m], Users)
  BY <1>1, <1>2, SumBounds
<1>5. ASSUME m \notin graduated
      PROVE  totalCommitted[m] <= SumOf(totalCommitted, Models \ graduated)
  BY <1>1, <1>3, <1>5, SumBounds
<1> QED BY <1>4, <1>5 DEF VaultInv, VaultSolvent

\* A share is a whole number of tokens, and of the live commitment.
LEMMA ShareType ==
  ASSUME VaultInv, NEW m \in graduated, NEW u \in Users
  PROVE  /\ Share(m, u) \in Nat
         /\ Share(m, u) = (commitments[m][u] * totalTokens[m]) \div totalCommitted[m]
<1>1. m \in graduationAnnounced /\ m \in Models
  BY DEF VaultInv, FlagsOrdered, VaultTypeOK
<1>2. /\ snapshottedCommitments[m] = commitments[m]
      /\ snapshotTotalCommitted[m] = totalCommitted[m]
  BY <1>1 DEF VaultInv, SnapshotExact
<1>3. commitments[m][u] \in Nat /\ totalTokens[m] \in Nat
  BY <1>1 DEF VaultInv, VaultTypeOK
<1>4. totalCommitted[m] \in Nat /\ totalCommitted[m] > 0
  BY <1>1 DEF VaultInv, VaultTypeOK, FlagsOrdered
<1>5. commitments[m][u] * totalTokens[m] \in Nat
  BY <1>3
<1>6. (commitments[m][u] * totalTokens[m]) \div totalCommitted[m] \in Nat
  BY <1>4, <1>5
<1> QED BY <1>2, <1>6 DEF Share

\* The announcement's loop over the depositors' list counts the claimants.
LEMMA LoopCountsClaimants ==
  ASSUME VaultInv, NEW m \in Models
  PROVE  Cardinality({i \in DOMAIN depositors[m] :
                        commitments[m][depositors[m][i]] > 0})
           = Cardinality(Claimants(m))
<1> DEFINE list == depositors[m]
           places == {i \in DOMAIN list : commitments[m][list[i]] > 0}
           who == [i \in places |-> list[i]]
<1>1. list \in Seq(Users)
  BY DEF VaultInv, VaultTypeOK
<1>2. DOMAIN list = 1..Len(list) /\ Len(list) \in Nat
  BY <1>1
<1>3. IsFiniteSet(places)
  <2>1. IsFiniteSet(1..Len(list))
    BY <1>2, FS_Interval
  <2> QED BY <1>2, <2>1, FS_Subset
<1>4. who \in [places -> Claimants(m)]
  BY <1>1, <1>2 DEF Claimants
<1>5. \A i, j \in places : who[i] = who[j] => i = j
  BY DEF VaultInv, DepositorsListed
<1>6. \A u \in Claimants(m) : \E i \in places : who[i] = u
  BY DEF VaultInv, DepositorsListed, IsDepositor, Claimants
<1>7. who \in Bijection(places, Claimants(m))
  <2>1. who \in Injection(places, Claimants(m))
    BY <1>4, <1>5 DEF Injection, IsInjective
  <2>2. who \in Surjection(places, Claimants(m))
    BY <1>4, <1>6 DEF Surjection
  <2> QED BY <2>1, <2>2 DEF Bijection
<1>8. ExistsBijection(places, Claimants(m))
  BY <1>7 DEF ExistsBijection
<1> QED BY <1>3, <1>8, FS_Bijection


USE DEF terms, stakes, snapshot, flags, claims, world

-----------------------------------------------------------------------------
(* Preservation.                                                           *)

LEMMA InitInv == Init => VaultInv
<1> SUFFICES ASSUME Init PROVE VaultInv
  OBVIOUS
<1>1. VaultTypeOK
  BY DEF Init, VaultTypeOK, Zero, ZeroEach
<1>2. VaultSolvent
  <2>1. \A m \in Models : SumOf(commitments[m], Users) = 0
    BY SumZero DEF Init, ZeroEach
  <2>2. SumOf(totalCommitted, Models \ graduated) = 0
    BY SumZero DEF Init, Zero
  <2> QED BY <2>1, <2>2 DEF VaultSolvent, Init, Zero
<1>3. ClaimsCounted
  BY FS_EmptySet DEF Init, ClaimsCounted, Zero, ZeroEach
<1>4. SnapshotExact /\ FlagsOrdered /\ DepositorsListed
  BY DEF Init, SnapshotExact, FlagsOrdered, DepositorsListed, Zero, ZeroEach
<1> QED BY <1>1, <1>2, <1>3, <1>4 DEF VaultInv

\* No step takes a balance or a total below zero.
LEMMA TypeStep ==
  ASSUME VaultInv, Next
  PROVE  VaultTypeOK'
<1> USE DEF VaultTypeOK
<1>0. VaultTypeOK
  BY DEF VaultInv
<1>1. ASSUME NEW m \in Models, NEW time \in Deadlines, RegisterProposal(m, time)
      PROVE  VaultTypeOK'
  <2>1. deadline' \in [Models -> Nat] /\ registered' \in SUBSET Models
    BY <1>0, <1>1, VaultConstants DEF VaultConstants, RegisterProposal
  <2> QED BY <1>0, <1>1, <2>1 DEF RegisterProposal
<1>2. ASSUME NEW m \in Models, NEW u \in Users, NEW amount \in Amounts, Deposit(m, u, amount)
      PROVE  VaultTypeOK'
  <2>1. amount \in Nat
    BY VaultConstants DEF VaultConstants
  <2>2. depositors' \in [Models -> Seq(Users)]
    BY <1>0, <1>2 DEF Deposit, PushOnce
  <2>3. commitments' \in [Models -> [Users -> Nat]]
    BY <1>0, <1>2, <2>1, SMTT(30) DEF Deposit
  <2>4. totalCommitted' \in [Models -> Nat] /\ usdc' \in Nat
    BY <1>0, <1>2, <2>1, SMTT(30) DEF Deposit
  <2> QED BY <1>0, <1>2, <2>2, <2>3, <2>4 DEF Deposit
<1>3. ASSUME NEW m \in Models, NEW u \in Users, Withdraw(m, u)
      PROVE  VaultTypeOK'
  <2>1. commitments[m][u] <= totalCommitted[m] /\ totalCommitted[m] <= usdc
    BY <1>0, <1>3, StakesBacked DEF Withdraw, CanWithdraw, Open
  <2>2. commitments[m][u] \in Nat /\ totalCommitted[m] \in Nat /\ usdc \in Nat
    BY <1>0
  <2>3. totalCommitted[m] - commitments[m][u] \in Nat /\ usdc - commitments[m][u] \in Nat
    BY <2>1, <2>2
  <2>4. commitments' \in [Models -> [Users -> Nat]]
    BY <1>0, <1>3 DEF Withdraw, CanWithdraw
  <2>5. totalCommitted' \in [Models -> Nat] /\ usdc' \in Nat
    BY <1>0, <1>3, <2>3 DEF Withdraw, CanWithdraw
  <2> QED BY <1>0, <1>3, <2>4, <2>5 DEF Withdraw, CanWithdraw
<1>4. ASSUME NEW m \in Models, AnnounceGraduation(m)
      PROVE  VaultTypeOK'
  <2>1. Cardinality(Claimants(m)) \in Nat
    <3>1. IsFiniteSet(Claimants(m))
      BY VaultConstants, FS_Subset DEF VaultConstants, Claimants
    <3> QED BY <3>1, FS_CardinalityType
  <2>2. claimableAccounts' \in [Models -> Nat]
    BY <1>0, <1>4, <2>1, LoopCountsClaimants DEF AnnounceGraduation
  <2>3. snapshottedCommitments' \in [Models -> [Users -> Nat]]
    <3> DEFINE frozen == [u \in Users |-> IF IsDepositor(m, u) THEN commitments[m][u]
                                         ELSE snapshottedCommitments[m][u]]
    <3>1. frozen \in [Users -> Nat]
      BY <1>0
    <3>2. snapshottedCommitments' = [snapshottedCommitments EXCEPT ![m] = frozen]
      BY <1>0, <1>4 DEF AnnounceGraduation, FreezeCommitments
    <3> HIDE DEF frozen
    <3> QED BY <1>0, <3>1, <3>2
  <2>4. /\ snapshotTotalCommitted' \in [Models -> Nat]
        /\ graduationAnnounced' \in SUBSET Models
    BY <1>0, <1>4 DEF AnnounceGraduation
  <2> QED BY <1>0, <1>4, <2>2, <2>3, <2>4 DEF AnnounceGraduation
<1>5. ASSUME NEW m \in Models, CancelGraduation(m)
      PROVE  VaultTypeOK'
  BY <1>0, <1>5 DEF CancelGraduation
<1>6. ASSUME NEW m \in Models, NEW tokens \in Purchases, Graduate(m, tokens)
      PROVE  VaultTypeOK'
  <2>1. snapshotTotalCommitted[m] = totalCommitted[m]
    BY <1>6 DEF Graduate, VaultInv, SnapshotExact
  <2>2. totalCommitted[m] <= usdc
    BY <1>6, StakesBacked DEF Graduate
  <2>3. totalCommitted[m] \in Nat /\ usdc \in Nat
    BY <1>0
  <2>4. usdc' \in Nat
    BY <1>6, <2>1, <2>2, <2>3 DEF Graduate
  <2>5. tokens \in Nat
    BY VaultConstants DEF VaultConstants
  <2>6. tokenBalance' \in [Models -> Nat]
    BY <1>0, <1>6, <2>5 DEF Graduate
  <2>7. totalTokens' \in [Models -> Nat]
    BY <1>0, <1>6, <2>5 DEF Graduate
  <2>8. graduated' \in SUBSET Models /\ pool' \in SUBSET Models
    BY <1>0, <1>6 DEF Graduate
  <2> QED BY <1>0, <1>6, <2>4, <2>6, <2>7, <2>8 DEF Graduate
<1>7. ASSUME NEW m \in Models, NEW u \in Users, Claim(m, u)
      PROVE  VaultTypeOK'
  <2>1. Share(m, u) \in Nat
    BY <1>7, ShareType DEF Claim, CanClaim
  <2>2. tokenBalance[m] - Share(m, u) \in Nat
    BY <1>0, <1>7, <2>1 DEF Claim, CanClaim
  <2>3. tokenBalance' \in [Models -> Nat]
    BY <1>0, <1>7, <2>2 DEF Claim, CanClaim
  <2>4. received' \in [Models -> [Users -> Nat]]
    <3>1. received[m][u] + Share(m, u) \in Nat
      BY <1>0, <2>1
    <3> QED BY <1>0, <1>7, <3>1 DEF Claim, CanClaim
  <2>5. claimed' \in [Models -> SUBSET Users]
    BY <1>0, <1>7 DEF Claim, CanClaim
  <2>6. claimedAccounts' \in [Models -> Nat]
    BY <1>0, <1>7 DEF Claim, CanClaim
  <2> QED BY <1>0, <1>7, <2>3, <2>4, <2>5, <2>6 DEF Claim, CanClaim
<1>8. ASSUME NEW m \in Models, SweepDust(m)
      PROVE  VaultTypeOK'
  BY <1>0, <1>8 DEF SweepDust
<1>9. ASSUME WorldStep
      PROVE  VaultTypeOK'
  <2>1. ASSUME NEW m \in Models, NEW s \in {"active", "inactive"}, SetModelStatus(m, s)
        PROVE  VaultTypeOK'
    <3>1. status' \in [Models -> {"unregistered", "active", "inactive"}]
      BY <1>0, <2>1 DEF SetModelStatus
    <3> QED BY <1>0, <2>1, <3>1 DEF SetModelStatus
  <2>2. ASSUME NEW m \in Models, RegisterPool(m)
        PROVE  VaultTypeOK'
    BY <1>0, <2>2 DEF RegisterPool
  <2>3. ASSUME NEW m \in Models, SendToken(m)
        PROVE  VaultTypeOK'
    <3>1. tokenBalance' \in [Models -> Nat] /\ gifts' \in Nat
      BY <1>0, <2>3 DEF SendToken
    <3> QED BY <1>0, <2>3, <3>1 DEF SendToken
  <2>4. ASSUME Tick
        PROVE  VaultTypeOK'
    BY <1>0, <2>4 DEF Tick
  <2> QED BY <1>9, <2>1, <2>2, <2>3, <2>4 DEF WorldStep
<1> HIDE DEF VaultTypeOK
<1> QED
  BY <1>1, <1>2, <1>3, <1>4, <1>5, <1>6, <1>7, <1>8, <1>9
  DEF Next, DepositorStep, AdminStep

\* A step moves the same amount in a commitment, its total and the balance, or
\* takes a graduated proposal's total out of the balance.
LEMMA SolventStep ==
  ASSUME VaultInv, Next
  PROVE  VaultSolvent'
<1>0. /\ VaultTypeOK /\ VaultTypeOK' /\ VaultSolvent
      /\ IsFiniteSet(Users) /\ IsFiniteSet(Models \ graduated)
  <2>1. VaultTypeOK /\ VaultTypeOK' /\ VaultSolvent
    BY TypeStep DEF VaultInv
  <2>2. IsFiniteSet(Users) /\ IsFiniteSet(Models)
    BY VaultConstants DEF VaultConstants
  <2>3. IsFiniteSet(Models \ graduated)
    BY <2>2, FS_Difference
  <2> QED BY <2>1, <2>2, <2>3
<1>1. ASSUME NEW m \in Models \ graduated, NEW u \in Users,
             graduated' = graduated,
             \A n \in Models \ {m} :
               commitments'[n] = commitments[n] /\ totalCommitted'[n] = totalCommitted[n],
             \A v \in Users \ {u} : commitments'[m][v] = commitments[m][v],
             totalCommitted'[m] - totalCommitted[m] = commitments'[m][u] - commitments[m][u],
             usdc' - usdc = commitments'[m][u] - commitments[m][u]
      PROVE  VaultSolvent'
  <2> DEFINE old == commitments[m]
             new == commitments'[m]
             open == Models \ graduated
  <2>1. /\ \A v \in Users : old[v] \in Nat /\ new[v] \in Nat
        /\ \A n \in Models : totalCommitted[n] \in Nat /\ totalCommitted'[n] \in Nat
        /\ usdc \in Nat /\ usdc' \in Nat
    <3>1. /\ commitments[m] \in [Users -> Nat]
          /\ commitments'[m] \in [Users -> Nat]
      BY <1>0 DEF VaultTypeOK
    <3>2. /\ totalCommitted \in [Models -> Nat] /\ totalCommitted' \in [Models -> Nat]
          /\ usdc \in Nat /\ usdc' \in Nat
      BY <1>0 DEF VaultTypeOK
    <3> QED BY <3>1, <3>2
  <2>2. /\ \A n \in Models : totalCommitted[n] = SumOf(commitments[n], Users)
        /\ usdc = SumOf(totalCommitted, open)
    BY <1>0 DEF VaultSolvent
  <2>3. \A v \in Users \ {u} : new[v] = old[v]
    BY <1>1
  <2>4. SumOf(new, Users) = SumOf(old, Users) - old[u] + new[u]
    <3> HIDE DEF old, new
    <3> QED BY <1>0, <2>1, <2>3, SumChange
  <2>5. totalCommitted'[m] = SumOf(commitments'[m], Users)
    BY <1>1, <2>1, <2>2, <2>4
  <2>6. SumOf(totalCommitted', open) = SumOf(totalCommitted, open) - totalCommitted[m] + totalCommitted'[m]
    <3>1. \A n \in open \ {m} : totalCommitted'[n] = totalCommitted[n]
      BY <1>1
    <3>2. /\ \A n \in open : totalCommitted[n] \in Nat
          /\ \A n \in open : totalCommitted'[n] \in Nat
      BY <2>1
    <3> HIDE DEF open
    <3> QED BY <1>0, <1>1, <3>1, <3>2, SumChange DEF open
  <2>7. usdc' = SumOf(totalCommitted', Models \ graduated')
    BY <1>1, <2>1, <2>2, <2>6
  <2>8. \A n \in Models : totalCommitted'[n] = SumOf(commitments'[n], Users)
    BY <1>1, <2>2, <2>5
  <2> QED BY <2>7, <2>8 DEF VaultSolvent
<1>2. ASSUME NEW m \in Models, NEW u \in Users, NEW amount \in Amounts, Deposit(m, u, amount)
      PROVE  VaultSolvent'
  <2>1. amount \in Nat /\ usdc \in Nat /\ totalCommitted[m] \in Nat /\ commitments[m][u] \in Nat
    BY <1>0, VaultConstants DEF VaultConstants, VaultTypeOK
  <2>2. /\ commitments'[m][u] = commitments[m][u] + amount
        /\ totalCommitted'[m] = totalCommitted[m] + amount
        /\ usdc' = usdc + amount
    BY <1>0, <1>2 DEF Deposit, VaultTypeOK
  <2>3. /\ m \in Models \ graduated /\ graduated' = graduated
        /\ \A n \in Models \ {m} :
             commitments'[n] = commitments[n] /\ totalCommitted'[n] = totalCommitted[n]
        /\ \A v \in Users \ {u} : commitments'[m][v] = commitments[m][v]
    BY <1>0, <1>2 DEF Deposit, Open, VaultTypeOK
  <2> QED BY <1>1, <2>1, <2>2, <2>3
<1>3. ASSUME NEW m \in Models, NEW u \in Users, Withdraw(m, u)
      PROVE  VaultSolvent'
  <2>1. usdc \in Nat /\ totalCommitted[m] \in Nat /\ commitments[m][u] \in Nat
    BY <1>0 DEF VaultTypeOK
  <2>2. /\ commitments'[m][u] = 0
        /\ totalCommitted'[m] = totalCommitted[m] - commitments[m][u]
        /\ usdc' = usdc - commitments[m][u]
    BY <1>0, <1>3 DEF Withdraw, CanWithdraw, VaultTypeOK
  <2>3. /\ m \in Models \ graduated /\ graduated' = graduated
        /\ \A n \in Models \ {m} :
             commitments'[n] = commitments[n] /\ totalCommitted'[n] = totalCommitted[n]
        /\ \A v \in Users \ {u} : commitments'[m][v] = commitments[m][v]
    BY <1>0, <1>3 DEF Withdraw, CanWithdraw, Open, VaultTypeOK
  <2> QED BY <1>1, <2>1, <2>2, <2>3
<1>4. ASSUME NEW m \in Models, NEW tokens \in Purchases, Graduate(m, tokens)
      PROVE  VaultSolvent'
  <2> DEFINE open == Models \ graduated
  <2>1. /\ snapshotTotalCommitted[m] = totalCommitted[m]
        /\ m \in open /\ (Models \ graduated') = open \ {m}
        /\ usdc' = usdc - snapshotTotalCommitted[m]
        /\ totalCommitted' = totalCommitted /\ commitments' = commitments
    BY <1>4 DEF Graduate, VaultInv, SnapshotExact
  <2>2. /\ usdc = SumOf(totalCommitted, open)
        /\ \A n \in open : totalCommitted[n] \in Nat
        /\ IsFiniteSet(open)
    BY <1>0 DEF VaultSolvent, VaultTypeOK
  <2>3. IsFiniteSet(open \ {m})
    BY <2>2, FS_RemoveElement
  <2>4. SumOf(totalCommitted, open \ {m}) \in Nat
    BY <2>2, <2>3, SumType
  <2>5. SumOf(totalCommitted, open) = SumOf(totalCommitted, open \ {m}) + totalCommitted[m]
    <3> HIDE DEF open
    <3> QED BY <2>1, <2>2, SumSplit
  <2>6. usdc' = SumOf(totalCommitted, open \ {m})
    BY <2>1, <2>2, <2>4, <2>5
  <2> QED BY <1>0, <2>1, <2>6 DEF VaultSolvent
<1>5. ASSUME UNCHANGED <<commitments, totalCommitted, usdc, graduated>>
      PROVE  VaultSolvent'
  BY <1>0, <1>5 DEF VaultSolvent
<1> QED
  BY <1>2, <1>3, <1>4, <1>5
  DEF Next, DepositorStep, AdminStep, WorldStep, RegisterProposal, AnnounceGraduation,
      CancelGraduation, Claim, SweepDust, SetModelStatus, RegisterPool, SendToken, Tick

\* Announced proposals keep their stakes, and only announced ones graduate.
LEMMA FlagsStep ==
  ASSUME VaultInv, Next
  PROVE  FlagsOrdered'
<1>0. VaultTypeOK /\ FlagsOrdered
  BY DEF VaultInv
<1>1. ASSUME NEW m \in registered, m \notin graduationAnnounced,
             UNCHANGED <<registered, graduated, graduationAnnounced>>,
             \A n \in Models \ {m} : totalCommitted'[n] = totalCommitted[n]
      PROVE  FlagsOrdered'
  BY <1>0, <1>1 DEF FlagsOrdered, VaultTypeOK
<1>2. ASSUME NEW m \in Models, NEW u \in Users, NEW amount \in Amounts, Deposit(m, u, amount)
      PROVE  FlagsOrdered'
  BY <1>0, <1>1, <1>2 DEF Deposit, Open, VaultTypeOK
<1>3. ASSUME NEW m \in Models, NEW u \in Users, Withdraw(m, u)
      PROVE  FlagsOrdered'
  BY <1>0, <1>1, <1>3 DEF Withdraw, CanWithdraw, Open, VaultTypeOK
<1>4. ASSUME NEW m \in Models, NEW time \in Deadlines, RegisterProposal(m, time)
      PROVE  FlagsOrdered'
  BY <1>0, <1>4 DEF RegisterProposal, FlagsOrdered
<1>5. ASSUME NEW m \in Models, AnnounceGraduation(m)
      PROVE  FlagsOrdered'
  BY <1>0, <1>5 DEF AnnounceGraduation, Open, FlagsOrdered
<1>6. ASSUME NEW m \in Models, CancelGraduation(m)
      PROVE  FlagsOrdered'
  BY <1>0, <1>6 DEF CancelGraduation, Cancellable, FlagsOrdered
<1>7. ASSUME NEW m \in Models, NEW tokens \in Purchases, Graduate(m, tokens)
      PROVE  FlagsOrdered'
  BY <1>0, <1>7 DEF Graduate, FlagsOrdered
<1>8. ASSUME UNCHANGED <<registered, graduated, graduationAnnounced, totalCommitted>>
      PROVE  FlagsOrdered'
  BY <1>0, <1>8 DEF FlagsOrdered
<1> QED
  BY <1>2, <1>3, <1>4, <1>5, <1>6, <1>7, <1>8
  DEF Next, DepositorStep, AdminStep, WorldStep, Claim, SweepDust, SetModelStatus,
      RegisterPool, SendToken, Tick

\* An announced proposal's stakes and snapshot stay as they are, and the
\* announcement overwrites every entry an earlier one may have left.
LEMMA SnapshotStep ==
  ASSUME VaultInv, Next
  PROVE  SnapshotExact'
<1>0. VaultTypeOK /\ SnapshotExact /\ DepositorsListed
  BY DEF VaultInv
<1> DEFINE Kept(n) ==
      /\ commitments'[n] = commitments[n] /\ totalCommitted'[n] = totalCommitted[n]
      /\ snapshottedCommitments'[n] = snapshottedCommitments[n]
      /\ snapshotTotalCommitted'[n] = snapshotTotalCommitted[n]
      /\ claimableAccounts'[n] = claimableAccounts[n]
<1>1. ASSUME \A n \in graduationAnnounced' : n \in graduationAnnounced /\ Kept(n)
      PROVE  SnapshotExact'
  BY <1>0, <1>1 DEF SnapshotExact, Claimants
<1>2. ASSUME NEW m \in Models, NEW u \in Users, NEW amount \in Amounts, Deposit(m, u, amount)
      PROVE  SnapshotExact'
  BY <1>0, <1>1, <1>2 DEF Deposit, Open, VaultTypeOK
<1>3. ASSUME NEW m \in Models, NEW u \in Users, Withdraw(m, u)
      PROVE  SnapshotExact'
  BY <1>0, <1>1, <1>3 DEF Withdraw, CanWithdraw, Open, VaultTypeOK
<1>4. ASSUME NEW m \in Models, AnnounceGraduation(m)
      PROVE  SnapshotExact'
  <2>1. /\ commitments' = commitments /\ totalCommitted' = totalCommitted
        /\ graduationAnnounced' = graduationAnnounced \union {m}
    BY <1>4 DEF AnnounceGraduation
  <2>2. \A n \in graduationAnnounced \ {m} : Kept(n)
    BY <1>0, <1>4 DEF AnnounceGraduation, FreezeCommitments, VaultTypeOK
  <2>3. snapshottedCommitments'[m] = commitments[m]
    <3>1. commitments[m] \in [Users -> Nat] /\ snapshottedCommitments[m] \in [Users -> Nat]
      BY <1>0 DEF VaultTypeOK
    <3>2. \A u \in Users : ~IsDepositor(m, u) => snapshottedCommitments[m][u] = commitments[m][u]
      BY <1>0, <3>1 DEF DepositorsListed
    <3>3. snapshottedCommitments'[m] = [u \in Users |->
            IF IsDepositor(m, u) THEN commitments[m][u] ELSE snapshottedCommitments[m][u]]
      BY <1>0, <1>4 DEF AnnounceGraduation, FreezeCommitments, VaultTypeOK
    <3>4. \A u \in Users : snapshottedCommitments'[m][u] = commitments[m][u]
      BY <3>2, <3>3
    <3> QED BY <3>1, <3>3, <3>4
  <2>4. snapshotTotalCommitted'[m] = totalCommitted[m]
    BY <1>0, <1>4 DEF AnnounceGraduation, VaultTypeOK
  <2>5. claimableAccounts'[m] = Cardinality(Claimants(m))
    BY <1>0, <1>4, LoopCountsClaimants DEF AnnounceGraduation, VaultTypeOK
  <2>6. \A n \in graduationAnnounced \ {m} :
          /\ snapshottedCommitments'[n] = commitments'[n]
          /\ snapshotTotalCommitted'[n] = totalCommitted'[n]
          /\ claimableAccounts'[n] = Cardinality(Claimants(n))
    BY <1>0, <2>2 DEF SnapshotExact
  <2> QED BY <2>1, <2>3, <2>4, <2>5, <2>6 DEF SnapshotExact, Claimants
<1>5. ASSUME NEW m \in Models, CancelGraduation(m)
      PROVE  SnapshotExact'
  BY <1>0, <1>1, <1>5 DEF CancelGraduation, VaultTypeOK
<1>6. ASSUME UNCHANGED <<graduationAnnounced, commitments, totalCommitted, snapshot>>
      PROVE  SnapshotExact'
  BY <1>1, <1>6
<1> QED
  BY <1>2, <1>3, <1>4, <1>5, <1>6
  DEF Next, DepositorStep, AdminStep, WorldStep, RegisterProposal, Graduate,
      Claim, SweepDust, SetModelStatus, RegisterPool, SendToken, Tick

\* The list only grows, by a depositor who is not on it yet.
LEMMA ListedStep ==
  ASSUME VaultInv, Next
  PROVE  DepositorsListed'
<1>0. VaultTypeOK /\ DepositorsListed
  BY DEF VaultInv
<1>1. ASSUME NEW m \in Models, NEW u \in Users, NEW amount \in Amounts, Deposit(m, u, amount)
      PROVE  DepositorsListed'
  <2>1. /\ snapshottedCommitments' = snapshottedCommitments
        /\ \A n \in Models \ {m} : commitments'[n] = commitments[n]
        /\ \A v \in Users \ {u} : commitments'[m][v] = commitments[m][v]
    BY <1>0, <1>1 DEF Deposit, VaultTypeOK
  <2>2. \A n \in Models \ {m} : depositors'[n] = depositors[n]
    BY <1>0, <1>1 DEF Deposit, PushOnce, VaultTypeOK
  <2>3. depositors[m] \in Seq(Users)
    BY <1>0 DEF VaultTypeOK
  <2>4. CASE IsDepositor(m, u)
    <3>1. depositors' = depositors
      BY <1>1, <2>4 DEF Deposit, PushOnce
    <3>2. \A v \in Users : commitments'[m][v] > 0 => IsDepositor(m, v)
      BY <1>0, <2>1, <2>4 DEF DepositorsListed
    <3> QED BY <1>0, <2>1, <3>1, <3>2 DEF DepositorsListed, IsDepositor
  <2>5. CASE ~IsDepositor(m, u)
    <3>1. depositors'[m] = Append(depositors[m], u)
      BY <1>0, <1>1, <2>5 DEF Deposit, PushOnce, VaultTypeOK
    <3>2. \A i, j \in DOMAIN depositors'[m] : depositors'[m][i] = depositors'[m][j] => i = j
      BY <1>0, <2>3, <2>5, <3>1 DEF DepositorsListed, IsDepositor
    <3>3. \A v \in Users : IsDepositor(m, v) \/ v = u =>
            \E i \in DOMAIN depositors'[m] : depositors'[m][i] = v
      <4>1. Len(depositors[m]) \in Nat /\ DOMAIN depositors[m] = 1..Len(depositors[m])
        BY <2>3
      <4>2. /\ DOMAIN depositors'[m] = 1..(Len(depositors[m]) + 1)
            /\ depositors'[m][Len(depositors[m]) + 1] = u
            /\ \A i \in 1..Len(depositors[m]) : depositors'[m][i] = depositors[m][i]
        BY <2>3, <3>1
      <4> QED BY <4>1, <4>2 DEF IsDepositor
    <3>4. \A v \in Users : commitments'[m][v] > 0 \/ snapshottedCommitments'[m][v] > 0 =>
            IsDepositor(m, v)'
      BY <1>0, <2>1, <3>3 DEF DepositorsListed, IsDepositor
    <3>5. \A n \in Models \ {m} :
            /\ \A i, j \in DOMAIN depositors'[n] : depositors'[n][i] = depositors'[n][j] => i = j
            /\ \A v \in Users :
                 commitments'[n][v] > 0 \/ snapshottedCommitments'[n][v] > 0 => IsDepositor(n, v)'
      BY <1>0, <2>1, <2>2 DEF DepositorsListed, IsDepositor
    <3> QED BY <3>2, <3>4, <3>5 DEF DepositorsListed
  <2> QED BY <2>4, <2>5
<1>2. ASSUME NEW m \in Models, NEW u \in Users, Withdraw(m, u)
      PROVE  DepositorsListed'
  <2>1. \A n \in Models, v \in Users : commitments'[n][v] > 0 => commitments[n][v] > 0
    BY <1>0, <1>2 DEF Withdraw, CanWithdraw, VaultTypeOK
  <2> QED BY <1>0, <1>2, <2>1 DEF Withdraw, CanWithdraw, DepositorsListed, IsDepositor
<1>3. ASSUME NEW m \in Models, AnnounceGraduation(m)
      PROVE  DepositorsListed'
  <2>1. \A n \in Models, v \in Users : snapshottedCommitments'[n][v] > 0 => IsDepositor(n, v)
    BY <1>0, <1>3 DEF AnnounceGraduation, FreezeCommitments, VaultTypeOK, DepositorsListed
  <2> QED BY <1>0, <1>3, <2>1 DEF AnnounceGraduation, DepositorsListed, IsDepositor
<1>4. ASSUME UNCHANGED <<depositors, commitments, snapshottedCommitments>>
      PROVE  DepositorsListed'
  BY <1>0, <1>4 DEF DepositorsListed, IsDepositor
<1> QED
  BY <1>1, <1>2, <1>3, <1>4
  DEF Next, DepositorStep, AdminStep, WorldStep, RegisterProposal, CancelGraduation,
      Graduate, Claim, SweepDust, SetModelStatus, RegisterPool, SendToken, Tick

\* Nobody claims twice, and stakes are fixed before the first claim.
LEMMA ClaimsStep ==
  ASSUME VaultInv, Next
  PROVE  ClaimsCounted'
<1>0. VaultTypeOK /\ ClaimsCounted /\ SnapshotExact /\ FlagsOrdered
  BY DEF VaultInv
<1>1. ASSUME NEW m \in Models, m \notin graduated, UNCHANGED <<claims, graduated>>,
             \A n \in Models \ {m} : commitments'[n] = commitments[n]
      PROVE  ClaimsCounted'
  <2>1. claimed[m] = {}
    BY <1>0, <1>1 DEF ClaimsCounted
  <2> QED BY <1>0, <1>1, <2>1 DEF ClaimsCounted, Claimants
<1>2. ASSUME NEW m \in Models, NEW u \in Users, NEW amount \in Amounts, Deposit(m, u, amount)
      PROVE  ClaimsCounted'
  BY <1>0, <1>1, <1>2 DEF Deposit, Open, VaultTypeOK
<1>3. ASSUME NEW m \in Models, NEW u \in Users, Withdraw(m, u)
      PROVE  ClaimsCounted'
  BY <1>0, <1>1, <1>3 DEF Withdraw, CanWithdraw, Open, VaultTypeOK
<1>4. ASSUME NEW m \in Models, NEW u \in Users, Claim(m, u)
      PROVE  ClaimsCounted'
  <2>1. m \in graduated /\ u \notin claimed[m] /\ graduated' = graduated
        /\ commitments' = commitments
    BY <1>4 DEF Claim, CanClaim
  <2>2. u \in Claimants(m)
    BY <1>0, <1>4 DEF Claim, CanClaim, Claimants, SnapshotExact, FlagsOrdered
  <2>3. claimed'[m] = claimed[m] \union {u} /\ claimedAccounts'[m] = claimedAccounts[m] + 1
    BY <1>0, <1>4 DEF Claim, CanClaim, VaultTypeOK
  <2>4. claimedAccounts'[m] = Cardinality(claimed'[m])
    <3>1. IsFiniteSet(claimed[m])
      BY <1>0, VaultConstants, FS_Subset DEF VaultConstants, VaultTypeOK
    <3>2. Cardinality(claimed[m] \union {u}) = Cardinality(claimed[m]) + 1
      BY <2>1, <3>1, FS_AddElement
    <3> QED BY <1>0, <2>3, <3>2 DEF ClaimsCounted
  <2>5. \A v \in Users \ claimed'[m] : received'[m][v] = 0
    BY <1>0, <1>4, <2>3 DEF Claim, CanClaim, ClaimsCounted, VaultTypeOK
  <2>6. \A n \in Models \ {m} :
          /\ claimed'[n] = claimed[n] /\ claimedAccounts'[n] = claimedAccounts[n]
          /\ received'[n] = received[n]
    BY <1>0, <1>4 DEF Claim, CanClaim, VaultTypeOK
  <2>7. \A n \in Models : claimed'[n] \subseteq Claimants(n)
    BY <1>0, <2>2, <2>3, <2>6 DEF ClaimsCounted
  <2>8. \A n \in Models : Claimants(n)' = Claimants(n)
    BY <2>1 DEF Claimants
  <2> QED BY <1>0, <2>1, <2>4, <2>5, <2>6, <2>7, <2>8 DEF ClaimsCounted
<1>5. ASSUME graduated \subseteq graduated', UNCHANGED <<commitments, claims>>
      PROVE  ClaimsCounted'
  BY <1>0, <1>5 DEF ClaimsCounted, Claimants
<1> QED
  BY <1>2, <1>3, <1>4, <1>5
  DEF Next, DepositorStep, AdminStep, WorldStep, RegisterProposal, AnnounceGraduation,
      CancelGraduation, Graduate, SweepDust, SetModelStatus, RegisterPool, SendToken, Tick

-----------------------------------------------------------------------------
(* The theorems.                                                           *)

LEMMA InvStep == VaultInv /\ [Next]_vars => VaultInv'
<1> SUFFICES ASSUME VaultInv, [Next]_vars PROVE VaultInv'
  OBVIOUS
<1>1. CASE Next
  BY <1>1, TypeStep, SolventStep, SnapshotStep, FlagsStep, ListedStep, ClaimsStep DEF VaultInv
<1>2. CASE UNCHANGED vars
  <2>1. VaultTypeOK'
    BY <1>2 DEF vars, VaultInv, VaultTypeOK
  <2>2. VaultSolvent'
    BY <1>2 DEF vars, VaultInv, VaultSolvent
  <2>3. SnapshotExact'
    BY <1>2 DEF vars, VaultInv, SnapshotExact, Claimants
  <2>4. FlagsOrdered'
    BY <1>2 DEF vars, VaultInv, FlagsOrdered
  <2>5. DepositorsListed'
    BY <1>2 DEF vars, VaultInv, DepositorsListed, IsDepositor
  <2>6. ClaimsCounted'
    BY <1>2 DEF vars, VaultInv, ClaimsCounted, Claimants
  <2> QED BY <2>1, <2>2, <2>3, <2>4, <2>5, <2>6 DEF VaultInv
<1> QED BY <1>1, <1>2

\* The inductive invariant holds in every reachable state.
THEOREM VaultInvariant == Spec => []VaultInv
BY InitInv, InvStep, PTL DEF Spec

\* For every set of models and users and every amount, no balance, total or
\* count goes negative: FundingVault's subtractions never underflow.
THEOREM TypeCorrect == Spec => []VaultTypeOK
<1>1. VaultInv => VaultTypeOK
  BY DEF VaultInv
<1> QED BY <1>1, VaultInvariant, PTL

\* The pooled USDC is exactly what depositors of ungraduated proposals have
\* committed: deposit, withdraw and graduate never spend another's money.
THEOREM Solvent == Spec => []VaultSolvent
<1>1. VaultInv => VaultSolvent
  BY DEF VaultInv
<1> QED BY <1>1, VaultInvariant, PTL

\* What announceGraduation copies stays equal to the live commitments, also
\* after any number of cancelled announcements.
THEOREM SnapshotIsExact == Spec => []SnapshotExact
<1>1. VaultInv => SnapshotExact
  BY DEF VaultInv
<1> QED BY <1>1, VaultInvariant, PTL

\* When every claimant counted at the announcement has claimed, all of them
\* have: sweepDust can take no claimable token.
LEMMA AllClaimed ==
  ASSUME VaultInv, NEW m \in graduated, ClaimsDone(m)
  PROVE  Claimants(m) \subseteq claimed[m]
<1>1. m \in Models /\ m \in graduationAnnounced
  BY DEF VaultInv, VaultTypeOK, FlagsOrdered
<1>2. claimed[m] \subseteq Claimants(m)
  BY <1>1 DEF VaultInv, ClaimsCounted
<1>3. Cardinality(claimed[m]) = Cardinality(Claimants(m))
  BY <1>1 DEF VaultInv, ClaimsCounted, SnapshotExact, ClaimsDone
<1>4. IsFiniteSet(Claimants(m))
  BY VaultConstants, FS_Subset DEF VaultConstants, Claimants
<1>5. claimed[m] = Claimants(m)
  BY <1>2, <1>3, <1>4, FS_Subset
<1> QED BY <1>5

LEMMA SweepStep ==
  ASSUME VaultInv, Next
  PROVE  \A m \in Models :
           tokenBalance'[m] < tokenBalance[m] =>
             claimed'[m] # claimed[m] \/ Claimants(m) \subseteq claimed[m]
<1>0. VaultTypeOK
  BY DEF VaultInv
<1>1. ASSUME tokenBalance' = tokenBalance
      PROVE  \A m \in Models : ~(tokenBalance'[m] < tokenBalance[m])
  BY <1>0, <1>1 DEF VaultTypeOK
<1>2. ASSUME NEW n \in Models, NEW k \in Nat,
             tokenBalance' = [tokenBalance EXCEPT ![n] = @ + k]
      PROVE  \A m \in Models : ~(tokenBalance'[m] < tokenBalance[m])
  <2>1. tokenBalance \in [Models -> Nat]
    BY <1>0 DEF VaultTypeOK
  <2>2. \A m \in Models : tokenBalance'[m] = tokenBalance[m] \/ tokenBalance'[m] = tokenBalance[m] + k
    BY <1>2, <2>1
  <2> QED BY <2>1, <2>2
<1>3. ASSUME NEW n \in Models, NEW tokens \in Purchases, Graduate(n, tokens)
      PROVE  \A m \in Models : ~(tokenBalance'[m] < tokenBalance[m])
  <2>1. tokens \in Nat
    BY VaultConstants DEF VaultConstants
  <2> QED BY <1>2, <1>3, <2>1 DEF Graduate
<1>4. ASSUME NEW n \in Models, SendToken(n)
      PROVE  \A m \in Models : ~(tokenBalance'[m] < tokenBalance[m])
  BY <1>2, <1>4 DEF SendToken
<1>5. ASSUME NEW n \in Models, NEW u \in Users, Claim(n, u)
      PROVE  \A m \in Models :
               tokenBalance'[m] < tokenBalance[m] => claimed'[m] # claimed[m]
  <2>1. claimed'[n] = claimed[n] \union {u} /\ u \notin claimed[n]
    BY <1>0, <1>5 DEF Claim, CanClaim, VaultTypeOK
  <2>2. \A m \in Models \ {n} : tokenBalance[m] \in Nat /\ tokenBalance'[m] = tokenBalance[m]
    BY <1>0, <1>5 DEF Claim, CanClaim, VaultTypeOK
  <2> QED BY <2>1, <2>2
<1>6. ASSUME NEW n \in Models, SweepDust(n)
      PROVE  \A m \in Models :
               tokenBalance'[m] < tokenBalance[m] => Claimants(m) \subseteq claimed[m]
  <2>1. Claimants(n) \subseteq claimed[n]
    BY <1>6, AllClaimed DEF SweepDust
  <2>2. \A m \in Models \ {n} : ~(tokenBalance'[m] < tokenBalance[m])
    <3>1. tokenBalance \in [Models -> Nat]
      BY <1>0 DEF VaultTypeOK
    <3>2. tokenBalance' = [tokenBalance EXCEPT ![n] = 0]
      BY <1>6 DEF SweepDust
    <3> QED BY <3>1, <3>2
  <2> QED BY <2>1, <2>2
<1> QED
  BY <1>1, <1>3, <1>4, <1>5, <1>6, ZenonT(30)
  DEF Next, DepositorStep, AdminStep, WorldStep, RegisterProposal, AnnounceGraduation,
      CancelGraduation, Deposit, Withdraw, SetModelStatus, RegisterPool, Tick

\* Tokens leave the vault through a claim, or after every claimant was paid:
\* sweepDust never takes what a depositor could still claim.
THEOREM SweepIsSafe == Spec => SweepLeavesNoClaim
<1>1. VaultInv /\ [Next]_vars =>
        [\A m \in Models :
           tokenBalance'[m] < tokenBalance[m] =>
             claimed'[m] # claimed[m] \/ Claimants(m) \subseteq claimed[m]]_vars
  BY SweepStep
<1> QED BY <1>1, VaultInvariant, PTL DEF Spec, SweepLeavesNoClaim

-----------------------------------------------------------------------------
(* Shares.                                                                 *)

\* A claim pays the share, and what the vault holds covers the open claims.
SharesInv ==
  /\ ClaimsCovered
  /\ \A m \in graduated : \A u \in claimed[m] : received[m][u] = Share(m, u)

\* What the floors of claims leave is less than one for each of them.
LEMMA DustBound ==
  ASSUME NEW C \in Nat \ {0}, NEW T \in Nat, NEW S \in Nat, NEW n \in Nat \ {0},
         T * C + (1 - C) * n <= C * S
  PROVE  T - S < n
<1> SUFFICES ASSUME T >= S + n PROVE FALSE
  OBVIOUS
<1> DEFINE d == T - (S + n)
<1>1. d \in Nat /\ T = S + n + d
  OBVIOUS
<1>2. T * C = S * C + n * C + d * C
  BY <1>1
<1>3. d * C \in Nat
  BY <1>1
<1>4. (1 - C) * n = n - n * C
  OBVIOUS
<1>5. S * C = C * S /\ S * C \in Int /\ n * C \in Int
  OBVIOUS
<1> QED BY <1>2, <1>3, <1>4, <1>5

\* The rounded shares of those who have a stake fit into what is shared out, and
\* leave less than one token for each of them.
LEMMA SharesFit ==
  ASSUME NEW stake, \A u \in Users : stake[u] \in Nat,
         NEW total \in Nat \ {0}, total = SumOf(stake, Users), NEW tokens \in Nat,
         NEW share, \A u \in Users : share[u] = (stake[u] * tokens) \div total
  PROVE  LET who == {u \in Users : stake[u] > 0}
         IN  /\ \A u \in Users : share[u] \in Nat
             /\ SumOf(share, who) <= tokens
             /\ tokens - SumOf(share, Users) < Cardinality(who)
<1> DEFINE who == {u \in Users : stake[u] > 0}
           n == Cardinality(who)
<1>1. IsFiniteSet(who) /\ n \in Nat
  BY VaultConstants, FS_Subset, FS_CardinalityType DEF VaultConstants
<1>2. ASSUME NEW u \in Users
      PROVE  /\ share[u] \in Nat
             /\ total * share[u] <= tokens * stake[u]
             /\ tokens * stake[u] + (1 - total) <= total * share[u]
  <2> DEFINE x == stake[u] * tokens
             q == x \div total
  <2>1. x \in Nat /\ x = tokens * stake[u]
    OBVIOUS
  <2> HIDE DEF x
  <2>2. q \in Nat /\ total * q <= x /\ x < total * q + total /\ total * q \in Nat
    BY <2>1
  <2>3. share[u] = q
    BY DEF x
  <2> HIDE DEF q
  <2> QED BY <2>1, <2>2, <2>3
<1>3. SumOf(stake, who) = total
  BY SumSupport
<1>4. SumOf(share, Users) = SumOf(share, who)
  <2>1. \A u \in Users \ who : share[u] = 0
    <3> SUFFICES ASSUME NEW u \in Users \ who PROVE share[u] = 0
      OBVIOUS
    <3>1. stake[u] = 0
      OBVIOUS
    <3>2. (0 * tokens) \div total = 0
      OBVIOUS
    <3> QED BY <3>1, <3>2
  <2> QED BY <2>1, SumSupport
<1>5. n # 0
  <2>1. who = {} => SumOf(stake, who) = 0
    BY SumZero
  <2>2. who # {}
    BY <1>3, <2>1
  <2> QED BY <1>1, <2>2, FS_EmptySet
<1>6. SumOf(share, who) \in Nat
  <2>1. \A u \in who : share[u] \in Nat
    BY <1>2
  <2> HIDE DEF who
  <2> QED BY <1>1, <2>1, SumType
<1>7. total * SumOf(share, who) <= tokens * SumOf(stake, who)
  <2>1. \A u \in who : total * share[u] <= tokens * stake[u]
    BY <1>2
  <2>2. \A u \in who : share[u] \in Nat /\ stake[u] \in Nat
    BY <1>2
  <2> HIDE DEF who
  <2> QED BY <1>1, <2>1, <2>2, SumScaledBelow
<1>8. tokens * SumOf(stake, who) + (1 - total) * n <= total * SumOf(share, who)
  <2>1. \A u \in who : tokens * stake[u] + (1 - total) <= total * share[u]
    BY <1>2
  <2>2. \A u \in who : share[u] \in Nat /\ stake[u] \in Nat
    BY <1>2
  <2> HIDE DEF who
  <2>3. (1 - total) \in Int
    OBVIOUS
  <2> QED BY <1>1, <2>1, <2>2, <2>3, SumScaled
<1> HIDE DEF who, n
<1>9. SumOf(share, who) <= tokens
  <2> DEFINE S == SumOf(share, who)
  <2>1. S \in Nat /\ total * S <= tokens * total
    BY <1>1, <1>3, <1>6, <1>7
  <2> HIDE DEF S
  <2>2. S <= tokens
    <3> SUFFICES ASSUME S >= tokens + 1 PROVE FALSE
      BY <2>1
    <3>1. total * S >= total * (tokens + 1)
      BY <2>1
    <3>2. total * (tokens + 1) = tokens * total + total
      OBVIOUS
    <3> QED BY <2>1, <3>1, <3>2
  <2> QED BY <2>2 DEF S
<1>10. tokens - SumOf(share, who) < n
  BY <1>1, <1>3, <1>5, <1>6, <1>8, DustBound
<1> QED BY <1>2, <1>4, <1>9, <1>10 DEF who, n

\* Once a proposal has graduated nothing changes the shares of its depositors.
LEMMA SettledShares ==
  ASSUME VaultInv, Next, NEW m \in graduated
  PROVE  /\ m \in Models /\ m \in graduated' /\ Claimants(m)' = Claimants(m)
         /\ totalTokens'[m] = totalTokens[m]
         /\ \A u \in Users : Share(m, u)' = Share(m, u)
<1>0. VaultTypeOK /\ m \in Models /\ m \in graduationAnnounced
  BY DEF VaultInv, VaultTypeOK, FlagsOrdered
<1> DEFINE Kept ==
      /\ m \in graduated' /\ commitments'[m] = commitments[m]
      /\ snapshottedCommitments'[m] = snapshottedCommitments[m]
      /\ snapshotTotalCommitted'[m] = snapshotTotalCommitted[m]
      /\ totalTokens'[m] = totalTokens[m]
<1>1. ASSUME NEW n \in Models, NEW u \in Users, NEW amount \in Amounts, Deposit(n, u, amount)
      PROVE  Kept
  BY <1>0, <1>1 DEF Deposit, Open, VaultTypeOK
<1>2. ASSUME NEW n \in Models, NEW u \in Users, Withdraw(n, u)
      PROVE  Kept
  BY <1>0, <1>2 DEF Withdraw, CanWithdraw, Open, VaultTypeOK
<1>3. ASSUME NEW n \in Models, AnnounceGraduation(n)
      PROVE  Kept
  <2>1. m # n
    BY <1>3 DEF AnnounceGraduation, Open
  <2> QED BY <1>0, <1>3, <2>1 DEF AnnounceGraduation, FreezeCommitments, VaultTypeOK
<1>4. ASSUME NEW n \in Models, CancelGraduation(n)
      PROVE  Kept
  BY <1>0, <1>4 DEF CancelGraduation, Cancellable, VaultTypeOK
<1>5. ASSUME NEW n \in Models, NEW tokens \in Purchases, Graduate(n, tokens)
      PROVE  Kept
  BY <1>0, <1>5 DEF Graduate, VaultTypeOK
<1>6. ASSUME UNCHANGED <<commitments, snapshot, flags>>
      PROVE  Kept
  BY <1>6
<1>7. Kept
  <2> HIDE DEF Kept
  <2> QED
    BY <1>1, <1>2, <1>3, <1>4, <1>5, <1>6
    DEF Next, DepositorStep, AdminStep, WorldStep, RegisterProposal, Claim, SweepDust,
        SetModelStatus, RegisterPool, SendToken, Tick
<1> QED BY <1>0, <1>7 DEF Share, Claimants

\* The claims of a graduated proposal: the balance covers the open ones, and
\* the others were paid their shares.
Settled(m) ==
  /\ SumOf([u \in Users |-> Share(m, u)], Claimants(m) \ claimed[m]) <= tokenBalance[m]
  /\ \A u \in claimed[m] : received[m][u] = Share(m, u)

LEMMA SharesSettled == SharesInv <=> \A m \in graduated : Settled(m)
BY DEF SharesInv, ClaimsCovered, Settled

\* A proposal stays settled while its claims and its balance stay as they are,
\* whatever goes once nobody's claim is open.
LEMMA SettledKept ==
  ASSUME VaultInv, VaultTypeOK', Next, NEW m \in graduated, Settled(m),
         claimed'[m] = claimed[m], received'[m] = received[m],
         tokenBalance'[m] >= tokenBalance[m] \/ Claimants(m) \subseteq claimed[m]
  PROVE  Settled(m)'
<1> DEFINE share == [u \in Users |-> Share(m, u)]
           open == Claimants(m) \ claimed[m]
<1>1. /\ m \in Models /\ Claimants(m)' = Claimants(m)
      /\ \A u \in Users : Share(m, u)' = Share(m, u)
  BY SettledShares
<1>2. share' = share /\ open' = open
  BY <1>1
<1>3. tokenBalance[m] \in Nat /\ tokenBalance'[m] \in Nat /\ claimed[m] \subseteq Users
  BY <1>1 DEF VaultInv, VaultTypeOK
<1>4. SumOf(share, open) <= tokenBalance'[m]
  <2>1. CASE tokenBalance'[m] >= tokenBalance[m]
    <3>1. SumOf(share, open) \in Nat
      <4>1. IsFiniteSet(open)
        BY VaultConstants, FS_Subset DEF VaultConstants, Claimants
      <4>2. \A u \in open : share[u] \in Nat
        BY ShareType DEF Claimants
      <4> HIDE DEF open, share
      <4> QED BY <4>1, <4>2, SumType
    <3> QED BY <1>3, <2>1, <3>1 DEF Settled
  <2>2. CASE Claimants(m) \subseteq claimed[m]
    <3>1. \A u \in open : share[u] = 0
      BY <2>2
    <3>2. SumOf(share, open) = 0
      <4> HIDE DEF open, share
      <4> QED BY <3>1, SumZero
    <3> QED BY <1>3, <3>2
  <2> QED BY <2>1, <2>2
<1>5. \A u \in claimed[m] : received'[m][u] = Share(m, u)'
  BY <1>1, <1>3 DEF Settled
<1> QED BY <1>2, <1>4, <1>5 DEF Settled

\* A claim takes one share out of the open ones and out of the balance.
LEMMA ClaimSettles ==
  ASSUME VaultInv, VaultTypeOK', Next, NEW m \in Models, NEW u \in Users,
         Claim(m, u), Settled(m)
  PROVE  Settled(m)'
<1> DEFINE share == [v \in Users |-> Share(m, v)]
           open == Claimants(m) \ claimed[m]
<1>0. VaultTypeOK /\ m \in graduated
  BY DEF VaultInv, Claim, CanClaim
<1>1. /\ Claimants(m)' = Claimants(m)
      /\ \A v \in Users : Share(m, v)' = Share(m, v)
  BY <1>0, SettledShares
<1>2. u \in open
  BY DEF Claim, CanClaim, Claimants, VaultInv, SnapshotExact, FlagsOrdered
<1>3. /\ claimed'[m] = claimed[m] \union {u}
      /\ tokenBalance'[m] = tokenBalance[m] - Share(m, u)
      /\ received'[m][u] = received[m][u] + Share(m, u)
      /\ \A v \in Users \ {u} : received'[m][v] = received[m][v]
  BY <1>0 DEF Claim, CanClaim, VaultTypeOK
<1>4. share' = share /\ open' = open \ {u}
  BY <1>1, <1>3
<1>5. IsFiniteSet(open) /\ \A v \in Users : share[v] \in Nat
  <2>1. IsFiniteSet(open)
    BY VaultConstants, FS_Subset DEF VaultConstants, Claimants
  <2>2. \A v \in Users : Share(m, v) \in Nat
    BY <1>0, ShareType
  <2> QED BY <2>1, <2>2
<1>6. SumOf(share, open) = SumOf(share, open \ {u}) + Share(m, u)
  <2>1. \A v \in open : share[v] \in Nat
    BY <1>5 DEF Claimants
  <2>2. share[u] = Share(m, u)
    OBVIOUS
  <2> HIDE DEF share, open
  <2> QED BY <1>2, <1>5, <2>1, <2>2, SumSplit
<1>7. SumOf(share, open \ {u}) \in Nat
  <2>1. IsFiniteSet(open \ {u})
    BY <1>5, FS_RemoveElement
  <2>2. \A v \in open \ {u} : share[v] \in Nat
    BY <1>5 DEF Claimants
  <2> HIDE DEF share, open
  <2> QED BY <2>1, <2>2, SumType
<1>8. SumOf(share, open \ {u}) <= tokenBalance'[m]
  <2>1. tokenBalance[m] \in Nat /\ Share(m, u) \in Nat
    BY <1>0, ShareType DEF VaultTypeOK
  <2>2. SumOf(share, open) <= tokenBalance[m]
    BY DEF Settled
  <2> HIDE DEF share, open
  <2> QED BY <1>3, <1>6, <1>7, <2>1, <2>2
<1>9. ASSUME NEW v \in claimed'[m]
      PROVE  received'[m][v] = Share(m, v)'
  <2>1. v \in Users
    BY <1>0, <1>3 DEF VaultTypeOK
  <2>2. CASE v = u
    <3>1. received[m][u] = 0
      BY DEF Claim, CanClaim, VaultInv, ClaimsCounted
    <3>2. Share(m, u) \in Nat
      BY <1>0, ShareType
    <3> QED BY <1>1, <1>3, <2>2, <3>1, <3>2
  <2>3. CASE v # u
    BY <1>1, <1>3, <2>1, <2>3 DEF Settled
  <2> QED BY <2>2, <2>3
<1> QED BY <1>4, <1>8, <1>9 DEF Settled

\* Graduation brings as many tokens as it shares out, and the floors fit into them.
LEMMA GraduationSettles ==
  ASSUME VaultInv, NEW m \in Models, NEW tokens \in Purchases, Graduate(m, tokens)
  PROVE  Settled(m)'
<1> DEFINE share == [u \in Users |-> Share(m, u)']
           who == {u \in Users : commitments[m][u] > 0}
<1>0. VaultTypeOK /\ m \in graduationAnnounced
  BY DEF VaultInv, Graduate
<1>1. /\ claimed'[m] = {} /\ totalTokens'[m] = tokens
      /\ tokenBalance'[m] = tokenBalance[m] + tokens
      /\ tokenBalance[m] \in Nat /\ tokens \in Nat
  BY <1>0, VaultConstants DEF VaultConstants, Graduate, VaultInv, ClaimsCounted, VaultTypeOK
<1>2. /\ \A u \in Users : commitments[m][u] \in Nat
      /\ totalCommitted[m] \in Nat \ {0}
      /\ totalCommitted[m] = SumOf(commitments[m], Users)
  BY <1>0 DEF VaultInv, VaultTypeOK, VaultSolvent, FlagsOrdered
<1>3. /\ snapshottedCommitments'[m] = commitments[m]
      /\ snapshotTotalCommitted'[m] = totalCommitted[m]
  BY <1>0 DEF VaultInv, SnapshotExact, Graduate
<1>4. \A u \in Users : share[u] = (commitments[m][u] * tokens) \div totalCommitted[m]
  BY <1>1, <1>3 DEF Share
<1>5. /\ \A u \in Users : share[u] \in Nat
      /\ SumOf(share, who) <= tokens
  <2> HIDE DEF share
  <2>1. PICK stake, total : stake = commitments[m] /\ total = totalCommitted[m]
    OBVIOUS
  <2>2. /\ \A u \in Users : stake[u] \in Nat
        /\ total \in Nat \ {0} /\ total = SumOf(stake, Users) /\ tokens \in Nat
        /\ \A u \in Users : share[u] = (stake[u] * tokens) \div total
        /\ who = {u \in Users : stake[u] > 0}
    BY <1>1, <1>2, <1>4, <2>1
  <2> HIDE DEF who
  <2> QED BY <2>2, SharesFit, SMTT(30)
<1>6. SumOf(share, who) \in Nat
  <2>1. IsFiniteSet(who)
    BY VaultConstants, FS_Subset DEF VaultConstants
  <2>2. \A u \in who : share[u] \in Nat
    BY <1>5
  <2> HIDE DEF share, who
  <2> QED BY <2>1, <2>2, SumType
<1>7. Claimants(m)' \ claimed'[m] = who
  BY <1>1 DEF Claimants, Graduate
<1>8. SumOf(share, who) <= tokenBalance'[m]
  <2> HIDE DEF share, who
  <2> QED BY <1>1, <1>5, <1>6
<1> QED BY <1>1, <1>7, <1>8 DEF Settled

LEMMA SharesStep ==
  ASSUME VaultInv, VaultTypeOK', SharesInv, Next
  PROVE  SharesInv'
<1> SUFFICES \A m \in graduated' : Settled(m)'
  BY DEF SharesInv, ClaimsCovered, Settled
<1>0. VaultTypeOK /\ \A m \in graduated : m \in Models /\ Settled(m)
  BY SharesSettled DEF VaultInv, VaultTypeOK
<1>1. ASSUME NEW m \in graduated, claimed'[m] = claimed[m], received'[m] = received[m],
             tokenBalance'[m] >= tokenBalance[m] \/ Claimants(m) \subseteq claimed[m]
      PROVE  Settled(m)'
  BY <1>0, <1>1, SettledKept
<1>2. ASSUME graduated' = graduated, UNCHANGED claims,
             \A m \in graduated :
               tokenBalance'[m] >= tokenBalance[m] \/ Claimants(m) \subseteq claimed[m]
      PROVE  \A m \in graduated' : Settled(m)'
  BY <1>1, <1>2
<1>3. \A m \in Models : tokenBalance[m] \in Nat /\ tokenBalance[m] >= tokenBalance[m]
  BY <1>0 DEF VaultTypeOK
<1>4. ASSUME NEW n \in Models, NEW u \in Users, Claim(n, u)
      PROVE  \A m \in graduated' : Settled(m)'
  <2>1. graduated' = graduated /\ n \in graduated
    BY <1>4 DEF Claim, CanClaim
  <2>2. Settled(n)'
    BY <1>0, <1>4, <2>1, ClaimSettles
  <2>3. \A m \in graduated \ {n} :
          claimed'[m] = claimed[m] /\ received'[m] = received[m]
            /\ tokenBalance'[m] = tokenBalance[m]
    BY <1>0, <1>4 DEF Claim, CanClaim, VaultTypeOK
  <2>4. \A m \in graduated \ {n} : Settled(m)'
    BY <1>0, <1>1, <1>3, <2>3
  <2> QED BY <2>1, <2>2, <2>4
<1>5. ASSUME NEW n \in Models, NEW tokens \in Purchases, Graduate(n, tokens)
      PROVE  \A m \in graduated' : Settled(m)'
  <2>1. Settled(n)'
    BY <1>5, GraduationSettles
  <2>2. \A m \in graduated \ {n} :
          claimed'[m] = claimed[m] /\ received'[m] = received[m]
            /\ tokenBalance'[m] = tokenBalance[m]
    BY <1>0, <1>5 DEF Graduate, VaultTypeOK
  <2>3. \A m \in graduated \ {n} : Settled(m)'
    BY <1>0, <1>1, <1>3, <2>2
  <2> QED BY <1>5, <2>1, <2>3 DEF Graduate
<1>6. ASSUME NEW n \in Models, SweepDust(n)
      PROVE  \A m \in graduated' : Settled(m)'
  <2>1. Claimants(n) \subseteq claimed[n]
    BY <1>6, AllClaimed DEF SweepDust
  <2>2. \A m \in graduated \ {n} : tokenBalance'[m] = tokenBalance[m]
    BY <1>0, <1>6 DEF SweepDust, VaultTypeOK
  <2> QED BY <1>0, <1>2, <1>3, <1>6, <2>1, <2>2 DEF SweepDust
<1>7. ASSUME NEW n \in Models, SendToken(n)
      PROVE  \A m \in graduated' : Settled(m)'
  <2>1. \A m \in Models : tokenBalance'[m] >= tokenBalance[m]
    <3>1. tokenBalance \in [Models -> Nat]
      BY <1>0 DEF VaultTypeOK
    <3>2. tokenBalance' = [tokenBalance EXCEPT ![n] = @ + 1]
      BY <1>7 DEF SendToken
    <3> QED BY <3>1, <3>2
  <2> QED BY <1>0, <1>2, <1>7, <2>1 DEF SendToken
<1>8. ASSUME UNCHANGED <<graduated, claims, tokenBalance>>
      PROVE  \A m \in graduated' : Settled(m)'
  BY <1>0, <1>2, <1>3, <1>8
<1> QED
  BY <1>4, <1>5, <1>6, <1>7, <1>8, ZenonT(30)
  DEF Next, DepositorStep, AdminStep, WorldStep, RegisterProposal, Deposit, Withdraw,
      AnnounceGraduation, CancelGraduation, SetModelStatus, RegisterPool, Tick

\* The rounding of the shares is all that is left once everyone has claimed.
LEMMA OnlyDustIsLeft ==
  ASSUME VaultInv, SharesInv
  PROVE  DustIsRounding
<1> SUFFICES ASSUME NEW m \in graduated, Claimants(m) \subseteq claimed[m]
             PROVE  totalTokens[m] - SumOf(received[m], Users) < Cardinality(Claimants(m))
  BY DEF DustIsRounding
<1> DEFINE share == [u \in Users |-> Share(m, u)]
           who == {u \in Users : commitments[m][u] > 0}
<1>1. VaultTypeOK /\ m \in Models /\ m \in graduationAnnounced
  BY DEF VaultInv, VaultTypeOK, FlagsOrdered
<1>2. /\ \A u \in Users : commitments[m][u] \in Nat
      /\ totalCommitted[m] \in Nat \ {0} /\ totalTokens[m] \in Nat
      /\ totalCommitted[m] = SumOf(commitments[m], Users)
  BY <1>1 DEF VaultInv, VaultTypeOK, VaultSolvent, FlagsOrdered
<1>3. \A u \in Users : share[u] = (commitments[m][u] * totalTokens[m]) \div totalCommitted[m]
  BY <1>1, ShareType
<1>4. totalTokens[m] - SumOf(share, Users) < Cardinality(who)
  <2> HIDE DEF share
  <2> QED BY <1>2, <1>3, SharesFit
<1>5. \A u \in Users : received[m][u] = share[u]
  <2> SUFFICES ASSUME NEW u \in Users PROVE received[m][u] = share[u]
    OBVIOUS
  <2>1. CASE u \in claimed[m]
    BY <2>1 DEF SharesInv
  <2>2. CASE u \notin claimed[m]
    <3>1. received[m][u] = 0
      BY <1>1, <2>2 DEF VaultInv, ClaimsCounted
    <3>2. commitments[m][u] = 0
      BY <1>2, <2>2 DEF Claimants
    <3>3. (0 * totalTokens[m]) \div totalCommitted[m] = 0
      BY <1>2
    <3> QED BY <1>3, <3>1, <3>2, <3>3
  <2> QED BY <2>1, <2>2
<1>6. SumOf(received[m], Users) = SumOf(share, Users)
  <2> HIDE DEF share
  <2> QED BY <1>5, SumSame
<1> QED BY <1>4, <1>6 DEF Claimants

\* Whatever the deposits, their number and the tokens bought: the vault can pay
\* every open claim at every moment, pays each depositor the share of the frozen
\* commitments, and keeps less than one token for each of them in the end.
LEMMA SharesInvariant == Spec => []SharesInv
<1>1. Init => SharesInv
  BY DEF Init, SharesInv, ClaimsCovered
<1>2. VaultInv /\ VaultInv' /\ SharesInv /\ [Next]_vars => SharesInv'
  <2> SUFFICES ASSUME VaultInv, VaultInv', SharesInv, [Next]_vars PROVE SharesInv'
    OBVIOUS
  <2>1. CASE Next
    BY <2>1, SharesStep DEF VaultInv
  <2>2. CASE UNCHANGED vars
    BY <2>2 DEF vars, SharesInv, ClaimsCovered, Share, Claimants
  <2> QED BY <2>1, <2>2
<1> QED BY <1>1, <1>2, VaultInvariant, PTL DEF Spec

\* Whatever the deposits, their number and the tokens bought: the vault can pay
\* every open claim at every moment, pays each depositor the share of the frozen
\* commitments, and keeps less than one token for each of them in the end.
THEOREM SharesAlwaysAccounted == Spec => []SharesAccounted
<1>1. VaultInv /\ SharesInv => SharesAccounted
  BY OnlyDustIsLeft DEF VaultInv, SharesInv, SharesAccounted
<1> QED BY <1>1, VaultInvariant, SharesInvariant, PTL

\* No depositor is ever trapped: in every state one of withdraw, cancelGraduation
\* and claim has its requirements met and its transfer covered, for every stake.
THEOREM DepositorsHaveExit == Spec => []DepositorsCanExit
<1> DEFINE HasExit(m, u) == \/ CanWithdraw(m, u)
                            \/ m \in registered /\ Cancellable(m)
                            \/ CanClaim(m, u)
<1>1. ASSUME VaultInv, SharesInv, NEW m \in Models, NEW u \in Claimants(m) \ claimed[m]
      PROVE  HasExit(m, u)
  <2>0. VaultTypeOK /\ FlagsOrdered /\ u \in Users /\ commitments[m][u] > 0
    BY <1>1 DEF VaultInv, Claimants
  <2>1. CASE m \in graduated
    <3> DEFINE share == [v \in Users |-> Share(m, v)]
               open == Claimants(m) \ claimed[m]
    <3>1. IsFiniteSet(open) /\ \A v \in open : share[v] \in Nat
      <4>1. IsFiniteSet(open)
        BY VaultConstants, FS_Subset DEF VaultConstants, Claimants
      <4>2. \A v \in open : share[v] \in Nat
        BY <1>1, <2>1, ShareType DEF Claimants
      <4> QED BY <4>1, <4>2
    <3>2. share[u] <= SumOf(share, open) /\ SumOf(share, open) \in Nat
      <4> HIDE DEF share
      <4> QED BY <1>1, <3>1, SumBounds, SumType
    <3>3. SumOf(share, open) <= tokenBalance[m]
      BY <1>1, <2>1 DEF SharesInv, ClaimsCovered
    <3>4. Share(m, u) \in Nat /\ tokenBalance[m] \in Nat /\ share[u] = Share(m, u)
      BY <1>1, <2>0, <2>1, ShareType DEF VaultTypeOK
    <3>5. Share(m, u) <= tokenBalance[m]
      <4> HIDE DEF share, open
      <4> QED BY <3>2, <3>3, <3>4
    <3>6. snapshottedCommitments[m][u] > 0
      BY <1>1, <2>0, <2>1 DEF VaultInv, SnapshotExact, FlagsOrdered
    <3> QED BY <1>1, <2>1, <3>5, <3>6 DEF CanClaim
  <2>2. CASE m \notin graduated /\ m \in graduationAnnounced
    BY <2>0, <2>2 DEF FlagsOrdered, Cancellable
  <2>3. CASE m \notin graduated /\ m \notin graduationAnnounced
    <3>1. m \in registered
      <4>1. commitments[m][u] <= totalCommitted[m]
        BY <1>1, <2>0, StakesBacked
      <4>2. commitments[m][u] \in Nat /\ totalCommitted[m] \in Nat
        BY <1>1, <2>0 DEF VaultTypeOK
      <4> QED BY <1>1, <2>0, <4>1, <4>2 DEF FlagsOrdered
    <3>2. commitments[m][u] <= usdc
      <4>1. commitments[m][u] <= totalCommitted[m] /\ totalCommitted[m] <= usdc
        BY <1>1, <2>0, <2>3, StakesBacked
      <4>2. commitments[m][u] \in Nat /\ totalCommitted[m] \in Nat /\ usdc \in Nat
        BY <1>1, <2>0 DEF VaultTypeOK
      <4> QED BY <4>1, <4>2
    <3> QED BY <2>0, <2>3, <3>1, <3>2 DEF CanWithdraw, Open
  <2> QED BY <2>1, <2>2, <2>3
<1>2. VaultInv /\ SharesInv => DepositorsCanExit
  BY <1>1 DEF DepositorsCanExit
<1> QED BY <1>2, VaultInvariant, SharesInvariant, PTL

-----------------------------------------------------------------------------
(* Refinement of CommitmentEscrow.                                         *)

\* A step that leaves a proposal alone is a stutter of its escrow.
LEMMA EscrowStutters ==
  ASSUME NEW m \in Models,
         m \in graduated' <=> m \in graduated,
         m \in graduationAnnounced' <=> m \in graduationAnnounced,
         commitments'[m] = commitments[m], totalCommitted'[m] = totalCommitted[m],
         totalTokens'[m] = totalTokens[m], claimed'[m] = claimed[m],
         received'[m] = received[m]
  PROVE  UNCHANGED Escrow(m)!escrow
BY DEF Escrow!escrow

LEMMA EscrowInitially == Init => \A m \in Models : Escrow(m)!EscrowInit
BY DEF Init, Zero, ZeroEach, Escrow!EscrowInit

LEMMA EscrowStep ==
  ASSUME VaultInv, Next
  PROVE  \A m \in Models : Escrow(m)!EscrowNext \/ UNCHANGED Escrow(m)!escrow
<1>0. VaultTypeOK /\ SnapshotExact /\ FlagsOrdered /\ ClaimsCounted
  BY DEF VaultInv
<1>1. ASSUME NEW n \in Models, NEW u \in Users, NEW amount \in Amounts, Deposit(n, u, amount)
      PROVE  \A m \in Models : Escrow(m)!EscrowNext \/ UNCHANGED Escrow(m)!escrow
  <2>1. \A m \in Models \ {n} : UNCHANGED Escrow(m)!escrow
    BY <1>0, <1>1, EscrowStutters DEF Deposit, VaultTypeOK
  <2>2. amount \in Nat /\ amount > 0
    BY VaultConstants DEF VaultConstants
  <2>3. /\ totalCommitted[n] \in Nat /\ totalCommitted'[n] = totalCommitted[n] + amount
        /\ commitments'[n] = [commitments[n] EXCEPT ![u] = @ + amount]
    BY <1>0, <1>1 DEF Deposit, VaultTypeOK
  <2>4. /\ totalCommitted'[n] \in Nat /\ totalCommitted'[n] > totalCommitted[n]
        /\ totalCommitted'[n] - totalCommitted[n] = amount
    BY <2>2, <2>3
  <2>5. n \notin graduated /\ n \notin graduated' /\ n \notin graduationAnnounced
        /\ n \notin graduationAnnounced'
    BY <1>1 DEF Deposit, Open
  <2>6. Escrow(n)!Join(u)
    BY <1>1, <2>3, <2>4, <2>5 DEF Deposit, Escrow!Join
  <2> QED BY <2>1, <2>6 DEF Escrow!EscrowNext
<1>2. ASSUME NEW n \in Models, NEW u \in Users, Withdraw(n, u)
      PROVE  \A m \in Models : Escrow(m)!EscrowNext \/ UNCHANGED Escrow(m)!escrow
  <2>1. \A m \in Models \ {n} : UNCHANGED Escrow(m)!escrow
    BY <1>0, <1>2, EscrowStutters DEF Withdraw, CanWithdraw, VaultTypeOK
  <2>2. /\ totalCommitted'[n] = totalCommitted[n] - commitments[n][u]
        /\ commitments'[n] = [commitments[n] EXCEPT ![u] = 0]
    BY <1>0, <1>2 DEF Withdraw, CanWithdraw, VaultTypeOK
  <2>3. Escrow(n)!Leave(u)
    BY <1>2, <2>2 DEF Withdraw, CanWithdraw, Open, Escrow!Leave
  <2> QED BY <2>1, <2>3 DEF Escrow!EscrowNext
<1>3. ASSUME NEW n \in Models, AnnounceGraduation(n)
      PROVE  \A m \in Models : Escrow(m)!EscrowNext \/ UNCHANGED Escrow(m)!escrow
  <2>1. \A m \in Models \ {n} : UNCHANGED Escrow(m)!escrow
    BY <1>3, EscrowStutters DEF AnnounceGraduation
  <2>2. Escrow(n)!Freeze
    BY <1>3 DEF AnnounceGraduation, Open, Escrow!Freeze
  <2> QED BY <2>1, <2>2 DEF Escrow!EscrowNext
<1>4. ASSUME NEW n \in Models, CancelGraduation(n)
      PROVE  \A m \in Models : Escrow(m)!EscrowNext \/ UNCHANGED Escrow(m)!escrow
  <2>1. \A m \in Models \ {n} : UNCHANGED Escrow(m)!escrow
    BY <1>4, EscrowStutters DEF CancelGraduation
  <2>2. Escrow(n)!Thaw
    BY <1>4 DEF CancelGraduation, Cancellable, Escrow!Thaw
  <2> QED BY <2>1, <2>2 DEF Escrow!EscrowNext
<1>5. ASSUME NEW n \in Models, NEW tokens \in Purchases, Graduate(n, tokens)
      PROVE  \A m \in Models : Escrow(m)!EscrowNext \/ UNCHANGED Escrow(m)!escrow
  <2>1. \A m \in Models \ {n} : UNCHANGED Escrow(m)!escrow
    BY <1>0, <1>5, EscrowStutters DEF Graduate, VaultTypeOK
  <2>2. tokens \in Nat \ {0}
    BY VaultConstants DEF VaultConstants
  <2>3. totalTokens'[n] = tokens
    BY <1>0, <1>5 DEF Graduate, VaultTypeOK
  <2>4. Escrow(n)!Settle
    BY <1>5, <2>2, <2>3 DEF Graduate, Escrow!Settle
  <2> QED BY <2>1, <2>4 DEF Escrow!EscrowNext
<1>6. ASSUME NEW n \in Models, NEW u \in Users, Claim(n, u)
      PROVE  \A m \in Models : Escrow(m)!EscrowNext \/ UNCHANGED Escrow(m)!escrow
  <2>1. \A m \in Models \ {n} : UNCHANGED Escrow(m)!escrow
    BY <1>0, <1>6, EscrowStutters DEF Claim, CanClaim, VaultTypeOK
  <2>2. n \in graduated /\ u \notin claimed[n]
    BY <1>6 DEF Claim, CanClaim
  <2>3. commitments[n][u] > 0
    BY <1>0, <1>6 DEF Claim, CanClaim, SnapshotExact, FlagsOrdered
  <2>4. received[n][u] + Share(n, u)
          = (commitments[n][u] * totalTokens[n]) \div totalCommitted[n]
    <3>1. received[n][u] = 0
      BY <1>0, <2>2 DEF ClaimsCounted
    <3>2. /\ Share(n, u) \in Nat
          /\ Share(n, u) = (commitments[n][u] * totalTokens[n]) \div totalCommitted[n]
      BY <2>2, ShareType
    <3> QED BY <3>1, <3>2
  <2>5. /\ claimed'[n] = claimed[n] \union {u}
        /\ received'[n] = [received[n] EXCEPT ![u] = received[n][u] + Share(n, u)]
    BY <1>0, <1>6 DEF Claim, CanClaim, VaultTypeOK
  <2>6. Escrow(n)!Pay(u)
    BY <1>6, <2>2, <2>3, <2>4, <2>5 DEF Claim, CanClaim, Escrow!Pay
  <2> QED BY <2>1, <2>6 DEF Escrow!EscrowNext
<1>7. ASSUME UNCHANGED <<graduated, graduationAnnounced, commitments, totalCommitted,
                         totalTokens, claimed, received>>
      PROVE  \A m \in Models : UNCHANGED Escrow(m)!escrow
  BY <1>7, EscrowStutters
<1> QED
  BY <1>1, <1>2, <1>3, <1>4, <1>5, <1>6, <1>7
  DEF Next, DepositorStep, AdminStep, WorldStep, RegisterProposal, SweepDust,
      SetModelStatus, RegisterPool, SendToken, Tick

\* Every proposal of the pooled vault behaves like an escrow of its own: shares
\* of the live commitments, each paid once, in every order of steps.
THEOREM VaultImplementsEscrow == Spec => ImplementsEscrow
<1>1. VaultInv /\ [Next]_vars =>
        [\A m \in Models : Escrow(m)!EscrowNext \/ UNCHANGED Escrow(m)!escrow]_vars
  BY EscrowStep
<1> QED BY <1>1, VaultInvariant, EscrowInitially, PTL DEF Spec, ImplementsEscrow

=============================================================================
