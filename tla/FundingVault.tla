---------------------------- MODULE FundingVault ----------------------------
(***************************************************************************)
(* contracts/FundingVault.sol: depositors commit USDC to models' proposals *)
(* in one pooled balance; a graduator freezes a proposal, buys the model's *)
(* token with it, and depositors claim their shares.  One action is one    *)
(* transaction that does not revert.                                       *)
(***************************************************************************)
EXTENDS Integers, Sequences, FiniteSets, Counting

CONSTANTS
  Models, Users,
  Amounts,        \* deposits, in units of USDC
  Purchases,      \* tokens the pool's first buy may bring
  Deadlines,
  MaxCommitted,   \* bound, per model, on what is committed at a time
  MaxGifts,       \* bound: tokens anyone sends the vault
  MaxTime         \* bound on block.timestamp

ASSUME VaultConstants ==
  /\ IsFiniteSet(Models) /\ IsFiniteSet(Users)
  /\ Amounts \subseteq Nat \ {0} /\ Purchases \subseteq Nat \ {0}
  /\ Deadlines \subseteq Nat
  /\ MaxCommitted \in [Models -> Nat] /\ MaxGifts \in Nat /\ MaxTime \in Nat

VARIABLES
  \* proposals[m]
  registered,             \* models with a proposal
  deadline, totalCommitted, snapshotTotalCommitted,
  graduated, graduationAnnounced, \* models
  totalTokens,
  \* per model and user
  commitments, snapshottedCommitments,
  claimed,                \* [Models -> SUBSET Users]
  depositors,             \* [Models -> Seq(Users)]
  claimableAccounts, claimedAccounts,
  \* elsewhere
  usdc,                   \* the vault's USDC balance, one for all models
  tokenBalance,           \* the vault's balance of each model's token
  status,                 \* ModelRegistry: unregistered / active / inactive
  pool,                   \* models with an AMM pool
  gifts,                  \* tokens sent to the vault
  received,               \* history: tokens each user claimed
  now                     \* block.timestamp

terms    == <<registered, deadline>>
stakes   == <<totalCommitted, commitments, depositors>>
snapshot == <<snapshotTotalCommitted, snapshottedCommitments, claimableAccounts>>
flags    == <<graduated, graduationAnnounced, totalTokens>>
claims   == <<claimed, claimedAccounts, received>>
world    == <<status, pool, gifts, now>>
vars == <<terms, stakes, snapshot, flags, claims, usdc, tokenBalance, world>>

Zero == [m \in Models |-> 0]
ZeroEach == [m \in Models |-> [u \in Users |-> 0]]

Init ==
  /\ registered = {} /\ deadline = Zero
  /\ totalCommitted = Zero /\ snapshotTotalCommitted = Zero
  /\ graduated = {} /\ graduationAnnounced = {} /\ totalTokens = Zero
  /\ commitments = ZeroEach /\ snapshottedCommitments = ZeroEach
  /\ claimed = [m \in Models |-> {}]
  /\ depositors = [m \in Models |-> <<>>]
  /\ claimableAccounts = Zero /\ claimedAccounts = Zero
  /\ usdc = 0 /\ tokenBalance = Zero
  /\ status \in [Models -> {"unregistered", "active"}]
  /\ pool = {} /\ gifts = 0
  /\ received = ZeroEach /\ now = 0

Active(m) == status[m] = "active"

-----------------------------------------------------------------------------
(* Proposals and commitments.                                              *)

RegisterProposal(m, time) ==
  /\ m \notin registered
  /\ Active(m)
  /\ registered' = registered \union {m}
  /\ deadline' = [deadline EXCEPT ![m] = time]
  /\ UNCHANGED <<stakes, snapshot, flags, claims, usdc, tokenBalance, world>>

\* Mutant: only a settled proposal is closed.
OpenUntilGraduated(m) == m \in registered /\ m \notin graduated

\* Depositors may come and go.
Open(m) == m \in registered /\ m \notin graduated /\ m \notin graduationAnnounced

IsDepositor(m, u) == \E i \in DOMAIN depositors[m] : depositors[m][i] = u

\* Mutant: every deposit pushes its sender.
PushAlways(m, u) == depositors' = [depositors EXCEPT ![m] = Append(@, u)]

\* The depositors' list holds each of them once, withdrawn or not.
PushOnce(m, u) ==
  depositors' = IF IsDepositor(m, u) THEN depositors
                ELSE [depositors EXCEPT ![m] = Append(@, u)]

Deposit(m, u, amount) ==
  /\ Open(m)
  /\ now <= deadline[m]
  /\ Active(m)
  /\ totalCommitted[m] + amount <= MaxCommitted[m]
  /\ usdc' = usdc + amount
  /\ PushOnce(m, u)
  /\ commitments' = [commitments EXCEPT ![m][u] = @ + amount]
  /\ totalCommitted' = [totalCommitted EXCEPT ![m] = @ + amount]
  /\ UNCHANGED <<terms, snapshot, flags, claims, tokenBalance, world>>

\* The vault must have the money, or the transfer reverts.
CanWithdraw(m, u) ==
  Open(m) /\ commitments[m][u] > 0 /\ commitments[m][u] <= usdc

Withdraw(m, u) ==
  /\ CanWithdraw(m, u)
  /\ commitments' = [commitments EXCEPT ![m][u] = 0]
  /\ totalCommitted' = [totalCommitted EXCEPT ![m] = @ - commitments[m][u]]
  /\ usdc' = usdc - commitments[m][u]
  /\ UNCHANGED <<depositors, terms, snapshot, flags, claims, tokenBalance, world>>

-----------------------------------------------------------------------------
(* Graduation.                                                             *)

\* Mutant: a depositor with nothing committed is passed over.
FreezeNonzero(m) ==
  snapshottedCommitments' = [snapshottedCommitments EXCEPT ![m] =
    [u \in Users |-> IF IsDepositor(m, u) /\ commitments[m][u] > 0
                     THEN commitments[m][u] ELSE @[u]]]

\* Every depositor's snapshot is overwritten, also with zero.
FreezeCommitments(m) ==
  snapshottedCommitments' = [snapshottedCommitments EXCEPT ![m] =
    [u \in Users |-> IF IsDepositor(m, u) THEN commitments[m][u] ELSE @[u]]]

AnnounceGraduation(m) ==
  /\ Open(m)
  /\ totalCommitted[m] > 0
  /\ Active(m)
  /\ FreezeCommitments(m)
  /\ claimableAccounts' = [claimableAccounts EXCEPT ![m] =
       Cardinality({i \in DOMAIN depositors[m] :
                      commitments[m][depositors[m][i]] > 0})]
  /\ graduationAnnounced' = graduationAnnounced \union {m}
  /\ snapshotTotalCommitted' =
       [snapshotTotalCommitted EXCEPT ![m] = totalCommitted[m]]
  /\ UNCHANGED <<terms, stakes, graduated, totalTokens, claims, usdc,
                 tokenBalance, world>>

\* Mutant: the announcement of a deactivated model cannot be taken back.
CancellableWhileActive(m) ==
  m \in graduationAnnounced /\ m \notin graduated /\ Active(m)

\* Whatever became of the model.
Cancellable(m) == m \in graduationAnnounced /\ m \notin graduated

CancelGraduation(m) ==
  /\ m \in registered
  /\ Cancellable(m)
  /\ graduationAnnounced' = graduationAnnounced \ {m}
  /\ snapshotTotalCommitted' = [snapshotTotalCommitted EXCEPT ![m] = 0]
  /\ claimableAccounts' = [claimableAccounts EXCEPT ![m] = 0]
  /\ UNCHANGED <<terms, stakes, snapshottedCommitments, graduated, totalTokens,
                 claims, usdc, tokenBalance, world>>

\* The factory creates the model's pool, which must be its first, and the
\* pool's first buy brings some tokens; if it does not, the call reverts.
Graduate(m, tokens) ==
  /\ m \in registered /\ m \notin graduated
  /\ m \in graduationAnnounced
  /\ snapshotTotalCommitted[m] > 0
  /\ Active(m)
  /\ m \notin pool
  /\ pool' = pool \union {m}
  /\ usdc' = usdc - snapshotTotalCommitted[m]
  /\ tokenBalance' = [tokenBalance EXCEPT ![m] = @ + tokens]
  /\ graduated' = graduated \union {m}
  /\ totalTokens' = [totalTokens EXCEPT ![m] = tokens]
  /\ UNCHANGED <<terms, stakes, snapshot, graduationAnnounced, claims, status,
                 gifts, now>>

-----------------------------------------------------------------------------
(* Claims.                                                                 *)

\* Mutant: the share is rounded up.
ShareRoundedUp(m, u) ==
  (snapshottedCommitments[m][u] * totalTokens[m] + snapshotTotalCommitted[m] - 1)
    \div snapshotTotalCommitted[m]

Share(m, u) ==
  (snapshottedCommitments[m][u] * totalTokens[m]) \div snapshotTotalCommitted[m]

CanClaim(m, u) ==
  /\ m \in graduated
  /\ u \notin claimed[m]
  /\ snapshottedCommitments[m][u] > 0
  /\ Share(m, u) <= tokenBalance[m]

Claim(m, u) ==
  /\ CanClaim(m, u)
  /\ claimed' = [claimed EXCEPT ![m] = @ \union {u}]
  /\ claimedAccounts' = [claimedAccounts EXCEPT ![m] = @ + 1]
  /\ tokenBalance' = [tokenBalance EXCEPT ![m] = @ - Share(m, u)]
  /\ received' = [received EXCEPT ![m][u] = @ + Share(m, u)]
  /\ UNCHANGED <<terms, stakes, snapshot, flags, usdc, world>>

\* Mutant: off by one, the last claim is still pending.
ClaimsAlmostDone(m) == claimedAccounts[m] + 1 >= claimableAccounts[m]

ClaimsDone(m) == claimedAccounts[m] = claimableAccounts[m]

\* The whole balance goes, whatever it consists of.
SweepDust(m) ==
  /\ m \in registered /\ m \in graduated
  /\ ClaimsDone(m)
  /\ tokenBalance[m] > 0
  /\ tokenBalance' = [tokenBalance EXCEPT ![m] = 0]
  /\ UNCHANGED <<terms, stakes, snapshot, flags, claims, usdc, world>>

-----------------------------------------------------------------------------
(* The world around the vault.                                             *)

\* ModelRegistry.registerModel, deactivateModel, reactivateModel.
SetModelStatus(m, s) ==
  /\ \/ status[m] = "unregistered" /\ s = "active"
     \/ status[m] = "active" /\ s = "inactive"
     \/ status[m] = "inactive" /\ s = "active"
  /\ status' = [status EXCEPT ![m] = s]
  /\ UNCHANGED <<terms, stakes, snapshot, flags, claims, usdc, tokenBalance,
                 pool, gifts, now>>

\* ModelRegistry.registerPool by its owner or another registrar.
RegisterPool(m) ==
  /\ Active(m) /\ m \notin pool
  /\ pool' = pool \union {m}
  /\ UNCHANGED <<terms, stakes, snapshot, flags, claims, usdc, tokenBalance,
                 status, gifts, now>>

\* Anyone sends the vault a token of the model.
SendToken(m) ==
  /\ gifts < MaxGifts
  /\ gifts' = gifts + 1
  /\ tokenBalance' = [tokenBalance EXCEPT ![m] = @ + 1]
  /\ UNCHANGED <<terms, stakes, snapshot, flags, claims, usdc, status, pool, now>>

Tick ==
  /\ now < MaxTime
  /\ now' = now + 1
  /\ UNCHANGED <<terms, stakes, snapshot, flags, claims, usdc, tokenBalance,
                 status, pool, gifts>>

-----------------------------------------------------------------------------

DepositorStep ==
  \E m \in Models, u \in Users :
    \/ \E amount \in Amounts : Deposit(m, u, amount)
    \/ Withdraw(m, u) \/ Claim(m, u)

AdminStep ==
  \E m \in Models :
    \/ \E time \in Deadlines : RegisterProposal(m, time)
    \/ AnnounceGraduation(m) \/ CancelGraduation(m)
    \/ \E tokens \in Purchases : Graduate(m, tokens)
    \/ SweepDust(m)

WorldStep ==
  \/ \E m \in Models :
       \/ \E s \in {"active", "inactive"} : SetModelStatus(m, s)
       \/ RegisterPool(m) \/ SendToken(m)
  \/ Tick

Next == DepositorStep \/ AdminStep \/ WorldStep

Spec == Init /\ [][Next]_vars

-----------------------------------------------------------------------------
(* Properties.                                                             *)

\* Every variable has its type; no balance is negative.
VaultTypeOK ==
  /\ registered \in SUBSET Models /\ pool \in SUBSET Models
  /\ graduated \in SUBSET Models /\ graduationAnnounced \in SUBSET Models
  /\ deadline \in [Models -> Nat] /\ totalTokens \in [Models -> Nat]
  /\ totalCommitted \in [Models -> Nat]
  /\ snapshotTotalCommitted \in [Models -> Nat]
  /\ commitments \in [Models -> [Users -> Nat]]
  /\ snapshottedCommitments \in [Models -> [Users -> Nat]]
  /\ claimed \in [Models -> SUBSET Users]
  /\ depositors \in [Models -> Seq(Users)]
  /\ claimableAccounts \in [Models -> Nat] /\ claimedAccounts \in [Models -> Nat]
  /\ tokenBalance \in [Models -> Nat] /\ received \in [Models -> [Users -> Nat]]
  /\ usdc \in Nat /\ gifts \in Nat /\ now \in Nat
  /\ status \in [Models -> {"unregistered", "active", "inactive"}]

\* The pooled balance is what the depositors of all proposals that have not
\* graduated can still withdraw: no proposal is ever paid with the money of
\* another, whatever the order of deposits, withdrawals and graduations.
VaultSolvent ==
  /\ \A m \in Models : totalCommitted[m] = SumOf(commitments[m], Users)
  /\ usdc = SumOf(totalCommitted, Models \ graduated)

Claimants(m) == {u \in Users : commitments[m][u] > 0}

\* From the announcement on, the snapshot is exactly what is committed, for
\* everyone, in total and in the number of claimants, whatever an earlier,
\* cancelled announcement left behind.
SnapshotExact ==
  \A m \in graduationAnnounced :
    /\ snapshottedCommitments[m] = commitments[m]
    /\ snapshotTotalCommitted[m] = totalCommitted[m]
    /\ claimableAccounts[m] = Cardinality(Claimants(m))

\* The vault can always pay every claim that is still open.
ClaimsCovered ==
  \A m \in graduated :
    SumOf([u \in Users |-> Share(m, u)], Claimants(m) \ claimed[m])
      <= tokenBalance[m]

\* What rounding keeps from the depositors is less than one token each.
DustIsRounding ==
  \A m \in graduated :
    Claimants(m) \subseteq claimed[m] =>
      totalTokens[m] - SumOf(received[m], Users) < Cardinality(Claimants(m))

\* Shares: the vault can pay each one, and keeps only what rounding leaves.
SharesAccounted == VaultTypeOK /\ ClaimsCovered /\ DustIsRounding

\* Only a claim takes a claimable token out of the vault: by the time an
\* admin sweeps a balance, every depositor has claimed.
SweepLeavesNoClaim ==
  [][\A m \in Models :
       tokenBalance'[m] < tokenBalance[m] =>
         claimed'[m] # claimed[m] \/ Claimants(m) \subseteq claimed[m]]_vars

\* The escape hatch of security review H-5 (FundingVault.sol:350-357): a
\* depositor is never trapped.  Whatever happened to the model or its pool,
\* one can withdraw, the announcement can be cancelled, or one can claim: what
\* the function requires holds, and the vault has what it is to transfer.
DepositorsCanExit ==
  \A m \in Models : \A u \in Claimants(m) \ claimed[m] :
    \/ CanWithdraw(m, u)
    \/ m \in registered /\ Cancellable(m)
    \/ CanClaim(m, u)

Escrow(m) == INSTANCE CommitmentEscrow WITH
  phase <- IF m \in graduated THEN "settled"
           ELSE IF m \in graduationAnnounced THEN "frozen" ELSE "open",
  stake <- commitments[m], total <- totalCommitted[m],
  proceeds <- totalTokens[m],
  paid <- claimed[m], payout <- received[m]

\* Each proposal is an escrow: shares are settled on the commitments as they
\* stand, although the contract pays from a copy taken earlier.
ImplementsEscrow ==
  /\ \A m \in Models : Escrow(m)!EscrowInit
  /\ [][\A m \in Models : Escrow(m)!EscrowNext \/ UNCHANGED Escrow(m)!escrow]_vars

=============================================================================
