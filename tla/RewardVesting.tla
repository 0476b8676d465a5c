--------------------------- MODULE RewardVesting ---------------------------
(***************************************************************************)
(* contracts/RewardVestingVault.sol: schedules over tokens the vault       *)
(* holds.  The TokenManager mints to the vault and opens the schedule in   *)
(* one transaction; the beneficiary claims what has vested.                *)
(*                                                                         *)
(* contracts/PendingClaimsEscrow.sol: rewards of contributors without a    *)
(* wallet are minted to the escrow, vest with the escrow as beneficiary,   *)
(* and are released to the wallet the contributor verifies later.          *)
(***************************************************************************)
EXTENDS HokusaiToken

CONSTANTS
  MaxTime,                \* bound on block.timestamp
  MaxSchedules            \* bound on the schedules

VARIABLES
  schedules,              \* by scheduleId, which counts from 1 here
  now                     \* block.timestamp

Schedule(m, beneficiary, total, policy) ==
  [token |-> m, beneficiary |-> beneficiary, totalAmount |-> total, claimed |-> 0,
   start |-> now, cliff |-> policy.cliff, duration |-> policy.duration]

\* _vestedAmount: nothing before the cliff, all at the end, a floor in between.
VestedAmount(s, t) ==
  IF t < s.start + s.cliff THEN 0
  ELSE IF t >= s.start + s.duration THEN s.totalAmount
  ELSE (s.totalAmount * (t - s.start)) \div s.duration

Claimable(s) == VestedAmount(s, now) - s.claimed

\* createSchedule, for the parts that vest; each pair is a beneficiary and a total.
CreateSchedules(m, policy, first, second) ==
  LET opened(to, total) ==
        IF total > 0 THEN <<Schedule(m, to, total, policy)>> ELSE <<>>
  IN /\ first.total + second.total > 0 => policy.duration > 0 /\ policy.cliff <= policy.duration
     /\ schedules' = schedules \o opened(first.to, first.total) \o opened(second.to, second.total)
     /\ Len(schedules') <= MaxSchedules

\* claim, by the schedule's beneficiary.
Claim(i) ==
  /\ Claimable(schedules[i]) > 0
  /\ Claimable(schedules[i]) <= balances[schedules[i].token][Vault]
  /\ schedules' = [schedules EXCEPT ![i].claimed = VestedAmount(schedules[i], now)]
  /\ balances' = [balances EXCEPT ![schedules[i].token] =
       Credit(Debit(@, Vault, Claimable(schedules[i])), schedules[i].beneficiary,
              Claimable(schedules[i]))]
  /\ UNCHANGED <<kind, totalSupply, investorMinted, rewardMinted, supplierDistributed, strays, now>>

Tick ==
  /\ now < MaxTime
  /\ now' = now + 1
  /\ UNCHANGED <<token, schedules>>

-----------------------------------------------------------------------------

VARIABLES
  releasesPaused, totalReleased,
  credited              \* history: rewards minted with the escrow as recipient, and what
                        \* else it was given, less what was rescued or burnt

escrow == <<releasesPaused, totalReleased, credited>>

None == [m \in Models |-> 0]

EscrowInit ==
  /\ releasesPaused = FALSE /\ totalReleased = None /\ credited = None

Credited(m, h, amount) ==
  credited' = IF h = Escrow THEN [credited EXCEPT ![m] = @ + amount] ELSE credited

tokenRest == <<kind, totalSupply, investorMinted, rewardMinted, supplierDistributed, strays>>

\* release, and releaseBatch of two: amount zero reverts, here it is the second
\* entry a single release does not have.
Release(m, first, second) ==
  /\ ~releasesPaused
  /\ first.amount > 0
  /\ first.amount + second.amount <= balances[m][Escrow]
  /\ totalReleased' = [totalReleased EXCEPT ![m] = @ + first.amount + second.amount]
  /\ balances' = [balances EXCEPT ![m] =
       Credit(Credit(Debit(@, Escrow, first.amount + second.amount), first.to, first.amount),
              second.to, second.amount)]
  /\ UNCHANGED <<tokenRest, schedules, now, releasesPaused, credited>>

\* claimVested, by the releaser, paused or not.
ClaimVested(i) ==
  /\ schedules[i].beneficiary = Escrow
  /\ Claim(i)
  /\ UNCHANGED escrow

\* claimVestedBatch of two schedules of one token.
ClaimVestedBatch(i, j) ==
  /\ i # j
  /\ \A k \in {i, j} : /\ schedules[k].beneficiary = Escrow /\ Claimable(schedules[k]) > 0
                       /\ schedules[k].token = schedules[i].token
  /\ LET total == Claimable(schedules[i]) + Claimable(schedules[j])
         m == schedules[i].token
     IN /\ total <= balances[m][Vault]
        /\ balances' = [balances EXCEPT ![m] = Credit(Debit(@, Vault, total), Escrow, total)]
  /\ schedules' = [schedules EXCEPT ![i].claimed = VestedAmount(schedules[i], now),
                                    ![j].claimed = VestedAmount(schedules[j], now)]
  /\ UNCHANGED <<tokenRest, now, escrow>>

\* pause and unpause.
PauseReleases ==
  /\ releasesPaused' = ~releasesPaused
  /\ UNCHANGED <<token, schedules, now, totalReleased, credited>>

\* rescue works while paused, and is not a release.
Rescue(m, to, amount) ==
  /\ amount <= balances[m][Escrow]
  /\ balances' = [balances EXCEPT ![m] = Credit(Debit(@, Escrow, amount), to, amount)]
  /\ credited' = [credited EXCEPT ![m] = @ - amount]
  /\ UNCHANGED <<tokenRest, schedules, now, releasesPaused, totalReleased>>

-----------------------------------------------------------------------------

SchedulesOf(m) == {i \in DOMAIN schedules : schedules[i].token = m}
Unclaimed == [i \in DOMAIN schedules |-> schedules[i].totalAmount - schedules[i].claimed]

\* What the vault owes of a model's token.
Owed(m) == SumOf(Unclaimed, SchedulesOf(m))

\* What of a model's token still vests for the escrow.
Locked(m) == SumOf(Unclaimed, {i \in SchedulesOf(m) : schedules[i].beneficiary = Escrow})

=============================================================================
