---------------------------- MODULE TokenManager ----------------------------
(***************************************************************************)
(* contracts/TokenManager.sol with the vault its rewards vest in and the   *)
(* PendingClaimsEscrow that keeps the rewards of contributors without a    *)
(* wallet.  One action is one transaction that does not revert; a reverted *)
(* one leaves no trace.  The owner may call everything.                    *)
(***************************************************************************)
EXTENDS RewardVesting

CONSTANTS
  Pool,                 \* the model's AMM, a caller that needs MINTER_ROLE
  Policies,             \* vesting configurations and tokensPerDeltaOne of HokusaiParams
  Fees,                 \* deployment fees
  Amounts,              \* amounts of direct mints, burns and transfers
  Rewards,              \* amounts of rewards
  MaxAdminOps,          \* bound on administrators' transactions
  MaxEarned,            \* bound on what the escrow is given
  MaxGifts              \* bound on transfers to the vault

\* What HokusaiParams._validateVestingConfig lets in.
ASSUME ManagerConstants ==
  /\ \A p \in Policies : /\ p.enabled \in BOOLEAN /\ p.immediateUnlockBps \in Nat
                         /\ p.immediateUnlockBps <= 10000
                         /\ p.duration \in Nat /\ p.cliff \in Nat /\ p.cliff <= p.duration
                         /\ p.enabled <=> p.duration > 0
                         /\ p.tokensPerDeltaOne \in Nat
  /\ Fees \subseteq Nat /\ Amounts \subseteq Nat \ {0} /\ Rewards \subseteq Nat \ {0}
  /\ MaxAdminOps \in Nat /\ MaxTime \in Nat /\ MaxSchedules \in Nat
  /\ MaxEarned \in Nat /\ MaxGifts \in Nat

VARIABLES
  policy,               \* each model's HokusaiParams
  vestingVaultSet,
  minters,              \* addresses with MINTER_ROLE
  inactive,             \* models the registry knows and has deactivated
  deploymentFee, eth,   \* the fee and the ETH the contract holds
  adminOps

admin == <<policy, vestingVaultSet, minters, inactive, deploymentFee>>
managerVars == <<token, schedules, now, admin, eth, escrow, adminOps>>

ManagerInit ==
  /\ TokenInit /\ schedules = <<>> /\ now = 0
  /\ policy \in [Models -> Policies]
  /\ vestingVaultSet = FALSE /\ minters = {} /\ inactive = {}
  /\ deploymentFee = 0 /\ eth = 0
  /\ EscrowInit /\ adminOps = 0

\* A model that is registered and deactivated takes no mint; an unregistered one does.
MayMint(m) == HasToken(m) /\ m \notin inactive

escrowRest == <<releasesPaused, totalReleased>>
noneElse == <<schedules, now, admin, eth>>

AdminOp == adminOps < MaxAdminOps /\ adminOps' = adminOps + 1

-----------------------------------------------------------------------------
(* Deployment.  The sender gets back what is above the fee.                *)

DeployTokenWithParams(m) ==
  /\ InitialSupply > 0
  /\ Construct(m, "legacy")
  /\ eth' = eth + deploymentFee
  /\ UNCHANGED <<schedules, now, admin, escrow, adminOps>>

DeployTokenWithAllocations(m) ==
  /\ SupplierAllocation > 0 /\ InvestorAllocation > 0
  /\ Construct(m, "capped")
  /\ eth' = eth + deploymentFee
  /\ UNCHANGED <<schedules, now, admin, escrow, adminOps>>

Split(amount, bps) ==
  LET immediate == (amount * bps) \div 10000
  IN [immediate |-> immediate, vested |-> amount - immediate]

\* How a policy divides an amount; zero vested is all immediate.
Parts(m, amount) ==
  IF policy[m].enabled THEN Split(amount, policy[m].immediateUnlockBps)
  ELSE [immediate |-> amount, vested |-> 0]

Nothing == [to |-> Supplier, total |-> 0]

DistributeSupplierWithVesting(m) ==
  LET vested == Parts(m, SupplierAllocation).vested
  IN /\ vested > 0 => vestingVaultSet
     /\ DistributeModelSupplierAllocation(m, vested)
     /\ CreateSchedules(m, policy[m], [to |-> Supplier, total |-> vested], Nothing)
     /\ UNCHANGED <<now, admin, eth, escrow, adminOps>>

-----------------------------------------------------------------------------
(* Minting and burning.                                                    *)

\* mintTokens, called by an authorised account.
MintTokens(m, to, amount) ==
  /\ MayMint(m)
  /\ MintInvestor(m, to, amount)

MintTokensByOwner(m, to, amount) ==
  /\ AdminOp
  /\ MintTokens(m, to, amount)
  /\ Credited(m, to, amount)
  /\ UNCHANGED <<noneElse, escrowRest>>

Vested(m, share) == [to |-> share.to, total |-> Parts(m, share.amount).vested]

\* A share's immediate part goes to its recipient, the rest to the vault.
Pay(m, holdings, share) ==
  Credit(Credit(holdings, share.to, Parts(m, share.amount).immediate),
         Vault, Parts(m, share.amount).vested)

EarnedBy(h, first, second) ==
  (IF first.to = h THEN first.amount ELSE 0) + (IF second.to = h THEN second.amount ELSE 0)

\* mintReward and batchMintReward for two shares, of which amount zero is skipped.
BatchMintReward(m, first, second) ==
  LET vested == Vested(m, first).total + Vested(m, second).total
  IN /\ MayMint(m)
     /\ vested > 0 => vestingVaultSet
     /\ MintReward(m, Pay(m, Pay(m, balances[m], first), second),
                   first.amount + second.amount, policy[m].tokensPerDeltaOne)
     /\ CreateSchedules(m, policy[m], Vested(m, first), Vested(m, second))
     /\ credited[m] + EarnedBy(Escrow, first, second) <= MaxEarned
     /\ credited' = [credited EXCEPT ![m] = @ + EarnedBy(Escrow, first, second)]
     /\ UNCHANGED <<now, admin, eth, escrowRest, adminOps>>

BurnTokens(m, account, amount) ==
  /\ AdminOp
  /\ Burn(m, account, amount)
  /\ Credited(m, account, -amount)
  /\ UNCHANGED <<noneElse, escrowRest>>

BurnInvestorTokens(m, account, amount) ==
  /\ AdminOp
  /\ BurnInvestor(m, account, amount)
  /\ Credited(m, account, -amount)
  /\ UNCHANGED <<noneElse, escrowRest>>

BurnAMMTokens(m, account, amount) == BurnAMM(m, account, amount)

BurnAMMTokensByOwner(m, account, amount) ==
  /\ AdminOp
  /\ BurnAMMTokens(m, account, amount)
  /\ Credited(m, account, -amount)
  /\ UNCHANGED <<noneElse, escrowRest>>

TransferTokens(m, from, to, amount) ==
  /\ to = Vault => strays[m] + amount <= MaxGifts
  /\ to = Escrow => credited[m] + amount <= MaxEarned
  /\ Transfer(m, from, to, amount)
  /\ Credited(m, to, amount)
  /\ UNCHANGED <<noneElse, escrowRest, adminOps>>

ClaimByHolder(i) ==
  /\ schedules[i].beneficiary \in Users \union {Supplier}
  /\ Claim(i)
  /\ UNCHANGED <<admin, eth, escrow, adminOps>>

-----------------------------------------------------------------------------
(* Administration and the escrow.                                          *)

\* What the deployment sets up: setVestingVault, once, and authorizeAMM.
SetUp ==
  /\ \/ ~vestingVaultSet /\ vestingVaultSet' = TRUE /\ UNCHANGED minters
     \/ Pool \notin minters /\ minters' = {Pool} /\ UNCHANGED vestingVaultSet
  /\ UNCHANGED <<policy, inactive, deploymentFee, token, schedules, now, eth, escrow, adminOps>>

\* Entries of the contracts that administrators change later.
Administer ==
  /\ AdminOp
  /\ \/ /\ \E fee \in Fees \ {deploymentFee} : deploymentFee' = fee  \* setDeploymentFee
        /\ UNCHANGED <<policy, minters, inactive>>
     \/ /\ Pool \in minters /\ minters' = {}                          \* revokeAMM
        /\ UNCHANGED <<policy, inactive, deploymentFee>>
     \/ /\ \E m \in Models : \E p \in Policies \ {policy[m]} : policy' = [policy EXCEPT ![m] = p]
        /\ UNCHANGED <<minters, inactive, deploymentFee>>
     \/ /\ \E m \in Models :                                \* deactivate, reactivate
             inactive' = (inactive \ {m}) \union ({m} \ inactive)
        /\ UNCHANGED <<policy, minters, deploymentFee>>
  /\ UNCHANGED <<vestingVaultSet, token, schedules, now, eth, escrow>>

WithdrawDeploymentFees ==
  /\ eth > 0 /\ eth' = 0
  /\ UNCHANGED <<token, schedules, now, admin, escrow, adminOps>>

Share(to, amount) == [to |-> to, amount |-> amount]

ManagerNext ==
  \/ \E m \in Models :
       \/ DeployTokenWithParams(m) \/ DeployTokenWithAllocations(m)
       \/ DistributeSupplierWithVesting(m)
       \/ \E to \in Users, amount \in Amounts : MintTokensByOwner(m, to, amount)
       \/ \E a, b \in Users \union {Escrow}, x \in Rewards, y \in Rewards \union {0} :
            BatchMintReward(m, Share(a, x), Share(b, y))
       \/ \E h \in Holders, amount \in Amounts :
            \/ BurnTokens(m, h, amount) \/ BurnInvestorTokens(m, h, amount)
            \/ BurnAMMTokensByOwner(m, h, amount)
       \/ \E from \in Users, to \in Users \union {Vault, Escrow}, amount \in Amounts :
            TransferTokens(m, from, to, amount)
       \/ /\ \E a, b \in Users, x \in Amounts, y \in Amounts \union {0} :
               Release(m, Share(a, x), Share(b, y))
          /\ UNCHANGED <<admin, eth, adminOps>>
       \/ /\ AdminOp /\ \E to \in Users, amount \in Amounts : Rescue(m, to, amount)
          /\ UNCHANGED <<admin, eth>>
  \/ \E i \in DOMAIN schedules : ClaimByHolder(i)
  \/ /\ \E i, j \in DOMAIN schedules : ClaimVested(i) \/ ClaimVestedBatch(i, j)
     /\ UNCHANGED <<admin, eth, adminOps>>
  \/ /\ AdminOp /\ PauseReleases
     /\ UNCHANGED <<admin, eth>>
  \/ SetUp \/ Administer \/ WithdrawDeploymentFees
  \/ /\ Tick
     /\ UNCHANGED <<admin, eth, escrow, adminOps>>

=============================================================================
