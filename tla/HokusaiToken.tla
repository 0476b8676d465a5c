---------------------------- MODULE HokusaiToken ----------------------------
(***************************************************************************)
(* contracts/HokusaiToken.sol: the token of each model, with its mint and  *)
(* burn counters.  A legacy token mints without limit; a capped one counts *)
(* what investors and contributors got against two caps, and mints its     *)
(* supplier's allocation once.  The operators are the functions of the     *)
(* contract, which only the TokenManager calls.                            *)
(***************************************************************************)
EXTENDS Integers, Sequences, FiniteSets, Counting

CONSTANTS
  Models,
  Users,                 \* contributors, investors: accounts with a key
  Supplier,              \* modelSupplierRecipient
  Vault, Escrow,         \* RewardVestingVault and PendingClaimsEscrow
  Manager,               \* TokenManager, which holds a legacy token's first supply
  InitialSupply, SupplierAllocation, InvestorAllocation,
  RewardCapMultiplier,   \* REWARD_CAP_MULTIPLIER
  MaxTokens              \* bound on a token's supply

Holders == Users \union {Supplier, Vault, Escrow, Manager}

ASSUME TokenConstants ==
  /\ IsFiniteSet(Models) /\ IsFiniteSet(Users)
  /\ Supplier \notin Users \union {Vault, Escrow, Manager}
  /\ Vault \notin Users \union {Escrow, Manager} /\ Escrow \notin Users \union {Manager}
  /\ Manager \notin Users
  /\ InitialSupply \in Nat /\ SupplierAllocation \in Nat
  /\ InvestorAllocation \in Nat /\ RewardCapMultiplier \in Nat
  /\ MaxTokens \in Nat

VARIABLES
  kind,               \* of each model's token: none, legacy or capped
  balances,           \* [Models -> [Holders -> Nat]]
  totalSupply,
  investorMinted, rewardMinted,
  supplierDistributed, \* models, modelSupplierDistributed of the capped ones
  strays              \* history: tokens the vault got or lost outside its schedules

token == <<kind, balances, totalSupply, investorMinted, rewardMinted, supplierDistributed, strays>>

HasToken(m) == kind[m] # "none"
Capped(m) == kind[m] = "capped"
Credit(holdings, h, amount) == [holdings EXCEPT ![h] = @ + amount]
Debit(holdings, h, amount) == [holdings EXCEPT ![h] = @ - amount]

\* ERC20 mint and burn: the holders' new balances, and the supply.
MintTo(m, holdings, amount) ==
  /\ totalSupply[m] + amount <= MaxTokens
  /\ balances' = [balances EXCEPT ![m] = holdings]
  /\ totalSupply' = [totalSupply EXCEPT ![m] = @ + amount]

BurnFrom(m, from, amount) ==
  /\ amount <= balances[m][from]
  /\ balances' = [balances EXCEPT ![m] = Debit(@, from, amount)]
  /\ totalSupply' = [totalSupply EXCEPT ![m] = @ - amount]
  /\ strays' = IF from = Vault THEN [strays EXCEPT ![m] = @ - amount] ELSE strays

TokenInit ==
  /\ kind = [m \in Models |-> "none"]
  /\ balances = [m \in Models |-> [h \in Holders |-> 0]]
  /\ totalSupply = [m \in Models |-> 0]
  /\ investorMinted = [m \in Models |-> 0] /\ rewardMinted = [m \in Models |-> 0]
  /\ supplierDistributed = {} /\ strays = [m \in Models |-> 0]

\* The constructor: a legacy token mints its first supply to its controller.
Construct(m, type) ==
  /\ ~HasToken(m)
  /\ kind' = [kind EXCEPT ![m] = type]
  /\ IF type = "capped" THEN UNCHANGED <<balances, totalSupply>>
     ELSE MintTo(m, Credit(balances[m], Manager, InitialSupply), InitialSupply)
  /\ UNCHANGED <<investorMinted, rewardMinted, supplierDistributed, strays>>

MintInvestor(m, to, amount) ==
  /\ HasToken(m)
  /\ Capped(m) => investorMinted[m] + amount <= InvestorAllocation
  /\ investorMinted' = IF Capped(m) THEN [investorMinted EXCEPT ![m] = @ + amount]
                       ELSE investorMinted
  /\ MintTo(m, Credit(balances[m], to, amount), amount)
  /\ UNCHANGED <<kind, rewardMinted, supplierDistributed, strays>>

RewardCap(tokensPerDeltaOne) == RewardCapMultiplier * tokensPerDeltaOne

\* mintReward, called for each part of each share: what the holders get and
\* what is counted; the cap holds for the last part as it does for the sum.
MintReward(m, holdings, total, tokensPerDeltaOne) ==
  /\ HasToken(m)
  /\ Capped(m) => rewardMinted[m] + total <= RewardCap(tokensPerDeltaOne)
  /\ rewardMinted' = IF Capped(m) THEN [rewardMinted EXCEPT ![m] = @ + total]
                     ELSE rewardMinted
  /\ MintTo(m, holdings, total)
  /\ UNCHANGED <<kind, investorMinted, supplierDistributed, strays>>

DistributeModelSupplierAllocation(m, vested) ==
  /\ Capped(m) /\ m \notin supplierDistributed
  /\ SupplierAllocation > 0 /\ vested <= SupplierAllocation
  /\ supplierDistributed' = supplierDistributed \union {m}
  /\ MintTo(m, Credit(Credit(balances[m], Supplier, SupplierAllocation - vested), Vault, vested),
            SupplierAllocation)
  /\ UNCHANGED <<kind, investorMinted, rewardMinted, strays>>

\* burn and burnFrom count nothing.
Burn(m, from, amount) ==
  /\ HasToken(m) /\ BurnFrom(m, from, amount)
  /\ UNCHANGED <<kind, investorMinted, rewardMinted, supplierDistributed>>

BurnInvestor(m, from, amount) ==
  /\ HasToken(m) /\ BurnFrom(m, from, amount)
  /\ Capped(m) => amount <= investorMinted[m]
  /\ investorMinted' = IF Capped(m) THEN [investorMinted EXCEPT ![m] = @ - amount]
                       ELSE investorMinted
  /\ UNCHANGED <<kind, rewardMinted, supplierDistributed>>

Lesser(x, y) == IF x <= y THEN x ELSE y

\* Mutant: both counters are charged with the whole amount.
BothCounters(m, amount) ==
  [investor |-> Lesser(amount, investorMinted[m]), reward |-> Lesser(amount, rewardMinted[m])]

\* A sell takes from the investor counter first, then from the reward counter.
AMMBurnSplit(m, amount) ==
  LET investor == Lesser(amount, investorMinted[m])
  IN [investor |-> investor, reward |-> Lesser(amount - investor, rewardMinted[m])]

BurnAMM(m, from, amount) ==
  /\ HasToken(m) /\ BurnFrom(m, from, amount)
  /\ IF Capped(m)
     THEN /\ investorMinted' = [investorMinted EXCEPT ![m] = @ - AMMBurnSplit(m, amount).investor]
          /\ rewardMinted' = [rewardMinted EXCEPT ![m] = @ - AMMBurnSplit(m, amount).reward]
     ELSE UNCHANGED <<investorMinted, rewardMinted>>
  /\ UNCHANGED <<kind, supplierDistributed>>

\* ERC20 transfer (OpenZeppelin): from an account with a key, to anyone.
Transfer(m, from, to, amount) ==
  /\ HasToken(m) /\ from # to /\ amount <= balances[m][from]
  /\ balances' = [balances EXCEPT ![m] = Credit(Debit(@, from, amount), to, amount)]
  /\ strays' = IF to = Vault THEN [strays EXCEPT ![m] = @ + amount] ELSE strays
  /\ UNCHANGED <<kind, totalSupply, investorMinted, rewardMinted, supplierDistributed>>

Supplied(m) == IF m \in supplierDistributed THEN SupplierAllocation ELSE 0

=============================================================================
