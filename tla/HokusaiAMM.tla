----------------------------- MODULE HokusaiAMM -----------------------------
(***************************************************************************)
(* contracts/HokusaiAMM.sol: one model's pool.  It sells the model's token *)
(* at a flat price until its USDC reserve reaches a threshold and along a  *)
(* bonding curve from there on, mints and burns through the TokenManager,  *)
(* and takes API fees into the reserve.  Deadlines, recipients and minimum *)
(* outputs are a trader's own guards: the trades here pass them.           *)
(***************************************************************************)
EXTENDS TokenManager

CONSTANTS
  market,                \* the pool's model
  Threshold,             \* FLAT_CURVE_THRESHOLD
  FlatPrice, TokenUnit,  \* FLAT_CURVE_PRICE, in USDC for a token of TokenUnit
  Spends, Sales,         \* amounts of buys and sells
  Crrs, TradeFees, TradeLimits, \* setParameters, setMaxTradeBps
  IbrDuration,           \* buys only until then
  PRECISION, PPM,        \* the scale of the fixed point, and of a CRR
  MaxReserve, MaxDonated \* bounds

ASSUME PoolConstants ==
  /\ market \in Models /\ Threshold \in Nat \ {0}
  /\ FlatPrice \in Nat \ {0} /\ TokenUnit \in Nat \ {0}
  /\ Spends \subseteq Nat \ {0} /\ Sales \subseteq Nat \ {0}
  /\ Crrs \subseteq Nat \ {0}
  /\ TradeFees \subseteq Nat /\ \A f \in TradeFees : f <= 1000
  /\ TradeLimits \subseteq Nat \ {0} /\ \A l \in TradeLimits : l <= 5000
  /\ PPM \in Nat \ {0} /\ PRECISION \in Nat \ {0}

VARIABLES
  deployed,              \* is there a pool
  reserveBalance,
  hasGraduated,
  usdc,                  \* the pool's USDC balance
  crr, tradeFee, maxTradeBps,
  buyOnlyUntil,
  whitelist,             \* accounts that may buy; all, if there is no whitelist
  poolPaused,
  crossed,               \* history: the reserve has been at the threshold
  donated                \* history: USDC sent to the pool outside its functions, less
                         \* what the owner withdrew

settings == <<deployed, crr, tradeFee, maxTradeBps, buyOnlyUntil, whitelist, poolPaused>>
pool == <<reserveBalance, hasGraduated, usdc, settings, crossed, donated>>
vars == <<managerVars, pool>>

Init ==
  /\ ManagerInit
  /\ deployed = FALSE
  /\ reserveBalance = 0 /\ hasGraduated = FALSE /\ usdc = 0
  /\ crr \in Crrs /\ tradeFee \in TradeFees
  /\ maxTradeBps = 2000 /\ buyOnlyUntil = 0 /\ whitelist = Users
  /\ poolPaused = FALSE /\ crossed = FALSE /\ donated = 0

-----------------------------------------------------------------------------
(* libraries/BondingCurveMath.sol, step by step in fixed point with        *)
(* PRECISION units to one.  Exponents below a hundredth, which pow treats  *)
(* apart and no CRR in bounds gives, are left out.                         *)

\* Solidity divides signed integers towards zero.
Quotient(a, b) == IF a >= 0 THEN a \div b ELSE -((-a) \div b)

\* Scaling by three into [1/3, 3]; each step counts one, not ln 3.
Scaled[x \in Nat] ==
  IF x > 3 * PRECISION
  THEN [value |-> Scaled[x \div 3].value, k |-> Scaled[x \div 3].k + 1]
  ELSE IF x < PRECISION \div 3
       THEN [value |-> Scaled[3 * x].value, k |-> Scaled[3 * x].k - 1]
       ELSE [value |-> x, k |-> 0]

\* y - y^2/2 + ... - y^8/8, each power and term rounded towards zero.
LnSeries(y) ==
  LET power[i \in 1..8] == IF i = 1 THEN y ELSE Quotient(power[i - 1] * y, PRECISION)
      sum[i \in 0..8] ==
        IF i = 0 THEN 0
        ELSE IF i % 2 = 0 THEN sum[i - 1] - Quotient(power[i], i)
             ELSE sum[i - 1] + Quotient(power[i], i)
  IN sum[8]

Ln(x) == LnSeries(Scaled[x].value - PRECISION) + Scaled[x].k * PRECISION

\* 1 + x + ... + x^10/10!
ExpSeries(x) ==
  LET term[i \in 1..10] ==
        IF i = 1 THEN x ELSE (term[i - 1] * x) \div (PRECISION * i)
      sum[i \in 0..10] == IF i = 0 THEN PRECISION ELSE sum[i - 1] + term[i]
  IN sum[10]

\* Above ten the argument is halved and the result squared.
ExpUnsigned[x \in Nat] ==
  IF x <= 10 * PRECISION THEN ExpSeries(x)
  ELSE (ExpUnsigned[x \div 2] * ExpUnsigned[x \div 2]) \div PRECISION

Exp(x) == IF x < 0 THEN (PRECISION * PRECISION) \div ExpUnsigned[-x] ELSE ExpUnsigned[x]

Pow(base, exponent) ==
  IF exponent = 0 THEN PRECISION
  ELSE IF base = 0 THEN 0
  ELSE IF base = PRECISION THEN PRECISION
  ELSE Exp(Quotient(exponent * Ln(base), PRECISION))

\* T = S * ((1 + E/R)^w - 1)
CalculateBuy(supply, reserve, deposit, weight) ==
  LET ratio == PRECISION + (deposit * PRECISION) \div reserve
      power == Pow(ratio, (weight * PRECISION) \div PPM)
  IN IF reserve = 0 \/ supply = 0 \/ power <= PRECISION THEN 0
     ELSE (supply * (power - PRECISION)) \div PRECISION

\* F = R * (1 - (1 - T/S)^(1/w))
CalculateSell(supply, reserve, tokens, weight) ==
  LET power == Pow(PRECISION - (tokens * PRECISION) \div supply, (PPM * PRECISION) \div weight)
  IN IF supply = 0 \/ tokens > supply \/ reserve = 0 THEN 0
     ELSE IF power >= PRECISION THEN 0
     ELSE (reserve * (PRECISION - power)) \div PRECISION

-----------------------------------------------------------------------------
(* Quotes.                                                                 *)

Fee(amount) == (amount * tradeFee) \div 10000
Net(amount) == amount - Fee(amount)

\* Tokens the vault holds do not circulate.
RedeemableSupply ==
  totalSupply[market] - (IF vestingVaultSet THEN balances[market][Vault] ELSE 0)

FlatTokens(spent) == (Net(spent) * TokenUnit) \div FlatPrice

CurveTokens(spent, reserve, supply) ==
  IF reserve = 0 \/ supply = 0 THEN FlatTokens(spent)
  ELSE CalculateBuy(supply, reserve, Net(spent), crr)

\* Mutant: the curve part starts from the supply before the flat part.
HybridFromOldSupply(spent) ==
  LET flat == Threshold - reserveBalance
  IN IF reserveBalance + spent <= Threshold THEN FlatTokens(spent)
     ELSE IF reserveBalance >= Threshold
          THEN CurveTokens(spent, reserveBalance, RedeemableSupply)
     ELSE CurveTokens(spent - flat, Threshold, RedeemableSupply + FlatTokens(flat))

\* A buy below the threshold, above it, or across it.
BuyQuote(spent) ==
  LET flat == Threshold - reserveBalance
  IN IF reserveBalance + spent <= Threshold THEN FlatTokens(spent)
     ELSE IF reserveBalance >= Threshold
          THEN CurveTokens(spent, reserveBalance, RedeemableSupply)
     ELSE FlatTokens(flat)
          + CurveTokens(spent - flat, Threshold, RedeemableSupply + FlatTokens(flat))

\* Sells follow the reserve, graduated or not.
SellQuote(tokens) ==
  IF tokens > RedeemableSupply \/ reserveBalance = 0 THEN 0
  ELSE IF reserveBalance < Threshold THEN (tokens * FlatPrice) \div TokenUnit
  ELSE CalculateSell(RedeemableSupply, reserveBalance, tokens, crr)

BondingCurvePhase == hasGraduated \/ reserveBalance >= Threshold
WithinTradeLimit(amount) == amount <= (reserveBalance * maxTradeBps) \div 10000

-----------------------------------------------------------------------------
(* Trades.                                                                 *)

\* The reserve changes, and the graduation latch with it.
Raise(reserve) ==
  /\ reserve <= MaxReserve
  /\ reserveBalance' = reserve
  /\ crossed' = (crossed \/ reserve >= Threshold)
  /\ hasGraduated' = (hasGraduated \/ reserve >= Threshold)

\* buy: the gross amount comes in, the fee goes to the treasury, the tokens are
\* minted; if the TokenManager refuses, nothing happens.  Quotes are uint256: a
\* calculation that leaves the naturals reverts.
Buy(buyer, spent) ==
  /\ deployed /\ ~poolPaused
  /\ buyer \in whitelist
  /\ BondingCurvePhase => WithinTradeLimit(spent)
  /\ Raise(reserveBalance + Net(spent))
  /\ usdc' = usdc + spent - Fee(spent)
  /\ Pool \in minters
  /\ LET tokensOut == BuyQuote(spent)
     IN tokensOut \in Nat \ {0} /\ MintTokens(market, buyer, tokensOut)
  /\ UNCHANGED <<settings, donated, noneElse, escrow, adminOps>>

\* sell: what is quoted leaves the reserve, the fee to the treasury included.
Sell(seller, tokens) ==
  /\ deployed /\ ~poolPaused /\ now >= buyOnlyUntil
  /\ SellQuote(tokens) \in Nat /\ WithinTradeLimit(SellQuote(tokens))
  /\ reserveBalance' = reserveBalance - SellQuote(tokens)
  /\ usdc' = usdc - SellQuote(tokens)
  /\ Pool \in minters
  /\ BurnAMMTokens(market, seller, tokens)
  /\ UNCHANGED <<hasGraduated, crossed, settings, donated, noneElse, escrow, adminOps>>

\* Mutant: only buys set the latch.
DepositFeesNoLatch(amount) ==
  /\ deployed /\ reserveBalance + amount <= MaxReserve
  /\ reserveBalance' = reserveBalance + amount
  /\ crossed' = (crossed \/ reserveBalance + amount >= Threshold)
  /\ usdc' = usdc + amount
  /\ UNCHANGED <<managerVars, settings, donated, hasGraduated>>

\* depositFees, by anyone, paused or not.
DepositFees(amount) ==
  /\ deployed
  /\ Raise(reserveBalance + amount)
  /\ usdc' = usdc + amount
  /\ UNCHANGED <<managerVars, settings, donated>>

\* USDC sent to the pool by a plain transfer is no reserve.
Donate(amount) ==
  /\ deployed /\ donated + amount <= MaxDonated
  /\ usdc' = usdc + amount /\ donated' = donated + amount
  /\ UNCHANGED <<managerVars, reserveBalance, hasGraduated, settings, crossed>>

WithdrawTreasury(amount) ==
  /\ deployed /\ amount <= usdc - reserveBalance
  /\ usdc' = usdc - amount /\ donated' = donated - amount
  /\ UNCHANGED <<managerVars, reserveBalance, hasGraduated, settings, crossed>>

-----------------------------------------------------------------------------
(* Governance.                                                             *)

\* The constructor; the factory deploys a pool for a model with a token.
DeployPool ==
  /\ ~deployed /\ HasToken(market)
  /\ deployed' = TRUE /\ buyOnlyUntil' = now + IbrDuration
  /\ UNCHANGED <<managerVars, reserveBalance, hasGraduated, usdc, crr, tradeFee,
                 maxTradeBps, whitelist, poolPaused, crossed, donated>>

Govern ==
  /\ AdminOp /\ deployed
  /\ \/ /\ crr' \in Crrs /\ tradeFee' \in TradeFees \ {tradeFee}         \* setParameters
        /\ UNCHANGED <<maxTradeBps, whitelist, poolPaused>>
     \/ /\ maxTradeBps' \in TradeLimits \ {maxTradeBps}                  \* setMaxTradeBps
        /\ UNCHANGED <<crr, tradeFee, whitelist, poolPaused>>
     \/ /\ whitelist' \in (SUBSET Users) \ {whitelist}                  \* setPurchaserWhitelist
        /\ UNCHANGED <<crr, tradeFee, maxTradeBps, poolPaused>>
     \/ /\ poolPaused' = ~poolPaused                                   \* pause, unpause
        /\ UNCHANGED <<crr, tradeFee, maxTradeBps, whitelist>>
  /\ UNCHANGED <<token, schedules, now, admin, eth, escrow, reserveBalance, hasGraduated,
                 usdc, deployed, buyOnlyUntil, crossed, donated>>

Next ==
  \/ ManagerNext /\ UNCHANGED pool
  \/ \E u \in Users, spent \in Spends : Buy(u, spent)
  \/ \E u \in Users \union {Supplier}, tokens \in Sales : Sell(u, tokens)
  \/ \E amount \in Spends :
       DepositFees(amount) \/ Donate(amount) \/ WithdrawTreasury(amount)
  \/ DeployPool \/ Govern

Spec == Init /\ [][Next]_vars

-----------------------------------------------------------------------------
(* Properties.                                                             *)

\* Every variable holds what the contracts' types allow.
MarketTypeOK ==
  /\ kind \in [Models -> {"none", "legacy", "capped"}]
  /\ balances \in [Models -> [Holders -> Nat]] /\ totalSupply \in [Models -> Nat]
  /\ investorMinted \in [Models -> Nat] /\ rewardMinted \in [Models -> Nat]
  /\ supplierDistributed \subseteq Models /\ strays \in [Models -> Int]
  /\ reserveBalance \in Nat /\ usdc \in Nat /\ donated \in Nat
  /\ now \in Nat /\ eth \in Nat /\ deploymentFee \in Nat

\* Counters: whatever is minted, sold and burnt, through the pool or past it, a
\* capped token has no more supply than its two counters and the supplier's
\* allocation account for, and the counters stay within their caps.
CountersCoverSupply ==
  \A m \in Models : Capped(m) =>
    /\ totalSupply[m] <= investorMinted[m] + rewardMinted[m] + Supplied(m)
    /\ investorMinted[m] <= InvestorAllocation
    /\ \E p \in Policies : rewardMinted[m] <= RewardCap(p.tokensPerDeltaOne)

\* The vault holds what its schedules owe, to the token; only transfers into it
\* and burns an administrator orders on its account can change that.
VestingBacked ==
  \A m \in Models : balances[m][Vault] = Owed(m) + strays[m]

\* No schedule has paid out more than has vested.
ClaimsWithinVesting ==
  \A i \in DOMAIN schedules : schedules[i].claimed <= VestedAmount(schedules[i], now)

\* Whatever was minted or sent to the escrow and neither rescued nor burnt is in
\* it, still vests for it, or was released.
EscrowAccounts ==
  \A m \in Models :
    balances[m][Escrow] + Locked(m) + totalReleased[m] = credited[m]

\* The pool holds its reserve, and beyond it what was donated: trades, fees and
\* treasury withdrawals never touch USDC that backs the tokens.
PoolBacked == usdc >= reserveBalance /\ usdc = reserveBalance + donated

\* The graduation latch is set exactly if the reserve was ever at the threshold.
LatchTracksPeak == hasGraduated <=> crossed

\* What a buy pays the curve at most doubles the reserve the curve starts from:
\* the base of the power is at most 2, where the series for its logarithm ends.
AtMostDoubles(spent) ==
  IF reserveBalance < Threshold
  THEN Net(spent - (Threshold - reserveBalance)) <= Threshold
  ELSE Net(spent) <= reserveBalance

\* More USDC never buys fewer tokens, across the threshold too, as long as the
\* part that pays the curve at most doubles the reserve it starts from.
LargerBuysBringMore ==
  \A x, y \in Spends :
    HasToken(market) /\ x < y /\ AtMostDoubles(y) => BuyQuote(x) <= BuyQuote(y)

\* BondingCurveMath states T = S * ((1 + E/R)^w - 1), with pow good to a tenth of
\* a percent for bases up to 2: with w = 1 a buy that crosses the threshold gets
\* S * E/R for its curve part, less a token for rounding.
CrossingBuysFollowFormula ==
  [][\A u \in Users, spent \in Spends :
       LET flat == Threshold - reserveBalance
           paid == Net(spent - flat)
       IN Buy(u, spent) /\ flat > 0 /\ paid > 0 /\ paid <= Threshold /\ crr = PPM
            => totalSupply'[market] - totalSupply[market] + 1
                 >= FlatTokens(flat)
                    + ((RedeemableSupply + FlatTokens(flat)) * paid) \div Threshold]_vars

\* Tokens: counters, caps, schedules and escrow account for every token there is.
TokensAccounted ==
  MarketTypeOK /\ CountersCoverSupply /\ VestingBacked /\ ClaimsWithinVesting /\ EscrowAccounts

\* USDC: the reserve is there, and the phase of the curve follows its history.
PoolAccounted == PoolBacked /\ LatchTracksPeak

=============================================================================
