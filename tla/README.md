# Hokusai token: TLA+ models, model checking and proofs

This directory specifies the protocol core of `hokusai-token`: the contracts that
decide who is paid how many tokens, and the off-chain services that carry their
transactions. Paths are relative to the repository, written `src/...` in
`PROJECT.json`.

## 1. The system

| Part | State it keeps | Operations | Talks to |
|---|---|---|---|
| **DeltaVerifier** | attesters and threshold, per-model mint budget, per-model weight head, burnt idempotency keys, pause and cutover flags | `submitMintRequest`, three legacy `submitEvaluation*`, admin setters | ModelRegistry, TokenManager, HokusaiParams, DataContributionRegistry |
| **TokenManager / HokusaiToken** | model → token, per-token investor / reward / supplier counters | mint, burn, deploy, vesting split | token, vault, registry |
| **RewardVestingVault** | schedules and claimed amounts | createSchedule, claim | token |
| **ModelRegistry** | model → token, status, weight genesis, pool | register, update, (de)activate, setWeightGenesis | read by everyone |
| **HokusaiParams** | reward rate, accrual bps, oracle price, vesting, pending updates | setters, queue / apply / cancel | read by token, AMM, router |
| **FundingVault** | proposals, commitments, snapshots, claims | deposit, withdraw, announce, cancel, graduate, claim, sweep | AMM, token |
| **HokusaiAMM (+ factory)** | USDC reserve, graduation latch, fees | buy, sell, depositFees, pausing | TokenManager |
| **UsageFeeRouter, InfrastructureReserve, CostOracle** | per-model accrual, costs, reconciliation periods | depositFee(s), pay, emergencyWithdraw, advancePeriod | AMM |
| **DataContributionRegistry, PendingClaimsEscrow** | contribution records; held tokens | record, verify, claim; release, rescue | DeltaVerifier, vault |
| **Mint relay** (`services/contract-deployer`) | five Redis structures, mint records, in-flight transactions | consume, retry, submit, settle, dead-letter | DeltaVerifier, auth service |
| **DLQ tool** (`scripts/dlq.ts`) | none of its own | list, inspect, replay, discard | Redis, DeltaVerifier |
| **Deploy listener, deployment API** | inbound / processing / dead-letter lists; deployment status | deploy token, register model, publish event | TokenManager, ModelRegistry |
| **Launch scripts** (`scripts/launch-mainnet.js` and what it runs) | the deployment record, the launch configuration, the Safe bundle | deploy, create pools, set the mint posture, hand governance over, verify | every contract, as deployer |
| **Monitoring** | last seen pool states, alert history | poll, alert, reconcile | read-only |

Where the difficulty is. On chain a transaction is atomic, so what can go wrong
is *order*: which of two signed requests reaches the head first, what governance
did between signing and submission, what a long sequence of legal calls leads
to. Off chain every `await` is a point where a worker can die, another worker,
the operator or the chain can move, and where a failed call may nevertheless
have had its effect. `PROJECT.json` lists these hazards at their lines, the
not-yet-covered ones with a note.

## 2. Modules

| Module | Models | Status |
|---|---|---|
| `MintLedger` | abstract: what the attested mint path promises | done |
| `MintAuthority` | `DeltaVerifier.sol` and what it reads and writes elsewhere | done, proved |
| `MintAuthorityProofs` | theorems about `MintAuthority` | done |
| `MintRelay` | the relay and the DLQ tool, composed with `MintAuthority` | done, proved |
| `MintRelayProofs` | theorems about `MintRelay` | proved |
| `ModelLaunch` | abstract: a model goes once through deployed, registered, announced | done |
| `DeployListener` | the deploy listener, its queue consumer and its clients; implements `ModelLaunch` | done, proved |
| `DeployListenerProofs` | theorems about `DeployListener` | proved |
| `CommitmentEscrow` | abstract: what a funding proposal promises its depositors | done |
| `FundingVault` | `FundingVault.sol` and what it reads of the registry; implements `CommitmentEscrow` | done, proved |
| `Counting`, `CountingTheorems` | sums of naturals as numbers of units, lists as bags, the entries of a list at given positions, and theorems about them | proved |
| `FundingVaultProofs` | theorems about `FundingVault` | proved |
| `HokusaiToken`, `RewardVesting` | the token's counters and caps; vesting schedules and the escrow of held claims (`RewardVestingVault.sol`, `PendingClaimsEscrow.sol`) | done, proved |
| `TokenManager` | `TokenManager.sol` and `DeployableTokenManager.sol`, composed with them | done, proved |
| `HokusaiAMM` | the fixed-point formulas and the pool, composed with `TokenManager` | done, the books proved, the quotes checked |
| `TokenMarketProofs` | theorems about `HokusaiAMM` and all it is composed of | proved |
| `InfrastructureReserve`, `UsageFeeRouter` | costs and infrastructure accounts (`InfrastructureCostOracle.sol`, `InfrastructureReserve.sol`); the split of API fees on top | done, proved |
| `ModelRegistry`, `HokusaiAMMFactory` | models by number and by string, their pools; the factory on top | done, proved |
| `HokusaiParams` | a model's queued parameters | done, proved |
| `DeploymentApi` | the deployment API's requests, their keys in Redis, the queue and its processor | done, proved |
| `DataContributionRegistry` | contribution records | done, proved |
| `ServicesProofs` | theorems about the twelve parts of `MCServices` | proved |
| `StateTracker`, `AlertManager`, `PoolWatch` | the monitor: polls and latches, limits on e-mails, how pools come to be watched | done, proved |
| `TradeWatch`, `IngestionHeartbeat` | the monitor: events, alerts and metrics; the heartbeat and its failover | done, proved |
| `CostReconciliation` | invoices, variances and runways | done, proved |
| `ServiceLifecycle` | `index.ts` and `server.ts`, from start to exit | done, proved |
| `DeployStack` | `lib/deploy-stack.js` and the deployment record: who holds what on a new stack | done, proved |
| `GovernanceHandoff`, `LaunchPosture` | the timelock and the handoff; launch tokens and pools, and the mint posture, on `DeployStack` | done, proved |
| `LaunchConductor` | `launch-mainnet.js`: the phases, gates and restarts over the three | done, proved |
| `LaunchProofs` | theorems about `LaunchConductor` and the three it composes | proved |

`MC*` modules give TLC concrete requests and accounts; each `.cfg` is one run.

### MintAuthority

One action is one transaction that does not revert; a reverting transaction
changes nothing and is no step. `submitMintRequest` has one guard,
`AcceptRequest` (the checks before the commit point), and three outcomes:
`RejectOnCost`, `AcceptWithoutReward`, `PayRequest`. `PayRequest` covers the
calls it makes: the head, the log, the budget, `batchMintReward` with the
token's reward cap. The legacy entrypoints are `SubmitEvaluation` (one wallet,
rate limited) and `SubmitEvaluationWithMultipleContributors`.

* A *request* stands for the signed `(modelId, payload, contributors)` tuple.
  `SignedBy` says who signed it; a submission carries any list of up to
  `MaxSigs` of those signatures, in any order, repeated or not. Signatures are
  unforgeable: that is the assumption on ECDSA / EIP-712.
* `wellFormed` stands for the checks that read calldata only.
* The reward formula is exact integer arithmetic, floor included. How a reward
  is split over contributors (floor per contributor, dust to the first) and over
  immediate and vested parts always adds up to the same total, so the total is
  what is minted here.
* `tokenLink` is the relation `_assertCanonicalTokenMatch` looks at: TokenManager
  has no token for the model (`none`, which passes the assertion but lets no
  reward be minted), the registry's token (`match`), or another one. The
  `modelUpdatesEnabled` switch of the registry is left out: re-linking is always
  possible.
* `lineageLog` and `resolutions` are the events; `granted` and `legacyMinted`
  are history variables for the conservation law.
* Mints by the owner or a MINTER_ROLE holder of TokenManager do not pass through
  DeltaVerifier and are outside this module.

### MintLedger

Keys are settled at most once and for good; a paid key extends the model's
lineage from its current head, in full, within the allowance. `MintAuthority`
implements it under: settled = burnt keys, payments = minted resolutions,
lineage = `currentModelHead`, allowance = `mintBudgetRemaining`, paid = tokens
minted minus legacy mints. Legacy entrypoints, pausing and attesters map to
stuttering steps.

### MintRelay

EXTENDS `MintAuthority`, so that the chain moves underneath the relay by the
contract's own actions. A worker's `pc` is the await it has reached:

`idle` → BRPOPLPUSH → `taken` → SISMEMBER → `handling` → estimate and send →
`waiting` → receipt → `posting` (auth service, paying mints only) → `publishing`
(LPUSH settlements) → `committing` (MULTI) → `idle`; any failure → `failing` →
either the retry MULTI or `burying` (LPUSH dead letters, then LREM).

* Redis lists that are consumed in order are sequences; lists that are only
  pushed to and LREM'ed are bags; the sorted set is a set, so that two copies
  with the same retry count merge, as they do in Redis.
* `mempool` is external: a transaction, once sent, is mined in nonce order
  whatever happens to the process that sent it.
* `ReadDue` reads the retries that are due and `PromoteDueRetry` moves them one by
  one; the MULTI pushes without asking whether its ZREM found anything, so two
  workers that read the same retry both push it.
* A failing call (`RpcFails`, `PostFails`, `RedisFails`, `TakeReplyLost`,
  `PromotionFails`) has both outcomes of a lost reply: the effect took place or it did
  not. That includes the push of a settlement whose message is then retried.
* `Strand` is a call that fails outside the handler's `try` or while a failure is
  being handled: `start()` swallows it, and the message stays in `processing` with the
  worker alive. `Crash` is a process death. Nothing reclaims what either leaves behind.
* Left out: the payout-intent write (fail-soft, before the send), expiry of mint
  records, the DLQ tool's read-only commands.

### DeployListener

The message's way through the listener, one await per step: `idle` →
BRPOPLPUSH → `check` → `deploy` → `register` → `publish` → `ack` (LREM) →
`idle`. A schema failure goes `reject` (LPUSH dead letters) →
`unlistRejected` (LREM), inside the try block; an exception goes `failed` →
requeue, or `drop` (LREM) → `bury` (LPUSH dead letters) → `unlist` (LREM), inside
its catch block, where a further exception leaves the consumer's loop to go on.

* `attempts` is the counter of the three retry loops of the clients
  (`deployToken`, `registerModel`, `publishWithRetry`); `retryCount` travels with
  the message.
* The processing list is a bag, because LREM removes one *equal string*: it may
  be the copy another listener holds. A requeued message has another
  `_retryCount`, so its earlier copies stay in the list; a unit test
  (`redis-consumer.test.ts:74`) asks for that. `NothingVanishes` holds because of
  these copies: an exhausted message leaves the list before it is a dead letter.
* `getNetworkInfo`, which only reads, is the first thing that can fail at
  `publish`.
* `registryAnswers` tells the registry that the client's ABI and the tests' mocks
  describe (TRUE) from `contracts/ModelRegistry.sol`, which has no function with
  these signatures (FALSE); `CheckReverts` is what then happens. `networkListed`
  says whether the event's schema has the network's name; without it `RejectEvent`
  is each attempt to publish, with no call failing.
* Malformed JSON, which the catch block cannot parse either, differs from a schema
  failure only when the dead-letter push fails too; it is not modelled apart.

### ModelLaunch

Each model is deployed, registered and announced, once and in this order.
`DeployListener` implements it with the tokens of TokenManager, the models of the
registry and the models named in the outbound queue.

### FundingVault

One action is one transaction. `registered`, `graduated` and `graduationAnnounced`
are the proposals' flags as sets of models; `usdc` is the one balance all
proposals share.

* `AnnounceGraduation` runs the whole loop over `depositors`: it overwrites the
  snapshot of everyone in the list and counts the list's entries with a
  commitment. `CancelGraduation` leaves the per-user snapshots in place, as the
  code does.
* `Graduate` creates the pool and makes its first buy. The buy brings any of
  `Purchases`; that it may also revert (slippage, whitelist) is that the
  graduator need not take the step. A model gets one pool in its life:
  `RegisterPool`, by another registrar, closes the way to graduation for good.
* `Claim` pays the floor of the share; `SweepDust` sends all that is left.
* `gifts` are tokens anyone sends to the vault; USDC sent outside `deposit` only
  adds to the balance and is left out. `received` is a history variable.
* The roles (graduator, admin) are not modelled: whoever holds them may do any of
  their calls at any time.

### CommitmentEscrow

Open: depositors come and go with exactly what they put in. Frozen: nothing moves
and the freeze can be undone. Settled: each depositor is paid the floor of
`stake * proceeds / total`, once. `FundingVault` implements it for every model,
with the stakes read from the live commitments: that the contract pays from
copies taken earlier must make no difference.

### HokusaiToken, TokenManager, RewardVesting

`HokusaiToken` has the token's functions as operators, since only its controller
calls them; the actions are those of `TokenManager`. A token is *legacy* (first
supply to the controller, no caps) or *capped* (investors up to their allocation,
rewards up to a multiple of the rate, the supplier once).

* `BatchMintReward` and the other mints run `_mintRewardWithVesting` whole: the
  immediate part to the contributor, the rest to the vault with its schedule, in
  one step.
* `strays` and the escrow's totals account for what reaches the vault or the
  escrow outside schedules and releases: anyone may transfer tokens to them.
* A transfer of tokens is one action between any two holders; allowances are
  ERC20's.

### HokusaiAMM

The formulas of `BondingCurveMath.sol` are computed as the library does, with the
same series, the same rounding and the same scaling by 3 that adds 1 instead of
ln 3, in a fixed point of `PRECISION` units instead of 1e18. That keeps the shape
of its error (`curve_formula`) but not its last digits. `LargerBuysBringMore` is
stated of buys whose curve part at most doubles the reserve, the range in which
the series still grows; the run's amounts go to twice the threshold, beyond it.
`HokusaiAMM` has every state-changing function. The phase is read from the reserve, as `getCurrentPhase` does; the
documented "permanent regardless of reserve level" (`HokusaiAMM.sol:64`) is true
of `hasGraduated` only: after sells have brought the reserve below the threshold,
quotes are flat again.

### InfrastructureReserve, UsageFeeRouter

`InfrastructureReserve` has the oracle the router reads and the reserve it pays into.
A fee goes through the whole of `batchDepositFees`: checks of every entry, the
split, one transfer and `batchDeposit` to the reserve, then `depositFees` of each
pool. `GovernModels` is what the registry, the factory and a model's parameters
may become in between. Times are epochs of the oracle's clock.

### ModelRegistry, HokusaiAMMFactory

`ParseModelId` maps strings to ids: two strings may name one model
("1" and "01"), and pools are kept by string. `CreatePool` is the whole
transaction, the registry's entry included; `RegisterOtherPool` is what an owner
or another registrar may enter beside the factory. `swept` is a history variable:
how much of `allPools` consecutive calls of `pauseAllPools` have covered.

### DeploymentApi

One model's requests. `createDeployment` is one await per step: `new` (mapping
read) → `check` (status of the request it names) → `store` → `map` → `enqueue` →
`accepted`, with `drop` where the mapping is deleted and `cleanStatus` /
`cleanMapping` after a failure. A BLPOP may pop a request and fail
(`DequeueReplyLost`): it is then nowhere. The processor is one loop: `idle` → BLPOP →
`start` → `deploying` → `minted` → `idle`, or `failing`. A Redis call that fails
may have had its effect. Expiry hits a key only while no call or deployment that
is under way uses it: it takes a day.

### StateTracker, AlertManager, PoolWatch

A poll reads the pool at once and is answered later, in any order (`Slots` polls
at a time); what it appends to the history carries the time it began at. A check
either meets its condition, clears its latch or leaves it (`Verdict`). The
tracker's assumption `TrackerConstants` says what keeps `PauseIsReported` true:
the samples kept reach back over the longest pause that is not yet reported. With
the code's 300 samples, 12 seconds and one hour that is just so, if events start
no polls of their own.

`AlertManager` counts every alert let through in `letThrough`, also after the
code has cleaned it up. `PoolWatch` has `start()` as one task and the handler of
each `PoolCreated` event as another. The subscription is asked for and not awaited:
`Subscribe` puts it into effect at any later time, `SubscriptionFails` never does, and
`unheard` are the pools created meanwhile. The query of past events, which usually
comes later, has those it can see. `matches` tells a factory whose event has the
signature of the monitor's ABI from this repository's, which has one parameter
less and whose events are never seen.

### TradeWatch, IngestionHeartbeat

A handler of a pool's event stamps it, raises its alert and waits for what the
alert takes before it records anything: `alerting` is the set of handlers that
wait. So a large trade is recorded after smaller ones that came later, and what
the collector calls the last trade may be an old one (`LateOnlyIfLarge`). What a
pool reports of its last 24 hours is renewed by its trades alone: a quiet pool
keeps reporting its last busy day (`TradesCounted`).

`IngestionHeartbeat` has the sample, its timeout and the failover as steps.
`switching` counts the outages whose page waits for the backup provider, which is
asked without a limit; the page of an outage may then follow that of its
recovery. The failover exchanges the heartbeat's provider only.

### CostReconciliation

A cycle is the list of models it has still to do; the first waits for the read of
the reserve. `VarianceReaches` is the placeholder of the code, an estimate of 95% of the
actual cost: a variance of 5.26%, which the default threshold of 10% never sees.
Invoices of the same days, from two providers, add their days up, so the runway
is then overstated; `RunwayIsHonest` excludes that case and says so.

### ServiceLifecycle

`setUp` is the next part to be set up; signals are ended by the process itself
until the handlers are there. `server.ts` never stops its deployment processor,
so its clean exit may leave a deployment half done. A second signal runs the
handler again: `index.ts` may then exit with 1 because Redis is closed already.

### MCServices

The twelve parts of the sections above, with contribution records and parameters,
share no state. One run has them side by side: `part` is chosen at the
start and only that part takes steps. The state space is the sum of the parts'.

### DeployStack, GovernanceHandoff, LaunchPosture, LaunchConductor

A stack is a set of facts `<<contract, field, value>>`: owners, roles and wiring. A
script is a *job*: its name and the transactions it has still to send; each is a
step, and a script that fails or is reverted leaves what it has sent.

* `deploy-stack.js` sends some forty transactions; nobody reads the new stack
  before it is recorded, so each of its four phases is one step.
* The handoff is the list of its tasks in `runGovernanceTransfer`'s order. Each
  task asks first whether it is needed and whether the deployer may send it
  (`AfterTask`), except `setPauser`, which reverts (`TaskReverts`).
* The environment (`Shells`) is read anew by each run of the conductor. `contexts`
  and `configs` are history: the addresses that handoffs were told to use, the
  configurations that were planned. `TIMELOCK_ADDRESS`, which overrides the
  recorded timelock, is left out.
* `create-mainnet-pools.js` records its tokens only at its end and deploys every
  token again when it is run again: after a failure in between, `StepReverts`.
* Of `baseRewardRate`, `minImprovementBps` and `maxReward`, which are planned and
  compared alike, one is kept (`knob`). On sepolia the models' governor is taken to
  be the Safe too.
* `MintSpends` is `submitMintRequest` as the budget sees it. `SafeSubmits` is external.
* `launched` is what the conductor prints at its end; it is taken back as soon as
  anything else is run. `ran` tells the run that ended after its last gate from one
  that `SkipEveryPhase` started with a name no phase has (`launch_complete`).
* The relayer of the handoff is looked up in the order of `governance/lib.js:92`; that
  no script records a submitter's relayer leaves it to `MAINNET_BACKEND_ADDRESS`,
  which another shell may set otherwise than the deployment's variable.
* A configuration may be any: the scripts check neither that its threshold can be met
  nor that it has one, or a genesis. `MintPostureVerified` leaves out the reads of the
  paused flag (`launch-posture.js:253`) and of `tokensPerDeltaOne` (`:364`): the
  modelled gate lets more pass than the code's.

## 3. Runs

| Run | Question | Bounds and why they suffice |
|---|---|---|
| `authority_lineage` | do keys, lineage, budget and payments agree, and is the ledger implemented? | 6 requests over 3 keys and 3 commitments: a race for one head, a chain of two, reused keys, a cycle back to the root, every way out of `submitMintRequest`; 7 governance calls cover set-up (5) and two interferences |
| `authority_governance` | does rotation keep the quorum reachable and meaningful, is the legacy path closed for good, are closed models closed? | 2 accounts, lists of up to 2 signatures, one request signed by both and one by a single account; a capped token, two rates, two weights, all flags; one model, since no check relates two |
| `relay_faults` | is nothing lost or announced twice? | 2 workers, one key under two deadlines and a request that follows it, 2 deliveries, an empty budget, 1 failing call (anywhere, executed or not), 1 crash, an operator action, a top-up: a failure on the first try, a death on the retry, a retry promoted twice, a replay in between; the workers are symmetric |
| `relay_progress` | does every request leave the queues, is every mint announced and posted? | fairness below; 2 workers, 2 failing calls, a crash, an empty budget, a pause |
| `listener_faults` | does a model go once through deployed, registered, announced; does no message vanish? | 2 listeners, 2 copies each of a good message and of one that fails the schema, 2 attempts, 1 retry, 2 RPC and 2 Redis failures, 1 crash: every attempt of a call may fail |
| `listener_progress` | does every message settle when only RPC calls fail, is every ready model registered when nothing does, and announced where the event's schema knows the network? | fairness below; 2 listeners, 2 models, one without supplier, 2 copies each, both kinds of registry and of network |
| `vault_pooled` | are the pooled money, snapshots, shares and dust exact; is each proposal an escrow? | 2 depositors; one proposal up to 3 units, so that 5 tokens round for every split, and one of 1 unit that shares the balance; 1 gift, 1 clock tick past the deadline; announcements, cancellations and deposits repeat without bound |
| `token_market` | do counters, vesting, escrow and pool account for every token and every USDC? do quotes grow with the amount? | one model, legacy or capped; one trader, the supplier, vault and escrow; amounts of 4 with caps and a threshold of 8, so that caps are reached, rewards split, buys of 12 and 16 cross the threshold and the curve part of one reaches the range in which it doubles the reserve; supply up to 8, time up to 2, past a cliff of 1 and an end of 2 |
| `curve_formula` | *violation*: does a buy that crosses the threshold bring what the formula says? | one buy of twice the threshold, weight 1, where the formula is linear |
| `services` | do the twelve separate parts keep their promises? | 2 names for one id, 2 tokens, 2 pools, pages of 2; batches of 2 records up to 3; rates in tokens and in wei, 3 epochs; 2 requests, 2 Redis failures, 2 expiries, a crash; 3 readings, 2 polls at a time, 4 ticks; 3 alerts of 2 types, limits 2 and 3, days of 2 hours; 2 pools, one failed read, both kinds of factory; fees of 4 of 2 models, a cost that is missing, fresh, stale and above its ceiling, a manual and 2 governance calls, 3 clock ticks over epochs of 2 and 3; 4 events, of which 2 need an alert; 2 invoices up to 3 times, one cycle; 2 blocks, 2 outages, 5 heartbeat ticks; 3 messages a loop, 2 signals |
| `launch` | is no contract ever without a governor? can handoff and posture be resumed? is what is called complete handed over? | 2 models, one paid before the launch; 3 shells, among them one with another Safe; 4 configurations, of which one asks for more attesters than it names and one for no threshold and no genesis; 3 starts, at any phase or at none; 1 failed transaction or call: an interrupted script, a second run in another shell, and a third from behind the gates |
| `launch_complete` | *violation*: is whatever the conductor calls complete handed over? | as `launch`; one run that skips every phase is enough |

Every state machine here is driven by its environment and may stop when the
bounds are used up, so deadlock is not checked. Counters that would grow without
limit (`govOps`, `now`, deliveries, faults, crashes, replays) are bounded by
constants named `Max...`; pausing is only allowed while a governance call is
left to lift it, so that the bound never makes a pause permanent.

**Fairness** (`MintRelay!Fairness`): each worker's loop keeps taking the step it
can take (`start` loops for ever and swallows per-message exceptions); a sent
transaction is mined; a pause is lifted. Deliveries, failures, the operator and
all other governance are never forced to happen. `RequestsLeaveTheQueues` is checked
with crashes and failing calls: its second disjunct says exactly when they keep a
request for ever, with a copy in the processing list that no worker holds.
`MintsAreReported` claims nothing of a behaviour in which a call failed or a worker died.
`DeployListener!FairSpec` is the same:
each listener polls for ever and an abandoned transaction is mined.

## 4. What is proved

`MintAuthorityProofs` proves, for every set of models, keys, accounts, requests
and every value of the numeric constants (only the named assumption
`ConstantTypes` is used):

* `TypeCorrect`: `TypeOK` is inductive. The interesting parts are that the
  budget never leaves Nat and that the attester counter never does, for which
  `QuorumReachable` is proved by itself from cardinality facts.
* `QuorumAlwaysReachable`, `BudgetAlwaysAccounts`, `KeysAlwaysResolveOnce`,
  `LineageAlwaysRebuildable`: each is inductive together with `TypeOK`.
* `PaymentsAlwaysMatchLineage`: the two logs are compared by the ranks of their
  minted and advanced entries, so a payment appends the entry of highest rank to
  both and every other step appends to neither.
* `QuorumAlwaysBehindResolutions`: a strictly ascending list of n members of a
  set shows that the set has at least n members (lemma by least counterexample),
  hence no step resolves a request without a quorum.
* `ClosedModelsNeverMint`, `OnlyAttestedAfterCutover`: action properties, from
  `TypeOK`.
* `MintAuthorityImplementsLedger`: initial states map to initial states and each
  action maps to a ledger step or a stutter.

`FundingVaultProofs` proves, for every finite set of models and users and all
amounts (only the named assumption `VaultConstants` is used):

* `VaultInvariant`: the inductive invariant `VaultInv`. The properties alone are
  not inductive; it adds `FlagsOrdered` (registered, announced, graduated, in this
  order, and nothing is announced without a commitment), `DepositorsListed` (the
  list has no duplicates and has everyone with a live or a copied commitment: why
  the announcement's loop overwrites every stale copy and counts nobody twice) and
  `ClaimsCounted` (claims come from claimants of graduated proposals, and the
  counter is their number).
* `TypeCorrect`, `Solvent`, `SnapshotIsExact`: its parts. That `usdc` never goes
  below zero needs `Solvent`, and that a division by the total is defined needs
  `SnapshotIsExact`, so they are proved together.
* `SweepIsSafe`: the claimed are a subset of the claimants with the same
  cardinality when `SweepDust` is enabled, hence all of them.
* `VaultImplementsEscrow`: each action is one step of one proposal's escrow and a
  stutter of every other; a claim pays the share of the live commitment because the
  copy equals it.
* `SharesAlwaysAccounted`: what the vault holds of a token is what it received less
  the shares of those who have claimed (`SharesInv`), and the floors of the shares
  sum to at most the whole: each is a number of units, and scaling commutes with the
  sum (`SumScaled`). What is left after the last claim is less than one unit for each
  claimant.
* `DepositorsHaveExit`: in every state, the guards of `withdraw`, `cancelGraduation`
  or `claim` hold for each stake that is not claimed, with the money to serve it.

The sums are `Counting!SumOf`: the number of pairs of an element and one unit of
its value. Defined so, `CountingTheorems` gets the facts about sums (one value can
be split off, changed, bounded by the sum) from the library's theorems about
cardinalities, without an induction over data.

`DeployListenerProofs` proves, for any number of models, listeners, retries,
failures and crashes (assumption `ListenerConstants`):

* `ListenerInvariant`: the inductive invariant `ListenerInv`. To the types it adds
  the control state (who holds a message, who has used up its retries), the order of
  a launch (where a listener stands, or what its pending transaction is, tells what
  the chain has), `AnnouncementsCounted` (of all listeners only the one whose
  registration succeeded is about to announce, so the announcements exceed one by
  lost replies only) and `Balanced`.
* `MessagesAlwaysAccounted`: the double removal of an exhausted message (once before
  it is pushed on the dead letters, once after) may take a copy another listener
  owns. `Balanced` counts what each listener may still take (its *debt*): two copies
  of a last retry exist as long as one of them is owed, so no number of races makes
  the lists hold less than was delivered.
* `FinishedAlwaysRegistered`, `AlwaysAnnouncedOnce`: parts of the invariant.
* `ListenersImplementLaunch`: with `LaunchOrdered` and `AnnouncementsCounted`, each
  step of a listener, the chain or Redis is one step of one model's launch or a
  stutter of all.

`MintRelayProofs` proves, of the relay composed with the contract (assumptions
`RelayConstants` and `ConstantTypes`), for any number of requests, workers, retries,
failures, crashes and replays and whatever governance does meanwhile:

* `RelayInvariant`: the inductive invariant `RelayInv`. It has the chain's `TypeOK`
  and `KeysResolveOnce`, because what a worker knows is only as good as what the
  chain never takes back; `WorkerOK` (from the receipt on, a worker's verdict is how
  its key was resolved); `WaitedFor` (a transaction somebody waits for is that
  worker's only one, for the message it holds: an orphan never moves anybody);
  `MintsCounted`, `HeldIsListed` and `AllFound`.
* `MintsAlwaysAnnouncedOnce`: a worker becomes the announcer of a mint with the
  receipt, which burns the key, so there was none before and no settlement either;
  a replayed request is answered as a replay and never announces, so neither a
  settlement that was pushed although its reply was lost nor a retry that two workers
  promoted adds an announcement.
* `DoneAlwaysResolved`: keys are marked, published and recorded from the verdict of a
  resolved request, and burnt keys stay burnt.
* `RequestsAlwaysAccounted`: LREM removes one of several equal copies, whoever owns
  it. Unless its key is done, at most as many workers hold a message as copies are
  in the processing list (`HeldIsListed`), and a request is found where nobody is
  about to remove it: in a queue, on the dead letters, or as a copy in processing
  that exceeds the workers that have just buried one (`AllFound`).

`CountingTheorems` has what both need about adding one entry to a bag and removing
one.

`TokenMarketProofs` proves, for any models, users, amounts, policies, schedules,
caps, threshold and curve constants (assumptions `TokenConstants`,
`ManagerConstants`, `PoolConstants`):

* `MarketInvariant`: `MarketInv` has three parts. `SupplyInv`: the supply of a token
  is the sum of all holdings, without which a burn might take it below zero, and is
  covered by the counters, each within its cap. `BooksInv`: the vault holds what its
  schedules still owe and what strayed there; the escrow's balance, what still vests
  for it and what it has released are what it was given. `PoolInv`: the pool's USDC is
  the reserve and what was donated, and a trade limit is at most the whole reserve.
* `TokensAlwaysAccounted`: every operation is one of a few movements: a mint, a burn,
  a transfer, a new schedule or a claim. One lemma per movement says what it does to
  the supply, the vault and the escrow (`MintedTokens`, `BurntTokens`,
  `TransferredTokens`, `CreatedSchedules`, `DueClaimed` and others); what the schedules
  owe is a sum over them, to which a claim subtracts and a new schedule adds
  (`DueOpened`, `DueClaimed`). `BurnAMM` takes from the two counters in turn, and
  they cover the supply after any sequence of mints and burns.
* `PoolAlwaysAccounted`: a sale takes at most the trade limit from the reserve
  (`PartOf`), whatever the curve quotes; nothing is needed of the quotes but that they
  are natural numbers, as a `uint256` is. That quotes grow with the amount
  (`LargerBuysBringMore`) is a property of the series for given constants and stays
  with TLC.

`ServicesProofs` proves, of the parts of the run `services`:

* `RegistryAlwaysSound` (assumption `RegistryConstants`): `RegistryInv` is inductive
  part by part. `ModelsInv` has the types and that tokens and models lead to each
  other; a model that moves to another token is the hard case (`Moves`), because the
  old token must be freed and the new one must not be anybody's. `PoolNamesInv` needs
  both sides at once: a pool the factory creates is new to the registry too, and one
  that another registrar entered under a name is never the factory's
  (`OthersEnter`). `SweepInv` says what a page-wise pause has passed.
* `RecordsAlwaysSound`, `StatusAlwaysMovesForward` (assumption
  `ContributionConstants`): a batch adds ids counted on from those there are. What old
  and new records earn together is the sum of both (`EarnedJoined`, from `SumUnion` and
  `SumShifted`), what a batch adds to the totals of its models it adds to its
  contributors' (`TotalsGrow`), the last id with a hash is the batch's if it has one
  (`HashesMove`), and an index continues with larger ids (`IndexGrows`). `IsBatch` is
  one record or two, as in `ContributionNext`: sums over batches of any length would
  need an induction over data.
* `TakenIdAlwaysStopsAutoIds`: with the two above, the parts of the run's `StepsSound`.
* `ParamsAlwaysSound`, `QueuedValuesAlwaysKeepEpochs` (assumption `ParamsConstants`):
  an application sets the epoch's start to the time it happens and asks for a whole
  epoch since that start. Applying with nothing queued restarts the epoch without
  counting as an application, so the invariant has `lastApplied <= epochStart`: a
  restart makes the next application later, never earlier.
* `DeploymentsAlwaysSound` (assumption `DeploymentConstants`): `QueuedOnce` (only a
  call that has not queued its request may still do so, and nothing is queued and in
  hand, or queued and deployed, at once), `HandMatchesToken` (where the processor is
  tells whether the token in the chain is its own) and `OneCallAtATime` (without
  overlapping calls, failures after the queue or expired keys, the mapping names the
  one request under way, and a call that has found it is refused).
* `FeesInvariant`, for any models, fees, call counts, costs, rates, ceilings and
  periods (assumptions `OracleConstants`, `ReserveConstants`, `RouterConstants`):
  `FeesInv` has three parts that are inductive by themselves or
  given the first: the settings with `WaitingKeepsEpochs` (a queued cost of a model
  that has one is due no sooner than an epoch after it was set, which a later change
  of the epoch does not shorten below the shortest), the accounts, and the periods.
* `FeesAlwaysAccounted`: every deposit, alone or in a batch and also when nothing is
  owed, is one step of the accounts (`EveryDeposit`): the two shares make up the fee,
  so nothing stays in the router, and sums over models grow by what was added
  (`AddedSum`).
* `FeesAlwaysSplitSoundly`: the floors of both branches of the split stay below the
  higher of the two rates (`ShareBounds`), also for two fees of one model
  (`RatesAdd`).
* `PartsInvariant`: the invariants above and those of the other seven parts, in the
  behaviours of the run, `ServicesSpec`, where each part has its own (assumptions
  `TrackerConstants`, `AlertConstants`, `WatchConstants`, `EventConstants`,
  `CostConstants`, `HeartbeatConstants`):
  - `TrackInv`: that a lasting pause is reported is a count. The samples since a time and
    the polls begun since then are no more than the polls the ticks allow (`FewSamples`);
    the samples older than one that overtook them were under way beside it, so they are
    fewer than the slots (`FewOvertaken`). Hence a list that is full of paused samples
    spans more than the limit (`FullIsOld`), and dropping its oldest sample never makes
    the pause look short.
  - `AlertInv`: the history, from which old entries are removed, counts in each window of
    a day what was let through (`Remembered`), and a key that silences others had an alert
    of its type in the day before (`RecentFollows`).
  - `WatchInv`: at each stage of the start it says who still brings a pool in: the list
    that will be read, the query, a log nobody has read yet, a list to do, or a task that
    waits (`AllCovered`), and who will begin to watch a discovered pool (`AllTracked`).
  - `TradeInv`: a pool's recent trades have every one of its trades in the window, once,
    and the day's numbers are those of the last refresh (`PoolSound`); the last time is
    that of the trade recorded last, which is the newest unless it is a large one
    (`LastTimeIs`); and lists are the newest of what was recorded (`NewestOf`). They rest
    on the theorems about `Sublist` in `CountingTheorems`: which entries it has, that it
    is in order, and what its sums and counts are.
  - `CostInv`: costs kept are the newest (`CostsFit`), a runway is that of the balance and
    the costs it was computed from (`RunwayFits`). That days without a gap or an overlap
    add up is a bijection between the days and the units of the sum (`DaysAddUp`).
  - `BeatInv`: the next beat comes at most an interval after an outage began, or the
    sample that notices it is under way (`Fresh`); what is known of a provider that was
    exchanged was asked before the exchange (`SampleInTime`).
  - `LifeInv`: where each loop stands at each stage of the set-up and of a handler.
* `ServicesAlwaysSound`, `StepsAlwaysSound`, `ContractsAlwaysSound`: from it, every
  property of the run, for `ServicesSpec` itself.

`LaunchProofs` proves, for any environments, models, configurations, failures, starts
and scripts used by hand (assumptions `StackConstants`: the Safes of the environment
are not the deployer's key; `LaunchConstants`: tokens are not contracts of the stack;
configurations are not restricted):

* `HandoverInvariant`: `HandoverInv` says of the running script what it may still have to
  do (`JobKnown`, `ScriptKnown`), of the record and of the environments used what they
  name (`ArtifactKnown`, `ContextsKnown`), and of the recorded stack who can hold what
  (`FactsKnown`). What makes it inductive is an order (`HandoffOrder`): whatever the
  deployer still holds and another step needs or replaces, that step is done already or
  precedes the giving up in the list of tasks (`Precedes`); a second handoff, planned
  from the chain, has the same order. The list is `FlattenSeq` over the policy; that its
  order is the policy's is proved from the definition (`FlattenIs`).
* `NobodyOrphaned`, `CompleteLaunchIsHandedOver`: from it. The gates after the last
  phase read only some of what the policy asks for; the rest follows because what they
  read is given up last.
* `PostureInvariant`: `PostureInv` adds to it that a plan and a bundle close the legacy
  mints last, after a budget for every model and the threshold and geneses that the
  configuration it was planned for asks for (`ClosesLast`), and that, while one configuration is planned for, the posture and
  the plan's remaining steps lead to it (`Fits`, `Leads`): an attester is added or a
  genesis set once and never taken away, so that a second plan meets no revert.
  The latter is about the test network, where the script sends a plan's transactions one
  by one; on mainnet the Safe executes a bundle, of any age, as a whole or not at all.
* `LaunchIsSound`: the two give `NothingOrphaned`, `HandoffResumes`, `PostureResumes` and
  `ClosedOnlyWhenReady`.

Only model-checked: everything temporal under fairness (`RequestsLeaveTheQueues`,
`MintsAreReported`, `EveryMessageSettles` and the others; liveness is out of the
prover's reach) and `LargerBuysBringMore` of the curve's quotes (an induction over
the terms of a series). The theorems are about specifications without
fairness and so cover those with it too. In a behaviour of `services` only
one part takes steps. `DepositorsCanExit` uses ENABLED; `DepositorsHaveExit`
states its guards and is proved.

## 5. Findings

Two runs show a disagreement between the code and what the repository says of it:

* `curve_formula`: `BondingCurveMath.sol` promises `ln` within 0.01% on [0.3, 3]
  and `pow` within 0.1% up to 2. Its eight terms give 0.634 for ln 2 and diverge
  beyond, and a buy that starts in the flat phase, where no size limit holds, is
  priced with them above the threshold.
* `launch_complete`: `launch-mainnet.js` accepts any name after `--from`. One that no
  phase has, like the posture phase's name of the other network, skips every phase, and
  the run ends with "Conductor complete through final gate" (`:195`).

Others were met while modelling. The models have the code's behaviour; no run
states the promise:

* The deploy listener's client calls `registerModel(string,...)` and
  `getTokenAddress(string)` (`model-registry.ts:4-10`); `ModelRegistry.sol` has neither
  and no fallback, so against this repository's registry every message is dead-lettered
  (`CheckReverts`; `registryAnswers` may be FALSE in `listener_progress`).
* The listener passes on the name ethers gives the chain (`contract-deployer.ts:214`):
  mainnet, matic, sepolia, unknown. The event's schema takes ethereum, polygon,
  localhost and hardhat (`message-schemas.ts:93`). Every attempt to publish throws, the
  retry finds the model registered and acknowledges the message: nothing is announced,
  against `features/contract-deploy-listener/prd.md:101`. `ReadyModelsAreAnnounced`
  says that this is what happens where the network is not listed.
* `docs/gate9-ops-drills-runbook.md:20` expects messages queued during a pause to
  settle on resume because "the consumer replays". While the contract is paused
  the gas estimate reverts, `delta-verifier-client.ts:454-466` makes that permanent
  and the message is dead-lettered without a retry; only a manual replay settles it.
* The DLQ tool (`dlq.ts:263`) compares a request's baseline with the raw
  `modelWeightHead`, which is zero until a model's first paying mint; the contract
  falls back to the genesis. A dead-lettered first mint whose key is unprocessed
  and whose lineage matches is refused as "Model lineage advanced".
* `features/contract-deploy-listener/prd.md:129-132` promises zero message loss,
  recovery from crashes and at-least-once delivery; a message taken by a listener
  that dies stays in the processing list, which nothing reads.
* A call that fails between registration and publication has the effect of
  an unlisted network on any: the retry skips the registered model,
  acknowledges and never publishes.
* The monitor's ABI for `PoolCreated` (`pool-discovery.ts:30`) has a
  `protocolFeeBps` that `HokusaiAMMFactory.sol:62-69` does not emit: pools created
  after `start()` are unknown to it until a restart.
* `docs/deltaverifier-trust-model.md:145` relies on epoch-locked parameters. What
  DeltaVerifier, the token's cap and the router read are the contract's own values,
  which governance sets at once (`HokusaiParams.sol:230`, `:255`); the values that
  wait for an epoch have no reader on chain, and one queued after the epoch has
  lapsed applies at once.
* `HokusaiToken.sol:42` calls `rewardMinted` what was minted as rewards; `burnAMM`
  lowers it once the investors' counter is used up, which frees room under the cap.
* A clean-up after a failed `createDeployment` deletes the model's mapping even if
  another request has taken it (`deployment.service.ts:203`).
* An alert that was dropped by the limits, or whose e-mail failed, is not sent again
  while its condition lasts: the tracker's latch stays set.
* After the monitor has switched to its backup provider (`amm-monitor.ts:357`),
  trackers and listeners still use the dead one while it reports itself healthy.
* The cost reconciliation's estimate is a placeholder that always deviates by the
  same 5.26%, below its thresholds, so its alerts never fire.
* The monitor does not await its subscription (`pool-discovery.ts:127`): a pool created
  after the query of the past has read the block number (`:186`) and before the
  subscription takes effect is in neither, until a restart.
* `state-tracker.ts:392` reads the phase as `0 | 1`; ethers gives a `bigint`, which is
  never `=== 0` (`:472`, `:775`), so the checks that the flat phase should skip run in
  it too.
* A configuration with `attesterThreshold` 0 or without genesis weights is planned
  without these items, and `disableLegacyMints` still follows
  (`launch-posture.js:629-692`): the legacy mints end and the signed path cannot work,
  against the comment above it (`:688`). The gate would find it, after the fact.
* `launch-mainnet.js:17` calls its phases resumable. `create-pools` is not: after a
  failure between two of its transactions, the first token's deployment reverts in
  every later run (`create-mainnet-pools.js:340`).
* `launch-mainnet.js:24` offers `--yes` to skip the confirmations; its answer "yes"
  is not "HANDOFF" (`:139`, `:176`), so such a run always ends before the handoff.
* A configuration that asks for more attesters than it names is planned and sent all the
  same; `setAttesterThreshold` then reverts, in every run.
* A bundle that removes an attester before it lowers the threshold
  (`launch-posture.js:615`, `:629`) reverts when the removal would leave fewer than
  the old threshold asks for, and so does every later plan for that configuration.
* After the handoff the deployer still holds the TokenManager's MINTER and DEPLOYER
  roles: the policy names their recorded holders, the record has none
  (`deploy-stack.js:430`), and nothing revokes them.
* `launch-posture.js:407` reads `deployerAddr`, which line 387 declares in another
  block: a configuration with `expectedParamsAdmin` makes the check throw.

## 6. Plan

1. *(done)* MintLedger, MintAuthority and its proofs. Abstract specification: the
   ledger of idempotency keys.
2. *(done)* MintRelay, composed with MintAuthority, and its proofs.
3. *(done)* ModelLaunch and DeployListener, and its proofs.
4. *(done)* CommitmentEscrow and FundingVault, and its proofs.
5. *(done)* The token, its manager, vesting, escrow and the pool, and its proofs.
6. *(done)* Costs, infrastructure accounts and the fee router, and its proofs.
7. *(done)* Registry and factory, contribution records, parameters, the deployment
   API, the monitor's state. To do: two models in `DeploymentApi`, timers in
   `PoolWatch`.
8. *(done)* The launch: stack, handoff, pools, posture, conductor.
9. *(done)* Proofs of the registry and the factory, contribution records, parameters
   and the deployment API.
10. *(done)* Proofs of the launch.
11. *(done)* Proofs of the monitor, its accounts and the services' life:
    `ServicesSound` and `StepsSound`.

## 7. Not modelled

* Most of `scripts/`: smoke tests, end-to-end suites, drills and the one-shot
  deployments that `deploy-mainnet.js` has replaced. Each is run once, by hand, and
  asks and prints more than it decides. The launch and the handover are modelled.
* The HTTP API, configuration and KMS signing: I/O without a protocol of its own.
* Of the monitor: the values of metrics, the wording of alerts and the statistics of
  the infrastructure monitor, which compute from a window of readings and keep
  nothing that a later step depends on.
* Test contracts, Echidna harnesses and the simulator, which are checks themselves.
* The last digits of the 256-bit fixed point: `HokusaiAMM` has its formulas,
  rounding and series at a smaller scale.
