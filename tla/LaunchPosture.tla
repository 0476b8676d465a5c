---------------------------- MODULE LaunchPosture ----------------------------
(***************************************************************************)
(* The models of a launch.  scripts/create-mainnet-pools.js, with          *)
(* lib/launch-tokens.js and lib/pool-registrar.js: each launch token is    *)
(* deployed, registered, given a pool with its first reserve and perhaps   *)
(* its supplier allocation; only the end of the script records tokens and  *)
(* pools.  The models of its configuration have the admin Safe as governor.*)
(*                                                                         *)
(* scripts/lib/launch-posture.js and the scripts around it: the attesters, *)
(* their threshold, mint budgets and weight geneses that the configuration *)
(* asks for are compared with the chain, the difference becomes a plan,    *)
(* and the plan is executed at once (sepolia) or kept as a bundle that the *)
(* Safe or the deployer executes later (mainnet).  Of the three reward     *)
(* knobs one is kept.                                                      *)
(***************************************************************************)
EXTENDS GovernanceHandoff

CONSTANTS
  Models,                 \* models of the launch
  PreLaunch,              \* of these, the ones whose supplier is paid at once
  Postures                \* configurations: records of attesters, threshold, genesis

\* A token is not one of the stack's contracts.  Of a configuration nothing is
\* asked: it may name a threshold that no contract accepts, or no genesis.
ASSUME LaunchConstants ==
  /\ IsFiniteSet(Models) /\ PreLaunch \subseteq Models
  /\ Models \intersect ({Policy[i].contract : i \in DOMAIN Policy} \union {"timelock", "PurchaserWhitelist"}) = {}
  /\ \A c \in Postures : IsFiniteSet(c.attesters) /\ c.threshold \in Nat

VARIABLES
  built,                  \* <<step, model>>: what has been done on this stack
  config,                 \* configs/<network>-launch-posture.json
  posture,                \* DeltaVerifier and ModelRegistry, as the launch sets them
  bundle,                 \* deployments/mainnet-launch-posture-safe.json
  configs                 \* history: configurations planned for this stack

postureVars == <<config, posture, bundle, configs>>
rest == <<mainnet, env, draft, failures, contexts, built>>

-----------------------------------------------------------------------------
(* Tokens and pools.                                                       *)

\* The transactions for one model; a supplier who is paid later is a pending
\* action of the record.
PoolSteps(m) ==
  << <<"deploy", m>>, <<"register", m>>, <<"pool", m>>, <<"authorize", m>>, <<"fund", m>> >>
  \o IF m \in PreLaunch THEN << <<"distribute", m>> >> ELSE <<>>

\* deployTokenWithAllocations is open to all and once per model; the registry,
\* the factory and the TokenManager answer their owner only; any one may pay in.
StepReverts(t) ==
  CASE t[1] = "deploy" -> t \in built
    [] t[1] = "register" -> t \in built \/ ~Has("ModelRegistry", "owner", "deployer")
    [] t[1] = "pool" -> t \in built \/ ~Has("HokusaiAMMFactory", "owner", "deployer")
    [] t[1] = "authorize" ->
         ~Has("TokenManager", "owner", "deployer") \/ ~Has("TokenManager", "ADMIN", "deployer")
    [] t[1] = "distribute" -> t \in built \/ ~Has("TokenManager", "owner", "deployer")
    [] OTHER -> FALSE

\* What the transaction makes: the token's owner and the governor of its
\* parameters are the Safe from the start, its pool, which
\* has the model's name here too, may mint.
StepFacts(t) ==
  CASE t[1] = "deploy" -> {<<t[2], "owner", "safe">>, <<t[2], "GOV", "safe">>}
    [] t[1] = "authorize" -> {<<"TokenManager", "MINTER", t[2]>>}
    [] OTHER -> {}

PoolsCanStart ==
  \/ Has("ModelRegistry", "poolRegistrars", "HokusaiAMMFactory")
  \/ Has("ModelRegistry", "owner", "deployer")

StartPools ==
  /\ PoolsCanStart
  /\ Begin("create-pools", FlattenSeq([i \in 1..Cardinality(Models) |-> PoolSteps(SetToSeq(Models)[i])]))
  /\ facts' = facts \union Wire("ModelRegistry", "poolRegistrars", "HokusaiAMMFactory")
  /\ UNCHANGED <<mainnet, env, draft, artifact, refused, failures, built>>

PoolStep ==
  /\ Runs("create-pools") /\ job.todo # <<>> /\ ~StepReverts(NextTask)
  /\ built' = built \union {NextTask}
  /\ facts' = facts \union StepFacts(NextTask)
  /\ TaskDone
  /\ UNCHANGED <<mainnet, env, draft, artifact, refused, failures>>

PoolReverts ==
  /\ Runs("create-pools") /\ job.todo # <<>> /\ StepReverts(NextTask)
  /\ refused' = "create-pools" /\ job' = NoJob
  /\ UNCHANGED <<mainnet, env, facts, draft, artifact, failures, built>>

RecordPools ==
  /\ Runs("create-pools") /\ job.todo = <<>>
  /\ artifact' = [artifact EXCEPT !.tokens = @ \union Models, !.pending = @ \union (Models \ PreLaunch)]
  /\ job' = NoJob
  /\ UNCHANGED <<mainnet, env, facts, draft, refused, failures, built>>

-----------------------------------------------------------------------------
(* The posture.                                                            *)

FreshPosture ==
  [attesters |-> {}, threshold |-> 0, closed |-> FALSE, knob |-> FALSE,
   budget |-> [m \in Models |-> "none"], genesis |-> [m \in Models |-> Unset]]

PostureInit ==
  config \in Postures /\ posture = FreshPosture /\ bundle = <<>> /\ configs = {}

PlanItem(op, arg) == [op |-> op, arg |-> arg]
PlanIf(wanted, op, arg) == IF wanted THEN <<PlanItem(op, arg)>> ELSE <<>>
Each(op, S) == LET s == SetToSeq(S) IN [i \in DOMAIN s |-> PlanItem(op, s[i])]

\* planLaunchPostureInit throws where a genesis differs: it is written once.
PlanThrows == \E m \in Models : posture.genesis[m] \notin {Unset, config.genesis}

\* The plan, in its order; legacy mints are closed last.  What already is as the
\* configuration has it is not planned, a threshold of 0 and no genesis too.
Plan ==
  Each("addAttester", config.attesters \ posture.attesters)
  \o Each("removeAttester", posture.attesters \ config.attesters)
  \o PlanIf(posture.threshold # config.threshold, "setAttesterThreshold", config.threshold)
  \o FlattenSeq([i \in 1..Cardinality(Models) |-> LET m == SetToSeq(Models)[i] IN
        PlanIf(posture.budget[m] # "full", "setMintBudget", m)
        \o PlanIf(posture.genesis[m] # config.genesis, "setWeightGenesis", <<m, config.genesis>>)])
  \o PlanIf(~posture.knob, "setMaxReward", TRUE)
  \o PlanIf(~posture.closed, "disableLegacyMints", TRUE)

\* What the contracts refuse.
Refuses(p, who, t) ==
  CASE t.op = "setWeightGenesis" ->
         \/ ~Has("ModelRegistry", "owner", who) \/ <<"register", t.arg[1]>> \notin built
         \/ t.arg[2] = Unset \/ p.genesis[t.arg[1]] # Unset
    [] t.op = "addAttester" -> ~Has("DeltaVerifier", "ADMIN", who) \/ t.arg \in p.attesters
    [] t.op = "removeAttester" ->
         \/ ~Has("DeltaVerifier", "ADMIN", who) \/ t.arg \notin p.attesters
         \/ Cardinality(p.attesters) - 1 < p.threshold
    [] t.op = "setAttesterThreshold" ->
         ~Has("DeltaVerifier", "ADMIN", who) \/ t.arg = 0 \/ t.arg > Cardinality(p.attesters)
    [] OTHER -> ~Has("DeltaVerifier", "ADMIN", who)

After(p, t) ==
  CASE t.op = "addAttester" -> [p EXCEPT !.attesters = @ \union {t.arg}]
    [] t.op = "removeAttester" -> [p EXCEPT !.attesters = @ \ {t.arg}]
    [] t.op = "setAttesterThreshold" -> [p EXCEPT !.threshold = t.arg]
    [] t.op = "setMintBudget" -> [p EXCEPT !.budget[t.arg] = "full"]
    [] t.op = "setWeightGenesis" -> [p EXCEPT !.genesis[t.arg[1]] = t.arg[2]]
    [] t.op = "setMaxReward" -> [p EXCEPT !.knob = TRUE]
    [] t.op = "disableLegacyMints" -> [p EXCEPT !.closed = TRUE]

-----------------------------------------------------------------------------
\* init-launch-posture --safe-txs: the plan is kept, whoever may execute it.
WriteBundle ==
  /\ ~PlanThrows
  /\ bundle' = Plan /\ configs' = configs \union {config}
  /\ UNCHANGED <<rest, facts, artifact, refused, config, posture>>

\* init-launch-posture --execute, refused on mainnet.
StartPosture ==
  /\ ~mainnet /\ ~PlanThrows
  /\ Begin("posture", Plan)
  /\ configs' = configs \union {config}
  /\ UNCHANGED <<rest, facts, artifact, refused, config, posture, bundle>>

\* execute-posture-mainnet: the bundle as it was written, from its first
\* transaction, once the deployer is seen to hold what it needs.
StartBundle ==
  /\ mainnet /\ bundle # <<>>
  /\ Has("DeltaVerifier", "ADMIN", "deployer") /\ Has("ModelRegistry", "owner", "deployer")
  /\ Begin("bundle", bundle)
  /\ UNCHANGED <<rest, facts, artifact, refused, postureVars>>

PostureStep ==
  /\ Runs("posture") \/ Runs("bundle")
  /\ job.todo # <<>> /\ ~Refuses(posture, "deployer", NextTask)
  /\ posture' = After(posture, NextTask)
  /\ TaskDone
  /\ UNCHANGED <<rest, facts, artifact, refused, config, bundle, configs>>

PostureReverts ==
  /\ Runs("posture") \/ Runs("bundle")
  /\ job.todo # <<>> /\ Refuses(posture, "deployer", NextTask)
  /\ refused' = job.script /\ job' = NoJob
  /\ UNCHANGED <<rest, facts, artifact, postureVars>>

EndPosture ==
  /\ Runs("posture") \/ Runs("bundle")
  /\ job.todo = <<>> /\ job' = NoJob
  /\ UNCHANGED <<rest, facts, artifact, refused, postureVars>>

\* The posture after the first k transactions of the bundle.
BundleAfter(k) ==
  LET after[i \in 0..Len(bundle)] == IF i = 0 THEN posture ELSE After(after[i - 1], bundle[i])
  IN  after[k]

\* The Safe submits the bundle as one transaction.
SafeSubmits ==
  /\ bundle # <<>>
  /\ \A k \in DOMAIN bundle : ~Refuses(BundleAfter(k - 1), "safe", bundle[k])
  /\ posture' = BundleAfter(Len(bundle))
  /\ UNCHANGED <<rest, facts, artifact, job, refused, config, bundle, configs>>

\* The operator edits the configuration.
EditConfig ==
  /\ config' \in Postures \ {config}
  /\ UNCHANGED <<rest, facts, artifact, job, refused, posture, bundle, configs>>

\* A signed mint spends a model's budget.
MintSpends(m) ==
  /\ posture.threshold > 0 /\ posture.genesis[m] # Unset /\ posture.budget[m] = "full"
  /\ \E w \in HoldersOf("DeltaVerifier", "SUBMITTER") : w # "deployer"
  /\ posture' = [posture EXCEPT !.budget[m] = "spent"]
  /\ UNCHANGED <<rest, facts, artifact, job, refused, config, bundle, configs>>

\* assertLaunchPosture without the ownership audits (--skip-ownership), and
\* without what no script of the launch changes: the pause and the tokens' rate.
\* The script's gate passes less often.
MintPostureVerified ==
  /\ posture.closed /\ posture.knob
  /\ posture.threshold = config.threshold /\ config.threshold >= 1
  /\ Cardinality(posture.attesters) >= posture.threshold
  /\ posture.attesters = config.attesters
  /\ \A m \in Models : /\ <<"register", m>> \in built
                       /\ posture.budget[m] = "full"
                       /\ posture.genesis[m] # Unset /\ posture.genesis[m] = config.genesis
  /\ Has("TokenManager", "deltaVerifier", "DeltaVerifier")
  /\ Has("ModelRegistry", "stringModelTokenManager", "TokenManager")

\* With the audits of the mainnet configuration.
PostureVerified ==
  /\ MintPostureVerified
  /\ mainnet =>
       /\ \A m \in Models : HoldersOf(m, "owner") = {"safe"}
       /\ HoldersOf("DeltaVerifier", "ADMIN") = {"safe"}
       /\ HoldersOf("DeltaVerifier", "PAUSER") = {"safe"}
       /\ HoldersOf("DeltaVerifier", "SUBMITTER") = {"relayer"}
       /\ HoldersOf("DataContributionRegistry", "ADMIN") = {"safe"}
       /\ HoldersOf("DataContributionRegistry", "RECORDER") = {"DeltaVerifier"}
       /\ \A c \in {"ModelRegistry", "TokenManager", "HokusaiAMMFactory"} :
            HoldersOf(c, "owner") = {artifact.timelock}
       /\ \A c \in {"InfrastructureReserve", "UsageFeeRouter", "InfrastructureCostOracle"} :
            Has(c, "ADMIN", artifact.timelock) /\ ~Has(c, "ADMIN", "deployer")

=============================================================================
