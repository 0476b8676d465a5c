----------------------------- MODULE DeployStack -----------------------------
(***************************************************************************)
(* scripts/deploy-mainnet.js, deploy-sepolia.js, lib/deploy-stack.js and   *)
(* lib/deployment-artifact.js: the deployer's key creates and wires a new  *)
(* stack and records it at the end.  A stack is a set of facts <<contract, *)
(* field, value>>: who owns a contract, who holds a role (ADMIN is         *)
(* DEFAULT_ADMIN_ROLE), which contract is wired where.  Treasury and       *)
(* verifier are left at their default, the deployer.                       *)
(***************************************************************************)
EXTENDS Naturals, FiniteSets, SequencesExt

CONSTANTS
  Environments,           \* what the scripts may find in process.env: records of
                          \* admin, emergency (Safes), relayer, backend (of the
                          \* fees) and mainnetBackend
  Unset,                  \* an environment variable or a field that is not there
  MaxFailures             \* bound: transactions and calls that fail

Scripts == {"deploy-contracts", "deploy-timelock", "create-pools", "posture", "bundle", "handoff"}

\* The Safes of the environment are not the deployer's key.
ASSUME StackConstants ==
  /\ Unset \notin Scripts \union {"deployer", "timelock", "safe", "TIMELOCK", "ADMIN_SAFE"}
  /\ \A e \in Environments : e.admin # "deployer" /\ e.emergency # "deployer"

VARIABLES
  mainnet,                \* the network: mainnet or sepolia
  env,                    \* process.env of the scripts that run
  facts,                  \* of the recorded stack
  draft,                  \* of the stack that is being deployed
  artifact,               \* deployments/<network>-latest.json
  job,                    \* the script that runs and what it has still to do
  refused,                \* the script of this run whose transaction was reverted
  failures

stackVars == <<mainnet, env, facts, draft, artifact, job, refused, failures>>

NoJob == [script |-> Unset, todo |-> <<>>]
Idle == job = NoJob
Begin(script, todo) == job' = [script |-> script, todo |-> todo]
Runs(script) == job.script = script
NextTask == Head(job.todo)
TaskDone == job' = [job EXCEPT !.todo = Tail(@)]

Has(c, f, w) == <<c, f, w>> \in facts
HoldersOf(c, f) == {x[3] : x \in {y \in facts : y[1] = c /\ y[2] = f}}

Bootstrap(c, fields) == {<<c, f, "deployer">> : f \in fields}
Wire(c, f, w) == {<<c, f, w>>}

\* deployFullStack's four phases, each with the facts it makes.
CorePhase ==
  Bootstrap("ModelRegistry", {"owner"})
    \union Bootstrap("TokenManager", {"owner", "ADMIN", "MINTER", "DEPLOYER"})
    \union Wire("TokenManager", "vestingVault", "RewardVestingVault")
    \union Bootstrap("DataContributionRegistry", {"ADMIN", "RECORDER", "VERIFIER"})
    \union Wire("ModelRegistry", "stringModelTokenManager", "TokenManager")

FactoryPhase ==
  Bootstrap("HokusaiAMMFactory", {"owner"})
    \union Wire("HokusaiAMMFactory", "poolDeployer", "HokusaiAMMPoolDeployer")
    \union Wire("ModelRegistry", "poolRegistrars", "HokusaiAMMFactory")
    \union Bootstrap("PurchaserWhitelist", {"ADMIN", "WHITELIST_ADMIN"})

FeesPhase(backend) ==
  Bootstrap("InfrastructureReserve", {"ADMIN", "PAUSER"})
    \union Bootstrap("InfrastructureCostOracle", {"ADMIN", "GOV"})
    \union Bootstrap("UsageFeeRouter", {"ADMIN", "FEE_DEPOSITOR"})
    \union Wire("InfrastructureReserve", "DEPOSITOR", "UsageFeeRouter")
    \union Wire("InfrastructureReserve", "PAYER", "deployer")
    \union Wire("UsageFeeRouter", "FEE_DEPOSITOR", IF backend = Unset THEN "deployer" ELSE backend)

VerifierPhase ==
  Bootstrap("DeltaVerifier", {"ADMIN", "PAUSER", "SUBMITTER"})
    \union Wire("DataContributionRegistry", "RECORDER", "DeltaVerifier")
    \union Wire("TokenManager", "deltaVerifier", "DeltaVerifier")

\* Nobody reads a stack before it is recorded: a phase is one step.
StackSteps(backend) == <<CorePhase, FactoryPhase, FeesPhase(backend), VerifierPhase>>

\* The wiring that every verification reads back.
Wired(d) ==
  {<<"ModelRegistry", "stringModelTokenManager", "TokenManager">>,
   <<"ModelRegistry", "poolRegistrars", "HokusaiAMMFactory">>,
   <<"TokenManager", "vestingVault", "RewardVestingVault">>,
   <<"TokenManager", "deltaVerifier", "DeltaVerifier">>} \subseteq d

\* The reading back before the stack is recorded.
Verified(d) ==
  /\ Wired(d)
  /\ {<<"HokusaiAMMFactory", "poolDeployer", "HokusaiAMMPoolDeployer">>,
      <<"InfrastructureReserve", "DEPOSITOR", "UsageFeeRouter">>,
      <<"InfrastructureReserve", "PAYER", "deployer">>,
      <<"DataContributionRegistry", "RECORDER", "DeltaVerifier">>} \subseteq d
  /\ env.backend # Unset => <<"UsageFeeRouter", "FEE_DEPOSITOR", env.backend>> \in d

\* The roles the artifact lists: none of the TokenManager's, and not the
\* reserve's PAUSER_ROLE.
ListedRoles(d) ==
  {x \in d :
     \/ x[1] \in {"PurchaserWhitelist", "DataContributionRegistry", "UsageFeeRouter",
                  "DeltaVerifier", "InfrastructureCostOracle"}
     \/ x[1] = "InfrastructureReserve" /\ x[2] # "PAUSER"}

\* What buildArtifact writes: a fresh record, without governance and tokens.
FreshArtifact(d) ==
  [written |-> TRUE, roles |-> ListedRoles(d), backend |-> env.backend, tokens |-> {},
   pending |-> {}, timelock |-> Unset, admin |-> Unset, emergency |-> Unset]

StackInit ==
  /\ mainnet \in BOOLEAN /\ env \in Environments
  /\ facts = {} /\ draft = {} /\ job = NoJob /\ refused = Unset /\ failures = 0
  /\ artifact = [written |-> FALSE, roles |-> {}, backend |-> Unset, tokens |-> {},
                 pending |-> {}, timelock |-> Unset, admin |-> Unset, emergency |-> Unset]

StartDeploy ==
  /\ Begin("deploy-contracts", StackSteps(env.backend))
  /\ draft' = {}
  /\ UNCHANGED <<mainnet, env, facts, artifact, refused, failures>>

DeployStep ==
  /\ Runs("deploy-contracts") /\ job.todo # <<>>
  /\ draft' = draft \union NextTask
  /\ TaskDone
  /\ UNCHANGED <<mainnet, env, facts, artifact, refused, failures>>

\* From here on the scripts work on the new stack.
RecordStack ==
  /\ Runs("deploy-contracts") /\ job.todo = <<>> /\ Verified(draft)
  /\ facts' = draft /\ draft' = {}
  /\ artifact' = FreshArtifact(draft)
  /\ job' = NoJob /\ refused' = Unset
  /\ UNCHANGED <<mainnet, env, failures>>

\* The node does not answer, a transaction is dropped, the process is stopped:
\* the script ends where it is.
ScriptFails ==
  /\ ~Idle /\ failures < MaxFailures
  /\ failures' = failures + 1
  /\ job' = NoJob /\ draft' = {}
  /\ UNCHANGED <<mainnet, env, facts, artifact, refused>>

=============================================================================
