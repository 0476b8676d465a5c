--------------------------- MODULE LaunchConductor ---------------------------
(***************************************************************************)
(* scripts/launch-mainnet.js: the phases of a launch in their order, with  *)
(* gates that must pass, a stop for the Safe and a question before the     *)
(* handoff; a run may start at any phase (--from).  Between runs the       *)
(* operator may use the other scripts by hand.                             *)
(***************************************************************************)
EXTENDS LaunchPosture

CONSTANT MaxStarts        \* bound: runs of the conductor and scripts by hand

VARIABLES
  phase,                  \* of the conductor's run, 0 if none
  launched,               \* the conductor said "complete", and nothing was done since
  ran,                    \* its last run had a phase
  starts

conductorVars == <<phase, launched, ran, starts>>
scriptVars == <<stackVars, contexts, built, postureVars>>
launchVars == <<scriptVars, conductorVars>>

Phases ==
  << "deploy-contracts", "deploy-timelock", "create-pools", "posture", "verify-posture-pre",
     "confirm-handoff", "handoff-dry-run", "handoff", "verify-governance", "verify-posture-post" >>
Current == IF phase = 0 THEN "none" ELSE Phases[phase]

LaunchInit ==
  /\ StackInit /\ contexts = {} /\ built = {} /\ PostureInit
  /\ phase = 0 /\ launched = FALSE /\ ran = FALSE /\ starts = 0

\* The run goes on, or ends after its last phase.
NextPhase ==
  /\ phase' = IF phase = 0 \/ phase = Len(Phases) THEN 0 ELSE phase + 1
  /\ launched' = (phase = Len(Phases))
  /\ UNCHANGED <<ran, starts>>
Abort == phase' = 0 /\ UNCHANGED <<launched, ran, starts>>

\* A new run, in a new shell.
NewRun ==
  /\ Idle /\ phase = 0 /\ starts < MaxStarts
  /\ starts' = starts + 1 /\ env' \in Environments /\ refused' = Unset
  /\ UNCHANGED <<mainnet, facts, draft, artifact, job, failures, contexts, built, postureVars>>

\* From its first phase or a later one.
StartConductor ==
  /\ NewRun
  /\ phase' \in 1..Len(Phases)
  /\ phase' > 1 => artifact.written
  /\ launched' = FALSE /\ ran' = TRUE

\* From a name that no phase has, like the other network's name of the posture's:
\* every phase is skipped, and the run ends as after its last gate.
SkipEveryPhase ==
  /\ NewRun
  /\ launched' = TRUE /\ ran' = FALSE
  /\ UNCHANGED phase

\* A phase that starts a script.
BeginPhase ==
  /\ Idle
  /\ \/ Current = "deploy-contracts" /\ StartDeploy /\ UNCHANGED <<contexts, built, postureVars>>
     \/ Current = "deploy-timelock" /\ StartTimelock /\ UNCHANGED <<built, postureVars>>
     \/ Current = "create-pools" /\ StartPools /\ UNCHANGED <<contexts, postureVars>>
     \/ Current = "posture" /\ StartPosture
     \/ Current = "handoff" /\ StartHandoff /\ UNCHANGED <<built, postureVars>>
  /\ UNCHANGED conductorVars

\* Phases without transactions: a timelock that is there, a dry run, a gate that
\* passes, HANDOFF typed in.
PassPhase ==
  /\ Idle
  /\ \/ Current = "deploy-timelock" /\ artifact.timelock # Unset
     \/ Current = "verify-posture-pre" /\ MintPostureVerified
     \/ Current = "confirm-handoff"
     \/ Current = "handoff-dry-run" /\ TimelockReady
     \/ Current = "verify-governance" /\ GovernanceVerified
     \/ Current = "verify-posture-post" /\ PostureVerified
  /\ NextPhase /\ UNCHANGED scriptVars

\* On mainnet the posture phase writes the bundle, and the run stops there.
StopForSafe ==
  /\ Idle /\ Current = "posture" /\ mainnet
  /\ WriteBundle /\ UNCHANGED job
  /\ Abort

\* A script that cannot start, a gate that fails, or another answer than HANDOFF
\* (--yes answers "yes").
FailPhase ==
  /\ Idle
  /\ \/ Current = "create-pools" /\ ~PoolsCanStart
     \/ Current = "posture" /\ PlanThrows
     \/ Current = "verify-posture-pre" /\ ~MintPostureVerified
     \/ Current = "confirm-handoff"
     \/ Current \in {"handoff-dry-run", "handoff"} /\ ~TimelockReady
     \/ Current = "verify-governance" /\ ~GovernanceVerified
     \/ Current = "verify-posture-post" /\ ~PostureVerified
  /\ Abort /\ UNCHANGED scriptVars

-----------------------------------------------------------------------------
\* A new stack has its own posture, tokens and history; a bundle for the old one
\* is refused by its addresses.
NewStack ==
  /\ RecordStack
  /\ posture' = FreshPosture /\ bundle' = <<>> /\ built' = {} /\ contexts' = {} /\ configs' = {}
  /\ NextPhase /\ UNCHANGED config

ScriptStep ==
  /\ \/ DeployStep /\ UNCHANGED <<contexts, built, postureVars>>
     \/ TimelockStep /\ UNCHANGED <<built, postureVars>>
     \/ PoolStep /\ UNCHANGED <<contexts, postureVars>>
     \/ PostureStep
     \/ HandoffStep /\ UNCHANGED <<built, postureVars>>
  /\ UNCHANGED conductorVars

ScriptEnds ==
  /\ \/ RecordTimelock /\ UNCHANGED <<built, postureVars>>
     \/ RecordPools /\ UNCHANGED <<contexts, postureVars>>
     \/ EndPosture
     \/ RecordHandoff /\ UNCHANGED <<built, postureVars>>
  /\ NextPhase

ScriptAborts ==
  /\ \/ ScriptFails /\ UNCHANGED <<contexts, built, postureVars>>
     \/ PoolReverts /\ UNCHANGED <<contexts, postureVars>>
     \/ PostureReverts
     \/ HandoffReverts /\ UNCHANGED <<built, postureVars>>
  /\ Abort

\* By hand, between runs: execute-posture-mainnet, the Safe's own submission,
\* another configuration.
ByHand ==
  /\ Idle /\ phase = 0
  /\ \/ (StartBundle \/ SafeSubmits) /\ UNCHANGED starts
     \/ EditConfig /\ starts < MaxStarts /\ starts' = starts + 1
  /\ launched' = FALSE /\ UNCHANGED <<phase, ran>>

\* fix-deployer-roles-mainnet: each of its transactions is sent only if needed.
FixRoles ==
  /\ Idle /\ phase = 0 /\ mainnet /\ starts < MaxStarts
  /\ Has("DeltaVerifier", "ADMIN", "deployer") /\ Has("DataContributionRegistry", "ADMIN", "deployer")
  /\ \E done \in 1..3 :
       facts' = (facts \union {<<"DeltaVerifier", "SUBMITTER", "relayer">>})
                \ ({<<"DeltaVerifier", "SUBMITTER", "deployer">> : k \in 2..done}
                   \union {<<"DataContributionRegistry", "RECORDER", "deployer">> : k \in 3..done})
  /\ starts' = starts + 1 /\ launched' = FALSE
  /\ UNCHANGED <<mainnet, env, draft, artifact, job, refused, failures, contexts, built, postureVars, phase, ran>>

MintDuringLaunch == \E m \in Models : MintSpends(m) /\ UNCHANGED conductorVars

LaunchNext ==
  \/ StartConductor \/ SkipEveryPhase \/ BeginPhase \/ PassPhase \/ StopForSafe \/ FailPhase
  \/ NewStack \/ ScriptStep \/ ScriptEnds \/ ScriptAborts
  \/ ByHand \/ FixRoles \/ MintDuringLaunch

LaunchSpec == LaunchInit /\ [][LaunchNext]_launchVars

-----------------------------------------------------------------------------
\* Whatever run, failure or change of environment came between, every contract
\* of the stack is governed by the deployer, the timelock, or a Safe that a
\* handoff was told to use: a role is given up only after it was given on.
Governed(c, field) ==
  HoldersOf(c, field) \intersect ({"deployer", "timelock"} \union {x.admin : x \in contexts}) # {}
NothingOrphaned ==
  facts # {} =>
    /\ \A c \in {"ModelRegistry", "TokenManager", "HokusaiAMMFactory"} : Governed(c, "owner")
    /\ \A c \in {"TokenManager", "DeltaVerifier", "DataContributionRegistry", "InfrastructureReserve",
                 "InfrastructureCostOracle", "UsageFeeRouter"} : Governed(c, "ADMIN")

\* A handoff that stopped half-way can be run again to its end: only a changed
\* environment can make one of its transactions revert.
HandoffResumes == refused = "handoff" => Cardinality(contexts) > 1

\* A posture that was planned and interrupted can be planned and executed again,
\* with mints in between, while its configuration and the deployer's roles stay
\* and the configuration names enough attesters for its own threshold.
PostureResumes ==
  refused = "posture" =>
    \/ Cardinality(configs) > 1 \/ \E c \in configs : c.threshold > Cardinality(c.attesters)
    \/ ~Has("DeltaVerifier", "ADMIN", "deployer") \/ ~Has("ModelRegistry", "owner", "deployer")
    \/ \E m \in Models : <<"register", m>> \notin built

\* The legacy mints are closed only where the signed path is in place, as far as
\* a configuration planned for this stack asks for it: every model has a budget,
\* the attesters are enough, there is a threshold, and a genesis for every model.
\* A configuration without threshold or genesis closes them without (README).
ClosedOnlyWhenReady ==
  posture.closed =>
    /\ Cardinality(posture.attesters) >= posture.threshold
    /\ \A m \in Models : posture.budget[m] # "none"
    /\ \E c \in configs : /\ c.threshold = 0 \/ posture.threshold >= 1
                          /\ c.genesis = Unset \/ \A m \in Models : posture.genesis[m] # Unset

LaunchSound == NothingOrphaned /\ HandoffResumes /\ PostureResumes /\ ClosedOnlyWhenReady

\* The policy is carried out: what it revokes from the deployer, what it gives
\* to the timelock, the factory's pauser.  (The deployer's MINTER and DEPLOYER
\* roles of the TokenManager are not in the policy, and stay.)
HandedOverByPolicy ==
  /\ \A i \in DOMAIN Policy : LET e == Policy[i] IN
       /\ \A j \in DOMAIN e.revoked : ~Has(e.contract, e.revoked[j], "deployer")
       /\ e.owner # Unset => HoldersOf(e.contract, "owner") = {"timelock"}
       /\ \A j \in DOMAIN e.roles : e.roles[j][2] = "TIMELOCK" => Has(e.contract, e.roles[j][1], "timelock")
  /\ Has("HokusaiAMMFactory", "pauser", "safe")
  /\ Has("timelock", "PROPOSER", "safe")
  /\ artifact.timelock = "timelock"

\* A mainnet launch that the conductor calls complete after its last gate, from
\* whatever phase it was last started, has been handed over by the policy: also
\* what that gate does not read (the factory's pauser, the TokenManager's admin,
\* the reserve's pauser, the oracle's governor).
LaunchedMeansHandedOver == launched /\ ran /\ mainnet => HandedOverByPolicy

\* What the conductor prints at its end (launch-mainnet.js:195): it is "complete
\* through final gate".  Not so after a run that skipped every phase.
CompleteMeansHandedOver == launched /\ mainnet => HandedOverByPolicy

=============================================================================
