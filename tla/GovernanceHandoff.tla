--------------------------- MODULE GovernanceHandoff ---------------------------
(***************************************************************************)
(* scripts/governance: the timelock is deployed and recorded, then every   *)
(* contract of the policy gets its new holders before the deployer gives   *)
(* its roles up; verify-governance reads the result.                       *)
(***************************************************************************)
EXTENDS DeployStack

VARIABLE contexts         \* history: the contexts of the handoffs of this stack

\* getGovernanceContext: the environment before the artifact before the default.
\* No script records a submitter's relayer.
First(s) ==
  IF \E i \in DOMAIN s : s[i] # Unset
  THEN s[CHOOSE i \in DOMAIN s : s[i] # Unset /\ \A j \in 1..(i - 1) : s[j] = Unset] ELSE Unset
Context ==
  LET admin == First(<<env.admin, artifact.admin, "safe">>) IN
  [admin |-> admin,
   emergency |-> First(<<env.emergency, artifact.emergency, admin>>),
   timelock |-> artifact.timelock,
   relayer |-> First(<<env.relayer, env.mainnetBackend, artifact.backend>>)]

\* The policy: per contract the roles to grant, the owner, and the roles the
\* deployer gives up.  A role's holders: a symbol, or the artifact's list.
Entry(c, roles, owner, revoked) ==
  [contract |-> c, roles |-> roles, owner |-> owner, revoked |-> revoked]
Policy ==
  << Entry("ModelRegistry", <<>>, "TIMELOCK", <<>>),
     Entry("TokenManager",
           << <<"ADMIN", "TIMELOCK">>, <<"MINTER", "RECORDED">>, <<"DEPLOYER", "RECORDED">> >>,
           "TIMELOCK", <<"ADMIN">>),
     Entry("HokusaiAMMFactory", <<>>, "TIMELOCK", <<>>),
     Entry("DeltaVerifier",
           << <<"ADMIN", "ADMIN_SAFE">>, <<"SUBMITTER", "RELAYER">>, <<"PAUSER", "EMERGENCY_SAFE">> >>,
           Unset, <<"ADMIN", "PAUSER", "SUBMITTER">>),
     Entry("InfrastructureReserve",
           << <<"ADMIN", "TIMELOCK">>, <<"DEPOSITOR", "RECORDED">>, <<"PAYER", "RECORDED">>,
              <<"PAUSER", "EMERGENCY_SAFE">> >>,
           Unset, <<"ADMIN", "PAUSER">>),
     Entry("InfrastructureCostOracle", << <<"ADMIN", "TIMELOCK">>, <<"GOV", "TIMELOCK">> >>,
           Unset, <<"ADMIN", "GOV">>),
     Entry("UsageFeeRouter", << <<"ADMIN", "TIMELOCK">>, <<"FEE_DEPOSITOR", "RECORDED">> >>,
           Unset, <<"ADMIN">>),
     Entry("DataContributionRegistry",
           << <<"ADMIN", "ADMIN_SAFE">>, <<"RECORDER", "DeltaVerifier">>, <<"VERIFIER", "RECORDED">> >>,
           Unset, <<"ADMIN", "RECORDER">>) >>

\* The policy's entries for this stack: one more per recorded token.
Entries ==
  Policy \o [i \in 1..Cardinality(artifact.tokens) |->
               Entry(SetToSeq(artifact.tokens)[i], <<>>, "ADMIN_SAFE", <<"ADMIN", "GOV">>)]

Resolve(symbol, c, role, ctx) ==
  CASE symbol = "TIMELOCK" -> {ctx.timelock}
    [] symbol = "ADMIN_SAFE" -> {ctx.admin}
    [] symbol = "EMERGENCY_SAFE" -> {ctx.emergency}
    [] symbol = "RELAYER" -> {ctx.relayer} \ {Unset}
    [] symbol = "RECORDED" -> {x[3] : x \in {y \in artifact.roles : y[1] = c /\ y[2] = role}}
    [] OTHER -> {symbol}

Task(op, c, f, w) == [op |-> op, on |-> c, field |-> f, to |-> w]

RoleTasks(e, ctx) ==
  FlattenSeq([i \in DOMAIN e.roles |->
    LET role == e.roles[i][1]
        holders == SetToSeq(Resolve(e.roles[i][2], e.contract, role, ctx))
    IN [j \in DOMAIN holders |-> Task("role", e.contract, role, holders[j])]])
SetterTasks(e, ctx) ==
  IF e.contract = "HokusaiAMMFactory"
  THEN <<Task("setter", e.contract, "pauser", ctx.emergency)>> ELSE <<>>
OwnerTasks(e, ctx) ==
  IF e.owner = Unset THEN <<>>
  ELSE <<Task("owner", e.contract, "owner", CHOOSE w \in Resolve(e.owner, e.contract, "owner", ctx) : TRUE)>>
RenounceTasks(e) ==
  [i \in DOMAIN e.revoked |-> Task("renounce", e.contract, e.revoked[i], "deployer")]

\* Mutant: the owner goes before what only the owner can set.
OwnerFirst(e, ctx) ==
  RoleTasks(e, ctx) \o OwnerTasks(e, ctx) \o SetterTasks(e, ctx) \o RenounceTasks(e)

\* The order of runGovernanceTransfer for one contract.
ContractTasks(e, ctx) ==
  RoleTasks(e, ctx) \o SetterTasks(e, ctx) \o OwnerTasks(e, ctx) \o RenounceTasks(e)

Moved(c, f, w) == {x \in facts : ~(x[1] = c /\ x[2] = f)} \union {<<c, f, w>>}

\* Only setPauser is sent without asking first whether the deployer may send it.
TaskReverts(t) ==
  t.op = "setter" /\ ~Has(t.on, t.field, t.to) /\ ~Has(t.on, "owner", "deployer")

AfterTask(t) ==
  CASE t.op = "role" /\ Has(t.on, "ADMIN", "deployer") -> facts \union {<<t.on, t.field, t.to>>}
    [] t.op = "owner" /\ Has(t.on, "owner", "deployer") -> Moved(t.on, t.field, t.to)
    [] t.op = "setter" -> Moved(t.on, t.field, t.to)
    [] t.op = "renounce" -> facts \ {<<t.on, t.field, t.to>>}
    [] OTHER -> facts

-----------------------------------------------------------------------------
StartTimelock ==
  /\ artifact.timelock = Unset
  /\ Begin("deploy-timelock", <<"deploy", "record">>)
  /\ UNCHANGED <<mainnet, env, facts, draft, artifact, refused, failures, contexts>>

\* A timelock that was deployed and not recorded is never used.
TimelockStep ==
  /\ Runs("deploy-timelock") /\ NextTask = "deploy"
  /\ facts' = Moved("timelock", "PROPOSER", Context.admin)
  /\ TaskDone
  /\ UNCHANGED <<mainnet, env, draft, artifact, refused, failures, contexts>>

RecordTimelock ==
  /\ Runs("deploy-timelock") /\ NextTask = "record"
  /\ artifact' = [artifact EXCEPT !.timelock = "timelock", !.admin = Context.admin,
                                  !.emergency = Context.emergency]
  /\ job' = NoJob
  /\ UNCHANGED <<mainnet, env, facts, draft, refused, failures, contexts>>

\* The pre-flight: the recorded timelock answers to the Safe of this context.
TimelockReady ==
  artifact.timelock # Unset /\ Has("timelock", "PROPOSER", Context.admin)

StartHandoff ==
  /\ TimelockReady
  /\ Begin("handoff", FlattenSeq([i \in DOMAIN Entries |-> ContractTasks(Entries[i], Context)]))
  /\ contexts' = contexts \union {Context}
  /\ UNCHANGED <<mainnet, env, facts, draft, artifact, refused, failures>>

HandoffStep ==
  /\ Runs("handoff") /\ job.todo # <<>> /\ ~TaskReverts(NextTask)
  /\ facts' = AfterTask(NextTask)
  /\ TaskDone
  /\ UNCHANGED <<mainnet, env, draft, artifact, refused, failures, contexts>>

HandoffReverts ==
  /\ Runs("handoff") /\ job.todo # <<>> /\ TaskReverts(NextTask)
  /\ refused' = "handoff" /\ job' = NoJob
  /\ UNCHANGED <<mainnet, env, facts, draft, artifact, failures, contexts>>

RecordHandoff ==
  /\ Runs("handoff") /\ job.todo = <<>>
  /\ artifact' = [artifact EXCEPT !.admin = Context.admin, !.emergency = Context.emergency]
  /\ job' = NoJob
  /\ UNCHANGED <<mainnet, env, facts, draft, refused, failures, contexts>>

\* verifyGovernance: every check of the report passes.
GovernanceVerified ==
  /\ TimelockReady
  /\ \A i \in DOMAIN Entries : LET e == Entries[i] IN
       /\ e.owner # Unset => HoldersOf(e.contract, "owner") = Resolve(e.owner, e.contract, "owner", Context)
       /\ \A j \in DOMAIN e.roles :
            \A w \in Resolve(e.roles[j][2], e.contract, e.roles[j][1], Context) : Has(e.contract, e.roles[j][1], w)
       /\ \A j \in DOMAIN e.revoked : ~Has(e.contract, e.revoked[j], "deployer")
  /\ Has("HokusaiAMMFactory", "pauser", Context.emergency)
  /\ Wired(facts)

=============================================================================
