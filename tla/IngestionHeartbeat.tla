------------------------- MODULE IngestionHeartbeat -------------------------
(***************************************************************************)
(* services/contract-deployer/src/monitoring: ingestion-health.ts and the  *)
(* AMMMonitor's heartbeat.  Every interval the chain's head is sampled; a  *)
(* change of health is paged, and an RPC error first tries the backup      *)
(* provider, whose answer is awaited without a limit.  The failover moves  *)
(* the heartbeat only: trackers and listeners keep the provider they were  *)
(* made with.  Time is in ticks, and timers are not late.                  *)
(***************************************************************************)
EXTENDS Naturals

CONSTANTS
  BeatInterval, RpcTimeout, StaleLimit, StuckLimit,
  MaxBeatTime, MaxBlocks, MaxOutages  \* bounds: the clock, the chain, outages

ASSUME HeartbeatConstants ==
  /\ {BeatInterval, RpcTimeout, StaleLimit, StuckLimit, MaxBeatTime, MaxBlocks, MaxOutages} \subseteq Nat
  /\ 0 < RpcTimeout /\ RpcTimeout < BeatInterval

Providers == {"primary", "backup"}

VARIABLES
  beatTime,
  head,                   \* external: provider -> number and time of its latest block
  answering,              \* external: the providers that answer
  hasBackup,              \* is backupRpcUrl configured
  provider,               \* of the heartbeat
  health,                 \* IngestionHealthState
  nextBeat,
  sampling,               \* the provider asked, and when; or NoSample
  switching,              \* outages that await the backup's answer before they are paged
  paged, recovered,       \* pages sent, of outages and of recoveries
  lastPage,
  downSince, askedSince   \* history: when the provider stopped answering, was taken into use

heartbeatHistory == <<paged, recovered, lastPage>>
heartbeatVars == <<beatTime, head, answering, hasBackup, provider, health, nextBeat, sampling,
                   switching, heartbeatHistory, downSince, askedSince>>

NoSample == [from |-> "none", at |-> 0]
NeverAdvanced == MaxBeatTime + 1

HeartbeatInit ==
  /\ beatTime = 0 /\ head = [p \in Providers |-> [number |-> 1, time |-> 0]]
  /\ answering = Providers /\ hasBackup \in BOOLEAN
  /\ provider \in (IF hasBackup THEN Providers ELSE {"primary"})
  /\ health = [healthy |-> TRUE, block |-> 0, advancedAt |-> NeverAdvanced]
  /\ nextBeat = BeatInterval /\ sampling = NoSample /\ switching = 0
  /\ paged = 0 /\ recovered = 0 /\ lastPage = "recovered"
  /\ downSince = [p \in Providers |-> NeverAdvanced] /\ askedSince = 0

\* setInterval: a beat takes its sample from the provider of the moment.
Beat ==
  /\ beatTime = nextBeat /\ nextBeat' = nextBeat + BeatInterval
  /\ sampling' = [from |-> provider, at |-> beatTime]
  /\ UNCHANGED <<beatTime, head, answering, hasBackup, provider, health, switching,
                 heartbeatHistory, downSince, askedSince>>

\* The page of a change of health, at once but for an error that has a backup to try.
PageChange(was, is, error) ==
  IF was = is THEN UNCHANGED <<switching, heartbeatHistory>>
  ELSE IF is
  THEN recovered' = recovered + 1 /\ lastPage' = "recovered" /\ UNCHANGED <<switching, paged>>
  ELSE IF error /\ hasBackup /\ provider = "primary"
  THEN switching' = switching + 1 /\ UNCHANGED heartbeatHistory
  ELSE paged' = paged + 1 /\ lastPage' = "unhealthy" /\ UNCHANGED <<switching, recovered>>

\* assessIngestionHealth of a block.
Assess(block) ==
  LET advanced == block.number > health.block
      at == IF advanced THEN beatTime ELSE health.advancedAt
      healthy == beatTime - block.time <= StaleLimit /\ beatTime - at <= StuckLimit
  IN health' = [healthy |-> healthy, advancedAt |-> at,
                block |-> IF advanced THEN block.number ELSE health.block]

AnswerSample ==
  /\ sampling # NoSample /\ sampling.from \in answering
  /\ Assess(head[sampling.from]) /\ sampling' = NoSample
  /\ PageChange(health.healthy, health'.healthy, FALSE)
  /\ UNCHANGED <<beatTime, head, answering, hasBackup, provider, nextBeat, downSince, askedSince>>

\* The read fails, or its timeout comes first.
SampleFails ==
  /\ sampling # NoSample
  /\ sampling.from \notin answering \/ beatTime = sampling.at + RpcTimeout
  /\ health.healthy => paged + switching < MaxOutages
  /\ health' = [health EXCEPT !.healthy = FALSE] /\ sampling' = NoSample
  /\ PageChange(health.healthy, FALSE, TRUE)
  /\ UNCHANGED <<beatTime, head, answering, hasBackup, provider, nextBeat, downSince, askedSince>>

\* switchToBackupProvider is answered, or fails; either way the outage is paged now.
EndSwitch ==
  /\ switching > 0 /\ switching' = switching - 1
  /\ \/ /\ "backup" \in answering /\ provider' = "backup"
        /\ askedSince' = IF provider = "backup" THEN askedSince ELSE beatTime
     \/ "backup" \notin answering /\ UNCHANGED <<provider, askedSince>>
  /\ paged' = paged + 1 /\ lastPage' = "unhealthy" /\ UNCHANGED recovered
  /\ UNCHANGED <<beatTime, head, answering, hasBackup, health, nextBeat, sampling, downSince>>

\* A provider sees a block, stops answering or answers again.
ProviderChanges(p) ==
  /\ \/ /\ p \in answering /\ head[p].number < MaxBlocks
        /\ head' = [head EXCEPT ![p] = [number |-> @.number + 1, time |-> beatTime]]
        /\ UNCHANGED <<answering, downSince>>
     \/ /\ p \in answering /\ answering' = answering \ {p}
        /\ downSince' = [downSince EXCEPT ![p] = beatTime] /\ UNCHANGED head
     \/ /\ p \notin answering /\ answering' = answering \union {p}
        /\ downSince' = [downSince EXCEPT ![p] = NeverAdvanced] /\ UNCHANGED head
  /\ UNCHANGED <<beatTime, hasBackup, provider, health, nextBeat, sampling, switching,
                 heartbeatHistory, askedSince>>

HeartbeatTick ==
  /\ beatTime < MaxBeatTime /\ beatTime' = beatTime + 1
  /\ beatTime < nextBeat
  /\ sampling # NoSample => beatTime < sampling.at + RpcTimeout
  /\ UNCHANGED <<head, answering, hasBackup, provider, health, nextBeat, sampling, switching,
                 heartbeatHistory, downSince, askedSince>>

HeartbeatNext ==
  \/ Beat \/ AnswerSample \/ SampleFails \/ EndSwitch \/ HeartbeatTick
  \/ \E p \in Providers : ProviderChanges(p)

-----------------------------------------------------------------------------

\* A monitor whose provider has not answered for an interval and a timeout, or whose
\* chain has no block younger than that and the limit, knows that it is blind, also
\* when the provider was exchanged meanwhile.
BlindnessIsNoticed ==
  LET late == BeatInterval + RpcTimeout IN
  \/ ~health.healthy
  \/ /\ \/ downSince[provider] = NeverAdvanced
        \/ beatTime <= downSince[provider] + late \/ beatTime <= askedSince + late
     /\ \/ beatTime <= head[provider].time + StaleLimit + late
        \/ beatTime <= askedSince + late

\* An outage is paged once, and so is a recovery, however long the backup takes; the
\* last page tells the health of the moment unless there is a backup, whose answer
\* can put the page of an outage after the one of its recovery.
OutagePagedOnce ==
  /\ paged + switching = recovered + (IF health.healthy THEN 0 ELSE 1)
  /\ ~hasBackup => (lastPage = "recovered") = health.healthy

=============================================================================
