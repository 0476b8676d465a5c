---------------------------- MODULE StateTracker ----------------------------
(***************************************************************************)
(* services/contract-deployer/src/monitoring/state-tracker.ts: a pool is   *)
(* polled on its events and by an interval, a few samples are kept, and an *)
(* alert is raised when a condition starts to hold.  Time is in ticks.     *)
(***************************************************************************)
EXTENDS Integers, Sequences, FiniteSets

CONSTANTS
  Readings,               \* what a poll can read of a pool
  Slots, NoPoll,          \* polls that may be under way at once
  PollsPerTick, MaxHistory,
  ReserveWindow, AnHour, PausedLimit,
  DropLimit, PriceLimit, SupplyLimit, \* percentages
  MinReserve, ValidReserve, MaxFees,
  MaxTicks                \* bound on the clock

AlertTypes == {"paused", "true_supply_mismatch", "reserve_drop", "low_reserve",
               "price_spike", "supply_anomaly", "high_fees"}

ASSUME TrackerConstants ==
  /\ Readings \subseteq [paused : BOOLEAN, balanced : BOOLEAN,
                         reserve : Nat, price : Nat, supply : Nat, fees : Nat]
  /\ IsFiniteSet(Slots) /\ {PollsPerTick, PausedLimit} \subseteq Nat /\ MaxHistory \in Nat \ {0}
  /\ (PausedLimit + 1) * PollsPerTick + Cardinality(Slots) - 1 < MaxHistory

VARIABLES
  ticks,
  polls, pollsLeft,       \* the samples of polls under way; polls left in this tick
  poolStates,             \* the samples kept, oldest first
  activeAlerts,
  pausedSince             \* history: the first sample of those that ended paused, or -1

trackerVars == <<ticks, polls, pollsLeft, poolStates, activeAlerts, pausedSince>>

TrackerInit ==
  /\ ticks = 0
  /\ polls = [s \in Slots |-> NoPoll] /\ pollsLeft = PollsPerTick
  /\ poolStates = <<>> /\ activeAlerts = {} /\ pausedSince = -1

\* getPausedDuration, where the last sample is paused.
PausedDuration(samples) ==
  LET open == {i \in DOMAIN samples : ~samples[i].shows.paused}
      last == IF open = {} THEN 0 ELSE CHOOSE i \in open : \A j \in open : j <= i
  IN ticks - samples[last + 1].at

\* The first sample kept that is no older than a window that ends with sample s.
OldState(samples, s, window) ==
  samples[CHOOSE i \in DOMAIN samples :
            /\ samples[i].at >= s.at - window
            /\ \A j \in 1..i - 1 : samples[j].at < s.at - window]

Distance(a, b) == IF a > b THEN a - b ELSE b - a

Met(condition) == IF condition THEN "met" ELSE "clear"

\* checkPriceVolatility, checkSupplyAnomaly
Change(was, is, limit) ==
  IF was = 0 THEN "none" ELSE Met(Distance(is, was) * 100 > limit * was)

\* What a check makes of its condition: met, not met, or nothing, where the latch
\* stays as it is.  The phase decides nothing: checkAnomalies compares a bigint with
\* the number 0, which are never ===, and so makes every check in the flat phase too.
Verdict(t, samples) ==
  LET last == samples[Len(samples)]
      s == last.shows
      old == OldState(samples, last, IF t = "reserve_drop" THEN ReserveWindow ELSE AnHour).shows
  IN CASE t = "paused" ->
            IF ~s.paused THEN "clear"
            ELSE IF PausedDuration(samples) > PausedLimit THEN "met" ELSE "none"
       [] t = "true_supply_mismatch" ->
            Met(/\ s.reserve # 0 /\ s.supply # 0 /\ s.price # 0
                /\ s.reserve >= ValidReserve /\ ~s.balanced)
       [] t = "high_fees" -> Met(s.fees > MaxFees)
       [] t = "low_reserve" -> Met(s.reserve < MinReserve)
       [] t = "reserve_drop" ->
            IF old.reserve = 0 THEN "none"
            ELSE Met((old.reserve - s.reserve) * 100 > DropLimit * old.reserve)
       [] t = "price_spike" -> Change(old.price, s.price, PriceLimit)
       [] t = "supply_anomaly" -> Change(old.supply, s.supply, SupplyLimit)

\* pollPoolState.  What the pool shows by then is external, and the reads are one.
StartPoll(s) ==
  /\ polls[s] = NoPoll /\ pollsLeft > 0
  /\ \E reading \in Readings : polls' = [polls EXCEPT ![s] = [at |-> ticks, shows |-> reading]]
  /\ pollsLeft' = pollsLeft - 1
  /\ UNCHANGED <<ticks, poolStates, activeAlerts, pausedSince>>

PollFails(s) ==
  /\ polls[s] # NoPoll
  /\ polls' = [polls EXCEPT ![s] = NoPoll]
  /\ UNCHANGED <<ticks, pollsLeft, poolStates, activeAlerts, pausedSince>>

\* The reads are answered, not always in the order the polls began in:
\* addStateToHistory and checkAnomalies.
FinishPoll(s) ==
  LET all == Append(poolStates, polls[s])
      samples == IF Len(all) > MaxHistory THEN Tail(all) ELSE all
      Of(v) == {t \in AlertTypes : Len(samples) > 1 /\ Verdict(t, samples) = v}
  IN /\ polls[s] # NoPoll
     /\ polls' = [polls EXCEPT ![s] = NoPoll] /\ poolStates' = samples
     /\ activeAlerts' = (activeAlerts \union Of("met")) \ Of("clear")
     /\ pausedSince' = IF ~polls[s].shows.paused THEN -1
                       ELSE IF pausedSince = -1 THEN polls[s].at ELSE pausedSince
     /\ UNCHANGED <<ticks, pollsLeft>>

TrackerTick ==
  /\ ticks < MaxTicks /\ ticks' = ticks + 1 /\ pollsLeft' = PollsPerTick
  /\ UNCHANGED <<polls, poolStates, activeAlerts, pausedSince>>

TrackerNext ==
  \/ \E s \in Slots : StartPoll(s) \/ PollFails(s) \/ FinishPoll(s)
  \/ TrackerTick

-----------------------------------------------------------------------------

\* A pool that sample after sample has shown paused for long enough has its alert:
\* the samples kept reach back far enough, whatever polls overlap and in whatever
\* order they are answered.
PauseIsReported ==
  LET last == poolStates[Len(poolStates)]
  IN Len(poolStates) > 1 /\ pausedSince # -1 /\ last.at - pausedSince > PausedLimit
     => "paused" \in activeAlerts

=============================================================================
