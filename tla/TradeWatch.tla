----------------------------- MODULE TradeWatch -----------------------------
(***************************************************************************)
(* services/contract-deployer/src/monitoring: the EventListener's handlers *)
(* of a pool's events, the MetricsCollector they feed and the lists the    *)
(* AMMMonitor keeps.  A handler stamps its event, raises its alert, awaits *)
(* what the alert's callbacks and e-mail take, and only then records it:   *)
(* handlers overlap, and what needs no alert overtakes what does.          *)
(***************************************************************************)
EXTENDS Counting, SequencesExt, FiniteSetsExt

CONSTANTS
  Events,                 \* what may happen to the pools
  EventOf,                \* its kind, pool, size and trader
  LargeTrade,             \* thresholds.largeTradeUSD
  TradeWindow,            \* 24 hours
  AlertsKept, ErrorsKept, EventsKept, \* 100, 10 and 200
  ErrorLimit,             \* more critical alerts than this are a degraded monitor
  MaxWatchTime            \* bound on the clock

EventKinds == {"buy", "sell", "fees", "paused", "unpaused", "owner", "parameters"}

ASSUME EventConstants ==
  /\ \A e \in Events : EventOf[e].kind \in EventKinds /\ EventOf[e].size \in Nat
  /\ {LargeTrade, TradeWindow, ErrorLimit, MaxWatchTime} \subseteq Nat
  /\ {AlertsKept, ErrorsKept, EventsKept} \subseteq Nat \ {0}
  /\ ErrorLimit < ErrorsKept

TradedPools == {EventOf[e].pool : e \in Events}

VARIABLES
  time,
  listening,
  stampOf,                \* event -> the time its handler gave it, or Unstamped
  alerting,               \* events whose handler awaits its alert
  recentTrades,           \* pool -> the trades kept, in the order recorded
  totals,                 \* pool -> what a PoolMetrics adds up
  lastDay,                \* pool -> volume24h, trades24h and uniqueTraders24h
  alerts, errors, events, \* of the AMMMonitor
  recorded, refreshed     \* history: all of events; pool -> the time of its lastDay

metricsOfPools == <<recentTrades, totals, lastDay, refreshed>>
tradeVars == <<time, listening, stampOf, alerting, metricsOfPools, alerts, errors, events, recorded>>

Unstamped == MaxWatchTime + 1
NoTotals == [buys |-> 0, sells |-> 0, volume |-> 0, deposits |-> 0, traders |-> {},
             first |-> Unstamped, last |-> Unstamped]

TradeWatchInit ==
  /\ time = 0 /\ listening = TRUE
  /\ stampOf = [e \in Events |-> Unstamped] /\ alerting = {}
  /\ recentTrades = [p \in TradedPools |-> <<>>] /\ totals = [p \in TradedPools |-> NoTotals]
  /\ lastDay = [p \in TradedPools |-> [volume |-> 0, trades |-> 0, traders |-> {}]]
  /\ alerts = <<>> /\ errors = <<>> /\ events = <<>>
  /\ recorded = <<>> /\ refreshed = [p \in TradedPools |-> 0]

IsTrade(e) == EventOf[e].kind \in {"buy", "sell"}
IsCritical(e) == EventOf[e].kind \in {"paused", "unpaused", "owner"}
NeedsAlert(e) ==
  IF IsTrade(e) THEN EventOf[e].size > LargeTrade ELSE EventOf[e].kind # "fees"

\* A list that drops its oldest entry when it grows past its limit.
Kept(list, e, limit) ==
  IF Len(list) < limit THEN Append(list, e) ELSE Tail(Append(list, e))

Sizes == [e \in Events |-> EventOf[e].size]
SizeOf(trades) == SumOf([i \in DOMAIN trades |-> Sizes[trades[i]]], DOMAIN trades)
TradersOf(trades) == {EventOf[trades[i]].trader : i \in DOMAIN trades}

\* A time no older than a window that ends at t.
InWindow(stamp, t) == stamp + TradeWindow >= t

RecentPlaces(trades, stamps) == {i \in DOMAIN trades : InWindow(stamps[trades[i]], time)}
Recent(trades, stamps) == Sublist(trades, RecentPlaces(trades, stamps))

\* recordTrade and update24hMetrics; lastTradeTime is that of the last recorded.
RecordTrade(e, stamps) ==
  LET p == EventOf[e].pool
      trades == Append(recentTrades[p], e)
      recent == Recent(trades, stamps)
  IN /\ recentTrades' = [recentTrades EXCEPT ![p] = trades]
     /\ totals' = [totals EXCEPT
          ![p].buys = @ + (IF EventOf[e].kind = "buy" THEN 1 ELSE 0),
          ![p].sells = @ + (IF EventOf[e].kind = "sell" THEN 1 ELSE 0),
          ![p].volume = @ + EventOf[e].size,
          ![p].traders = @ \union {EventOf[e].trader},
          ![p].first = IF @ = Unstamped THEN stamps[e] ELSE @,
          ![p].last = stamps[e]]
     /\ lastDay' = [lastDay EXCEPT ![p] =
          [volume |-> SizeOf(recent), trades |-> Len(recent), traders |-> TradersOf(recent)]]
     /\ refreshed' = [refreshed EXCEPT ![p] = time]

\* What ends a handler: the metrics of a trade or a deposit, and the event listed.
RecordEvent(e, stamps) ==
  /\ CASE IsTrade(e) -> RecordTrade(e, stamps)
       [] EventOf[e].kind = "fees" ->
            /\ totals' = [totals EXCEPT ![EventOf[e].pool].deposits = @ + EventOf[e].size]
            /\ UNCHANGED <<recentTrades, lastDay, refreshed>>
       [] OTHER -> UNCHANGED metricsOfPools
  /\ events' = Kept(events, e, EventsKept)
  /\ recorded' = Append(recorded, e)

\* handleBuyEvent, handleSellEvent, handleFeesDepositedEvent, handlePausedEvent and
\* the others, with handleAlert, up to their first await.
HandleEvent(e) ==
  /\ listening /\ stampOf[e] = Unstamped
  /\ stampOf' = [stampOf EXCEPT ![e] = time]
  /\ IF NeedsAlert(e)
     THEN /\ alerting' = alerting \union {e}
          /\ alerts' = Kept(alerts, e, AlertsKept)
          /\ errors' = IF IsCritical(e) THEN Kept(errors, e, ErrorsKept) ELSE errors
          /\ UNCHANGED <<metricsOfPools, events, recorded>>
     ELSE RecordEvent(e, stampOf') /\ UNCHANGED <<alerting, alerts, errors>>
  /\ UNCHANGED <<time, listening>>

\* The callbacks and the e-mail are done with an alert, or failed, which is logged.
AlertDone(e) ==
  /\ e \in alerting /\ alerting' = alerting \ {e}
  /\ RecordEvent(e, stampOf)
  /\ UNCHANGED <<time, listening, stampOf, alerts, errors>>

\* Handlers under way go on.
StopAllListening ==
  /\ listening /\ listening' = FALSE
  /\ UNCHANGED <<time, stampOf, alerting, metricsOfPools, alerts, errors, events, recorded>>

\* By a timer; what lastDay says stays.
CleanupOldTrades ==
  /\ recentTrades' = [p \in TradedPools |-> Recent(recentTrades[p], stampOf)]
  /\ UNCHANGED <<time, listening, stampOf, alerting, totals, lastDay, refreshed, alerts, errors,
                 events, recorded>>

WatchTick ==
  /\ time < MaxWatchTime /\ time' = time + 1
  /\ UNCHANGED <<listening, stampOf, alerting, metricsOfPools, alerts, errors, events, recorded>>

TradeWatchNext ==
  \/ \E e \in Events : HandleEvent(e) \/ AlertDone(e)
  \/ StopAllListening \/ CleanupOldTrades \/ WatchTick

Health == IF Len(errors) > ErrorLimit THEN "degraded" ELSE "healthy"

-----------------------------------------------------------------------------

Seen == {e \in Events : stampOf[e] # Unstamped}
TradesIn(p) == {e \in Seen \ alerting : IsTrade(e) /\ EventOf[e].pool = p}
SizeSum(trades) == SumOf(Sizes, trades)
Suffix(list, n) == SubSeq(list, IF Len(list) > n THEN Len(list) - n + 1 ELSE 1, Len(list))

\* A trade that was seen counts once, with its size, or still awaits its alert;
\* what a pool reports of its last day is what it recorded in the day before its
\* last trade, however the clean-up and late records fall: never less than the
\* trades of the day that ends now, and more only while the pool is quiet.
TradesCounted ==
  \A p \in TradedPools :
    LET then == {e \in TradesIn(p) : InWindow(stampOf[e], refreshed[p])}
        still == {e \in TradesIn(p) : InWindow(stampOf[e], time)}
    IN /\ totals[p].buys + totals[p].sells = Cardinality(TradesIn(p))
       /\ totals[p].volume = SizeSum(TradesIn(p))
       /\ lastDay[p].trades = Cardinality(then) /\ lastDay[p].volume = SizeSum(then)
       /\ still \subseteq then /\ still \subseteq ToSet(recentTrades[p])

\* The time of a pool's last trade is the newest of its records, unless the one
\* recorded last was a large trade, which its alert held up.
LateOnlyIfLarge ==
  \A p \in TradedPools : TradesIn(p) # {} =>
    \/ totals[p].last = Max({stampOf[e] : e \in TradesIn(p)})
    \/ LET places == {i \in DOMAIN recorded : recorded[i] \in TradesIn(p)}
       IN EventOf[recorded[Max(places)]].size > LargeTrade

\* The lists keep the newest entries, in the order they were recorded; no large
\* trade or security event is listed before its alert was raised; and a monitor
\* that saw more critical alerts than the limit is degraded from then on.
ListsSound ==
  /\ events = Suffix(recorded, EventsKept)
  /\ Seen = alerting \union ToSet(recorded)
  /\ Len(alerts) = Min({AlertsKept, Cardinality({e \in Seen : NeedsAlert(e)})})
  /\ (Health = "degraded") = (Cardinality({e \in Seen : IsCritical(e)}) > ErrorLimit)

=============================================================================
