--------------------------- MODULE HokusaiParams ---------------------------
(***************************************************************************)
(* contracts/HokusaiParams.sol: a model's parameters.  Governance sets the *)
(* contract's own values at once; values kept for a model id are queued    *)
(* and applied by anyone once the model's price epoch has ended.  The      *)
(* DeltaVerifier, the token's reward cap and the UsageFeeRouter read the   *)
(* contract's own values.                                                  *)
(***************************************************************************)
EXTENDS Integers

CONSTANTS
  MaxWhole, TokenUnit,    \* MAX_TOKENS_PER_DELTA_ONE_WHOLE, TOKEN_UNIT
  MinRate, MaxRate, MinBps, MaxBps,
  Values,                 \* what governance tries to set
  PriceEpoch,             \* DEFAULT_PRICE_EPOCH_DURATION
  MaxParamClock           \* bound on block.timestamp

ASSUME ParamsConstants ==
  /\ MaxWhole \in Nat /\ TokenUnit \in Nat \ {0}
  /\ MinRate \in Nat /\ MaxRate \in Nat /\ MinRate <= MaxRate
  /\ MinBps \in Nat /\ MaxBps \in Nat /\ MinBps <= MaxBps
  /\ Values \subseteq Nat /\ PriceEpoch \in Nat \ {0} /\ MaxParamClock \in Nat

VARIABLES
  paramClock,
  rate, accrual,          \* _tokensPerDeltaOne, _infrastructureAccrualBps
  modelRate, modelAccrual, \* the model's, once it is initialized
  initialized, epochStart,
  pendingRate, pendingAccrual, \* zero if there is none
  lastApplied,            \* history: when a queued value was last applied
  standing                \* history: an emergency rate after which no rate was queued

perModel == <<modelRate, modelAccrual, initialized, epochStart>>
history == <<lastApplied, standing>>
paramsVars == <<paramClock, rate, accrual, perModel, pendingRate, pendingAccrual, history>>

\* _normalizeTokensPerDeltaOne
Normalized(value) == IF value <= MaxWhole THEN value * TokenUnit ELSE value

RateOK(value) == MinRate <= Normalized(value) /\ Normalized(value) <= MaxRate
AccrualOK(value) == MinBps <= value /\ value <= MaxBps

ParamsInit ==
  /\ paramClock = 1 /\ rate = MinRate /\ accrual = MinBps
  /\ modelRate = 0 /\ modelAccrual = 0 /\ initialized = FALSE /\ epochStart = 0
  /\ pendingRate = 0 /\ pendingAccrual = 0 /\ lastApplied = 0 /\ standing = 0

\* setTokensPerDeltaOne, setInfrastructureAccrualBps
SetParam(value) ==
  /\ \/ RateOK(value) /\ rate' = Normalized(value) /\ UNCHANGED accrual
     \/ AccrualOK(value) /\ accrual' = value /\ UNCHANGED rate
  /\ UNCHANGED <<paramClock, perModel, pendingRate, pendingAccrual, history>>

\* _initializeModelIfNeeded: the model starts with the contract's values of now.
InitializeModelIfNeeded(newRate, newAccrual) ==
  /\ initialized' = TRUE
  /\ modelRate' = newRate /\ modelAccrual' = newAccrual
  /\ epochStart' = IF initialized THEN epochStart ELSE paramClock

currentRate == IF initialized THEN modelRate ELSE rate
currentAccrual == IF initialized THEN modelAccrual ELSE accrual

\* A second queued value replaces the first; the epoch is not restarted.
QueueParamUpdate(value) ==
  /\ InitializeModelIfNeeded(currentRate, currentAccrual)
  /\ \/ /\ RateOK(value) /\ pendingRate' = Normalized(value) /\ standing' = 0
        /\ UNCHANGED pendingAccrual
     \/ AccrualOK(value) /\ pendingAccrual' = value /\ UNCHANGED <<pendingRate, standing>>
  /\ UNCHANGED <<paramClock, rate, accrual, lastApplied>>

\* Mutant: applying does not start a new epoch.
KeepsEpoch ==
  /\ initialized /\ paramClock >= epochStart + PriceEpoch
  /\ modelRate' = IF pendingRate # 0 THEN pendingRate ELSE modelRate
  /\ modelAccrual' = IF pendingAccrual # 0 THEN pendingAccrual ELSE modelAccrual
  /\ pendingRate' = 0 /\ pendingAccrual' = 0
  /\ lastApplied' = IF pendingRate + pendingAccrual > 0 THEN paramClock ELSE lastApplied
  /\ UNCHANGED <<paramClock, rate, accrual, initialized, epochStart, standing>>

\* By anyone, with or without something pending.
ApplyPendingUpdates ==
  /\ initialized /\ paramClock >= epochStart + PriceEpoch
  /\ modelRate' = IF pendingRate # 0 THEN pendingRate ELSE modelRate
  /\ modelAccrual' = IF pendingAccrual # 0 THEN pendingAccrual ELSE modelAccrual
  /\ pendingRate' = 0 /\ pendingAccrual' = 0
  /\ epochStart' = paramClock
  /\ lastApplied' = IF pendingRate + pendingAccrual > 0 THEN paramClock ELSE lastApplied
  /\ UNCHANGED <<paramClock, rate, accrual, initialized, standing>>

CancelPendingUpdate ==
  /\ \/ pendingRate # 0 /\ pendingRate' = 0 /\ UNCHANGED pendingAccrual
     \/ pendingAccrual # 0 /\ pendingAccrual' = 0 /\ UNCHANGED pendingRate
  /\ UNCHANGED <<paramClock, rate, accrual, perModel, history>>

\* Mutant: what was queued stays queued behind an emergency value.
EmergencyKeepsPending(value) ==
  /\ \/ /\ RateOK(value) /\ InitializeModelIfNeeded(Normalized(value), currentAccrual)
        /\ standing' = Normalized(value)
     \/ AccrualOK(value) /\ InitializeModelIfNeeded(currentRate, value) /\ UNCHANGED standing
  /\ UNCHANGED <<paramClock, rate, accrual, pendingRate, pendingAccrual, lastApplied>>

\* emergencySetParam, at any time; what was queued for the parameter is dropped.
EmergencySetParam(value) ==
  /\ \/ /\ RateOK(value) /\ InitializeModelIfNeeded(Normalized(value), currentAccrual)
        /\ pendingRate' = 0 /\ standing' = Normalized(value) /\ UNCHANGED pendingAccrual
     \/ /\ AccrualOK(value) /\ InitializeModelIfNeeded(currentRate, value)
        /\ pendingAccrual' = 0 /\ UNCHANGED <<pendingRate, standing>>
  /\ UNCHANGED <<paramClock, rate, accrual, lastApplied>>

ParamsTick ==
  /\ paramClock < MaxParamClock /\ paramClock' = paramClock + 1
  /\ UNCHANGED <<rate, accrual, perModel, pendingRate, pendingAccrual, history>>

ParamsNext ==
  \/ \E value \in Values :
       SetParam(value) \/ QueueParamUpdate(value) \/ EmergencySetParam(value)
  \/ ApplyPendingUpdates \/ CancelPendingUpdate \/ ParamsTick

ParamsSpec == ParamsInit /\ [][ParamsNext]_paramsVars

-----------------------------------------------------------------------------

\* Whatever governance enters, as tokens or in wei, for the contract or for a
\* model, at once, queued or in an emergency: a rate that can be read is in bounds.
ParamsInBounds ==
  /\ rate \in MinRate..MaxRate /\ accrual \in MinBps..MaxBps
  /\ currentRate \in MinRate..MaxRate /\ currentAccrual \in MinBps..MaxBps
  /\ pendingRate \in {0} \union MinRate..MaxRate
  /\ pendingAccrual \in {0} \union MinBps..MaxBps
  /\ paramClock \in Nat \ {0} /\ epochStart \in Nat /\ lastApplied \in Nat

\* "Epoch-based price locking": a model's queued values are applied no more than
\* once in an epoch, whoever calls and whatever is queued and cancelled.
QueuedValuesKeepEpochs ==
  lastApplied # 0 /\ lastApplied' # lastApplied => lastApplied' - lastApplied >= PriceEpoch

\* An emergency rate stands until governance queues another: nothing that was
\* queued before it comes back at the end of the epoch.
EmergencyRateStands == standing # 0 => initialized /\ modelRate = standing

\* What can be read is in bounds, and what governance said last.
ParamsSound == ParamsInBounds /\ EmergencyRateStands

=============================================================================
