------------------------- MODULE HokusaiAMMFactory -------------------------
(***************************************************************************)
(* contracts/HokusaiAMMFactory.sol: pools created for registered models    *)
(* and entered in the ModelRegistry by the same transaction, and paused    *)
(* one by one, in batches or page by page.  Pool parameters are left out.  *)
(***************************************************************************)
EXTENDS ModelRegistry, Sequences, FiniteSets

CONSTANT MaxPauseBatch    \* MAX_PAUSE_BATCH

ASSUME FactoryConstants == MaxPauseBatch \in Nat \ {0}

VARIABLES
  factoryPools,           \* pools
  allPools,
  pausedPools,            \* the pools' own pause
  deployerSet, isRegistrar, \* is there a poolDeployer; may the factory register pools
  swept                   \* history: pools at the front of allPools that were paused in
                          \* consecutive pages since the last unpause

factory == <<factoryPools, allPools, pausedPools, deployerSet, isRegistrar, swept>>
vars == <<registryVars, factory>>

Init ==
  /\ RegistryInit
  /\ factoryPools = [n \in Names |-> None] /\ allPools = <<>> /\ pausedPools = {}
  /\ deployerSet = FALSE /\ isRegistrar = FALSE /\ swept = 0

PoolSet == {allPools[i] : i \in DOMAIN allPools}

\* createPool and its variants; the pool has a new address.
CreatePool(n, p) ==
  /\ deployerSet /\ isRegistrar
  /\ factoryPools[n] = None /\ managerTokens[n] # None
  /\ p \notin PoolSet /\ poolToModel[p] = None
  /\ RegisterPool(n, p)
  /\ factoryPools' = [factoryPools EXCEPT ![n] = p]
  /\ allPools' = Append(allPools, p)
  /\ UNCHANGED <<models, nextModelId, switches, pausedPools, deployerSet, isRegistrar, swept>>

\* An owner or another registrar enters a pool of its own.
RegisterOtherPool(n, p) ==
  /\ RegisterPool(n, p)
  /\ UNCHANGED <<models, nextModelId, switches, factory>>

\* setPoolDeployer, once; setPoolRegistrar.
SetUpFactory ==
  /\ \/ ~deployerSet /\ deployerSet' = TRUE /\ UNCHANGED isRegistrar
     \/ isRegistrar' = ~isRegistrar /\ UNCHANGED deployerSet
  /\ UNCHANGED <<registryVars, factoryPools, allPools, pausedPools, swept>>

\* pausePool and pausePools, which skips the pools that are paused.
PausePools(ps) ==
  /\ ps # {} /\ Cardinality(ps) <= MaxPauseBatch
  /\ pausedPools' = pausedPools \union ps
  /\ UNCHANGED <<registryVars, factoryPools, allPools, deployerSet, isRegistrar, swept>>

UnpausePools(ps) ==
  /\ ps # {} /\ Cardinality(ps) <= MaxPauseBatch
  /\ pausedPools' = pausedPools \ ps
  /\ swept' = 0
  /\ UNCHANGED <<registryVars, factoryPools, allPools, deployerSet, isRegistrar>>

\* The positions, from one, of a page that starts after start pools.
Page(start) ==
  start + 1 .. IF start + MaxPauseBatch > Len(allPools) THEN Len(allPools)
               ELSE start + MaxPauseBatch

\* pauseAllPools(start, MAX_PAUSE_BATCH), where a sweep goes on.
PauseNextPage ==
  /\ swept < Len(allPools)
  /\ pausedPools' = pausedPools \union {allPools[i] : i \in Page(swept)}
  /\ swept' = IF swept + MaxPauseBatch > Len(allPools) THEN Len(allPools)
              ELSE swept + MaxPauseBatch
  /\ UNCHANGED <<registryVars, factoryPools, allPools, deployerSet, isRegistrar>>

Next ==
  \/ RegistryNext /\ UNCHANGED factory
  \/ \E n \in Names, p \in Pools : CreatePool(n, p) \/ RegisterOtherPool(n, p)
  \/ SetUpFactory
  \/ \E ps \in SUBSET PoolSet : PausePools(ps) \/ UnpausePools(ps)
  \/ PauseNextPage

Spec == Init /\ [][Next]_vars

-----------------------------------------------------------------------------

\* The registry knows each pool of the factory, under the factory's name for it,
\* whatever pools others register: createPool enters both or neither.
FactoryMatchesRegistry ==
  \A n \in Names : factoryPools[n] # None =>
    /\ modelPools[n] = factoryPools[n] /\ poolToModel[factoryPools[n]] = n
    /\ factoryPools[n] \in PoolSet

\* Paused page by page, pools are all paused up to the end of the last page, also
\* if pools are created and others are paused in between.
SweepPauses == \A i \in 1..swept : i \in DOMAIN allPools /\ allPools[i] \in pausedPools

\* Registry and factory agree on tokens, models and pools.
RegistrySound ==
  RegistryTypeOK /\ TokensAndModelsAgree /\ PoolsHaveOneName /\ FactoryMatchesRegistry /\ SweepPauses

=============================================================================
