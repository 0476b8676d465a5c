--------------------------- MODULE ModelRegistry ---------------------------
(***************************************************************************)
(* contracts/ModelRegistry.sol: models, their tokens and their pools.      *)
(* Models have numeric ids; strings of decimal digits name them, and pools *)
(* are kept by string.  Metrics are left out.                              *)
(***************************************************************************)
EXTENDS Integers

CONSTANTS
  Ids, Names,
  ParseModelId,           \* _parseModelId: "1" and "01" name the same model
  Tokens, Pools, None,
  MaxNextId               \* bound on nextModelId

ASSUME RegistryConstants ==
  /\ Ids \subseteq Nat \ {0} /\ ParseModelId \in [Names -> Ids]
  /\ None \notin Tokens \union Pools \union Names
  /\ MaxNextId \in Nat /\ 1..(MaxNextId - 1) \subseteq Ids

VARIABLES
  registered,             \* isModelRegistered
  modelToken, activeModels,
  tokenToModel, registeredTokens,
  nextModelId,
  modelPools, poolToModel,
  modelUpdatesEnabled,
  managerTokens,          \* the TokenManager's token of each name
  consultsManager         \* is stringModelTokenManager set

models == <<registered, modelToken, activeModels, tokenToModel, registeredTokens>>
poolIndex == <<modelPools, poolToModel>>
switches == <<modelUpdatesEnabled, managerTokens, consultsManager>>
registryVars == <<models, nextModelId, poolIndex, switches>>

RegistryInit ==
  /\ registered = {} /\ activeModels = {} /\ registeredTokens = {}
  /\ modelToken = [id \in Ids |-> None]
  /\ tokenToModel = [t \in Tokens |-> 0]
  /\ nextModelId = 1
  /\ modelPools = [n \in Names |-> None] /\ poolToModel = [p \in Pools |-> None]
  /\ modelUpdatesEnabled = FALSE /\ consultsManager = FALSE
  /\ managerTokens = [n \in Names |-> None]

\* _registerModel
Register(id, t) ==
  /\ id \notin registered /\ t \notin registeredTokens
  /\ registered' = registered \union {id}
  /\ modelToken' = [modelToken EXCEPT ![id] = t]
  /\ activeModels' = activeModels \union {id}
  /\ tokenToModel' = [tokenToModel EXCEPT ![t] = id]
  /\ registeredTokens' = registeredTokens \union {t}

RegisterModel(id, t) ==
  /\ Register(id, t)
  /\ UNCHANGED <<nextModelId, poolIndex, switches>>

\* The counter moves with a registration that succeeds, and only with it.
RegisterModelAutoId(t) ==
  /\ nextModelId < MaxNextId
  /\ nextModelId' = nextModelId + 1
  /\ Register(nextModelId, t)
  /\ UNCHANGED <<poolIndex, switches>>

RegisterStringModel(n, t) ==
  /\ consultsManager => managerTokens[n] = t
  /\ Register(ParseModelId[n], t)
  /\ UNCHANGED <<nextModelId, poolIndex, switches>>

\* Mutant: the token that was replaced stays registered.
KeepsOldToken(id, t) ==
  /\ modelUpdatesEnabled
  /\ id \in registered /\ t \notin registeredTokens
  /\ modelToken' = [modelToken EXCEPT ![id] = t]
  /\ tokenToModel' = [tokenToModel EXCEPT ![t] = id]
  /\ registeredTokens' = registeredTokens \union {t}
  /\ UNCHANGED <<registered, activeModels, nextModelId, poolIndex, switches>>

\* updateModel, updateStringModel: the pools stay as they are.
UpdateModel(id, t) ==
  /\ modelUpdatesEnabled
  /\ id \in registered /\ t \notin registeredTokens
  /\ modelToken' = [modelToken EXCEPT ![id] = t]
  /\ tokenToModel' = [tokenToModel EXCEPT ![modelToken[id]] = 0, ![t] = id]
  /\ registeredTokens' = (registeredTokens \ {modelToken[id]}) \union {t}
  /\ UNCHANGED <<registered, activeModels, nextModelId, poolIndex, switches>>

\* deactivateModel, reactivateModel, and by string.
SetActive(id) ==
  /\ id \in registered
  /\ activeModels' = (activeModels \ {id}) \union ({id} \ activeModels)
  /\ UNCHANGED <<registered, modelToken, tokenToModel, registeredTokens, nextModelId,
                 poolIndex, switches>>

\* registerPool, by the owner or a registrar: the factory is one.
RegisterPool(n, p) ==
  /\ ParseModelId[n] \in registered /\ ParseModelId[n] \in activeModels
  /\ modelPools[n] = None /\ poolToModel[p] = None
  /\ modelPools' = [modelPools EXCEPT ![n] = p]
  /\ poolToModel' = [poolToModel EXCEPT ![p] = n]

\* setModelUpdatesEnabled, setStringModelTokenManager.
SetSwitches ==
  /\ \/ modelUpdatesEnabled' = ~modelUpdatesEnabled /\ UNCHANGED consultsManager
     \/ ~consultsManager /\ consultsManager' = TRUE /\ UNCHANGED modelUpdatesEnabled
  /\ UNCHANGED <<models, nextModelId, poolIndex, managerTokens>>

\* The TokenManager deploys a token for a name.
DeployToken(n, t) ==
  /\ managerTokens[n] = None /\ \A k \in Names : managerTokens[k] # t
  /\ managerTokens' = [managerTokens EXCEPT ![n] = t]
  /\ UNCHANGED <<models, nextModelId, poolIndex, modelUpdatesEnabled, consultsManager>>

RegistryNext ==
  \/ \E id \in Ids, t \in Tokens :
       \/ RegisterModel(id, t) \/ UpdateModel(id, t)
  \/ \E t \in Tokens : RegisterModelAutoId(t)
  \/ \E n \in Names, t \in Tokens : RegisterStringModel(n, t) \/ DeployToken(n, t)
  \/ \E id \in Ids : SetActive(id)
  \/ SetSwitches

-----------------------------------------------------------------------------

\* Every variable holds what the contract's types allow.
RegistryTypeOK ==
  /\ registered \subseteq Ids /\ activeModels \subseteq registered
  /\ modelToken \in [Ids -> Tokens \union {None}]
  /\ tokenToModel \in [Tokens -> Ids \union {0}]
  /\ registeredTokens \subseteq Tokens /\ nextModelId \in Nat
  /\ modelPools \in [Names -> Pools \union {None}]
  /\ poolToModel \in [Pools -> Names \union {None}]
  /\ managerTokens \in [Names -> Tokens \union {None}]
  /\ modelUpdatesEnabled \in BOOLEAN /\ consultsManager \in BOOLEAN

\* However models are registered, by number, by string or by the counter, and
\* moved to other tokens, a token serves the one model that has it.
TokensAndModelsAgree ==
  /\ \A t \in registeredTokens :
       tokenToModel[t] \in registered /\ modelToken[tokenToModel[t]] = t
  /\ \A id \in registered :
       modelToken[id] \in registeredTokens /\ tokenToModel[modelToken[id]] = id

\* A name has one pool and a pool one name.  Two strings of one number are two
\* names, so a model may have a pool for each.
PoolsHaveOneName ==
  /\ \A n \in Names : modelPools[n] # None => poolToModel[modelPools[n]] = n
  /\ \A p \in Pools : poolToModel[p] # None => modelPools[poolToModel[p]] = p

\* Once the id the counter points to is registered by hand, the reverted call
\* rolls the counter back: it never moves again.
TakenIdStopsAutoIds ==
  nextModelId \in registered => nextModelId' = nextModelId

=============================================================================
