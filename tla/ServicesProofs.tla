--------------------------- MODULE ServicesProofs ---------------------------
(***************************************************************************)
(* The registry and its factory, contribution records, a model's           *)
(* parameters, the deployment service, fee routing, the monitor, its       *)
(* accounts and the life of the services stay sound, for any models,       *)
(* names, tokens, pools, contributors, requests, polls, alerts, trades,    *)
(* invoices, fees, costs, bounds, limits, epochs and numbers of failures.  *)
(***************************************************************************)
EXTENDS MCServices, CountingTheorems, TLAPS

\* Models and tokens: which model has which token, and back.
ModelsInv ==
  /\ registered \subseteq Ids /\ activeModels \subseteq registered
  /\ modelToken \in [Ids -> Tokens \union {None}]
  /\ tokenToModel \in [Tokens -> Ids \union {0}]
  /\ registeredTokens \subseteq Tokens
  /\ TokensAndModelsAgree

\* The counter of automatic ids, what the TokenManager has deployed, the switches.
CounterInv ==
  /\ nextModelId \in Nat \ {0} /\ managerTokens \in [Names -> Tokens \union {None}]
  /\ modelUpdatesEnabled \in BOOLEAN /\ consultsManager \in BOOLEAN

\* Names and pools, in the registry and in the factory.
PoolNamesInv ==
  /\ modelPools \in [Names -> Pools \union {None}]
  /\ poolToModel \in [Pools -> Names \union {None}]
  /\ factoryPools \in [Names -> Pools \union {None}]
  /\ allPools \in Seq(Pools)
  /\ PoolsHaveOneName /\ FactoryMatchesRegistry

\* A sweep ends within the pools there are, and has paused all it has passed.
SweepInv ==
  /\ allPools \in Seq(Pools) /\ swept \in Nat /\ swept <= Len(allPools)
  /\ \A i \in Nat : 1 <= i /\ i <= swept => allPools[i] \in pausedPools

RegistryInv == ModelsInv /\ CounterInv /\ PoolNamesInv /\ SweepInv

-----------------------------------------------------------------------------
(* Models and their tokens.                                                *)

\* A new model gets a token no model has.
LEMMA Registers ==
  ASSUME ModelsInv, NEW id \in Ids, NEW t \in Tokens, Register(id, t)
  PROVE  ModelsInv'
<1> USE DEF ModelsInv
<1>1. /\ id \notin registered /\ t \notin registeredTokens
      /\ registered' = registered \union {id} /\ registeredTokens' = registeredTokens \union {t}
      /\ modelToken' = [modelToken EXCEPT ![id] = t]
      /\ tokenToModel' = [tokenToModel EXCEPT ![t] = id]
      /\ activeModels' = activeModels \union {id}
  BY DEF Register
<1>2. ASSUME NEW u \in registeredTokens'
      PROVE  tokenToModel'[u] \in registered' /\ modelToken'[tokenToModel'[u]] = u
  <2>1. CASE u = t
    BY <1>1, <2>1
  <2>2. CASE u # t
    BY <1>1, <2>2 DEF TokensAndModelsAgree
  <2> QED BY <2>1, <2>2
<1>3. ASSUME NEW i \in registered'
      PROVE  modelToken'[i] \in registeredTokens' /\ tokenToModel'[modelToken'[i]] = i
  <2>1. CASE i = id
    BY <1>1, <2>1
  <2>2. CASE i # id
    BY <1>1, <2>2 DEF TokensAndModelsAgree
  <2> QED BY <2>1, <2>2
<1> QED BY <1>1, <1>2, <1>3 DEF TokensAndModelsAgree

\* A model that is moved to another token leaves its own.
LEMMA Moves ==
  ASSUME ModelsInv, NEW id \in Ids, NEW t \in Tokens, UpdateModel(id, t)
  PROVE  ModelsInv'
<1> USE DEF ModelsInv
<1> DEFINE old == modelToken[id]
<1>1. /\ id \in registered /\ t \notin registeredTokens
      /\ registered' = registered /\ activeModels' = activeModels
      /\ registeredTokens' = (registeredTokens \ {old}) \union {t}
      /\ modelToken' = [modelToken EXCEPT ![id] = t]
      /\ tokenToModel' = [tokenToModel EXCEPT ![old] = 0, ![t] = id]
  BY DEF UpdateModel
<1>2. old \in registeredTokens /\ old \in Tokens /\ old # t /\ tokenToModel[old] = id
  BY <1>1 DEF TokensAndModelsAgree
<1> HIDE DEF old
<1>3. ASSUME NEW u \in registeredTokens'
      PROVE  tokenToModel'[u] \in registered' /\ modelToken'[tokenToModel'[u]] = u
  <2>1. CASE u = t
    BY <1>1, <1>2, <2>1
  <2>2. CASE u # t
    <3>1. u \in registeredTokens /\ u # old
      BY <1>1, <2>2
    <3>2. tokenToModel[u] \in registered /\ modelToken[tokenToModel[u]] = u
      BY <3>1 DEF TokensAndModelsAgree
    <3>3. tokenToModel'[u] = tokenToModel[u]
      BY <1>1, <1>2, <2>2, <3>1
    <3>4. tokenToModel[u] # id
      BY <3>1, <3>2 DEF old
    <3> QED BY <1>1, <3>2, <3>3, <3>4
  <2> QED BY <2>1, <2>2
<1>4. ASSUME NEW i \in registered'
      PROVE  modelToken'[i] \in registeredTokens' /\ tokenToModel'[modelToken'[i]] = i
  <2>1. CASE i = id
    BY <1>1, <1>2, <2>1
  <2>2. CASE i # id
    <3>1. modelToken[i] \in registeredTokens /\ tokenToModel[modelToken[i]] = i
      BY <1>1 DEF TokensAndModelsAgree
    <3>2. modelToken'[i] = modelToken[i] /\ modelToken[i] # old /\ modelToken[i] # t
      BY <1>1, <1>2, <2>2, <3>1
    <3>3. tokenToModel'[modelToken[i]] = tokenToModel[modelToken[i]]
      BY <1>1, <1>2, <3>1, <3>2
    <3> QED BY <1>1, <3>1, <3>2, <3>3
  <2> QED BY <2>1, <2>2
<1> QED BY <1>1, <1>2, <1>3, <1>4 DEF TokensAndModelsAgree

\* Every function of the registry but registerPool.
LEMMA RegistryStep ==
  ASSUME ModelsInv, CounterInv, RegistryNext
  PROVE  ModelsInv' /\ CounterInv' /\ UNCHANGED poolIndex
<1>1. ASSUME NEW id \in Ids, NEW t \in Tokens, RegisterModel(id, t) PROVE ModelsInv' /\ CounterInv'
  BY <1>1, Registers DEF RegisterModel, CounterInv, switches
<1>2. ASSUME NEW id \in Ids, NEW t \in Tokens, UpdateModel(id, t) PROVE ModelsInv' /\ CounterInv'
  <2>1. UNCHANGED <<nextModelId, switches>>
    BY <1>2 DEF UpdateModel
  <2> QED BY <1>2, <2>1, Moves DEF CounterInv, switches
<1>3. ASSUME NEW t \in Tokens, RegisterModelAutoId(t) PROVE ModelsInv' /\ CounterInv'
  <2>1. nextModelId < MaxNextId /\ nextModelId' = nextModelId + 1 /\ Register(nextModelId, t)
        /\ UNCHANGED switches
    BY <1>3 DEF RegisterModelAutoId
  <2>2. PICK n \in Nat \ {0} : n = nextModelId
    BY DEF CounterInv
  <2>3. n \in Ids
    BY <2>1, <2>2, RegistryConstants DEF RegistryConstants
  <2>4. ModelsInv'
    BY <2>1, <2>2, <2>3, Registers
  <2>5. nextModelId' \in Nat \ {0}
    BY <2>1, <2>2
  <2> QED BY <2>1, <2>4, <2>5 DEF CounterInv, switches
<1>4. ASSUME NEW n \in Names, NEW t \in Tokens, RegisterStringModel(n, t)
      PROVE  ModelsInv' /\ CounterInv'
  <2>1. ParseModelId[n] \in Ids
    BY RegistryConstants DEF RegistryConstants
  <2> QED BY <1>4, <2>1, Registers DEF RegisterStringModel, CounterInv, switches
<1>5. ASSUME NEW n \in Names, NEW t \in Tokens, DeployToken(n, t) PROVE ModelsInv' /\ CounterInv'
  <2>1. UNCHANGED models /\ CounterInv'
    BY <1>5 DEF DeployToken, CounterInv
  <2> QED BY <2>1 DEF ModelsInv, models, TokensAndModelsAgree
<1>6. ASSUME NEW id \in Ids, SetActive(id) PROVE ModelsInv' /\ CounterInv'
  BY <1>6 DEF SetActive, ModelsInv, CounterInv, TokensAndModelsAgree, switches
<1>7. CASE SetSwitches
  <2>1. UNCHANGED models /\ CounterInv'
    BY <1>7 DEF SetSwitches, CounterInv
  <2> QED BY <1>7, <2>1 DEF ModelsInv, models, TokensAndModelsAgree, SetSwitches
<1>8. UNCHANGED poolIndex
  BY DEF RegistryNext, RegisterModel, UpdateModel, RegisterModelAutoId, RegisterStringModel,
         DeployToken, SetActive, SetSwitches
<1> QED BY <1>1, <1>2, <1>3, <1>4, <1>5, <1>6, <1>7, <1>8 DEF RegistryNext

-----------------------------------------------------------------------------
(* Pools.                                                                  *)

\* A pool is entered under a name that has none.
LEMMA Enters ==
  ASSUME PoolNamesInv, NEW n \in Names, NEW p \in Pools, RegisterPool(n, p)
  PROVE  /\ modelPools' \in [Names -> Pools \union {None}]
         /\ poolToModel' \in [Pools -> Names \union {None}]
         /\ PoolsHaveOneName'
<1>1. /\ modelPools[n] = None /\ poolToModel[p] = None
      /\ modelPools' = [modelPools EXCEPT ![n] = p] /\ poolToModel' = [poolToModel EXCEPT ![p] = n]
  BY DEF RegisterPool
<1>2. /\ modelPools \in [Names -> Pools \union {None}]
      /\ poolToModel \in [Pools -> Names \union {None}] /\ PoolsHaveOneName
      /\ None \notin Pools /\ None \notin Names
  BY RegistryConstants DEF PoolNamesInv, RegistryConstants
<1>3. ASSUME NEW k \in Names, modelPools'[k] # None PROVE poolToModel'[modelPools'[k]] = k
  <2>1. CASE k = n
    BY <1>1, <1>2, <2>1
  <2>2. CASE k # n
    <3>1. modelPools'[k] = modelPools[k] /\ modelPools[k] \in Pools /\ poolToModel[modelPools[k]] = k
      BY <1>1, <1>2, <1>3, <2>2 DEF PoolsHaveOneName
    <3>2. modelPools[k] # p
      BY <1>1, <1>2, <3>1
    <3> QED BY <1>1, <1>2, <3>1, <3>2
  <2> QED BY <2>1, <2>2
<1>4. ASSUME NEW q \in Pools, poolToModel'[q] # None PROVE modelPools'[poolToModel'[q]] = q
  <2>1. CASE q = p
    BY <1>1, <1>2, <2>1
  <2>2. CASE q # p
    <3>1. poolToModel'[q] = poolToModel[q] /\ poolToModel[q] \in Names /\ modelPools[poolToModel[q]] = q
      BY <1>1, <1>2, <1>4, <2>2 DEF PoolsHaveOneName
    <3>2. poolToModel[q] # n
      BY <1>1, <1>2, <3>1
    <3> QED BY <1>1, <1>2, <3>1, <3>2
  <2> QED BY <2>1, <2>2
<1> QED BY <1>1, <1>2, <1>3, <1>4 DEF PoolsHaveOneName

\* The pools that others have entered are not the factory's.
LEMMA MatchStays ==
  ASSUME PoolNamesInv, NEW n \in Names, NEW p \in Pools, RegisterPool(n, p),
         NEW k \in Names, factoryPools[k] # None
  PROVE  /\ modelPools'[k] = factoryPools[k] /\ poolToModel'[factoryPools[k]] = k
<1>1. /\ modelPools[n] = None /\ poolToModel[p] = None
      /\ modelPools' = [modelPools EXCEPT ![n] = p] /\ poolToModel' = [poolToModel EXCEPT ![p] = n]
  BY DEF RegisterPool
<1>2. /\ modelPools \in [Names -> Pools \union {None}]
      /\ poolToModel \in [Pools -> Names \union {None}]
      /\ factoryPools[k] \in Pools /\ None \notin Names
  BY RegistryConstants DEF PoolNamesInv, RegistryConstants
<1>3. modelPools[k] = factoryPools[k] /\ poolToModel[factoryPools[k]] = k
  BY DEF PoolNamesInv, FactoryMatchesRegistry
<1> QED BY <1>1, <1>2, <1>3

\* A pool that is appended is one of the pools, and the others stay.
LEMMA Appended ==
  ASSUME NEW S, NEW q \in Seq(S), NEW p \in S, NEW r, r = Append(q, p)
  PROVE  /\ r \in Seq(S) /\ Len(r) = Len(q) + 1 /\ r[Len(r)] = p
         /\ \A i \in DOMAIN q : i \in DOMAIN r /\ r[i] = q[i]
  OBVIOUS

\* createPool enters the pool in both or in neither.
LEMMA Creates ==
  ASSUME RegistryInv, NEW n \in Names, NEW p \in Pools, CreatePool(n, p)
  PROVE  PoolNamesInv' /\ SweepInv'
<1>1. /\ RegisterPool(n, p) /\ factoryPools' = [factoryPools EXCEPT ![n] = p]
      /\ allPools' = Append(allPools, p) /\ UNCHANGED <<pausedPools, swept>>
  BY DEF CreatePool
<1>2. PoolNamesInv /\ SweepInv
  BY DEF RegistryInv
<1>3. PICK q \in Seq(Pools) : q = allPools
  BY <1>2 DEF SweepInv
<1>4. /\ allPools' \in Seq(Pools) /\ Len(allPools') = Len(q) + 1 /\ allPools'[Len(allPools')] = p
      /\ \A i \in DOMAIN q : i \in DOMAIN allPools' /\ allPools'[i] = q[i]
  BY <1>1, <1>3, Appended
<1>5. ASSUME NEW k \in Names, factoryPools'[k] # None
      PROVE  /\ modelPools'[k] = factoryPools'[k] /\ poolToModel'[factoryPools'[k]] = k
             /\ factoryPools'[k] \in PoolSet'
  <2>1. CASE k = n
    <3>1. factoryPools'[k] = p
      BY <1>1, <1>2, <2>1 DEF PoolNamesInv
    <3>2. modelPools'[k] = p /\ poolToModel'[p] = k
      BY <1>1, <1>2, <2>1 DEF PoolNamesInv, RegisterPool
    <3>3. p \in PoolSet'
      <4>1. Len(allPools') \in DOMAIN allPools'
        BY <1>3, <1>4
      <4> QED BY <1>4, <4>1 DEF PoolSet
    <3> QED BY <3>1, <3>2, <3>3
  <2>2. CASE k # n
    <3>1. factoryPools'[k] = factoryPools[k]
      BY <1>1, <1>2, <2>2 DEF PoolNamesInv
    <3>2. factoryPools[k] \in PoolSet /\ factoryPools[k] # None
      BY <1>2, <1>5, <3>1 DEF PoolNamesInv, FactoryMatchesRegistry
    <3>3. factoryPools[k] \in PoolSet'
      BY <1>3, <1>4, <3>2 DEF PoolSet
    <3> QED BY <1>1, <1>2, <3>1, <3>2, <3>3, MatchStays
  <2> QED BY <2>1, <2>2
<1>6. PoolNamesInv'
  <2>1. factoryPools' \in [Names -> Pools \union {None}]
    BY <1>1, <1>2 DEF PoolNamesInv
  <2>2. FactoryMatchesRegistry'
    BY <1>5 DEF FactoryMatchesRegistry
  <2> QED BY <1>1, <1>2, <1>4, <2>1, <2>2, Enters DEF PoolNamesInv
<1>7. SweepInv'
  <2>1. PICK s \in Nat : /\ s = swept /\ s <= Len(q)
                         /\ \A i \in Nat : 1 <= i /\ i <= s => q[i] \in pausedPools
    BY <1>2, <1>3 DEF SweepInv
  <2>2. ASSUME NEW i \in Nat, 1 <= i, i <= s PROVE allPools'[i] \in pausedPools
    <3>1. i \in DOMAIN q /\ q[i] \in pausedPools
      BY <1>3, <2>1, <2>2
    <3> QED BY <1>4, <3>1
  <2>3. s <= Len(allPools')
    BY <1>3, <1>4, <2>1
  <2> QED BY <1>1, <1>4, <2>1, <2>2, <2>3 DEF SweepInv
<1> QED BY <1>6, <1>7

\* Another registrar's pool.
LEMMA OthersEnter ==
  ASSUME RegistryInv, NEW n \in Names, NEW p \in Pools, RegisterOtherPool(n, p)
  PROVE  PoolNamesInv' /\ SweepInv'
<1>1. RegisterPool(n, p) /\ UNCHANGED factory /\ PoolNamesInv /\ SweepInv
  BY DEF RegisterOtherPool, RegistryInv
<1>2. FactoryMatchesRegistry'
  <2> SUFFICES ASSUME NEW k \in Names, factoryPools'[k] # None
               PROVE  /\ modelPools'[k] = factoryPools'[k] /\ poolToModel'[factoryPools'[k]] = k
                      /\ factoryPools'[k] \in PoolSet'
    BY DEF FactoryMatchesRegistry
  <2>1. factoryPools' = factoryPools /\ allPools' = allPools
    BY <1>1 DEF factory
  <2>2. factoryPools[k] \in PoolSet'
    BY <1>1, <2>1 DEF PoolNamesInv, FactoryMatchesRegistry, PoolSet
  <2> QED BY <1>1, <2>1, <2>2, MatchStays
<1>3. PoolNamesInv'
  BY <1>1, <1>2, Enters DEF PoolNamesInv, factory
<1>4. SweepInv'
  BY <1>1 DEF SweepInv, factory
<1> QED BY <1>3, <1>4

\* Pausing and unpausing change no pool.
LEMMA PoolsStay ==
  ASSUME PoolNamesInv, UNCHANGED <<poolIndex, factoryPools, allPools>>
  PROVE  PoolNamesInv'
BY DEF PoolNamesInv, poolIndex, PoolsHaveOneName, FactoryMatchesRegistry, PoolSet

\* Models and the counter are not the factory's.
LEMMA ModelsStay ==
  ASSUME ModelsInv, CounterInv, UNCHANGED <<models, nextModelId, switches>>
  PROVE  ModelsInv' /\ CounterInv'
BY DEF ModelsInv, CounterInv, models, switches, TokensAndModelsAgree

\* The next page is paused; where it ends the sweep goes on.
LEMMA Sweeps ==
  ASSUME SweepInv, PauseNextPage
  PROVE  SweepInv'
<1>1. PICK q \in Seq(Pools), s \in Nat :
        /\ q = allPools /\ s = swept /\ s <= Len(q)
        /\ \A i \in Nat : 1 <= i /\ i <= s => q[i] \in pausedPools
  BY DEF SweepInv
<1> DEFINE end == IF s + MaxPauseBatch > Len(q) THEN Len(q) ELSE s + MaxPauseBatch
<1>2. end \in Nat /\ end <= Len(q)
  BY <1>1, FactoryConstants DEF FactoryConstants
<1>3. /\ pausedPools' = pausedPools \union {q[i] : i \in s + 1 .. end}
      /\ swept' = end /\ allPools' = q
  BY <1>1 DEF PauseNextPage, Page
<1> HIDE DEF end
<1>4. ASSUME NEW i \in Nat, 1 <= i, i <= end PROVE q[i] \in pausedPools'
  <2>1. CASE i <= s
    BY <1>1, <1>3, <1>4, <2>1
  <2>2. CASE ~(i <= s)
    <3>1. i \in s + 1 .. end
      BY <1>1, <1>2, <1>4, <2>2
    <3> QED BY <1>3, <3>1
  <2> QED BY <2>1, <2>2
<1> QED BY <1>1, <1>2, <1>3, <1>4 DEF SweepInv

\* What the factory does without a new pool.
LEMMA PausesStep ==
  ASSUME SweepInv,
         \/ SetUpFactory
         \/ \E ps \in SUBSET PoolSet : PausePools(ps) \/ UnpausePools(ps)
         \/ PauseNextPage
  PROVE  SweepInv' /\ UNCHANGED <<registryVars, factoryPools, allPools>>
<1>1. CASE SetUpFactory
  BY <1>1 DEF SetUpFactory, SweepInv
<1>2. ASSUME NEW ps \in SUBSET PoolSet, PausePools(ps)
      PROVE  SweepInv' /\ UNCHANGED <<registryVars, factoryPools, allPools>>
  BY <1>2 DEF PausePools, SweepInv
<1>3. ASSUME NEW ps \in SUBSET PoolSet, UnpausePools(ps)
      PROVE  SweepInv' /\ UNCHANGED <<registryVars, factoryPools, allPools>>
  <2>1. /\ swept' = 0 /\ UNCHANGED <<registryVars, factoryPools, allPools>>
    BY <1>3 DEF UnpausePools
  <2>2. \A i \in Nat : ~(1 <= i /\ i <= 0)
    OBVIOUS
  <2> QED BY <2>1, <2>2 DEF SweepInv
<1>4. CASE PauseNextPage
  BY <1>4, Sweeps DEF PauseNextPage
<1> QED BY <1>1, <1>2, <1>3, <1>4

-----------------------------------------------------------------------------
(* The registry and the factory.                                           *)

\* At first there is no model and no pool.
LEMMA RegistryStart == Init => RegistryInv
<1> SUFFICES ASSUME Init PROVE RegistryInv
  OBVIOUS
<1> USE DEF Init, RegistryInit
<1>1. ModelsInv
  BY DEF ModelsInv, TokensAndModelsAgree
<1>2. CounterInv
  <2>1. nextModelId \in Nat \ {0} /\ managerTokens \in [Names -> Tokens \union {None}]
    OBVIOUS
  <2>2. modelUpdatesEnabled \in BOOLEAN /\ consultsManager \in BOOLEAN
    BY Zenon
  <2> QED BY <2>1, <2>2 DEF CounterInv
<1>3. PoolNamesInv
  BY DEF PoolNamesInv, PoolsHaveOneName, FactoryMatchesRegistry
<1>4. SweepInv
  BY DEF SweepInv
<1> QED BY <1>1, <1>2, <1>3, <1>4 DEF RegistryInv

\* Every transaction keeps the invariant.
LEMMA RegistryKeeps == RegistryInv /\ [Next]_vars => RegistryInv'
<1> SUFFICES ASSUME RegistryInv, [Next]_vars PROVE RegistryInv'
  OBVIOUS
<1>1. ModelsInv /\ CounterInv /\ PoolNamesInv /\ SweepInv
  BY DEF RegistryInv
<1>2. CASE RegistryNext /\ UNCHANGED factory
  <2>1. ModelsInv' /\ CounterInv' /\ UNCHANGED poolIndex
    BY <1>1, <1>2, RegistryStep
  <2>2. UNCHANGED <<factoryPools, allPools, pausedPools, swept>>
    BY <1>2 DEF factory
  <2>3. PoolNamesInv'
    BY <1>1, <2>1, <2>2, PoolsStay
  <2>4. SweepInv'
    BY <1>1, <2>2 DEF SweepInv
  <2> QED BY <2>1, <2>3, <2>4 DEF RegistryInv
<1>3. ASSUME NEW n \in Names, NEW p \in Pools, CreatePool(n, p) \/ RegisterOtherPool(n, p)
      PROVE  RegistryInv'
  <2>1. PoolNamesInv' /\ SweepInv'
    BY <1>3, Creates, OthersEnter
  <2>2. UNCHANGED <<models, nextModelId, switches>>
    BY <1>3 DEF CreatePool, RegisterOtherPool
  <2>3. ModelsInv' /\ CounterInv'
    BY <1>1, <2>2, ModelsStay
  <2> QED BY <2>1, <2>3 DEF RegistryInv
<1>4. CASE \/ SetUpFactory
           \/ \E ps \in SUBSET PoolSet : PausePools(ps) \/ UnpausePools(ps)
           \/ PauseNextPage
  <2>1. SweepInv' /\ UNCHANGED <<registryVars, factoryPools, allPools>>
    BY <1>1, <1>4, PausesStep
  <2>2. PoolNamesInv'
    BY <1>1, <2>1, PoolsStay DEF registryVars
  <2>3. ModelsInv' /\ CounterInv'
    BY <1>1, <2>1, ModelsStay DEF registryVars
  <2> QED BY <2>1, <2>2, <2>3 DEF RegistryInv
<1>5. CASE UNCHANGED vars
  <2>1. UNCHANGED registryVars /\ UNCHANGED factory
    BY <1>5 DEF vars
  <2>2. PoolNamesInv' /\ SweepInv'
    BY <1>1, <2>1, PoolsStay DEF registryVars, factory, SweepInv
  <2>3. ModelsInv' /\ CounterInv'
    BY <1>1, <2>1, ModelsStay DEF registryVars
  <2> QED BY <2>2, <2>3 DEF RegistryInv
<1> QED BY <1>2, <1>3, <1>4, <1>5 DEF Next

\* Registry and factory, as an invariant of the specification.
THEOREM RegistryInvariant == Spec => []RegistryInv
<1> QED BY RegistryStart, RegistryKeeps, PTL DEF Spec

\* What the registry's and the factory's invariant says.
LEMMA RegistryGives == RegistryInv => RegistrySound
<1> SUFFICES ASSUME RegistryInv PROVE RegistrySound
  OBVIOUS
<1>1. ModelsInv /\ CounterInv /\ PoolNamesInv /\ SweepInv
  BY DEF RegistryInv
<1>2. RegistryTypeOK
  BY <1>1 DEF RegistryTypeOK, ModelsInv, CounterInv, PoolNamesInv
<1>3. SweepPauses
  <2> SUFFICES ASSUME NEW i \in 1..swept PROVE i \in DOMAIN allPools /\ allPools[i] \in pausedPools
    BY DEF SweepPauses
  <2> QED BY <1>1 DEF SweepInv
<1> QED BY <1>1, <1>2, <1>3 DEF RegistrySound, ModelsInv, PoolNamesInv

\* However models are registered, moved to other tokens and given pools, by the
\* factory or by others: tokens and models, names and pools agree in both
\* directions, the registry knows each pool of the factory, and what a sweep has
\* passed is paused.
THEOREM RegistryAlwaysSound == Spec => []RegistrySound
BY RegistryGives, RegistryInvariant, PTL

LEMMA TakenIdStops == Next => TakenIdStopsAutoIds
<1> SUFFICES ASSUME Next, nextModelId \in registered PROVE nextModelId' = nextModelId
  BY DEF TakenIdStopsAutoIds
<1>1. CASE RegistryNext
  <2>1. ASSUME NEW t \in Tokens, RegisterModelAutoId(t) PROVE FALSE
    BY <2>1 DEF RegisterModelAutoId, Register
  <2> QED BY <1>1, <2>1 DEF RegistryNext, RegisterModel, UpdateModel, RegisterStringModel,
    DeployToken, SetActive, SetSwitches
<1>2. CASE UNCHANGED nextModelId
  BY <1>2
<1> QED BY <1>1, <1>2 DEF Next, CreatePool, RegisterOtherPool, SetUpFactory, PausePools,
  UnpausePools, PauseNextPage, registryVars

\* Once the id the counter points to is taken, automatic registration stays stuck.
THEOREM TakenIdAlwaysStopsAutoIds == Spec => [][TakenIdStopsAutoIds]_vars
<1> QED BY TakenIdStops, PTL DEF Spec

-----------------------------------------------------------------------------
(* A model's parameters.                                                   *)

RateInBounds(r) == r \in Nat /\ MinRate <= r /\ r <= MaxRate
AccrualInBounds(a) == a \in Nat /\ MinBps <= a /\ a <= MaxBps

\* What is set, queued and applied stays in bounds; a rate that stands has nothing
\* queued behind it; the epoch started no earlier than values were last applied.
ParamsInv ==
  /\ RateInBounds(rate) /\ AccrualInBounds(accrual)
  /\ initialized => RateInBounds(modelRate) /\ AccrualInBounds(modelAccrual)
  /\ pendingRate = 0 \/ RateInBounds(pendingRate)
  /\ pendingAccrual = 0 \/ AccrualInBounds(pendingAccrual)
  /\ paramClock \in Nat \ {0} /\ epochStart \in Nat /\ lastApplied \in Nat
  /\ epochStart <= paramClock /\ lastApplied <= epochStart
  /\ lastApplied # 0 => initialized
  /\ standing # 0 => initialized /\ modelRate = standing /\ pendingRate = 0

\* A value that passes the check is in bounds, as tokens or in wei.
LEMMA Checked ==
  ASSUME NEW value \in Values
  PROVE  /\ RateOK(value) => RateInBounds(Normalized(value))
         /\ AccrualOK(value) => AccrualInBounds(value)
<1>1. value \in Nat /\ TokenUnit \in Nat
  BY ParamsConstants DEF ParamsConstants
<1>2. Normalized(value) \in Nat
  BY <1>1 DEF Normalized
<1> QED BY <1>1, <1>2 DEF RateOK, AccrualOK, RateInBounds, AccrualInBounds

\* A model's values of now are in bounds, its own or the contract's.
LEMMA CurrentInBounds ==
  ASSUME ParamsInv
  PROVE  RateInBounds(currentRate) /\ AccrualInBounds(currentAccrual)
BY DEF ParamsInv, currentRate, currentAccrual

\* What a model starts with, or gets in an emergency.
LEMMA Initializes ==
  ASSUME ParamsInv, NEW r, NEW a, RateInBounds(r), AccrualInBounds(a),
         InitializeModelIfNeeded(r, a), UNCHANGED <<paramClock, lastApplied>>
  PROVE  /\ initialized' = TRUE /\ modelRate' = r /\ modelAccrual' = a
         /\ epochStart' \in Nat /\ epochStart' <= paramClock' /\ lastApplied' <= epochStart'
         /\ paramClock' \in Nat \ {0} /\ lastApplied' \in Nat
<1>1. /\ paramClock \in Nat \ {0} /\ epochStart \in Nat /\ lastApplied \in Nat
      /\ epochStart <= paramClock /\ lastApplied <= epochStart
  BY DEF ParamsInv
<1>2. CASE initialized
  BY <1>1, <1>2 DEF InitializeModelIfNeeded
<1>3. CASE ~initialized
  BY <1>1, <1>3 DEF InitializeModelIfNeeded
<1> QED BY <1>2, <1>3

\* Every call keeps the invariant, and applies queued values once in an epoch.
LEMMA ParamsKeep ==
  ASSUME ParamsInv, [ParamsNext]_paramsVars
  PROVE  ParamsInv' /\ QueuedValuesKeepEpochs
<1>1. ASSUME NEW value \in Values, SetParam(value) PROVE ParamsInv' /\ QueuedValuesKeepEpochs
  BY <1>1, Checked DEF SetParam, ParamsInv, QueuedValuesKeepEpochs, perModel, history
<1>2. ASSUME NEW value \in Values, QueueParamUpdate(value)
      PROVE  ParamsInv' /\ QueuedValuesKeepEpochs
  <2>1. /\ initialized' = TRUE /\ modelRate' = currentRate /\ modelAccrual' = currentAccrual
        /\ epochStart' \in Nat /\ epochStart' <= paramClock' /\ lastApplied' <= epochStart'
        /\ paramClock' \in Nat \ {0} /\ lastApplied' \in Nat
    BY <1>2, CurrentInBounds, Initializes DEF QueueParamUpdate
  <2>2. /\ UNCHANGED <<rate, accrual, lastApplied>>
        /\ \/ /\ RateOK(value) /\ pendingRate' = Normalized(value) /\ standing' = 0
              /\ UNCHANGED pendingAccrual
           \/ AccrualOK(value) /\ pendingAccrual' = value /\ UNCHANGED <<pendingRate, standing>>
    BY <1>2 DEF QueueParamUpdate
  <2>3. standing' # 0 => modelRate' = standing' /\ pendingRate' = 0
    BY <2>1, <2>2 DEF ParamsInv, currentRate
  <2>4. /\ pendingRate' = 0 \/ RateInBounds(pendingRate')
        /\ pendingAccrual' = 0 \/ AccrualInBounds(pendingAccrual')
    BY <2>2, Checked DEF ParamsInv
  <2>5. /\ RateInBounds(rate') /\ AccrualInBounds(accrual')
        /\ RateInBounds(modelRate') /\ AccrualInBounds(modelAccrual')
    BY <2>1, <2>2, CurrentInBounds DEF ParamsInv
  <2> QED BY <2>1, <2>2, <2>3, <2>4, <2>5 DEF ParamsInv, QueuedValuesKeepEpochs
<1>3. ASSUME NEW value \in Values, EmergencySetParam(value)
      PROVE  ParamsInv' /\ QueuedValuesKeepEpochs
  <2>1. UNCHANGED <<paramClock, rate, accrual, lastApplied>>
    BY <1>3 DEF EmergencySetParam
  <2>2. CASE /\ RateOK(value) /\ InitializeModelIfNeeded(Normalized(value), currentAccrual)
             /\ pendingRate' = 0 /\ standing' = Normalized(value) /\ UNCHANGED pendingAccrual
    <3>1. RateInBounds(Normalized(value)) /\ AccrualInBounds(currentAccrual)
      BY <2>2, Checked, CurrentInBounds
    <3>2. /\ initialized' = TRUE /\ modelRate' = Normalized(value) /\ modelAccrual' = currentAccrual
          /\ epochStart' \in Nat /\ epochStart' <= paramClock' /\ lastApplied' <= epochStart'
          /\ paramClock' \in Nat \ {0} /\ lastApplied' \in Nat
      BY <2>1, <2>2, <3>1, Initializes
    <3> QED BY <2>1, <2>2, <3>1, <3>2 DEF ParamsInv, QueuedValuesKeepEpochs
  <2>3. CASE /\ AccrualOK(value) /\ InitializeModelIfNeeded(currentRate, value)
             /\ pendingAccrual' = 0 /\ UNCHANGED <<pendingRate, standing>>
    <3>1. RateInBounds(currentRate) /\ AccrualInBounds(value)
      BY <2>3, Checked, CurrentInBounds
    <3>2. /\ initialized' = TRUE /\ modelRate' = currentRate /\ modelAccrual' = value
          /\ epochStart' \in Nat /\ epochStart' <= paramClock' /\ lastApplied' <= epochStart'
          /\ paramClock' \in Nat \ {0} /\ lastApplied' \in Nat
      BY <2>1, <2>3, <3>1, Initializes
    <3>3. standing' # 0 => modelRate' = standing' /\ pendingRate' = 0
      BY <2>3, <3>2 DEF ParamsInv, currentRate
    <3> QED BY <2>1, <2>3, <3>1, <3>2, <3>3 DEF ParamsInv, QueuedValuesKeepEpochs
  <2> QED BY <1>3, <2>2, <2>3 DEF EmergencySetParam
<1>4. CASE ApplyPendingUpdates
  <2>1. /\ initialized /\ paramClock >= epochStart + PriceEpoch
        /\ modelRate' = IF pendingRate # 0 THEN pendingRate ELSE modelRate
        /\ modelAccrual' = IF pendingAccrual # 0 THEN pendingAccrual ELSE modelAccrual
        /\ pendingRate' = 0 /\ pendingAccrual' = 0
        /\ epochStart' = paramClock /\ (lastApplied' = paramClock \/ lastApplied' = lastApplied)
        /\ UNCHANGED <<paramClock, rate, accrual, initialized, standing>>
    BY <1>4 DEF ApplyPendingUpdates
  <2>2. RateInBounds(modelRate') /\ AccrualInBounds(modelAccrual')
    BY <2>1 DEF ParamsInv
  <2>3. standing' # 0 => initialized' /\ modelRate' = standing' /\ pendingRate' = 0
    BY <2>1 DEF ParamsInv
  <2>4. /\ paramClock \in Nat \ {0} /\ epochStart \in Nat /\ lastApplied \in Nat
        /\ epochStart <= paramClock /\ lastApplied <= epochStart /\ PriceEpoch \in Nat
    BY ParamsConstants DEF ParamsInv, ParamsConstants
  <2>5. /\ epochStart' \in Nat /\ lastApplied' \in Nat /\ lastApplied' <= epochStart'
        /\ epochStart' <= paramClock' /\ paramClock' \in Nat \ {0}
    BY <2>1, <2>4
  <2>6. QueuedValuesKeepEpochs
    BY <2>1, <2>4 DEF QueuedValuesKeepEpochs
  <2> QED BY <2>1, <2>2, <2>3, <2>5, <2>6 DEF ParamsInv
<1>5. CASE CancelPendingUpdate
  BY <1>5 DEF CancelPendingUpdate, ParamsInv, QueuedValuesKeepEpochs, perModel, history
<1>6. CASE ParamsTick
  BY <1>6 DEF ParamsTick, ParamsInv, QueuedValuesKeepEpochs, perModel, history
<1>7. CASE UNCHANGED paramsVars
  BY <1>7 DEF paramsVars, ParamsInv, QueuedValuesKeepEpochs, perModel, history
<1> QED BY <1>1, <1>2, <1>3, <1>4, <1>5, <1>6, <1>7 DEF ParamsNext

\* At first the contract has the lowest values, and the model none.
LEMMA ParamsStart == ParamsInit => ParamsInv
BY ParamsConstants DEF ParamsConstants, ParamsInit, ParamsInv, RateInBounds, AccrualInBounds

\* The parameters' invariant.
THEOREM ParamsInvariant == ParamsSpec => []ParamsInv
<1>1. ParamsInv /\ [ParamsNext]_paramsVars => ParamsInv'
  BY ParamsKeep
<1> QED BY <1>1, ParamsStart, PTL DEF ParamsSpec

\* What the parameters' invariant says.
LEMMA ParamsGive == ParamsInv => ParamsSound
<1> SUFFICES ASSUME ParamsInv PROVE ParamsSound
  OBVIOUS
<1>1. \A r : RateInBounds(r) => r \in MinRate..MaxRate
  BY ParamsConstants DEF ParamsConstants, RateInBounds
<1>2. \A a : AccrualInBounds(a) => a \in MinBps..MaxBps
  BY ParamsConstants DEF ParamsConstants, AccrualInBounds
<1>3. ParamsInBounds
  BY <1>1, <1>2, CurrentInBounds DEF ParamsInv, ParamsInBounds
<1>4. EmergencyRateStands
  BY DEF ParamsInv, EmergencyRateStands
<1> QED BY <1>3, <1>4 DEF ParamsSound

\* Whatever governance sets, queues, cancels and overrides in an emergency, and
\* whoever applies it: what can be read is in bounds, and an emergency rate stands
\* until another is queued.
THEOREM ParamsAlwaysSound == ParamsSpec => []ParamsSound
BY ParamsGive, ParamsInvariant, PTL

\* No two times at which queued values were applied are closer than an epoch.
THEOREM QueuedValuesAlwaysKeepEpochs == ParamsSpec => [][QueuedValuesKeepEpochs]_paramsVars
<1>1. ParamsInv /\ [ParamsNext]_paramsVars => [QueuedValuesKeepEpochs]_paramsVars
  BY ParamsKeep
<1> QED BY <1>1, ParamsInvariant, PTL DEF ParamsSpec

-----------------------------------------------------------------------------
(* Contribution records.                                                   *)

RecordSet ==
  [model : RecordModels, contributor : Contributors, hash : Hashes, earned : Nat,
   status : {"Pending", "Verified", "Rejected", "Claimed"}]

\* One record, or two.
IsBatch(records) == records \in Seq(RecordSet) /\ (Len(records) = 1 \/ Len(records) = 2)

\* Records, and what leads to them.
RecordTypes ==
  /\ contributions \in Seq(RecordSet)
  /\ modelContributions \in [RecordModels -> Seq(Nat)]
  /\ contributorRecords \in [Contributors -> Seq(Nat)]
  /\ hashToContribution \in [Hashes -> Nat]
  /\ contributorTotalTokens \in [RecordModels -> [Contributors -> Nat]]
  /\ contributorGlobalTokens \in [Contributors -> Nat]

RecordsInv == RecordTypes /\ RecordsSound

\* The records of a batch after those there are.
LEMMA Joined ==
  ASSUME NEW s \in Seq(RecordSet), NEW r \in Seq(RecordSet)
  PROVE  /\ s \o r \in Seq(RecordSet) /\ Len(s) \in Nat
         /\ DOMAIN (s \o r) = DOMAIN s \union {Len(s) + i : i \in DOMAIN r}
         /\ \A i \in DOMAIN s : i \in Nat /\ 1 <= i /\ i <= Len(s) /\ (s \o r)[i] = s[i]
         /\ \A i \in DOMAIN r : i \in Nat /\ 1 <= i /\ (s \o r)[Len(s) + i] = r[i]
<1> DEFINE t == s \o r
<1>1. /\ t \in Seq(RecordSet) /\ Len(t) = Len(s) + Len(r) /\ Len(s) \in Nat /\ Len(r) \in Nat
      /\ DOMAIN s = 1..Len(s) /\ DOMAIN r = 1..Len(r) /\ DOMAIN t = 1..Len(t)
  OBVIOUS
<1>2. /\ \A i \in 1..Len(s) : t[i] = s[i]
      /\ \A i \in 1..Len(r) : t[Len(s) + i] = r[i]
  OBVIOUS
<1> HIDE DEF t
<1>3. ASSUME NEW j \in 1..Len(t) PROVE j \in 1..Len(s) \/ \E i \in 1..Len(r) : j = Len(s) + i
  <2>1. CASE j <= Len(s)
    BY <1>1, <2>1
  <2>2. CASE j > Len(s)
    <3>1. j - Len(s) \in 1..Len(r) /\ j = Len(s) + (j - Len(s))
      BY <1>1, <2>2
    <3> QED BY <3>1
  <2> QED BY <1>1, <2>1, <2>2
<1>4. DOMAIN t = DOMAIN s \union {Len(s) + i : i \in DOMAIN r}
  <2>1. (\A j \in 1..Len(s) : j \in 1..Len(t)) /\ \A i \in 1..Len(r) : Len(s) + i \in 1..Len(t)
    BY <1>1
  <2>2. 1..Len(t) = (1..Len(s)) \union {Len(s) + i : i \in 1..Len(r)}
    BY <1>3, <2>1, Zenon
  <2> QED BY <1>1, <2>2
<1> QED BY <1>1, <1>2, <1>4 DEF t

-----------------------------------------------------------------------------
(* Indexes.                                                                *)

\* What the ids of a batch are pushed as, given that they can be put in order.
LEMMA ListedIs ==
  ASSUME NEW S \in SUBSET Nat, IsFiniteSet(S),
         NEW w \in [1..Cardinality(S) -> S], Increasing(w)
  PROVE  LET new == CHOOSE x \in SetToSeqs(S) : Increasing(x)
         IN  new \in Seq(Nat) /\ Increasing(new) /\ Range(new) = S
<1> DEFINE n == Cardinality(S)
           new == CHOOSE x \in SetToSeqs(S) : Increasing(x)
<1>1. n \in Nat /\ IsFiniteSet(1..n) /\ Cardinality(1..n) = n
  BY FS_CardinalityType, FS_Interval
<1> HIDE DEF n
<1>2. w \in SetToSeqs(S)
  <2>1. \A i, j \in 1..n : i # j => w[i] # w[j]
    <3>1. \A i \in 1..n : i \in Nat /\ w[i] \in Nat
      <4>1. w \in [1..n -> S]
        BY DEF n
      <4>2. \A i \in 1..n : w[i] \in S
        BY <4>1
      <4>3. \A x \in S : x \in Nat
        OBVIOUS
      <4>4. \A i \in 1..n : i \in Nat
        BY <1>1
      <4> QED BY <4>2, <4>3, <4>4
    <3>2. \A i, j \in 1..n : i < j => w[i] < w[j]
      BY DEF Increasing, n
    <3> QED BY <3>1, <3>2
  <2> QED BY <2>1 DEF SetToSeqs, n
<1>3. new \in SetToSeqs(S) /\ Increasing(new)
  BY <1>2
<1> HIDE DEF new
<1>4. new \in [1..n -> S] /\ \A i, j \in 1..n : i # j => new[i] # new[j]
  BY <1>3 DEF SetToSeqs, n
<1>5. new \in Injection(1..n, S)
  BY <1>4 DEF Injection, IsInjective
<1>6. new \in Surjection(1..n, S)
  BY <1>1, <1>5, FS_Injection DEF n
<1>7. Range(new) = S
  <2>1. DOMAIN new = 1..n /\ \A i \in 1..n : new[i] \in S
    BY <1>4
  <2>2. \A x \in S : \E i \in 1..n : new[i] = x
    BY <1>6 DEF Surjection
  <2> QED BY <2>1, <2>2, Zenon DEF Range
<1>8. new \in Seq(Nat)
  <2>1. new \in [1..n -> Nat]
    BY <1>4
  <2> QED BY <1>1, <2>1
<1> QED BY <1>3, <1>7, <1>8 DEF new

\* The ids of the first, of the second, of both or of none of two new records.
LEMMA ListedInOrder ==
  ASSUME NEW n \in Nat, NEW W, \A i \in W : i = 1 \/ i = 2
  PROVE  LET S == {n + i : i \in W}
             new == CHOOSE x \in SetToSeqs(S) : Increasing(x)
         IN  new \in Seq(Nat) /\ Increasing(new) /\ Range(new) = S
<1> DEFINE S == {n + i : i \in W}
           Ordered(T) == \E w \in [1..Cardinality(T) -> T] : Increasing(w)
<1>1. ASSUME NEW T \in SUBSET Nat, IsFiniteSet(T), Ordered(T)
      PROVE  LET new == CHOOSE x \in SetToSeqs(T) : Increasing(x)
             IN  new \in Seq(Nat) /\ Increasing(new) /\ Range(new) = T
  BY <1>1, ListedIs
<1>2. S \in SUBSET Nat
  OBVIOUS
<1>3. IsFiniteSet({}) /\ Cardinality({}) = 0
  BY FS_EmptySet
<1>4. \A x : IsFiniteSet({x}) /\ Cardinality({x}) = 1
  BY FS_Singleton
<1>5. n + 1 \in Nat /\ n + 2 \in Nat /\ n + 1 # n + 2 /\ n + 1 < n + 2
  OBVIOUS
<1>6. IsFiniteSet({n + 1, n + 2}) /\ Cardinality({n + 1, n + 2}) = 2
  <2>1. {n + 1, n + 2} = {n + 1} \union {n + 2} /\ n + 2 \notin {n + 1}
    BY <1>5
  <2>2. Cardinality({n + 1} \union {n + 2}) = Cardinality({n + 1}) + 1 /\ IsFiniteSet({n + 1} \union {n + 2})
    BY <1>4, <2>1, FS_AddElement
  <2> QED BY <1>4, <2>1, <2>2, SMTT(30)
<1>7. S = {} \/ S = {n + 1} \/ S = {n + 2} \/ S = {n + 1, n + 2}
  OBVIOUS
<1>8. IsFiniteSet(S)
  BY <1>3, <1>4, <1>6, <1>7
<1>9. Ordered(S)
  <2>1. CASE S = {}
    BY <1>3, <2>1, <<>> \in [1..0 -> {}], Increasing(<<>>) DEF Increasing
  <2>2. ASSUME NEW x \in Nat, S = {x} PROVE Ordered(S)
    <3>1. <<x>> \in [1..1 -> S] /\ Increasing(<<x>>)
      BY <2>2 DEF Increasing
    <3> QED BY <1>4, <2>2, <3>1
  <2>3. CASE S = {n + 1, n + 2}
    <3>1. <<n + 1, n + 2>> \in [1..2 -> S] /\ Increasing(<<n + 1, n + 2>>)
      BY <1>5, <2>3 DEF Increasing
    <3> QED BY <1>6, <2>3, <3>1
  <2> QED BY <1>5, <1>7, <2>1, <2>2, <2>3
<1> QED BY <1>1, <1>2, <1>8, <1>9

\* Ids that come after all there are keep an index in order.
LEMMA Lengthened ==
  ASSUME NEW ids \in Seq(Nat), NEW new \in Seq(Nat), NEW n \in Nat,
         Increasing(ids), \A x \in Range(ids) : x <= n,
         Increasing(new), \A x \in Range(new) : n < x
  PROVE  /\ ids \o new \in Seq(Nat) /\ Increasing(ids \o new)
         /\ Range(ids \o new) = Range(ids) \union Range(new)
<1> DEFINE t == ids \o new
<1>1. /\ t \in Seq(Nat) /\ Len(t) = Len(ids) + Len(new) /\ Len(ids) \in Nat /\ Len(new) \in Nat
      /\ DOMAIN ids = 1..Len(ids) /\ DOMAIN new = 1..Len(new) /\ DOMAIN t = 1..Len(t)
  OBVIOUS
<1>2. /\ \A i \in 1..Len(ids) : t[i] = ids[i] /\ ids[i] \in Nat
      /\ \A i \in 1..Len(new) : t[Len(ids) + i] = new[i] /\ new[i] \in Nat
  OBVIOUS
<1> HIDE DEF t
<1>3. \A j \in 1..Len(t) :
        \/ j \in 1..Len(ids) /\ t[j] = ids[j] /\ t[j] <= n
        \/ /\ j - Len(ids) \in 1..Len(new) /\ Len(ids) < j
           /\ t[j] = new[j - Len(ids)] /\ n < t[j]
  <2> SUFFICES ASSUME NEW j \in 1..Len(t)
               PROVE  \/ j \in 1..Len(ids) /\ t[j] = ids[j] /\ t[j] <= n
                      \/ /\ j - Len(ids) \in 1..Len(new) /\ Len(ids) < j
                         /\ t[j] = new[j - Len(ids)] /\ n < t[j]
    OBVIOUS
  <2>1. CASE j <= Len(ids)
    <3>1. j \in 1..Len(ids)
      BY <1>1, <2>1
    <3>2. ids[j] \in Range(ids)
      BY <1>1, <3>1 DEF Range
    <3> QED BY <1>2, <3>1, <3>2
  <2>2. CASE j > Len(ids)
    <3>1. j - Len(ids) \in 1..Len(new) /\ j = Len(ids) + (j - Len(ids))
      BY <1>1, <2>2
    <3>2. new[j - Len(ids)] \in Range(new)
      BY <1>1, <3>1 DEF Range
    <3> QED BY <1>1, <1>2, <2>2, <3>1, <3>2
  <2> QED BY <1>1, <2>1, <2>2
<1>4. Increasing(t)
  <2> SUFFICES ASSUME NEW i \in 1..Len(t), NEW j \in 1..Len(t), i < j PROVE t[i] < t[j]
    BY <1>1 DEF Increasing
  <2>1. /\ \A k, l \in 1..Len(ids) : k < l => ids[k] < ids[l]
        /\ \A k, l \in 1..Len(new) : k < l => new[k] < new[l]
    BY <1>1 DEF Increasing
  <2>2. t[i] \in Nat /\ t[j] \in Nat /\ i \in Nat /\ j \in Nat
    BY <1>1
  <2>3. CASE j \in 1..Len(ids)
    <3>1. i \in 1..Len(ids)
      BY <1>1, <2>2, <2>3
    <3>2. t[i] = ids[i] /\ t[j] = ids[j]
      BY <1>2, <2>3, <3>1
    <3> QED BY <2>1, <2>3, <3>1, <3>2
  <2>4. CASE i \in 1..Len(ids) /\ j \notin 1..Len(ids)
    <3>1. t[i] <= n
      BY <1>1, <1>3, <2>4
    <3>2. n < t[j]
      BY <1>3, <2>4
    <3> QED BY <2>2, <3>1, <3>2
  <2>5. CASE i \notin 1..Len(ids) /\ j \notin 1..Len(ids)
    <3>1. /\ i - Len(ids) \in 1..Len(new) /\ t[i] = new[i - Len(ids)]
          /\ j - Len(ids) \in 1..Len(new) /\ t[j] = new[j - Len(ids)]
      BY <1>3, <2>5
    <3>2. i - Len(ids) < j - Len(ids)
      BY <1>1, <2>2
    <3> QED BY <2>1, <3>1, <3>2
  <2> QED BY <1>1, <2>2, <2>3, <2>4, <2>5
<1>5. Range(t) = Range(ids) \union Range(new)
  <2>1. ASSUME NEW x \in Range(t) PROVE x \in Range(ids) \union Range(new)
    <3>1. PICK j \in 1..Len(t) : t[j] = x
      BY <1>1 DEF Range
    <3> QED BY <1>1, <1>3, <3>1 DEF Range
  <2>2. ASSUME NEW x \in Range(ids) PROVE x \in Range(t)
    <3>1. PICK j \in 1..Len(ids) : ids[j] = x
      BY <1>1 DEF Range
    <3>2. j \in 1..Len(t)
      BY <1>1
    <3> QED BY <1>1, <1>2, <3>1, <3>2 DEF Range
  <2>3. ASSUME NEW x \in Range(new) PROVE x \in Range(t)
    <3>1. PICK j \in 1..Len(new) : new[j] = x
      BY <1>1 DEF Range
    <3>2. Len(ids) + j \in 1..Len(t)
      BY <1>1
    <3> QED BY <1>1, <1>2, <3>1, <3>2 DEF Range
  <2> QED BY <2>1, <2>2, <2>3
<1> QED BY <1>1, <1>4, <1>5 DEF t

-----------------------------------------------------------------------------
(* Totals.                                                                 *)

\* What records earn is a natural number, ...
LEMMA EarnedType ==
  ASSUME NEW s \in Seq(RecordSet), NEW A \in SUBSET DOMAIN s
  PROVE  IsFiniteSet(A) /\ EarnedIn(s, A) \in Nat
<1> DEFINE f == [i \in DOMAIN s |-> s[i].earned]
<1>1. \A i \in A : f[i] \in Nat
  <2>1. \A i \in DOMAIN s : s[i] \in RecordSet
    OBVIOUS
  <2> QED BY <2>1 DEF RecordSet
<1>2. IsFiniteSet(A)
  <2>1. DOMAIN s = 1..Len(s) /\ Len(s) \in Nat
    OBVIOUS
  <2>2. IsFiniteSet(1..Len(s))
    BY <2>1, FS_Interval
  <2> QED BY <2>1, <2>2, FS_Subset
<1> HIDE DEF f
<1>3. SumOf(f, A) \in Nat
  BY <1>1, <1>2, SumType
<1> QED BY <1>2, <1>3 DEF EarnedIn, f

\* ... and what old and new ones earn together is the sum.
LEMMA EarnedJoined ==
  ASSUME NEW s \in Seq(RecordSet), NEW r \in Seq(RecordSet),
         NEW A \in SUBSET DOMAIN s, NEW B \in SUBSET DOMAIN r
  PROVE  EarnedIn(s \o r, A \union {Len(s) + i : i \in B}) = EarnedIn(s, A) + EarnedIn(r, B)
<1> DEFINE t == s \o r
           C == {Len(s) + i : i \in B}
           f == [i \in DOMAIN t |-> t[i].earned]
           g == [i \in DOMAIN s |-> s[i].earned]
           h == [i \in DOMAIN r |-> r[i].earned]
<1>1. /\ t \in Seq(RecordSet) /\ Len(s) \in Nat
      /\ DOMAIN t = DOMAIN s \union {Len(s) + i : i \in DOMAIN r}
      /\ \A i \in DOMAIN s : i \in Nat /\ 1 <= i /\ i <= Len(s) /\ t[i] = s[i]
      /\ \A i \in DOMAIN r : i \in Nat /\ 1 <= i /\ t[Len(s) + i] = r[i]
  BY Joined
<1> HIDE DEF t
<1>2. C \subseteq DOMAIN t /\ A \subseteq DOMAIN t /\ B \subseteq Nat
  BY <1>1
<1>3. A \intersect C = {}
  BY <1>1
<1>4. IsFiniteSet(A) /\ IsFiniteSet(B) /\ IsFiniteSet(C)
  BY <1>1, <1>2, EarnedType
<1>5. /\ \A i \in A : f[i] = g[i]
      /\ \A i \in B : f[Len(s) + i] = h[i]
  <2>1. \A i \in A : i \in DOMAIN t /\ i \in DOMAIN s /\ t[i] = s[i]
    BY <1>1
  <2>2. \A i \in B : Len(s) + i \in DOMAIN t /\ i \in DOMAIN r /\ t[Len(s) + i] = r[i]
    BY <1>1
  <2> QED BY <2>1, <2>2
<1>6. (\A i \in DOMAIN t : f[i] \in Nat) /\ \A i \in B : h[i] \in Nat
  <2>1. (\A i \in DOMAIN t : t[i] \in RecordSet) /\ \A i \in DOMAIN r : r[i] \in RecordSet
    BY <1>1, SMTT(30)
  <2> QED BY <2>1 DEF RecordSet
<1> HIDE DEF f, g, h
<1>7. SumOf(f, A \union C) = SumOf(f, A) + SumOf(f, C)
  <2>1. \A i \in A \union C : f[i] \in Nat
    BY <1>2, <1>6
  <2> HIDE DEF C
  <2> QED BY <1>3, <1>4, <2>1, SumUnion
<1>8. SumOf(f, C) = SumOf(h, B)
  <2>1. CountedOn(Len(s), C, f, B, h)
    BY <1>1, <1>2, <1>5, <1>6 DEF CountedOn
  <2> HIDE DEF C
  <2> QED BY <1>4, <2>1, SumShifted
<1>9. SumOf(f, A) = SumOf(g, A)
  BY <1>5, SumSame
<1> QED BY <1>7, <1>8, <1>9 DEF EarnedIn, f, g, h, t

\* One record, or two, and what each adds to any total.
LEMMA EarnedByBatch ==
  ASSUME NEW r, IsBatch(r)
  PROVE  \E u, v \in DOMAIN r, a, b \in Nat : \A W \in SUBSET DOMAIN r :
           EarnedIn(r, W) = (IF u \in W THEN a ELSE 0) + (IF v \in W THEN b ELSE 0)
<1> DEFINE f == [i \in DOMAIN r |-> r[i].earned]
<1>1. r \in Seq(RecordSet) /\ DOMAIN r = 1..Len(r)
  BY DEF IsBatch
<1>2. \A i \in DOMAIN r : f[i] \in Nat
  <2>1. \A i \in DOMAIN r : r[i] \in RecordSet
    BY <1>1
  <2> QED BY <2>1 DEF RecordSet
<1>3. \A W : EarnedIn(r, W) = SumOf(f, W)
  BY DEF EarnedIn
<1> HIDE DEF f
<1>4. SumOf(f, {}) = 0
  BY SumZero
<1>5. \A i \in DOMAIN r : SumOf(f, {i}) = f[i]
  <2> SUFFICES ASSUME NEW i \in DOMAIN r PROVE SumOf(f, {i}) = f[i]
    OBVIOUS
  <2>1. {i} \ {i} = {} /\ IsFiniteSet({i})
    BY FS_Singleton
  <2>2. SumOf(f, {i}) = SumOf(f, {i} \ {i}) + f[i]
    BY <1>2, <2>1, SumSplit
  <2> QED BY <1>2, <1>4, <2>1, <2>2
<1>6. CASE Len(r) = 1
  <2>1. 1 \in DOMAIN r /\ \A W \in SUBSET DOMAIN r : W = {} \/ W = {1}
    BY <1>1, <1>6
  <2>2. \A W \in SUBSET DOMAIN r :
          SumOf(f, W) = (IF 1 \in W THEN f[1] ELSE 0) + (IF 1 \in W THEN 0 ELSE 0)
    BY <1>2, <1>4, <1>5, <2>1
  <2> QED BY <1>2, <1>3, <2>1, <2>2
<1>7. CASE Len(r) = 2
  <2>1. /\ 1 \in DOMAIN r /\ 2 \in DOMAIN r /\ 1 # 2
        /\ \A W \in SUBSET DOMAIN r : W = {} \/ W = {1} \/ W = {2} \/ W = {1} \union {2}
    BY <1>1, <1>7
  <2>2. SumOf(f, {1} \union {2}) = f[1] + f[2]
    <3>1. {1} \intersect {2} = {} /\ \A x \in {1} \union {2} : f[x] \in Nat
      BY <1>2, <2>1
    <3>2. IsFiniteSet({1}) /\ IsFiniteSet({2})
      BY FS_Singleton
    <3>3. SumOf(f, {1} \union {2}) = SumOf(f, {1}) + SumOf(f, {2})
      BY <3>1, <3>2, SumUnion
    <3> QED BY <1>5, <2>1, <3>3
  <2>3. \A W \in SUBSET DOMAIN r :
          SumOf(f, W) = (IF 1 \in W THEN f[1] ELSE 0) + (IF 2 \in W THEN f[2] ELSE 0)
    <3> DEFINE a == f[1]
               b == f[2]
    <3>1. a \in Nat /\ b \in Nat
      BY <1>2, <2>1
    <3>2. /\ SumOf(f, {}) = 0 /\ SumOf(f, {1}) = a /\ SumOf(f, {2}) = b
          /\ SumOf(f, {1} \union {2}) = a + b
      BY <1>4, <1>5, <2>1, <2>2
    <3> HIDE DEF a, b
    <3>3. ASSUME NEW W \in SUBSET DOMAIN r
          PROVE  SumOf(f, W) = (IF 1 \in W THEN a ELSE 0) + (IF 2 \in W THEN b ELSE 0)
      <4>1. W = {} \/ W = {1} \/ W = {2} \/ W = {1} \union {2}
        BY <2>1
      <4>2. CASE W = {}
        BY <3>2, <4>2
      <4>3. CASE W = {1}
        BY <3>1, <3>2, <4>3
      <4>4. CASE W = {2}
        BY <3>1, <3>2, <4>4
      <4>5. CASE W = {1} \union {2}
        BY <3>2, <4>5
      <4> QED BY <4>1, <4>2, <4>3, <4>4, <4>5
    <3> QED BY <3>3 DEF a, b
  <2> QED BY <1>2, <1>3, <2>1, <2>3
<1> QED BY <1>6, <1>7 DEF IsBatch

\* New records add to their contributors' totals what they earn.
LEMMA TotalsGrow ==
  ASSUME RecordTypes, TotalsCountRecords, NEW r, IsBatch(r), RecordContributions(r)
  PROVE  /\ contributorTotalTokens' \in [RecordModels -> [Contributors -> Nat]]
         /\ contributorGlobalTokens' \in [Contributors -> Nat]
         /\ TotalsCountRecords'
<1> DEFINE By(c) == {i \in DOMAIN r : r[i].contributor = c}
<1>1. /\ r \in Seq(RecordSet) /\ contributions \in Seq(RecordSet)
      /\ contributorTotalTokens \in [RecordModels -> [Contributors -> Nat]]
      /\ contributorGlobalTokens \in [Contributors -> Nat]
  BY DEF RecordTypes, IsBatch
<1>2. /\ contributions' = contributions \o r /\ contributorTotalTokens' = Totals(r)
      /\ contributorGlobalTokens' = [c \in Contributors |-> contributorGlobalTokens[c] + EarnedIn(r, By(c))]
  BY DEF RecordContributions
<1>3. \A m, c : /\ Of(contributions, m, c) \in SUBSET DOMAIN contributions
                /\ Of(r, m, c) \in SUBSET DOMAIN r /\ By(c) \in SUBSET DOMAIN r
  BY DEF Of
<1>4. \A m, c : EarnedIn(r, Of(r, m, c)) \in Nat /\ EarnedIn(r, By(c)) \in Nat
  BY <1>1, <1>3, EarnedType
<1>5. ASSUME NEW m, NEW c
      PROVE  EarnedIn(contributions', Of(contributions', m, c))
               = EarnedIn(contributions, Of(contributions, m, c)) + EarnedIn(r, Of(r, m, c))
  <2>1. Of(contributions', m, c)
          = Of(contributions, m, c) \union {Len(contributions) + i : i \in Of(r, m, c)}
    <3> DEFINE t == contributions \o r
    <3>1. /\ DOMAIN t = DOMAIN contributions \union {Len(contributions) + i : i \in DOMAIN r}
          /\ \A i \in DOMAIN contributions : t[i] = contributions[i]
          /\ \A i \in DOMAIN r : t[Len(contributions) + i] = r[i]
      BY <1>1, Joined
    <3>2. t = contributions'
      BY <1>2
    <3> HIDE DEF t
    <3>3. Of(t, m, c)
            = Of(contributions, m, c) \union {Len(contributions) + i : i \in Of(r, m, c)}
      BY <3>1 DEF Of
    <3> QED BY <3>2, <3>3
  <2>2. \A A \in SUBSET DOMAIN contributions, B \in SUBSET DOMAIN r :
          EarnedIn(contributions \o r, A \union {Len(contributions) + i : i \in B})
            = EarnedIn(contributions, A) + EarnedIn(r, B)
    BY <1>1, EarnedJoined
  <2> QED BY <1>2, <1>3, <2>1, <2>2
<1>6. \A m \in RecordModels, c \in Contributors :
        contributorTotalTokens'[m][c] = contributorTotalTokens[m][c] + EarnedIn(r, Of(r, m, c))
  BY <1>2 DEF Totals
<1>7. contributorTotalTokens' \in [RecordModels -> [Contributors -> Nat]]
  <2>1. \A m \in RecordModels, c \in Contributors :
          contributorTotalTokens[m][c] + EarnedIn(r, Of(r, m, c)) \in Nat
    <3> SUFFICES ASSUME NEW m \in RecordModels, NEW c \in Contributors
                 PROVE contributorTotalTokens[m][c] + EarnedIn(r, Of(r, m, c)) \in Nat
      OBVIOUS
    <3>1. contributorTotalTokens[m][c] \in Nat
      BY <1>1
    <3>2. EarnedIn(r, Of(r, m, c)) \in Nat
      BY <1>4
    <3> QED BY <3>1, <3>2
  <2> QED BY <1>2, <2>1 DEF Totals
<1>8. contributorGlobalTokens' \in [Contributors -> Nat]
  <2>1. \A c \in Contributors : contributorGlobalTokens[c] + EarnedIn(r, By(c)) \in Nat
    <3> SUFFICES ASSUME NEW c \in Contributors
                 PROVE contributorGlobalTokens[c] + EarnedIn(r, By(c)) \in Nat
      OBVIOUS
    <3>1. contributorGlobalTokens[c] \in Nat
      BY <1>1
    <3>2. EarnedIn(r, By(c)) \in Nat
      BY <1>4
    <3> QED BY <3>1, <3>2
  <2> HIDE DEF By
  <2> QED BY <1>2, <2>1
<1>9. ASSUME NEW c \in Contributors
      PROVE  contributorGlobalTokens'[c]
               = SumOf([m \in RecordModels |-> contributorTotalTokens'[m][c]], RecordModels)
  <2> DEFINE f == [m \in RecordModels |-> contributorTotalTokens[m][c]]
             g == [m \in RecordModels |-> contributorTotalTokens'[m][c]]
  <2>1. PICK u \in DOMAIN r, v \in DOMAIN r, a \in Nat, b \in Nat : \A W \in SUBSET DOMAIN r :
          EarnedIn(r, W) = (IF u \in W THEN a ELSE 0) + (IF v \in W THEN b ELSE 0)
    BY EarnedByBatch
  <2>2. r[u] \in RecordSet /\ r[v] \in RecordSet
    BY <1>1, <2>1
  <2>3. PICK x \in RecordModels, y \in RecordModels : x = r[u].model /\ y = r[v].model
    BY <2>2 DEF RecordSet
  <2> DEFINE p == IF r[u].contributor = c THEN a ELSE 0
             q == IF r[v].contributor = c THEN b ELSE 0
  <2>4. EarnedIn(r, By(c)) = p + q
    BY <1>3, <2>1
  <2>5. \A m \in RecordModels :
          EarnedIn(r, Of(r, m, c)) = (IF m = x THEN p ELSE 0) + (IF m = y THEN q ELSE 0)
    <3> SUFFICES ASSUME NEW m \in RecordModels
                 PROVE EarnedIn(r, Of(r, m, c)) = (IF m = x THEN p ELSE 0) + (IF m = y THEN q ELSE 0)
      OBVIOUS
    <3>1. /\ u \in Of(r, m, c) <=> m = x /\ r[u].contributor = c
          /\ v \in Of(r, m, c) <=> m = y /\ r[v].contributor = c
      BY <2>1, <2>3 DEF Of
    <3>2. EarnedIn(r, Of(r, m, c))
            = (IF u \in Of(r, m, c) THEN a ELSE 0) + (IF v \in Of(r, m, c) THEN b ELSE 0)
      BY <1>3, <2>1
    <3> QED BY <2>1, <3>1, <3>2
  <2>6. p \in Nat /\ q \in Nat
    BY <2>1
  <2>7. \A m \in RecordModels : f[m] \in Nat
    BY <1>1
  <2>8. \A m \in RecordModels : g[m] = f[m] + ((IF m = x THEN p ELSE 0) + (IF m = y THEN q ELSE 0))
    BY <1>6, <2>5
  <2>9. contributorGlobalTokens[c] = SumOf(f, RecordModels)
    BY DEF TotalsCountRecords
  <2>10. contributorGlobalTokens'[c] = contributorGlobalTokens[c] + (p + q)
    BY <1>2, <2>4
  <2> HIDE DEF f, g, p, q
  <2>11. SumOf(g, RecordModels) = SumOf(f, RecordModels) + (p + q)
    BY <2>6, <2>7, <2>8, ContributionConstants, TwoAdded DEF ContributionConstants
  <2>12. contributorGlobalTokens'[c] = SumOf(g, RecordModels)
    BY <2>9, <2>10, <2>11
  <2> QED BY <2>12 DEF g
<1>10. TotalsCountRecords'
  <2>1. \A m \in RecordModels, c \in Contributors :
          contributorTotalTokens'[m][c] = EarnedIn(contributions', Of(contributions', m, c))
    <3> SUFFICES ASSUME NEW m \in RecordModels, NEW c \in Contributors
                 PROVE contributorTotalTokens'[m][c] = EarnedIn(contributions', Of(contributions', m, c))
      OBVIOUS
    <3>1. contributorTotalTokens[m][c] = EarnedIn(contributions, Of(contributions, m, c))
      BY DEF TotalsCountRecords
    <3> QED BY <1>5, <1>6, <3>1
  <2> QED BY <1>9, <2>1 DEF TotalsCountRecords
<1> QED BY <1>7, <1>8, <1>10

\* There is one last id.
LEMMA LastIs ==
  ASSUME NEW S \in SUBSET Nat, NEW k \in S, \A j \in S : j <= k
  PROVE  (CHOOSE i \in S : \A j \in S : j <= i) = k
<1>1. \A i \in S : (\A j \in S : j <= i) => i = k
  OBVIOUS
<1> QED BY <1>1

\* A hash moves on to the last new record with it.
LEMMA HashesMove ==
  ASSUME RecordTypes, HashFindsLastRecord, NEW r, IsBatch(r), RecordContributions(r)
  PROVE  hashToContribution' \in [Hashes -> Nat] /\ HashFindsLastRecord'
<1> DEFINE n == Len(contributions)
           t == contributions \o r
           With(s, h) == {i \in DOMAIN s : s[i].hash = h}
           Latest(S) == CHOOSE i \in S : \A j \in S : j <= i
<1>1. /\ r \in Seq(RecordSet) /\ contributions \in Seq(RecordSet)
      /\ hashToContribution \in [Hashes -> Nat] /\ contributions' = t
      /\ hashToContribution' = HashIndex(r)
  BY DEF RecordTypes, IsBatch, RecordContributions
<1>2. /\ n \in Nat /\ DOMAIN t = DOMAIN contributions \union {n + i : i \in DOMAIN r}
      /\ \A i \in DOMAIN contributions : i \in Nat /\ i <= n /\ t[i] = contributions[i]
      /\ \A i \in DOMAIN r : i \in Nat /\ 1 <= i /\ t[n + i] = r[i]
  BY <1>1, Joined
<1> HIDE DEF t, n
<1>3. \A h \in Hashes : hashToContribution'[h]
        = IF With(r, h) = {} THEN hashToContribution[h] ELSE n + Latest(With(r, h))
  BY <1>1 DEF HashIndex, n
<1>4. ASSUME NEW h \in Hashes
      PROVE  /\ hashToContribution'[h] \in Nat
             /\ hashToContribution'[h] = IF With(t, h) = {} THEN 0 ELSE Latest(With(t, h))
  <2>1. With(t, h) = With(contributions, h) \union {n + i : i \in With(r, h)}
    BY <1>2
  <2>2. hashToContribution[h] = IF With(contributions, h) = {} THEN 0 ELSE Latest(With(contributions, h))
    BY DEF HashFindsLastRecord
  <2>3. CASE With(r, h) = {}
    <3>1. With(t, h) = With(contributions, h)
      BY <2>1, <2>3
    <3> QED BY <1>1, <1>3, <2>2, <2>3, <3>1, ZenonT(30)
  <2>4. CASE With(r, h) # {}
    <3>1. \A i \in With(r, h) : i = 1 \/ i = 2
      BY DEF IsBatch
    <3>2. PICK k \in With(r, h) : \A j \in With(r, h) : j <= k
      BY <2>4, <3>1
    <3>3. Latest(With(r, h)) = k /\ k \in Nat
      BY <1>2, <3>2, LastIs
    <3>4. /\ With(t, h) \in SUBSET Nat /\ n + k \in With(t, h)
          /\ \A j \in With(t, h) : j <= n + k
      BY <1>2, <2>1, <3>2
    <3>5. Latest(With(t, h)) = n + k
      BY <3>4, LastIs
    <3> QED BY <1>2, <1>3, <2>4, <3>3, <3>4, <3>5
  <2> QED BY <2>3, <2>4
<1>5. hashToContribution' \in [Hashes -> Nat]
  BY <1>1, <1>4 DEF HashIndex
<1>6. HashFindsLastRecord'
  <2>1. \A h \in Hashes : hashToContribution'[h]
          = IF With(contributions', h) = {} THEN 0 ELSE Latest(With(contributions', h))
    <3>1. t = contributions'
      BY <1>1
    <3> QED BY <1>4, <3>1
  <2> QED BY <2>1 DEF HashFindsLastRecord
<1> QED BY <1>5, <1>6

\* An index that has the records it should have gets the new ones.
LEMMA IndexGrows ==
  ASSUME contributions \in Seq(RecordSet), NEW r, IsBatch(r), NEW ids \in Seq(Nat),
         Increasing(ids), Range(ids) \subseteq DOMAIN contributions, NEW W \in SUBSET DOMAIN r
  PROVE  /\ Pushed(ids, W) \in Seq(Nat) /\ Increasing(Pushed(ids, W))
         /\ Range(Pushed(ids, W)) = Range(ids) \union {Len(contributions) + i : i \in W}
<1> DEFINE n == Len(contributions)
           new == CHOOSE x \in SetToSeqs({n + i : i \in W}) : Increasing(x)
<1>1. n \in Nat /\ DOMAIN contributions = 1..n /\ \A i \in W : i = 1 \/ i = 2
  BY DEF IsBatch
<1> HIDE DEF n
<1>2. new \in Seq(Nat) /\ Increasing(new) /\ Range(new) = {n + i : i \in W}
  BY <1>1, ListedInOrder
<1> HIDE DEF new
<1>3. (\A x \in Range(ids) : x <= n) /\ \A x \in Range(new) : n < x
  BY <1>1, <1>2, SMTT(30)
<1>4. /\ ids \o new \in Seq(Nat) /\ Increasing(ids \o new)
      /\ Range(ids \o new) = Range(ids) \union Range(new)
  BY <1>1, <1>2, <1>3, Lengthened
<1>5. Pushed(ids, W) = ids \o new
  BY DEF Pushed, new, n
<1> QED BY <1>2, <1>4, <1>5 DEF n

\* New records are found by their model and by their contributor.
LEMMA IndexesGrow ==
  ASSUME RecordTypes, IndexesAreComplete, NEW r, IsBatch(r), RecordContributions(r)
  PROVE  /\ modelContributions' \in [RecordModels -> Seq(Nat)]
         /\ contributorRecords' \in [Contributors -> Seq(Nat)]
         /\ IndexesAreComplete'
<1> DEFINE n == Len(contributions)
           t == contributions \o r
<1>1. /\ r \in Seq(RecordSet) /\ contributions \in Seq(RecordSet) /\ contributions' = t
      /\ modelContributions' = [m \in RecordModels |->
           Pushed(modelContributions[m], {i \in DOMAIN r : r[i].model = m})]
      /\ contributorRecords' = [c \in Contributors |->
           Pushed(contributorRecords[c], {i \in DOMAIN r : r[i].contributor = c})]
  BY DEF RecordTypes, IsBatch, RecordContributions
<1>2. /\ DOMAIN t = DOMAIN contributions \union {n + i : i \in DOMAIN r}
      /\ \A i \in DOMAIN contributions : t[i] = contributions[i]
      /\ \A i \in DOMAIN r : t[n + i] = r[i]
  BY <1>1, Joined
<1> HIDE DEF t
<1>3. ASSUME NEW m \in RecordModels
      PROVE  /\ modelContributions'[m] \in Seq(Nat) /\ Increasing(modelContributions'[m])
             /\ Range(modelContributions'[m]) = {i \in DOMAIN t : t[i].model = m}
  <2> DEFINE W == {i \in DOMAIN r : r[i].model = m}
             ids == modelContributions[m]
  <2>1. /\ ids \in Seq(Nat) /\ Increasing(ids)
        /\ Range(ids) = {i \in DOMAIN contributions : contributions[i].model = m}
    BY DEF RecordTypes, IndexesAreComplete
  <2>2. modelContributions'[m] = Pushed(ids, W) /\ W \in SUBSET DOMAIN r
    BY <1>1
  <2> HIDE DEF ids
  <2>3. {i \in DOMAIN t : t[i].model = m}
          = {i \in DOMAIN contributions : contributions[i].model = m} \union {n + i : i \in W}
    BY <1>2
  <2>4. Range(ids) \subseteq DOMAIN contributions
    BY <2>1
  <2> HIDE DEF W
  <2>5. /\ Pushed(ids, W) \in Seq(Nat) /\ Increasing(Pushed(ids, W))
        /\ Range(Pushed(ids, W)) = Range(ids) \union {n + i : i \in W}
    BY <1>1, <2>1, <2>2, <2>4, IndexGrows
  <2> QED BY <2>1, <2>2, <2>3, <2>5
<1>4. ASSUME NEW c \in Contributors
      PROVE  /\ contributorRecords'[c] \in Seq(Nat) /\ Increasing(contributorRecords'[c])
             /\ Range(contributorRecords'[c]) = {i \in DOMAIN t : t[i].contributor = c}
  <2> DEFINE W == {i \in DOMAIN r : r[i].contributor = c}
             ids == contributorRecords[c]
  <2>1. /\ ids \in Seq(Nat) /\ Increasing(ids)
        /\ Range(ids) = {i \in DOMAIN contributions : contributions[i].contributor = c}
    BY DEF RecordTypes, IndexesAreComplete
  <2>2. contributorRecords'[c] = Pushed(ids, W) /\ W \in SUBSET DOMAIN r
    BY <1>1
  <2> HIDE DEF ids
  <2>3. {i \in DOMAIN t : t[i].contributor = c}
          = {i \in DOMAIN contributions : contributions[i].contributor = c} \union {n + i : i \in W}
    BY <1>2
  <2>4. Range(ids) \subseteq DOMAIN contributions
    BY <2>1
  <2> HIDE DEF W
  <2>5. /\ Pushed(ids, W) \in Seq(Nat) /\ Increasing(Pushed(ids, W))
        /\ Range(Pushed(ids, W)) = Range(ids) \union {n + i : i \in W}
    BY <1>1, <2>1, <2>2, <2>4, IndexGrows
  <2> QED BY <2>1, <2>2, <2>3, <2>5
<1>5. /\ modelContributions' \in [RecordModels -> Seq(Nat)]
      /\ contributorRecords' \in [Contributors -> Seq(Nat)]
  BY <1>1, <1>3, <1>4
<1>6. IndexesAreComplete'
  BY <1>1, <1>3, <1>4 DEF IndexesAreComplete
<1> QED BY <1>5, <1>6

\* Records of which only the status may have changed keep all.
LEMMA SameRecords ==
  ASSUME RecordsInv, contributions' \in Seq(RecordSet), DOMAIN contributions' = DOMAIN contributions,
         \A i \in DOMAIN contributions :
           /\ contributions'[i].model = contributions[i].model
           /\ contributions'[i].contributor = contributions[i].contributor
           /\ contributions'[i].hash = contributions[i].hash
           /\ contributions'[i].earned = contributions[i].earned,
         UNCHANGED <<modelContributions, contributorRecords, hashToContribution,
                     contributorTotalTokens, contributorGlobalTokens>>
  PROVE  RecordsInv'
<1> USE DEF RecordsInv, RecordsSound
<1>1. RecordTypes'
  BY DEF RecordTypes
<1>2. TotalsCountRecords'
  <2>1. \A m, c : Of(contributions', m, c) = Of(contributions, m, c)
    BY DEF Of
  <2>2. [i \in DOMAIN contributions' |-> contributions'[i].earned]
          = [i \in DOMAIN contributions |-> contributions[i].earned]
    OBVIOUS
  <2>3. \A W : EarnedIn(contributions', W) = EarnedIn(contributions, W)
    BY <2>2 DEF EarnedIn
  <2> QED BY <2>1, <2>3 DEF TotalsCountRecords
<1>3. HashFindsLastRecord'
  <2> DEFINE With(s, h) == {i \in DOMAIN s : s[i].hash = h}
             Latest(S) == CHOOSE i \in S : \A j \in S : j <= i
  <2>1. \A h : With(contributions', h) = With(contributions, h)
    OBVIOUS
  <2>2. \A h \in Hashes : hashToContribution[h]
          = IF With(contributions, h) = {} THEN 0 ELSE Latest(With(contributions, h))
    BY DEF HashFindsLastRecord
  <2> HIDE DEF With, Latest
  <2>3. \A h \in Hashes : hashToContribution'[h]
          = IF With(contributions', h) = {} THEN 0 ELSE Latest(With(contributions', h))
    BY <2>1, <2>2
  <2> QED BY <2>3 DEF HashFindsLastRecord, With, Latest
<1>4. IndexesAreComplete'
  <2>1. \A m : {i \in DOMAIN contributions' : contributions'[i].model = m}
                 = {i \in DOMAIN contributions : contributions[i].model = m}
    OBVIOUS
  <2>2. \A c : {i \in DOMAIN contributions' : contributions'[i].contributor = c}
                 = {i \in DOMAIN contributions : contributions[i].contributor = c}
    OBVIOUS
  <2> QED BY <2>1, <2>2 DEF IndexesAreComplete
<1> QED BY <1>1, <1>2, <1>3, <1>4

\* A record becomes verified, rejected or claimed: its status changes, and nothing else.
LEMMA Becomes ==
  ASSUME RecordsInv, NEW id \in DOMAIN contributions, NEW from,
         NEW to \in {"Verified", "Rejected", "Claimed"}, Become(id, from, to)
  PROVE  /\ RecordsInv'
         /\ contributions[id].status = from /\ contributions'[id].status = to
         /\ \A i \in DOMAIN contributions : i # id => contributions'[i] = contributions[i]
<1>1. contributions \in Seq(RecordSet)
  BY DEF RecordsInv, RecordTypes
<1>2. contributions[id].status = from /\ contributions' = [contributions EXCEPT ![id].status = to]
  BY DEF Become
<1>3. contributions[id] \in RecordSet /\ [contributions[id] EXCEPT !.status = to] \in RecordSet
  <2>1. contributions[id] \in RecordSet
    BY <1>1
  <2> QED BY <2>1 DEF RecordSet
<1>4. /\ contributions' \in Seq(RecordSet) /\ DOMAIN contributions' = DOMAIN contributions
      /\ contributions'[id] = [contributions[id] EXCEPT !.status = to]
      /\ \A i \in DOMAIN contributions : i # id => contributions'[i] = contributions[i]
  BY <1>1, <1>2, <1>3
<1>5. \A i \in DOMAIN contributions :
        /\ contributions'[i].model = contributions[i].model
        /\ contributions'[i].contributor = contributions[i].contributor
        /\ contributions'[i].hash = contributions[i].hash
        /\ contributions'[i].earned = contributions[i].earned
  BY <1>3, <1>4 DEF RecordSet
<1>6. contributions'[id].status = to
  BY <1>3, <1>4 DEF RecordSet
<1>7. UNCHANGED <<modelContributions, contributorRecords, hashToContribution,
                  contributorTotalTokens, contributorGlobalTokens>>
  BY DEF Become
<1>8. RecordsInv'
  BY <1>4, <1>5, <1>7, SameRecords
<1> QED BY <1>2, <1>4, <1>6, <1>8

\* Recording keeps the invariant and the records there are.
LEMMA Records ==
  ASSUME RecordsInv, NEW r, IsBatch(r), RecordContributions(r)
  PROVE  RecordsInv' /\ \A i \in DOMAIN contributions : contributions'[i] = contributions[i]
<1>1. /\ RecordTypes /\ TotalsCountRecords /\ HashFindsLastRecord /\ IndexesAreComplete
  BY DEF RecordsInv, RecordsSound
<1>2. /\ contributions \in Seq(RecordSet) /\ r \in Seq(RecordSet) /\ contributions' = contributions \o r
  BY <1>1 DEF RecordTypes, IsBatch, RecordContributions
<1>3. /\ contributions' \in Seq(RecordSet)
      /\ \A i \in DOMAIN contributions : contributions'[i] = contributions[i]
  BY <1>2, Joined
<1>4. /\ contributorTotalTokens' \in [RecordModels -> [Contributors -> Nat]]
      /\ contributorGlobalTokens' \in [Contributors -> Nat] /\ TotalsCountRecords'
  BY <1>1, TotalsGrow
<1>5. hashToContribution' \in [Hashes -> Nat] /\ HashFindsLastRecord'
  BY <1>1, HashesMove
<1>6. /\ modelContributions' \in [RecordModels -> Seq(Nat)]
      /\ contributorRecords' \in [Contributors -> Seq(Nat)] /\ IndexesAreComplete'
  BY <1>1, IndexesGrow
<1> QED BY <1>3, <1>4, <1>5, <1>6 DEF RecordsInv, RecordsSound, RecordTypes

\* No records: totals of nothing, indexes of nothing.
LEMMA RecordsStart == ContributionInit => RecordsInv
<1> SUFFICES ASSUME ContributionInit PROVE RecordsInv
  OBVIOUS
<1> USE DEF ContributionInit
<1>1. RecordTypes
  BY DEF RecordTypes
<1>2. DOMAIN contributions = {} /\ DOMAIN <<>> = {}
  OBVIOUS
<1>3. TotalsCountRecords
  <2>1. \A m, c : Of(contributions, m, c) = {}
    BY <1>2 DEF Of
  <2>2. EarnedIn(contributions, {}) = 0
    BY SumZero DEF EarnedIn
  <2>3. ASSUME NEW c \in Contributors
        PROVE  SumOf([m \in RecordModels |-> contributorTotalTokens[m][c]], RecordModels) = 0
    <3> DEFINE f == [m \in RecordModels |-> contributorTotalTokens[m][c]]
    <3>1. \A m \in RecordModels : f[m] = 0
      OBVIOUS
    <3> HIDE DEF f
    <3>2. SumOf(f, RecordModels) = 0
      BY <3>1, SumZero
    <3> QED BY <3>2 DEF f
  <2> QED BY <2>1, <2>2, <2>3 DEF TotalsCountRecords
<1>4. HashFindsLastRecord
  BY <1>2 DEF HashFindsLastRecord
<1>5. IndexesAreComplete
  BY <1>2 DEF IndexesAreComplete, Increasing, Range
<1> QED BY <1>1, <1>3, <1>4, <1>5 DEF RecordsInv, RecordsSound

\* A step records a batch, changes a status as it may change, or does nothing.
LEMMA RecordsStep ==
  ASSUME RecordsInv, [ContributionNext]_contributionVars
  PROVE  RecordsInv' /\ [StatusMovesForward]_contributionVars
<1>1. ASSUME NEW r, IsBatch(r), RecordContributions(r)
      PROVE  RecordsInv' /\ StatusMovesForward
  <2>1. RecordsInv' /\ \A i \in DOMAIN contributions : contributions'[i] = contributions[i]
    BY <1>1, Records
  <2> QED BY <2>1 DEF StatusMovesForward
<1>2. ASSUME NEW m \in RecordModels, NEW c \in Contributors, NEW h \in Hashes, NEW e \in Earnings,
             RecordContributions(<<Record(m, c, h, e)>>)
      PROVE  RecordsInv' /\ StatusMovesForward
  <2>1. Record(m, c, h, e) \in RecordSet
    BY ContributionConstants DEF ContributionConstants, Record, RecordSet
  <2>2. IsBatch(<<Record(m, c, h, e)>>)
    BY <2>1 DEF IsBatch
  <2> QED BY <1>1, <1>2, <2>2
<1>3. ASSUME NEW m \in RecordModels, NEW c \in Contributors, NEW d \in Contributors,
             NEW h \in Hashes, NEW i \in Hashes, NEW e \in Earnings, NEW f \in Earnings,
             RecordContributions(<<Record(m, c, h, e), Record(m, d, i, f)>>)
      PROVE  RecordsInv' /\ StatusMovesForward
  <2>1. Record(m, c, h, e) \in RecordSet /\ Record(m, d, i, f) \in RecordSet
    BY ContributionConstants DEF ContributionConstants, Record, RecordSet
  <2>2. IsBatch(<<Record(m, c, h, e), Record(m, d, i, f)>>)
    BY <2>1 DEF IsBatch
  <2> QED BY <1>1, <1>3, <2>2
<1>4. ASSUME NEW id \in DOMAIN contributions,
             VerifyContribution(id) \/ RejectContribution(id) \/ ClaimContribution(id)
      PROVE  RecordsInv' /\ StatusMovesForward
  <2>1. PICK from \in {"Pending", "Verified"}, to \in {"Verified", "Rejected", "Claimed"} :
          /\ Become(id, from, to)
          /\ <<from, to>> \in {<<"Pending", "Verified">>, <<"Pending", "Rejected">>, <<"Verified", "Claimed">>}
    <3>1. CASE VerifyContribution(id)
      BY <3>1 DEF VerifyContribution
    <3>2. CASE RejectContribution(id)
      BY <3>2 DEF RejectContribution
    <3>3. CASE ClaimContribution(id)
      BY <3>3 DEF ClaimContribution
    <3> QED BY <1>4, <3>1, <3>2, <3>3
  <2>2. /\ RecordsInv'
        /\ contributions[id].status = from /\ contributions'[id].status = to
        /\ \A i \in DOMAIN contributions : i # id => contributions'[i] = contributions[i]
    BY <2>1, Becomes
  <2> QED BY <2>1, <2>2 DEF StatusMovesForward
<1>5. CASE UNCHANGED contributionVars
  <2>1. RecordsInv'
    BY <1>5, SameRecords DEF contributionVars, RecordsInv, RecordTypes
  <2> QED BY <1>5, <2>1
<1> QED BY <1>2, <1>3, <1>4, <1>5 DEF ContributionNext

\* Records and all that leads to them, as an invariant of the specification.
THEOREM RecordsInvariant == ContributionSpec => []RecordsInv
<1>1. RecordsInv /\ [ContributionNext]_contributionVars => RecordsInv'
  BY RecordsStep
<1> QED BY <1>1, RecordsStart, PTL DEF ContributionSpec

\* However records are made, alone or in batches, verified, rejected and claimed:
\* totals count every one of them, a hash leads to the last record with it, and the
\* indexes have each record once and in order.
THEOREM RecordsAlwaysSound == ContributionSpec => []RecordsSound
<1>1. RecordsInv => RecordsSound
  BY DEF RecordsInv
<1> QED BY <1>1, RecordsInvariant, PTL

\* A status never moves but from pending to verified or rejected, and from verified
\* to claimed.
THEOREM StatusAlwaysMovesForward == ContributionSpec => [][StatusMovesForward]_contributionVars
<1>1. RecordsInv /\ [ContributionNext]_contributionVars => [StatusMovesForward]_contributionVars
  BY RecordsStep
<1> QED BY <1>1, RecordsInvariant, PTL DEF ContributionSpec

-----------------------------------------------------------------------------
(* The deployment service.                                                 *)

\* What a queue holds; whether a request waits or is in the processor's hand.
In(q, r) == \E i \in DOMAIN q : q[i] = r
Distinct(q) == \A i, j \in DOMAIN q : q[i] = q[j] => i = j
UnderWay(r) == In(queue, r) \/ hand = r

\* Where a call is before it has queued its request, and where it can be.
Before == {"new", "check", "drop", "store", "map", "enqueue"}
Calls == Before \union {"cleanStatus", "cleanMapping", "accepted", "refused", "gone"}
Statuses == {"none", "pending", "processing", "deployed", "failed"}
Steps == {"idle", "start", "deploying", "minted", "failing"}

\* Where calls and the processor may be.
DeploymentTypes ==
  /\ creating \in [Requests -> Calls] /\ seen \in [Requests -> Requests \union {NoRequest}]
  /\ status \in [Requests -> Statuses] /\ mapping \in Requests \union {NoRequest}
  /\ queue \in Seq(Requests) /\ hand \in Requests \union {NoRequest}
  /\ step \in Steps /\ token \in Requests \union {NoRequest}
  /\ lost \subseteq Requests /\ interrupted \subseteq Requests
  /\ (step = "idle") <=> (hand = NoRequest)

\* A request has a status from its first write to its clean-up.
StatusFollowsCall ==
  \A r \in Requests :
    creating[r] \in {"new", "check", "drop", "store", "cleanMapping"} => status[r] = "none"

\* A request is queued once, before it is worked on, and worked on before it has
\* deployed anything.
QueuedOnce ==
  /\ Distinct(queue)
  /\ \A r \in Requests :
       /\ creating[r] \in Before => ~UnderWay(r) /\ token # r
       /\ In(queue, r) => hand # r /\ token # r
  /\ step \in {"start", "deploying"} => token # hand

\* What the processor has done for the request in its hand.
HandMatchesToken ==
  /\ step = "minted" => token = hand
  /\ step = "failing" /\ token = hand => hand \in interrupted
  /\ step \in {"deploying", "minted"} => status[hand] # "failed"

\* While nothing was disturbed, calls do not overlap, and whoever gets past the
\* look-up is alone.
OneCallAtATime ==
  ~disturbed =>
    /\ \A r, s \in Requests : creating[r] \notin Answered /\ creating[s] \notin Answered => r = s
    /\ \A r \in Requests : UnderWay(r) =>
         /\ creating[r] = "accepted" /\ mapping = r
         /\ status[r] \in {"pending", "processing", "deployed"}
         /\ \A s \in Requests : creating[s] \in Answered \/ (creating[s] = "check" /\ seen[s] = r)
    /\ \A r \in Requests :
         /\ creating[r] \in {"map", "enqueue"} => status[r] = "pending"
         /\ creating[r] = "enqueue" => mapping = r

\* A request, its call, its status and its token fit together.
DeploymentInv ==
  /\ DeploymentTypes /\ StatusFollowsCall /\ PendingIsUnderWay
  /\ QueuedOnce /\ HandMatchesToken /\ StatusMatchesToken /\ OneCallAtATime

\* A request joins a queue that does not hold it.
LEMMA InAppended ==
  ASSUME NEW q \in Seq(Requests), NEW x \in Requests
  PROVE  /\ Append(q, x) \in Seq(Requests)
         /\ \A y : In(Append(q, x), y) <=> In(q, y) \/ y = x
         /\ Distinct(q) /\ ~In(q, x) => Distinct(Append(q, x))
<1> DEFINE p == Append(q, x)
<1>1. p \in Seq(Requests) /\ Len(p) = Len(q) + 1 /\ p[Len(q) + 1] = x
      /\ \A i \in 1..Len(q) : p[i] = q[i]
  OBVIOUS
<1> HIDE DEF p
<1>2. ASSUME NEW y PROVE In(p, y) <=> In(q, y) \/ y = x
  <2>1. ASSUME In(p, y) PROVE In(q, y) \/ y = x
    BY <1>1, <2>1 DEF In
  <2>2. ASSUME In(q, y) PROVE In(p, y)
    BY <1>1, <2>2 DEF In
  <2>3. In(p, x)
    <3>1. Len(q) + 1 \in DOMAIN p
      BY <1>1
    <3> QED BY <1>1, <3>1 DEF In
  <2> QED BY <2>1, <2>2, <2>3
<1>3. ASSUME Distinct(q), ~In(q, x) PROVE Distinct(p)
  BY <1>1, <1>3 DEF Distinct, In
<1> QED BY <1>1, <1>2, <1>3 DEF p

\* What heads a queue leaves it, and is in it no more.
LEMMA InTaken ==
  ASSUME NEW q \in Seq(Requests), q # <<>>
  PROVE  /\ Head(q) \in Requests /\ Tail(q) \in Seq(Requests)
         /\ \A y : In(q, y) <=> In(Tail(q), y) \/ y = Head(q)
         /\ Distinct(q) => Distinct(Tail(q)) /\ ~In(Tail(q), Head(q))
<1> DEFINE p == Tail(q)
<1>1. /\ p \in Seq(Requests) /\ Len(p) = Len(q) - 1 /\ Len(q) \in Nat \ {0} /\ Head(q) = q[1]
      /\ \A i \in 1..Len(p) : p[i] = q[i + 1]
  OBVIOUS
<1> HIDE DEF p
<1>2. ASSUME NEW y PROVE In(q, y) <=> In(p, y) \/ y = q[1]
  <2>1. ASSUME In(q, y), y # q[1] PROVE In(p, y)
    <3>1. PICK i \in DOMAIN q : q[i] = y
      BY <2>1 DEF In
    <3>2. i - 1 \in 1..Len(p) /\ p[i - 1] = y
      BY <1>1, <2>1, <3>1
    <3> QED BY <1>1, <3>2 DEF In
  <2>2. ASSUME In(p, y) PROVE In(q, y)
    <3>1. PICK i \in DOMAIN p : p[i] = y
      BY <2>2 DEF In
    <3>2. i + 1 \in DOMAIN q /\ q[i + 1] = y
      BY <1>1, <3>1
    <3> QED BY <3>2 DEF In
  <2>3. In(q, q[1])
    <3>1. 1 \in DOMAIN q
      BY <1>1
    <3> QED BY <3>1 DEF In
  <2> QED BY <2>1, <2>2, <2>3
<1>3. ASSUME Distinct(q) PROVE Distinct(p) /\ ~In(p, q[1])
  <2>1. \A i \in DOMAIN p : /\ i + 1 \in DOMAIN q /\ 1 \in DOMAIN q /\ i + 1 # 1
                            /\ p[i] = q[i + 1] /\ i \in Nat
    BY <1>1
  <2>2. Distinct(p)
    BY <1>3, <2>1 DEF Distinct
  <2>3. ~In(p, q[1])
    BY <1>3, <2>1 DEF Distinct, In
  <2> QED BY <2>2, <2>3
<1>4. q[1] \in Requests
  OBVIOUS
<1> QED BY <1>1, <1>2, <1>3, <1>4 DEF p

\* The types of calls and keys.
LEMMA DeploymentState ==
  ASSUME DeploymentInv
  PROVE  /\ creating \in [Requests -> Calls] /\ seen \in [Requests -> Requests \union {NoRequest}]
         /\ status \in [Requests -> Statuses] /\ mapping \in Requests \union {NoRequest}
         /\ queue \in Seq(Requests) /\ hand \in Requests \union {NoRequest}
         /\ step \in Steps /\ token \in Requests \union {NoRequest}
         /\ lost \subseteq Requests /\ interrupted \subseteq Requests
         /\ (step = "idle") <=> (hand = NoRequest)
         /\ NoRequest \notin Requests
  BY DeploymentConstants DEF DeploymentConstants, DeploymentInv, DeploymentTypes

\* The look-up finds whatever request is under way.
LEMMA LookUpKeeps ==
  ASSUME DeploymentInv, NEW r \in Requests, LookUp(r)
  PROVE  DeploymentInv'
<1>1. /\ creating[r] = "new" /\ seen' = [seen EXCEPT ![r] = mapping]
      /\ creating' = [creating EXCEPT ![r] = IF mapping = NoRequest THEN "store" ELSE "check"]
      /\ disturbed' = (disturbed \/ \E s \in Requests : creating[s] \notin Answered)
      /\ UNCHANGED <<status, mapping, queue, hand, step, token, lost, interrupted>>
  BY DEF LookUp, GoTo, redisVars, processorVars
<1>2. DeploymentTypes'
  BY <1>1, DeploymentState DEF DeploymentInv, DeploymentTypes, Calls, Before, Statuses, Steps
<1>3. StatusFollowsCall'
  BY <1>1, DeploymentState DEF DeploymentInv, StatusFollowsCall
<1>4. PendingIsUnderWay'
  BY <1>1, DeploymentState DEF DeploymentInv, PendingIsUnderWay, Queued, In, Answered
<1>5. QueuedOnce'
  BY <1>1, DeploymentState DEF DeploymentInv, QueuedOnce, UnderWay, Before
<1>6. HandMatchesToken'
  BY <1>1, DeploymentState DEF DeploymentInv, HandMatchesToken
<1>7. StatusMatchesToken'
  BY <1>1, DeploymentState DEF DeploymentInv, StatusMatchesToken
<1>8. OneCallAtATime'
  <2> SUFFICES ASSUME ~disturbed' PROVE OneCallAtATime'
    BY DEF OneCallAtATime
  <2>1. ~disturbed /\ \A s \in Requests : creating[s] \in Answered
    BY <1>1
  <2>2. \A s \in Requests : s # r => creating'[s] = creating[s] /\ creating'[s] \in Answered
    BY <1>1, <2>1, DeploymentState
  <2>3. ASSUME NEW s \in Requests, UnderWay(s)
        PROVE  /\ s # r /\ creating[s] = "accepted" /\ mapping = s
               /\ status[s] \in {"pending", "processing", "deployed"}
    BY <1>1, <2>1, <2>3 DEF DeploymentInv, OneCallAtATime
  <2>4. ASSUME NEW s \in Requests, UnderWay(s)
        PROVE  creating'[r] = "check" /\ seen'[r] = s
    BY <1>1, <2>3, <2>4, DeploymentState
  <2>5. creating'[r] \notin {"map", "enqueue"}
    BY <1>1, DeploymentState
  <2>6. \A s \in Requests : creating'[s] \notin {"map", "enqueue"}
    BY <2>2, <2>5 DEF Answered
  <2>7. \A s \in Requests : UnderWay(s)' <=> UnderWay(s)
    BY <1>1 DEF UnderWay
  <2> QED BY <1>1, <2>2, <2>3, <2>4, <2>6, <2>7 DEF OneCallAtATime
<1> QED BY <1>2, <1>3, <1>4, <1>5, <1>6, <1>7, <1>8 DEF DeploymentInv

\* A request that is under way refuses the one that has found it.
LEMMA CheckExistingKeeps ==
  ASSUME DeploymentInv, NEW r \in Requests, CheckExisting(r)
  PROVE  DeploymentInv'
<1>1. /\ creating[r] = "check" /\ UNCHANGED <<seen, status, mapping, queue, hand, step, token>>
      /\ creating' = [creating EXCEPT ![r] =
           CASE status[seen[r]] = "none" -> "drop"
             [] status[seen[r]] \in {"deployed", "pending", "processing"} -> "refused"
             [] OTHER -> "store"]
      /\ UNCHANGED <<lost, interrupted, disturbed>>
  BY DEF CheckExisting, GoTo, redisVars, processorVars, apiHistory
<1>2. DeploymentTypes'
  BY <1>1, DeploymentState DEF DeploymentInv, DeploymentTypes, Calls, Before, Statuses, Steps
<1>3. StatusFollowsCall'
  BY <1>1, DeploymentState DEF DeploymentInv, StatusFollowsCall
<1>4. PendingIsUnderWay'
  <2>1. status[r] = "none"
    BY <1>1 DEF DeploymentInv, StatusFollowsCall
  <2> QED BY <1>1, <2>1, DeploymentState DEF DeploymentInv, PendingIsUnderWay, Queued, In
<1>5. QueuedOnce'
  BY <1>1, DeploymentState DEF DeploymentInv, QueuedOnce, UnderWay, Before
<1>6. HandMatchesToken'
  BY <1>1, DeploymentState DEF DeploymentInv, HandMatchesToken
<1>7. StatusMatchesToken'
  BY <1>1, DeploymentState DEF DeploymentInv, StatusMatchesToken
<1>8. OneCallAtATime'
  BY <1>1, DeploymentState DEF DeploymentInv, OneCallAtATime, UnderWay, Answered
<1> QED BY <1>2, <1>3, <1>4, <1>5, <1>6, <1>7, <1>8 DEF DeploymentInv

\* Whoever deletes the mapping is alone, if nothing was disturbed.
LEMMA DropMappingKeeps ==
  ASSUME DeploymentInv, NEW r \in Requests, DropMapping(r)
  PROVE  DeploymentInv'
<1>1. /\ creating[r] = "drop" /\ creating' = [creating EXCEPT ![r] = "store"] /\ mapping' = NoRequest
      /\ UNCHANGED <<seen, status, queue, hand, step, token, lost, interrupted, disturbed>>
  BY DEF DropMapping, GoTo, processorVars, apiHistory
<1>2. DeploymentTypes'
  BY <1>1, DeploymentState DEF DeploymentInv, DeploymentTypes, Calls, Before, Statuses, Steps
<1>3. StatusFollowsCall'
  BY <1>1, DeploymentState DEF DeploymentInv, StatusFollowsCall
<1>4. PendingIsUnderWay'
  BY <1>1, DeploymentState DEF DeploymentInv, PendingIsUnderWay, Queued, In, Answered
<1>5. QueuedOnce'
  BY <1>1, DeploymentState DEF DeploymentInv, QueuedOnce, UnderWay, Before
<1>6. HandMatchesToken'
  BY <1>1, DeploymentState DEF DeploymentInv, HandMatchesToken
<1>7. StatusMatchesToken'
  BY <1>1, DeploymentState DEF DeploymentInv, StatusMatchesToken
<1>8. OneCallAtATime'
  BY <1>1, DeploymentState DEF DeploymentInv, OneCallAtATime, UnderWay, Answered
<1> QED BY <1>2, <1>3, <1>4, <1>5, <1>6, <1>7, <1>8 DEF DeploymentInv

\* The three writes of a request, and its place in the queue.
LEMMA StoreRequestKeeps ==
  ASSUME DeploymentInv, NEW r \in Requests, StoreRequest(r)
  PROVE  DeploymentInv'
<1>1. /\ UNCHANGED <<seen, hand, step, token, lost, interrupted, disturbed>>
      /\ \/ /\ creating[r] = "store" /\ creating' = [creating EXCEPT ![r] = "map"]
            /\ status' = [status EXCEPT ![r] = "pending"] /\ mapping' = mapping /\ queue' = queue
         \/ /\ creating[r] = "map" /\ creating' = [creating EXCEPT ![r] = "enqueue"]
            /\ mapping' = r /\ status' = status /\ queue' = queue
         \/ /\ creating[r] = "enqueue" /\ creating' = [creating EXCEPT ![r] = "accepted"]
            /\ queue' = Append(queue, r) /\ status' = status /\ mapping' = mapping
  BY DEF StoreRequest, Write, GoTo, processorVars, apiHistory
<1>2. /\ queue' \in Seq(Requests)
      /\ \A y : In(queue', y) <=> In(queue, y) \/ (creating[r] = "enqueue" /\ y = r)
      /\ Distinct(queue) /\ ~In(queue, r) => Distinct(queue')
  <2>1. CASE creating[r] = "enqueue"
    <3>1. queue' = Append(queue, r) /\ queue \in Seq(Requests)
      BY <1>1, <2>1, DeploymentState
    <3> QED BY <2>1, <3>1, InAppended
  <2>2. CASE creating[r] # "enqueue"
    BY <1>1, <2>2, DeploymentState
  <2> QED BY <2>1, <2>2
<1>3. ~In(queue, r) /\ hand # r /\ token # r
  BY <1>1 DEF DeploymentInv, QueuedOnce, UnderWay, Before
<1>4. creating' \in [Requests -> Calls] /\ status' \in [Requests -> Statuses]
  BY <1>1, DeploymentState DEF Calls, Before, Statuses
<1>5. DeploymentTypes'
  BY <1>1, <1>2, <1>4, DeploymentState DEF DeploymentInv, DeploymentTypes
<1>6. StatusFollowsCall'
  BY <1>1, DeploymentState DEF DeploymentInv, StatusFollowsCall
<1>7. PendingIsUnderWay'
  <2> SUFFICES ASSUME NEW s \in Requests, status'[s] \in {"pending", "processing"}
               PROVE  creating'[s] \notin Answered \/ In(queue', s) \/ hand' = s \/ s \in lost'
    BY DEF PendingIsUnderWay, Queued, In
  <2>1. CASE s = r
    BY <1>1, <1>2, <2>1, DeploymentState DEF Answered
  <2>2. CASE s # r
    BY <1>1, <1>2, <2>2, DeploymentState DEF DeploymentInv, PendingIsUnderWay, Queued, In
  <2> QED BY <2>1, <2>2
<1>8. QueuedOnce'
  <2>1. \A s \in Requests : creating'[s] \in Before => creating[s] \in Before
    BY <1>1, DeploymentState DEF Before
  <2> QED BY <1>1, <1>2, <1>3, <2>1, DeploymentState DEF DeploymentInv, QueuedOnce, UnderWay, Before
<1>9. HandMatchesToken'
  BY <1>1, <1>3, DeploymentState DEF DeploymentInv, DeploymentTypes, HandMatchesToken
<1>10. StatusMatchesToken'
  BY <1>1, DeploymentState DEF DeploymentInv, StatusMatchesToken
<1>11. OneCallAtATime'
  <2> SUFFICES ASSUME ~disturbed PROVE OneCallAtATime'
    BY <1>1 DEF OneCallAtATime
  <2>1. creating[r] \notin Answered /\ creating[r] # "check"
    BY <1>1 DEF Answered
  <2>2. \A s \in Requests : creating'[s] \notin Answered => s = r
    BY <1>1, <2>1, DeploymentState DEF DeploymentInv, OneCallAtATime
  <2>3. \A s \in Requests : ~UnderWay(s)
    BY <2>1 DEF DeploymentInv, OneCallAtATime
  <2>4. \A s \in Requests : UnderWay(s)' => s = r /\ creating[r] = "enqueue"
    BY <1>1, <1>2, <2>3 DEF UnderWay
  <2>5. \A s \in Requests : s # r => creating[s] \in Answered
    BY <2>1 DEF DeploymentInv, OneCallAtATime
  <2>6. creating[r] = "enqueue" => /\ creating'[r] = "accepted" /\ mapping' = r /\ status'[r] = "pending"
    BY <1>1, DeploymentState DEF DeploymentInv, OneCallAtATime
  <2>7. \A s \in Requests :
          /\ creating'[s] \in {"map", "enqueue"} => status'[s] = "pending"
          /\ creating'[s] = "enqueue" => mapping' = s
    BY <1>1, <2>5, DeploymentState DEF DeploymentInv, OneCallAtATime, Answered
  <2>8. creating[r] = "enqueue" => \A s \in Requests : creating'[s] \in Answered
    BY <1>1, <2>5, <2>6, DeploymentState DEF Answered
  <2> QED BY <2>2, <2>4, <2>6, <2>7, <2>8 DEF OneCallAtATime
<1> QED BY <1>5, <1>6, <1>7, <1>8, <1>9, <1>10, <1>11 DEF DeploymentInv

\* A clean-up ends without a status.
LEMMA CleanUpKeeps ==
  ASSUME DeploymentInv, NEW r \in Requests, CleanUp(r)
  PROVE  DeploymentInv'
<1>1. /\ UNCHANGED <<seen, queue, hand, step, token, lost, interrupted, disturbed>>
      /\ \/ /\ creating[r] = "cleanStatus" /\ creating' = [creating EXCEPT ![r] = "cleanMapping"]
            /\ status' = [status EXCEPT ![r] = "none"] /\ mapping' = mapping
         \/ /\ creating[r] = "cleanMapping" /\ creating' = [creating EXCEPT ![r] = "refused"]
            /\ mapping' = NoRequest /\ status' = status
  BY DEF CleanUp, Delete, GoTo, processorVars, apiHistory
<1>2. DeploymentTypes'
  BY <1>1, DeploymentState DEF DeploymentInv, DeploymentTypes, Calls, Before, Statuses, Steps
<1>3. StatusFollowsCall'
  BY <1>1, DeploymentState DEF DeploymentInv, StatusFollowsCall
<1>4. PendingIsUnderWay'
  BY <1>1, DeploymentState DEF DeploymentInv, PendingIsUnderWay, Queued, In, Answered, StatusFollowsCall
<1>5. QueuedOnce'
  BY <1>1, DeploymentState DEF DeploymentInv, QueuedOnce, UnderWay, Before
<1>6. HandMatchesToken'
  BY <1>1, DeploymentState DEF DeploymentInv, HandMatchesToken
<1>7. StatusMatchesToken'
  BY <1>1, DeploymentState DEF DeploymentInv, StatusMatchesToken
<1>8. OneCallAtATime'
  BY <1>1, DeploymentState DEF DeploymentInv, OneCallAtATime, UnderWay, Answered
<1> QED BY <1>2, <1>3, <1>4, <1>5, <1>6, <1>7, <1>8 DEF DeploymentInv

\* A call that fails, its write done or not.
LEMMA CreateFailsKeeps ==
  ASSUME DeploymentInv, NEW r \in Requests, CreateFails(r)
  PROVE  DeploymentInv'
<1>1. /\ UNCHANGED <<seen, hand, step, token, interrupted>>
      /\ \/ /\ creating[r] = "new" /\ creating' = [creating EXCEPT ![r] = "refused"]
            /\ UNCHANGED <<status, mapping, queue, lost, disturbed>>
         \/ /\ creating[r] = "drop" /\ creating' = [creating EXCEPT ![r] = "refused"]
            /\ mapping' \in {mapping, NoRequest} /\ UNCHANGED <<status, queue, lost, disturbed>>
         \/ /\ creating[r] = "check" /\ creating' = [creating EXCEPT ![r] = "drop"] /\ disturbed' = TRUE
            /\ UNCHANGED <<status, mapping, queue, lost>>
         \/ /\ creating[r] \in {"store", "map", "enqueue"}
            /\ creating' = [creating EXCEPT ![r] = "cleanStatus"] /\ lost' = lost
            /\ \/ /\ disturbed' = (disturbed \/ creating[r] = "enqueue")
                  /\ \/ /\ creating[r] = "store" /\ status' = [status EXCEPT ![r] = "pending"]
                        /\ UNCHANGED <<mapping, queue>>
                     \/ creating[r] = "map" /\ mapping' = r /\ UNCHANGED <<status, queue>>
                     \/ /\ creating[r] = "enqueue" /\ queue' = Append(queue, r)
                        /\ UNCHANGED <<status, mapping>>
               \/ UNCHANGED <<status, mapping, queue, disturbed>>
         \/ /\ creating[r] \in {"cleanStatus", "cleanMapping"}
            /\ creating' = [creating EXCEPT ![r] = "refused"] /\ lost' = lost \union {r}
            /\ status' = status \/ status' = [status EXCEPT ![r] = "none"]
            /\ mapping' \in {mapping, NoRequest} /\ UNCHANGED <<queue, disturbed>>
  <2>1. CASE creating[r] = "new"
    BY <2>1 DEF CreateFails, Write, GoTo, redisVars, processorVars
  <2>2. CASE creating[r] = "drop"
    BY <2>2 DEF CreateFails, Write, GoTo, redisVars, processorVars
  <2>3. CASE creating[r] = "check"
    BY <2>3 DEF CreateFails, Write, GoTo, redisVars, processorVars
  <2>4. CASE creating[r] \in {"store", "map", "enqueue"}
    BY <2>4 DEF CreateFails, Write, GoTo, redisVars, processorVars
  <2>5. CASE creating[r] \in {"cleanStatus", "cleanMapping"}
    BY <2>5 DEF CreateFails, Delete, GoTo, redisVars, processorVars
  <2> QED BY <2>1, <2>2, <2>3, <2>4, <2>5 DEF CreateFails
<1>2. /\ queue' \in Seq(Requests)
      /\ \A y : In(queue, y) => In(queue', y)
      /\ \A y : In(queue', y) => In(queue, y) \/ (creating[r] = "enqueue" /\ y = r)
      /\ Distinct(queue) /\ ~In(queue, r) => Distinct(queue')
  <2>1. CASE queue' = Append(queue, r) /\ creating[r] = "enqueue"
    <3>1. queue \in Seq(Requests)
      BY DeploymentState
    <3> QED BY <2>1, <3>1, InAppended
  <2>2. CASE queue' = queue
    BY <2>2, DeploymentState
  <2> QED BY <1>1, <2>1, <2>2
<1>3. DeploymentTypes'
  BY <1>1, <1>2, DeploymentState
  DEF DeploymentInv, DeploymentTypes, Calls, Before, Statuses, Steps
<1>4. StatusFollowsCall'
  BY <1>1, DeploymentState DEF DeploymentInv, StatusFollowsCall
<1>5. PendingIsUnderWay'
  <2> SUFFICES ASSUME NEW s \in Requests, status'[s] \in {"pending", "processing"}
               PROVE  creating'[s] \notin Answered \/ In(queue', s) \/ hand' = s \/ s \in lost'
    BY DEF PendingIsUnderWay, Queued, In
  <2>1. CASE s = r
    BY <1>1, <2>1, DeploymentState DEF DeploymentInv, StatusFollowsCall, Answered
  <2>2. CASE s # r
    <3>1. /\ creating'[s] = creating[s] /\ status'[s] = status[s] /\ hand' = hand
          /\ s \in lost => s \in lost'
      BY <1>1, <2>2, DeploymentState
    <3>2. creating[s] \notin Answered \/ In(queue, s) \/ hand = s \/ s \in lost
      BY <3>1 DEF DeploymentInv, PendingIsUnderWay, Queued, In
    <3> QED BY <1>2, <3>1, <3>2
  <2> QED BY <2>1, <2>2
<1>6. QueuedOnce'
  <2>1. \A s \in Requests : creating'[s] \in Before => creating[s] \in Before /\ (s # r \/ creating'[r] = "drop")
    BY <1>1, DeploymentState DEF Before
  <2>2. (~In(queue, r) /\ hand # r /\ token # r) \/ queue' = queue
    BY <1>1 DEF DeploymentInv, QueuedOnce, UnderWay, Before
  <2>3. creating[r] = "enqueue" => creating'[r] = "cleanStatus"
    BY <1>1, DeploymentState
  <2> QED BY <1>1, <1>2, <2>1, <2>2, <2>3, DeploymentState DEF DeploymentInv, QueuedOnce, UnderWay, Before
<1>7. HandMatchesToken'
  BY <1>1, DeploymentState DEF DeploymentInv, HandMatchesToken
<1>8. StatusMatchesToken'
  BY <1>1, DeploymentState DEF DeploymentInv, StatusMatchesToken
<1>9. OneCallAtATime'
  <2> SUFFICES ASSUME ~disturbed' PROVE OneCallAtATime'
    BY DEF OneCallAtATime
  <2>1. ~disturbed /\ creating[r] # "check" /\ queue' = queue /\ hand' = hand /\ seen' = seen
    <3>1. ~disturbed
      BY <1>1
    <3>2. creating[r] # "check" /\ hand' = hand /\ seen' = seen
      BY <1>1
    <3>3. queue' = queue
      BY <1>1
    <3> QED BY <3>1, <3>2, <3>3
  <2>2. \A s \in Requests : s # r => creating'[s] = creating[s] /\ status'[s] = status[s]
    BY <1>1, DeploymentState
  <2>3. creating'[r] \in {"refused", "cleanStatus"}
    BY <1>1, <2>1, DeploymentState
  <2>4. \A s \in Requests : UnderWay(s)' <=> UnderWay(s)
    BY <2>1 DEF UnderWay
  <2>5. CASE creating[r] = "new"
    <3>1. mapping' = mapping /\ status' = status /\ creating'[r] = "refused"
      BY <1>1, <2>5, DeploymentState
    <3> QED BY <2>1, <2>2, <2>4, <2>5, <3>1 DEF DeploymentInv, OneCallAtATime, Answered
  <2>6. CASE creating[r] # "new"
    <3>1. creating[r] \notin Answered
      BY <1>1, <2>6 DEF Answered
    <3>2. \A s \in Requests : ~UnderWay(s)
      BY <2>1, <3>1 DEF DeploymentInv, OneCallAtATime
    <3>3. \A s \in Requests : s # r => creating[s] \in Answered
      BY <2>1, <3>1 DEF DeploymentInv, OneCallAtATime
    <3> QED BY <2>2, <2>3, <2>4, <3>2, <3>3 DEF OneCallAtATime, Answered
  <2> QED BY <2>5, <2>6
<1> QED BY <1>3, <1>4, <1>5, <1>6, <1>7, <1>8, <1>9 DEF DeploymentInv

\* What is taken off the queue is in the processor's hand.
LEMMA DequeueKeeps ==
  ASSUME DeploymentInv, Dequeue
  PROVE  DeploymentInv'
<1>1. /\ step = "idle" /\ queue # <<>> /\ hand' = Head(queue) /\ queue' = Tail(queue) /\ step' = "start"
      /\ UNCHANGED <<creating, seen, status, mapping, token, lost, interrupted, disturbed>>
  BY DEF Dequeue, apiHistory
<1>2. /\ queue' \in Seq(Requests) /\ hand' \in Requests /\ hand = NoRequest
      /\ \A y : In(queue, y) <=> In(queue', y) \/ y = hand'
      /\ Distinct(queue) => Distinct(queue') /\ ~In(queue', hand')
  <2>1. queue \in Seq(Requests) /\ queue # <<>> /\ hand' = Head(queue) /\ queue' = Tail(queue)
    BY <1>1, DeploymentState
  <2>2. hand = NoRequest
    BY <1>1, DeploymentState
  <2> QED BY <2>1, <2>2, InTaken
<1>3. DeploymentTypes'
  BY <1>1, <1>2, DeploymentState
  DEF DeploymentInv, DeploymentTypes, Calls, Before, Statuses, Steps
<1>4. StatusFollowsCall'
  BY <1>1, DeploymentState DEF DeploymentInv, StatusFollowsCall
<1>5. PendingIsUnderWay'
  <2> SUFFICES ASSUME NEW s \in Requests, status'[s] \in {"pending", "processing"}
               PROVE  creating'[s] \notin Answered \/ In(queue', s) \/ hand' = s \/ s \in lost'
    BY DEF PendingIsUnderWay, Queued, In
  <2>1. creating[s] \notin Answered \/ In(queue, s) \/ hand = s \/ s \in lost
    BY <1>1 DEF DeploymentInv, PendingIsUnderWay, Queued, In
  <2> QED BY <1>1, <1>2, <2>1, DeploymentState
<1>6. QueuedOnce'
  BY <1>1, <1>2, DeploymentState DEF DeploymentInv, QueuedOnce, UnderWay, Before
<1>7. HandMatchesToken'
  BY <1>1, DeploymentState DEF DeploymentInv, HandMatchesToken
<1>8. StatusMatchesToken'
  BY <1>1, DeploymentState DEF DeploymentInv, StatusMatchesToken
<1>9. OneCallAtATime'
  <2>1. \A s \in Requests : UnderWay(s)' => UnderWay(s)
    BY <1>1, <1>2 DEF UnderWay
  <2> QED BY <1>1, <2>1 DEF DeploymentInv, OneCallAtATime, Answered
<1> QED BY <1>3, <1>4, <1>5, <1>6, <1>7, <1>8, <1>9 DEF DeploymentInv

\* What a lost reply takes off the queue is recorded as lost.
LEMMA DequeueReplyLostKeeps ==
  ASSUME DeploymentInv, DequeueReplyLost
  PROVE  DeploymentInv'
<1>1. /\ queue # <<>> /\ queue' = Tail(queue) /\ lost' = lost \union {Head(queue)}
      /\ UNCHANGED <<creating, seen, status, mapping, hand, step, token, interrupted, disturbed>>
  BY DEF DequeueReplyLost, processorVars
<1>2. /\ queue' \in Seq(Requests) /\ Head(queue) \in Requests
      /\ \A y : In(queue, y) <=> In(queue', y) \/ y = Head(queue)
      /\ Distinct(queue) => Distinct(queue')
  <2>1. queue \in Seq(Requests)
    BY DeploymentState
  <2> QED BY <1>1, <2>1, InTaken
<1>3. DeploymentTypes'
  BY <1>1, <1>2, DeploymentState
  DEF DeploymentInv, DeploymentTypes, Calls, Before, Statuses, Steps
<1>4. StatusFollowsCall'
  BY <1>1 DEF DeploymentInv, StatusFollowsCall
<1>5. PendingIsUnderWay'
  <2> SUFFICES ASSUME NEW s \in Requests, status'[s] \in {"pending", "processing"}
               PROVE  creating'[s] \notin Answered \/ In(queue', s) \/ hand' = s \/ s \in lost'
    BY DEF PendingIsUnderWay, Queued, In
  <2>1. creating[s] \notin Answered \/ In(queue, s) \/ hand = s \/ s \in lost
    BY <1>1 DEF DeploymentInv, PendingIsUnderWay, Queued, In
  <2> QED BY <1>1, <1>2, <2>1
<1>6. QueuedOnce'
  BY <1>1, <1>2 DEF DeploymentInv, QueuedOnce, UnderWay, Before
<1>7. HandMatchesToken' /\ StatusMatchesToken'
  BY <1>1 DEF DeploymentInv, HandMatchesToken, StatusMatchesToken
<1>8. OneCallAtATime'
  <2>1. \A s \in Requests : UnderWay(s)' => UnderWay(s)
    BY <1>1, <1>2 DEF UnderWay
  <2> QED BY <1>1, <2>1 DEF DeploymentInv, OneCallAtATime, Answered
<1> QED BY <1>3, <1>4, <1>5, <1>6, <1>7, <1>8 DEF DeploymentInv

\* Work on a request begins, if its status is still there.
LEMMA BeginDeploymentKeeps ==
  ASSUME DeploymentInv, BeginDeployment
  PROVE  DeploymentInv'
<1>1. /\ step = "start" /\ UNCHANGED <<creating, seen, mapping, queue, token, lost, interrupted, disturbed>>
      /\ \/ /\ status[hand] = "none" /\ step' = "failing" /\ UNCHANGED <<status, hand>>
         \/ /\ status[hand] # "none" /\ status' = [status EXCEPT ![hand] = "processing"]
            /\ step' = "deploying" /\ hand' = hand
  BY DEF BeginDeployment, UpdateStatus, apiHistory
<1>2. DeploymentTypes'
  BY <1>1, DeploymentState DEF DeploymentInv, DeploymentTypes, Calls, Before, Statuses, Steps
<1>3. StatusFollowsCall'
  BY <1>1, DeploymentState DEF DeploymentInv, StatusFollowsCall
<1>4. PendingIsUnderWay'
  BY <1>1, DeploymentState DEF DeploymentInv, PendingIsUnderWay, Queued, In, Answered
<1>5. QueuedOnce'
  BY <1>1, DeploymentState DEF DeploymentInv, QueuedOnce, UnderWay, Before
<1>6. HandMatchesToken'
  BY <1>1, DeploymentState DEF DeploymentInv, HandMatchesToken, QueuedOnce
<1>7. StatusMatchesToken'
  BY <1>1, DeploymentState DEF DeploymentInv, StatusMatchesToken
<1>8. OneCallAtATime'
  BY <1>1, DeploymentState DEF DeploymentInv, OneCallAtATime, UnderWay, Answered
<1> QED BY <1>2, <1>3, <1>4, <1>5, <1>6, <1>7, <1>8 DEF DeploymentInv

\* One token for the model.
LEMMA DeployModelTokenKeeps ==
  ASSUME DeploymentInv, DeployModelToken
  PROVE  DeploymentInv'
<1>1. /\ step = "deploying" /\ UNCHANGED <<creating, seen, status, mapping, queue, hand, lost, disturbed>>
      /\ \/ token = NoRequest /\ token' = hand /\ step' = "minted" /\ UNCHANGED interrupted
         \/ /\ token = NoRequest /\ token' = hand /\ step' = "failing"
            /\ interrupted' = interrupted \union {hand}
         \/ step' = "failing" /\ UNCHANGED <<token, interrupted>>
  BY DEF DeployModelToken, redisVars
<1>2. DeploymentTypes'
  BY <1>1, DeploymentState DEF DeploymentInv, DeploymentTypes, Calls, Before, Statuses, Steps
<1>3. StatusFollowsCall'
  BY <1>1, DeploymentState DEF DeploymentInv, StatusFollowsCall
<1>4. PendingIsUnderWay'
  BY <1>1, DeploymentState DEF DeploymentInv, PendingIsUnderWay, Queued, In, Answered
<1>5. QueuedOnce'
  BY <1>1, DeploymentState DEF DeploymentInv, QueuedOnce, UnderWay, Before
<1>6. HandMatchesToken'
  BY <1>1, DeploymentState DEF DeploymentInv, HandMatchesToken, QueuedOnce
<1>7. StatusMatchesToken'
  BY <1>1, DeploymentState DEF DeploymentInv, StatusMatchesToken, HandMatchesToken
<1>8. OneCallAtATime'
  BY <1>1, DeploymentState DEF DeploymentInv, OneCallAtATime, UnderWay, Answered
<1> QED BY <1>2, <1>3, <1>4, <1>5, <1>6, <1>7, <1>8 DEF DeploymentInv

\* What was minted is deployed, or failed with its token there.
LEMMA CompleteDeploymentKeeps ==
  ASSUME DeploymentInv, CompleteDeployment
  PROVE  DeploymentInv'
<1>1. /\ step = "minted" /\ UNCHANGED <<creating, seen, mapping, queue, token, lost, disturbed>>
      /\ interrupted' = IF step' = "failing" THEN interrupted \union {hand} ELSE interrupted
      /\ \/ /\ status[hand] = "none" /\ step' = "failing" /\ UNCHANGED <<status, hand>>
         \/ /\ status[hand] # "none" /\ status' = [status EXCEPT ![hand] = "deployed"]
            /\ step' = "idle" /\ hand' = NoRequest
  BY DEF CompleteDeployment, UpdateStatus
<1>2. DeploymentTypes'
  BY <1>1, DeploymentState DEF DeploymentInv, DeploymentTypes, Calls, Before, Statuses, Steps
<1>3. StatusFollowsCall'
  BY <1>1, DeploymentState DEF DeploymentInv, StatusFollowsCall
<1>4. PendingIsUnderWay'
  BY <1>1, DeploymentState DEF DeploymentInv, PendingIsUnderWay, Queued, In, Answered
<1>5. QueuedOnce'
  BY <1>1, DeploymentState DEF DeploymentInv, QueuedOnce, UnderWay, Before
<1>6. HandMatchesToken'
  BY <1>1, DeploymentState DEF DeploymentInv, HandMatchesToken
<1>7. StatusMatchesToken'
  BY <1>1, DeploymentState DEF DeploymentInv, StatusMatchesToken, HandMatchesToken
<1>8. OneCallAtATime'
  BY <1>1, DeploymentState DEF DeploymentInv, OneCallAtATime, UnderWay, Answered
<1> QED BY <1>2, <1>3, <1>4, <1>5, <1>6, <1>7, <1>8 DEF DeploymentInv

\* A failure is recorded where there is a status.
LEMMA RecordFailureKeeps ==
  ASSUME DeploymentInv, RecordFailure
  PROVE  DeploymentInv'
<1>1. /\ step = "failing" /\ step' = "idle" /\ hand' = NoRequest
      /\ status' = IF status[hand] = "none" THEN status ELSE [status EXCEPT ![hand] = "failed"]
      /\ UNCHANGED <<creating, seen, mapping, queue, token, lost, interrupted, disturbed>>
  BY DEF RecordFailure, apiHistory
<1>2. DeploymentTypes'
  BY <1>1, DeploymentState DEF DeploymentInv, DeploymentTypes, Calls, Before, Statuses, Steps
<1>3. StatusFollowsCall'
  BY <1>1, DeploymentState DEF DeploymentInv, StatusFollowsCall
<1>4. PendingIsUnderWay'
  BY <1>1, DeploymentState DEF DeploymentInv, PendingIsUnderWay, Queued, In, Answered
<1>5. QueuedOnce'
  BY <1>1, DeploymentState DEF DeploymentInv, QueuedOnce, UnderWay, Before
<1>6. HandMatchesToken'
  BY <1>1, DeploymentState DEF DeploymentInv, HandMatchesToken
<1>7. StatusMatchesToken'
  BY <1>1, DeploymentState DEF DeploymentInv, StatusMatchesToken, HandMatchesToken
<1>8. OneCallAtATime'
  <2>1. \A s \in Requests : UnderWay(s)' => UnderWay(s) /\ s # hand
    BY <1>1, DeploymentState DEF DeploymentInv, QueuedOnce, UnderWay
  <2>2. \A s \in Requests : s # hand => status'[s] = status[s]
    BY <1>1, DeploymentState
  <2>3. ~disturbed => \A s \in Requests : creating[s] \in {"map", "enqueue"} => s # hand
    BY DEF DeploymentInv, QueuedOnce, UnderWay, Before
  <2> QED BY <1>1, <2>1, <2>2, <2>3 DEF DeploymentInv, OneCallAtATime, Answered
<1> QED BY <1>2, <1>3, <1>4, <1>5, <1>6, <1>7, <1>8 DEF DeploymentInv

\* A status that cannot be written.
LEMMA UpdateFailsKeeps ==
  ASSUME DeploymentInv, UpdateFails
  PROVE  DeploymentInv'
<1>1. /\ \/ step = "start" /\ step' = "failing" /\ UNCHANGED <<status, hand, lost, interrupted>>
         \/ /\ step = "minted" /\ step' = "failing"
            /\ status' \in {status, [status EXCEPT ![hand] = IF @ = "none" THEN @ ELSE "deployed"]}
            /\ interrupted' = interrupted \union {hand} /\ UNCHANGED <<hand, lost>>
         \/ /\ step = "failing" /\ step' = "idle" /\ hand' = NoRequest /\ lost' = lost \union {hand}
            /\ UNCHANGED <<status, interrupted>>
      /\ UNCHANGED <<creating, seen, mapping, queue, token, disturbed>>
  BY DEF UpdateFails
<1>2. DeploymentTypes'
  BY <1>1, DeploymentState DEF DeploymentInv, DeploymentTypes, Calls, Before, Statuses, Steps
<1>3. StatusFollowsCall'
  BY <1>1, DeploymentState DEF DeploymentInv, StatusFollowsCall
<1>4. PendingIsUnderWay'
  BY <1>1, DeploymentState DEF DeploymentInv, PendingIsUnderWay, Queued, In, Answered
<1>5. QueuedOnce'
  BY <1>1, DeploymentState DEF DeploymentInv, QueuedOnce, UnderWay, Before
<1>6. HandMatchesToken'
  BY <1>1, DeploymentState DEF DeploymentInv, HandMatchesToken, QueuedOnce
<1>7. StatusMatchesToken'
  BY <1>1, DeploymentState DEF DeploymentInv, StatusMatchesToken, HandMatchesToken
<1>8. OneCallAtATime'
  BY <1>1, DeploymentState DEF DeploymentInv, OneCallAtATime, UnderWay, Answered
<1> QED BY <1>2, <1>3, <1>4, <1>5, <1>6, <1>7, <1>8 DEF DeploymentInv

\* A key expires that no call or deployment uses.
LEMMA ExpireKeeps ==
  ASSUME DeploymentInv, Expire
  PROVE  DeploymentInv'
<1>1. /\ \/ \E r \in Requests :
              /\ creating[r] \in Answered /\ r # hand /\ status[r] # "none"
              /\ status' = [status EXCEPT ![r] = "none"] /\ UNCHANGED mapping
         \/ mapping # NoRequest /\ mapping' = NoRequest /\ UNCHANGED status
      /\ disturbed' = TRUE
      /\ UNCHANGED <<creating, seen, queue, hand, step, token, lost, interrupted>>
  BY DEF Expire, processorVars
<1>2. DeploymentTypes'
  BY <1>1, DeploymentState DEF DeploymentInv, DeploymentTypes, Calls, Before, Statuses, Steps
<1>3. StatusFollowsCall'
  BY <1>1, DeploymentState DEF DeploymentInv, StatusFollowsCall
<1>4. PendingIsUnderWay'
  BY <1>1, DeploymentState DEF DeploymentInv, PendingIsUnderWay, Queued, In, Answered
<1>5. QueuedOnce'
  BY <1>1, DeploymentState DEF DeploymentInv, QueuedOnce, UnderWay, Before
<1>6. HandMatchesToken'
  BY <1>1, DeploymentState DEF DeploymentInv, HandMatchesToken
<1>7. StatusMatchesToken'
  BY <1>1, DeploymentState DEF DeploymentInv, StatusMatchesToken
<1>8. OneCallAtATime'
  BY <1>1, DeploymentState DEF DeploymentInv, OneCallAtATime, UnderWay, Answered
<1> QED BY <1>2, <1>3, <1>4, <1>5, <1>6, <1>7, <1>8 DEF DeploymentInv

\* A crash cuts off the calls in progress and the request in hand.
LEMMA CrashServiceKeeps ==
  ASSUME DeploymentInv, CrashService
  PROVE  DeploymentInv'
<1>1. /\ creating' = [r \in Requests |-> IF creating[r] \in Answered THEN creating[r] ELSE "gone"]
      /\ lost' = lost \union {r \in Requests : r = hand \/ creating[r] \notin Answered}
      /\ disturbed' = (disturbed \/ \E r \in Requests : creating[r] \notin Answered)
      /\ hand' = NoRequest /\ step' = "idle"
      /\ UNCHANGED <<seen, status, mapping, queue, token, interrupted>>
  BY DEF CrashService, redisVars
<1>2. DeploymentTypes'
  BY <1>1, DeploymentState DEF DeploymentInv, DeploymentTypes, Calls, Before, Statuses, Steps
<1>3. StatusFollowsCall'
  BY <1>1, DeploymentState DEF DeploymentInv, StatusFollowsCall
<1>4. PendingIsUnderWay'
  BY <1>1, DeploymentState DEF DeploymentInv, PendingIsUnderWay, Queued, In, Answered
<1>5. QueuedOnce'
  BY <1>1, DeploymentState DEF DeploymentInv, QueuedOnce, UnderWay, Before
<1>6. HandMatchesToken'
  BY <1>1, DeploymentState DEF DeploymentInv, HandMatchesToken
<1>7. StatusMatchesToken'
  BY <1>1, DeploymentState DEF DeploymentInv, StatusMatchesToken
<1>8. OneCallAtATime'
  BY <1>1, DeploymentState DEF DeploymentInv, OneCallAtATime, UnderWay, Answered
<1> QED BY <1>2, <1>3, <1>4, <1>5, <1>6, <1>7, <1>8 DEF DeploymentInv

\* Nothing has been asked for.
LEMMA DeploymentStart == DeploymentInit => DeploymentInv
<1> SUFFICES ASSUME DeploymentInit PROVE DeploymentInv
  OBVIOUS
<1>1. \A r \in Requests : creating[r] = "new" /\ status[r] = "none" /\ ~UnderWay(r) /\ token # r
  <2>1. \A r : ~In(<<>>, r)
    BY DEF In
  <2>2. \A r \in Requests : r # NoRequest
    BY DeploymentConstants DEF DeploymentConstants
  <2> QED BY <2>1, <2>2 DEF DeploymentInit, UnderWay
<1>2. DeploymentTypes
  BY DeploymentConstants
  DEF DeploymentConstants, DeploymentInit, DeploymentTypes, Calls, Before, Statuses, Steps
<1>3. StatusFollowsCall
  BY <1>1 DEF StatusFollowsCall
<1>4. PendingIsUnderWay
  BY <1>1 DEF PendingIsUnderWay
<1>5. QueuedOnce
  BY <1>1 DEF DeploymentInit, QueuedOnce, UnderWay, Distinct
<1>6. HandMatchesToken
  BY DEF DeploymentInit, HandMatchesToken
<1>7. StatusMatchesToken
  BY <1>1 DEF StatusMatchesToken
<1>8. OneCallAtATime
  BY <1>1 DEF OneCallAtATime, Answered
<1> QED BY <1>2, <1>3, <1>4, <1>5, <1>6, <1>7, <1>8 DEF DeploymentInv

\* No step of the service, no failure, expiry or crash breaks the invariant.
LEMMA DeploymentKeeps == DeploymentInv /\ [DeploymentNext]_deploymentVars => DeploymentInv'
<1> SUFFICES ASSUME DeploymentInv, [DeploymentNext]_deploymentVars PROVE DeploymentInv'
  OBVIOUS
<1>1. ASSUME NEW r \in Requests,
             \/ LookUp(r) \/ CheckExisting(r) \/ DropMapping(r)
             \/ StoreRequest(r) \/ CleanUp(r) \/ CreateFails(r)
      PROVE  DeploymentInv'
  BY <1>1, LookUpKeeps, CheckExistingKeeps, DropMappingKeeps,
    StoreRequestKeeps, CleanUpKeeps, CreateFailsKeeps
<1>2. ASSUME Dequeue \/ DequeueReplyLost \/ BeginDeployment \/ DeployModelToken \/ CompleteDeployment
             \/ RecordFailure
      PROVE  DeploymentInv'
  BY <1>2, DequeueKeeps, DequeueReplyLostKeeps, BeginDeploymentKeeps, DeployModelTokenKeeps,
    CompleteDeploymentKeeps, RecordFailureKeeps
<1>3. ASSUME UpdateFails \/ Expire \/ CrashService PROVE DeploymentInv'
  BY <1>3, UpdateFailsKeeps, ExpireKeeps, CrashServiceKeeps
<1>4. CASE UNCHANGED deploymentVars
  BY <1>4 DEF deploymentVars, redisVars, processorVars, apiHistory, DeploymentInv, DeploymentTypes,
    StatusFollowsCall, PendingIsUnderWay, Queued, QueuedOnce, UnderWay, HandMatchesToken,
    StatusMatchesToken, OneCallAtATime
<1> QED BY <1>1, <1>2, <1>3, <1>4 DEF DeploymentNext

\* In every reachable state the calls, the keys, the queue and the processor
\* agree about how far a request has come.
THEOREM DeploymentInvariant == DeploymentSpec => []DeploymentInv
BY DeploymentStart, DeploymentKeeps, PTL DEF DeploymentSpec

\* What the deployment service's invariant says.
LEMMA DeploymentGives == DeploymentInv => DeploymentsSound
<1> SUFFICES ASSUME DeploymentInv PROVE DeploymentsSound
  OBVIOUS
<1>1. \A r \in Requests : (Queued(r) \/ hand = r) <=> UnderWay(r)
  BY DEF Queued, UnderWay, In
<1>2. OneDeploymentAtATime
  BY <1>1 DEF DeploymentInv, OneCallAtATime, OneDeploymentAtATime
<1> QED BY <1>2 DEF DeploymentInv, DeploymentsSound

\* The status a poller reads, the queue and the chain agree, and calls that do
\* not overlap leave one request of a model under way.
THEOREM DeploymentsAlwaysSound == DeploymentSpec => []DeploymentsSound
BY DeploymentGives, DeploymentInvariant, PTL

-----------------------------------------------------------------------------
(* Fee routing: accounts, periods and splits.                              *)

\* What the split reads: the oracle's costs, the models' rates and the ceilings.
SettingsInv ==
  /\ clock \in Nat \ {0} /\ epochDuration \in EpochDurations
  /\ costPerThousandCalls \in [Models -> Nat] /\ lastUpdated \in [Models -> Nat]
  /\ pendingCosts \in [Models -> [cost : Nat, effectiveAfter : Nat, exists : BOOLEAN]]
  /\ accrualBps \in [Models -> AccrualRates]
  /\ maxInfraShareBps \in Nat /\ maxInfraShareBps <= 10000 /\ maxCostAge \in Nat
  /\ reconciliationPeriod \in ReconciliationPeriods

\* A cost that waits for a model that has one is not due before the epoch is over.
WaitingKeepsEpochs ==
  \A m \in Models :
    pendingCosts[m].exists /\ lastUpdated[m] > 0
      => pendingCosts[m].effectiveAfter >= lastUpdated[m] + MinEpoch

\* The models' accounts and the totals.
AccountsInv ==
  /\ accrued \in [Models -> Nat] /\ paid \in [Models -> Nat]
  /\ modelFees \in [Models -> Nat] /\ poolFees \in [Models -> Nat]
  /\ totalAccrued \in Nat /\ totalPaid \in Nat /\ reserveUsdc \in Nat /\ withdrawn \in Nat
  /\ totalFeesDeposited \in Nat
  /\ FeesReachTheirModel /\ ReserveBacked

\* The models' periods and their actual costs.
PeriodsInv ==
  /\ paid \in [Models -> Nat] /\ manual \in [Models -> Nat]
  /\ currentPeriod \in [Models -> Periods]
  /\ actualCosts \in [Models -> [Periods -> Nat]]
  /\ periodStartTime \in [Models -> [Periods -> Nat]]
  /\ PaymentsAreActuals /\ PeriodsElapse

FeesInv == SettingsInv /\ WaitingKeepsEpochs /\ AccountsInv /\ PeriodsInv

-----------------------------------------------------------------------------
(* The constants, and arithmetic.                                          *)

\* The shortest epoch and the shortest period are among those that can be set.
LEMMA Shortest ==
  /\ MinEpoch \in Nat \ {0} /\ \A e \in EpochDurations : MinEpoch <= e
  /\ MinPeriod \in Nat \ {0} /\ \A e \in ReconciliationPeriods : MinPeriod <= e
<1>1. \E d \in EpochDurations : \A e \in EpochDurations : d <= e
  BY OracleConstants, LeastNatural DEF OracleConstants
<1>2. \E d \in ReconciliationPeriods : \A e \in ReconciliationPeriods : d <= e
  BY ReserveConstants, LeastNatural DEF ReserveConstants
<1>3. MinEpoch \in EpochDurations /\ \A e \in EpochDurations : MinEpoch <= e
  BY <1>1 DEF MinEpoch
<1>4. MinPeriod \in ReconciliationPeriods /\ \A e \in ReconciliationPeriods : MinPeriod <= e
  BY <1>2 DEF MinPeriod
<1> QED BY <1>3, <1>4, OracleConstants, ReserveConstants DEF OracleConstants, ReserveConstants

\* Rates and ceilings are at most the whole.
LEMMA Rates ==
  /\ \A x \in AccrualRates : x \in Nat /\ x <= 10000
  /\ \A x \in Ceilings : x \in Nat /\ x <= 10000
BY RouterConstants DEF RouterConstants

\* A part of an amount in basis points, rounded down.
LEMMA BasisPoints ==
  ASSUME NEW a \in Nat, NEW b \in Nat, b <= 10000
  PROVE  /\ (a * b) \div 10000 \in Nat
         /\ (a * b) \div 10000 <= a
         /\ ((a * b) \div 10000) * 10000 <= a * b
<1> DEFINE p == a * b
<1>1. p \in Nat /\ p <= a * 10000
  OBVIOUS
<1> HIDE DEF p
<1>2. p \div 10000 \in Nat /\ (p \div 10000) * 10000 <= p /\ p \div 10000 <= a
  BY <1>1
<1> QED BY <1>2 DEF p

\* Two parts with one ceiling on their rates have it together.
LEMMA RatesAdd ==
  ASSUME NEW i \in Nat, NEW j \in Nat, NEW a \in Nat, NEW b \in Nat, NEW r \in Nat,
         i * 10000 <= a * r, j * 10000 <= b * r
  PROVE  (i + j) * 10000 <= (a + b) * r
<1>1. (a + b) * r = a * r + b * r
  OBVIOUS
<1>2. a * r \in Nat /\ b * r \in Nat
  OBVIOUS
<1> QED BY <1>1, <1>2

\* A smaller rate is a smaller part.
LEMMA RatesGrow ==
  ASSUME NEW i \in Nat, NEW a \in Nat, NEW r \in Nat, NEW s \in Nat, r <= s,
         i * 10000 <= a * r
  PROVE  i * 10000 <= a * s
<1>1. a * r <= a * s
  OBVIOUS
<1>2. a * r \in Nat /\ a * s \in Nat
  OBVIOUS
<1> QED BY <1>1, <1>2

Fee == [model : Models, amount : Nat, calls : Nat]
AccountEntries == [model : Models, amount : Nat]

\* The constants' fees and payments are fees and entries.
LEMMA InputTypes ==
  /\ fees \subseteq Fee /\ \A m \in Models : NoFee(m) \in Fee
  /\ payments \subseteq AccountEntries /\ \A m \in Models : Entry(m, 0) \in AccountEntries
BY RouterConstants DEF RouterConstants, fees, Fee, NoFee, payments, Entry, AccountEntries

\* Infrastructure's share is no more than the fee, nor than the higher of the
\* ceiling and the model's rate of it.
LEMMA ShareBounds ==
  ASSUME SettingsInv, NEW m \in Models, NEW amount \in Nat, NEW calls \in Nat
  PROVE  /\ InfraShare(m, amount, calls) \in Nat
         /\ InfraShare(m, amount, calls) <= amount
         /\ InfraShare(m, amount, calls) * 10000
              <= amount * Larger(maxInfraShareBps, accrualBps[m])
<1>1. accrualBps[m] \in Nat /\ accrualBps[m] <= 10000 /\ maxInfraShareBps \in Nat
      /\ maxInfraShareBps <= 10000
  <2>1. accrualBps[m] \in AccrualRates
    BY DEF SettingsInv
  <2> QED BY <2>1, Rates DEF SettingsInv
<1> DEFINE cost == (costPerThousandCalls[m] * calls) \div 1000
           cap == (amount * maxInfraShareBps) \div 10000
           rated == (amount * accrualBps[m]) \div 10000
           top == Larger(maxInfraShareBps, accrualBps[m])
           share == InfraShare(m, amount, calls)
<1>2. top \in Nat /\ maxInfraShareBps <= top /\ accrualBps[m] <= top
  BY <1>1 DEF Larger
<1>3. cap \in Nat /\ cap <= amount /\ cap * 10000 <= amount * maxInfraShareBps
  BY <1>1, BasisPoints
<1>4. rated \in Nat /\ rated <= amount /\ rated * 10000 <= amount * accrualBps[m]
  BY <1>1, BasisPoints
<1>5. cost \in Nat
  <2>1. costPerThousandCalls[m] * calls \in Nat
    BY DEF SettingsInv
  <2> QED BY <2>1
<1>6. \/ share = Lesser(Lesser(cost, amount), cap)
      \/ share = rated
  BY DEF InfraShare
<1> HIDE DEF cost, cap, rated, share
<1>7. share \in Nat /\ (share <= cap \/ share = rated)
  BY <1>3, <1>4, <1>5, <1>6 DEF Lesser
<1>8. share <= amount
  BY <1>3, <1>4, <1>7
<1>9. cap * 10000 <= amount * top /\ rated * 10000 <= amount * top
  BY <1>1, <1>2, <1>3, <1>4, RatesGrow
<1>10. share * 10000 <= amount * top
  <2> HIDE DEF top
  <2>1. amount * top \in Nat
    BY <1>2
  <2> QED BY <1>3, <1>4, <1>7, <1>9, <2>1
<1> QED BY <1>7, <1>8, <1>10 DEF share

\* The two shares of a fee make up the fee.
LEMMA SharesOfFee ==
  ASSUME SettingsInv, NEW fee \in Fee
  PROVE  /\ Infra(fee) \in AccountEntries /\ Profit(fee) \in AccountEntries
         /\ Infra(fee).model = fee.model /\ Profit(fee).model = fee.model
         /\ Infra(fee).amount + Profit(fee).amount = fee.amount
         /\ Infra(fee).amount * 10000
              <= fee.amount * Larger(maxInfraShareBps, accrualBps[fee.model])
<1>1. PICK m \in Models, amount \in Nat, calls \in Nat :
        fee.model = m /\ fee.amount = amount /\ fee.calls = calls
  BY DEF Fee
<1> DEFINE share == InfraShare(m, amount, calls)
<1>2. /\ share \in Nat /\ share <= amount
      /\ share * 10000 <= amount * Larger(maxInfraShareBps, accrualBps[m])
  BY ShareBounds
<1>3. Infra(fee) = Entry(m, share) /\ Profit(fee) = Entry(m, amount - share)
  BY <1>1 DEF Infra, Profit
<1> HIDE DEF share
<1> QED BY <1>1, <1>2, <1>3 DEF Entry, AccountEntries

\* A fee on its own, or a batch of two, is collected and its shares of
\* infrastructure are accrued, none of them if none is owed.
LEMMA EveryDeposit ==
  ASSUME SettingsInv, AccountsInv,
         (\E fee \in fees : DepositFee(fee)) \/ (\E f, s \in fees : BatchDepositFees(f, s))
  PROVE  \E first, second \in Fee :
           /\ Collect(first, second)
           /\ Accrue(Infra(first), Infra(second))
           /\ \/ Infra(first).amount > 0 /\ Infra(second).amount > 0
              \/ Infra(first).amount = 0 /\ Infra(second).amount = 0
              \/ first.model = second.model
<1>1. ASSUME NEW e \in AccountEntries, NEW d \in AccountEntries, UNCHANGED reserve,
             e.amount + d.amount = 0
      PROVE  Accrue(e, d) /\ e.amount = 0 /\ d.amount = 0
  <2>1. e.amount = 0 /\ d.amount = 0
    BY <1>1 DEF AccountEntries
  <2>2. accrued = [m \in Models |-> accrued[m] + Added(m, e, d)]
    BY <2>1 DEF AccountsInv, Added
  <2>3. totalAccrued = totalAccrued + 0 + 0 /\ reserveUsdc = reserveUsdc + 0 + 0
    BY DEF AccountsInv
  <2> QED BY <1>1, <2>1, <2>2, <2>3 DEF Accrue, reserve, accounts
<1>2. CASE \E fee \in fees : DepositFee(fee)
  <2>1. PICK fee \in fees : DepositFee(fee)
    BY <1>2
  <2> DEFINE none == NoFee(fee.model)
  <2>2. fee \in Fee /\ none \in Fee /\ none.model = fee.model /\ none.amount = 0
    BY InputTypes DEF Fee, NoFee
  <2>3. /\ Infra(fee) \in AccountEntries /\ Infra(none) \in AccountEntries
        /\ Infra(fee).model = fee.model /\ Infra(none).model = fee.model
        /\ Profit(none) \in AccountEntries /\ Infra(none).amount + Profit(none).amount = 0
    BY <2>2, SharesOfFee
  <2>4. /\ Infra(fee) = Entry(fee.model, Infra(fee).amount)
        /\ Infra(none) = Entry(fee.model, 0)
    BY <2>3 DEF Entry, AccountEntries
  <2> HIDE DEF none
  <2>5. Collect(fee, none) /\ Deposit(fee.model, Infra(fee).amount)
    BY <2>1 DEF DepositFee, none
  <2>6. Accrue(Infra(fee), Infra(none))
    <3>1. CASE Infra(fee).amount = 0
      <4>1. UNCHANGED reserve
        BY <2>5, <3>1 DEF Deposit
      <4>2. Infra(none).amount = 0
        BY <2>4 DEF Entry
      <4> QED BY <4>1, <4>2, <2>3, <3>1, <1>1
    <3>2. CASE Infra(fee).amount # 0
      BY <2>4, <2>5, <3>2 DEF Deposit
    <3> QED BY <3>1, <3>2
  <2> QED BY <2>2, <2>5, <2>6
<1>3. CASE \E f, s \in fees : BatchDepositFees(f, s)
  <2>1. PICK f \in fees, s \in fees : BatchDepositFees(f, s)
    BY <1>3
  <2>2. f \in Fee /\ s \in Fee
    BY InputTypes
  <2>3. Infra(f) \in AccountEntries /\ Infra(s) \in AccountEntries
    BY <2>2, SharesOfFee
  <2>4. Collect(f, s) /\ BatchDeposit(Infra(f), Infra(s))
    BY <2>1 DEF BatchDepositFees
  <2>5. CASE Infra(f).amount + Infra(s).amount = 0
    <3>1. UNCHANGED reserve
      BY <2>4, <2>5 DEF BatchDeposit
    <3> QED BY <3>1, <1>1, <2>2, <2>3, <2>4, <2>5
  <2>6. CASE Infra(f).amount + Infra(s).amount # 0
    BY <2>2, <2>4, <2>6 DEF BatchDeposit
  <2> QED BY <2>5, <2>6
<1> QED BY <1>2, <1>3

-----------------------------------------------------------------------------
(* The costs and the settings.                                             *)

\* Deposits, payments and the reserve's own book-keeping leave the settings alone.
LEMMA SettingsKept ==
  ASSUME SettingsInv, WaitingKeepsEpochs,
         UNCHANGED <<clock, oracle, accrualBps, maxInfraShareBps, maxCostAge>>,
         reconciliationPeriod' \in ReconciliationPeriods
  PROVE  SettingsInv' /\ WaitingKeepsEpochs'
BY DEF SettingsInv, WaitingKeepsEpochs, oracle

\* Every step keeps the settings within their types, and waiting costs waiting.
LEMMA SettingsStep ==
  ASSUME SettingsInv, WaitingKeepsEpochs, [FeesNext]_feesVars
  PROVE  SettingsInv' /\ WaitingKeepsEpochs'
<1> USE DEF oracle, router, world, elsewhere, reserve, periods
<1>0. reconciliationPeriod \in ReconciliationPeriods
  BY DEF SettingsInv
<1>1. ASSUME NEW f, NEW s, Collect(f, s), reconciliationPeriod' = reconciliationPeriod
      PROVE  SettingsInv' /\ WaitingKeepsEpochs'
  BY <1>0, <1>1, SettingsKept DEF Collect
<1>2. CASE \E fee \in fees : DepositFee(fee)
  BY <1>1, <1>2 DEF DepositFee, Deposit, Accrue
<1>3. CASE \E first, second \in fees : BatchDepositFees(first, second)
  BY <1>1, <1>3 DEF BatchDepositFees, BatchDeposit, Accrue
<1>4. ASSUME NEW first, NEW second, Pay(first, second), UNCHANGED <<clock, oracle, elsewhere>>
      PROVE  SettingsInv' /\ WaitingKeepsEpochs'
  BY <1>0, <1>4, SettingsKept DEF Pay, MoneyOut
<1>5. ASSUME NEW m, NEW p, NEW amount, UNCHANGED <<clock, oracle, elsewhere>>,
             RecordActualCosts(m, p, amount) \/ SnapshotEstimatedCosts(m) \/ AdvancePeriod(m)
               \/ EmergencyWithdraw(amount) \/ GovernReserve
      PROVE  SettingsInv' /\ WaitingKeepsEpochs'
  BY <1>0, <1>5, SettingsKept DEF RecordActualCosts, SnapshotEstimatedCosts, AdvancePeriod,
     EmergencyWithdraw, GovernReserve
<1>6. CASE GovernRouter
  <2>1. maxCostAge' \in Nat
    <3>1. maxCostAge' \in CostAges \/ maxCostAge' = maxCostAge
      BY <1>6 DEF GovernRouter
    <3>2. maxCostAge \in Nat
      BY DEF SettingsInv
    <3>3. CASE maxCostAge' \in CostAges
      BY <3>3, RouterConstants DEF RouterConstants
    <3> QED BY <3>1, <3>2, <3>3
  <2>2. maxInfraShareBps' \in Nat /\ maxInfraShareBps' <= 10000
    <3>1. maxInfraShareBps' \in Ceilings \/ maxInfraShareBps' = maxInfraShareBps
      BY <1>6 DEF GovernRouter
    <3> QED BY <3>1, Rates DEF SettingsInv
  <2>3. UNCHANGED <<clock, oracle, accrualBps, reconciliationPeriod>>
    BY <1>6 DEF GovernRouter
  <2> QED BY <2>1, <2>2, <2>3 DEF SettingsInv, WaitingKeepsEpochs
<1>7. CASE GovernModels
  BY <1>7 DEF GovernModels, SettingsInv, WaitingKeepsEpochs
<1>8. ASSUME NEW m \in Models, NEW cost \in Costs, NEW wish \in EffectiveEpochs,
             SetEstimatedCost(m, cost, wish), UNCHANGED <<reserve, elsewhere>>
      PROVE  SettingsInv' /\ WaitingKeepsEpochs'
  <2> DEFINE due == EffectiveAfter(m, wish)
             put == [cost |-> cost, effectiveAfter |-> due, exists |-> TRUE]
  <2>1. /\ clock \in Nat /\ epochDuration \in Nat /\ MinEpoch <= epochDuration
        /\ lastUpdated[m] \in Nat /\ wish \in Nat /\ cost \in Nat
    BY Shortest, OracleConstants DEF OracleConstants, SettingsInv
  <2>2. MinEpoch \in Nat
    BY Shortest
  <2>3. due \in Nat /\ (lastUpdated[m] > 0 => due >= lastUpdated[m] + MinEpoch)
    <3> HIDE DEF MinEpoch
    <3> QED BY <2>1, <2>2 DEF EffectiveAfter, Larger
  <2> HIDE DEF due
  <2>4. put \in [cost : Nat, effectiveAfter : Nat, exists : BOOLEAN]
    BY <2>1, <2>3
  <2>5. /\ pendingCosts' = [pendingCosts EXCEPT ![m] = put]
        /\ UNCHANGED <<clock, costPerThousandCalls, lastUpdated, epochDuration>>
        /\ UNCHANGED <<accrualBps, maxInfraShareBps, maxCostAge, reconciliationPeriod>>
    BY <1>8 DEF SetEstimatedCost, due
  <2> HIDE DEF put
  <2>6. SettingsInv'
    BY <2>4, <2>5 DEF SettingsInv
  <2>7. /\ pendingCosts'[m] = put
        /\ \A n \in Models \ {m} : pendingCosts'[n] = pendingCosts[n]
    BY <2>5 DEF SettingsInv
  <2>8. put.effectiveAfter = due
    BY DEF put
  <2>9. WaitingKeepsEpochs'
    BY <2>3, <2>5, <2>7, <2>8 DEF WaitingKeepsEpochs, MinEpoch
  <2> QED BY <2>6, <2>9
<1>9. ASSUME NEW m \in Models, ApplyPendingUpdate(m), UNCHANGED <<reserve, elsewhere>>
      PROVE  SettingsInv' /\ WaitingKeepsEpochs'
  <2>1. Deleted \in [cost : Nat, effectiveAfter : Nat, exists : BOOLEAN] /\ ~Deleted.exists
    BY DEF Deleted
  <2>2. pendingCosts[m].cost \in Nat
    BY DEF SettingsInv
  <2>3. /\ costPerThousandCalls' = [costPerThousandCalls EXCEPT ![m] = pendingCosts[m].cost]
        /\ lastUpdated' = [lastUpdated EXCEPT ![m] = clock]
        /\ pendingCosts' = [pendingCosts EXCEPT ![m] = Deleted]
        /\ UNCHANGED <<clock, epochDuration, accrualBps, maxInfraShareBps, maxCostAge,
                       reconciliationPeriod>>
    BY <1>9 DEF ApplyPendingUpdate
  <2>4. SettingsInv'
    BY <2>1, <2>2, <2>3 DEF SettingsInv
  <2>5. /\ pendingCosts'[m] = Deleted
        /\ \A n \in Models \ {m} : pendingCosts'[n] = pendingCosts[n] /\ lastUpdated'[n] = lastUpdated[n]
    BY <2>3 DEF SettingsInv
  <2>6. WaitingKeepsEpochs'
    BY <2>1, <2>5 DEF WaitingKeepsEpochs, MinEpoch
  <2> QED BY <2>4, <2>6
<1>10. CASE SetEpochDuration /\ UNCHANGED <<reserve, elsewhere, adminOps>>
  BY <1>10 DEF SetEpochDuration, SettingsInv, WaitingKeepsEpochs, MinEpoch
<1>11. CASE Tick /\ UNCHANGED <<reserve, elsewhere, adminOps>>
  BY <1>11 DEF Tick, SettingsInv, WaitingKeepsEpochs, MinEpoch
<1>12. CASE UNCHANGED feesVars
  BY <1>0, <1>12, SettingsKept DEF feesVars
<1> QED BY <1>2, <1>3, <1>4, <1>5, <1>6, <1>7, <1>8, <1>9, <1>10, <1>11, <1>12 DEF FeesNext

-----------------------------------------------------------------------------
(* The accounts.                                                           *)

\* What two fees, payments or shares add to a model.
LEMMA AddedIs ==
  ASSUME NEW e, NEW d, NEW u, NEW v, NEW a, NEW b,
         e.model = u, e.amount = a, d.model = v, d.amount = b, NEW m
  PROVE  Added(m, e, d) = (IF u = m THEN a ELSE 0) + (IF v = m THEN b ELSE 0)
BY DEF Added

\* What is added to the models is added to the sum over them.
LEMMA AddedSum ==
  ASSUME NEW e, e.model \in Models, e.amount \in Nat,
         NEW d, d.model \in Models, d.amount \in Nat,
         NEW f, \A m \in Models : f[m] \in Nat,
         NEW g, \A m \in Models : g[m] = f[m] + Added(m, e, d)
  PROVE  SumOf(g, Models) = SumOf(f, Models) + e.amount + d.amount
<1>1. PICK u \in Models, a \in Nat : e.model = u /\ e.amount = a
  OBVIOUS
<1>2. PICK v \in Models, b \in Nat : d.model = v /\ d.amount = b
  OBVIOUS
<1> DEFINE h == [m \in Models |-> f[m] + IF u = m THEN a ELSE 0]
<1>3. \A m \in Models : g[m] = f[m] + ((IF u = m THEN a ELSE 0) + (IF v = m THEN b ELSE 0))
  BY <1>1, <1>2, AddedIs
<1>4. \A m \in Models : h[m] \in Nat /\ g[m] \in Nat
  BY <1>3
<1>5. \A m \in Models \ {u} : h[m] = f[m]
  OBVIOUS
<1>6. \A m \in Models \ {v} : g[m] = h[m]
  BY <1>3
<1>7. h[u] = f[u] + a /\ g[v] = h[v] + b
  BY <1>3
<1> HIDE DEF h
<1>8. IsFiniteSet(Models)
  BY ReserveConstants DEF ReserveConstants
<1>9. SumOf(h, Models) = SumOf(f, Models) - f[u] + h[u]
  BY <1>4, <1>5, <1>8, SumChange
<1>10. SumOf(g, Models) = SumOf(h, Models) - h[v] + g[v]
  BY <1>4, <1>6, <1>8, SumChange
<1>11. SumOf(f, Models) \in Nat /\ SumOf(h, Models) \in Nat
  BY <1>4, <1>8, SumType
<1>12. SumOf(g, Models) = SumOf(f, Models) + a + b
  BY <1>4, <1>7, <1>9, <1>10, <1>11
<1> QED BY <1>1, <1>2, <1>12

\* Collected fees are in their models' pools and accounts to the last unit.
LEMMA CollectedAccounts ==
  ASSUME SettingsInv, AccountsInv, NEW first \in Fee, NEW second \in Fee,
         Collect(first, second), Accrue(Infra(first), Infra(second))
  PROVE  AccountsInv'
<1>1. PICK u \in Models, a \in Nat, i \in Nat, p \in Nat :
        /\ first.model = u /\ first.amount = a /\ i + p = a
        /\ Infra(first).model = u /\ Infra(first).amount = i
        /\ Profit(first).model = u /\ Profit(first).amount = p
  <2>1. first.model \in Models /\ first.amount \in Nat
    BY DEF Fee
  <2> QED BY <2>1, SharesOfFee DEF AccountEntries
<1>2. PICK v \in Models, b \in Nat, j \in Nat, q \in Nat :
        /\ second.model = v /\ second.amount = b /\ j + q = b
        /\ Infra(second).model = v /\ Infra(second).amount = j
        /\ Profit(second).model = v /\ Profit(second).amount = q
  <2>1. second.model \in Models /\ second.amount \in Nat
    BY DEF Fee
  <2> QED BY <2>1, SharesOfFee DEF AccountEntries
<1> DEFINE Both(m, x, y) == (IF u = m THEN x ELSE 0) + (IF v = m THEN y ELSE 0)
<1>3. /\ modelFees' = [m \in Models |-> modelFees[m] + Both(m, a, b)]
      /\ poolFees' = [m \in Models |-> poolFees[m] + Both(m, p, q)]
      /\ accrued' = [m \in Models |-> accrued[m] + Both(m, i, j)]
  <2>1. ASSUME NEW m
        PROVE  /\ Added(m, first, second) = Both(m, a, b)
               /\ Added(m, Profit(first), Profit(second)) = Both(m, p, q)
               /\ Added(m, Infra(first), Infra(second)) = Both(m, i, j)
    BY <1>1, <1>2, AddedIs
  <2> HIDE DEF Both
  <2>2. modelFees' = [m \in Models |-> modelFees[m] + Added(m, first, second)]
    BY DEF Collect
  <2>3. poolFees' = [m \in Models |-> poolFees[m] + Added(m, Profit(first), Profit(second))]
    BY DEF Collect
  <2>4. accrued' = [m \in Models |-> accrued[m] + Added(m, Infra(first), Infra(second))]
    BY DEF Accrue
  <2> QED BY <2>1, <2>2, <2>3, <2>4
<1>4. /\ totalFeesDeposited' = totalFeesDeposited + (a + b)
      /\ routerUsdc' = routerUsdc + (a + b) - (i + j + p + q)
  BY <1>1, <1>2 DEF Collect
<1>5. /\ totalAccrued' = totalAccrued + i + j
      /\ reserveUsdc' = reserveUsdc + i + j
      /\ UNCHANGED <<paid, totalPaid, withdrawn>>
  BY <1>1, <1>2 DEF Accrue
<1>6. ASSUME NEW m \in Models
      PROVE  /\ accrued'[m] = accrued[m] + Both(m, i, j) /\ Both(m, i, j) \in Nat
             /\ modelFees'[m] = modelFees[m] + Both(m, a, b) /\ Both(m, a, b) \in Nat
             /\ poolFees'[m] = poolFees[m] + Both(m, p, q) /\ Both(m, p, q) \in Nat
             /\ Both(m, a, b) = Both(m, p, q) + Both(m, i, j)
  <2>1. /\ Both(m, i, j) \in Nat /\ Both(m, a, b) \in Nat /\ Both(m, p, q) \in Nat
        /\ Both(m, a, b) = Both(m, p, q) + Both(m, i, j)
    <3>1. i + p = a /\ j + q = b
      BY <1>1, <1>2
    <3>2. CASE u = m /\ v = m
      BY <3>1, <3>2
    <3>3. CASE u = m /\ v # m
      BY <3>1, <3>3
    <3>4. CASE u # m /\ v = m
      BY <3>1, <3>4
    <3>5. CASE u # m /\ v # m
      BY <3>1, <3>5
    <3> QED BY <3>2, <3>3, <3>4, <3>5
  <2> HIDE DEF Both
  <2> QED BY <1>3, <2>1
<1>7. /\ accrued \in [Models -> Nat] /\ modelFees \in [Models -> Nat]
      /\ poolFees \in [Models -> Nat] /\ paid \in [Models -> Nat]
  BY DEF AccountsInv
<1>8. /\ SumOf(accrued', Models) = SumOf(accrued, Models) + i + j
      /\ SumOf(modelFees', Models) = SumOf(modelFees, Models) + a + b
  <2>1. /\ first.model \in Models /\ first.amount = a /\ a \in Nat
        /\ second.model \in Models /\ second.amount = b /\ b \in Nat
        /\ Infra(first).model \in Models /\ Infra(first).amount = i /\ i \in Nat
        /\ Infra(second).model \in Models /\ Infra(second).amount = j /\ j \in Nat
    BY <1>1, <1>2
  <2>2. SumOf(accrued', Models) = SumOf(accrued, Models) + i + j
    <3>1. \A m \in Models : accrued[m] \in Nat
      BY <1>7
    <3>2. \A m \in Models : accrued'[m] = accrued[m] + Added(m, Infra(first), Infra(second))
      BY DEF Accrue
    <3> QED BY <2>1, <3>1, <3>2, AddedSum
  <2>3. SumOf(modelFees', Models) = SumOf(modelFees, Models) + a + b
    <3>1. \A m \in Models : modelFees[m] \in Nat
      BY <1>7
    <3>2. \A m \in Models : modelFees'[m] = modelFees[m] + Added(m, first, second)
      BY DEF Collect
    <3> QED BY <2>1, <3>1, <3>2, AddedSum
  <2> QED BY <2>2, <2>3
<1>9. SumOf(accrued, Models) \in Nat /\ SumOf(modelFees, Models) \in Nat
  BY <1>7, ReserveConstants, SumType DEF ReserveConstants
<1> HIDE DEF Both
<1>10. /\ accrued' \in [Models -> Nat] /\ modelFees' \in [Models -> Nat]
       /\ poolFees' \in [Models -> Nat] /\ paid' \in [Models -> Nat]
  BY <1>3, <1>5, <1>6, <1>7
<1>11. /\ totalAccrued' \in Nat /\ totalPaid' \in Nat /\ reserveUsdc' \in Nat
       /\ withdrawn' \in Nat /\ totalFeesDeposited' \in Nat
  BY <1>4, <1>5 DEF AccountsInv
<1>12. FeesReachTheirModel'
  <2>1. routerUsdc' = 0 /\ totalFeesDeposited' = SumOf(modelFees', Models)
    <3>1. /\ routerUsdc = 0 /\ totalFeesDeposited = SumOf(modelFees, Models)
          /\ i + p = a /\ j + q = b
      BY <1>1, <1>2 DEF AccountsInv, FeesReachTheirModel
    <3> QED BY <1>4, <1>8, <1>9, <3>1
  <2>2. ASSUME NEW m \in Models PROVE modelFees'[m] = poolFees'[m] + accrued'[m] + paid'[m]
    <3>1. modelFees[m] = poolFees[m] + accrued[m] + paid[m]
      BY DEF AccountsInv, FeesReachTheirModel
    <3>2. /\ modelFees[m] \in Nat /\ poolFees[m] \in Nat
          /\ accrued[m] \in Nat /\ paid[m] \in Nat /\ paid'[m] = paid[m]
      BY <1>5, <1>7
    <3> QED BY <1>6, <3>1, <3>2
  <2> QED BY <2>1, <2>2 DEF FeesReachTheirModel
<1>13. ReserveBacked'
  BY <1>5, <1>8, <1>9 DEF AccountsInv, ReserveBacked
<1> QED BY <1>10, <1>11, <1>12, <1>13 DEF AccountsInv

\* A payment moves money out of its models' accounts, and out of the reserve.
LEMMA PaidAccounts ==
  ASSUME AccountsInv, NEW first \in AccountEntries, NEW second \in AccountEntries,
         Pay(first, second), UNCHANGED elsewhere
  PROVE  AccountsInv'
<1>1. PICK u \in Models, a \in Nat : first.model = u /\ first.amount = a
  BY DEF AccountEntries
<1>2. PICK v \in Models, b \in Nat : second.model = v /\ second.amount = b
  BY DEF AccountEntries
<1> DEFINE Both(m) == (IF u = m THEN a ELSE 0) + (IF v = m THEN b ELSE 0)
<1>3. \A m : Added(m, first, second) = Both(m)
  BY <1>1, <1>2, AddedIs
<1>4. /\ accrued \in [Models -> Nat] /\ modelFees \in [Models -> Nat]
      /\ poolFees \in [Models -> Nat] /\ paid \in [Models -> Nat]
  BY DEF AccountsInv
<1>5. /\ accrued' = [m \in Models |-> accrued[m] - Both(m)]
      /\ paid' = [m \in Models |-> paid[m] + Both(m)]
      /\ \A m \in Models : Both(m) <= accrued[m]
  <2> HIDE DEF Both
  <2>1. /\ accrued' = [m \in Models |-> accrued[m] - Added(m, first, second)]
        /\ paid' = [m \in Models |-> paid[m] + Added(m, first, second)]
        /\ \A m \in Models : Added(m, first, second) <= accrued[m]
    BY DEF Pay, MoneyOut, Covered
  <2> QED BY <2>1, <1>3
<1>6. /\ reserveUsdc' = reserveUsdc - a - b /\ a + b <= reserveUsdc
      /\ totalPaid' = totalPaid + a + b
      /\ UNCHANGED <<totalAccrued, withdrawn>>
  BY <1>1, <1>2 DEF Pay, MoneyOut
<1>7. UNCHANGED <<routerUsdc, totalFeesDeposited, modelFees, poolFees>>
  BY DEF elsewhere, router
<1>8. ASSUME NEW m \in Models
      PROVE  /\ Both(m) \in Nat /\ accrued'[m] = accrued[m] - Both(m) /\ accrued'[m] \in Nat
             /\ accrued[m] = accrued'[m] + Both(m)
             /\ paid'[m] = paid[m] + Both(m) /\ paid'[m] \in Nat
  <2>1. Both(m) \in Nat
    OBVIOUS
  <2> HIDE DEF Both
  <2> QED BY <2>1, <1>4, <1>5
<1>9. SumOf(accrued, Models) = SumOf(accrued', Models) + a + b
  <2>1. \A m \in Models : accrued'[m] \in Nat
    BY <1>8
  <2>2. \A m \in Models : accrued[m] = accrued'[m] + Added(m, first, second)
    BY <1>3, <1>8
  <2> QED BY <1>1, <1>2, <2>1, <2>2, AddedSum
<1> HIDE DEF Both
<1>10. accrued' \in [Models -> Nat] /\ paid' \in [Models -> Nat]
  BY <1>5, <1>8
<1>11. SumOf(accrued, Models) \in Nat /\ SumOf(accrued', Models) \in Nat
  BY <1>4, <1>10, ReserveConstants, SumType DEF ReserveConstants
<1>12. totalPaid' \in Nat /\ reserveUsdc' \in Nat
  BY <1>6 DEF AccountsInv
<1>13. ReserveBacked'
  BY <1>6, <1>9, <1>11 DEF AccountsInv, ReserveBacked
<1>14. FeesReachTheirModel'
  <2>1. ASSUME NEW m \in Models PROVE modelFees'[m] = poolFees'[m] + accrued'[m] + paid'[m]
    <3>1. modelFees[m] = poolFees[m] + accrued[m] + paid[m]
      BY DEF AccountsInv, FeesReachTheirModel
    <3>2. /\ modelFees[m] \in Nat /\ poolFees[m] \in Nat
          /\ accrued[m] \in Nat /\ paid[m] \in Nat
      BY <1>4
    <3> QED BY <1>7, <1>8, <3>1, <3>2
  <2> QED BY <1>7, <2>1 DEF AccountsInv, FeesReachTheirModel
<1> QED BY <1>6, <1>7, <1>10, <1>12, <1>13, <1>14 DEF AccountsInv

\* Every other step leaves the money where it is, but for an emergency withdrawal.
LEMMA AccountsKept ==
  ASSUME AccountsInv, NEW amount \in Nat, amount <= reserveUsdc,
         UNCHANGED <<accrued, paid, totalAccrued, totalPaid, totalFeesDeposited, modelFees,
                     routerUsdc, poolFees>>,
         reserveUsdc' = reserveUsdc - amount, withdrawn' = withdrawn + amount
  PROVE  AccountsInv'
<1>1. SumOf(accrued, Models) \in Nat
  BY ReserveConstants, SumType DEF ReserveConstants, AccountsInv
<1>2. ReserveBacked'
  BY <1>1 DEF AccountsInv, ReserveBacked
<1>3. FeesReachTheirModel'
  BY DEF AccountsInv, FeesReachTheirModel
<1> QED BY <1>2, <1>3 DEF AccountsInv

\* Every step keeps the accounts.
LEMMA AccountsStep ==
  ASSUME SettingsInv, AccountsInv, [FeesNext]_feesVars
  PROVE  AccountsInv'
<1> USE DEF router, elsewhere, reserve, accounts
<1>0. /\ reserveUsdc \in Nat /\ withdrawn \in Nat
      /\ 0 <= reserveUsdc /\ reserveUsdc - 0 = reserveUsdc /\ withdrawn + 0 = withdrawn
  BY DEF AccountsInv
<1>1. ASSUME UNCHANGED <<accounts, withdrawn, totalFeesDeposited, modelFees, routerUsdc, poolFees>>
      PROVE  AccountsInv'
  BY <1>0, <1>1, AccountsKept
<1>2. CASE (\E fee \in fees : DepositFee(fee)) \/ (\E f, s \in fees : BatchDepositFees(f, s))
  BY <1>2, EveryDeposit, CollectedAccounts
<1>3. ASSUME NEW first \in payments, NEW second \in payments \union {Entry(first.model, 0)},
             Pay(first, second), UNCHANGED elsewhere
      PROVE  AccountsInv'
  <2>1. first \in AccountEntries
    BY InputTypes
  <2>2. second \in AccountEntries
    BY <2>1, InputTypes DEF AccountEntries
  <2> QED BY <1>3, <2>1, <2>2, PaidAccounts
<1>4. ASSUME NEW amount \in Withdrawals, EmergencyWithdraw(amount), UNCHANGED elsewhere
      PROVE  AccountsInv'
  <2>1. amount \in Nat
    BY RouterConstants DEF RouterConstants
  <2> QED BY <1>4, <2>1, AccountsKept DEF EmergencyWithdraw
<1>5. ASSUME NEW m, NEW p, NEW amount, UNCHANGED elsewhere,
             RecordActualCosts(m, p, amount) \/ SnapshotEstimatedCosts(m) \/ AdvancePeriod(m)
               \/ GovernReserve
      PROVE  AccountsInv'
  BY <1>1, <1>5 DEF RecordActualCosts, SnapshotEstimatedCosts, AdvancePeriod, GovernReserve
<1>6. CASE GovernRouter \/ GovernModels
  BY <1>1, <1>6 DEF GovernRouter, GovernModels
<1>7. ASSUME UNCHANGED <<reserve, elsewhere>> PROVE AccountsInv'
  BY <1>1, <1>7
<1>8. CASE UNCHANGED feesVars
  BY <1>1, <1>8 DEF feesVars
<1> QED BY <1>2, <1>3, <1>4, <1>5, <1>6, <1>7, <1>8 DEF FeesNext

-----------------------------------------------------------------------------
(* The periods and their actual costs.                                     *)

\* Starting the current period disturbs no period that is over.
LEMMA StartedKeeps ==
  ASSUME SettingsInv, PeriodsInv, NEW ms, periodStartTime' = Started(ms),
         currentPeriod' = currentPeriod
  PROVE  periodStartTime' \in [Models -> [Periods -> Nat]] /\ PeriodsElapse'
<1>1. /\ periodStartTime \in [Models -> [Periods -> Nat]]
      /\ currentPeriod \in [Models -> Periods] /\ clock \in Nat
  BY DEF SettingsInv, PeriodsInv
<1>2. ASSUME NEW m \in Models
      PROVE  /\ periodStartTime'[m] \in [Periods -> Nat]
             /\ \A p \in Periods : p < currentPeriod[m] =>
                  /\ periodStartTime'[m][p] > 0
                  /\ periodStartTime'[m][p + 1] - periodStartTime'[m][p] >= MinPeriod
  <2> DEFINE c == currentPeriod[m]
             s == periodStartTime[m]
             t == periodStartTime'[m]
  <2>1. c \in Periods /\ s \in [Periods -> Nat]
    BY <1>1
  <2>2. t = s \/ (s[c] = 0 /\ t = [s EXCEPT ![c] = clock])
    BY <1>1 DEF Started
  <2>3. \A p \in Periods : p < c => s[p] > 0 /\ s[p + 1] - s[p] >= MinPeriod
    BY DEF PeriodsInv, PeriodsElapse
  <2>4. MinPeriod \in Nat \ {0}
    BY Shortest
  <2> HIDE DEF c, s, t
  <2>5. t \in [Periods -> Nat]
    BY <1>1, <2>1, <2>2
  <2>6. ASSUME NEW p \in Periods, p < c PROVE t[p] > 0 /\ t[p + 1] - t[p] >= MinPeriod
    <3>1. p \in Nat /\ c \in Nat /\ p + 1 \in Periods
      BY <2>1, <2>6, ReserveConstants DEF Periods, ReserveConstants
    <3>2. s[p] \in Nat /\ s[p + 1] \in Nat /\ s[p] > 0 /\ s[p + 1] - s[p] >= MinPeriod
      BY <2>1, <2>3, <2>6, <3>1
    <3>3. s[p + 1] > 0
      BY <2>4, <3>2
    <3>4. t[p] = s[p]
      BY <2>1, <2>2, <2>6, <3>1
    <3>5. t[p + 1] = s[p + 1]
      BY <2>1, <2>2, <3>1, <3>3
    <3> QED BY <3>2, <3>4, <3>5
  <2> QED BY <2>5, <2>6 DEF c, t
<1>3. periodStartTime' = [m \in Models |-> periodStartTime'[m]]
  BY DEF Started
<1>4. periodStartTime' \in [Models -> [Periods -> Nat]]
  BY <1>2, <1>3
<1> QED BY <1>2, <1>4 DEF PeriodsElapse

\* What is added to one period's costs is added to the model's.
LEMMA OneCostMore ==
  ASSUME NEW f \in [Periods -> Nat], NEW p \in Periods, NEW amount \in Nat
  PROVE  /\ [f EXCEPT ![p] = @ + amount] \in [Periods -> Nat]
         /\ SumOf([f EXCEPT ![p] = @ + amount], Periods) = SumOf(f, Periods) + amount
<1> DEFINE g == [f EXCEPT ![p] = @ + amount]
<1>1. g \in [Periods -> Nat] /\ g[p] = f[p] + amount /\ \A x \in Periods \ {p} : g[x] = f[x]
  OBVIOUS
<1>2. IsFiniteSet(Periods)
  BY ReserveConstants, FS_Interval DEF Periods, ReserveConstants
<1> HIDE DEF g
<1>3. SumOf(g, Periods) = SumOf(f, Periods) - f[p] + g[p]
  BY <1>1, <1>2, SumChange
<1>4. SumOf(f, Periods) \in Nat /\ f[p] \in Nat
  BY <1>2, SumType
<1>5. SumOf(g, Periods) = SumOf(f, Periods) + amount
  BY <1>1, <1>3, <1>4
<1> QED BY <1>1, <1>5 DEF g

\* A payment is also an actual cost of its model's current period.
LEMMA PaidPeriods ==
  ASSUME SettingsInv, PeriodsInv, NEW first \in AccountEntries, NEW second \in AccountEntries,
         Pay(first, second)
  PROVE  PeriodsInv'
<1> DEFINE A(m) == Added(m, first, second)
<1>1. \A m : A(m) \in Nat
  BY DEF Added, AccountEntries
<1> HIDE DEF A
<1>2. /\ paid' = [m \in Models |-> paid[m] + A(m)]
      /\ actualCosts' = [m \in Models |-> [actualCosts[m] EXCEPT ![currentPeriod[m]] = @ + A(m)]]
      /\ UNCHANGED <<manual, currentPeriod>>
  BY DEF Pay, MoneyOut, Actuals, A
<1>3. \E ms : periodStartTime' = Started(ms)
  BY DEF Pay, MoneyOut
<1>4. periodStartTime' \in [Models -> [Periods -> Nat]] /\ PeriodsElapse'
  BY <1>2, <1>3, StartedKeeps
<1>5. /\ paid \in [Models -> Nat] /\ manual \in [Models -> Nat]
      /\ currentPeriod \in [Models -> Periods] /\ actualCosts \in [Models -> [Periods -> Nat]]
  BY DEF PeriodsInv
<1>6. ASSUME NEW m \in Models
      PROVE  /\ actualCosts'[m] \in [Periods -> Nat]
             /\ SumOf(actualCosts'[m], Periods) = paid'[m] + manual'[m]
  <2>1. actualCosts[m] \in [Periods -> Nat] /\ currentPeriod[m] \in Periods /\ A(m) \in Nat
    BY <1>1, <1>5
  <2>2. actualCosts'[m] = [actualCosts[m] EXCEPT ![currentPeriod[m]] = @ + A(m)]
    BY <1>2
  <2>3. /\ actualCosts'[m] \in [Periods -> Nat]
        /\ SumOf(actualCosts'[m], Periods) = SumOf(actualCosts[m], Periods) + A(m)
    BY <2>1, <2>2, OneCostMore
  <2>4. SumOf(actualCosts[m], Periods) = paid[m] + manual[m]
    BY DEF PeriodsInv, PaymentsAreActuals
  <2>5. paid[m] \in Nat /\ manual[m] \in Nat /\ paid'[m] = paid[m] + A(m) /\ manual'[m] = manual[m]
    BY <1>2, <1>5
  <2> QED BY <2>1, <2>3, <2>4, <2>5
<1>7. actualCosts' \in [Models -> [Periods -> Nat]] /\ PaymentsAreActuals'
  BY <1>2, <1>6 DEF PaymentsAreActuals
<1>8. paid' \in [Models -> Nat]
  BY <1>1, <1>2, <1>5
<1> QED BY <1>2, <1>4, <1>5, <1>7, <1>8 DEF PeriodsInv

\* A cost recorded by hand is one of its period, and is counted.
LEMMA RecordedPeriods ==
  ASSUME PeriodsInv, NEW m \in Models, NEW p \in Periods, NEW amount \in Nat,
         RecordActualCosts(m, p, amount)
  PROVE  PeriodsInv'
<1> DEFINE f == actualCosts[m]
           g == [f EXCEPT ![p] = @ + amount]
<1>1. /\ paid \in [Models -> Nat] /\ manual \in [Models -> Nat]
      /\ actualCosts \in [Models -> [Periods -> Nat]]
  BY DEF PeriodsInv
<1>2. f \in [Periods -> Nat]
  BY <1>1
<1>3. /\ actualCosts' = [actualCosts EXCEPT ![m] = g]
      /\ manual' = [manual EXCEPT ![m] = @ + amount]
      /\ UNCHANGED <<paid, currentPeriod, periodStartTime>>
  BY DEF RecordActualCosts, accounts, periods
<1> HIDE DEF f
<1>4. g \in [Periods -> Nat] /\ SumOf(g, Periods) = SumOf(f, Periods) + amount
  BY <1>2, OneCostMore
<1> HIDE DEF g
<1>5. actualCosts' \in [Models -> [Periods -> Nat]] /\ manual' \in [Models -> Nat]
  BY <1>1, <1>3, <1>4
<1>6. ASSUME NEW n \in Models
      PROVE  SumOf(actualCosts'[n], Periods) = paid'[n] + manual'[n]
  <2>1. SumOf(actualCosts[n], Periods) = paid[n] + manual[n]
    BY DEF PeriodsInv, PaymentsAreActuals
  <2>2. paid[n] \in Nat /\ manual[n] \in Nat /\ paid'[n] = paid[n]
    BY <1>1, <1>3
  <2>3. CASE n = m
    <3>1. actualCosts'[n] = g /\ manual'[n] = manual[n] + amount
      BY <1>1, <1>3, <2>3
    <3>2. SumOf(f, Periods) = paid[n] + manual[n]
      BY <2>1, <2>3 DEF f
    <3> QED BY <1>4, <2>2, <3>1, <3>2
  <2>4. CASE n # m
    <3>1. actualCosts'[n] = actualCosts[n] /\ manual'[n] = manual[n]
      BY <1>1, <1>3, <2>4
    <3> QED BY <2>1, <2>2, <3>1
  <2> QED BY <2>3, <2>4
<1>7. PeriodsElapse'
  BY <1>3 DEF PeriodsInv, PeriodsElapse
<1> QED BY <1>3, <1>5, <1>6, <1>7 DEF PeriodsInv, PaymentsAreActuals

\* A period is advanced when it is over, and the next one starts with that.
LEMMA AdvancedPeriods ==
  ASSUME SettingsInv, PeriodsInv, NEW m \in Models, AdvancePeriod(m)
  PROVE  PeriodsInv'
<1> DEFINE c == currentPeriod[m]
           s == periodStartTime[m]
           t == [s EXCEPT ![c + 1] = clock]
<1>1. /\ c < MaxPeriod /\ s[c] > 0 /\ clock >= s[c] + reconciliationPeriod
      /\ currentPeriod' = [currentPeriod EXCEPT ![m] = c + 1]
      /\ periodStartTime' = [periodStartTime EXCEPT ![m] = t]
      /\ UNCHANGED <<paid, manual, actualCosts>>
  BY DEF AdvancePeriod, accounts
<1>2. /\ periodStartTime \in [Models -> [Periods -> Nat]]
      /\ currentPeriod \in [Models -> Periods]
  BY DEF PeriodsInv
<1>3. c \in Periods /\ s \in [Periods -> Nat] /\ clock \in Nat
  BY <1>2 DEF SettingsInv
<1>4. c \in Nat /\ c + 1 \in Periods
  BY <1>1, <1>3, ReserveConstants DEF Periods, ReserveConstants
<1>5. clock - s[c] >= MinPeriod /\ MinPeriod \in Nat
  <2>1. MinPeriod <= reconciliationPeriod /\ MinPeriod \in Nat /\ reconciliationPeriod \in Nat
    BY Shortest, ReserveConstants DEF SettingsInv, ReserveConstants
  <2>2. s[c] \in Nat
    BY <1>3
  <2> HIDE DEF c, s
  <2> QED BY <1>1, <1>3, <2>1, <2>2
<1>6. \A p \in Periods : p < c => s[p] > 0 /\ s[p + 1] - s[p] >= MinPeriod
  BY DEF PeriodsInv, PeriodsElapse
<1> HIDE DEF c, s
<1>7. t \in [Periods -> Nat] /\ t[c + 1] = clock
      /\ \A p \in Periods : p # c + 1 => t[p] = s[p]
  BY <1>3, <1>4
<1>8. ASSUME NEW p \in Periods, p < c + 1
      PROVE  t[p] > 0 /\ t[p + 1] - t[p] >= MinPeriod
  <2>1. p \in Nat /\ t[p] = s[p]
    BY <1>4, <1>7, <1>8 DEF Periods
  <2>2. CASE p = c
    BY <1>1, <1>5, <1>7, <2>1, <2>2
  <2>3. CASE p # c
    <3>1. p < c /\ p + 1 \in Periods /\ p + 1 # c + 1
      BY <1>3, <1>4, <1>8, <2>1, <2>3, ReserveConstants DEF Periods, ReserveConstants
    <3> QED BY <1>6, <1>7, <2>1, <3>1
  <2> QED BY <2>2, <2>3
<1> HIDE DEF t
<1>9. /\ periodStartTime' \in [Models -> [Periods -> Nat]]
      /\ currentPeriod' \in [Models -> Periods]
  BY <1>1, <1>2, <1>4, <1>7
<1>10. PeriodsElapse'
  <2>1. ASSUME NEW n \in Models, NEW p \in Periods, p < currentPeriod'[n]
        PROVE  /\ periodStartTime'[n][p] > 0
               /\ periodStartTime'[n][p + 1] - periodStartTime'[n][p] >= MinPeriod
    <3>1. CASE n = m
      <4>1. currentPeriod'[n] = c + 1 /\ periodStartTime'[n] = t
        BY <1>1, <1>2, <3>1
      <4> QED BY <1>8, <2>1, <4>1
    <3>2. CASE n # m
      <4>1. currentPeriod'[n] = currentPeriod[n] /\ periodStartTime'[n] = periodStartTime[n]
        BY <1>1, <1>2, <3>2
      <4> QED BY <2>1, <4>1 DEF PeriodsInv, PeriodsElapse
    <3> QED BY <3>1, <3>2
  <2> QED BY <2>1 DEF PeriodsElapse
<1>11. PaymentsAreActuals'
  BY <1>1 DEF PeriodsInv, PaymentsAreActuals
<1> QED BY <1>1, <1>9, <1>10, <1>11 DEF PeriodsInv

\* Every step keeps the periods.
LEMMA PeriodsStep ==
  ASSUME SettingsInv, PeriodsInv, [FeesNext]_feesVars
  PROVE  PeriodsInv'
<1> USE DEF reserve, accounts, periods
<1>1. ASSUME UNCHANGED <<paid, manual, actualCosts, currentPeriod, periodStartTime>>
      PROVE  PeriodsInv'
  BY <1>1 DEF PeriodsInv, PaymentsAreActuals, PeriodsElapse
<1>2. CASE \E fee \in fees : DepositFee(fee)
  BY <1>1, <1>2 DEF DepositFee, Deposit, Accrue
<1>3. CASE \E first, second \in fees : BatchDepositFees(first, second)
  BY <1>1, <1>3 DEF BatchDepositFees, BatchDeposit, Accrue
<1>4. ASSUME NEW first \in payments, NEW second \in payments \union {Entry(first.model, 0)},
             Pay(first, second)
      PROVE  PeriodsInv'
  <2>1. first \in AccountEntries
    BY InputTypes
  <2>2. second \in AccountEntries
    BY <2>1, InputTypes DEF AccountEntries
  <2> QED BY <1>4, <2>1, <2>2, PaidPeriods
<1>5. ASSUME NEW m \in Models, NEW p \in Periods, NEW amount \in Withdrawals,
             RecordActualCosts(m, p, amount)
      PROVE  PeriodsInv'
  <2>1. amount \in Nat
    BY RouterConstants DEF RouterConstants
  <2> QED BY <1>5, <2>1, RecordedPeriods
<1>6. ASSUME NEW m \in Models, SnapshotEstimatedCosts(m) PROVE PeriodsInv'
  <2>1. /\ periodStartTime' = Started({m})
        /\ UNCHANGED <<paid, manual, actualCosts, currentPeriod>>
    BY <1>6 DEF SnapshotEstimatedCosts
  <2>2. periodStartTime' \in [Models -> [Periods -> Nat]] /\ PeriodsElapse'
    BY <2>1, StartedKeeps
  <2> QED BY <2>1, <2>2 DEF PeriodsInv, PaymentsAreActuals
<1>7. ASSUME NEW m \in Models, AdvancePeriod(m) PROVE PeriodsInv'
  BY <1>7, AdvancedPeriods
<1>8. ASSUME NEW amount, EmergencyWithdraw(amount) \/ GovernReserve PROVE PeriodsInv'
  BY <1>1, <1>8 DEF EmergencyWithdraw, GovernReserve
<1>9. CASE GovernRouter \/ GovernModels
  BY <1>1, <1>9 DEF GovernRouter, GovernModels
<1>10. ASSUME UNCHANGED reserve PROVE PeriodsInv'
  BY <1>1, <1>10
<1>11. CASE UNCHANGED feesVars
  BY <1>10, <1>11 DEF feesVars
<1> QED BY <1>2, <1>3, <1>4, <1>5, <1>6, <1>7, <1>8, <1>9, <1>10, <1>11 DEF FeesNext

-----------------------------------------------------------------------------
(* The split of every step.                                                *)

\* A deposit gives infrastructure no more of a fee than the ceiling or the rate
\* allows, and owes it something for both fees or for neither.
LEMMA CollectedSplit ==
  ASSUME SettingsInv, AccountsInv, NEW first \in Fee, NEW second \in Fee,
         Collect(first, second), Accrue(Infra(first), Infra(second)),
         \/ Infra(first).amount > 0 /\ Infra(second).amount > 0
         \/ Infra(first).amount = 0 /\ Infra(second).amount = 0
         \/ first.model = second.model
  PROVE  ResidualSurvives /\ BatchNeedsEveryShare
<1> DEFINE top(m) == Larger(maxInfraShareBps, accrualBps[m])
<1>1. PICK u \in Models, a \in Nat, i \in Nat :
        /\ first.model = u /\ first.amount = a /\ i * 10000 <= a * top(u)
        /\ Infra(first).model = u /\ Infra(first).amount = i
  <2>1. first.model \in Models /\ first.amount \in Nat
    BY DEF Fee
  <2>2. /\ Infra(first).amount \in Nat /\ Infra(first).model = first.model
        /\ Infra(first).amount * 10000 <= first.amount * top(first.model)
    BY SharesOfFee DEF AccountEntries
  <2> HIDE DEF top
  <2> QED BY <2>1, <2>2
<1>2. PICK v \in Models, b \in Nat, j \in Nat :
        /\ second.model = v /\ second.amount = b /\ j * 10000 <= b * top(v)
        /\ Infra(second).model = v /\ Infra(second).amount = j
  <2>1. second.model \in Models /\ second.amount \in Nat
    BY DEF Fee
  <2>2. /\ Infra(second).amount \in Nat /\ Infra(second).model = second.model
        /\ Infra(second).amount * 10000 <= second.amount * top(second.model)
    BY SharesOfFee DEF AccountEntries
  <2> HIDE DEF top
  <2> QED BY <2>1, <2>2
<1>3. (i > 0 /\ j > 0) \/ (i = 0 /\ j = 0) \/ u = v
  BY <1>1, <1>2
<1>4. ASSUME NEW m \in Models PROVE top(m) \in Nat
  <2>1. accrualBps[m] \in AccrualRates /\ maxInfraShareBps \in Nat
    BY DEF SettingsInv
  <2>2. accrualBps[m] \in Nat
    BY <2>1, Rates
  <2> QED BY <2>1, <2>2 DEF Larger
<1> HIDE DEF top
<1> DEFINE Both(m, x, y) == (IF u = m THEN x ELSE 0) + (IF v = m THEN y ELSE 0)
<1>5. ASSUME NEW m \in Models
      PROVE  FeeGain(m) = Both(m, a, b) /\ InfraGain(m) = Both(m, i, j)
  <2>1. /\ Added(m, first, second) = Both(m, a, b)
        /\ Added(m, Infra(first), Infra(second)) = Both(m, i, j)
    <3>1. /\ first.model = u /\ first.amount = a /\ second.model = v /\ second.amount = b
          /\ Infra(first).model = u /\ Infra(first).amount = i
          /\ Infra(second).model = v /\ Infra(second).amount = j
      BY <1>1, <1>2
    <3> QED BY <3>1, AddedIs
  <2>2. Both(m, a, b) \in Nat /\ Both(m, i, j) \in Nat
    OBVIOUS
  <2> HIDE DEF Both
  <2>3. /\ modelFees'[m] = modelFees[m] + Both(m, a, b)
        /\ accrued'[m] = accrued[m] + Both(m, i, j) /\ paid'[m] = paid[m]
    BY <2>1 DEF Collect, Accrue
  <2>4. modelFees[m] \in Nat /\ accrued[m] \in Nat /\ paid[m] \in Nat
    BY DEF AccountsInv
  <2> QED BY <2>2, <2>3, <2>4 DEF FeeGain, InfraGain
<1>6. ASSUME NEW m \in Models PROVE InfraGain(m) * 10000 <= FeeGain(m) * top(m)
  <2>1. CASE u = m /\ v = m
    <3>1. FeeGain(m) = a + b /\ InfraGain(m) = i + j
      BY <1>5, <2>1
    <3> QED BY <1>1, <1>2, <1>4, <2>1, <3>1, RatesAdd
  <2>2. CASE u = m /\ v # m
    <3>1. FeeGain(m) = a /\ InfraGain(m) = i
      BY <1>5, <2>2
    <3> QED BY <1>1, <2>2, <3>1
  <2>3. CASE u # m /\ v = m
    <3>1. FeeGain(m) = b /\ InfraGain(m) = j
      BY <1>5, <2>3
    <3> QED BY <1>2, <2>3, <3>1
  <2>4. CASE u # m /\ v # m
    <3>1. FeeGain(m) = 0 /\ InfraGain(m) = 0
      BY <1>5, <2>4
    <3>2. 0 * 10000 <= 0 * top(m)
      BY <1>4
    <3> QED BY <3>1, <3>2
  <2> QED BY <2>1, <2>2, <2>3, <2>4
<1>7. ASSUME NEW m \in Models, NEW n \in Models, FeeGain(m) > 0, FeeGain(n) > 0,
             InfraGain(m) > 0
      PROVE  InfraGain(n) > 0
  <2>1. Both(m, a, b) > 0 /\ Both(n, a, b) > 0 /\ Both(m, i, j) > 0
    BY <1>5, <1>7
  <2>2. (u = m \/ v = m) /\ (u = n \/ v = n)
    BY <2>1
  <2>3. Both(n, i, j) > 0
    <3>1. CASE i > 0 /\ j > 0
      BY <2>2, <3>1
    <3>2. CASE i = 0 /\ j = 0
      BY <2>1, <3>2
    <3>3. CASE u = v
      <4>1. u = m /\ u = n
        BY <2>2, <3>3
      <4> QED BY <2>1, <4>1
    <3> QED BY <1>3, <3>1, <3>2, <3>3
  <2> HIDE DEF Both
  <2> QED BY <1>5, <2>3
<1>8. ResidualSurvives
  BY <1>6 DEF ResidualSurvives, top
<1>9. BatchNeedsEveryShare
  BY <1>7 DEF BatchNeedsEveryShare
<1> QED BY <1>8, <1>9

\* A step that collects no fee splits none.
LEMMA NothingSplit ==
  ASSUME SettingsInv, AccountsInv, UNCHANGED modelFees,
         \A m \in Models : accrued'[m] + paid'[m] = accrued[m] + paid[m]
  PROVE  ResidualSurvives /\ BatchNeedsEveryShare
<1>1. ASSUME NEW m \in Models PROVE FeeGain(m) = 0 /\ InfraGain(m) = 0
  <2>1. modelFees[m] \in Nat /\ accrued[m] + paid[m] \in Nat
    BY DEF AccountsInv
  <2> QED BY <2>1 DEF FeeGain, InfraGain
<1>2. ASSUME NEW m \in Models
      PROVE  InfraGain(m) * 10000 <= FeeGain(m) * Larger(maxInfraShareBps, accrualBps[m])
  <2> DEFINE top == Larger(maxInfraShareBps, accrualBps[m])
  <2>1. top \in Nat
    <3>1. accrualBps[m] \in AccrualRates /\ maxInfraShareBps \in Nat
      BY DEF SettingsInv
    <3>2. accrualBps[m] \in Nat
      BY <3>1, Rates
    <3> QED BY <3>1, <3>2 DEF Larger
  <2> HIDE DEF top
  <2>2. InfraGain(m) * 10000 <= FeeGain(m) * top
    BY <1>1, <2>1
  <2> QED BY <2>2 DEF top
<1>3. BatchNeedsEveryShare
  BY <1>1 DEF BatchNeedsEveryShare
<1> QED BY <1>2, <1>3 DEF ResidualSurvives

\* Every step splits what it collects within the bounds, or collects nothing.
LEMMA SplitStep ==
  ASSUME SettingsInv, AccountsInv, FeesNext
  PROVE  ResidualSurvives /\ BatchNeedsEveryShare
<1> USE DEF reserve, accounts, router, elsewhere
<1>1. ASSUME UNCHANGED <<modelFees, accrued, paid>>
      PROVE  ResidualSurvives /\ BatchNeedsEveryShare
  BY <1>1, NothingSplit
<1>2. CASE (\E fee \in fees : DepositFee(fee)) \/ (\E f, s \in fees : BatchDepositFees(f, s))
  BY <1>2, EveryDeposit, CollectedSplit
<1>3. ASSUME NEW first \in payments, NEW second \in payments \union {Entry(first.model, 0)},
             Pay(first, second), UNCHANGED elsewhere
      PROVE  ResidualSurvives /\ BatchNeedsEveryShare
  <2> DEFINE A(m) == Added(m, first, second)
  <2>1. first \in AccountEntries
    BY InputTypes
  <2>2. second \in AccountEntries
    BY <2>1, InputTypes DEF AccountEntries
  <2>3. \A m : A(m) \in Nat
    BY <2>1, <2>2 DEF Added, AccountEntries
  <2> HIDE DEF A
  <2>4. /\ paid' = [m \in Models |-> paid[m] + A(m)]
        /\ accrued' = [m \in Models |-> accrued[m] - A(m)]
    BY <1>3 DEF Pay, MoneyOut, A
  <2>5. accrued \in [Models -> Nat] /\ paid \in [Models -> Nat]
    BY DEF AccountsInv
  <2>6. \A m \in Models : accrued'[m] + paid'[m] = accrued[m] + paid[m]
    BY <2>3, <2>4, <2>5
  <2> QED BY <1>3, <2>6, NothingSplit
<1>4. ASSUME NEW m, NEW p, NEW amount, UNCHANGED elsewhere,
             RecordActualCosts(m, p, amount) \/ SnapshotEstimatedCosts(m) \/ AdvancePeriod(m)
               \/ EmergencyWithdraw(amount) \/ GovernReserve
      PROVE  ResidualSurvives /\ BatchNeedsEveryShare
  BY <1>1, <1>4 DEF RecordActualCosts, SnapshotEstimatedCosts, AdvancePeriod, GovernReserve,
     EmergencyWithdraw
<1>5. CASE GovernRouter \/ GovernModels
  BY <1>1, <1>5 DEF GovernRouter, GovernModels
<1>6. ASSUME UNCHANGED <<reserve, elsewhere>> PROVE ResidualSurvives /\ BatchNeedsEveryShare
  BY <1>1, <1>6
<1> QED BY <1>2, <1>3, <1>4, <1>5, <1>6 DEF FeesNext

\* A cost is replaced by one that waited for the epoch to be over.
LEMMA CostsStep ==
  ASSUME SettingsInv, WaitingKeepsEpochs, FeesNext
  PROVE  CostsKeepEpochs
<1> USE DEF oracle, elsewhere
<1>1. ASSUME UNCHANGED lastUpdated PROVE CostsKeepEpochs
  BY <1>1 DEF CostsKeepEpochs
<1>2. ASSUME NEW m \in Models, ApplyPendingUpdate(m) PROVE CostsKeepEpochs
  <2>1. /\ pendingCosts[m].exists /\ clock >= pendingCosts[m].effectiveAfter
        /\ lastUpdated' = [lastUpdated EXCEPT ![m] = clock]
    BY <1>2 DEF ApplyPendingUpdate
  <2>2. /\ lastUpdated \in [Models -> Nat] /\ clock \in Nat
        /\ pendingCosts[m].effectiveAfter \in Nat
    BY DEF SettingsInv
  <2>3. MinEpoch \in Nat
    BY Shortest
  <2>4. ASSUME lastUpdated[m] > 0 PROVE clock - lastUpdated[m] >= MinEpoch
    <3>1. pendingCosts[m].effectiveAfter >= lastUpdated[m] + MinEpoch
      BY <2>1, <2>4 DEF WaitingKeepsEpochs
    <3> QED BY <2>1, <2>2, <2>3, <3>1
  <2> QED BY <2>1, <2>2, <2>4 DEF CostsKeepEpochs
<1>3. ASSUME UNCHANGED oracle PROVE CostsKeepEpochs
  BY <1>1, <1>3
<1>4. CASE \E fee \in fees : DepositFee(fee)
  BY <1>3, <1>4 DEF DepositFee, Collect
<1>5. CASE \E first, second \in fees : BatchDepositFees(first, second)
  BY <1>3, <1>5 DEF BatchDepositFees, Collect
<1>6. CASE GovernRouter \/ GovernModels
  BY <1>3, <1>6 DEF GovernRouter, GovernModels
<1>7. ASSUME NEW m, NEW cost, NEW wish, SetEstimatedCost(m, cost, wish) PROVE CostsKeepEpochs
  BY <1>1, <1>7 DEF SetEstimatedCost
<1>8. CASE SetEpochDuration \/ Tick
  BY <1>1, <1>8 DEF SetEpochDuration, Tick
<1> QED BY <1>2, <1>3, <1>4, <1>5, <1>6, <1>7, <1>8 DEF FeesNext

-----------------------------------------------------------------------------
(* The theorems.                                                           *)

\* The invariant holds at the start: nothing is collected, queued or recorded.
LEMMA FeesInitially == FeesInit => FeesInv
<1> SUFFICES ASSUME FeesInit PROVE FeesInv
  OBVIOUS
<1>1. SettingsInv
  BY DEF FeesInit, OracleInit, ReserveInit, SettingsInv, Deleted
<1>2. WaitingKeepsEpochs
  BY DEF FeesInit, OracleInit, WaitingKeepsEpochs
<1>3. AccountsInv
  <2>1. SumOf(accrued, Models) = 0 /\ SumOf(modelFees, Models) = 0
    BY SumZero DEF FeesInit, ReserveInit
  <2>2. FeesReachTheirModel /\ ReserveBacked
    BY <2>1 DEF FeesInit, ReserveInit, FeesReachTheirModel, ReserveBacked
  <2> QED BY <2>2 DEF FeesInit, ReserveInit, AccountsInv
<1>4. PeriodsInv
  <2>1. 0 \in Periods
    BY ReserveConstants DEF Periods, ReserveConstants
  <2>2. /\ paid = [m \in Models |-> 0] /\ manual = [m \in Models |-> 0]
        /\ currentPeriod = [m \in Models |-> 0]
        /\ actualCosts = [m \in Models |-> [p \in Periods |-> 0]]
        /\ periodStartTime = [m \in Models |-> [p \in Periods |-> 0]]
    BY DEF FeesInit, ReserveInit
  <2>3. PaymentsAreActuals
    <3>1. ASSUME NEW m \in Models PROVE SumOf(actualCosts[m], Periods) = 0
      <4>1. \A p \in Periods : actualCosts[m][p] = 0
        BY <2>2
      <4> QED BY <4>1, SumZero
    <3> QED BY <2>2, <3>1 DEF PaymentsAreActuals
  <2>4. PeriodsElapse
    <3>1. \A m \in Models : \A p \in Periods : ~(p < currentPeriod[m])
      BY <2>2, ReserveConstants DEF Periods, ReserveConstants
    <3> QED BY <3>1 DEF PeriodsElapse
  <2> QED BY <2>1, <2>2, <2>3, <2>4 DEF PeriodsInv
<1> QED BY <1>1, <1>2, <1>3, <1>4 DEF FeesInv

LEMMA FeesKeep == FeesInv /\ [FeesNext]_feesVars => FeesInv'
BY SettingsStep, AccountsStep, PeriodsStep DEF FeesInv

\* In every state the settings are in range, costs wait for their epoch, the
\* accounts add up and the periods have run their time.
THEOREM FeesInvariant == FeesSpec => []FeesInv
BY FeesKeep, FeesInitially, PTL DEF FeesSpec

\* What the fees' invariant says of the accounts.
LEMMA FeesGive == FeesInv => FeesAccounted
<1> SUFFICES ASSUME FeesInv PROVE FeesAccounted
  OBVIOUS
<1>1. Periods \subseteq Nat
  BY DEF Periods
<1>2. /\ costPerThousandCalls \in [Models -> Nat] /\ lastUpdated \in [Models -> Nat]
      /\ accrued \in [Models -> Nat] /\ paid \in [Models -> Nat]
      /\ currentPeriod \in [Models -> Nat] /\ manual \in [Models -> Nat]
      /\ modelFees \in [Models -> Nat] /\ poolFees \in [Models -> Nat]
  <2>1. currentPeriod \in [Models -> Nat]
    <3>1. currentPeriod \in [Models -> Periods]
      BY DEF FeesInv, PeriodsInv
    <3> QED BY <1>1, <3>1
  <2>2. /\ accrued \in [Models -> Nat] /\ paid \in [Models -> Nat]
        /\ modelFees \in [Models -> Nat] /\ poolFees \in [Models -> Nat]
    BY DEF FeesInv, AccountsInv
  <2>3. manual \in [Models -> Nat]
    BY DEF FeesInv, PeriodsInv
  <2> QED BY <2>1, <2>2, <2>3 DEF FeesInv, SettingsInv
<1>3. /\ totalAccrued \in Nat /\ totalPaid \in Nat /\ reserveUsdc \in Nat
      /\ withdrawn \in Nat /\ totalFeesDeposited \in Nat /\ maxCostAge \in Nat
  BY DEF FeesInv, SettingsInv, AccountsInv
<1>4. /\ clock \in Nat \ {0} /\ epochDuration \in EpochDurations
      /\ actualCosts \in [Models -> [Periods -> Nat]]
      /\ periodStartTime \in [Models -> [Periods -> Nat]]
      /\ maxInfraShareBps \in Nat /\ maxInfraShareBps <= 10000
  BY DEF FeesInv, SettingsInv, PeriodsInv
<1>5. routerUsdc \in Nat
  BY DEF FeesInv, AccountsInv, FeesReachTheirModel
<1>6. FeesTypeOK
  BY <1>2, <1>3, <1>4, <1>5 DEF FeesTypeOK
<1> QED BY <1>6 DEF FeesInv, AccountsInv, PeriodsInv, FeesAccounted

\* Whatever is deposited, split, paid, withdrawn and recorded, in batches or alone,
\* every model's fees are in its own accounts, the reserve holds what they say less
\* what was withdrawn in an emergency, payments are actual costs and no period that
\* is over was too short.
THEOREM FeesAlwaysAccounted == FeesSpec => []FeesAccounted
BY FeesGive, FeesInvariant, PTL

\* No step gives infrastructure more of a fee than the ceiling or the model's rate
\* allows, deposits a batch of which one fee owes it nothing and another something,
\* or replaces a model's cost before the shortest epoch is over.
THEOREM FeesAlwaysSplitSoundly == FeesSpec => FeesSplitSoundly
<1>1. FeesInv /\ [FeesNext]_feesVars
        => [ResidualSurvives /\ BatchNeedsEveryShare /\ CostsKeepEpochs]_feesVars
  BY SplitStep, CostsStep DEF FeesInv
<1> QED BY <1>1, FeesInvariant, PTL DEF FeesSpec, FeesSplitSoundly

-----------------------------------------------------------------------------
(* How pools come to be watched.                                           *)

Stages == {"stopped", "existing", "listening", "history", "all", "running"}
Awaited == {"nothing", "turn", "config", "poll"}
Subscriptions == {"none", "asked", "effective", "refused"}

\* A pool that is known, excused, waits for start() or is on its way.
Excused(p) ==
  \/ p \in unheard /\ (fromLatest \/ bornAt[p] # "listening")
  \/ fromLatest /\ bornAt[p] = "existing"
  \/ ~matches /\ bornAt[p] # "stopped"
Handled(p) == \E t \in Tasks : doing[t].pool = p /\ doing[t].awaits \in {"turn", "config"}
PoolIsCovered(p) == p \in discoveredPools \union unread \/ Excused(p) \/ p \in todo \/ Handled(p)

\* Until the list is there, pools wait for it; those created between the list and
\* the subscription, in effect, wait for the query.
ComesLater(p) ==
  \/ stage = "stopped" /\ bornAt[p] = "stopped"
  \/ /\ stage \in {"existing", "listening"}
     /\ bornAt[p] = "existing" \/ (bornAt[p] = "listening" /\ p \in unheard)

\* A discovered pool is watched, or will be.
Watched(p) == (p \in pollingIntervals /\ p \in poolContracts) \/ p \in untracked
Polled(p) == \E t \in Tasks : doing[t].pool = p /\ doing[t].awaits = "poll"
Next1(p) == p \in todo \/ (stage = "all" /\ doing[Main].pool = p /\ doing[Main].awaits = "turn")

AllCovered == \A p \in created : PoolIsCovered(p) \/ ComesLater(p)
AllTracked ==
  stage \in {"all", "running"} => \A p \in discoveredPools : Watched(p) \/ Polled(p) \/ Next1(p)

WatchTypes ==
  /\ stage \in Stages /\ doing \in [Tasks -> [pool : Tasks, awaits : Awaited]]
  /\ created \subseteq WatchedPools /\ bornAt \in [WatchedPools -> Stages \union {"unborn"}]
  /\ subscription \in Subscriptions
  /\ subscription = "none" <=> stage \in {"stopped", "existing"}
  /\ stage \in {"stopped", "running"} => todo = {} /\ doing[Main].awaits = "nothing"
  /\ \A p \in WatchedPools : p \notin created => doing[p].awaits = "nothing"
  /\ stage = "all" => /\ todo \subseteq discoveredPools
                      /\ doing[Main].awaits = "turn" => doing[Main].pool \in discoveredPools

WatchInv == WatchTypes /\ AllCovered /\ AllTracked

LEMMA WatchStarts == WatchInit => WatchInv
<1> SUFFICES ASSUME WatchInit PROVE WatchInv
  OBVIOUS
<1>1. Idle \in [pool : Tasks, awaits : Awaited] /\ Main \in Tasks /\ Idle.awaits = "nothing"
  BY DEF Idle, Tasks, Awaited
<1>2. WatchTypes
  BY <1>1 DEF WatchInit, WatchTypes, Stages, Tasks, Subscriptions
<1>3. AllCovered /\ AllTracked
  BY DEF WatchInit, AllCovered, AllTracked
<1> QED BY <1>2, <1>3 DEF WatchInv

LEMMA PoolCreatedKeeps ==
  ASSUME WatchInv, NEW p \in WatchedPools, PoolCreated(p)
  PROVE  WatchInv'
<1> USE DEF WatchInv, WatchTypes, PoolCreated, monitoring
<1>1. p \in Tasks /\ Main \in Tasks /\ p # Main /\ [pool |-> p, awaits |-> "turn"] \in [pool : Tasks, awaits : Awaited]
  BY WatchConstants DEF Tasks, Awaited
<1>2. doing' = IF subscription = "effective" /\ matches THEN [doing EXCEPT ![p] = [pool |-> p, awaits |-> "turn"]] ELSE doing
  OBVIOUS
<1>3. /\ doing' \in [Tasks -> [pool : Tasks, awaits : Awaited]]
      /\ \A t \in Tasks : t # p => doing'[t] = doing[t]
      /\ ~(subscription = "effective" /\ matches) => doing' = doing
      /\ subscription = "effective" /\ matches => doing'[p].pool = p /\ doing'[p].awaits = "turn"
      /\ doing[p].awaits = "nothing"
  BY <1>1, <1>2
<1>4. /\ created' = created \union {p} /\ stage' = stage /\ todo' = todo /\ discoveredPools' = discoveredPools
      /\ unread' = unread /\ untracked' = untracked /\ pollingIntervals' = pollingIntervals
      /\ poolContracts' = poolContracts /\ fromLatest' = fromLatest /\ matches' = matches
      /\ subscription' = subscription
  OBVIOUS
<1>5. bornAt' = [bornAt EXCEPT ![p] = stage] /\ bornAt' \in [WatchedPools -> Stages \union {"unborn"}]
      /\ bornAt'[p] = stage /\ \A q \in WatchedPools : q # p => bornAt'[q] = bornAt[q]
  OBVIOUS
<1>u. /\ subscription \in {"asked", "refused"} => p \in unheard'
      /\ unheard' \ {p} = unheard \ {p} /\ unheard \subseteq unheard'
  OBVIOUS
<1>6. WatchTypes'
  <2>1. /\ stage' \in Stages /\ created' \subseteq WatchedPools /\ subscription' \in Subscriptions
        /\ (subscription' = "none" <=> stage' \in {"stopped", "existing"})
    BY <1>4
  <2>2. stage \in {"stopped", "running"} => todo = {} /\ doing'[Main].awaits = "nothing"
    BY <1>1, <1>3
  <2>3. \A q \in WatchedPools : q \notin created' => doing'[q].awaits = "nothing"
    BY <1>3, <1>4 DEF Tasks
  <2>4. stage = "all" => /\ todo \subseteq discoveredPools
                         /\ doing'[Main].awaits = "turn" => doing'[Main].pool \in discoveredPools
    BY <1>1, <1>3
  <2> QED BY <1>3, <1>4, <1>5, <2>1, <2>2, <2>3, <2>4
<1>7. \A q : (\E t \in Tasks : doing[t].pool = q /\ doing[t].awaits \in {"turn", "config"})
              => \E t \in Tasks : doing'[t].pool = q /\ doing'[t].awaits \in {"turn", "config"}
  BY <1>3
<1>8. \A q : (\E t \in Tasks : doing[t].pool = q /\ doing[t].awaits = "poll")
              => \E t \in Tasks : doing'[t].pool = q /\ doing'[t].awaits = "poll"
  BY <1>3
<1>9. AllCovered'
  <2> SUFFICES ASSUME NEW q \in created' PROVE PoolIsCovered(q)' \/ ComesLater(q)'
    BY DEF AllCovered
  <2>1. CASE q = p
    <3>1. CASE subscription = "none"
      BY <1>4, <1>5, <2>1, <3>1 DEF ComesLater
    <3>2. CASE subscription = "effective" /\ matches
      <4>1. doing'[p].pool = p /\ doing'[p].awaits \in {"turn", "config"}
        BY <1>3, <3>2
      <4> QED BY <1>1, <2>1, <4>1 DEF PoolIsCovered, Handled
    <3>3. CASE subscription # "none" /\ ~matches
      <4>1. bornAt'[q] # "stopped" /\ ~matches'
        BY <1>4, <1>5, <2>1, <3>3
      <4> QED BY <4>1 DEF PoolIsCovered, Excused
    <3>4. CASE subscription \in {"asked", "refused"}
      <4>1. q \in unheard' /\ bornAt'[q] = stage /\ stage' = stage
        BY <1>4, <1>5, <1>u, <2>1, <3>4
      <4>2. CASE stage = "listening"
        BY <4>1, <4>2 DEF ComesLater
      <4>3. CASE stage # "listening"
        BY <4>1, <4>3 DEF PoolIsCovered, Excused
      <4> QED BY <4>2, <4>3
    <3> QED BY <3>1, <3>2, <3>3, <3>4 DEF Subscriptions
  <2>2. CASE q # p
    <3>1. q \in created /\ q \in WatchedPools /\ bornAt'[q] = bornAt[q]
      BY <1>4, <1>5, <2>2
    <3>2. PoolIsCovered(q) \/ ComesLater(q)
      BY <3>1 DEF AllCovered
    <3>3. Handled(q) => Handled(q)'
      BY <1>7 DEF Handled
    <3>4. q \in unheard <=> q \in unheard'
      BY <1>u, <2>2
    <3> QED BY <1>4, <3>1, <3>2, <3>3, <3>4 DEF PoolIsCovered, ComesLater, Excused
  <2> QED BY <2>1, <2>2
<1>10. AllTracked'
  <2> SUFFICES ASSUME stage \in {"all", "running"}, NEW q \in discoveredPools
               PROVE  Watched(q)' \/ Polled(q)' \/ Next1(q)'
    BY <1>4 DEF AllTracked
  <2>1. Watched(q) \/ Polled(q) \/ Next1(q)
    BY DEF AllTracked
  <2>2. Polled(q) => Polled(q)'
    BY <1>8 DEF Polled
  <2>3. doing'[Main] = doing[Main]
    BY <1>1, <1>3
  <2> QED BY <1>4, <2>1, <2>2, <2>3 DEF Watched, Next1
<1> QED BY <1>6, <1>9, <1>10

WatchedNext(p) == (p \in pollingIntervals' /\ p \in poolContracts') \/ p \in untracked'

\* What the step of a task does to the pool it is handling, and to nothing else.
TaskStep(t) ==
  /\ doing[t].awaits # "nothing"
  /\ doing' \in [Tasks -> [pool : Tasks, awaits : Awaited]]
  /\ \A u \in Tasks : u # t => doing'[u] = doing[u]
  /\ t = Main /\ stage = "all" => doing'[t].awaits # "turn"
  /\ UNCHANGED <<created, fromLatest, matches, stage, subscription, bornAt, unheard>>
  /\ discoveredPools \subseteq discoveredPools' /\ unread \subseteq unread'
  /\ untracked \subseteq untracked' /\ pollingIntervals \subseteq pollingIntervals'
  /\ poolContracts \subseteq poolContracts'
  /\ todo' = todo \/ (stage = "history" /\ todo' = {} /\ todo \subseteq unread')
  /\ doing[t].awaits \in {"turn", "config"} =>
       \/ doing[t].pool \in discoveredPools' \union unread'
       \/ doing'[t].pool = doing[t].pool /\ doing'[t].awaits \in {"turn", "config"}
  /\ \/ WatchedNext(doing[t].pool)
     \/ doing'[t].pool = doing[t].pool /\ doing'[t].awaits = "poll"
     \/ /\ discoveredPools' = discoveredPools /\ doing[t].awaits # "poll"
        /\ ~(t = Main /\ stage = "all" /\ doing[t].awaits = "turn")
  /\ \A q \in discoveredPools' : q \in discoveredPools \/ q = doing[t].pool

LEMMA TaskKeeps ==
  ASSUME WatchInv, NEW t \in Tasks, TaskStep(t)
  PROVE  WatchInv'
<1> USE DEF WatchInv, WatchTypes
<1>1. /\ doing' \in [Tasks -> [pool : Tasks, awaits : Awaited]]
      /\ \A u \in Tasks : u # t => doing'[u] = doing[u]
      /\ created' = created /\ fromLatest' = fromLatest /\ matches' = matches /\ stage' = stage
      /\ subscription' = subscription
      /\ bornAt' = bornAt /\ unheard' = unheard
      /\ doing[t].awaits # "nothing"
  BY DEF TaskStep
<1>2. /\ discoveredPools \subseteq discoveredPools' /\ unread \subseteq unread'
      /\ untracked \subseteq untracked' /\ pollingIntervals \subseteq pollingIntervals'
      /\ poolContracts \subseteq poolContracts'
      /\ todo' = todo \/ (stage = "history" /\ todo' = {} /\ todo \subseteq unread')
  BY DEF TaskStep
<1>3. Main \in Tasks /\ WatchedPools \subseteq Tasks
  BY DEF Tasks
<1>4. WatchTypes'
  <2>1. stage \in {"stopped", "running"} => todo' = {} /\ doing'[Main].awaits = "nothing"
    BY <1>1, <1>2, <1>3
  <2>2. \A p \in WatchedPools : p \notin created => doing'[p].awaits = "nothing"
    BY <1>1, <1>3
  <2>3. stage = "all" => /\ todo' \subseteq discoveredPools'
                         /\ doing'[Main].awaits = "turn" => doing'[Main].pool \in discoveredPools'
    <3>1. stage = "all" => todo' = todo
      BY <1>2
    <3>2. CASE t = Main
      BY <1>2, <3>1, <3>2 DEF TaskStep
    <3>3. CASE t # Main
      BY <1>1, <1>2, <1>3, <3>1, <3>3
    <3> QED BY <3>2, <3>3
  <2> QED BY <1>1, <2>1, <2>2, <2>3
<1>5. AllCovered'
  <2> SUFFICES ASSUME NEW q \in created PROVE PoolIsCovered(q)' \/ ComesLater(q)'
    BY <1>1 DEF AllCovered
  <2>1. PoolIsCovered(q) \/ ComesLater(q)
    BY DEF AllCovered
  <2>2. ComesLater(q) => ComesLater(q)'
    BY <1>1 DEF ComesLater
  <2>3. q \in discoveredPools \union unread \/ Excused(q) \/ q \in todo => PoolIsCovered(q)'
    BY <1>1, <1>2 DEF PoolIsCovered, Excused
  <2>4. ASSUME NEW u \in Tasks, doing[u].pool = q, doing[u].awaits \in {"turn", "config"}
        PROVE  PoolIsCovered(q)'
    <3>1. CASE u # t
      <4>1. doing'[u].pool = q /\ doing'[u].awaits \in {"turn", "config"}
        BY <1>1, <2>4, <3>1
      <4> QED BY <4>1 DEF PoolIsCovered, Handled
    <3>2. CASE u = t
      <4>1. \/ q \in discoveredPools' \union unread'
            \/ doing'[t].pool = q /\ doing'[t].awaits \in {"turn", "config"}
        BY <2>4, <3>2 DEF TaskStep
      <4> QED BY <4>1 DEF PoolIsCovered, Handled
    <3> QED BY <3>1, <3>2
  <2> QED BY <2>1, <2>2, <2>3, <2>4 DEF PoolIsCovered, Handled
<1>6. AllTracked'
  <2> SUFFICES ASSUME stage \in {"all", "running"}, NEW q \in discoveredPools'
               PROVE  Watched(q)' \/ Polled(q)' \/ Next1(q)'
    BY <1>1 DEF AllTracked
  <2>1. Watched(q) => Watched(q)'
    BY <1>2 DEF Watched
  <2>2. todo' = todo
    BY <1>2
  <2>a. \/ WatchedNext(doing[t].pool)
        \/ doing'[t].pool = doing[t].pool /\ doing'[t].awaits = "poll"
        \/ /\ discoveredPools' = discoveredPools /\ doing[t].awaits # "poll"
           /\ ~(t = Main /\ stage = "all" /\ doing[t].awaits = "turn")
    BY DEF TaskStep
  <2>3. CASE q = doing[t].pool /\ WatchedNext(doing[t].pool)
    BY <2>3 DEF Watched, WatchedNext
  <2>4. CASE q = doing[t].pool /\ doing'[t].pool = doing[t].pool /\ doing'[t].awaits = "poll"
    BY <2>4 DEF Polled
  <2>5. CASE q \in discoveredPools /\ (\/ q # doing[t].pool
                                       \/ /\ doing[t].awaits # "poll"
                                          /\ ~(t = Main /\ stage = "all" /\ doing[t].awaits = "turn"))
    <3>1. Watched(q) \/ Polled(q) \/ Next1(q)
      BY <2>5 DEF AllTracked
    <3>2. ASSUME NEW u \in Tasks, doing[u].pool = q, doing[u].awaits = "poll" PROVE Polled(q)'
      <4>1. u # t
        BY <2>5, <3>2
      <4> QED BY <1>1, <3>2, <4>1 DEF Polled
    <3>3. Next1(q) => Next1(q)'
      <4>1. CASE q \in todo
        BY <2>2, <4>1 DEF Next1
      <4>2. CASE stage = "all" /\ doing[Main].pool = q /\ doing[Main].awaits = "turn"
        <5>1. Main # t
          BY <2>5, <4>2
        <5> QED BY <1>1, <1>3, <4>2, <5>1 DEF Next1
      <4> QED BY <4>1, <4>2 DEF Next1
    <3> QED BY <2>1, <3>1, <3>2, <3>3 DEF Polled
  <2> QED BY <2>a, <2>3, <2>4, <2>5 DEF TaskStep
<1> QED BY <1>4, <1>5, <1>6

LEMMA TasksKeep ==
  ASSUME WatchInv, NEW t \in Tasks, Handle(t) \/ Discover(t) \/ Track(t) \/ ReadFails(t)
  PROVE  WatchInv'
<1> USE DEF WatchInv, WatchTypes
<1>1. /\ doing \in [Tasks -> [pool : Tasks, awaits : Awaited]] /\ doing[t].pool \in Tasks
      /\ Idle \in [pool : Tasks, awaits : Awaited] /\ Idle.awaits = "nothing"
  BY DEF Idle, Tasks, Awaited
<1>2. ASSUME NEW what \in Awaited, Await(t, what)
      PROVE  /\ doing' \in [Tasks -> [pool : Tasks, awaits : Awaited]]
             /\ \A u \in Tasks : u # t => doing'[u] = doing[u]
             /\ doing'[t].pool = doing[t].pool /\ doing'[t].awaits = what
  BY <1>1, <1>2 DEF Await
<1>3. ASSUME Finish(t)
      PROVE  /\ doing' \in [Tasks -> [pool : Tasks, awaits : Awaited]]
             /\ \A u \in Tasks : u # t => doing'[u] = doing[u]
             /\ doing'[t].awaits = "nothing"
  BY <1>1, <1>3 DEF Finish
<1>4. "poll" \in Awaited /\ "config" \in Awaited
  BY DEF Awaited
<1>5. ASSUME BeginTracking(t), pollingIntervals' = pollingIntervals
      PROVE  /\ doing' \in [Tasks -> [pool : Tasks, awaits : Awaited]]
             /\ \A u \in Tasks : u # t => doing'[u] = doing[u]
             /\ poolContracts \subseteq poolContracts' /\ doing'[t].awaits # "turn"
             /\ \/ WatchedNext(doing[t].pool)
                \/ doing'[t].pool = doing[t].pool /\ doing'[t].awaits = "poll"
  <2>1. CASE doing[t].pool \in pollingIntervals
    <3>1. poolContracts' = poolContracts \union {doing[t].pool} /\ Finish(t)
      BY <1>5, <2>1 DEF BeginTracking
    <3>2. WatchedNext(doing[t].pool)
      <4>1. doing[t].pool \in pollingIntervals' /\ doing[t].pool \in poolContracts'
        BY <1>5, <2>1, <3>1
      <4> DEFINE p == doing[t].pool
      <4> QED BY <4>1 DEF WatchedNext
    <3> QED BY <1>3, <3>1, <3>2
  <2>2. CASE doing[t].pool \notin pollingIntervals
    <3>1. Await(t, "poll") /\ poolContracts' = poolContracts
      BY <1>5, <2>2 DEF BeginTracking
    <3> QED BY <1>2, <1>4, <3>1
  <2> QED BY <2>1, <2>2
<1>6. CASE Handle(t)
  <2>1. /\ doing[t].awaits = "turn"
        /\ UNCHANGED <<created, fromLatest, matches, stage, subscription, bornAt, unheard>>
        /\ todo' = todo /\ discoveredPools' = discoveredPools /\ unread' = unread
        /\ untracked' = untracked /\ pollingIntervals' = pollingIntervals
    BY <1>6 DEF Handle, watchHistory
  <2>2. CASE t = Main /\ stage = "all"
    <3>1. BeginTracking(t) /\ doing[t].pool \in discoveredPools
      BY <1>6, <2>1, <2>2 DEF Handle
    <3>2. TaskStep(t)
      BY <1>5, <2>1, <3>1 DEF TaskStep
    <3> QED BY <3>2, TaskKeeps
  <2>3. CASE ~(t = Main /\ stage = "all") /\ doing[t].pool \in discoveredPools
    <3>1. Finish(t) /\ poolContracts' = poolContracts
      BY <1>6, <2>3 DEF Handle
    <3>2. TaskStep(t)
      BY <1>3, <2>1, <2>3, <3>1 DEF TaskStep
    <3> QED BY <3>2, TaskKeeps
  <2>4. CASE ~(t = Main /\ stage = "all") /\ doing[t].pool \notin discoveredPools
    <3>1. Await(t, "config") /\ poolContracts' = poolContracts
      BY <1>6, <2>4 DEF Handle
    <3>2. TaskStep(t)
      BY <1>2, <1>4, <2>1, <2>4, <3>1 DEF TaskStep
    <3> QED BY <3>2, TaskKeeps
  <2> QED BY <2>2, <2>3, <2>4
<1>7. CASE Discover(t)
  <2>1. /\ doing[t].awaits = "config" /\ BeginTracking(t)
        /\ UNCHANGED <<created, fromLatest, matches, stage, subscription, bornAt, unheard>>
        /\ todo' = todo /\ discoveredPools' = discoveredPools \union {doing[t].pool} /\ unread' = unread
        /\ untracked' = untracked /\ pollingIntervals' = pollingIntervals
    BY <1>7 DEF Discover, watchHistory
  <2>2. TaskStep(t)
    BY <1>5, <2>1 DEF TaskStep
  <2> QED BY <2>2, TaskKeeps
<1>8. CASE Track(t)
  <2>1. /\ doing[t].awaits = "poll" /\ Finish(t)
        /\ UNCHANGED <<created, fromLatest, matches, stage, subscription, bornAt, unheard>>
        /\ todo' = todo /\ discoveredPools' = discoveredPools /\ unread' = unread
        /\ untracked' = untracked /\ pollingIntervals' = pollingIntervals \union {doing[t].pool}
        /\ poolContracts' = poolContracts \union {doing[t].pool}
    BY <1>8 DEF Track, watchHistory
  <2>2. WatchedNext(doing[t].pool)
    BY <2>1 DEF WatchedNext
  <2>3. TaskStep(t)
    BY <1>3, <2>1, <2>2 DEF TaskStep
  <2> QED BY <2>3, TaskKeeps
<1>9. CASE ReadFails(t)
  <2>1. /\ Finish(t) /\ UNCHANGED <<created, fromLatest, matches, stage, subscription, bornAt, unheard>>
        /\ discoveredPools' = discoveredPools /\ pollingIntervals' = pollingIntervals
        /\ poolContracts' = poolContracts
    BY <1>9 DEF ReadFails, monitoring
  <2>2. CASE doing[t].awaits = "config"
    <3>1. /\ unread \subseteq unread' /\ doing[t].pool \in unread' /\ untracked' = untracked
          /\ todo' = todo \/ (stage = "history" /\ todo' = {} /\ todo \subseteq unread')
      BY <1>9, <2>2 DEF ReadFails
    <3>2. TaskStep(t)
      BY <1>3, <2>1, <2>2, <3>1 DEF TaskStep
    <3> QED BY <3>2, TaskKeeps
  <2>3. CASE doing[t].awaits = "poll"
    <3>1. untracked' = untracked \union {doing[t].pool} /\ todo' = todo /\ unread' = unread
      BY <1>9, <2>3 DEF ReadFails
    <3>2. WatchedNext(doing[t].pool)
      BY <3>1 DEF WatchedNext
    <3>3. TaskStep(t)
      BY <1>3, <2>1, <2>3, <3>1, <3>2 DEF TaskStep
    <3> QED BY <3>3, TaskKeeps
  <2> QED BY <1>9, <2>2, <2>3 DEF ReadFails
<1> QED BY <1>6, <1>7, <1>8, <1>9

LEMMA StartKeeps ==
  ASSUME WatchInv, StartMonitor \/ ListFails
  PROVE  WatchInv'
<1> USE DEF WatchInv, WatchTypes
<1>1. /\ stage = "stopped" /\ stage' = "existing" /\ doing' = doing /\ created' = created
      /\ fromLatest' = fromLatest /\ matches' = matches /\ subscription' = subscription
      /\ bornAt' = bornAt /\ unheard' = unheard
      /\ created \subseteq todo' \union unread'
  BY DEF StartMonitor, ListFails, watchHistory
<1>2. WatchTypes'
  BY <1>1 DEF Stages
<1>3. AllCovered'
  BY <1>1 DEF AllCovered, PoolIsCovered
<1>4. AllTracked'
  BY <1>1 DEF AllTracked
<1> QED BY <1>2, <1>3, <1>4

LEMMA StageKeeps ==
  ASSUME WatchInv, NextStage
  PROVE  WatchInv'
<1> USE DEF WatchInv, WatchTypes
<1>1. /\ todo = {} /\ doing[Main].awaits = "nothing" /\ doing' = doing /\ created' = created
      /\ fromLatest' = fromLatest /\ matches' = matches /\ bornAt' = bornAt
      /\ unheard' = unheard /\ discoveredPools' = discoveredPools /\ unread' = unread /\ untracked' = untracked
      /\ pollingIntervals' = pollingIntervals /\ poolContracts' = poolContracts
  BY DEF NextStage, Idle, monitoring, watchHistory
<1>2. ASSUME NEW q
      PROVE  /\ (PoolIsCovered(q) => PoolIsCovered(q)')
             /\ (Watched(q) => Watched(q)')
             /\ (Polled(q) => Polled(q)')
  BY <1>1 DEF PoolIsCovered, Excused, Handled, Watched, Polled
<1>3. CASE stage = "existing" /\ stage' = "listening" /\ subscription' = "asked" /\ todo' = todo
  <2>1. WatchTypes'
    BY <1>1, <1>3 DEF Stages, Subscriptions
  <2>2. AllCovered'
    BY <1>1, <1>2, <1>3 DEF AllCovered, ComesLater
  <2>3. AllTracked'
    BY <1>3 DEF AllTracked
  <2> QED BY <2>1, <2>2, <2>3
<1>4. CASE /\ stage = "listening" /\ stage' = "history" /\ subscription' = subscription
           /\ todo' = IF fromLatest \/ ~matches THEN {} ELSE created
  <2>1. WatchTypes'
    BY <1>1, <1>4 DEF Stages
  <2>2. AllCovered'
    <3> SUFFICES ASSUME NEW q \in created PROVE PoolIsCovered(q)'
      BY <1>1 DEF AllCovered
    <3>1. \/ PoolIsCovered(q) \/ bornAt[q] = "existing"
          \/ bornAt[q] = "listening" /\ q \in unheard
      BY <1>4 DEF AllCovered, ComesLater
    <3>2. CASE fromLatest \/ ~matches
      BY <1>1, <1>2, <3>1, <3>2 DEF PoolIsCovered, Excused
    <3>3. CASE ~(fromLatest \/ ~matches)
      BY <1>4, <3>3 DEF PoolIsCovered
    <3> QED BY <3>2, <3>3
  <2>3. AllTracked'
    BY <1>4 DEF AllTracked
  <2> QED BY <2>1, <2>2, <2>3
<1>5. CASE stage = "history" /\ stage' = "all" /\ todo' = discoveredPools /\ subscription' = subscription
  <2>1. WatchTypes'
    BY <1>1, <1>5 DEF Stages
  <2>2. AllCovered'
    BY <1>1, <1>2, <1>5 DEF AllCovered, ComesLater
  <2>3. AllTracked'
    BY <1>1, <1>5 DEF AllTracked, Next1
  <2> QED BY <2>1, <2>2, <2>3
<1>6. CASE stage = "all" /\ stage' = "running" /\ todo' = todo /\ subscription' = subscription
  <2>1. WatchTypes'
    BY <1>1, <1>6 DEF Stages
  <2>2. AllCovered'
    BY <1>1, <1>2, <1>6 DEF AllCovered, ComesLater
  <2>3. AllTracked'
    <3> SUFFICES ASSUME NEW q \in discoveredPools PROVE Watched(q)' \/ Polled(q)'
      BY <1>1 DEF AllTracked
    <3>1. Watched(q) \/ Polled(q) \/ Next1(q)
      BY <1>6 DEF AllTracked
    <3>2. ~Next1(q)
      BY <1>1 DEF Next1
    <3> QED BY <1>2, <3>1, <3>2
  <2> QED BY <2>1, <2>2, <2>3
<1> QED BY <1>3, <1>4, <1>5, <1>6 DEF NextStage

LEMMA QueryFailsKeeps ==
  ASSUME WatchInv, QueryFails
  PROVE  WatchInv'
<1> USE DEF WatchInv, WatchTypes
<1>1. /\ stage = "listening" /\ stage' = "history" /\ doing' = doing /\ todo' = todo
      /\ created' = created /\ subscription' = subscription /\ bornAt' = bornAt
      /\ created \subseteq unread'
  BY DEF QueryFails
<1>2. WatchTypes'
  BY <1>1 DEF Stages
<1>3. AllCovered'
  BY <1>1 DEF AllCovered, PoolIsCovered
<1>4. AllTracked'
  BY <1>1 DEF AllTracked
<1> QED BY <1>2, <1>3, <1>4

LEMMA SubscriptionKeeps ==
  ASSUME WatchInv, Subscribe \/ SubscriptionFails
  PROVE  WatchInv'
<1> USE DEF WatchInv, WatchTypes
<1>1. /\ subscription = "asked" /\ subscription' \in Subscriptions \ {"none"}
      /\ UNCHANGED <<created, fromLatest, matches, stage, todo, doing, bornAt, unheard>>
      /\ discoveredPools' = discoveredPools /\ unread' = unread /\ untracked' = untracked
      /\ pollingIntervals' = pollingIntervals /\ poolContracts' = poolContracts
  BY DEF Subscribe, SubscriptionFails, monitoring, watchHistory, Subscriptions
<1>2. WatchTypes'
  BY <1>1
<1>3. AllCovered'
  BY <1>1 DEF AllCovered, PoolIsCovered, ComesLater, Excused, Handled
<1>4. AllTracked'
  BY <1>1 DEF AllTracked, Watched, Polled, Next1
<1> QED BY <1>2, <1>3, <1>4

LEMMA TrackOneKeeps ==
  ASSUME WatchInv, NEW p \in WatchedPools, TakePool(p)
  PROVE  WatchInv'
<1> USE DEF WatchInv, WatchTypes
<1>1. /\ p \in todo /\ doing[Main].awaits = "nothing" /\ todo' = todo \ {p}
      /\ doing' = [doing EXCEPT ![Main] = [pool |-> p, awaits |-> "turn"]]
      /\ UNCHANGED <<created, fromLatest, matches, stage, subscription, bornAt, unheard>>
      /\ discoveredPools' = discoveredPools /\ unread' = unread /\ untracked' = untracked
      /\ pollingIntervals' = pollingIntervals /\ poolContracts' = poolContracts
  BY DEF TakePool, Idle, monitoring, watchHistory
<1>2. Main \in Tasks /\ [pool |-> p, awaits |-> "turn"] \in [pool : Tasks, awaits : Awaited]
      /\ WatchedPools \subseteq Tasks /\ Main \notin WatchedPools
  BY WatchConstants DEF Tasks, Awaited
<1>3. /\ doing' \in [Tasks -> [pool : Tasks, awaits : Awaited]]
      /\ \A u \in Tasks : u # Main => doing'[u] = doing[u]
      /\ doing'[Main].pool = p /\ doing'[Main].awaits = "turn"
  BY <1>1, <1>2
<1>4. stage # "stopped" /\ stage # "running"
  BY <1>1
<1>5. WatchTypes'
  <2>1. \A q \in WatchedPools : q \notin created => doing'[q].awaits = "nothing"
    BY <1>2, <1>3
  <2>2. stage = "all" => todo' \subseteq discoveredPools /\ doing'[Main].pool \in discoveredPools
    BY <1>1, <1>3
  <2> QED BY <1>1, <1>3, <1>4, <2>1, <2>2
<1>6. AllCovered'
  <2> SUFFICES ASSUME NEW q \in created PROVE PoolIsCovered(q)' \/ ComesLater(q)'
    BY <1>1 DEF AllCovered
  <2>1. PoolIsCovered(q) \/ ComesLater(q)
    BY DEF AllCovered
  <2>2. Handled(q) => Handled(q)'
    <3> SUFFICES ASSUME NEW u \in Tasks, doing[u].pool = q, doing[u].awaits \in {"turn", "config"}
                 PROVE  Handled(q)'
      BY DEF Handled
    <3>1. u # Main
      BY <1>1
    <3> QED BY <1>3, <3>1 DEF Handled
  <2>3. q = p => Handled(q)'
    BY <1>2, <1>3 DEF Handled
  <2> QED BY <1>1, <2>1, <2>2, <2>3 DEF PoolIsCovered, ComesLater, Excused
<1>7. AllTracked'
  <2> SUFFICES ASSUME stage \in {"all", "running"}, NEW q \in discoveredPools
               PROVE  Watched(q)' \/ Polled(q)' \/ Next1(q)'
    BY <1>1 DEF AllTracked
  <2>1. Watched(q) \/ Polled(q) \/ Next1(q)
    BY DEF AllTracked
  <2>2. Polled(q) => Polled(q)'
    <3> SUFFICES ASSUME NEW u \in Tasks, doing[u].pool = q, doing[u].awaits = "poll"
                 PROVE  Polled(q)'
      BY DEF Polled
    <3>1. u # Main
      BY <1>1
    <3> QED BY <1>3, <3>1 DEF Polled
  <2>3. Next1(q) => Next1(q)'
    BY <1>1, <1>3, <1>4 DEF Next1
  <2> QED BY <1>1, <2>1, <2>2, <2>3 DEF Watched
<1> QED BY <1>5, <1>6, <1>7

LEMMA WatchSteps == WatchInv /\ [WatchNext]_watchVars => WatchInv'
<1> SUFFICES ASSUME WatchInv, [WatchNext]_watchVars PROVE WatchInv'
  OBVIOUS
<1>1. CASE UNCHANGED watchVars
  BY <1>1 DEF watchVars, monitoring, watchHistory, WatchInv, WatchTypes, AllCovered, AllTracked, PoolIsCovered,
              ComesLater, Excused, Handled, Watched, Polled, Next1
<1>2. CASE WatchNext
  BY <1>2, PoolCreatedKeeps, TrackOneKeeps, StartKeeps, StageKeeps, QueryFailsKeeps, SubscriptionKeeps,
              TasksKeep DEF WatchNext
<1> QED BY <1>1, <1>2

LEMMA WatchGives == WatchInv => NoPoolIsMissed /\ DiscoveredIsWatched
<1> SUFFICES ASSUME WatchInv, Settled PROVE NoPoolIsMissed /\ DiscoveredIsWatched
  BY DEF NoPoolIsMissed, DiscoveredIsWatched
<1>1. /\ stage = "running" /\ todo = {} /\ \A t \in Tasks : doing[t].awaits = "nothing"
  BY DEF Settled, WatchInv, WatchTypes, Idle
<1>2. \A p : ~Handled(p) /\ ~Polled(p) /\ ~Next1(p) /\ ~ComesLater(p) /\ p \notin todo
  BY <1>1 DEF Handled, Polled, Next1, ComesLater
<1>3. NoPoolIsMissed
  BY <1>2 DEF WatchInv, AllCovered, PoolIsCovered, Excused, NoPoolIsMissed
<1>4. DiscoveredIsWatched
  BY <1>1, <1>2 DEF WatchInv, AllTracked, Watched, DiscoveredIsWatched
<1> QED BY <1>3, <1>4

-----------------------------------------------------------------------------
(* Polls of a pool.                                                        *)

\* A sample is a reading and the tick its poll began in.
Samples == [at : Nat, shows : Readings]

\* How many samples kept, and polls under way, began at a tick or later.
KeptSince(list, T) == {i \in DOMAIN list : list[i].at >= T}
OpenSince(p, T) == {s \in Slots : p[s] # NoPoll /\ p[s].at >= T}

\* The samples that began before an older one of the list, and the polls that may.
Overtaken(list, i) == {j \in DOMAIN list : i < j /\ list[j].at < list[i].at}
OpenBefore(p, T) == {s \in Slots : p[s] # NoPoll /\ p[s].at < T}

LEMMA SampleType ==
  ASSUME NEW x \in Samples
  PROVE  x.at \in Nat /\ x.shows.paused \in BOOLEAN
BY TrackerConstants DEF Samples

LEMMA LargerFactor ==
  ASSUME NEW a \in Nat, NEW b \in Nat, a <= b, NEW c \in Nat
  PROVE  a * c <= b * c
<1>1. b * c = a * c + (b - a) * c
  OBVIOUS
<1>2. a * c \in Nat /\ (b - a) * c \in Nat
  <2>1. b - a \in Nat
    OBVIOUS
  <2> QED BY <2>1
<1> QED BY <1>1, <1>2

LEMMA KeptAppended ==
  ASSUME NEW list \in Seq(Samples), NEW x \in Samples, NEW T \in Int
  PROVE  /\ IsFiniteSet(KeptSince(list, T)) /\ Cardinality(KeptSince(list, T)) \in Nat
         /\ Cardinality(KeptSince(Append(list, x), T))
              = Cardinality(KeptSince(list, T)) + (IF x.at >= T THEN 1 ELSE 0)
<1> DEFINE n == Len(list)
<1>1. n \in Nat /\ DOMAIN list = 1..n /\ IsFiniteSet(1..n)
  BY FS_Interval
<1>2. KeptSince(list, T) \in SUBSET (1..n)
  BY <1>1 DEF KeptSince
<1>3. IsFiniteSet(KeptSince(list, T)) /\ Cardinality(KeptSince(list, T)) \in Nat
  BY <1>1, <1>2, FS_Subset, FS_CardinalityType
<1>4. /\ DOMAIN Append(list, x) = 1..(n + 1) /\ Append(list, x)[n + 1] = x
      /\ \A i \in 1..n : Append(list, x)[i] = list[i]
  OBVIOUS
<1>5. CASE x.at >= T
  <2>1. KeptSince(Append(list, x), T) = KeptSince(list, T) \union {n + 1}
    BY <1>1, <1>4, <1>5 DEF KeptSince
  <2>2. n + 1 \notin KeptSince(list, T)
    BY <1>1, <1>2
  <2> QED BY <1>3, <1>5, <2>1, <2>2, FS_AddElement
<1>6. CASE ~(x.at >= T)
  <2>1. KeptSince(Append(list, x), T) = KeptSince(list, T)
    BY <1>1, <1>4, <1>6 DEF KeptSince
  <2> QED BY <1>3, <1>6, <2>1
<1> QED BY <1>3, <1>5, <1>6

LEMMA KeptType ==
  ASSUME NEW list \in Seq(Samples), NEW T \in Int
  PROVE  Cardinality(KeptSince(list, T)) \in Nat
<1>1. KeptSince(list, T) \in SUBSET (1..Len(list)) /\ IsFiniteSet(1..Len(list))
  BY FS_Interval DEF KeptSince
<1> QED BY <1>1, FS_Subset, FS_CardinalityType

LEMMA OvertakenType ==
  ASSUME NEW list \in Seq(Samples), NEW i
  PROVE  Cardinality(Overtaken(list, i)) \in Nat
<1>1. DOMAIN list = 1..Len(list) /\ Len(list) \in Int
  OBVIOUS
<1>2. Overtaken(list, i) \in SUBSET (1..Len(list))
  BY <1>1 DEF Overtaken
<1>3. IsFiniteSet(1..Len(list))
  BY <1>1, FS_Interval
<1> QED BY <1>2, <1>3, FS_Subset, FS_CardinalityType

LEMMA KeptInTail ==
  ASSUME NEW list \in Seq(Samples), list # <<>>, NEW T \in Int
  PROVE  Cardinality(KeptSince(Tail(list), T)) <= Cardinality(KeptSince(list, T))
<1> DEFINE A == KeptSince(Tail(list), T)
           B == KeptSince(list, T)
           next == [i \in A |-> i + 1]
<1>1. /\ Len(list) \in Nat /\ Len(list) > 0 /\ DOMAIN list = 1..Len(list)
      /\ DOMAIN Tail(list) = 1..(Len(list) - 1)
      /\ \A i \in 1..(Len(list) - 1) : Tail(list)[i] = list[i + 1]
  OBVIOUS
<1>2. IsFiniteSet(B)
  <2>1. B \in SUBSET (1..Len(list)) /\ IsFiniteSet(1..Len(list))
    BY <1>1, FS_Interval DEF KeptSince
  <2> QED BY <2>1, FS_Subset
<1>3. \A i \in A : i \in Nat /\ i + 1 \in B
  BY <1>1 DEF KeptSince
<1>4. next \in Injection(A, B)
  <2>1. next \in [A -> B]
    BY <1>3
  <2>2. \A i, j \in A : next[i] = next[j] => i = j
    BY <1>3
  <2> QED BY <2>1, <2>2 DEF Injection, IsInjective
<1> HIDE DEF A, B, next
<1>5. Cardinality(A) <= Cardinality(B)
  BY <1>2, <1>4, FS_Injection
<1> QED BY <1>5 DEF A, B

LEMMA OvertakenAppended ==
  ASSUME NEW list \in Seq(Samples), NEW x \in Samples, NEW i \in 1..Len(list)
  PROVE  /\ IsFiniteSet(Overtaken(list, i)) /\ Cardinality(Overtaken(list, i)) \in Nat
         /\ Cardinality(Overtaken(Append(list, x), i))
              = Cardinality(Overtaken(list, i)) + (IF x.at < list[i].at THEN 1 ELSE 0)
<1> DEFINE n == Len(list)
<1>1. n \in Nat /\ DOMAIN list = 1..n /\ IsFiniteSet(1..n)
  BY FS_Interval
<1>2. Overtaken(list, i) \in SUBSET (1..n)
  BY <1>1 DEF Overtaken
<1>3. IsFiniteSet(Overtaken(list, i)) /\ Cardinality(Overtaken(list, i)) \in Nat
  BY <1>1, <1>2, FS_Subset, FS_CardinalityType
<1>4. /\ DOMAIN Append(list, x) = 1..(n + 1) /\ Append(list, x)[n + 1] = x
      /\ \A j \in 1..n : Append(list, x)[j] = list[j]
  OBVIOUS
<1>5. CASE x.at < list[i].at
  <2>1. Overtaken(Append(list, x), i) = Overtaken(list, i) \union {n + 1}
    BY <1>1, <1>4, <1>5 DEF Overtaken
  <2>2. n + 1 \notin Overtaken(list, i)
    BY <1>1, <1>2
  <2> QED BY <1>3, <1>5, <2>1, <2>2, FS_AddElement
<1>6. CASE ~(x.at < list[i].at)
  <2>1. Overtaken(Append(list, x), i) = Overtaken(list, i)
    BY <1>1, <1>4, <1>6 DEF Overtaken
  <2> QED BY <1>3, <1>6, <2>1
<1> QED BY <1>3, <1>5, <1>6

LEMMA NoneAfterLast ==
  ASSUME NEW list \in Seq(Samples), NEW x \in Samples
  PROVE  Cardinality(Overtaken(Append(list, x), Len(list) + 1)) = 0
<1>1. Overtaken(Append(list, x), Len(list) + 1) = {}
  BY DEF Overtaken
<1> QED BY <1>1, FS_EmptySet

LEMMA OvertakenInTail ==
  ASSUME NEW list \in Seq(Samples), list # <<>>, NEW i \in 1..(Len(list) - 1)
  PROVE  /\ Cardinality(Overtaken(Tail(list), i)) <= Cardinality(Overtaken(list, i + 1))
         /\ Tail(list)[i] = list[i + 1] /\ i + 1 \in 1..Len(list)
<1> DEFINE A == Overtaken(Tail(list), i)
           B == Overtaken(list, i + 1)
           next == [j \in A |-> j + 1]
<1>1. /\ Len(list) \in Nat /\ Len(list) > 0 /\ DOMAIN list = 1..Len(list)
      /\ DOMAIN Tail(list) = 1..(Len(list) - 1)
      /\ \A j \in 1..(Len(list) - 1) : Tail(list)[j] = list[j + 1]
  OBVIOUS
<1>2. IsFiniteSet(B)
  <2>1. B \in SUBSET (1..Len(list)) /\ IsFiniteSet(1..Len(list))
    BY <1>1, FS_Interval DEF Overtaken
  <2> QED BY <2>1, FS_Subset
<1>3. \A j \in A : j \in Nat /\ j + 1 \in B
  BY <1>1 DEF Overtaken
<1>4. next \in Injection(A, B)
  <2>1. next \in [A -> B]
    BY <1>3
  <2>2. \A k, j \in A : next[k] = next[j] => k = j
    BY <1>3
  <2> QED BY <2>1, <2>2 DEF Injection, IsInjective
<1> HIDE DEF A, B, next
<1>5. Cardinality(A) <= Cardinality(B)
  BY <1>2, <1>4, FS_Injection
<1> QED BY <1>1, <1>5 DEF A, B

LEMMA PollsCounted ==
  ASSUME NEW p, NEW T
  PROVE  /\ IsFiniteSet(OpenSince(p, T)) /\ Cardinality(OpenSince(p, T)) \in Nat
         /\ IsFiniteSet(OpenBefore(p, T)) /\ Cardinality(OpenBefore(p, T)) \in Nat
<1>1. IsFiniteSet(Slots) /\ OpenSince(p, T) \in SUBSET Slots /\ OpenBefore(p, T) \in SUBSET Slots
  BY TrackerConstants DEF OpenSince, OpenBefore
<1> QED BY <1>1, FS_Subset, FS_CardinalityType

LEMMA PollOpened ==
  ASSUME NEW p, NEW q, NEW s \in Slots, NEW T \in Nat,
         \A u \in Slots : u # s => q[u] = p[u]
  PROVE  /\ Cardinality(OpenSince(q, T)) <= Cardinality(OpenSince(p, T)) + 1
         /\ (T <= q[s].at /\ q[s].at \in Nat =>
              Cardinality(OpenBefore(q, T)) <= Cardinality(OpenBefore(p, T)))
<1>1. Cardinality(OpenSince(q, T)) <= Cardinality(OpenSince(p, T)) + 1
  <2>1. OpenSince(q, T) \in SUBSET (OpenSince(p, T) \union {s})
    BY DEF OpenSince
  <2>2. IsFiniteSet(OpenSince(p, T)) /\ Cardinality(OpenSince(p, T)) \in Nat
    BY PollsCounted
  <2> HIDE DEF OpenSince
  <2>3. IsFiniteSet(OpenSince(p, T) \union {s})
    BY <2>2, FS_AddElement
  <2>4. Cardinality(OpenSince(p, T) \union {s}) = Cardinality(OpenSince(p, T))
          \/ Cardinality(OpenSince(p, T) \union {s}) = Cardinality(OpenSince(p, T)) + 1
    BY <2>2, FS_AddElement
  <2>5. Cardinality(OpenSince(q, T)) <= Cardinality(OpenSince(p, T) \union {s})
    BY <2>1, <2>3, FS_Subset
  <2>6. Cardinality(OpenSince(q, T)) \in Nat
    BY PollsCounted
  <2> QED BY <2>2, <2>4, <2>5, <2>6
<1>2. ASSUME T <= q[s].at, q[s].at \in Nat
      PROVE  Cardinality(OpenBefore(q, T)) <= Cardinality(OpenBefore(p, T))
  <2>1. OpenBefore(q, T) \in SUBSET OpenBefore(p, T)
    BY <1>2 DEF OpenBefore
  <2> QED BY <2>1, PollsCounted, FS_Subset
<1> QED BY <1>1, <1>2

LEMMA OpenSinceClosed ==
  ASSUME NEW p, NEW q, NEW s \in Slots, NEW T, p[s] # NoPoll, q[s] = NoPoll,
         \A u \in Slots : u # s => q[u] = p[u]
  PROVE  Cardinality(OpenSince(q, T))
           = Cardinality(OpenSince(p, T)) - (IF p[s].at >= T THEN 1 ELSE 0)
<1>1. OpenSince(q, T) = OpenSince(p, T) \ {s} /\ (s \in OpenSince(p, T) <=> p[s].at >= T)
  BY DEF OpenSince
<1>2. IsFiniteSet(OpenSince(p, T)) /\ Cardinality(OpenSince(p, T)) \in Nat
  BY PollsCounted
<1>3. Cardinality(OpenSince(p, T) \ {s})
        = IF s \in OpenSince(p, T) THEN Cardinality(OpenSince(p, T)) - 1 ELSE Cardinality(OpenSince(p, T))
  BY <1>2, FS_RemoveElement
<1> QED BY <1>1, <1>2, <1>3

LEMMA PollClosed ==
  ASSUME NEW p, NEW q, NEW s \in Slots, NEW T, p[s] # NoPoll, q[s] = NoPoll,
         \A u \in Slots : u # s => q[u] = p[u]
  PROVE  /\ Cardinality(OpenSince(q, T))
              = Cardinality(OpenSince(p, T)) - (IF p[s].at >= T THEN 1 ELSE 0)
         /\ Cardinality(OpenBefore(q, T))
              = Cardinality(OpenBefore(p, T)) - (IF p[s].at < T THEN 1 ELSE 0)
         /\ Cardinality(OpenBefore(q, T)) <= Cardinality(Slots) - 1
<1>2. OpenBefore(q, T) = OpenBefore(p, T) \ {s} /\ (s \in OpenBefore(p, T) <=> p[s].at < T)
  BY DEF OpenBefore
<1>3. Cardinality(OpenBefore(q, T)) <= Cardinality(Slots) - 1
  <2>1. OpenBefore(q, T) \in SUBSET (Slots \ {s})
    BY DEF OpenBefore
  <2>2. IsFiniteSet(Slots)
    BY TrackerConstants
  <2>3. IsFiniteSet(Slots \ {s}) /\ Cardinality(Slots \ {s}) = Cardinality(Slots) - 1
    BY <2>2, FS_RemoveElement
  <2> QED BY <2>1, <2>3, FS_Subset
<1>4. Cardinality(OpenSince(q, T))
              = Cardinality(OpenSince(p, T)) - (IF p[s].at >= T THEN 1 ELSE 0)
  BY OpenSinceClosed
<1>5. Cardinality(OpenBefore(q, T))
              = Cardinality(OpenBefore(p, T)) - (IF p[s].at < T THEN 1 ELSE 0)
  <2>1. IsFiniteSet(OpenBefore(p, T))
    BY PollsCounted
  <2>2. Cardinality(OpenBefore(p, T) \ {s})
          = IF s \in OpenBefore(p, T) THEN Cardinality(OpenBefore(p, T)) - 1 ELSE Cardinality(OpenBefore(p, T))
    BY <2>1, FS_RemoveElement
  <2>3. Cardinality(OpenBefore(p, T)) \in Nat
    BY PollsCounted
  <2> QED BY <1>2, <2>2, <2>3
<1> QED BY <1>3, <1>4, <1>5

Paused(sample) == sample.shows.paused
AllPaused(list) == \A i \in DOMAIN list : Paused(list[i])

\* The samples paused without a break up to the last begin at k.
RunStart(list, k) ==
  /\ k \in DOMAIN list /\ \A j \in DOMAIN list : k <= j => Paused(list[j])
  /\ k = 1 \/ ~Paused(list[k - 1])

\* The list that is kept when a sample comes.
PollsJoined(list, x) ==
  LET all == Append(list, x) IN IF Len(all) > MaxHistory THEN Tail(all) ELSE all

LEMMA JoinedList ==
  ASSUME NEW list \in Seq(Samples), Len(list) <= MaxHistory, NEW x \in Samples
  PROVE  /\ PollsJoined(list, x) \in Seq(Samples) /\ PollsJoined(list, x) # <<>>
         /\ Len(PollsJoined(list, x)) \in 1..MaxHistory
         /\ PollsJoined(list, x)[Len(PollsJoined(list, x))] = x
         /\ \/ /\ PollsJoined(list, x) = Append(list, x) /\ Len(PollsJoined(list, x)) = Len(list) + 1
               /\ \A i \in 1..Len(list) : PollsJoined(list, x)[i] = list[i]
            \/ /\ PollsJoined(list, x) = Tail(Append(list, x))
               /\ Len(PollsJoined(list, x)) = Len(list) /\ Len(list) = MaxHistory
               /\ \A i \in 1..(Len(list) - 1) : PollsJoined(list, x)[i] = list[i + 1]
<1>1. MaxHistory \in Nat \ {0}
  BY TrackerConstants
<1>2. /\ Append(list, x) \in Seq(Samples) /\ Len(Append(list, x)) = Len(list) + 1
      /\ Append(list, x)[Len(list) + 1] = x
      /\ \A i \in 1..Len(list) : Append(list, x)[i] = list[i]
      /\ Len(list) \in Nat
  OBVIOUS
<1>3. CASE Len(list) + 1 > MaxHistory
  <2>1. PollsJoined(list, x) = Tail(Append(list, x)) /\ Len(list) = MaxHistory
    BY <1>1, <1>2, <1>3 DEF PollsJoined
  <2>2. /\ Tail(Append(list, x)) \in Seq(Samples)
        /\ Len(Tail(Append(list, x))) = Len(list)
        /\ \A i \in 1..Len(list) : Tail(Append(list, x))[i] = Append(list, x)[i + 1]
    BY <1>2
  <2>3. PollsJoined(list, x)[Len(list)] = x
    BY <1>1, <1>2, <2>1, <2>2
  <2> QED BY <1>1, <1>2, <2>1, <2>2, <2>3
<1>4. CASE ~(Len(list) + 1 > MaxHistory)
  <2>1. PollsJoined(list, x) = Append(list, x)
    BY <1>2, <1>4 DEF PollsJoined
  <2> QED BY <1>1, <1>2, <1>4, <2>1
<1> QED BY <1>3, <1>4

LEMMA RunGoesOn ==
  ASSUME NEW list \in Seq(Samples), Len(list) <= MaxHistory, NEW x \in Samples, Paused(x),
         NEW k, RunStart(list, k)
  PROVE  \/ \E i : RunStart(PollsJoined(list, x), i) /\ PollsJoined(list, x)[i] = list[k]
         \/ AllPaused(PollsJoined(list, x)) /\ Len(PollsJoined(list, x)) = MaxHistory
<1> DEFINE new == PollsJoined(list, x)
<1>1. /\ new \in Seq(Samples) /\ Len(new) \in 1..MaxHistory /\ new[Len(new)] = x
      /\ \/ Len(new) = Len(list) + 1 /\ \A i \in 1..Len(list) : new[i] = list[i]
         \/ /\ Len(new) = Len(list) /\ Len(list) = MaxHistory
            /\ \A i \in 1..(Len(list) - 1) : new[i] = list[i + 1]
  BY JoinedList
<1> HIDE DEF new
<1>2. /\ DOMAIN new = 1..Len(new) /\ DOMAIN list = 1..Len(list) /\ Len(list) \in Nat
      /\ Len(new) \in Nat /\ k \in 1..Len(list)
  BY <1>1 DEF RunStart
<1>3. CASE Len(new) = Len(list) + 1 /\ \A i \in 1..Len(list) : new[i] = list[i]
  <2>1. /\ k \in DOMAIN list /\ \A j \in DOMAIN list : k <= j => Paused(list[j])
        /\ (k = 1 \/ ~Paused(list[k - 1]))
    BY DEF RunStart
  <2>2. k \in DOMAIN new /\ new[k] = list[k] /\ (k = 1 \/ new[k - 1] = list[k - 1])
    BY <1>2, <1>3
  <2>3. ASSUME NEW j \in DOMAIN new, k <= j PROVE Paused(new[j])
    <3>1. CASE j = Len(new)
      BY <1>1, <3>1
    <3>2. CASE j # Len(new)
      <4>1. j \in 1..Len(list) /\ new[j] = list[j]
        BY <1>2, <1>3, <3>2
      <4> QED BY <1>2, <2>1, <2>3, <4>1
    <3> QED BY <3>1, <3>2
  <2>4. RunStart(new, k)
    BY <2>1, <2>2, <2>3 DEF RunStart
  <2> QED BY <2>2, <2>4 DEF new
<1>4. CASE /\ Len(new) = Len(list) /\ Len(list) = MaxHistory
           /\ \A i \in 1..(Len(list) - 1) : new[i] = list[i + 1]
  <2>1. CASE k = 1
    <3>1. AllPaused(new)
      BY <1>1, <1>2, <1>4, <2>1 DEF RunStart, AllPaused
    <3> QED BY <1>4, <3>1 DEF new
  <2>2. CASE k # 1
    <3>1. k - 1 \in 1..(Len(list) - 1) /\ new[k - 1] = list[k]
      BY <1>2, <1>4, <2>2
    <3>2. \A j \in DOMAIN new : k - 1 <= j => Paused(new[j])
      BY <1>1, <1>2, <1>4, <2>2 DEF RunStart
    <3>3. k - 1 = 1 \/ ~Paused(new[k - 2])
      BY <1>2, <1>4, <2>2 DEF RunStart
    <3>4. RunStart(new, k - 1)
      BY <1>2, <1>4, <3>1, <3>2, <3>3 DEF RunStart
    <3> QED BY <3>1, <3>4 DEF new
  <2> QED BY <2>1, <2>2
<1> QED BY <1>1, <1>3, <1>4

LEMMA RunBegins ==
  ASSUME NEW list \in Seq(Samples), Len(list) <= MaxHistory, NEW x \in Samples, Paused(x),
         list = <<>> \/ ~Paused(list[Len(list)])
  PROVE  \E i : RunStart(PollsJoined(list, x), i) /\ PollsJoined(list, x)[i] = x
<1> DEFINE new == PollsJoined(list, x)
<1>1. /\ new \in Seq(Samples) /\ Len(new) \in 1..MaxHistory /\ new[Len(new)] = x
      /\ \/ Len(new) = Len(list) + 1 /\ \A i \in 1..Len(list) : new[i] = list[i]
         \/ /\ Len(new) = Len(list) /\ Len(list) = MaxHistory
            /\ \A i \in 1..(Len(list) - 1) : new[i] = list[i + 1]
  BY JoinedList
<1> HIDE DEF new
<1>2. /\ DOMAIN new = 1..Len(new) /\ Len(list) \in Nat /\ Len(new) \in Nat
      /\ (list = <<>> <=> Len(list) = 0)
  BY <1>1
<1>3. Len(new) = 1 \/ ~Paused(new[Len(new) - 1])
  <2>1. CASE Len(new) = Len(list) + 1 /\ \A i \in 1..Len(list) : new[i] = list[i]
    <3>1. CASE list = <<>>
      BY <1>2, <2>1, <3>1
    <3>2. CASE list # <<>>
      <4>1. Len(list) \in 1..Len(list) /\ Len(new) - 1 = Len(list)
        BY <1>2, <2>1, <3>2
      <4>2. new[Len(new) - 1] = list[Len(list)]
        BY <2>1, <4>1
      <4> QED BY <3>2, <4>2
    <3> QED BY <3>1, <3>2
  <2>2. CASE /\ Len(new) = Len(list) /\ Len(list) = MaxHistory
             /\ \A i \in 1..(Len(list) - 1) : new[i] = list[i + 1]
    <3>1. CASE Len(new) # 1
      <4>1. Len(new) - 1 \in 1..(Len(list) - 1) /\ Len(new) - 1 + 1 = Len(list) /\ Len(list) # 0
        BY <1>1, <1>2, <2>2, <3>1
      <4>2. new[Len(new) - 1] = list[Len(list)]
        BY <2>2, <4>1
      <4> QED BY <1>2, <4>1, <4>2
    <3> QED BY <3>1
  <2> QED BY <1>1, <2>1, <2>2
<1>4. RunStart(new, Len(new))
  <2>1. Len(new) \in DOMAIN new /\ \A j \in DOMAIN new : Len(new) <= j => j = Len(new)
    <3>1. Len(new) \in 1..MaxHistory /\ MaxHistory \in Nat
      BY <1>1, TrackerConstants
    <3> DEFINE n == Len(new)
    <3>2. DOMAIN new = 1..n /\ n \in Nat /\ n >= 1
      BY <1>2, <3>1
    <3> HIDE DEF n
    <3>3. n \in 1..n /\ \A j \in 1..n : n <= j => j = n
      BY <3>2
    <3> QED BY <3>2, <3>3 DEF n
  <2> QED BY <1>1, <1>3, <2>1, SMTT(30) DEF RunStart
<1> QED BY <1>1, <1>4 DEF new

LEMMA FullGoesOn ==
  ASSUME NEW list \in Seq(Samples), Len(list) = MaxHistory, AllPaused(list),
         NEW x \in Samples, Paused(x)
  PROVE  AllPaused(PollsJoined(list, x)) /\ Len(PollsJoined(list, x)) = MaxHistory
<1> DEFINE new == PollsJoined(list, x)
<1>1. /\ new \in Seq(Samples) /\ Len(new) \in 1..MaxHistory /\ new[Len(new)] = x
      /\ \/ Len(new) = Len(list) + 1 /\ \A i \in 1..Len(list) : new[i] = list[i]
         \/ /\ Len(new) = Len(list) /\ Len(list) = MaxHistory
            /\ \A i \in 1..(Len(list) - 1) : new[i] = list[i + 1]
  <2>1. Len(list) <= MaxHistory
    OBVIOUS
  <2> QED BY <2>1, JoinedList
<1> HIDE DEF new
<1>2. /\ DOMAIN new = 1..Len(new) /\ DOMAIN list = 1..Len(list)
      /\ Len(list) \in Nat /\ Len(new) \in Nat /\ MaxHistory \in Nat
  BY <1>1, TrackerConstants
<1>3. ASSUME NEW i \in DOMAIN new PROVE Paused(new[i])
  <2>1. CASE i = Len(new)
    BY <1>1, <2>1
  <2>2. CASE i # Len(new)
    <3>1. \E j \in DOMAIN list : new[i] = list[j]
      <4>1. CASE Len(new) = Len(list) + 1 /\ \A j \in 1..Len(list) : new[j] = list[j]
        <5>1. i \in DOMAIN list
          BY <1>2, <2>2, <4>1
        <5> QED BY <1>2, <4>1, <5>1
      <4>2. CASE Len(new) = Len(list) /\ \A j \in 1..(Len(list) - 1) : new[j] = list[j + 1]
        <5>1. i \in 1..(Len(list) - 1) /\ i + 1 \in DOMAIN list
          BY <1>2, <2>2, <4>2
        <5> QED BY <4>2, <5>1
      <4> QED BY <1>1, <4>1, <4>2
    <3> QED BY <3>1 DEF AllPaused
  <2> QED BY <2>1, <2>2
<1>4. Len(new) = MaxHistory
  <2> DEFINE l == Len(new)
  <2>1. l \in 1..MaxHistory /\ (l = MaxHistory + 1 \/ l = MaxHistory)
    BY <1>1
  <2>2. MaxHistory \in Int
    BY TrackerConstants
  <2> HIDE DEF l
  <2>3. l = MaxHistory
    BY <2>1, <2>2
  <2> QED BY <2>3 DEF l
<1> QED BY <1>3, <1>4 DEF AllPaused, new

\* Enough samples kept, one after the other paused, reach back further than the limit.
LEMMA FullIsOld ==
  ASSUME NEW list \in Seq(Samples), Len(list) = MaxHistory, NEW t \in Nat, list[1].at <= t,
         NEW left \in Nat, NEW p,
         Cardinality(KeptSince(list, list[1].at)) + Cardinality(OpenSince(p, list[1].at)) + left
           <= (t - list[1].at + 1) * PollsPerTick,
         Cardinality(Overtaken(list, 1)) + Cardinality(OpenBefore(p, list[1].at))
           <= Cardinality(Slots) - 1
  PROVE  t - list[1].at > PausedLimit
<1> DEFINE T == list[1].at
           A == KeptSince(list, T)
           B == Overtaken(list, 1)
<1>1. /\ MaxHistory \in Nat /\ MaxHistory > 0 /\ PollsPerTick \in Nat /\ PausedLimit \in Nat
      /\ (PausedLimit + 1) * PollsPerTick + Cardinality(Slots) - 1 < MaxHistory
      /\ Cardinality(Slots) \in Nat
  BY TrackerConstants, FS_CardinalityType
<1>2. DOMAIN list = 1..MaxHistory /\ \A i \in 1..MaxHistory : list[i].at \in Nat
  <2>1. DOMAIN list = 1..MaxHistory /\ \A i \in 1..MaxHistory : list[i] \in Samples
    OBVIOUS
  <2> QED BY <2>1, SampleType
<1>3. IsFiniteSet(1..MaxHistory) /\ Cardinality(1..MaxHistory) = MaxHistory
  BY <1>1, FS_Interval
<1>4. A \in SUBSET (1..MaxHistory) /\ B \in SUBSET (1..MaxHistory)
  BY <1>2 DEF KeptSince, Overtaken
<1>5. A \union B = 1..MaxHistory
  <2>1. ASSUME NEW i \in 1..MaxHistory, ~(list[i].at >= T)
        PROVE  1 < i /\ list[i].at < T
    <3>1. list[i].at \in Nat /\ T \in Nat /\ i \in Nat /\ i >= 1
      BY <1>1, <1>2
    <3>2. list[i].at < T
      BY <2>1, <3>1
    <3>3. i # 1
      BY <3>1, <3>2
    <3> QED BY <3>1, <3>2, <3>3
  <2>2. 1..MaxHistory \subseteq A \union B
    BY <1>2, <2>1 DEF KeptSince, Overtaken
  <2> QED BY <1>4, <2>2
<1>6. /\ IsFiniteSet(A) /\ Cardinality(A) \in Nat /\ IsFiniteSet(B) /\ Cardinality(B) \in Nat
  BY <1>3, <1>4, FS_Subset, FS_CardinalityType
<1>7. Cardinality(A \intersect B) \in Nat
  BY <1>6, FS_Intersection, FS_CardinalityType
<1> DEFINE a == Cardinality(A)
           b == Cardinality(B)
           o == Cardinality(OpenSince(p, T))
           w == Cardinality(OpenBefore(p, T))
<1>8. a + o + left <= (t - T + 1) * PollsPerTick /\ b + w <= Cardinality(Slots) - 1
  OBVIOUS
<1>9. o \in Nat /\ w \in Nat
  BY PollsCounted
<1>10. T \in Nat /\ T <= t
  BY <1>1, <1>2
<1> HIDE DEF T, A, B
<1>11. Cardinality(A \union B) = a + b - Cardinality(A \intersect B)
  BY <1>6, FS_Union
<1>13. a \in Nat /\ b \in Nat
  BY <1>6
<1> HIDE DEF a, b, o, w
<1>12. MaxHistory <= a + b
  <2> DEFINE c == Cardinality(A \intersect B)
  <2>1. c \in Nat /\ MaxHistory = a + b - c
    BY <1>3, <1>5, <1>7, <1>11
  <2> HIDE DEF c
  <2> QED BY <1>1, <1>13, <2>1
<1>14. ASSUME t - T <= PausedLimit PROVE FALSE
  <2>1. (t - T + 1) * PollsPerTick <= (PausedLimit + 1) * PollsPerTick
    <3>1. t - T + 1 \in Nat /\ PausedLimit + 1 \in Nat /\ t - T + 1 <= PausedLimit + 1
      BY <1>1, <1>10, <1>14
    <3> QED BY <1>1, <3>1, LargerFactor
  <2>2. (t - T + 1) * PollsPerTick \in Int /\ (PausedLimit + 1) * PollsPerTick \in Int
    BY <1>1, <1>10
  <2> DEFINE y == (t - T + 1) * PollsPerTick
             z == (PausedLimit + 1) * PollsPerTick
  <2>3. y \in Int /\ z \in Int /\ y <= z /\ a + o + left <= y /\ z + Cardinality(Slots) - 1 < MaxHistory
    BY <1>1, <1>8, <2>1, <2>2
  <2> HIDE DEF y, z
  <2> QED BY <1>1, <1>8, <1>9, <1>12, <1>13, <2>3
<1> QED BY <1>1, <1>10, <1>14 DEF T

TrackTypes ==
  /\ ticks \in Nat /\ pollsLeft \in Nat
  /\ polls \in [Slots -> Samples \union {NoPoll}]
  /\ poolStates \in Seq(Samples) /\ Len(poolStates) <= MaxHistory
  /\ pausedSince \in Nat \union {-1}
  /\ \A s \in Slots : polls[s] # NoPoll => polls[s].at <= ticks
  /\ \A i \in DOMAIN poolStates : poolStates[i].at <= ticks

\* The polls of the last ticks are no more than are begun in each.
FewSamples(list, p, left, t) ==
  \A T \in 0..t :
    Cardinality(KeptSince(list, T)) + Cardinality(OpenSince(p, T)) + left
      <= (t - T + 1) * PollsPerTick

\* The samples that an older one of the list overtook were under way beside it.
FewOvertaken(list, p) ==
  \A i \in DOMAIN list :
    Cardinality(Overtaken(list, i)) + Cardinality(OpenBefore(p, list[i].at))
      <= Cardinality(Slots) - 1

FullOfPaused(list) == AllPaused(list) /\ Len(list) = MaxHistory

PauseKept(list, since) ==
  /\ since # -1 <=> (list # <<>> /\ Paused(list[Len(list)]))
  /\ since # -1 =>
       \/ \E k : RunStart(list, k) /\ list[k].at = since
       \/ FullOfPaused(list)

TrackInv ==
  /\ TrackTypes /\ FewSamples(poolStates, polls, pollsLeft, ticks)
  /\ FewOvertaken(poolStates, polls) /\ PauseKept(poolStates, pausedSince)
  /\ PauseIsReported

LEMMA TrackStarts ==
  ASSUME TrackerInit PROVE TrackInv
<1> USE DEF TrackerInit
<1>1. PollsPerTick \in Nat /\ MaxHistory \in Nat
  BY TrackerConstants
<1>2. TrackTypes
  BY <1>1 DEF TrackTypes
<1>3. FewSamples(poolStates, polls, pollsLeft, ticks)
  <2>1. ASSUME NEW T \in 0..0
        PROVE  Cardinality(KeptSince(<<>>, T)) + Cardinality(OpenSince(polls, T)) + PollsPerTick
                 <= (0 - T + 1) * PollsPerTick
    <3>1. KeptSince(<<>>, T) = {} /\ OpenSince(polls, T) = {}
      BY DEF KeptSince, OpenSince
    <3>2. T = 0
      OBVIOUS
    <3> QED BY <1>1, <3>1, <3>2, FS_EmptySet
  <2> QED BY <2>1 DEF FewSamples
<1>4. FewOvertaken(poolStates, polls)
  BY DEF FewOvertaken
<1>5. PauseKept(poolStates, pausedSince)
  BY DEF PauseKept
<1>6. PauseIsReported
  BY DEF PauseIsReported
<1> QED BY <1>2, <1>3, <1>4, <1>5, <1>6 DEF TrackInv

LEMMA BeginKeeps ==
  ASSUME TrackInv, NEW s \in Slots, StartPoll(s)
  PROVE  TrackInv'
<1>0. /\ ticks \in Nat /\ pollsLeft \in Nat
      /\ polls \in [Slots -> Samples \union {NoPoll}]
      /\ poolStates \in Seq(Samples) /\ Len(poolStates) <= MaxHistory
      /\ pausedSince \in Nat \union {-1}
      /\ \A u \in Slots : polls[u] # NoPoll => polls[u].at <= ticks
      /\ \A i \in DOMAIN poolStates : poolStates[i].at <= ticks
  BY DEF TrackInv, TrackTypes
<1> USE DEF TrackInv
<1>1. PICK reading \in Readings : polls' = [polls EXCEPT ![s] = [at |-> ticks, shows |-> reading]]
  BY DEF StartPoll
<1>2. /\ polls[s] = NoPoll /\ pollsLeft > 0 /\ pollsLeft' = pollsLeft - 1
      /\ UNCHANGED <<ticks, poolStates, activeAlerts, pausedSince>>
  BY DEF StartPoll
<1>3. [at |-> ticks, shows |-> reading] \in Samples
  BY <1>0 DEF Samples
<1>4. /\ polls' \in [Slots -> Samples \union {NoPoll}]
      /\ polls'[s].at = ticks /\ \A u \in Slots : u # s => polls'[u] = polls[u]
  BY <1>0, <1>1, <1>3
<1>5. TrackTypes'
  BY <1>0, <1>2, <1>4 DEF TrackTypes
<1>6. FewSamples(poolStates, polls, pollsLeft, ticks)'
  <2>1. ASSUME NEW T \in 0..ticks
        PROVE  Cardinality(KeptSince(poolStates, T)) + Cardinality(OpenSince(polls', T)) + pollsLeft'
                 <= (ticks - T + 1) * PollsPerTick
    <3> DEFINE y == (ticks - T + 1) * PollsPerTick
    <3>1. T \in Nat /\ y \in Int
      BY <1>0, TrackerConstants
    <3>2. Cardinality(OpenSince(polls', T)) <= Cardinality(OpenSince(polls, T)) + 1
      BY <1>4, <3>1, PollOpened
    <3>3. Cardinality(KeptSince(poolStates, T)) + Cardinality(OpenSince(polls, T)) + pollsLeft <= y
      BY DEF FewSamples
    <3>4. /\ Cardinality(OpenSince(polls, T)) \in Nat /\ Cardinality(OpenSince(polls', T)) \in Nat
      BY PollsCounted
    <3>5. Cardinality(KeptSince(poolStates, T)) \in Nat
      <4>1. poolStates \in Seq(Samples) /\ T \in Int
        BY <1>0, <3>1
      <4> QED BY <4>1, KeptType, Zenon
    <3> HIDE DEF y
    <3>6. Cardinality(KeptSince(poolStates, T)) + Cardinality(OpenSince(polls', T)) + pollsLeft' <= y
      BY <1>0, <1>2, <3>1, <3>2, <3>3, <3>4, <3>5
    <3> QED BY <3>6 DEF y
  <2> QED BY <1>2, <2>1 DEF FewSamples
<1>7. FewOvertaken(poolStates, polls)'
  <2>1. ASSUME NEW i \in DOMAIN poolStates
        PROVE  Cardinality(Overtaken(poolStates, i)) + Cardinality(OpenBefore(polls', poolStates[i].at))
                 <= Cardinality(Slots) - 1
    <3>1. poolStates[i].at \in Nat /\ poolStates[i].at <= ticks /\ i \in 1..Len(poolStates)
      BY <1>0, SampleType
    <3>2. Cardinality(OpenBefore(polls', poolStates[i].at))
            <= Cardinality(OpenBefore(polls, poolStates[i].at))
      <4>1. poolStates[i].at <= polls'[s].at /\ polls'[s].at \in Nat /\ poolStates[i].at \in Nat
        BY <1>0, <1>4, <3>1
      <4>2. \A u \in Slots : u # s => polls'[u] = polls[u]
        BY <1>4
      <4> QED BY <4>1, <4>2, PollOpened, Zenon
    <3>3. Cardinality(Overtaken(poolStates, i)) + Cardinality(OpenBefore(polls, poolStates[i].at))
            <= Cardinality(Slots) - 1
      BY DEF FewOvertaken
    <3>4. /\ Cardinality(OpenBefore(polls, poolStates[i].at)) \in Nat
          /\ Cardinality(OpenBefore(polls', poolStates[i].at)) \in Nat
      BY PollsCounted
    <3>5. Cardinality(Overtaken(poolStates, i)) \in Nat
      BY <1>0, OvertakenType
    <3>6. Cardinality(Slots) \in Nat
      BY TrackerConstants, FS_CardinalityType
    <3> QED BY <3>2, <3>3, <3>4, <3>5, <3>6
  <2> QED BY <1>2, <2>1 DEF FewOvertaken
<1>8. PauseKept(poolStates, pausedSince)' /\ PauseIsReported'
  BY <1>2 DEF PauseIsReported
<1> QED BY <1>5, <1>6, <1>7, <1>8

LEMMA ClosedKeeps ==
  ASSUME TrackInv, NEW s \in Slots, PollFails(s)
  PROVE  TrackInv'
<1>0. /\ ticks \in Nat /\ pollsLeft \in Nat
      /\ polls \in [Slots -> Samples \union {NoPoll}]
      /\ poolStates \in Seq(Samples) /\ Len(poolStates) <= MaxHistory
      /\ pausedSince \in Nat \union {-1}
      /\ \A u \in Slots : polls[u] # NoPoll => polls[u].at <= ticks
      /\ \A i \in DOMAIN poolStates : poolStates[i].at <= ticks
  BY DEF TrackInv, TrackTypes
<1> USE DEF TrackInv
<1>1. /\ polls[s] # NoPoll /\ polls' = [polls EXCEPT ![s] = NoPoll]
      /\ UNCHANGED <<ticks, pollsLeft, poolStates, activeAlerts, pausedSince>>
  BY DEF PollFails
<1>2. /\ polls' \in [Slots -> Samples \union {NoPoll}]
      /\ polls'[s] = NoPoll /\ \A u \in Slots : u # s => polls'[u] = polls[u]
  BY <1>0, <1>1
<1>3. TrackTypes'
  BY <1>0, <1>1, <1>2 DEF TrackTypes
<1>4. polls[s] # NoPoll /\ polls'[s] = NoPoll /\ \A u \in Slots : u # s => polls'[u] = polls[u]
  BY <1>1, <1>2
<1>5. FewSamples(poolStates, polls, pollsLeft, ticks)'
  <2>1. ASSUME NEW T \in 0..ticks
        PROVE  Cardinality(KeptSince(poolStates, T)) + Cardinality(OpenSince(polls', T)) + pollsLeft
                 <= (ticks - T + 1) * PollsPerTick
    <3> DEFINE y == (ticks - T + 1) * PollsPerTick
    <3>1. T \in Nat /\ y \in Int
      BY <1>0, TrackerConstants
    <3>2. /\ Cardinality(OpenSince(polls, T)) \in Nat /\ Cardinality(OpenSince(polls', T)) \in Nat
      BY PollsCounted
    <3>3. Cardinality(OpenSince(polls', T))
            = Cardinality(OpenSince(polls, T)) - (IF polls[s].at >= T THEN 1 ELSE 0)
      BY <1>4, PollClosed
    <3>4. Cardinality(OpenSince(polls', T)) <= Cardinality(OpenSince(polls, T))
      BY <3>2, <3>3
    <3>5. Cardinality(KeptSince(poolStates, T)) + Cardinality(OpenSince(polls, T)) + pollsLeft <= y
      BY DEF FewSamples
    <3>6. Cardinality(KeptSince(poolStates, T)) \in Nat
      <4>1. poolStates \in Seq(Samples) /\ T \in Int
        BY <1>0, <3>1
      <4> QED BY <4>1, KeptType, Zenon
    <3> HIDE DEF y
    <3>7. Cardinality(KeptSince(poolStates, T)) + Cardinality(OpenSince(polls', T)) + pollsLeft <= y
      BY <1>0, <3>1, <3>2, <3>4, <3>5, <3>6
    <3> QED BY <3>7 DEF y
  <2> QED BY <1>1, <2>1 DEF FewSamples
<1>6. FewOvertaken(poolStates, polls)'
  <2>1. ASSUME NEW i \in DOMAIN poolStates
        PROVE  Cardinality(Overtaken(poolStates, i)) + Cardinality(OpenBefore(polls', poolStates[i].at))
                 <= Cardinality(Slots) - 1
    <3> DEFINE T == poolStates[i].at
    <3>1. Cardinality(OpenBefore(polls', T))
            = Cardinality(OpenBefore(polls, T)) - (IF polls[s].at < T THEN 1 ELSE 0)
      BY <1>4, PollClosed
    <3>2. Cardinality(Overtaken(poolStates, i)) + Cardinality(OpenBefore(polls, T))
            <= Cardinality(Slots) - 1
      BY DEF FewOvertaken
    <3>3. /\ Cardinality(OpenBefore(polls, T)) \in Nat
          /\ Cardinality(OpenBefore(polls', T)) \in Nat
      BY PollsCounted
    <3>4. Cardinality(OpenBefore(polls', T)) <= Cardinality(OpenBefore(polls, T))
      BY <3>1, <3>3
    <3>5. Cardinality(Overtaken(poolStates, i)) \in Nat
      BY <1>0, OvertakenType
    <3>6. Cardinality(Slots) \in Nat
      BY TrackerConstants, FS_CardinalityType
    <3> HIDE DEF T
    <3>7. Cardinality(Overtaken(poolStates, i)) + Cardinality(OpenBefore(polls', T))
            <= Cardinality(Slots) - 1
      BY <3>2, <3>3, <3>4, <3>5, <3>6
    <3> QED BY <3>7 DEF T
  <2> QED BY <1>1, <2>1 DEF FewOvertaken
<1>7. PauseKept(poolStates, pausedSince)' /\ PauseIsReported'
  BY <1>1 DEF PauseIsReported
<1> QED BY <1>3, <1>5, <1>6, <1>7

LEMMA TickKeeps ==
  ASSUME TrackInv, TrackerTick
  PROVE  TrackInv'
<1>0. /\ ticks \in Nat /\ pollsLeft \in Nat
      /\ polls \in [Slots -> Samples \union {NoPoll}]
      /\ poolStates \in Seq(Samples) /\ Len(poolStates) <= MaxHistory
      /\ pausedSince \in Nat \union {-1}
      /\ \A u \in Slots : polls[u] # NoPoll => polls[u].at <= ticks
      /\ \A i \in DOMAIN poolStates : poolStates[i].at <= ticks
  BY DEF TrackInv, TrackTypes
<1> USE DEF TrackInv
<1>1. /\ ticks' = ticks + 1 /\ pollsLeft' = PollsPerTick
      /\ UNCHANGED <<polls, poolStates, activeAlerts, pausedSince>>
  BY DEF TrackerTick
<1>2. PollsPerTick \in Nat
  BY TrackerConstants
<1>3. /\ \A s \in Slots : polls[s] # NoPoll => polls[s].at \in Nat
      /\ \A i \in DOMAIN poolStates : poolStates[i].at \in Nat
  BY <1>0, SampleType
<1>4. TrackTypes'
  BY <1>0, <1>1, <1>2, <1>3 DEF TrackTypes
<1>5. FewSamples(poolStates, polls, pollsLeft, ticks)'
  <2>1. ASSUME NEW T \in 0..(ticks + 1)
        PROVE  Cardinality(KeptSince(poolStates, T)) + Cardinality(OpenSince(polls, T)) + PollsPerTick
                 <= ((ticks + 1) - T + 1) * PollsPerTick
    <3>1. CASE T = ticks + 1
      <4>1. KeptSince(poolStates, T) = {}
        BY <1>0, <1>3, <3>1 DEF KeptSince
      <4>2. OpenSince(polls, T) = {}
        BY <1>0, <1>3, <3>1 DEF OpenSince
      <4>3. (ticks + 1) - T + 1 = 1
        BY <1>0, <3>1
      <4> QED BY <1>2, <4>1, <4>2, <4>3, FS_EmptySet
    <3>2. CASE T \in 0..ticks
      <4> DEFINE k == Cardinality(KeptSince(poolStates, T))
                 o == Cardinality(OpenSince(polls, T))
                 y == (ticks - T + 1) * PollsPerTick
      <4>1. ((ticks + 1) - T + 1) * PollsPerTick = y + PollsPerTick /\ y \in Int
        BY <1>0, <1>2, <3>2
      <4>2. k + o + pollsLeft <= y
        BY <3>2 DEF FewSamples
      <4>3. o \in Nat
        BY PollsCounted
      <4>4. k \in Nat
        <5>1. poolStates \in Seq(Samples) /\ T \in Int
          BY <1>0, <3>2
        <5> QED BY <5>1, KeptType, Zenon
      <4> HIDE DEF k, o, y
      <4>5. k + o + PollsPerTick <= y + PollsPerTick
        BY <1>0, <1>2, <4>1, <4>2, <4>3, <4>4
      <4> QED BY <4>1, <4>5 DEF k, o
    <3> QED BY <1>0, <3>1, <3>2
  <2>2. FewSamples(poolStates, polls, PollsPerTick, ticks + 1)
    BY <2>1, Zenon DEF FewSamples
  <2> QED BY <1>1, <2>2
<1>6. FewOvertaken(poolStates, polls)'
  BY <1>1 DEF FewOvertaken
<1>7. PauseKept(poolStates, pausedSince)' /\ PauseIsReported'
  BY <1>1 DEF PauseIsReported
<1> QED BY <1>4, <1>5, <1>6, <1>7

\* What getPausedDuration returns is the time since the first of the last samples
\* that are paused.
LEMMA DurationOfRun ==
  ASSUME NEW list \in Seq(Samples), NEW k, RunStart(list, k)
  PROVE  PausedDuration(list) = ticks - list[k].at
<1> DEFINE open == {i \in DOMAIN list : ~list[i].shows.paused}
           last == IF open = {} THEN 0 ELSE CHOOSE i \in open : \A j \in open : j <= i
<1>1. DOMAIN list = 1..Len(list) /\ Len(list) \in Nat /\ k \in 1..Len(list)
  BY DEF RunStart
<1>2. /\ \A i \in open : i \in 1..Len(list) /\ ~Paused(list[i])
      /\ \A i \in 1..Len(list) : ~Paused(list[i]) => i \in open
  BY <1>1 DEF Paused
<1>3. PausedDuration(list) = ticks - list[last + 1].at
  BY DEF PausedDuration
<1> HIDE DEF open
<1>4. \A i \in open : i < k
  BY <1>1, <1>2 DEF RunStart
<1>5. last + 1 = k
  <2>1. CASE k = 1
    <3>1. open = {}
      BY <1>1, <1>2, <1>4, <2>1
    <3> QED BY <2>1, <3>1
  <2>2. CASE k # 1
    <3>1. k - 1 \in open /\ \A j \in open : j <= k - 1
      BY <1>1, <1>2, <1>4, <2>2 DEF RunStart
    <3>2. \A i \in open : (\A j \in open : j <= i) => i = k - 1
      BY <1>1, <1>2, <3>1
    <3> HIDE DEF last
    <3>3. last \in open /\ \A j \in open : j <= last
      BY <3>1, Zenon DEF last
    <3> QED BY <1>1, <3>2, <3>3
  <2> QED BY <2>1, <2>2
<1> QED BY <1>3, <1>5

LEMMA LongPauseMet ==
  ASSUME NEW list, Paused(list[Len(list)]), PausedDuration(list) > PausedLimit
  PROVE  Verdict("paused", list) = "met"
BY DEF Verdict, Paused

LEMMA FinishKeeps ==
  ASSUME TrackInv, NEW s \in Slots, FinishPoll(s)
  PROVE  TrackInv'
<1>0. /\ ticks \in Nat /\ pollsLeft \in Nat
      /\ polls \in [Slots -> Samples \union {NoPoll}]
      /\ poolStates \in Seq(Samples) /\ Len(poolStates) <= MaxHistory
      /\ pausedSince \in Nat \union {-1}
      /\ \A u \in Slots : polls[u] # NoPoll => polls[u].at <= ticks
      /\ \A i \in DOMAIN poolStates : poolStates[i].at <= ticks
  BY DEF TrackInv, TrackTypes
<1> DEFINE x == polls[s]
           new == PollsJoined(poolStates, x)
<1>1. /\ polls[s] # NoPoll /\ polls' = [polls EXCEPT ![s] = NoPoll]
      /\ poolStates' = new /\ ticks' = ticks /\ pollsLeft' = pollsLeft
      /\ pausedSince' = IF ~Paused(x) THEN -1 ELSE IF pausedSince = -1 THEN x.at ELSE pausedSince
  BY DEF FinishPoll, PollsJoined, Paused
<1>2. Len(new) > 1 /\ Verdict("paused", new) = "met" => "paused" \in activeAlerts'
  BY DEF FinishPoll, PollsJoined, AlertTypes
<1>3. x \in Samples /\ x.at \in Nat /\ x.at <= ticks
  BY <1>0, <1>1, SampleType
<1>4. /\ new \in Seq(Samples) /\ new # <<>> /\ Len(new) \in 1..MaxHistory /\ new[Len(new)] = x
      /\ \/ /\ new = Append(poolStates, x) /\ Len(new) = Len(poolStates) + 1
            /\ \A i \in 1..Len(poolStates) : new[i] = poolStates[i]
         \/ /\ new = Tail(Append(poolStates, x))
            /\ Len(new) = Len(poolStates) /\ Len(poolStates) = MaxHistory
            /\ \A i \in 1..(Len(poolStates) - 1) : new[i] = poolStates[i + 1]
  BY <1>0, <1>3, JoinedList
<1>5. /\ polls' \in [Slots -> Samples \union {NoPoll}]
      /\ polls'[s] = NoPoll /\ \A u \in Slots : u # s => polls'[u] = polls[u]
  BY <1>0, <1>1
<1> HIDE DEF x, new
<1>6. /\ DOMAIN poolStates = 1..Len(poolStates) /\ DOMAIN new = 1..Len(new)
      /\ Len(poolStates) \in Nat /\ Len(new) \in Nat /\ MaxHistory \in Nat /\ Len(new) >= 1
      /\ Len(new) <= MaxHistory
  <2>1. MaxHistory \in Nat
    BY TrackerConstants
  <2>2. Len(new) \in 1..MaxHistory
    BY <1>4, ZenonT(40)
  <2> QED BY <1>0, <1>4, <2>1, <2>2
<1>7. TrackTypes'
  <2>1. pausedSince' \in Nat \union {-1}
    BY <1>0, <1>1, <1>3
  <2>2. \A u \in Slots : polls'[u] # NoPoll => polls'[u].at <= ticks
    BY <1>0, <1>5
  <2>3. \A i \in DOMAIN new : new[i].at <= ticks
    <3>1. ASSUME NEW i \in DOMAIN new PROVE new[i].at <= ticks
      <4>1. CASE i = Len(new)
        BY <1>3, <1>4, <4>1
      <4>2. CASE i # Len(new)
        <5>1. \E j \in DOMAIN poolStates : new[i] = poolStates[j]
          <6>1. CASE Len(new) = Len(poolStates) + 1 /\ \A j \in 1..Len(poolStates) : new[j] = poolStates[j]
            <7>1. i \in 1..Len(poolStates)
              BY <1>6, <4>2, <6>1
            <7> QED BY <1>6, <6>1, <7>1
          <6>2. CASE /\ Len(new) = Len(poolStates)
                     /\ \A j \in 1..(Len(poolStates) - 1) : new[j] = poolStates[j + 1]
            <7>1. i \in 1..(Len(poolStates) - 1) /\ i + 1 \in 1..Len(poolStates)
              BY <1>6, <4>2, <6>2
            <7> QED BY <1>6, <6>2, <7>1
          <6> QED BY <1>4, <6>1, <6>2
        <5> QED BY <1>0, <5>1
      <4> QED BY <4>1, <4>2
    <3> QED BY <3>1
  <2> QED BY <1>0, <1>1, <1>4, <1>5, <1>6, <2>1, <2>2, <2>3, ZenonT(30) DEF TrackTypes
<1>8. ASSUME NEW T \in Nat
      PROVE  /\ Cardinality(KeptSince(new, T)) + Cardinality(OpenSince(polls', T))
                   <= Cardinality(KeptSince(poolStates, T)) + Cardinality(OpenSince(polls, T))
             /\ Cardinality(KeptSince(new, T)) \in Nat /\ Cardinality(OpenSince(polls', T)) \in Nat
             /\ Cardinality(KeptSince(poolStates, T)) \in Nat /\ Cardinality(OpenSince(polls, T)) \in Nat
  <2>1. T \in Int
    OBVIOUS
  <2>2. Cardinality(KeptSince(new, T)) \in Nat /\ Cardinality(KeptSince(poolStates, T)) \in Nat
    BY <1>0, <1>4, <2>1, KeptType, Zenon
  <2>3. Cardinality(OpenSince(polls', T)) \in Nat /\ Cardinality(OpenSince(polls, T)) \in Nat
    BY PollsCounted
  <2>4. Cardinality(KeptSince(Append(poolStates, x), T))
          = Cardinality(KeptSince(poolStates, T)) + (IF x.at >= T THEN 1 ELSE 0)
    BY <1>0, <1>3, <2>1, KeptAppended, Zenon
  <2>5. Cardinality(KeptSince(new, T)) <= Cardinality(KeptSince(Append(poolStates, x), T))
    <3>1. CASE new = Append(poolStates, x)
      BY <2>2, <3>1
    <3>2. CASE new = Tail(Append(poolStates, x))
      <4>1. Append(poolStates, x) \in Seq(Samples) /\ Append(poolStates, x) # <<>>
        BY <1>0, <1>3
      <4> QED BY <2>1, <3>2, <4>1, KeptInTail, Zenon
    <3> QED BY <1>4, <3>1, <3>2
  <2>6. Cardinality(OpenSince(polls', T))
          = Cardinality(OpenSince(polls, T)) - (IF x.at >= T THEN 1 ELSE 0)
    <3>1. polls[s] # NoPoll /\ polls'[s] = NoPoll /\ \A u \in Slots : u # s => polls'[u] = polls[u]
      BY <1>1, <1>5
    <3>2. Cardinality(OpenSince(polls', T))
            = Cardinality(OpenSince(polls, T)) - (IF polls[s].at >= T THEN 1 ELSE 0)
      BY <3>1, OpenSinceClosed
    <3> QED BY <3>2 DEF x
  <2> DEFINE a == Cardinality(KeptSince(new, T))
             b == Cardinality(KeptSince(Append(poolStates, x), T))
             c == Cardinality(KeptSince(poolStates, T))
             d == Cardinality(OpenSince(polls', T))
             e == Cardinality(OpenSince(polls, T))
  <2>7. /\ a \in Nat /\ c \in Nat /\ d \in Nat /\ e \in Nat
        /\ b = c + (IF x.at >= T THEN 1 ELSE 0) /\ a <= b /\ d = e - (IF x.at >= T THEN 1 ELSE 0)
    BY <2>2, <2>3, <2>4, <2>5, <2>6
  <2> HIDE DEF a, b, c, d, e
  <2>8. a + d <= c + e
    BY <2>7
  <2> QED BY <2>7, <2>8 DEF a, c, d, e
<1>9. FewSamples(new, polls', pollsLeft, ticks)
  <2>1. ASSUME NEW T \in 0..ticks
        PROVE  Cardinality(KeptSince(new, T)) + Cardinality(OpenSince(polls', T)) + pollsLeft
                 <= (ticks - T + 1) * PollsPerTick
    <3> DEFINE a == Cardinality(KeptSince(new, T))
               c == Cardinality(KeptSince(poolStates, T))
               d == Cardinality(OpenSince(polls', T))
               e == Cardinality(OpenSince(polls, T))
               y == (ticks - T + 1) * PollsPerTick
    <3>1. T \in Nat /\ y \in Int
      BY <1>0, TrackerConstants
    <3>2. a + d <= c + e /\ a \in Nat /\ c \in Nat /\ d \in Nat /\ e \in Nat
      BY <1>8, <3>1
    <3>3. c + e + pollsLeft <= y
      BY DEF TrackInv, FewSamples
    <3> HIDE DEF a, c, d, e, y
    <3>4. a + d + pollsLeft <= y
      BY <1>0, <3>1, <3>2, <3>3
    <3> QED BY <3>4 DEF a, d, y
  <2> QED BY <2>1, Zenon DEF FewSamples
<1>10. ASSUME NEW T
       PROVE  /\ Cardinality(OpenBefore(polls', T))
                   = Cardinality(OpenBefore(polls, T)) - (IF x.at < T THEN 1 ELSE 0)
              /\ Cardinality(OpenBefore(polls', T)) <= Cardinality(Slots) - 1
              /\ Cardinality(OpenBefore(polls', T)) \in Nat
              /\ Cardinality(OpenBefore(polls, T)) \in Nat
  <2>1. polls[s] # NoPoll
    BY <1>1
  <2>2. /\ Cardinality(OpenBefore(polls', T))
              = Cardinality(OpenBefore(polls, T)) - (IF x.at < T THEN 1 ELSE 0)
        /\ Cardinality(OpenBefore(polls', T)) <= Cardinality(Slots) - 1
    BY <1>5, <2>1, PollClosed DEF x
  <2> QED BY <2>2, PollsCounted
<1> DEFINE all == Append(poolStates, x)
<1>11. /\ all \in Seq(Samples) /\ all # <<>> /\ Len(all) = Len(poolStates) + 1
       /\ all[Len(poolStates) + 1] = x /\ \A i \in 1..Len(poolStates) : all[i] = poolStates[i]
  BY <1>0, <1>3
<1>12. ASSUME NEW i \in 1..(Len(poolStates) + 1)
       PROVE  Cardinality(Overtaken(all, i)) + Cardinality(OpenBefore(polls', all[i].at))
                <= Cardinality(Slots) - 1
  <2>1. CASE i = Len(poolStates) + 1
    <3>1. Cardinality(Overtaken(all, i)) = 0
      BY <1>0, <1>3, <2>1, NoneAfterLast, Zenon
    <3>2. /\ Cardinality(OpenBefore(polls', all[i].at)) <= Cardinality(Slots) - 1
          /\ Cardinality(OpenBefore(polls', all[i].at)) \in Nat
      BY <1>10, Zenon
    <3> QED BY <3>1, <3>2
  <2>2. CASE i \in 1..Len(poolStates)
    <3>1. Cardinality(Overtaken(all, i))
            = Cardinality(Overtaken(poolStates, i)) + (IF x.at < poolStates[i].at THEN 1 ELSE 0)
      BY <1>0, <1>3, <2>2, OvertakenAppended, Zenon
    <3>2. all[i] = poolStates[i]
      BY <1>11, <2>2
    <3>3. Cardinality(OpenBefore(polls', all[i].at))
            = Cardinality(OpenBefore(polls, poolStates[i].at)) - (IF x.at < poolStates[i].at THEN 1 ELSE 0)
      BY <1>10, <3>2, Zenon
    <3>4. Cardinality(Overtaken(poolStates, i)) + Cardinality(OpenBefore(polls, poolStates[i].at))
            <= Cardinality(Slots) - 1
      BY <1>6, <2>2 DEF TrackInv, FewOvertaken
    <3>5. /\ Cardinality(Overtaken(poolStates, i)) \in Nat
          /\ Cardinality(OpenBefore(polls, poolStates[i].at)) \in Nat
      BY <1>0, <1>10, OvertakenType, Zenon
    <3> DEFINE a == Cardinality(Overtaken(all, i))
               b == Cardinality(Overtaken(poolStates, i))
               c == Cardinality(OpenBefore(polls', all[i].at))
               d == Cardinality(OpenBefore(polls, poolStates[i].at))
    <3>6. /\ b \in Nat /\ d \in Nat /\ b + d <= Cardinality(Slots) - 1
          /\ a = b + (IF x.at < poolStates[i].at THEN 1 ELSE 0)
          /\ c = d - (IF x.at < poolStates[i].at THEN 1 ELSE 0)
      BY <3>1, <3>3, <3>4, <3>5
    <3> HIDE DEF a, b, c, d
    <3>7. a + c = b + d
      BY <3>6
    <3> QED BY <3>6, <3>7 DEF a, c
  <2> QED BY <1>6, <2>1, <2>2
<1> HIDE DEF all
<1>13. FewOvertaken(new, polls')
  <2>1. ASSUME NEW i \in DOMAIN new
        PROVE  Cardinality(Overtaken(new, i)) + Cardinality(OpenBefore(polls', new[i].at))
                 <= Cardinality(Slots) - 1
    <3>1. CASE new = all
      <4>1. i \in 1..(Len(poolStates) + 1)
        BY <1>6, <1>11, <3>1
      <4> QED BY <1>12, <3>1, <4>1, Zenon
    <3>2. CASE new = Tail(all)
      <4>1. Len(new) = Len(all) - 1
        BY <1>11, <3>2
      <4>2. i \in 1..(Len(all) - 1) /\ i + 1 \in 1..(Len(poolStates) + 1)
        BY <1>6, <1>11, <4>1
      <4>3. Cardinality(Overtaken(new, i)) <= Cardinality(Overtaken(all, i + 1)) /\ new[i] = all[i + 1]
        BY <1>11, <3>2, <4>2, OvertakenInTail, Zenon
      <4>4. Cardinality(Overtaken(all, i + 1)) + Cardinality(OpenBefore(polls', new[i].at))
              <= Cardinality(Slots) - 1
        BY <1>12, <4>2, <4>3, Zenon
      <4>5. /\ Cardinality(Overtaken(new, i)) \in Nat /\ Cardinality(Overtaken(all, i + 1)) \in Nat
            /\ Cardinality(OpenBefore(polls', new[i].at)) \in Nat
        BY <1>4, <1>10, <1>11, OvertakenType, Zenon
      <4>6. Cardinality(Slots) \in Nat
        BY TrackerConstants, FS_CardinalityType
      <4> QED BY <4>3, <4>4, <4>5, <4>6
    <3> QED BY <1>4, <3>1, <3>2 DEF all
  <2> QED BY <2>1, Zenon DEF FewOvertaken
<1>14. PauseKept(new, pausedSince')
  <2>1. PauseKept(poolStates, pausedSince)
    BY DEF TrackInv
  <2>2. CASE ~Paused(x)
    BY <1>1, <1>4, <2>2 DEF PauseKept
  <2>3. CASE Paused(x) /\ pausedSince = -1
    <3>1. pausedSince' = x.at
      BY <1>1, <2>3
    <3>2. poolStates = <<>> \/ ~Paused(poolStates[Len(poolStates)])
      BY <2>1, <2>3 DEF PauseKept
    <3>3. PICK i : RunStart(new, i) /\ new[i] = x
      BY <1>0, <1>3, <2>3, <3>2, RunBegins DEF Paused, new
    <3> QED BY <1>3, <1>4, <2>3, <3>1, <3>3 DEF PauseKept
  <2>4. CASE Paused(x) /\ pausedSince # -1
    <3>1. pausedSince' = pausedSince
      BY <1>1, <2>4
    <3>2. \/ \E k : RunStart(poolStates, k) /\ poolStates[k].at = pausedSince
          \/ FullOfPaused(poolStates)
      BY <2>1, <2>4 DEF PauseKept
    <3>3. ASSUME NEW k, RunStart(poolStates, k), poolStates[k].at = pausedSince
          PROVE  (\E i : RunStart(new, i) /\ new[i].at = pausedSince) \/ FullOfPaused(new)
      <4>1. \/ \E i : RunStart(new, i) /\ new[i] = poolStates[k]
            \/ AllPaused(new) /\ Len(new) = MaxHistory
        BY <1>0, <1>3, <2>4, <3>3, RunGoesOn DEF Paused, new
      <4> QED BY <3>3, <4>1 DEF FullOfPaused
    <3>4. ASSUME FullOfPaused(poolStates) PROVE FullOfPaused(new)
      BY <1>0, <1>3, <2>4, <3>4, FullGoesOn DEF FullOfPaused, Paused, new
    <3> QED BY <1>4, <2>4, <3>1, <3>2, <3>3, <3>4 DEF PauseKept
  <2> QED BY <2>2, <2>3, <2>4
<1>15. PauseIsReported'
  <2> SUFFICES ASSUME Len(new) > 1, pausedSince' # -1, x.at - pausedSince' > PausedLimit
               PROVE  "paused" \in activeAlerts'
    BY <1>1, <1>4 DEF PauseIsReported
  <2>1. Paused(new[Len(new)]) /\ pausedSince' \in Nat /\ PausedLimit \in Nat
    <3>1. pausedSince' \in Nat \union {-1}
      BY <1>7 DEF TrackTypes
    <3> QED BY <1>14, <3>1, TrackerConstants DEF PauseKept
  <2>2. SUFFICES PausedDuration(new) > PausedLimit
    BY <1>2, <2>1, LongPauseMet
  <2>3. ASSUME NEW k, RunStart(new, k), new[k].at = pausedSince'
        PROVE  PausedDuration(new) > PausedLimit
    <3>1. PausedDuration(new) = ticks - pausedSince'
      BY <1>4, <2>3, DurationOfRun
    <3>2. x.at - pausedSince' > PausedLimit /\ x.at <= ticks /\ x.at \in Nat /\ ticks \in Nat
      BY <1>0, <1>3
    <3>3. ticks - pausedSince' > PausedLimit
      <4> DEFINE since == pausedSince'
                 at == x.at
      <4>1. at - since > PausedLimit /\ at <= ticks /\ at \in Nat /\ ticks \in Nat /\ since \in Nat
              /\ PausedLimit \in Nat
        BY <2>1, <3>2
      <4> HIDE DEF since, at
      <4>2. ticks - since > PausedLimit
        BY <4>1
      <4> QED BY <4>2 DEF since
    <3> QED BY <3>1, <3>3
  <2>4. ASSUME FullOfPaused(new)
        PROVE  PausedDuration(new) > PausedLimit
    <3>1. RunStart(new, 1)
      <4>1. 1 \in DOMAIN new
        BY <1>6
      <4> QED BY <2>4, <4>1 DEF RunStart, FullOfPaused, AllPaused
    <3>2. PausedDuration(new) = ticks - new[1].at
      BY <1>4, <3>1, DurationOfRun
    <3>3. 1 \in DOMAIN new /\ new[1].at \in Nat /\ new[1].at <= ticks
      <4>1. 1 \in DOMAIN new
        BY <1>6
      <4>2. new[1] \in Samples
        <5>1. new \in Seq(Samples)
          BY <1>4
        <5> QED BY <4>1, <5>1
      <4> QED BY <1>1, <1>7, <4>1, <4>2, SampleType DEF TrackTypes
    <3>4. Cardinality(KeptSince(new, new[1].at)) + Cardinality(OpenSince(polls', new[1].at)) + pollsLeft
            <= (ticks - new[1].at + 1) * PollsPerTick
      <4>1. new[1].at \in 0..ticks
        BY <1>0, <3>3
      <4> QED BY <1>9, <4>1, Zenon DEF FewSamples
    <3>5. Cardinality(Overtaken(new, 1)) + Cardinality(OpenBefore(polls', new[1].at))
            <= Cardinality(Slots) - 1
      BY <1>13, <3>3, Zenon DEF FewOvertaken
    <3>6. ticks - new[1].at > PausedLimit
      <4>1. Len(new) = MaxHistory
        BY <2>4 DEF FullOfPaused
      <4> QED BY <1>0, <1>4, <3>3, <3>4, <3>5, <4>1, FullIsOld, Zenon
    <3> QED BY <3>2, <3>6
  <2> QED BY <1>14, <2>3, <2>4 DEF PauseKept
<1> QED BY <1>1, <1>7, <1>9, <1>13, <1>14, <1>15 DEF TrackInv

LEMMA TrackSteps ==
  ASSUME TrackInv, [TrackerNext]_trackerVars
  PROVE  TrackInv'
<1>1. CASE UNCHANGED trackerVars
  BY <1>1 DEF trackerVars, TrackInv, TrackTypes, PauseIsReported
<1> QED BY <1>1, BeginKeeps, ClosedKeeps, FinishKeeps, TickKeeps DEF TrackerNext

-----------------------------------------------------------------------------
(* Alerts.                                                                 *)

\* What the history that is cleaned up still tells of all that was let through.
Remembered ==
  \A t \in TypesOfAlerts : \A c \in Int : c >= now - Day =>
    Cardinality(AtLeast(alertHistory[t], c)) = Cardinality(AtLeast(letThrough[t], c))

\* A key that counts as recent had its type let through in the day before.
RecentFollows ==
  \A k \in AlertKeys : recentAlerts[k] # Never =>
    \E i \in DOMAIN letThrough[TypeOf[k]] :
      /\ recentAlerts[k] - Day <= letThrough[TypeOf[k]][i]
      /\ letThrough[TypeOf[k]][i] <= recentAlerts[k]

AlertInv ==
  /\ now \in Nat
  /\ recentAlerts \in [AlertKeys -> Int] /\ \A k \in AlertKeys : recentAlerts[k] <= now
  /\ alertHistory \in [TypesOfAlerts -> Seq(Nat)] /\ letThrough \in [TypesOfAlerts -> Seq(Nat)]
  /\ \A t \in TypesOfAlerts : \A i \in DOMAIN letThrough[t] : letThrough[t][i] <= now
  /\ dropped \in [TypesOfAlerts -> Int]
  /\ Remembered /\ RecentFollows /\ AlertsWithinLimits /\ SilenceFollowsAlert

LEMMA AtLeastFinite ==
  ASSUME NEW list \in Seq(Nat), NEW c \in Int
  PROVE  IsFiniteSet(AtLeast(list, c)) /\ Cardinality(AtLeast(list, c)) \in Nat
<1>1. DOMAIN list = 1..Len(list) /\ Len(list) \in Nat
  OBVIOUS
<1>2. IsFiniteSet(DOMAIN list)
  BY <1>1, FS_Interval
<1>3. IsFiniteSet(AtLeast(list, c))
  BY <1>2, FS_Subset DEF AtLeast
<1> QED BY <1>3, FS_CardinalityType

\* One more alert is one more in every window that has its time.
LEMMA AtLeastAppended ==
  ASSUME NEW list \in Seq(Nat), NEW x \in Nat, NEW c \in Int
  PROVE  Cardinality(AtLeast(Append(list, x), c))
           = Cardinality(AtLeast(list, c)) + (IF x >= c THEN 1 ELSE 0)
<1> DEFINE n == Len(list)
           more == Append(list, x)
<1>1. /\ n \in Nat /\ DOMAIN list = 1..n /\ DOMAIN more = 1..(n + 1) /\ more[n + 1] = x
      /\ \A i \in 1..n : more[i] = list[i] /\ i # n + 1 /\ i \in 1..(n + 1)
      /\ \A i \in 1..(n + 1) : i = n + 1 \/ i \in 1..n
      /\ n + 1 \in 1..(n + 1)
  OBVIOUS
<1> HIDE DEF more, n
<1>2. CASE x >= c
  <2>1. AtLeast(more, c) = AtLeast(list, c) \union {n + 1} /\ n + 1 \notin AtLeast(list, c)
    BY <1>1, <1>2 DEF AtLeast
  <2>2. Cardinality(AtLeast(more, c)) = Cardinality(AtLeast(list, c)) + 1
    BY <2>1, AtLeastFinite, FS_AddElement
  <2> QED BY <1>2, <2>2 DEF more
<1>3. CASE ~ (x >= c)
  <2>1. AtLeast(more, c) = AtLeast(list, c)
    BY <1>1, <1>3 DEF AtLeast
  <2> QED BY <1>3, <2>1, AtLeastFinite DEF more
<1> QED BY <1>2, <1>3

\* A shorter window has no more.
LEMMA AtLeastShrinks ==
  ASSUME NEW list \in Seq(Nat), NEW c \in Int, NEW d \in Int, c <= d
  PROVE  Cardinality(AtLeast(list, d)) <= Cardinality(AtLeast(list, c))
<1>1. AtLeast(list, d) \subseteq AtLeast(list, c)
  BY DEF AtLeast
<1> QED BY <1>1, AtLeastFinite, FS_Subset

LEMMA CleanedUp ==
  ASSUME NEW list \in Seq(Nat), NEW c \in Int, NEW d \in Int, c <= d
  PROVE  /\ Sublist(list, AtLeast(list, c)) \in Seq(Nat)
         /\ Cardinality(AtLeast(Sublist(list, AtLeast(list, c)), d)) = Cardinality(AtLeast(list, d))
<1> DEFINE at == AtLeast(list, c)
           l == Sublist(list, at)
           T == {x \in Nat : x >= d}
<1>1. l \in Seq(Nat)
  BY SublistPlaces
<1>2. Cardinality(PlacesIn(l, DOMAIN l, T)) = Cardinality(PlacesIn(list, at, T))
  <2> HIDE DEF T, at
  <2> QED BY SublistCounts
<1>3. PlacesIn(list, at, T) = AtLeast(list, d)
  BY DEF AtLeast, PlacesIn
<1> HIDE DEF l
<1>4. PlacesIn(l, DOMAIN l, T) = AtLeast(l, d)
  BY <1>1 DEF AtLeast, PlacesIn
<1> QED BY <1>1, <1>2, <1>3, <1>4 DEF l

LEMMA EmptyCount == \A c : AtLeast(<<>>, c) = {}
BY DEF AtLeast

LEMMA AlertsStart == AlertInit => AlertInv
<1> SUFFICES ASSUME AlertInit PROVE AlertInv
  OBVIOUS
<1>1. Never \in Int /\ Never <= 0 /\ now = 0
  BY AlertConstants DEF AlertInit, Never
<1>2. \A t \in TypesOfAlerts : alertHistory[t] = <<>> /\ letThrough[t] = <<>> /\ dropped[t] = Never
  BY DEF AlertInit
<1>3. \A k \in AlertKeys : recentAlerts[k] = Never
  BY DEF AlertInit
<1>4. recentAlerts \in [AlertKeys -> Int] /\ dropped \in [TypesOfAlerts -> Int]
  BY <1>1 DEF AlertInit
<1>5. alertHistory \in [TypesOfAlerts -> Seq(Nat)] /\ letThrough \in [TypesOfAlerts -> Seq(Nat)]
  BY DEF AlertInit
<1>6. Remembered
  BY <1>2 DEF Remembered
<1>7. RecentFollows /\ SilenceFollowsAlert
  BY <1>2, <1>3 DEF RecentFollows, SilenceFollowsAlert
<1>8. AlertsWithinLimits
  <2> SUFFICES ASSUME NEW t \in TypesOfAlerts
               PROVE  /\ Cardinality(Since(letThrough[t], Hour)) <= MaxPerHour
                      /\ Cardinality(Since(letThrough[t], Day)) <= MaxPerDay
    BY DEF AlertsWithinLimits
  <2>1. Since(letThrough[t], Hour) = {} /\ Since(letThrough[t], Day) = {}
    BY <1>2, EmptyCount, Zenon DEF Since
  <2>2. Cardinality(Since(letThrough[t], Hour)) = 0 /\ Cardinality(Since(letThrough[t], Day)) = 0
    BY <2>1, FS_EmptySet, Zenon
  <2> QED BY <2>2, AlertConstants
<1> QED BY <1>1, <1>2, <1>3, <1>4, <1>5, <1>6, <1>7, <1>8 DEF AlertInv

\* An alert over the limits, in the hour or in the day.
LEMMA OverLimit ==
  ASSUME AlertInv, NEW t \in TypesOfAlerts, IsRateLimited(t)
  PROVE  \E i \in DOMAIN letThrough[t] : now - Day <= letThrough[t][i] /\ letThrough[t][i] <= now
<1> USE AlertConstants
<1>1. alertHistory[t] \in Seq(Nat) /\ letThrough[t] \in Seq(Nat) /\ now \in Nat
  BY DEF AlertInv
<1> DEFINE c == now - Day
<1>2. c \in Int /\ c <= now - Hour /\ now - Hour \in Int
  BY <1>1
<1>3. Cardinality(AtLeast(alertHistory[t], c)) >= 1
  <2>1. Cardinality(AtLeast(alertHistory[t], now - Hour)) <= Cardinality(AtLeast(alertHistory[t], c))
    BY <1>1, <1>2, AtLeastShrinks
  <2>2. Cardinality(AtLeast(alertHistory[t], now - Hour)) >= 1 \/ Cardinality(AtLeast(alertHistory[t], c)) >= 1
    <3>1. /\ Cardinality(AtLeast(alertHistory[t], now - Hour)) \in Nat
          /\ Cardinality(AtLeast(alertHistory[t], c)) \in Nat
      BY <1>1, <1>2, AtLeastFinite
    <3> QED BY <3>1 DEF IsRateLimited, Since
  <2>3. /\ Cardinality(AtLeast(alertHistory[t], now - Hour)) \in Nat
        /\ Cardinality(AtLeast(alertHistory[t], c)) \in Nat
    BY <1>1, <1>2, AtLeastFinite
  <2> HIDE DEF c
  <2> QED BY <2>1, <2>2, <2>3
<1>4. Cardinality(AtLeast(letThrough[t], c)) >= 1
  BY <1>2, <1>3 DEF AlertInv, Remembered
<1>5. AtLeast(letThrough[t], c) # {}
  <2> SUFFICES ASSUME AtLeast(letThrough[t], c) = {} PROVE FALSE
    OBVIOUS
  <2>1. Cardinality(AtLeast(letThrough[t], c)) = 0
    BY FS_EmptySet, Zenon
  <2> QED BY <1>4, <2>1
<1>6. PICK i \in DOMAIN letThrough[t] : letThrough[t][i] >= c
  BY <1>5 DEF AtLeast
<1>7. letThrough[t][i] <= now /\ letThrough[t][i] \in Nat
  BY <1>1 DEF AlertInv
<1> QED BY <1>1, <1>2, <1>6, <1>7

LEMMA InSpan ==
  ASSUME NEW r \in Int, NEW n \in Nat, NEW d \in Nat, NEW w \in Nat, NEW y \in Nat,
         n < r + w, r - d <= y, y <= r, r <= n
  PROVE  y \in n - d - w .. n
OBVIOUS

LEMMA AlertSent ==
  ASSUME AlertInv, NEW k \in AlertKeys, SendAlert(k)
  PROVE  AlertInv'
<1> USE AlertConstants
<1> DEFINE t == TypeOf[k]
           through == ~IsDuplicate(k) /\ ~IsRateLimited(t)
<1>1. /\ t \in TypesOfAlerts /\ now \in Nat /\ now' = now
      /\ alertHistory[t] \in Seq(Nat) /\ letThrough[t] \in Seq(Nat)
  BY DEF AlertInv, SendAlert
<1>2. /\ recentAlerts' = [recentAlerts EXCEPT ![k] = IF IsDuplicate(k) THEN @ ELSE now]
      /\ alertHistory' = [alertHistory EXCEPT ![t] = IF through THEN Append(@, now) ELSE @]
      /\ letThrough' = [letThrough EXCEPT ![t] = IF through THEN Append(@, now) ELSE @]
      /\ dropped' = [dropped EXCEPT ![t] = IF through THEN @ ELSE now]
  BY Zenon DEF SendAlert
<1>3. /\ recentAlerts \in [AlertKeys -> Int] /\ dropped \in [TypesOfAlerts -> Int]
      /\ alertHistory \in [TypesOfAlerts -> Seq(Nat)] /\ letThrough \in [TypesOfAlerts -> Seq(Nat)]
      /\ \A x \in AlertKeys : recentAlerts[x] <= now
      /\ \A x \in TypesOfAlerts : \A i \in DOMAIN letThrough[x] : letThrough[x][i] <= now
  BY DEF AlertInv
<1>4. Never \in Int /\ Never = 0 - DedupWindow - 1
  BY DEF Never
<1>5. CASE through
  <2>1. /\ alertHistory' = [alertHistory EXCEPT ![t] = Append(alertHistory[t], now)]
        /\ letThrough' = [letThrough EXCEPT ![t] = Append(letThrough[t], now)]
        /\ dropped' = dropped /\ recentAlerts' = [recentAlerts EXCEPT ![k] = now]
    BY <1>1, <1>2, <1>3, <1>5
  <2>2. /\ alertHistory'[t] = Append(alertHistory[t], now) /\ letThrough'[t] = Append(letThrough[t], now)
        /\ \A x \in TypesOfAlerts : x # t => alertHistory'[x] = alertHistory[x] /\ letThrough'[x] = letThrough[x]
    BY <1>1, <1>3, <2>1
  <2>3. /\ Append(letThrough[t], now) \in Seq(Nat) /\ Append(alertHistory[t], now) \in Seq(Nat)
        /\ \A i \in DOMAIN Append(letThrough[t], now) :
             Append(letThrough[t], now)[i] = now \/ (i \in DOMAIN letThrough[t] /\ Append(letThrough[t], now)[i] = letThrough[t][i])
        /\ \A i \in DOMAIN letThrough[t] : i \in DOMAIN Append(letThrough[t], now) /\ Append(letThrough[t], now)[i] = letThrough[t][i]
        /\ Len(letThrough[t]) + 1 \in DOMAIN Append(letThrough[t], now)
        /\ Append(letThrough[t], now)[Len(letThrough[t]) + 1] = now
    BY <1>1
  <2>4. alertHistory' \in [TypesOfAlerts -> Seq(Nat)] /\ letThrough' \in [TypesOfAlerts -> Seq(Nat)]
    BY <1>3, <2>1, <2>3
  <2>5. recentAlerts' \in [AlertKeys -> Int] /\ dropped' \in [TypesOfAlerts -> Int]
        /\ \A x \in AlertKeys : recentAlerts'[x] <= now
    BY <1>1, <1>3, <2>1
  <2>6. \A x \in TypesOfAlerts : \A i \in DOMAIN letThrough'[x] : letThrough'[x][i] <= now
    <3> TAKE x \in TypesOfAlerts
    <3> TAKE i \in DOMAIN letThrough'[x]
    <3>1. CASE x = t
      <4>1. letThrough'[x] = Append(letThrough[t], now)
        BY <2>2, <3>1
      <4>2. i \in DOMAIN Append(letThrough[t], now)
        BY <4>1
      <4>3. CASE Append(letThrough[t], now)[i] = now
        BY <1>1, <4>1, <4>3
      <4>4. CASE i \in DOMAIN letThrough[t] /\ Append(letThrough[t], now)[i] = letThrough[t][i]
        BY <1>1, <1>3, <4>1, <4>4
      <4> QED BY <2>3, <4>2, <4>3, <4>4
    <3>2. CASE x # t
      BY <1>3, <2>2, <3>2
    <3> QED BY <3>1, <3>2
  <2> DEFINE more(c) == IF now >= c THEN 1 ELSE 0
  <2>7. \A c \in Int :
          /\ Cardinality(AtLeast(alertHistory'[t], c)) = Cardinality(AtLeast(alertHistory[t], c)) + more(c)
          /\ Cardinality(AtLeast(letThrough'[t], c)) = Cardinality(AtLeast(letThrough[t], c)) + more(c)
    BY <1>1, <2>2, AtLeastAppended
  <2>8. Remembered'
    <3> SUFFICES ASSUME NEW x \in TypesOfAlerts, NEW c \in Int, c >= now - Day
                 PROVE  Cardinality(AtLeast(alertHistory'[x], c)) = Cardinality(AtLeast(letThrough'[x], c))
      BY <1>1 DEF Remembered
    <3>1. Cardinality(AtLeast(alertHistory[x], c)) = Cardinality(AtLeast(letThrough[x], c))
      BY DEF AlertInv, Remembered
    <3> HIDE DEF more
    <3> QED BY <2>2, <2>7, <3>1
  <2>9. \A x \in TypesOfAlerts : \A i \in DOMAIN letThrough[x] :
          i \in DOMAIN letThrough'[x] /\ letThrough'[x][i] = letThrough[x][i]
    BY <2>2, <2>3
  <2>10. RecentFollows'
    <3> SUFFICES ASSUME NEW x \in AlertKeys, recentAlerts'[x] # Never
                 PROVE  \E i \in DOMAIN letThrough'[TypeOf[x]] :
                          /\ recentAlerts'[x] - Day <= letThrough'[TypeOf[x]][i]
                          /\ letThrough'[TypeOf[x]][i] <= recentAlerts'[x]
      BY DEF RecentFollows, Never
    <3>1. CASE x = k
      <4>1. recentAlerts'[x] = now
        BY <1>3, <2>1, <3>1
      <4> QED BY <1>1, <2>2, <2>3, <3>1, <4>1
    <3>2. CASE x # k
      <4>1. recentAlerts'[x] = recentAlerts[x] /\ TypeOf[x] \in TypesOfAlerts
        BY <1>3, <2>1, <3>2
      <4>2. PICK i \in DOMAIN letThrough[TypeOf[x]] :
               /\ recentAlerts[x] - Day <= letThrough[TypeOf[x]][i]
               /\ letThrough[TypeOf[x]][i] <= recentAlerts[x]
        BY <4>1 DEF AlertInv, RecentFollows
      <4> QED BY <2>9, <4>1, <4>2
    <3> QED BY <3>1, <3>2
  <2>11. SilenceFollowsAlert'
    <3> SUFFICES ASSUME NEW x \in TypesOfAlerts, dropped[x] # Never
                 PROVE  \E i \in DOMAIN letThrough'[x] :
                          letThrough'[x][i] \in dropped[x] - Day - DedupWindow .. dropped[x]
      BY <2>1 DEF SilenceFollowsAlert, Never
    <3>1. PICK i \in DOMAIN letThrough[x] :
            letThrough[x][i] \in dropped[x] - Day - DedupWindow .. dropped[x]
      BY DEF AlertInv, SilenceFollowsAlert
    <3> QED BY <2>9, <3>1
  <2>12. AlertsWithinLimits'
    <3> SUFFICES ASSUME NEW x \in TypesOfAlerts
                 PROVE  /\ Cardinality(AtLeast(letThrough'[x], now - Hour)) <= MaxPerHour
                        /\ Cardinality(AtLeast(letThrough'[x], now - Day)) <= MaxPerDay
      BY <1>1 DEF AlertsWithinLimits, Since
    <3>1. CASE x # t
      <4>1. /\ Cardinality(AtLeast(letThrough[x], now - Hour)) <= MaxPerHour
            /\ Cardinality(AtLeast(letThrough[x], now - Day)) <= MaxPerDay
        BY DEF AlertInv, AlertsWithinLimits, Since
      <4> QED BY <2>2, <3>1, <4>1
    <3>2. CASE x = t
      <4>1. now - Hour \in Int /\ now - Day \in Int /\ now - Hour >= now - Day /\ now - Day >= now - Day
        BY <1>1
      <4> DEFINE H == Cardinality(AtLeast(alertHistory[t], now - Hour))
                 D == Cardinality(AtLeast(alertHistory[t], now - Day))
      <4>2. H \in Nat /\ D \in Nat
        BY <1>1, <4>1, AtLeastFinite
      <4>3. /\ Cardinality(AtLeast(letThrough[t], now - Hour)) = H
            /\ Cardinality(AtLeast(letThrough[t], now - Day)) = D
        BY <1>1, <4>1 DEF AlertInv, Remembered
      <4>4. ~ (H >= MaxPerHour) /\ ~ (D >= MaxPerDay)
        BY <1>5 DEF IsRateLimited, Since
      <4> HIDE DEF H, D
      <4>5. /\ Cardinality(AtLeast(letThrough'[t], now - Hour)) = H + more(now - Hour)
            /\ Cardinality(AtLeast(letThrough'[t], now - Day)) = D + more(now - Day)
        <5> HIDE DEF more
        <5> QED BY <2>7, <4>1, <4>3
      <4> QED BY <3>2, <4>2, <4>4, <4>5
    <3> QED BY <3>1, <3>2
  <2> QED BY <1>1, <2>4, <2>5, <2>6, <2>8, <2>10, <2>11, <2>12 DEF AlertInv
<1>6. CASE ~through
  <2>1. alertHistory' = alertHistory /\ letThrough' = letThrough /\ dropped' = [dropped EXCEPT ![t] = now]
    BY <1>1, <1>2, <1>3, <1>6
  <2>2. /\ recentAlerts' \in [AlertKeys -> Int] /\ dropped' \in [TypesOfAlerts -> Int]
        /\ \A x \in AlertKeys : recentAlerts'[x] <= now
    BY <1>1, <1>2, <1>3, <2>1
  <2>3. Remembered' /\ AlertsWithinLimits'
    BY <1>1, <2>1 DEF AlertInv, Remembered, AlertsWithinLimits, Since
  <2>4. RecentFollows'
    <3> SUFFICES ASSUME NEW x \in AlertKeys, recentAlerts'[x] # Never
                 PROVE  \E i \in DOMAIN letThrough[TypeOf[x]] :
                          /\ recentAlerts'[x] - Day <= letThrough[TypeOf[x]][i]
                          /\ letThrough[TypeOf[x]][i] <= recentAlerts'[x]
      BY <2>1 DEF RecentFollows, Never
    <3>1. CASE x = k /\ ~IsDuplicate(k)
      <4>1. recentAlerts'[x] = now /\ IsRateLimited(TypeOf[x])
        BY <1>2, <1>3, <1>6, <3>1
      <4> QED BY <1>1, <3>1, <4>1, OverLimit
    <3>2. CASE x # k \/ IsDuplicate(k)
      <4>1. recentAlerts'[x] = recentAlerts[x]
        BY <1>2, <1>3, <3>2
      <4> QED BY <4>1 DEF AlertInv, RecentFollows
    <3> QED BY <3>1, <3>2
  <2>5. \E i \in DOMAIN letThrough[t] : letThrough[t][i] \in now - Day - DedupWindow .. now
    <3>1. CASE IsRateLimited(t)
      <4>1. PICK i \in DOMAIN letThrough[t] : now - Day <= letThrough[t][i] /\ letThrough[t][i] <= now
        BY <1>1, <3>1, OverLimit
      <4>2. letThrough[t][i] \in Nat
        BY <1>1
      <4> QED BY <1>1, <4>1, <4>2
    <3>2. CASE IsDuplicate(k)
      <4>1. recentAlerts[k] \in Int /\ recentAlerts[k] <= now /\ now < recentAlerts[k] + DedupWindow
        BY <1>3, <3>2 DEF IsDuplicate
      <4>2. recentAlerts[k] # Never
        BY <1>1, <1>4, <4>1
      <4>3. PICK i \in DOMAIN letThrough[t] :
               recentAlerts[k] - Day <= letThrough[t][i] /\ letThrough[t][i] <= recentAlerts[k]
        BY <4>2 DEF AlertInv, RecentFollows
      <4>4. letThrough[t][i] \in Nat
        BY <1>1
      <4>5. letThrough[t][i] \in now - Day - DedupWindow .. now
        <5>1. Day \in Nat /\ DedupWindow \in Nat /\ now \in Nat
          BY <1>1
        <5> QED BY <4>1, <4>3, <4>4, <5>1, InSpan
      <4> QED BY <4>5
    <3> QED BY <1>6, <3>1, <3>2
  <2>6. SilenceFollowsAlert'
    <3> SUFFICES ASSUME NEW x \in TypesOfAlerts, dropped'[x] # Never
                 PROVE  \E i \in DOMAIN letThrough[x] :
                          letThrough[x][i] \in dropped'[x] - Day - DedupWindow .. dropped'[x]
      BY <2>1 DEF SilenceFollowsAlert, Never
    <3>1. CASE x = t
      BY <1>1, <1>3, <2>1, <2>5, <3>1
    <3>2. CASE x # t
      <4>1. dropped'[x] = dropped[x]
        BY <1>3, <2>1, <3>2
      <4> QED BY <4>1 DEF AlertInv, SilenceFollowsAlert
    <3> QED BY <3>1, <3>2
  <2> QED BY <1>1, <1>3, <2>1, <2>2, <2>3, <2>4, <2>6 DEF AlertInv
<1> QED BY <1>5, <1>6

LEMMA AlertsStep == AlertInv /\ [AlertNext]_alertVars => AlertInv'
<1> SUFFICES ASSUME AlertInv, [AlertNext]_alertVars PROVE AlertInv'
  OBVIOUS
<1> USE AlertConstants
<1>1. ASSUME NEW k \in AlertKeys, SendAlert(k) PROVE AlertInv'
  BY <1>1, AlertSent
<1>2. CASE CleanupOldAlerts
  <2>1. /\ now \in Nat /\ now' = now /\ recentAlerts' = recentAlerts /\ letThrough' = letThrough
        /\ dropped' = dropped /\ alertHistory \in [TypesOfAlerts -> Seq(Nat)]
    BY <1>2 DEF CleanupOldAlerts, AlertInv
  <2>2. alertHistory' = [t \in TypesOfAlerts |-> Sublist(alertHistory[t], AtLeast(alertHistory[t], now - Day))]
    BY <1>2 DEF CleanupOldAlerts, Since
  <2>3. now - Day \in Int
    BY <2>1
  <2>4. \A t \in TypesOfAlerts :
          /\ alertHistory'[t] \in Seq(Nat)
          /\ \A c \in Int : c >= now - Day =>
               Cardinality(AtLeast(alertHistory'[t], c)) = Cardinality(AtLeast(alertHistory[t], c))
    <3> TAKE t \in TypesOfAlerts
    <3>1. alertHistory'[t] = Sublist(alertHistory[t], AtLeast(alertHistory[t], now - Day))
          /\ alertHistory[t] \in Seq(Nat)
      BY <2>1, <2>2
    <3>2. ASSUME NEW c \in Int, c >= now - Day
          PROVE  Cardinality(AtLeast(alertHistory'[t], c)) = Cardinality(AtLeast(alertHistory[t], c))
      BY <2>3, <3>1, <3>2, CleanedUp
    <3>3. alertHistory'[t] \in Seq(Nat)
      BY <2>3, <3>1, CleanedUp
    <3> QED BY <3>2, <3>3
  <2>5. alertHistory' \in [TypesOfAlerts -> Seq(Nat)]
    BY <2>2, <2>4
  <2>6. Remembered'
    BY <2>1, <2>4 DEF AlertInv, Remembered
  <2>7. RecentFollows' /\ AlertsWithinLimits' /\ SilenceFollowsAlert'
    BY <2>1 DEF AlertInv, RecentFollows, AlertsWithinLimits, SilenceFollowsAlert, Since, Never
  <2> QED BY <2>1, <2>5, <2>6, <2>7 DEF AlertInv
<1>3. CASE AlertTick
  <2>1. /\ now \in Nat /\ now' = now + 1 /\ recentAlerts' = recentAlerts /\ letThrough' = letThrough
        /\ dropped' = dropped /\ alertHistory' = alertHistory
        /\ recentAlerts \in [AlertKeys -> Int] /\ letThrough \in [TypesOfAlerts -> Seq(Nat)]
    BY <1>3 DEF AlertTick, AlertInv
  <2>2. Remembered' /\ RecentFollows' /\ SilenceFollowsAlert'
    BY <2>1 DEF AlertInv, Remembered, RecentFollows, SilenceFollowsAlert, Never
  <2>3. AlertsWithinLimits'
    <3> SUFFICES ASSUME NEW t \in TypesOfAlerts
                 PROVE  /\ Cardinality(AtLeast(letThrough[t], now + 1 - Hour)) <= MaxPerHour
                        /\ Cardinality(AtLeast(letThrough[t], now + 1 - Day)) <= MaxPerDay
      BY <2>1 DEF AlertsWithinLimits, Since
    <3>1. /\ now - Hour \in Int /\ now - Day \in Int /\ now + 1 - Hour \in Int /\ now + 1 - Day \in Int
          /\ now - Hour <= now + 1 - Hour /\ now - Day <= now + 1 - Day /\ letThrough[t] \in Seq(Nat)
      BY <2>1
    <3>2. /\ Cardinality(AtLeast(letThrough[t], now - Hour)) <= MaxPerHour
          /\ Cardinality(AtLeast(letThrough[t], now - Day)) <= MaxPerDay
      BY DEF AlertInv, AlertsWithinLimits, Since
    <3>3. /\ Cardinality(AtLeast(letThrough[t], now + 1 - Hour)) <= Cardinality(AtLeast(letThrough[t], now - Hour))
          /\ Cardinality(AtLeast(letThrough[t], now + 1 - Day)) <= Cardinality(AtLeast(letThrough[t], now - Day))
      BY <3>1, AtLeastShrinks
    <3>4. /\ Cardinality(AtLeast(letThrough[t], now + 1 - Hour)) \in Nat
          /\ Cardinality(AtLeast(letThrough[t], now + 1 - Day)) \in Nat
          /\ Cardinality(AtLeast(letThrough[t], now - Hour)) \in Nat
          /\ Cardinality(AtLeast(letThrough[t], now - Day)) \in Nat
      BY <3>1, AtLeastFinite
    <3> QED BY <3>2, <3>3, <3>4
  <2>4. \A k \in AlertKeys : recentAlerts[k] <= now + 1
    BY <2>1 DEF AlertInv
  <2>5. \A t \in TypesOfAlerts : \A i \in DOMAIN letThrough[t] : letThrough[t][i] <= now + 1
    <3> SUFFICES ASSUME NEW t \in TypesOfAlerts, NEW i \in DOMAIN letThrough[t]
                 PROVE  letThrough[t][i] <= now + 1
      OBVIOUS
    <3>1. letThrough[t] \in Seq(Nat) /\ letThrough[t][i] <= now
      BY <2>1 DEF AlertInv
    <3>2. letThrough[t][i] \in Nat
      BY <3>1
    <3> QED BY <2>1, <3>1, <3>2
  <2> QED BY <2>1, <2>2, <2>3, <2>4, <2>5 DEF AlertInv
<1>4. CASE UNCHANGED alertVars
  BY <1>4 DEF alertVars, AlertInv, Remembered, RecentFollows, AlertsWithinLimits, SilenceFollowsAlert, Since
<1> QED BY <1>1, <1>2, <1>3, <1>4 DEF AlertNext

-----------------------------------------------------------------------------
(* Largest and least.                                                      *)

\* What the maximum of some places, or times, is.
LEMMA MaxIs ==
  ASSUME NEW S \in SUBSET Int, NEW x \in S, \A y \in S : y <= x
  PROVE  Max(S) = x
<1>1. Max(S) \in S /\ \A y \in S : Max(S) >= y
  BY DEF Max
<1>2. Max(S) >= x /\ Max(S) <= x /\ Max(S) \in Int /\ x \in Int
  BY <1>1
<1> QED BY <1>2

LEMMA MinOfTwo ==
  ASSUME NEW a \in Nat, NEW b \in Nat
  PROVE  Min({a, b}) = IF b > a THEN a ELSE b
<1>1. \E x \in {a, b} : \A y \in {a, b} : x <= y
  OBVIOUS
<1>2. Min({a, b}) \in {a, b} /\ \A y \in {a, b} : Min({a, b}) <= y
  BY <1>1 DEF Min
<1> QED BY <1>2

-----------------------------------------------------------------------------
(* What a pool's metrics say of a set of trades.                           *)

Newer(T, st, t) == {e \in T : InWindow(st[e], t)}

\* A list has each of its entries once, and they are X.
ListsOnce(list, X) ==
  /\ list \in Seq(Events)
  /\ \A i, j \in DOMAIN list : list[i] = list[j] => i = j
  /\ \A i \in DOMAIN list : list[i] \in X
  /\ \A e \in X : \E i \in DOMAIN list : list[i] = e

LEMMA SizesAre == \A e \in Events : Sizes[e] = EventOf[e].size /\ Sizes[e] \in Nat
BY EventConstants DEF Sizes

LEMMA Measured ==
  ASSUME NEW l, NEW X, ListsOnce(l, X)
  PROVE  /\ X \in SUBSET Events /\ IsFiniteSet(X)
         /\ Len(l) = Cardinality(X) /\ SizeOf(l) = SizeSum(X)
<1>1. /\ l \in Seq(Events) /\ X \in SUBSET Events
      /\ \A i, j \in DOMAIN l : l[i] = l[j] => i = j
      /\ \A i \in DOMAIN l : l[i] \in X
      /\ \A e \in X : \E i \in DOMAIN l : l[i] = e
  BY DEF ListsOnce
<1>2. Len(l) \in Nat /\ DOMAIN l = 1..Len(l)
  BY <1>1
<1>3. IsFiniteSet(DOMAIN l) /\ Cardinality(DOMAIN l) = Len(l)
  <2> DEFINE n == Len(l)
  <2>0. n \in Nat
    BY <1>2
  <2>1. IsFiniteSet(1..n) /\ Cardinality(1..n) = IF 1 > n THEN 0 ELSE n - 1 + 1
    <3> HIDE DEF n
    <3> QED BY <2>0, FS_Interval
  <2>2. (IF 1 > n THEN 0 ELSE n - 1 + 1) = n
    <3> HIDE DEF n
    <3> QED BY <2>0
  <2> QED BY <1>2, <2>1, <2>2
<1> DEFINE D == DOMAIN l
           g == [i \in D |-> l[i]]
           f == [i \in D |-> Sizes[l[i]]]
<1>4. g \in [D -> X]
  BY <1>1
<1>5. \A i, j \in D : g[i] = g[j] => i = j
  BY <1>1
<1>6. \A e \in X : \E i \in D : g[i] = e
  BY <1>1
<1>7. \A i \in D : f[i] \in Nat /\ Sizes[g[i]] = f[i]
  BY <1>1, SizesAre
<1> HIDE DEF g, f, D
<1>8. g \in Bijection(D, X)
  BY <1>4, <1>5, <1>6 DEF Bijection, Injection, Surjection, IsInjective
<1>9. IsFiniteSet(X) /\ Cardinality(X) = Cardinality(D)
  BY <1>3, <1>8, FS_Bijection DEF ExistsBijection, D
<1>10. SumOf(Sizes, X) = SumOf(f, D)
  BY <1>3, <1>4, <1>5, <1>6, <1>7, SumMoved DEF D
<1> QED BY <1>1, <1>3, <1>9, <1>10 DEF SizeOf, SizeSum, D, f

LEMMA RecentIs ==
  ASSUME NEW list \in Seq(Events), \A i, j \in DOMAIN list : list[i] = list[j] => i = j,
         NEW T, \A i \in DOMAIN list : list[i] \in T,
         NEW st, NEW t, \A e \in Newer(T, st, t) : \E i \in DOMAIN list : list[i] = e,
         NEW at, \A i \in DOMAIN list : i \in at <=> InWindow(st[list[i]], t),
         NEW r, r = Sublist(list, at)
  PROVE  ListsOnce(r, Newer(T, st, t))
<1>1. /\ r \in Seq(Events)
      /\ \A i, j \in DOMAIN r : r[i] = r[j] => i = j
      /\ \A i \in DOMAIN r : \E k \in DOMAIN list : k \in at /\ r[i] = list[k]
      /\ \A k \in DOMAIN list : k \in at => \E i \in DOMAIN r : r[i] = list[k]
  BY SublistOnce
<1>2. ASSUME NEW i \in DOMAIN r PROVE r[i] \in Newer(T, st, t)
  <2>1. PICK k \in DOMAIN list : k \in at /\ r[i] = list[k]
    BY <1>1
  <2>2. InWindow(st[list[k]], t) /\ list[k] \in T
    BY <2>1
  <2> QED BY <2>1, <2>2 DEF Newer
<1>3. ASSUME NEW e \in Newer(T, st, t) PROVE \E i \in DOMAIN r : r[i] = e
  <2>1. PICK k \in DOMAIN list : list[k] = e
    OBVIOUS
  <2>2. k \in at
    BY <2>1 DEF Newer
  <2> QED BY <1>1, <2>1, <2>2
<1> QED BY <1>1, <1>2, <1>3 DEF ListsOnce

LEMMA OneTradeMore ==
  ASSUME NEW T \in SUBSET Events, IsFiniteSet(T), NEW e \in Events, e \notin T
  PROVE  SizeSum(T \union {e}) = SizeSum(T) + EventOf[e].size
<1> DEFINE U == T \union {e}
<1>1. U \in SUBSET Events /\ IsFiniteSet(U) /\ e \in U /\ U \ {e} = T
  BY FS_AddElement
<1>2. \A x \in U : Sizes[x] \in Nat
  BY <1>1, SizesAre
<1> HIDE DEF U
<1>3. SumOf(Sizes, U) = SumOf(Sizes, U \ {e}) + Sizes[e]
  BY <1>1, <1>2, SumSplit
<1> QED BY <1>1, <1>3, SizesAre DEF SizeSum, U

\* What is kept of a pool fits its trades, at the time ref of its last one and at t.
PoolSound(T, st, tot, day, ref, list, t) ==
  /\ T \in SUBSET Events /\ IsFiniteSet(T) /\ st \in [Events -> Nat]
  /\ t \in Nat /\ ref \in Nat /\ ref <= t
  /\ tot.buys + tot.sells = Cardinality(T) /\ tot.volume = SizeSum(T)
  /\ day.trades = Cardinality(Newer(T, st, ref)) /\ day.volume = SizeSum(Newer(T, st, ref))
  /\ list \in Seq(Events)
  /\ \A i, j \in DOMAIN list : list[i] = list[j] => i = j
  /\ \A i \in DOMAIN list : list[i] \in T
  /\ \A e \in Newer(T, st, t) : \E i \in DOMAIN list : list[i] = e

LEMMA NewerShrinks ==
  ASSUME NEW T, NEW st \in [Events -> Nat], T \in SUBSET Events, NEW t \in Nat, NEW u \in Nat, t <= u
  PROVE  Newer(T, st, u) \subseteq Newer(T, st, t)
BY EventConstants DEF Newer, InWindow

\* Time passes, the clean-up runs, another event is stamped: nothing is lost.
LEMMA PoolRests ==
  ASSUME NEW T, NEW st, NEW tot, NEW day, NEW ref, NEW list, NEW t,
         PoolSound(T, st, tot, day, ref, list, t),
         NEW st2 \in [Events -> Nat], \A e \in T : st2[e] = st[e],
         NEW tot2, tot2.buys = tot.buys, tot2.sells = tot.sells, tot2.volume = tot.volume,
         NEW u \in Nat, t <= u
  PROVE  PoolSound(T, st2, tot2, day, ref, list, u)
<1>1. /\ T \in SUBSET Events /\ IsFiniteSet(T) /\ st \in [Events -> Nat]
      /\ t \in Nat /\ ref \in Nat /\ ref <= t
      /\ tot.buys + tot.sells = Cardinality(T) /\ tot.volume = SizeSum(T)
      /\ day.trades = Cardinality(Newer(T, st, ref)) /\ day.volume = SizeSum(Newer(T, st, ref))
      /\ list \in Seq(Events)
      /\ \A i, j \in DOMAIN list : list[i] = list[j] => i = j
      /\ \A i \in DOMAIN list : list[i] \in T
      /\ \A e \in Newer(T, st, t) : \E i \in DOMAIN list : list[i] = e
  BY DEF PoolSound
<1>2. Newer(T, st2, ref) = Newer(T, st, ref) /\ Newer(T, st2, u) = Newer(T, st, u)
  BY DEF Newer
<1>3. Newer(T, st, u) \subseteq Newer(T, st, t)
  BY <1>1, NewerShrinks
<1>4. \A e \in Newer(T, st2, u) : \E i \in DOMAIN list : list[i] = e
  BY <1>1, <1>2, <1>3
<1>5. ref <= u
  BY <1>1
<1> QED BY <1>1, <1>2, <1>4, <1>5 DEF PoolSound

LEMMA PoolCleans ==
  ASSUME NEW T, NEW st, NEW tot, NEW day, NEW ref, NEW list, NEW t,
         PoolSound(T, st, tot, day, ref, list, t),
         NEW at, \A i \in DOMAIN list : i \in at <=> InWindow(st[list[i]], t),
         NEW r, r = Sublist(list, at)
  PROVE  PoolSound(T, st, tot, day, ref, r, t)
<1>1. /\ list \in Seq(Events)
      /\ \A i, j \in DOMAIN list : list[i] = list[j] => i = j
      /\ \A i \in DOMAIN list : list[i] \in T
      /\ \A e \in Newer(T, st, t) : \E i \in DOMAIN list : list[i] = e
  BY DEF PoolSound
<1>2. ListsOnce(r, Newer(T, st, t))
  BY <1>1, RecentIs
<1>3. /\ r \in Seq(Events)
      /\ \A i, j \in DOMAIN r : r[i] = r[j] => i = j
      /\ \A i \in DOMAIN r : r[i] \in T
      /\ \A e \in Newer(T, st, t) : \E i \in DOMAIN r : r[i] = e
  BY <1>2 DEF ListsOnce, Newer
<1> QED BY <1>3 DEF PoolSound

LEMMA PoolRecords ==
  ASSUME NEW T, NEW st, NEW tot, NEW day, NEW ref, NEW list, NEW t,
         PoolSound(T, st, tot, day, ref, list, t),
         NEW e \in Events, e \notin T,
         NEW new, new = Append(list, e),
         NEW at, \A i \in DOMAIN new : i \in at <=> InWindow(st[new[i]], t),
         NEW recent, recent = Sublist(new, at),
         NEW tot2, tot.buys \in Nat, tot.sells \in Nat,
         tot2.buys + tot2.sells = tot.buys + tot.sells + 1, tot2.volume = tot.volume + EventOf[e].size,
         NEW day2, day2.trades = Len(recent), day2.volume = SizeOf(recent)
  PROVE  PoolSound(T \union {e}, st, tot2, day2, t, new, t)
<1>1. /\ T \in SUBSET Events /\ IsFiniteSet(T) /\ st \in [Events -> Nat] /\ t \in Nat
      /\ tot.buys + tot.sells = Cardinality(T) /\ tot.volume = SizeSum(T)
      /\ list \in Seq(Events)
      /\ \A i, j \in DOMAIN list : list[i] = list[j] => i = j
      /\ \A i \in DOMAIN list : list[i] \in T
      /\ \A x \in Newer(T, st, t) : \E i \in DOMAIN list : list[i] = x
  BY DEF PoolSound
<1> DEFINE U == T \union {e}
<1>2. U \in SUBSET Events /\ IsFiniteSet(U) /\ Cardinality(U) = Cardinality(T) + 1
  BY <1>1, FS_AddElement
<1>3. SizeSum(U) = SizeSum(T) + EventOf[e].size
  BY <1>1, OneTradeMore
<1>4. /\ Len(list) \in Nat /\ new \in Seq(Events) /\ DOMAIN list = 1..Len(list)
      /\ DOMAIN new = 1..(Len(list) + 1) /\ new[Len(list) + 1] = e
      /\ \A i \in 1..Len(list) : new[i] = list[i] /\ i \in 1..(Len(list) + 1)
      /\ \A i \in 1..(Len(list) + 1) : i = Len(list) + 1 \/ i \in 1..Len(list)
      /\ Len(list) + 1 \in 1..(Len(list) + 1)
  BY <1>1
<1>5. \A i, j \in DOMAIN new : new[i] = new[j] => i = j
  BY <1>1, <1>4
<1>6. \A i \in DOMAIN new : new[i] \in U
  BY <1>1, <1>4
<1>7. \A x \in Newer(U, st, t) : \E i \in DOMAIN new : new[i] = x
  <2> SUFFICES ASSUME NEW x \in Newer(U, st, t) PROVE \E i \in DOMAIN new : new[i] = x
    OBVIOUS
  <2>1. CASE x = e
    BY <1>4, <2>1
  <2>2. CASE x \in Newer(T, st, t)
    <3>1. PICK i \in DOMAIN list : list[i] = x
      BY <1>1, <2>2
    <3> QED BY <1>4, <3>1
  <2> QED BY <2>1, <2>2 DEF Newer
<1>8. ListsOnce(recent, Newer(U, st, t))
  <2> HIDE DEF U
  <2> QED BY <1>4, <1>5, <1>6, <1>7, RecentIs
<1>9. day2.trades = Cardinality(Newer(U, st, t)) /\ day2.volume = SizeSum(Newer(U, st, t))
  <2> HIDE DEF U
  <2> QED BY <1>8, Measured
<1>10. tot2.buys + tot2.sells = Cardinality(U) /\ tot2.volume = SizeSum(U)
  <2> HIDE DEF U
  <2> QED BY <1>1, <1>2, <1>3
<1> HIDE DEF U
<1>11. PoolSound(U, st, tot2, day2, t, new, t)
  <2>1. t <= t
    BY <1>1
  <2> QED BY <1>1, <1>2, <1>4, <1>5, <1>6, <1>7, <1>9, <1>10, <2>1, Zenon DEF PoolSound
<1> QED BY <1>11 DEF U

\* last is the time of the trade of T recorded last, which is the newest or a large one.
LastTimeIs(T, rec, st, last) ==
  T # {} => \E k \in DOMAIN rec :
    /\ rec[k] \in T /\ \A j \in DOMAIN rec : rec[j] \in T => j <= k
    /\ last = st[rec[k]]
    /\ (\A e \in T : st[e] <= last) \/ EventOf[rec[k]].size > LargeTrade

LEMMA LastRests ==
  ASSUME NEW T \in SUBSET Events, NEW rec \in Seq(Events), NEW st, NEW last, LastTimeIs(T, rec, st, last),
         NEW st2, \A x \in T : st2[x] = st[x]
  PROVE  LastTimeIs(T, rec, st2, last)
<1> SUFFICES ASSUME T # {} PROVE LastTimeIs(T, rec, st2, last)
  BY DEF LastTimeIs
<1>1. PICK k \in DOMAIN rec :
        /\ rec[k] \in T /\ \A j \in DOMAIN rec : rec[j] \in T => j <= k
        /\ last = st[rec[k]]
        /\ (\A e \in T : st[e] <= last) \/ EventOf[rec[k]].size > LargeTrade
  BY DEF LastTimeIs
<1>2. last = st2[rec[k]]
  BY <1>1
<1>3. (\A e \in T : st[e] <= last) => \A e \in T : st2[e] <= last
  OBVIOUS
<1> QED BY <1>1, <1>2, <1>3 DEF LastTimeIs

LEMMA LastSkips ==
  ASSUME NEW T \in SUBSET Events, NEW rec \in Seq(Events), NEW st, NEW last, LastTimeIs(T, rec, st, last),
         NEW e \in Events, e \notin T
  PROVE  LastTimeIs(T, Append(rec, e), st, last)
<1> SUFFICES ASSUME T # {} PROVE LastTimeIs(T, Append(rec, e), st, last)
  BY DEF LastTimeIs
<1>1. PICK k \in DOMAIN rec :
        /\ rec[k] \in T /\ \A j \in DOMAIN rec : rec[j] \in T => j <= k
        /\ last = st[rec[k]]
        /\ (\A x \in T : st[x] <= last) \/ EventOf[rec[k]].size > LargeTrade
  BY DEF LastTimeIs
<1> DEFINE new == Append(rec, e)
<1>2. /\ \A i \in DOMAIN rec : new[i] = rec[i] /\ i \in DOMAIN new
      /\ \A i \in DOMAIN new : i \in DOMAIN rec \/ new[i] = e
  OBVIOUS
<1> HIDE DEF new
<1>3. \A j \in DOMAIN new : new[j] \in T => j <= k
  BY <1>1, <1>2
<1>4. LastTimeIs(T, new, st, last)
  BY <1>1, <1>2, <1>3 DEF LastTimeIs
<1> QED BY <1>4 DEF new

LEMMA LastRecords ==
  ASSUME NEW T \in SUBSET Events, NEW rec \in Seq(Events), NEW st \in [Events -> Nat],
         NEW t \in Nat, \A x \in T : st[x] <= t,
         NEW e \in Events, st[e] = t \/ EventOf[e].size > LargeTrade
  PROVE  LastTimeIs(T \union {e}, Append(rec, e), st, st[e])
<1> DEFINE new == Append(rec, e)
           k == Len(rec) + 1
<1>1. k \in DOMAIN new /\ new[k] = e /\ \A j \in DOMAIN new : j <= k
  OBVIOUS
<1>2. st[e] = t => \A x \in T \union {e} : st[x] <= st[e]
  OBVIOUS
<1> HIDE DEF new, k
<1>3. LastTimeIs(T \union {e}, new, st, st[e])
  BY <1>1, <1>2 DEF LastTimeIs
<1> QED BY <1>3 DEF new

-----------------------------------------------------------------------------
(* The watch of trades and alerts.                                         *)

Traders == {EventOf[e].trader : e \in Events}

Metrics == [buys : Nat, sells : Nat, volume : Nat, deposits : Nat,
            traders : SUBSET Traders, first : Nat, last : Nat]

\* The length of a list that keeps n entries at most, of a set.
KeptOf(list, S, n) ==
  list \in Seq(Events) /\ Len(list) = IF Cardinality(S) > n THEN n ELSE Cardinality(S)

SeenAlerts == {e \in Seen : NeedsAlert(e)}
SeenCritical == {e \in Seen : IsCritical(e)}

TradeTypes ==
  /\ time \in Nat /\ time <= MaxWatchTime
  /\ stampOf \in [Events -> Nat] /\ \A e \in Seen : stampOf[e] <= time
  /\ recentTrades \in [TradedPools -> Seq(Events)] /\ totals \in [TradedPools -> Metrics]
  /\ lastDay = [p \in TradedPools |-> lastDay[p]] /\ refreshed \in [TradedPools -> Nat]

TradeLists ==
  /\ IsFiniteSet(Seen) /\ alerting \subseteq Seen /\ \A e \in alerting : NeedsAlert(e)
  /\ ListsOnce(recorded, Seen \ alerting)
  /\ events \in Seq(Events) /\ NewestOf(events, recorded, EventsKept)
  /\ KeptOf(alerts, SeenAlerts, AlertsKept)
  /\ KeptOf(errors, SeenCritical, ErrorsKept)

PoolsSound ==
  \A p \in TradedPools :
    PoolSound(TradesIn(p), stampOf, totals[p], lastDay[p], refreshed[p], recentTrades[p], time)

LastTimes ==
  \A p \in TradedPools : LastTimeIs(TradesIn(p), recorded, stampOf, totals[p].last)

TradeInv == TradeTypes /\ TradeLists /\ PoolsSound /\ LastTimes

LEMMA TradeStarts == TradeWatchInit => TradeInv
<1> SUFFICES ASSUME TradeWatchInit PROVE TradeInv
  OBVIOUS
<1>1. MaxWatchTime \in Nat /\ Unstamped \in Nat /\ EventsKept \in Nat /\ AlertsKept \in Nat /\ ErrorsKept \in Nat
  BY EventConstants DEF Unstamped
<1>2. /\ time = 0 /\ stampOf = [e \in Events |-> Unstamped] /\ alerting = {}
      /\ recentTrades = [p \in TradedPools |-> <<>>] /\ totals = [p \in TradedPools |-> NoTotals]
      /\ lastDay = [p \in TradedPools |-> [volume |-> 0, trades |-> 0, traders |-> {}]]
      /\ alerts = <<>> /\ errors = <<>> /\ events = <<>>
      /\ recorded = <<>> /\ refreshed = [p \in TradedPools |-> 0]
  BY DEF TradeWatchInit
<1>3. Seen = {} /\ Seen \ alerting = {}
  BY <1>2 DEF Seen
<1>4. /\ IsFiniteSet(Seen) /\ SeenAlerts = {} /\ SeenCritical = {} /\ Cardinality({}) = 0
      /\ \A p : TradesIn(p) = {}
  BY <1>3, FS_EmptySet DEF SeenAlerts, SeenCritical, TradesIn
<1>5. NoTotals \in Metrics /\ NoTotals.buys + NoTotals.sells = 0 /\ NoTotals.volume = 0
  BY <1>1 DEF NoTotals, Metrics
<1>6. <<>> \in Seq(Events) /\ Len(<<>>) = 0 /\ DOMAIN <<>> = {}
  OBVIOUS
<1>7. TradeTypes
  <2>1. stampOf \in [Events -> Nat] /\ \A e \in Seen : stampOf[e] <= time
    BY <1>1, <1>2, <1>3
  <2>2. totals \in [TradedPools -> Metrics]
    BY <1>2, <1>5
  <2>3. lastDay = [p \in TradedPools |-> lastDay[p]]
    BY <1>2
  <2>4. recentTrades \in [TradedPools -> Seq(Events)] /\ refreshed \in [TradedPools -> Nat]
    BY <1>2, <1>6
  <2> QED BY <1>1, <1>2, <2>1, <2>2, <2>3, <2>4 DEF TradeTypes
<1>8. TradeLists
  <2>1. ListsOnce(<<>>, {})
    BY <1>6 DEF ListsOnce
  <2>2. NewestOf(<<>>, <<>>, EventsKept)
    BY <1>1, <1>6 DEF NewestOf
  <2>3. KeptOf(<<>>, {}, AlertsKept) /\ KeptOf(<<>>, {}, ErrorsKept)
    BY <1>1, <1>4, <1>6 DEF KeptOf
  <2> QED BY <1>2, <1>3, <1>4, <1>6, <2>1, <2>2, <2>3 DEF TradeLists
<1>9. PoolsSound
  <2> SUFFICES ASSUME NEW p \in TradedPools
               PROVE  PoolSound(TradesIn(p), stampOf, totals[p], lastDay[p], refreshed[p], recentTrades[p], time)
    BY DEF PoolsSound
  <2>1. /\ totals[p] = NoTotals /\ lastDay[p].trades = 0 /\ lastDay[p].volume = 0
        /\ refreshed[p] = 0 /\ recentTrades[p] = <<>>
    BY <1>2
  <2>2. SizeSum({}) = 0 /\ \A st, t : Newer({}, st, t) = {}
    BY SumZero DEF SizeSum, Newer
  <2>3. stampOf \in [Events -> Nat] /\ {} \in SUBSET Events /\ IsFiniteSet({})
    BY <1>1, <1>2, FS_EmptySet
  <2>4. /\ totals[p].buys + totals[p].sells = Cardinality({}) /\ totals[p].volume = SizeSum({})
        /\ lastDay[p].trades = Cardinality(Newer({}, stampOf, refreshed[p]))
        /\ lastDay[p].volume = SizeSum(Newer({}, stampOf, refreshed[p]))
    BY <1>4, <1>5, <2>1, <2>2
  <2>5. time \in Nat /\ refreshed[p] \in Nat /\ refreshed[p] <= time
    BY <1>2, <2>1
  <2>6. /\ recentTrades[p] \in Seq(Events)
        /\ \A i, j \in DOMAIN recentTrades[p] : recentTrades[p][i] = recentTrades[p][j] => i = j
        /\ \A i \in DOMAIN recentTrades[p] : recentTrades[p][i] \in {}
        /\ \A e \in Newer({}, stampOf, time) :
             \E i \in DOMAIN recentTrades[p] : recentTrades[p][i] = e
    BY <1>6, <2>1, <2>2
  <2>7. PoolSound({}, stampOf, totals[p], lastDay[p], refreshed[p], recentTrades[p], time)
    BY <2>3, <2>4, <2>5, <2>6, Zenon DEF PoolSound
  <2> QED BY <1>4, <2>7
<1>10. LastTimes
  BY <1>4 DEF LastTimes, LastTimeIs
<1> QED BY <1>7, <1>8, <1>9, <1>10 DEF TradeInv

LEMMA TradesGive == TradeInv => TradesCounted /\ LateOnlyIfLarge /\ ListsSound
<1> SUFFICES ASSUME TradeInv PROVE TradesCounted /\ LateOnlyIfLarge /\ ListsSound
  OBVIOUS
<1>1. TradesCounted
  <2> SUFFICES ASSUME NEW p \in TradedPools
               PROVE  LET then == {e \in TradesIn(p) : InWindow(stampOf[e], refreshed[p])}
                          still == {e \in TradesIn(p) : InWindow(stampOf[e], time)}
                      IN /\ totals[p].buys + totals[p].sells = Cardinality(TradesIn(p))
                         /\ totals[p].volume = SizeSum(TradesIn(p))
                         /\ lastDay[p].trades = Cardinality(then) /\ lastDay[p].volume = SizeSum(then)
                         /\ still \subseteq then /\ still \subseteq ToSet(recentTrades[p])
    BY DEF TradesCounted
  <2> DEFINE T == TradesIn(p)
  <2>1. PoolSound(T, stampOf, totals[p], lastDay[p], refreshed[p], recentTrades[p], time)
    BY DEF TradeInv, PoolsSound
  <2> HIDE DEF T
  <2>2. Newer(T, stampOf, time) \subseteq Newer(T, stampOf, refreshed[p])
    BY <2>1, NewerShrinks DEF PoolSound
  <2>3. Newer(T, stampOf, time) \subseteq ToSet(recentTrades[p])
    BY <2>1 DEF PoolSound, ToSet
  <2>4. /\ totals[p].buys + totals[p].sells = Cardinality(T) /\ totals[p].volume = SizeSum(T)
        /\ lastDay[p].trades = Cardinality(Newer(T, stampOf, refreshed[p]))
        /\ lastDay[p].volume = SizeSum(Newer(T, stampOf, refreshed[p]))
    BY <2>1 DEF PoolSound
  <2> QED BY <2>2, <2>3, <2>4 DEF Newer, T
<1>2. LateOnlyIfLarge
  <2> SUFFICES ASSUME NEW p \in TradedPools, TradesIn(p) # {}
               PROVE  \/ totals[p].last = Max({stampOf[e] : e \in TradesIn(p)})
                      \/ LET places == {i \in DOMAIN recorded : recorded[i] \in TradesIn(p)}
                         IN EventOf[recorded[Max(places)]].size > LargeTrade
    BY DEF LateOnlyIfLarge
  <2> DEFINE T == TradesIn(p)
             places == {i \in DOMAIN recorded : recorded[i] \in T}
             times == {stampOf[e] : e \in T}
  <2>1. PICK k \in DOMAIN recorded :
          /\ recorded[k] \in T /\ \A j \in DOMAIN recorded : recorded[j] \in T => j <= k
          /\ totals[p].last = stampOf[recorded[k]]
          /\ (\A e \in T : stampOf[e] <= totals[p].last) \/ EventOf[recorded[k]].size > LargeTrade
    BY DEF TradeInv, LastTimes, LastTimeIs
  <2>2. CASE EventOf[recorded[k]].size > LargeTrade
    <3>1. recorded \in Seq(Events)
      BY DEF TradeInv, TradeLists, ListsOnce
    <3>2. places \in SUBSET Int /\ k \in places /\ \A y \in places : y <= k
      BY <2>1, <3>1
    <3> HIDE DEF places
    <3>3. Max(places) = k
      BY <3>2, MaxIs
    <3> QED BY <2>2, <3>3 DEF places
  <2>3. CASE \A e \in T : stampOf[e] <= totals[p].last
    <3>1. T \in SUBSET Events /\ stampOf \in [Events -> Nat]
      BY DEF TradesIn, Seen, TradeInv, TradeTypes
    <3>2. times \in SUBSET Int /\ totals[p].last \in times /\ \A y \in times : y <= totals[p].last
      BY <2>1, <2>3, <3>1
    <3> HIDE DEF times
    <3>3. Max(times) = totals[p].last
      BY <3>2, MaxIs
    <3> QED BY <3>3 DEF times
  <2> QED BY <2>1, <2>2, <2>3
<1>3. ListsSound
  <2>1. /\ IsFiniteSet(Seen) /\ alerting \subseteq Seen /\ ListsOnce(recorded, Seen \ alerting)
        /\ events \in Seq(Events) /\ NewestOf(events, recorded, EventsKept)
        /\ KeptOf(alerts, SeenAlerts, AlertsKept) /\ KeptOf(errors, SeenCritical, ErrorsKept)
    BY DEF TradeInv, TradeLists
  <2>2. events = Suffix(recorded, EventsKept)
    <3>1. recorded \in Seq(Events) /\ EventsKept \in Nat \ {0}
      BY <2>1, EventConstants DEF ListsOnce
    <3> QED BY <2>1, <3>1, NewestIsSubSeq DEF Suffix
  <2>3. Seen = alerting \union ToSet(recorded)
    BY <2>1 DEF ListsOnce, ToSet
  <2>4. /\ Cardinality(SeenAlerts) \in Nat /\ Cardinality(SeenCritical) \in Nat
    <3>1. IsFiniteSet(SeenAlerts) /\ IsFiniteSet(SeenCritical)
      BY <2>1, FS_Subset DEF SeenAlerts, SeenCritical
    <3> QED BY <3>1, FS_CardinalityType
  <2>5. Len(alerts) = Min({AlertsKept, Cardinality(SeenAlerts)})
    <3>1. AlertsKept \in Nat
      BY EventConstants
    <3> QED BY <2>1, <2>4, <3>1, MinOfTwo DEF KeptOf
  <2>6. (Health = "degraded") = (Cardinality(SeenCritical) > ErrorLimit)
    <3>1. ErrorsKept \in Nat /\ ErrorLimit \in Nat /\ ErrorLimit < ErrorsKept
      BY EventConstants
    <3>2. (Len(errors) > ErrorLimit) <=> (Cardinality(SeenCritical) > ErrorLimit)
      BY <2>1, <2>4, <3>1 DEF KeptOf
    <3>3. (Health = "degraded") <=> (Len(errors) > ErrorLimit)
      BY DEF Health
    <3> QED BY <3>2, <3>3
  <2> QED BY <2>2, <2>3, <2>5, <2>6 DEF ListsSound, SeenAlerts, SeenCritical
<1> QED BY <1>1, <1>2, <1>3

\* What RecordEvent does to a pool that e is a trade of, and to the others.
LEMMA RecordedPools ==
  ASSUME TradeInv, NEW e \in Events, e \notin Seen \ alerting, NEW st \in [Events -> Nat],
         \A x \in Seen : st[x] = stampOf[x], st[e] <= time,
         IsTrade(e) => st[e] = time \/ EventOf[e].size > LargeTrade,
         RecordEvent(e, st), NEW p \in TradedPools, NEW T, NEW U, T = TradesIn(p),
         U = IF IsTrade(e) /\ EventOf[e].pool = p THEN T \union {e} ELSE T
  PROVE  /\ recentTrades' \in [TradedPools -> Seq(Events)] /\ totals' \in [TradedPools -> Metrics]
         /\ lastDay' = [q \in TradedPools |-> lastDay'[q]] /\ refreshed' \in [TradedPools -> Nat]
         /\ PoolSound(U, st, totals'[p], lastDay'[p], refreshed'[p], recentTrades'[p], time)
         /\ LastTimeIs(U, recorded', st, totals'[p].last)
<1>1. /\ time \in Nat /\ stampOf \in [Events -> Nat] /\ \A x \in Seen : stampOf[x] <= time
      /\ recentTrades \in [TradedPools -> Seq(Events)] /\ totals \in [TradedPools -> Metrics]
      /\ lastDay = [q \in TradedPools |-> lastDay[q]] /\ refreshed \in [TradedPools -> Nat]
      /\ recorded \in Seq(Events) /\ recorded' = Append(recorded, e)
  BY DEF TradeInv, TradeTypes, TradeLists, ListsOnce, RecordEvent
<1>2. T \in SUBSET Events /\ T \subseteq Seen /\ e \notin T
  BY DEF TradesIn, Seen
<1>3. \A x \in T : st[x] = stampOf[x] /\ st[x] <= time
  BY <1>1, <1>2
<1>4. /\ PoolSound(T, stampOf, totals[p], lastDay[p], refreshed[p], recentTrades[p], time)
      /\ LastTimeIs(T, recorded, stampOf, totals[p].last)
  BY DEF TradeInv, PoolsSound, LastTimes
<1>5. time <= time
  BY <1>1
<1>6. PoolSound(T, st, totals[p], lastDay[p], refreshed[p], recentTrades[p], time)
  <2> DEFINE tot == totals[p]
             day == lastDay[p]
             ref == refreshed[p]
             list == recentTrades[p]
  <2>1. PoolSound(T, stampOf, tot, day, ref, list, time)
    BY <1>4
  <2>2. tot.buys = tot.buys /\ tot.sells = tot.sells /\ tot.volume = tot.volume
    OBVIOUS
  <2>3. \A x \in T : st[x] = stampOf[x]
    BY <1>3
  <2> HIDE DEF tot, day, ref, list
  <2>4. PoolSound(T, st, tot, day, ref, list, time)
    BY <1>1, <1>5, <2>1, <2>2, <2>3, PoolRests
  <2> QED BY <2>4 DEF tot, day, ref, list
<1>7. LastTimeIs(T, recorded, st, totals[p].last)
  BY <1>1, <1>2, <1>3, <1>4, LastRests
<1>8. LastTimeIs(T, Append(recorded, e), st, totals[p].last)
  BY <1>1, <1>2, <1>7, LastSkips
<1>9. EventOf[e].size \in Nat /\ EventOf[e].pool \in TradedPools /\ totals[p] \in Metrics
  BY <1>1, EventConstants DEF TradedPools
<1>10. CASE IsTrade(e)
  <2> DEFINE q == EventOf[e].pool
             trades == Append(recentTrades[q], e)
             at == RecentPlaces(trades, st)
             recent == Recent(trades, st)
             newDay == [volume |-> SizeOf(recent), trades |-> Len(recent), traders |-> TradersOf(recent)]
             b == IF EventOf[e].kind = "buy" THEN 1 ELSE 0
             s == IF EventOf[e].kind = "sell" THEN 1 ELSE 0
             tot == totals[q]
             start == IF tot.first = Unstamped THEN st[e] ELSE tot.first
             new == [tot EXCEPT !.buys = @ + b, !.sells = @ + s, !.volume = @ + EventOf[e].size,
                                !.traders = @ \union {EventOf[e].trader},
                                !.first = start, !.last = st[e]]
  <2>1. RecordTrade(e, st)
    BY <1>10, SMTT(40) DEF RecordEvent, IsTrade
  <2>2. /\ recentTrades' = [recentTrades EXCEPT ![q] = trades]
        /\ totals' = [totals EXCEPT ![q] = new]
        /\ lastDay' = [lastDay EXCEPT ![q] = newDay]
        /\ refreshed' = [refreshed EXCEPT ![q] = time]
    BY <2>1, ZenonT(60) DEF RecordTrade
  <2>3. /\ new \in Metrics /\ new.buys + new.sells = totals[q].buys + totals[q].sells + 1
        /\ new.volume = totals[q].volume + EventOf[e].size /\ new.last = st[e]
        /\ totals[q].buys \in Nat /\ totals[q].sells \in Nat
    <3>1. totals[q] \in Metrics
      BY <1>1, <1>9
    <3>2. b \in Nat /\ s \in Nat /\ b + s = 1
      BY <1>10 DEF IsTrade
    <3>3. /\ tot.buys \in Nat /\ tot.sells \in Nat /\ tot.volume \in Nat /\ tot.deposits \in Nat
          /\ tot.traders \in SUBSET Traders /\ tot.first \in Nat
      BY <3>1 DEF Metrics
    <3>4. st[e] \in Nat /\ start \in Nat /\ tot.traders \union {EventOf[e].trader} \in SUBSET Traders
      BY <3>3 DEF Traders
    <3>5. tot \in Metrics
      BY <3>1
    <3> HIDE DEF b, s, start, tot
    <3>6. /\ new.buys = tot.buys + b /\ new.sells = tot.sells + s /\ new.last = st[e]
          /\ new.volume = tot.volume + EventOf[e].size
      BY <3>5 DEF Metrics
    <3>7. new \in Metrics
      <4> DEFINE bought == tot.buys + b
                 sold == tot.sells + s
                 volume == tot.volume + EventOf[e].size
                 traders == tot.traders \union {EventOf[e].trader}
                 at0 == st[e]
      <4>1. bought \in Nat /\ sold \in Nat /\ volume \in Nat /\ traders \in SUBSET Traders
            /\ at0 \in Nat /\ start \in Nat
        BY <1>9, <3>2, <3>3, <3>4
      <4>2. new = [tot EXCEPT !.buys = bought, !.sells = sold, !.volume = volume, !.traders = traders,
                              !.first = start, !.last = at0]
        OBVIOUS
      <4> HIDE DEF bought, sold, volume, traders, at0, new
      <4> QED BY <3>5, <4>1, <4>2 DEF Metrics
    <3> HIDE DEF new
    <3> QED BY <3>2, <3>3, <3>6, <3>7 DEF tot
  <2>4. trades \in Seq(Events) /\ \A i \in DOMAIN trades : i \in at <=> InWindow(st[trades[i]], time)
    <3>1. recentTrades[q] \in Seq(Events)
      BY <1>1, <1>9
    <3>2. trades \in Seq(Events)
      <4> HIDE DEF q
      <4> QED BY <3>1
    <3> HIDE DEF trades
    <3> QED BY <3>2 DEF RecentPlaces
  <2> HIDE DEF new, b, s, start
  <2>5. /\ recentTrades' \in [TradedPools -> Seq(Events)] /\ totals' \in [TradedPools -> Metrics]
        /\ refreshed' \in [TradedPools -> Nat]
    BY <1>1, <1>9, <2>2, <2>3, <2>4
  <2> HIDE DEF newDay
  <2>6. lastDay' = [x \in TradedPools |-> lastDay'[x]]
    BY <1>1, <2>2
  <2>7. CASE q = p
    <3>1. U = T \union {e}
      BY <1>10, <2>7
    <3>2. totals'[p] = new /\ lastDay'[p] = newDay /\ refreshed'[p] = time /\ recentTrades'[p] = Append(recentTrades[p], e)
      BY <1>1, <1>9, <2>2, <2>7
    <3>3. newDay.trades = Len(recent) /\ newDay.volume = SizeOf(recent)
      BY DEF newDay
    <3>4. recent = Sublist(trades, at)
      BY DEF Recent
    <3>5. trades = Append(recentTrades[p], e)
      BY <2>7
    <3> HIDE DEF recent, at, trades
    <3>6. PoolSound(T \union {e}, st, new, newDay, time, trades, time)
      <4>1. /\ new.buys + new.sells = totals[p].buys + totals[p].sells + 1
            /\ new.volume = totals[p].volume + EventOf[e].size
            /\ totals[p].buys \in Nat /\ totals[p].sells \in Nat
        BY <2>3, <2>7
      <4> HIDE DEF q
      <4> QED BY <1>2, <1>6, <2>4, <3>3, <3>4, <3>5, <4>1, PoolRecords
    <3>7. LastTimeIs(T \union {e}, recorded', st, new.last)
      <4>1. LastTimeIs(T \union {e}, Append(recorded, e), st, st[e])
        BY <1>1, <1>2, <1>3, <1>10, LastRecords
      <4> QED BY <1>1, <2>3, <4>1
    <3> QED BY <2>5, <2>6, <3>1, <3>2, <3>5, <3>6, <3>7
  <2>8. CASE q # p
    <3>1. U = T
      BY <2>8
    <3>2. totals'[p] = totals[p] /\ lastDay'[p] = lastDay[p] /\ refreshed'[p] = refreshed[p]
          /\ recentTrades'[p] = recentTrades[p]
      BY <1>1, <1>9, <2>2, <2>8
    <3> QED BY <1>1, <1>6, <1>8, <2>5, <2>6, <3>1, <3>2
  <2> QED BY <2>7, <2>8
<1>11. CASE ~IsTrade(e)
  <2>1. U = T
    BY <1>11
  <2>2. UNCHANGED <<recentTrades, lastDay, refreshed>>
    BY <1>11 DEF RecordEvent, metricsOfPools
  <2>3. totals' \in [TradedPools -> Metrics] /\ totals'[p].buys = totals[p].buys
        /\ totals'[p].sells = totals[p].sells /\ totals'[p].volume = totals[p].volume
        /\ totals'[p].last = totals[p].last
    <3>1. CASE EventOf[e].kind = "fees"
      <4> DEFINE q == EventOf[e].pool
                 new == [totals[q] EXCEPT !.deposits = @ + EventOf[e].size]
      <4>1. totals' = [totals EXCEPT ![q] = new]
        BY <1>11, <3>1 DEF RecordEvent
      <4>2. totals[q] \in Metrics
        BY <1>1, <1>9
      <4>3. new \in Metrics /\ new.buys = totals[q].buys /\ new.sells = totals[q].sells
            /\ new.volume = totals[q].volume /\ new.last = totals[q].last
        BY <1>9, <4>2 DEF Metrics
      <4> HIDE DEF new
      <4> QED BY <1>1, <1>9, <4>1, <4>3
    <3>2. CASE EventOf[e].kind # "fees"
      <4>1. UNCHANGED totals
        BY <1>11, <3>2 DEF RecordEvent, metricsOfPools
      <4> QED BY <1>1, <4>1
    <3> QED BY <3>1, <3>2
  <2>4. PoolSound(T, st, totals'[p], lastDay[p], refreshed[p], recentTrades[p], time)
    <3> DEFINE tot2 == totals'[p]
    <3>1. tot2.buys = totals[p].buys /\ tot2.sells = totals[p].sells /\ tot2.volume = totals[p].volume
      BY <2>3
    <3> HIDE DEF tot2
    <3>2. PoolSound(T, st, tot2, lastDay[p], refreshed[p], recentTrades[p], time)
      BY <1>1, <1>5, <1>6, <3>1, PoolRests
    <3> QED BY <3>2 DEF tot2
  <2> QED BY <1>1, <1>8, <2>1, <2>2, <2>3, <2>4
<1> QED BY <1>10, <1>11

LEMMA KeptOneMore ==
  ASSUME NEW list, NEW S, IsFiniteSet(S), NEW n \in Nat \ {0}, KeptOf(list, S, n),
         NEW e \in Events, e \notin S
  PROVE  KeptOf(Kept(list, e, n), S \union {e}, n)
<1>1. Cardinality(S) \in Nat /\ Cardinality(S \union {e}) = Cardinality(S) + 1
  BY FS_CardinalityType, FS_AddElement
<1> DEFINE a == Append(list, e)
<1>2. /\ list \in Seq(Events) /\ Len(list) = IF Cardinality(S) > n THEN n ELSE Cardinality(S)
      /\ a \in Seq(Events) /\ Len(a) = Len(list) + 1 /\ Len(list) \in Nat
  BY DEF KeptOf
<1>3. a # <<>> /\ Tail(a) \in Seq(Events) /\ Len(Tail(a)) = Len(list)
  <2> HIDE DEF a
  <2>1. a # <<>>
    BY <1>2
  <2> QED BY <1>2, <2>1, HeadTailProperties
<1> HIDE DEF a
<1>4. Kept(list, e, n) = IF Len(list) < n THEN a ELSE Tail(a)
  BY DEF Kept, a
<1> QED BY <1>1, <1>2, <1>3, <1>4 DEF KeptOf

\* The rest of what RecordEvent does, once the trades of all pools are known.
LEMMA RecordedKeeps ==
  ASSUME TradeInv, NEW e \in Events, e \notin Seen \ alerting, NEW st \in [Events -> Nat],
         \A x \in Seen : st[x] = stampOf[x], st[e] <= time, stampOf' = st, time' = time,
         IsTrade(e) => st[e] = time \/ EventOf[e].size > LargeTrade,
         RecordEvent(e, st), Seen' = Seen \union {e}, alerting' = alerting \ {e},
         KeptOf(alerts', SeenAlerts', AlertsKept), KeptOf(errors', SeenCritical', ErrorsKept)
  PROVE  TradeInv'
<1>1. /\ time \in Nat /\ time <= MaxWatchTime /\ \A x \in Seen : stampOf[x] <= time
      /\ IsFiniteSet(Seen) /\ alerting \subseteq Seen /\ \A x \in alerting : NeedsAlert(x)
      /\ ListsOnce(recorded, Seen \ alerting)
      /\ events \in Seq(Events) /\ NewestOf(events, recorded, EventsKept)
  BY DEF TradeInv, TradeTypes, TradeLists
<1>2. (Seen \ alerting)' = (Seen \ alerting) \union {e}
  OBVIOUS
<1>3. recorded' = Append(recorded, e) /\ events' = Kept(events, e, EventsKept)
  BY DEF RecordEvent
<1>4. ListsOnce(recorded', (Seen \ alerting)')
  <2> DEFINE X == Seen \ alerting
             r == recorded
             new == Append(r, e)
  <2>1. /\ r \in Seq(Events) /\ \A i, j \in DOMAIN r : r[i] = r[j] => i = j
        /\ \A i \in DOMAIN r : r[i] \in X /\ \A x \in X : \E k \in DOMAIN r : r[k] = x
        /\ e \notin X
    BY <1>1 DEF ListsOnce
  <2>2. \A x \in X : \E k \in DOMAIN r : r[k] = x
    BY <1>1 DEF ListsOnce
  <2> HIDE DEF X, r
  <2>3. /\ Len(r) \in Nat /\ new \in Seq(Events) /\ DOMAIN r = 1..Len(r)
        /\ DOMAIN new = 1..(Len(r) + 1) /\ new[Len(r) + 1] = e
        /\ \A i \in 1..Len(r) : new[i] = r[i] /\ i \in 1..(Len(r) + 1)
        /\ \A i \in 1..(Len(r) + 1) : i = Len(r) + 1 \/ i \in 1..Len(r)
        /\ Len(r) + 1 \in 1..(Len(r) + 1)
    BY <2>1
  <2> HIDE DEF new
  <2>4. \A i, j \in DOMAIN new : new[i] = new[j] => i = j
    BY <2>1, <2>3
  <2>5. \A i \in DOMAIN new : new[i] \in X \union {e}
    BY <2>1, <2>3
  <2>6. \A x \in X \union {e} : \E i \in DOMAIN new : new[i] = x
    <3> TAKE x \in X \union {e}
    <3>1. CASE x = e
      BY <2>3, <3>1
    <3>2. CASE x \in X
      <4>1. PICK i \in DOMAIN r : r[i] = x
        BY <2>2, <3>2
      <4> QED BY <2>3, <4>1
    <3> QED BY <3>1, <3>2
  <2>7. ListsOnce(new, X \union {e})
    BY <2>3, <2>4, <2>5, <2>6 DEF ListsOnce
  <2> QED BY <1>2, <1>3, <2>7 DEF X, r, new
<1>5. events' \in Seq(Events) /\ NewestOf(events', recorded', EventsKept)
  <2>1. EventsKept \in Nat \ {0} /\ recorded \in Seq(Events)
    BY <1>1, EventConstants DEF ListsOnce
  <2>2. LET t == IF Len(events) < EventsKept THEN Append(events, e) ELSE Tail(Append(events, e))
        IN  t \in Seq(Events) /\ NewestOf(t, Append(recorded, e), EventsKept)
    BY <1>1, <2>1, NewestPushed
  <2> QED BY <1>3, <2>2 DEF Kept
<1>6. IsFiniteSet(Seen') /\ (alerting \subseteq Seen)' /\ \A x \in alerting' : NeedsAlert(x)
  BY <1>1, FS_AddElement
<1>7. TradeLists'
  BY <1>4, <1>5, <1>6 DEF TradeLists
<1>8. stampOf' \in [Events -> Nat] /\ \A x \in Seen' : stampOf'[x] <= time'
  BY <1>1
<1>9. ASSUME NEW p \in TradedPools
      PROVE  TradesIn(p)' = IF IsTrade(e) /\ EventOf[e].pool = p THEN TradesIn(p) \union {e} ELSE TradesIn(p)
  BY <1>2 DEF TradesIn
<1>10. ASSUME NEW p \in TradedPools
       PROVE  /\ recentTrades' \in [TradedPools -> Seq(Events)] /\ totals' \in [TradedPools -> Metrics]
              /\ lastDay' = [q \in TradedPools |-> lastDay'[q]] /\ refreshed' \in [TradedPools -> Nat]
              /\ PoolSound(TradesIn(p)', st, totals'[p], lastDay'[p], refreshed'[p], recentTrades'[p], time)
              /\ LastTimeIs(TradesIn(p)', recorded', st, totals'[p].last)
  BY <1>9, RecordedPools, Zenon
<1>11. EventOf[e].pool \in TradedPools
  BY DEF TradedPools
<1>12. TradeTypes'
  BY <1>1, <1>8, <1>10, <1>11 DEF TradeTypes
<1>13. PoolsSound'
  BY <1>10 DEF PoolsSound
<1>14. LastTimes'
  BY <1>10 DEF LastTimes
<1> QED BY <1>7, <1>12, <1>13, <1>14 DEF TradeInv

\* What changes neither trades nor records keeps the pools' figures.
LEMMA PoolsRest ==
  ASSUME TradeInv, UNCHANGED <<recentTrades, totals, lastDay, refreshed, recorded>>,
         stampOf' \in [Events -> Nat], \A x \in Seen : stampOf'[x] = stampOf[x],
         time' \in Nat, time <= time', (Seen \ alerting)' = Seen \ alerting
  PROVE  PoolsSound' /\ LastTimes'
<1>1. ASSUME NEW p \in TradedPools
      PROVE  /\ PoolSound(TradesIn(p)', stampOf', totals[p], lastDay[p], refreshed[p], recentTrades[p], time')
             /\ LastTimeIs(TradesIn(p)', recorded, stampOf', totals[p].last)
  <2> DEFINE T == TradesIn(p)
             tot == totals[p]
             day == lastDay[p]
             ref == refreshed[p]
             list == recentTrades[p]
             last == totals[p].last
  <2>1. TradesIn(p)' = T
    BY DEF TradesIn
  <2>2. T \in SUBSET Events /\ \A x \in T : stampOf'[x] = stampOf[x]
    BY DEF TradesIn, Seen
  <2>3. PoolSound(T, stampOf, tot, day, ref, list, time) /\ LastTimeIs(T, recorded, stampOf, last)
    BY DEF TradeInv, PoolsSound, LastTimes
  <2>4. tot.buys = tot.buys /\ tot.sells = tot.sells /\ tot.volume = tot.volume
    OBVIOUS
  <2>5. recorded \in Seq(Events)
    BY DEF TradeInv, TradeLists, ListsOnce
  <2> HIDE DEF T, tot, day, ref, list, last
  <2>6. PoolSound(T, stampOf', tot, day, ref, list, time')
    BY <2>2, <2>3, <2>4, PoolRests
  <2>7. LastTimeIs(T, recorded, stampOf', last)
    BY <2>2, <2>3, <2>5, LastRests
  <2> QED BY <2>1, <2>6, <2>7 DEF tot, day, ref, list, last
<1> QED BY <1>1 DEF PoolsSound, LastTimes

LEMMA HandleKeeps ==
  ASSUME TradeInv, NEW e \in Events, HandleEvent(e)
  PROVE  TradeInv'
<1>1. /\ stampOf[e] = Unstamped /\ stampOf' = [stampOf EXCEPT ![e] = time] /\ time' = time
  BY DEF HandleEvent
<1>2. /\ time \in Nat /\ time <= MaxWatchTime /\ stampOf \in [Events -> Nat]
      /\ \A x \in Seen : stampOf[x] <= time
      /\ IsFiniteSet(Seen) /\ alerting \subseteq Seen
      /\ KeptOf(alerts, SeenAlerts, AlertsKept) /\ KeptOf(errors, SeenCritical, ErrorsKept)
  BY DEF TradeInv, TradeTypes, TradeLists
<1>3. time # Unstamped
  BY <1>2, EventConstants DEF Unstamped
<1>4. e \notin Seen /\ e \notin alerting /\ Seen' = Seen \union {e}
  BY <1>1, <1>2, <1>3 DEF Seen
<1>5. /\ stampOf' \in [Events -> Nat] /\ stampOf'[e] = time
      /\ \A x \in Seen : stampOf'[x] = stampOf[x]
  BY <1>1, <1>2, <1>4 DEF Seen
<1>6. IsFiniteSet(SeenAlerts) /\ IsFiniteSet(SeenCritical) /\ e \notin SeenAlerts /\ e \notin SeenCritical
  BY <1>2, <1>4, FS_Subset DEF SeenAlerts, SeenCritical
<1>7. IsCritical(e) => NeedsAlert(e)
  BY DEF IsCritical, NeedsAlert, IsTrade
<1>8. /\ SeenAlerts' = IF NeedsAlert(e) THEN SeenAlerts \union {e} ELSE SeenAlerts
      /\ SeenCritical' = IF IsCritical(e) THEN SeenCritical \union {e} ELSE SeenCritical
  BY <1>4 DEF SeenAlerts, SeenCritical
<1>9. AlertsKept \in Nat \ {0} /\ ErrorsKept \in Nat \ {0}
  BY EventConstants
<1>10. CASE NeedsAlert(e)
  <2>1. /\ alerting' = alerting \union {e} /\ alerts' = Kept(alerts, e, AlertsKept)
        /\ errors' = (IF IsCritical(e) THEN Kept(errors, e, ErrorsKept) ELSE errors)
        /\ UNCHANGED <<recentTrades, totals, lastDay, refreshed, events, recorded>>
    BY <1>10 DEF HandleEvent, metricsOfPools
  <2>2. KeptOf(alerts', SeenAlerts', AlertsKept)
    BY <1>2, <1>6, <1>8, <1>9, <1>10, <2>1, KeptOneMore
  <2>3. KeptOf(errors', SeenCritical', ErrorsKept)
    <3>1. CASE IsCritical(e)
      BY <1>2, <1>6, <1>8, <1>9, <2>1, <3>1, KeptOneMore
    <3>2. CASE ~IsCritical(e)
      BY <1>2, <1>8, <2>1, <3>2
    <3> QED BY <3>1, <3>2
  <2>4. (Seen \ alerting)' = Seen \ alerting
    BY <1>4, <2>1
  <2>5. PoolsSound' /\ LastTimes'
    <3>1. time' \in Nat /\ time <= time'
      BY <1>1, <1>2
    <3> QED BY <1>5, <2>1, <2>4, <3>1, PoolsRest
  <2>6. IsFiniteSet(Seen') /\ alerting' \subseteq Seen' /\ \A x \in alerting' : NeedsAlert(x)
    <3>1. \A x \in alerting : NeedsAlert(x)
      BY DEF TradeInv, TradeLists
    <3> QED BY <1>2, <1>4, <1>10, <2>1, <3>1, FS_AddElement
  <2>7. TradeLists'
    BY <2>1, <2>2, <2>3, <2>4, <2>6 DEF TradeInv, TradeLists
  <2>8. TradeTypes'
    <3>1. \A x \in Seen' : stampOf'[x] <= time
      BY <1>2, <1>4, <1>5
    <3> QED BY <1>1, <1>5, <2>1, <3>1 DEF TradeInv, TradeTypes
  <2> QED BY <2>5, <2>7, <2>8 DEF TradeInv
<1>11. CASE ~NeedsAlert(e)
  <2>1. /\ RecordEvent(e, stampOf') /\ alerting' = alerting /\ alerts' = alerts /\ errors' = errors
    BY <1>11 DEF HandleEvent
  <2>2. KeptOf(alerts', SeenAlerts', AlertsKept) /\ KeptOf(errors', SeenCritical', ErrorsKept)
    BY <1>2, <1>7, <1>8, <1>11, <2>1
  <2>3. alerting' = alerting \ {e}
    BY <1>4, <2>1
  <2>4. stampOf'[e] <= time
    BY <1>2, <1>5
  <2> DEFINE st == stampOf'
  <2>5. st \in [Events -> Nat] /\ (\A x \in Seen : st[x] = stampOf[x]) /\ st[e] = time /\ stampOf' = st
        /\ RecordEvent(e, st) /\ st[e] <= time
    BY <1>5, <2>1, <2>4
  <2> HIDE DEF st
  <2> QED BY <1>1, <1>4, <2>2, <2>3, <2>5, RecordedKeeps
<1> QED BY <1>10, <1>11

LEMMA DoneKeeps ==
  ASSUME TradeInv, NEW e \in Events, AlertDone(e)
  PROVE  TradeInv'
<1>1. /\ e \in alerting /\ alerting' = alerting \ {e} /\ RecordEvent(e, stampOf)
      /\ time' = time /\ stampOf' = stampOf /\ alerts' = alerts /\ errors' = errors
  BY DEF AlertDone
<1>2. /\ time \in Nat /\ stampOf \in [Events -> Nat] /\ \A x \in Seen : stampOf[x] <= time
      /\ alerting \subseteq Seen /\ \A x \in alerting : NeedsAlert(x)
      /\ KeptOf(alerts, SeenAlerts, AlertsKept) /\ KeptOf(errors, SeenCritical, ErrorsKept)
  BY DEF TradeInv, TradeTypes, TradeLists
<1>3. Seen' = Seen /\ e \in Seen
  BY <1>1, <1>2 DEF Seen
<1>4. SeenAlerts' = SeenAlerts /\ SeenCritical' = SeenCritical
  BY <1>3 DEF SeenAlerts, SeenCritical
<1>5. IsTrade(e) => EventOf[e].size > LargeTrade
  BY <1>1, <1>2 DEF NeedsAlert
<1>6. /\ Seen' = Seen \union {e} /\ e \notin Seen \ alerting /\ stampOf[e] <= time
      /\ KeptOf(alerts', SeenAlerts', AlertsKept) /\ KeptOf(errors', SeenCritical', ErrorsKept)
      /\ \A x \in Seen : stampOf[x] = stampOf[x]
  BY <1>1, <1>2, <1>3, <1>4
<1> QED BY <1>1, <1>2, <1>5, <1>6, RecordedKeeps

LEMMA TradeSteps == TradeInv /\ [TradeWatchNext]_tradeVars => TradeInv'
<1> SUFFICES ASSUME TradeInv, [TradeWatchNext]_tradeVars PROVE TradeInv'
  OBVIOUS
<1>1. ASSUME NEW e \in Events, HandleEvent(e) \/ AlertDone(e) PROVE TradeInv'
  BY <1>1, HandleKeeps, DoneKeeps
<1>2. CASE CleanupOldTrades
  <2>1. /\ recentTrades' = [p \in TradedPools |-> Recent(recentTrades[p], stampOf)]
        /\ UNCHANGED <<time, stampOf, alerting, totals, lastDay, refreshed, alerts, errors, events, recorded>>
    BY <1>2 DEF CleanupOldTrades
  <2>2. Seen' = Seen /\ SeenAlerts' = SeenAlerts /\ SeenCritical' = SeenCritical
    BY <2>1 DEF Seen, SeenAlerts, SeenCritical
  <2>3. \A p : TradesIn(p)' = TradesIn(p)
    BY <2>1, <2>2 DEF TradesIn
  <2>4. ASSUME NEW p \in TradedPools
        PROVE  /\ recentTrades'[p] \in Seq(Events)
               /\ PoolSound(TradesIn(p), stampOf, totals[p], lastDay[p], refreshed[p], recentTrades'[p], time)
    <3> DEFINE T == TradesIn(p)
               tot == totals[p]
               day == lastDay[p]
               ref == refreshed[p]
               list == recentTrades[p]
               at == RecentPlaces(list, stampOf)
               left == Recent(list, stampOf)
    <3>1. PoolSound(T, stampOf, tot, day, ref, list, time)
      BY DEF TradeInv, PoolsSound
    <3>2. (\A i \in DOMAIN list : i \in at <=> InWindow(stampOf[list[i]], time)) /\ left = Sublist(list, at)
      BY DEF RecentPlaces, Recent
    <3>3. recentTrades'[p] = left
      BY <2>1
    <3> HIDE DEF T, tot, day, ref, list, at, left
    <3>4. PoolSound(T, stampOf, tot, day, ref, left, time)
      BY <3>1, <3>2, PoolCleans
    <3>5. left \in Seq(Events)
      BY <3>4 DEF PoolSound
    <3> QED BY <3>3, <3>4, <3>5 DEF T, tot, day, ref
  <2>5. PoolsSound'
    BY <2>1, <2>3, <2>4 DEF PoolsSound
  <2>6. LastTimes'
    BY <2>1, <2>3 DEF TradeInv, LastTimes
  <2>7. recentTrades' \in [TradedPools -> Seq(Events)]
    BY <2>1, <2>4
  <2>8. TradeTypes'
    BY <2>1, <2>2, <2>7 DEF TradeInv, TradeTypes
  <2>9. TradeLists'
    BY <2>1, <2>2 DEF TradeInv, TradeLists
  <2> QED BY <2>5, <2>6, <2>8, <2>9 DEF TradeInv
<1>3. CASE StopAllListening \/ WatchTick \/ UNCHANGED tradeVars
  <2>1. /\ UNCHANGED <<recentTrades, totals, lastDay, refreshed, stampOf, alerting, alerts, errors, events, recorded>>
        /\ time' = time \/ (time < MaxWatchTime /\ time' = time + 1)
    BY <1>3 DEF StopAllListening, WatchTick, tradeVars, metricsOfPools
  <2>2. /\ time \in Nat /\ time <= MaxWatchTime /\ MaxWatchTime \in Nat
        /\ stampOf \in [Events -> Nat] /\ \A x \in Seen : stampOf[x] <= time
    BY EventConstants DEF TradeInv, TradeTypes
  <2>3. time' \in Nat /\ time <= time' /\ time' <= MaxWatchTime
    BY <2>1, <2>2
  <2>4. Seen' = Seen /\ SeenAlerts' = SeenAlerts /\ SeenCritical' = SeenCritical
        /\ (Seen \ alerting)' = Seen \ alerting
    BY <2>1 DEF Seen, SeenAlerts, SeenCritical
  <2>5. PoolsSound' /\ LastTimes'
    <3>1. stampOf' \in [Events -> Nat] /\ \A x \in Seen : stampOf'[x] = stampOf[x]
      BY <2>1, <2>2
    <3> QED BY <2>1, <2>3, <2>4, <3>1, PoolsRest
  <2>6. \A x \in Seen' : stampOf'[x] <= time'
    <3>1. \A x \in Seen : stampOf[x] \in Nat
      BY <2>2 DEF Seen
    <3> QED BY <2>1, <2>2, <2>3, <2>4, <3>1
  <2>7. TradeTypes'
    BY <2>1, <2>3, <2>6 DEF TradeInv, TradeTypes
  <2>8. TradeLists'
    BY <2>1, <2>4 DEF TradeInv, TradeLists
  <2> QED BY <2>5, <2>7, <2>8 DEF TradeInv
<1> QED BY <1>1, <1>2, <1>3 DEF TradeWatchNext

-----------------------------------------------------------------------------
(* Costs and runways.                                                      *)

AmountsOf(invoices) == [i \in DOMAIN invoices |-> invoices[i].amount]
LengthsOf(invoices) == [i \in DOMAIN invoices |-> invoices[i].end - invoices[i].start]

LEMMA TotalsAre == \A l : /\ TotalCost(l) = SumOf(AmountsOf(l), DOMAIN l)
                          /\ TotalDays(l) = SumOf(LengthsOf(l), DOMAIN l)
BY DEF TotalCost, TotalDays, AmountsOf, LengthsOf

LEMMA PlacesOf ==
  ASSUME NEW l \in Seq(Invoices)
  PROVE  /\ IsFiniteSet(DOMAIN l)
         /\ \A i \in DOMAIN l : /\ l[i] \in Invoices
                                /\ AmountsOf(l)[i] = l[i].amount /\ AmountsOf(l)[i] \in Nat
                                /\ LengthsOf(l)[i] = l[i].end - l[i].start /\ LengthsOf(l)[i] \in Nat
<1>1. Len(l) \in Nat /\ DOMAIN l = 1..Len(l) /\ \A i \in DOMAIN l : l[i] \in Invoices
  OBVIOUS
<1>2. IsFiniteSet(DOMAIN l)
  BY <1>1, FS_Interval
<1>3. \A x \in Invoices : x.amount \in Nat /\ x.end - x.start \in Nat
  <2> TAKE x \in Invoices
  <2>1. x \in [amount : Nat, start : Nat, end : Nat] /\ x.start <= x.end
    BY CostConstants
  <2> QED BY <2>1
<1> QED BY <1>1, <1>2, <1>3 DEF AmountsOf, LengthsOf

LEMMA TotalType ==
  ASSUME NEW l \in Seq(Invoices)
  PROVE  TotalCost(l) \in Nat /\ TotalDays(l) \in Nat
BY PlacesOf, TotalsAre, SumType

\* Invoices that are some of others cost no more.
LEMMA PartCosts ==
  ASSUME NEW l \in Seq(Invoices), NEW s \in Seq(Invoices), NEW at, Taken(l, s, at)
  PROVE  TotalCost(l) <= TotalCost(s)
<1>1. PICK g : /\ \A i \in DOMAIN l : l[i] = s[g[i]] /\ g[i] \in DOMAIN s /\ g[i] \in at
               /\ \A i, j \in DOMAIN l : g[i] = g[j] => i = j
               /\ \A k \in at \intersect DOMAIN s : \E i \in DOMAIN l : g[i] = k
  BY DEF Taken
<1> DEFINE A == DOMAIN l
           B == at \intersect DOMAIN s
           D == DOMAIN s
           h == [i \in A |-> g[i]]
           f == AmountsOf(l)
           e == AmountsOf(s)
<1>2. h \in [A -> B]
  BY <1>1
<1>3. /\ \A x, y \in A : h[x] = h[y] => x = y
      /\ \A y \in B : \E x \in A : h[x] = y
  BY <1>1
<1>4. \A x \in A : f[x] \in Nat /\ e[h[x]] = f[x]
  <2> TAKE x \in A
  <2>1. h[x] = g[x] /\ g[x] \in D /\ l[x] = s[g[x]]
    BY <1>1
  <2>2. f[x] \in Nat /\ f[x] = l[x].amount /\ e[g[x]] = s[g[x]].amount
    BY <2>1, PlacesOf
  <2> QED BY <2>1, <2>2
<1>5. IsFiniteSet(A) /\ IsFiniteSet(D) /\ B \subseteq D /\ \A x \in D : e[x] \in Nat
  BY PlacesOf
<1> HIDE DEF A, B, D, h, f, e
<1>6. SumOf(e, B) = SumOf(f, A)
  BY <1>2, <1>3, <1>4, <1>5, SumMoved, SMTT(30)
<1>7. SumOf(e, B) <= SumOf(e, D)
  <2>1. IsFiniteSet(B) /\ IsFiniteSet(D \ B) /\ B \union (D \ B) = D /\ B \intersect (D \ B) = {}
    BY <1>5, FS_Subset
  <2>2. SumOf(e, B) \in Nat /\ SumOf(e, D \ B) \in Nat
    <3>1. (\A x \in B : e[x] \in Nat) /\ (\A x \in D \ B : e[x] \in Nat)
      BY <1>5
    <3> QED BY <2>1, <3>1, SumType
  <2> DEFINE rest == D \ B
  <2>3. SumOf(e, B \union rest) = SumOf(e, B) + SumOf(e, rest)
    <3>1. \A x \in B \union (D \ B) : e[x] \in Nat
      BY <1>5
    <3> QED BY <2>1, <3>1, SumUnion
  <2>4. B \union rest = D /\ SumOf(e, rest) \in Nat
    BY <2>1, <2>2
  <2> HIDE DEF rest
  <2>5. SumOf(e, D) = SumOf(e, B) + SumOf(e, rest)
    BY <2>3, <2>4
  <2> QED BY <2>2, <2>4, <2>5
<1> QED BY <1>6, <1>7, TotalsAre DEF A, D, f, e

LEMMA NewestTaken ==
  ASSUME NEW S, NEW s \in Seq(S), NEW r \in Seq(S), NEW n \in Nat \ {0}, NewestOf(s, r, n)
  PROVE  Taken(s, r, ((Len(r) - Len(s)) + 1)..Len(r))
<1> DEFINE k == Len(s)
           m == Len(r)
           at == ((m - k) + 1)..m
           g == [i \in 1..k |-> (m - k) + i]
<1>1. /\ k \in Nat /\ m \in Nat /\ k <= m /\ DOMAIN s = 1..k /\ DOMAIN r = 1..m
      /\ \A i \in 1..k : s[i] = r[(m - k) + i]
  <2>1. k \in Nat /\ m \in Nat /\ DOMAIN s = 1..k /\ DOMAIN r = 1..m
    OBVIOUS
  <2>2. k = (IF m > n THEN n ELSE m) /\ \A i \in 1..k : s[i] = r[m - k + i]
    BY DEF NewestOf
  <2> HIDE DEF k, m
  <2> QED BY <2>1, <2>2
<1>2. \A i \in 1..k : g[i] = (m - k) + i
  OBVIOUS
<1>3. ASSUME NEW i \in 1..k
      PROVE  s[i] = r[g[i]] /\ g[i] \in 1..m /\ g[i] \in at
  <2> HIDE DEF k, m, g
  <2> QED BY <1>1, <1>2
<1>4. \A i, j \in 1..k : g[i] = g[j] => i = j
  <2> HIDE DEF k, m, g
  <2> QED BY <1>1, <1>2
<1>5. ASSUME NEW x \in at PROVE \E i \in 1..k : g[i] = x
  <2> HIDE DEF k, m, g
  <2>1. x - (m - k) \in 1..k /\ (m - k) + (x - (m - k)) = x
    BY <1>1
  <2> QED BY <1>2, <2>1
<1> HIDE DEF g, at
<1>6. Taken(s, r, at)
  <2>1. /\ \A i \in DOMAIN s : s[i] = r[g[i]] /\ g[i] \in DOMAIN r /\ g[i] \in at
        /\ \A i, j \in DOMAIN s : g[i] = g[j] => i = j
        /\ \A x \in at \intersect DOMAIN r : \E i \in DOMAIN s : g[i] = x
    BY <1>1, <1>3, <1>4, <1>5, Zenon
  <2> QED BY <2>1 DEF Taken
<1> QED BY <1>6 DEF at

\* One more invoice costs its amount more.
LEMMA CostAppended ==
  ASSUME NEW l \in Seq(Invoices), NEW x \in Invoices
  PROVE  TotalCost(l) <= TotalCost(Append(l, x))
<1> DEFINE new == Append(l, x)
           g == [i \in DOMAIN l |-> i]
<1>1. new \in Seq(Invoices) /\ \A i \in DOMAIN l : new[i] = l[i] /\ i \in DOMAIN new
  OBVIOUS
<1> HIDE DEF new
<1>2. /\ \A i \in DOMAIN l : l[i] = new[g[i]] /\ g[i] \in DOMAIN new /\ g[i] \in DOMAIN l
      /\ \A i, j \in DOMAIN l : g[i] = g[j] => i = j
      /\ \A k \in DOMAIN l \intersect DOMAIN new : \E i \in DOMAIN l : g[i] = k
  BY <1>1
<1>3. Taken(l, new, DOMAIN l)
  <2> HIDE DEF g
  <2> QED BY <1>2 DEF Taken
<1> QED BY <1>1, <1>3, PartCosts DEF new

\* Invoices that do not overlap have as many days as there are in all of them.
LEMMA DaysAddUp ==
  ASSUME NEW l \in Seq(Invoices), ~Overlap(l)
  PROVE  Cardinality(UNION {DaysOf(l[i]) : i \in DOMAIN l}) = TotalDays(l)
<1> DEFINE D == DOMAIN l
           f == LengthsOf(l)
           days == UNION {DaysOf(l[i]) : i \in DOMAIN l}
           h == [p \in Units(f, D) |-> (l[p[1]].start + p[2]) - 1]
<1>1. /\ IsFiniteSet(D) /\ D \in SUBSET Nat
      /\ \A i \in D : l[i] \in Invoices /\ f[i] = l[i].end - l[i].start /\ f[i] \in Nat
  BY PlacesOf
<1>2. \A i \in D : l[i].start \in Nat /\ l[i].end \in Nat
  <2> TAKE i \in D
  <2>1. l[i] \in [amount : Nat, start : Nat, end : Nat]
    BY <1>1, CostConstants
  <2> QED BY <2>1
<1>3. \A p : p \in Units(f, D) <=> \E i \in D : \E u \in 1..f[i] : p = <<i, u>>
  BY DEF Units
<1>4. \A d : d \in days <=> \E i \in D : d \in DaysOf(l[i])
  OBVIOUS
<1>5. \A i \in D : \A d : d \in DaysOf(l[i]) <=> d \in Int /\ l[i].start <= d /\ d < l[i].end
  BY <1>2 DEF DaysOf
<1> HIDE DEF f, days
<1>6. ASSUME NEW i \in D, NEW u \in 1..f[i]
      PROVE  /\ <<i, u>> \in Units(f, D) /\ h[<<i, u>>] = (l[i].start + u) - 1
             /\ h[<<i, u>>] \in DaysOf(l[i])
  <2>1. <<i, u>> \in Units(f, D)
    BY <1>3
  <2>2. h[<<i, u>>] = (l[i].start + u) - 1
    BY <2>1
  <2> HIDE DEF h
  <2>3. (l[i].start + u) - 1 \in Int /\ l[i].start <= (l[i].start + u) - 1 /\ (l[i].start + u) - 1 < l[i].end
    BY <1>1, <1>2
  <2> QED BY <1>5, <2>1, <2>2, <2>3
<1>7. h = [p \in Units(f, D) |-> h[p]]
  OBVIOUS
<1> HIDE DEF h
<1>8. ASSUME NEW p \in Units(f, D) PROVE h[p] \in days
  <2>1. PICK i \in D : \E u \in 1..f[i] : p = <<i, u>>
    BY <1>3
  <2>2. PICK u \in 1..f[i] : p = <<i, u>>
    BY <2>1
  <2> QED BY <1>4, <1>6, <2>2
<1>9. \A i, j \in D : i # j => \A d : ~ (d \in DaysOf(l[i]) /\ d \in DaysOf(l[j]))
  <2> SUFFICES ASSUME NEW i \in D, NEW j \in D, i # j, NEW d, d \in DaysOf(l[i]), d \in DaysOf(l[j])
               PROVE  FALSE
    OBVIOUS
  <2>1. i < j \/ j < i
    BY <1>1
  <2>2. d \in DaysOf(l[i]) \intersect DaysOf(l[j]) /\ d \in DaysOf(l[j]) \intersect DaysOf(l[i])
    OBVIOUS
  <2> QED BY <2>1, <2>2 DEF Overlap
<1>10. ASSUME NEW p \in Units(f, D), NEW q \in Units(f, D), h[p] = h[q] PROVE p = q
  <2>a. PICK i \in D : \E u \in 1..f[i] : p = <<i, u>>
    BY <1>3
  <2>1. PICK u \in 1..f[i] : p = <<i, u>>
    BY <2>a
  <2>b. PICK j \in D : \E v \in 1..f[j] : q = <<j, v>>
    BY <1>3
  <2>2. PICK v \in 1..f[j] : q = <<j, v>>
    BY <2>b
  <2>3. h[p] \in DaysOf(l[i]) /\ h[p] \in DaysOf(l[j])
    BY <1>6, <1>10, <2>1, <2>2
  <2>4. i = j
    BY <1>9, <2>3
  <2>5. (l[i].start + u) - 1 = (l[i].start + v) - 1
    BY <1>6, <1>10, <2>1, <2>2, <2>4
  <2>6. u = v
    BY <1>1, <1>2, <2>4, <2>5
  <2> QED BY <2>1, <2>2, <2>4, <2>6
<1>11. ASSUME NEW d \in days PROVE \E p \in Units(f, D) : h[p] = d
  <2>1. PICK i \in D : d \in DaysOf(l[i])
    BY <1>4
  <2>2. d \in Int /\ l[i].start <= d /\ d < l[i].end
    BY <1>5, <2>1
  <2> DEFINE u == (d - l[i].start) + 1
  <2>3. u \in 1..f[i] /\ (l[i].start + u) - 1 = d
    <3> DEFINE a == l[i].start
               b == l[i].end
               n == f[i]
    <3>1. a \in Nat /\ b \in Nat /\ n = b - a /\ d \in Int /\ a <= d /\ d < b
      BY <1>1, <1>2, <2>2
    <3> HIDE DEF a, b, n
    <3>2. (d - a) + 1 \in 1..n /\ (a + ((d - a) + 1)) - 1 = d
      BY <3>1
    <3> QED BY <3>2 DEF a, b, n
  <2> HIDE DEF u
  <2> QED BY <1>6, <2>3
<1>12. h \in Bijection(Units(f, D), days)
  <2>1. h \in [Units(f, D) -> days]
    BY <1>7, <1>8
  <2> QED BY <2>1, <1>10, <1>11 DEF Bijection, Injection, Surjection, IsInjective
<1>13. IsFiniteSet(Units(f, D))
  BY <1>1, SumType
<1>14. Cardinality(days) = Cardinality(Units(f, D))
  BY <1>12, <1>13, FS_Bijection DEF ExistsBijection
<1> QED BY <1>14, TotalsAre DEF SumOf, f, days

\* What was computed of a model's reserve is true of the costs it was computed from.
RunwayFits(r) ==
  /\ r.balance \in Nat /\ r.costs \in Seq(Invoices)
  /\ r.status # "none" => r.status = Status(r.balance, TotalCost(r.costs), TotalDays(r.costs))

\* The costs kept of a model are the newest, and its variances are of some of them.
CostsFit(kept, came, variances) ==
  /\ kept \in Seq(Invoices) /\ came \in Seq(Invoices) /\ NewestOf(kept, came, HistoryKept)
  /\ variances \in Seq(Nat) /\ \A i \in DOMAIN variances : variances[i] <= TotalCost(came)

CostTypes ==
  /\ costHistory \in [BilledModels -> Seq(Invoices)] /\ ingested \in [BilledModels -> Seq(Invoices)]
  /\ varianceHistory \in [BilledModels -> Seq(Nat)]
  /\ runway = [m \in BilledModels |-> runway[m]]

CostInv ==
  /\ CostTypes
  /\ \A m \in BilledModels : CostsFit(costHistory[m], ingested[m], varianceHistory[m])
  /\ recommendations = IF VarianceReaches(VarianceWarning) THEN varianceHistory ELSE OfModels(<<>>)
  /\ \A m \in BilledModels : RunwayFits(runway[m])

LEMMA CostsStart == CostInit => CostInv
<1> SUFFICES ASSUME CostInit PROVE CostInv
  OBVIOUS
<1>1. /\ costHistory = [m \in BilledModels |-> <<>>] /\ ingested = [m \in BilledModels |-> <<>>]
      /\ varianceHistory = [m \in BilledModels |-> <<>>] /\ recommendations = OfModels(<<>>)
      /\ varianceHistory = OfModels(<<>>) /\ runway = [m \in BilledModels |-> NoRunway]
  BY DEF CostInit, OfModels
<1>2. <<>> \in Seq(Invoices) /\ <<>> \in Seq(Nat) /\ Len(<<>>) = 0 /\ DOMAIN <<>> = {}
  OBVIOUS
<1>3. CostTypes
  BY <1>1, <1>2 DEF CostTypes
<1>4. CostsFit(<<>>, <<>>, <<>>)
  BY <1>2, CostConstants DEF CostsFit, NewestOf
<1>5. RunwayFits(NoRunway)
  BY <1>2 DEF RunwayFits, NoRunway
<1> QED BY <1>1, <1>3, <1>4, <1>5 DEF CostInv

LEMMA CostsGive == CostInv => RunwayIsHonest /\ CostsRemembered
<1> SUFFICES ASSUME CostInv PROVE RunwayIsHonest /\ CostsRemembered
  OBVIOUS
<1>1. RunwayIsHonest
  <2> SUFFICES ASSUME NEW m \in BilledModels, runway[m].status # "none", ~Overlap(runway[m].costs)
               PROVE  LET costs == runway[m].costs
                          days == Cardinality(UNION {DaysOf(costs[i]) : i \in DOMAIN costs})
                      IN /\ runway[m].status = "healthy" =>
                              runway[m].balance * days >= WarnDays * TotalCost(costs)
                         /\ runway[m].status # "critical" =>
                              runway[m].balance * days >= CriticalDays * TotalCost(costs)
    BY DEF RunwayIsHonest
  <2> DEFINE costs == runway[m].costs
             verdict == runway[m].status
             had == runway[m].balance * TotalDays(costs)
             warn == WarnDays * TotalCost(costs)
             alarm == CriticalDays * TotalCost(costs)
  <2>1. /\ runway[m].balance \in Nat /\ costs \in Seq(Invoices)
        /\ verdict = Status(runway[m].balance, TotalCost(costs), TotalDays(costs))
    BY DEF CostInv, RunwayFits
  <2>2. Cardinality(UNION {DaysOf(costs[i]) : i \in DOMAIN costs}) = TotalDays(costs)
    BY <2>1, DaysAddUp
  <2>3. verdict = IF had < alarm THEN "critical" ELSE IF had < warn THEN "warning" ELSE "healthy"
    BY <2>1 DEF Status
  <2>4. had \in Nat /\ warn \in Nat /\ alarm \in Nat
    <3>1. TotalCost(costs) \in Nat /\ TotalDays(costs) \in Nat /\ WarnDays \in Nat /\ CriticalDays \in Nat
      BY <2>1, TotalType, CostConstants
    <3> QED BY <2>1, <3>1
  <2> HIDE DEF had, warn, alarm, verdict
  <2>5. /\ verdict = "healthy" => had >= warn
        /\ verdict # "critical" => had >= alarm
    BY <2>3, <2>4
  <2> QED BY <2>2, <2>5 DEF had, warn, alarm, verdict
<1>2. CostsRemembered
  <2> SUFFICES ASSUME NEW m \in BilledModels
      PROVE  /\ costHistory[m] = SubSeq(ingested[m], Len(ingested[m]) - Len(costHistory[m]) + 1, Len(ingested[m]))
             /\ Len(costHistory[m]) = Min({HistoryKept, Len(ingested[m])})
             /\ \A i \in DOMAIN varianceHistory[m] : varianceHistory[m][i] <= TotalCost(ingested[m])
             /\ ToSet(recommendations[m]) \subseteq ToSet(varianceHistory[m])
    BY DEF CostsRemembered
  <2> DEFINE s == costHistory[m]
             r == ingested[m]
  <2>1. /\ s \in Seq(Invoices) /\ r \in Seq(Invoices) /\ NewestOf(s, r, HistoryKept)
        /\ \A i \in DOMAIN varianceHistory[m] : varianceHistory[m][i] <= TotalCost(r)
    BY DEF CostInv, CostsFit
  <2>2. HistoryKept \in Nat \ {0}
    BY CostConstants
  <2> HIDE DEF s, r
  <2>3. s = SubSeq(r, (Len(r) - Len(s)) + 1, Len(r))
    BY <2>1, <2>2, NewestIsSubSeq
  <2>4. Len(r) \in Nat /\ Len(s) = IF Len(r) > HistoryKept THEN HistoryKept ELSE Len(r)
    BY <2>1 DEF NewestOf
  <2>5. Len(s) = Min({HistoryKept, Len(r)})
    BY <2>2, <2>4, MinOfTwo
  <2>6. ToSet(recommendations[m]) \subseteq ToSet(varianceHistory[m])
    <3>1. recommendations[m] = varianceHistory[m] \/ recommendations[m] = <<>>
      BY DEF CostInv, OfModels
    <3> QED BY <3>1 DEF ToSet
  <2> QED BY <2>1, <2>3, <2>5, <2>6 DEF s, r
<1> QED BY <1>1, <1>2

\* The sum of some of the costs kept is none of what more came to.
LEMMA RecentCosts ==
  ASSUME NEW kept, NEW came, NEW variances, CostsFit(kept, came, variances)
  PROVE  /\ RecentOf(kept) \in Seq(Invoices)
         /\ TotalCost(RecentOf(kept)) \in Nat /\ TotalCost(RecentOf(kept)) <= TotalCost(came)
<1>1. kept \in Seq(Invoices) /\ came \in Seq(Invoices) /\ NewestOf(kept, came, HistoryKept)
  BY DEF CostsFit
<1> DEFINE at == {i \in DOMAIN kept : kept[i].end + RecentDays >= today}
           r == RecentOf(kept)
<1>2. r = Sublist(kept, at)
  BY DEF RecentOf
<1> HIDE DEF r, at
<1>3. r \in Seq(Invoices) /\ Taken(r, kept, at)
  BY <1>1, <1>2, SublistTaken
<1>4. TotalCost(r) <= TotalCost(kept)
  BY <1>1, <1>3, PartCosts
<1>5. TotalCost(kept) <= TotalCost(came)
  <2>1. HistoryKept \in Nat \ {0}
    BY CostConstants
  <2>2. Taken(kept, came, ((Len(came) - Len(kept)) + 1)..Len(came))
    BY <1>1, <2>1, NewestTaken
  <2> QED BY <1>1, <2>2, PartCosts
<1>6. TotalCost(r) \in Nat /\ TotalCost(kept) \in Nat /\ TotalCost(came) \in Nat
  BY <1>1, <1>3, TotalType
<1>7. TotalCost(r) <= TotalCost(came)
  BY <1>4, <1>5, <1>6
<1> QED BY <1>3, <1>6, <1>7 DEF r

LEMMA NewestShorter ==
  ASSUME NEW S, NEW list \in Seq(S), NEW x \in S
  PROVE  /\ Newest(Append(list, x)) \in Seq(S)
         /\ \A i \in DOMAIN Newest(Append(list, x)) :
              \/ Newest(Append(list, x))[i] = x
              \/ \E j \in DOMAIN list : Newest(Append(list, x))[i] = list[j]
<1> DEFINE a == Append(list, x)
           t == Newest(a)
<1>1. /\ a \in Seq(S) /\ Len(a) = Len(list) + 1 /\ Len(list) \in Nat /\ a # <<>>
      /\ DOMAIN a = 1..(Len(list) + 1)
      /\ \A i \in DOMAIN a : a[i] = x \/ \E j \in DOMAIN list : a[i] = list[j]
  <2>1. /\ a \in Seq(S) /\ Len(a) = Len(list) + 1 /\ Len(list) \in Nat /\ a # <<>>
        /\ DOMAIN a = 1..(Len(list) + 1)
    OBVIOUS
  <2>2. \A i \in DOMAIN a : a[i] = x \/ (i \in DOMAIN list /\ a[i] = list[i])
    OBVIOUS
  <2> QED BY <2>1, <2>2
<1> HIDE DEF a
<1>2. Tail(a) \in Seq(S) /\ Len(Tail(a)) = Len(list)
      /\ \A i \in 1..Len(Tail(a)) : Tail(a)[i] = a[i + 1]
  BY <1>1, HeadTailProperties
<1>3. t = a \/ t = Tail(a)
  BY DEF Newest
<1>4. t \in Seq(S)
  BY <1>1, <1>2, <1>3
<1>5. \A i \in DOMAIN t : \E k \in DOMAIN a : t[i] = a[k]
  <2>1. CASE t = a
    BY <2>1
  <2>2. CASE t = Tail(a)
    <3> SUFFICES ASSUME NEW i \in DOMAIN t PROVE \E k \in DOMAIN a : t[i] = a[k]
      OBVIOUS
    <3>1. i \in 1..Len(list) /\ Tail(a)[i] = a[i + 1]
      BY <1>2, <2>2
    <3>2. i + 1 \in DOMAIN a
      BY <1>1, <3>1
    <3> QED BY <2>2, <3>1, <3>2
  <2> QED BY <1>3, <2>1, <2>2
<1> HIDE DEF t
<1>6. ASSUME NEW i \in DOMAIN t PROVE t[i] = x \/ \E j \in DOMAIN list : t[i] = list[j]
  <2>1. PICK k \in DOMAIN a : t[i] = a[k]
    BY <1>5
  <2> QED BY <1>1, <2>1
<1> QED BY <1>4, <1>6 DEF t, a

\* A model's variance is compared, or no model's.
LEMMA GoOnKeeps ==
  ASSUME CostInv, NEW c, NEW left, GoOn(c, left), UNCHANGED <<costHistory, ingested>>
  PROVE  /\ varianceHistory' \in [BilledModels -> Seq(Nat)]
         /\ \A m \in BilledModels : CostsFit(costHistory[m], ingested[m], varianceHistory'[m])
         /\ recommendations' = IF VarianceReaches(VarianceWarning) THEN varianceHistory' ELSE OfModels(<<>>)
<1>1. /\ varianceHistory \in [BilledModels -> Seq(Nat)]
      /\ \A m \in BilledModels : CostsFit(costHistory[m], ingested[m], varianceHistory[m])
      /\ recommendations = IF VarianceReaches(VarianceWarning) THEN varianceHistory ELSE OfModels(<<>>)
  BY DEF CostInv, CostTypes
<1>2. CASE UNCHANGED <<varianceHistory, recommendations>>
  BY <1>1, <1>2
<1>3. CASE Begin(Head(Awaiting(left)))
  <2> DEFINE n == Head(Awaiting(left))
             actual == TotalCost(RecentOf(costHistory[n]))
  <2>1. /\ varianceHistory' = Reconciled(varianceHistory, n, actual)
        /\ recommendations' = IF VarianceReaches(VarianceWarning)
                              THEN Reconciled(recommendations, n, actual) ELSE recommendations
    BY <1>3 DEF Begin
  <2> HIDE DEF n
  <2>2. recommendations' = IF VarianceReaches(VarianceWarning) THEN varianceHistory' ELSE OfModels(<<>>)
    <3> HIDE DEF actual
    <3>1. CASE VarianceReaches(VarianceWarning)
      BY <1>1, <2>1, <3>1
    <3>2. CASE ~VarianceReaches(VarianceWarning)
      BY <1>1, <2>1, <3>2
    <3> QED BY <3>1, <3>2
  <2>3. ASSUME NEW m \in BilledModels
        PROVE  /\ varianceHistory'[m] \in Seq(Nat)
               /\ CostsFit(costHistory[m], ingested[m], varianceHistory'[m])
    <3>1. CASE m # n
      <4>1. varianceHistory'[m] = varianceHistory[m]
        BY <1>1, <2>1, <3>1 DEF Reconciled
      <4> QED BY <1>1, <4>1
    <3>2. CASE m = n
      <4> DEFINE old == varianceHistory[m]
                 new == Newest(Append(old, actual))
      <4>1. varianceHistory'[m] = new
        BY <1>1, <2>1, <3>2 DEF Reconciled
      <4>2. /\ old \in Seq(Nat) /\ \A i \in DOMAIN old : old[i] <= TotalCost(ingested[m])
            /\ costHistory[m] \in Seq(Invoices) /\ ingested[m] \in Seq(Invoices)
            /\ NewestOf(costHistory[m], ingested[m], HistoryKept)
        BY <1>1 DEF CostsFit
      <4>3. actual \in Nat /\ actual <= TotalCost(ingested[m])
        BY <1>1, <3>2, RecentCosts
      <4> HIDE DEF actual, old
      <4>4. /\ new \in Seq(Nat)
            /\ \A i \in DOMAIN new : new[i] = actual \/ \E j \in DOMAIN old : new[i] = old[j]
        BY <4>2, <4>3, NewestShorter
      <4> HIDE DEF new
      <4>5. \A i \in DOMAIN new : new[i] <= TotalCost(ingested[m])
        BY <4>2, <4>3, <4>4
      <4> QED BY <4>1, <4>2, <4>4, <4>5 DEF CostsFit
    <3> QED BY <3>1, <3>2
  <2>4. varianceHistory' = [m \in BilledModels |-> varianceHistory'[m]]
    BY <1>1, <2>1 DEF Reconciled
  <2>5. varianceHistory' \in [BilledModels -> Seq(Nat)]
    BY <2>3, <2>4
  <2> QED BY <1>1, <2>2, <2>3, <2>5
<1> QED BY <1>2, <1>3 DEF GoOn

LEMMA IngestKeeps ==
  ASSUME CostInv, NEW m \in BilledModels, NEW x \in Invoices, IngestActualCosts(m, x)
  PROVE  CostInv'
<1>1. /\ costHistory' = [costHistory EXCEPT ![m] = Newest(Append(@, x))]
      /\ ingested' = [ingested EXCEPT ![m] = Append(@, x)]
      /\ UNCHANGED <<varianceHistory, recommendations, runway>>
  BY DEF IngestActualCosts
<1>2. /\ costHistory \in [BilledModels -> Seq(Invoices)] /\ ingested \in [BilledModels -> Seq(Invoices)]
      /\ \A k \in BilledModels : CostsFit(costHistory[k], ingested[k], varianceHistory[k])
  BY DEF CostInv, CostTypes
<1> DEFINE s == costHistory[m]
           r == ingested[m]
           v == varianceHistory[m]
           t == Newest(Append(s, x))
           b == Append(r, x)
<1>3. /\ s \in Seq(Invoices) /\ r \in Seq(Invoices) /\ NewestOf(s, r, HistoryKept)
      /\ v \in Seq(Nat) /\ \A i \in DOMAIN v : v[i] <= TotalCost(r)
  BY <1>2 DEF CostsFit
<1>4. HistoryKept \in Nat \ {0}
  BY CostConstants
<1>5. costHistory'[m] = t /\ ingested'[m] = b
  BY <1>1, <1>2
<1> HIDE DEF s, r, v
<1>6. t \in Seq(Invoices) /\ NewestOf(t, b, HistoryKept)
  <2> DEFINE a == Append(s, x)
             u == IF Len(s) < HistoryKept THEN a ELSE Tail(a)
  <2>1. u \in Seq(Invoices) /\ NewestOf(u, b, HistoryKept)
    BY <1>3, <1>4, NewestPushed
  <2>2. Len(a) = Len(s) + 1 /\ Len(s) \in Nat
    BY <1>3
  <2> HIDE DEF a
  <2>3. t = u
    BY <1>4, <2>2 DEF Newest, a
  <2> QED BY <2>1, <2>3
<1>7. b \in Seq(Invoices) /\ TotalCost(r) <= TotalCost(b) /\ TotalCost(r) \in Nat /\ TotalCost(b) \in Nat
  <2>1. b \in Seq(Invoices)
    BY <1>3
  <2> HIDE DEF b
  <2>2. TotalCost(r) \in Nat /\ TotalCost(b) \in Nat
    BY <1>3, <2>1, TotalType
  <2>3. TotalCost(r) <= TotalCost(b)
    BY <1>3, CostAppended DEF b
  <2> QED BY <2>1, <2>2, <2>3
<1> HIDE DEF t, b
<1>8. CostsFit(t, b, v)
  <2>1. \A i \in DOMAIN v : v[i] <= TotalCost(b)
    BY <1>3, <1>7
  <2> QED BY <1>3, <1>6, <1>7, <2>1 DEF CostsFit
<1>9. ASSUME NEW k \in BilledModels PROVE CostsFit(costHistory'[k], ingested'[k], varianceHistory'[k])
  <2>1. CASE k = m
    BY <1>1, <1>5, <1>8, <2>1 DEF v
  <2>2. CASE k # m
    BY <1>1, <1>2, <2>2
  <2> QED BY <2>1, <2>2
<1>10. costHistory' \in [BilledModels -> Seq(Invoices)] /\ ingested' \in [BilledModels -> Seq(Invoices)]
  <2>1. Newest(Append(costHistory[m], x)) \in Seq(Invoices) /\ Append(ingested[m], x) \in Seq(Invoices)
    BY <1>6, <1>7 DEF t, b, s, r
  <2> QED BY <1>1, <1>2, <2>1
<1>11. CostTypes'
  BY <1>1, <1>10 DEF CostInv, CostTypes
<1>12. \A k \in BilledModels : RunwayFits(runway'[k])
  BY <1>1 DEF CostInv
<1>13. (\A k \in BilledModels : RunwayFits(runway[k]))'
  BY <1>12 DEF RunwayFits
<1> QED BY <1>1, <1>9, <1>11, <1>13 DEF CostInv

LEMMA CostSteps == CostInv /\ [CostNext]_costVars => CostInv'
<1> SUFFICES ASSUME CostInv, [CostNext]_costVars PROVE CostInv'
  OBVIOUS
<1>1. ASSUME NEW m \in BilledModels, NEW i \in Invoices, IngestActualCosts(m, i) PROVE CostInv'
  BY <1>1, IngestKeeps
<1>2. ASSUME NEW c, NEW left, GoOn(c, left), UNCHANGED <<costHistory, ingested>>,
             runway' = [m \in BilledModels |-> runway'[m]],
             \A m \in BilledModels : RunwayFits(runway'[m])
      PROVE  CostInv'
  <2>1. /\ varianceHistory' \in [BilledModels -> Seq(Nat)]
        /\ \A m \in BilledModels : CostsFit(costHistory[m], ingested[m], varianceHistory'[m])
        /\ recommendations' = IF VarianceReaches(VarianceWarning) THEN varianceHistory' ELSE OfModels(<<>>)
    BY <1>2, GoOnKeeps
  <2>2. CostTypes'
    BY <1>2, <2>1 DEF CostInv, CostTypes
  <2> QED BY <1>2, <2>1, <2>2 DEF CostInv
<1>3. runway = [m \in BilledModels |-> runway[m]] /\ \A m \in BilledModels : RunwayFits(runway[m])
  BY DEF CostInv, CostTypes
<1>4. ASSUME NEW c \in Cycles, RunReconciliation(c) \/ AccountingFails(c) PROVE CostInv'
  <2>1. (GoOn(c, Tracked) \/ GoOn(c, Tail(cycle[c]))) /\ UNCHANGED <<costHistory, ingested, runway>>
    BY <1>4 DEF RunReconciliation, AccountingFails
  <2>2. runway' = [m \in BilledModels |-> runway'[m]] /\ \A m \in BilledModels : RunwayFits(runway'[m])
    BY <1>3, <2>1
  <2> QED BY <1>2, <2>1, <2>2
<1>5. ASSUME NEW c \in Cycles, NEW b \in Balances, AnswerAccounting(c, b) PROVE CostInv'
  <2> DEFINE n == Head(cycle[c])
             costs == RecentOf(costHistory[n])
             new == [status |-> Status(b, TotalCost(costs), TotalDays(costs)),
                     balance |-> b, costs |-> costs]
  <2>1. /\ GoOn(c, Tail(cycle[c])) /\ UNCHANGED <<costHistory, ingested>>
        /\ runway' = runway \/ runway' = [runway EXCEPT ![n] = new]
    BY <1>5 DEF AnswerAccounting
  <2>2. n \in BilledModels => RunwayFits(new)
    <3> SUFFICES ASSUME n \in BilledModels PROVE RunwayFits(new)
      OBVIOUS
    <3>1. CostsFit(costHistory[n], ingested[n], varianceHistory[n])
      BY DEF CostInv
    <3> HIDE DEF n
    <3>2. costs \in Seq(Invoices)
      BY <3>1, RecentCosts
    <3>3. b \in Nat
      BY CostConstants
    <3> HIDE DEF costs
    <3> QED BY <3>2, <3>3 DEF RunwayFits
  <2> HIDE DEF n, new
  <2>3. runway' = [m \in BilledModels |-> runway'[m]]
    BY <1>3, <2>1
  <2>4. ASSUME NEW m \in BilledModels PROVE RunwayFits(runway'[m])
    <3>1. runway'[m] = runway[m] \/ (m = n /\ runway'[m] = new)
      BY <1>3, <2>1
    <3> QED BY <1>3, <2>2, <3>1
  <2> QED BY <1>2, <2>1, <2>3, <2>4
<1>6. CASE NextDay \/ UNCHANGED costVars
  <2>1. UNCHANGED <<costHistory, varianceHistory, recommendations, runway, ingested>>
    BY <1>6 DEF NextDay, costVars
  <2> QED BY <2>1 DEF CostInv, CostTypes, CostsFit, RunwayFits
<1> QED BY <1>1, <1>4, <1>5, <1>6 DEF CostNext

-----------------------------------------------------------------------------
(* The heartbeat.                                                          *)

HealthStates == [healthy : BOOLEAN, block : Nat, advancedAt : Nat]
Samplings == [from : Providers \union {"none"}, at : Nat]

\* A beat is never late, a sample never older than its timeout, and what is known of
\* a provider that was exchanged was asked before.
BeatTypes ==
  /\ beatTime \in Nat /\ nextBeat \in Nat /\ askedSince \in Nat
  /\ beatTime <= MaxBeatTime /\ beatTime <= nextBeat /\ nextBeat <= beatTime + BeatInterval
  /\ head \in [Providers -> [number : Nat, time : Nat]]
  /\ answering \subseteq Providers /\ hasBackup \in BOOLEAN /\ provider \in Providers
  /\ health \in HealthStates
  /\ sampling \in Samplings /\ switching \in Nat /\ paged \in Nat /\ recovered \in Nat
  /\ lastPage \in {"recovered", "unhealthy"}
  /\ downSince \in [Providers -> Nat]
  /\ \A p \in Providers : p \in answering => downSince[p] = NeverAdvanced
  /\ ~hasBackup => switching = 0 /\ provider = "primary"

SampleInTime ==
  sampling # NoSample =>
    /\ sampling.from \in Providers
    /\ sampling.at + BeatInterval = nextBeat /\ beatTime <= sampling.at + RpcTimeout
    /\ sampling.from = provider \/ sampling.at <= askedSince

\* The last beat was not after x, or is the first after it and still unanswered.
Fresh(x) ==
  \/ nextBeat <= x + BeatInterval
  \/ /\ sampling # NoSample /\ sampling.from = provider
     /\ nextBeat <= x + BeatInterval + BeatInterval

HealthIsFresh ==
  health.healthy =>
    /\ downSince[provider] # NeverAdvanced => Fresh(downSince[provider]) \/ Fresh(askedSince)
    /\ Fresh(head[provider].time + StaleLimit) \/ Fresh(askedSince)

BeatInv == BeatTypes /\ SampleInTime /\ HealthIsFresh /\ OutagePagedOnce

LEMMA Limits ==
  /\ BeatInterval \in Nat /\ RpcTimeout \in Nat /\ StaleLimit \in Nat /\ MaxBeatTime \in Nat
  /\ 0 < RpcTimeout /\ RpcTimeout < BeatInterval
  /\ NeverAdvanced = MaxBeatTime + 1
BY HeartbeatConstants DEF NeverAdvanced

LEMMA BeatStarts ==
  ASSUME HeartbeatInit PROVE BeatInv
<1> USE DEF HeartbeatInit
<1>1. provider \in Providers /\ (~hasBackup => provider = "primary")
  BY DEF Providers
<1>2. /\ health = [healthy |-> TRUE, block |-> 0, advancedAt |-> NeverAdvanced]
      /\ NeverAdvanced \in Nat
  BY Limits
<1>3. health \in HealthStates /\ health.healthy
  BY <1>2 DEF HealthStates
<1>4. sampling \in Samplings
  BY DEF NoSample, Samplings
<1>5. head \in [Providers -> [number : Nat, time : Nat]]
  OBVIOUS
<1>6. downSince \in [Providers -> Nat] /\ \A p \in Providers : downSince[p] = NeverAdvanced
  BY <1>2
<1>7. BeatTypes
  BY <1>1, <1>3, <1>4, <1>5, <1>6, Limits DEF BeatTypes
<1>8. head[provider].time \in Nat
  BY <1>1, <1>5
<1>9. HealthIsFresh
  <2>1. nextBeat <= askedSince + BeatInterval
    BY Limits
  <2> QED BY <2>1 DEF HealthIsFresh, Fresh
<1>10. SampleInTime
  BY DEF SampleInTime
<1>11. OutagePagedOnce
  BY <1>3 DEF OutagePagedOnce
<1> QED BY <1>7, <1>9, <1>10, <1>11 DEF BeatInv

LEMMA FreshIsRecent ==
  ASSUME BeatInv, NEW x \in Nat, Fresh(x)
  PROVE  beatTime <= x + (BeatInterval + RpcTimeout)
BY Limits DEF BeatInv, BeatTypes, SampleInTime, Fresh, Samplings

LEMMA BeatGives ==
  ASSUME BeatInv PROVE BlindnessIsNoticed /\ OutagePagedOnce
<1>1. OutagePagedOnce
  BY DEF BeatInv
<1>2. ASSUME health.healthy
      PROVE  /\ \/ downSince[provider] = NeverAdvanced
                \/ beatTime <= downSince[provider] + (BeatInterval + RpcTimeout)
                \/ beatTime <= askedSince + (BeatInterval + RpcTimeout)
             /\ \/ beatTime <= head[provider].time + StaleLimit + (BeatInterval + RpcTimeout)
                \/ beatTime <= askedSince + (BeatInterval + RpcTimeout)
  <2>1. /\ downSince[provider] \in Nat /\ askedSince \in Nat
        /\ head[provider].time + StaleLimit \in Nat
    BY Limits DEF BeatInv, BeatTypes
  <2>2. /\ downSince[provider] # NeverAdvanced => Fresh(downSince[provider]) \/ Fresh(askedSince)
        /\ Fresh(head[provider].time + StaleLimit) \/ Fresh(askedSince)
    BY <1>2 DEF BeatInv, HealthIsFresh
  <2>3. Fresh(askedSince) => beatTime <= askedSince + (BeatInterval + RpcTimeout)
    BY <2>1, FreshIsRecent
  <2>4. Fresh(downSince[provider]) => beatTime <= downSince[provider] + (BeatInterval + RpcTimeout)
    BY <2>1, FreshIsRecent
  <2>5. Fresh(head[provider].time + StaleLimit) =>
          beatTime <= head[provider].time + StaleLimit + (BeatInterval + RpcTimeout)
    BY <2>1, FreshIsRecent
  <2> QED BY <2>2, <2>3, <2>4, <2>5
<1>3. BlindnessIsNoticed
  BY <1>2 DEF BlindnessIsNoticed
<1> QED BY <1>1, <1>3

LEMMA BeatKeeps ==
  ASSUME BeatInv, Beat
  PROVE  BeatInv'
<1>1. /\ beatTime = nextBeat /\ nextBeat' = nextBeat + BeatInterval
      /\ sampling' = [from |-> provider, at |-> beatTime]
      /\ beatTime' = beatTime /\ head' = head /\ answering' = answering /\ hasBackup' = hasBackup
      /\ provider' = provider /\ health' = health /\ switching' = switching
      /\ paged' = paged /\ recovered' = recovered /\ lastPage' = lastPage
      /\ downSince' = downSince /\ askedSince' = askedSince
  BY DEF Beat, heartbeatHistory
<1>2. sampling = NoSample
  BY <1>1, Limits DEF BeatInv, BeatTypes, SampleInTime, Samplings
<1>3. /\ provider \in Providers /\ provider # "none" /\ sampling' # NoSample /\ sampling' \in Samplings
      /\ sampling'.from = provider /\ sampling'.at = beatTime
  BY <1>1 DEF BeatInv, BeatTypes, Providers, NoSample, Samplings
<1>4. BeatTypes'
  BY <1>1, <1>3, Limits DEF BeatInv, BeatTypes, NeverAdvanced
<1>5. SampleInTime'
  BY <1>1, <1>3, Limits DEF BeatInv, BeatTypes, SampleInTime
<1>6. ASSUME NEW x \in Nat, Fresh(x)
      PROVE  /\ sampling' # NoSample /\ sampling'.from = provider'
             /\ nextBeat' <= x + BeatInterval + BeatInterval
  BY <1>1, <1>2, <1>3, <1>6, Limits DEF Fresh, BeatInv, BeatTypes
<1>7. HealthIsFresh'
  <2>1. /\ downSince[provider] \in Nat /\ askedSince \in Nat
        /\ head[provider].time + StaleLimit \in Nat
    BY Limits DEF BeatInv, BeatTypes
  <2> SUFFICES ASSUME health.healthy
               PROVE  /\ (downSince[provider] # NeverAdvanced =>
                            Fresh(downSince[provider])' \/ Fresh(askedSince)')
                      /\ Fresh(head[provider].time + StaleLimit)' \/ Fresh(askedSince)'
    BY <1>1 DEF HealthIsFresh, NeverAdvanced
  <2>2. Fresh(downSince[provider]) => Fresh(downSince[provider])'
    BY <1>1, <1>6, <2>1 DEF Fresh
  <2>3. Fresh(askedSince) => Fresh(askedSince)'
    BY <1>1, <1>6, <2>1 DEF Fresh
  <2>4. Fresh(head[provider].time + StaleLimit) => Fresh(head[provider].time + StaleLimit)'
    BY <1>1, <1>6, <2>1 DEF Fresh
  <2> QED BY <2>2, <2>3, <2>4 DEF BeatInv, HealthIsFresh
<1>8. OutagePagedOnce'
  BY <1>1 DEF BeatInv, OutagePagedOnce
<1> QED BY <1>4, <1>5, <1>7, <1>8 DEF BeatInv

LEMMA AnswerKeeps ==
  ASSUME BeatInv, AnswerSample
  PROVE  BeatInv'
<1> DEFINE block == head[sampling.from]
           newer == block.number > health.block
           at == IF newer THEN beatTime ELSE health.advancedAt
           isHealthy == beatTime - block.time <= StaleLimit /\ beatTime - at <= StuckLimit
<1>1. /\ sampling # NoSample /\ sampling.from \in answering /\ sampling' = NoSample
      /\ beatTime' = beatTime /\ head' = head /\ answering' = answering /\ hasBackup' = hasBackup
      /\ provider' = provider /\ nextBeat' = nextBeat
      /\ downSince' = downSince /\ askedSince' = askedSince
  BY DEF AnswerSample
<1>2. health' = [healthy |-> isHealthy, advancedAt |-> at, block |-> IF newer THEN block.number ELSE health.block]
  BY DEF AnswerSample, Assess
<1>3. block.number \in Nat /\ block.time \in Nat /\ health.block \in Nat /\ health.advancedAt \in Nat
      /\ beatTime \in Nat /\ health.healthy \in BOOLEAN /\ sampling.at \in Nat
  BY <1>1 DEF BeatInv, BeatTypes, HealthStates, SampleInTime, Samplings
<1>4. /\ at \in Nat /\ (IF newer THEN block.number ELSE health.block) \in Nat /\ isHealthy \in BOOLEAN
  BY <1>3
<1> HIDE DEF block, newer, at, isHealthy
<1>5. health' \in HealthStates /\ health'.healthy = isHealthy
  BY <1>2, <1>4 DEF HealthStates
<1>6. PageChange(health.healthy, health'.healthy, FALSE)
  BY DEF AnswerSample
<1>7. /\ switching' = switching /\ paged' \in Nat /\ recovered' \in Nat
      /\ lastPage' \in {"recovered", "unhealthy"}
      /\ paged' + switching' = recovered' + (IF health'.healthy THEN 0 ELSE 1)
      /\ ~hasBackup => (lastPage' = "recovered") = health'.healthy
  <2>1. /\ paged + switching = recovered + (IF health.healthy THEN 0 ELSE 1)
        /\ ~hasBackup => (lastPage = "recovered") = health.healthy
        /\ paged \in Nat /\ recovered \in Nat /\ switching \in Nat
        /\ lastPage \in {"recovered", "unhealthy"}
    BY DEF BeatInv, BeatTypes, OutagePagedOnce
  <2> DEFINE was == health.healthy
             is == health'.healthy
  <2>2. was \in BOOLEAN /\ is \in BOOLEAN /\ PageChange(was, is, FALSE)
    BY <1>3, <1>4, <1>5, <1>6
  <2>3. /\ paged + switching = recovered + (IF was THEN 0 ELSE 1)
        /\ ~hasBackup => (lastPage = "recovered") = was
    BY <2>1
  <2> HIDE DEF was, is
  <2>4. CASE was = TRUE /\ is = TRUE
    <3>1. switching' = switching /\ paged' = paged /\ recovered' = recovered /\ lastPage' = lastPage
      BY <2>2, <2>4 DEF PageChange, heartbeatHistory
    <3> QED BY <2>1, <2>3, <2>4, <3>1 DEF is
  <2>5. CASE was = FALSE /\ is = FALSE
    <3>1. switching' = switching /\ paged' = paged /\ recovered' = recovered /\ lastPage' = lastPage
      BY <2>2, <2>5 DEF PageChange, heartbeatHistory
    <3> QED BY <2>1, <2>3, <2>5, <3>1 DEF is
  <2>6. CASE was = FALSE /\ is = TRUE
    <3>1. switching' = switching /\ paged' = paged /\ recovered' = recovered + 1 /\ lastPage' = "recovered"
      BY <2>2, <2>6 DEF PageChange, heartbeatHistory
    <3>2. (lastPage' = "recovered") = is
      BY <2>6, <3>1
    <3>3. paged' + switching' = recovered' + (IF is THEN 0 ELSE 1)
      BY <2>1, <2>3, <2>6, <3>1
    <3>4. switching' = switching /\ paged' \in Nat /\ recovered' \in Nat /\ lastPage' \in {"recovered", "unhealthy"}
      BY <2>1, <3>1
    <3> QED BY <3>2, <3>3, <3>4, Zenon DEF is
  <2>7. CASE was = TRUE /\ is = FALSE
    <3>1. switching' = switching /\ paged' = paged + 1 /\ recovered' = recovered /\ lastPage' = "unhealthy"
      BY <2>2, <2>7 DEF PageChange, heartbeatHistory
    <3>2. (lastPage' = "recovered") = is
      BY <2>7, <3>1
    <3>3. paged' + switching' = recovered' + (IF is THEN 0 ELSE 1)
      BY <2>1, <2>3, <2>7, <3>1
    <3>4. switching' = switching /\ paged' \in Nat /\ recovered' \in Nat /\ lastPage' \in {"recovered", "unhealthy"}
      BY <2>1, <3>1
    <3> QED BY <3>2, <3>3, <3>4, Zenon DEF is
  <2> QED BY <2>2, <2>4, <2>5, <2>6, <2>7
<1>8. BeatTypes'
  <2>1. sampling' \in Samplings
    BY <1>1 DEF NoSample, Samplings
  <2> QED BY <1>1, <1>5, <1>7, <2>1 DEF BeatInv, BeatTypes, NeverAdvanced
<1>9. SampleInTime'
  BY <1>1 DEF SampleInTime
<1>10. HealthIsFresh'
  <2>1. /\ downSince[provider] \in Nat /\ askedSince \in Nat /\ nextBeat \in Nat
        /\ head[provider].time \in Nat /\ nextBeat <= beatTime + BeatInterval
    BY Limits DEF BeatInv, BeatTypes
  <2>2. CASE sampling.from = provider
    <3>1. downSince[provider] = NeverAdvanced
      BY <1>1, <2>2 DEF BeatInv, BeatTypes
    <3>2. isHealthy => beatTime - head[provider].time <= StaleLimit
      BY <2>2 DEF isHealthy, block
    <3>3. isHealthy => nextBeat <= head[provider].time + StaleLimit + BeatInterval
      BY <1>3, <2>1, <3>2, Limits
    <3> QED BY <1>1, <1>5, <3>1, <3>3 DEF HealthIsFresh, Fresh, NeverAdvanced
  <2>3. CASE sampling.from # provider
    <3>1. nextBeat <= askedSince + BeatInterval
      BY <1>1, <1>3, <2>1, <2>3, Limits DEF BeatInv, SampleInTime
    <3> QED BY <1>1, <3>1 DEF HealthIsFresh, Fresh
  <2> QED BY <2>2, <2>3
<1>11. OutagePagedOnce'
  BY <1>1, <1>7 DEF OutagePagedOnce
<1> QED BY <1>8, <1>9, <1>10, <1>11 DEF BeatInv

LEMMA FailKeeps ==
  ASSUME BeatInv, SampleFails
  PROVE  BeatInv'
<1>1. /\ sampling # NoSample /\ sampling' = NoSample
      /\ health' = [health EXCEPT !.healthy = FALSE]
      /\ beatTime' = beatTime /\ head' = head /\ answering' = answering /\ hasBackup' = hasBackup
      /\ provider' = provider /\ nextBeat' = nextBeat
      /\ downSince' = downSince /\ askedSince' = askedSince
  BY DEF SampleFails
<1>2. health' \in HealthStates /\ health'.healthy = FALSE
  BY <1>1 DEF BeatInv, BeatTypes, HealthStates
<1>3. PageChange(health.healthy, FALSE, TRUE)
  BY DEF SampleFails
<1>4. /\ switching' \in Nat /\ paged' \in Nat /\ recovered' \in Nat
      /\ lastPage' \in {"recovered", "unhealthy"}
      /\ paged' + switching' = recovered' + 1
      /\ ~hasBackup => lastPage' = "unhealthy" /\ switching' = 0
  <2>1. /\ paged + switching = recovered + (IF health.healthy THEN 0 ELSE 1)
        /\ ~hasBackup => (lastPage = "recovered") = health.healthy
        /\ paged \in Nat /\ recovered \in Nat /\ switching \in Nat
        /\ lastPage \in {"recovered", "unhealthy"} /\ health.healthy \in BOOLEAN
        /\ ~hasBackup => switching = 0
    BY DEF BeatInv, BeatTypes, OutagePagedOnce, HealthStates
  <2>2. CASE health.healthy = FALSE
    <3>1. switching' = switching /\ paged' = paged /\ recovered' = recovered /\ lastPage' = lastPage
      BY <1>3, <2>2 DEF PageChange, heartbeatHistory
    <3> QED BY <2>1, <2>2, <3>1
  <2>3. CASE health.healthy = TRUE
    <3>1. \/ /\ hasBackup /\ switching' = switching + 1
             /\ paged' = paged /\ recovered' = recovered /\ lastPage' = lastPage
          \/ /\ paged' = paged + 1 /\ lastPage' = "unhealthy"
             /\ switching' = switching /\ recovered' = recovered
      BY <1>3, <2>3 DEF PageChange, heartbeatHistory
    <3> QED BY <2>1, <2>3, <3>1
  <2> QED BY <2>1, <2>2, <2>3
<1>5. BeatTypes'
  <2>1. sampling' \in Samplings
    BY <1>1 DEF NoSample, Samplings
  <2> QED BY <1>1, <1>2, <1>4, <2>1 DEF BeatInv, BeatTypes, NeverAdvanced
<1>6. SampleInTime' /\ HealthIsFresh'
  BY <1>1, <1>2 DEF SampleInTime, HealthIsFresh
<1>7. OutagePagedOnce'
  BY <1>1, <1>2, <1>4 DEF OutagePagedOnce
<1> QED BY <1>5, <1>6, <1>7 DEF BeatInv

LEMMA SwitchKeeps ==
  ASSUME BeatInv, EndSwitch
  PROVE  BeatInv'
<1>1. /\ switching > 0 /\ switching' = switching - 1
      /\ paged' = paged + 1 /\ lastPage' = "unhealthy" /\ recovered' = recovered
      /\ beatTime' = beatTime /\ head' = head /\ answering' = answering /\ hasBackup' = hasBackup
      /\ health' = health /\ nextBeat' = nextBeat /\ sampling' = sampling /\ downSince' = downSince
  BY DEF EndSwitch
<1>2. \/ provider' = provider /\ askedSince' = askedSince
      \/ provider' = "backup" /\ askedSince' = beatTime
  BY DEF EndSwitch
<1>3. /\ switching \in Nat /\ paged \in Nat /\ hasBackup /\ beatTime \in Nat /\ "backup" \in Providers
  BY <1>1 DEF BeatInv, BeatTypes, Providers
<1>4. BeatTypes'
  BY <1>1, <1>2, <1>3 DEF BeatInv, BeatTypes, NeverAdvanced
<1>5. SampleInTime'
  <2>1. CASE provider' = provider /\ askedSince' = askedSince
    BY <1>1, <2>1 DEF BeatInv, SampleInTime
  <2>2. CASE provider' = "backup" /\ askedSince' = beatTime
    <3>1. sampling # NoSample => sampling.at <= beatTime
      BY Limits DEF BeatInv, BeatTypes, SampleInTime, Samplings
    <3> QED BY <1>1, <2>2, <3>1 DEF BeatInv, SampleInTime
  <2> QED BY <1>2, <2>1, <2>2
<1>6. HealthIsFresh'
  <2>1. CASE provider' = provider /\ askedSince' = askedSince
    BY <1>1, <2>1 DEF BeatInv, HealthIsFresh, Fresh, NeverAdvanced
  <2>2. CASE provider' = "backup" /\ askedSince' = beatTime
    <3>1. nextBeat' <= askedSince' + BeatInterval
      BY <1>1, <2>2 DEF BeatInv, BeatTypes
    <3> QED BY <3>1 DEF HealthIsFresh, Fresh
  <2> QED BY <1>2, <2>1, <2>2
<1>7. OutagePagedOnce'
  <2>1. /\ paged + switching = recovered + (IF health.healthy THEN 0 ELSE 1)
    BY DEF BeatInv, OutagePagedOnce
  <2>2. paged' + switching' = paged + switching
    BY <1>1, <1>3
  <2> QED BY <1>1, <1>3, <2>1, <2>2 DEF OutagePagedOnce
<1> QED BY <1>4, <1>5, <1>6, <1>7 DEF BeatInv

LEMMA ChangeKeeps ==
  ASSUME BeatInv, NEW p \in Providers, ProviderChanges(p)
  PROVE  BeatInv'
<1>1. /\ beatTime' = beatTime /\ hasBackup' = hasBackup /\ provider' = provider /\ health' = health
      /\ nextBeat' = nextBeat /\ sampling' = sampling /\ switching' = switching
      /\ paged' = paged /\ recovered' = recovered /\ lastPage' = lastPage /\ askedSince' = askedSince
  BY DEF ProviderChanges, heartbeatHistory
<1>2. \/ /\ head' = [head EXCEPT ![p] = [number |-> head[p].number + 1, time |-> beatTime]]
         /\ answering' = answering /\ downSince' = downSince
      \/ /\ answering' = answering \ {p} /\ head' = head
         /\ downSince' = [downSince EXCEPT ![p] = beatTime]
      \/ /\ answering' = answering \union {p} /\ head' = head
         /\ downSince' = [downSince EXCEPT ![p] = NeverAdvanced]
  BY DEF ProviderChanges
<1>3. /\ beatTime \in Nat /\ NeverAdvanced \in Nat /\ nextBeat <= beatTime + BeatInterval
      /\ provider \in Providers /\ head \in [Providers -> [number : Nat, time : Nat]]
      /\ downSince \in [Providers -> Nat] /\ answering \subseteq Providers
      /\ \A q \in Providers : q \in answering => downSince[q] = NeverAdvanced
  BY Limits DEF BeatInv, BeatTypes
<1>4. /\ head' \in [Providers -> [number : Nat, time : Nat]] /\ downSince' \in [Providers -> Nat]
      /\ answering' \subseteq Providers
      /\ \A q \in Providers : q \in answering' => downSince'[q] = NeverAdvanced
      /\ head'[provider].time = head[provider].time \/ head'[provider].time = beatTime
      /\ \/ downSince'[provider] = downSince[provider] \/ downSince'[provider] = beatTime
         \/ downSince'[provider] = NeverAdvanced
  <2>1. CASE /\ head' = [head EXCEPT ![p] = [number |-> head[p].number + 1, time |-> beatTime]]
             /\ answering' = answering /\ downSince' = downSince
    <3>1. [number |-> head[p].number + 1, time |-> beatTime] \in [number : Nat, time : Nat]
      BY <1>3
    <3>2. head' \in [Providers -> [number : Nat, time : Nat]]
      BY <1>3, <2>1, <3>1
    <3>3. head'[provider] = head[provider] \/ head'[provider] = [number |-> head[p].number + 1, time |-> beatTime]
      BY <1>3, <2>1
    <3> QED BY <1>3, <2>1, <3>2, <3>3
  <2>2. CASE /\ answering' = answering \ {p} /\ head' = head
             /\ downSince' = [downSince EXCEPT ![p] = beatTime]
    BY <1>3, <2>2
  <2>3. CASE /\ answering' = answering \union {p} /\ head' = head
             /\ downSince' = [downSince EXCEPT ![p] = NeverAdvanced]
    BY <1>3, <2>3
  <2> QED BY <1>2, <2>1, <2>2, <2>3
<1>5. BeatTypes'
  BY <1>1, <1>4 DEF BeatInv, BeatTypes, NeverAdvanced
<1>6. SampleInTime'
  BY <1>1 DEF BeatInv, SampleInTime
<1>7. HealthIsFresh'
  <2> SUFFICES ASSUME health.healthy
               PROVE  /\ (downSince'[provider] # NeverAdvanced =>
                            Fresh(downSince[provider])' \/ Fresh(askedSince)')
                      /\ (Fresh(head[provider].time + StaleLimit)' \/ Fresh(askedSince)')
    BY <1>1 DEF HealthIsFresh, NeverAdvanced
  <2>1. /\ (downSince[provider] # NeverAdvanced => Fresh(downSince[provider]) \/ Fresh(askedSince))
        /\ (Fresh(head[provider].time + StaleLimit) \/ Fresh(askedSince))
    BY DEF BeatInv, HealthIsFresh
  <2>2. Fresh(askedSince) => Fresh(askedSince)'
    BY <1>1 DEF Fresh
  <2>3. downSince'[provider] # NeverAdvanced => Fresh(downSince[provider])' \/ Fresh(askedSince)'
    <3>1. CASE downSince'[provider] = downSince[provider]
      BY <1>1, <2>1, <2>2, <3>1 DEF Fresh
    <3>2. CASE downSince'[provider] = beatTime
      BY <1>1, <1>3, <3>2 DEF Fresh
    <3> QED BY <1>4, <3>1, <3>2
  <2>4. Fresh(head[provider].time + StaleLimit)' \/ Fresh(askedSince)'
    <3>1. CASE head'[provider].time = head[provider].time
      BY <1>1, <2>1, <2>2, <3>1 DEF Fresh
    <3>2. CASE head'[provider].time = beatTime
      <4>1. nextBeat' <= head'[provider'].time + StaleLimit + BeatInterval
        BY <1>1, <1>3, <3>2, Limits DEF BeatInv, BeatTypes
      <4> QED BY <4>1 DEF Fresh
    <3> QED BY <1>4, <3>1, <3>2
  <2> QED BY <2>3, <2>4
<1>8. OutagePagedOnce'
  BY <1>1 DEF BeatInv, OutagePagedOnce
<1> QED BY <1>5, <1>6, <1>7, <1>8 DEF BeatInv

LEMMA BeatTickKeeps ==
  ASSUME BeatInv, HeartbeatTick
  PROVE  BeatInv'
<1>1. /\ beatTime < MaxBeatTime /\ beatTime' = beatTime + 1 /\ beatTime < nextBeat
      /\ sampling # NoSample => beatTime < sampling.at + RpcTimeout
      /\ head' = head /\ answering' = answering /\ hasBackup' = hasBackup /\ provider' = provider
      /\ health' = health /\ nextBeat' = nextBeat /\ sampling' = sampling /\ switching' = switching
      /\ paged' = paged /\ recovered' = recovered /\ lastPage' = lastPage
      /\ downSince' = downSince /\ askedSince' = askedSince
  BY DEF HeartbeatTick, heartbeatHistory
<1>2. BeatTypes'
  BY <1>1, Limits DEF BeatInv, BeatTypes, NeverAdvanced
<1>3. SampleInTime'
  BY <1>1, Limits DEF BeatInv, BeatTypes, SampleInTime, Samplings
<1>4. HealthIsFresh'
  BY <1>1 DEF BeatInv, HealthIsFresh, Fresh, NeverAdvanced
<1>5. OutagePagedOnce'
  BY <1>1 DEF BeatInv, OutagePagedOnce
<1> QED BY <1>2, <1>3, <1>4, <1>5 DEF BeatInv

LEMMA BeatSteps ==
  ASSUME BeatInv, [HeartbeatNext]_heartbeatVars
  PROVE  BeatInv'
<1>1. CASE UNCHANGED heartbeatVars
  BY <1>1 DEF heartbeatVars, heartbeatHistory, BeatInv, BeatTypes, SampleInTime, HealthIsFresh,
              Fresh, OutagePagedOnce, NeverAdvanced
<1> QED BY <1>1, BeatKeeps, AnswerKeeps, FailKeeps, SwitchKeeps, ChangeKeeps, BeatTickKeeps
        DEF HeartbeatNext

-----------------------------------------------------------------------------
(* Start and shutdown.                                                     *)

\* Where a loop and a handler can be.
Places == {"off", "set up", "polling", "busy", "ended"}
Handling == {"none", "waiting", "cleaning", "over"}
HowEnded == {"no", "killed", "clean", "failed"}

LifeTypes ==
  /\ entry \in Entries /\ setUp \in Loops \union {"handlers", "serving"}
  /\ loop \in [Loops -> Places]
  /\ running \in [Loops -> BOOLEAN]
  /\ shutdown \in [Signals -> Handling]
  /\ exit \in HowEnded
  /\ received \in [Loops -> Nat] /\ after \in [Loops -> Nat]

\* The loop is stopped by a handler: what the handlers wait for.
Stopped(l) == l = "mint" \/ entry = "index"

\* Before the end of the set-up no handler has run and no running flag was taken
\* back; a poll under way when the flag is taken back takes one message.
LoopsKeep ==
  /\ \A s \in Signals : shutdown[s] # "none" => setUp = "serving"
  /\ \A l \in Loops : loop[l] = "polling" /\ ~running[l] => after[l] = 0
  /\ \A l \in Loops : after[l] <= 1
  /\ \A l \in Loops : running[l] => after[l] = 0
  /\ setUp # "serving" /\ entry = "index" =>
       \A l \in Loops : loop[l] \in {"off", "set up"} /\ received[l] = 0
  /\ exit = "killed" => setUp # "serving"
  /\ \A s \in Signals : shutdown[s] \in {"cleaning", "over"} =>
       \A l \in Loops : Stopped(l) => loop[l] \in {"off", "ended"}
  /\ exit \in {"clean", "failed"} => \E s \in Signals : shutdown[s] = "over"
  /\ setUp # "serving" =>
       \A l \in Loops : /\ after[l] = 0 /\ loop[l] # "ended"
                       /\ (loop[l] \in {"polling", "busy"} => running[l])
  /\ setUp = "serving" => \A l \in Loops : loop[l] # "set up"
  /\ \A l \in Loops : loop[l] \in {"off", "set up"} => after[l] = 0

LifeInv == LifeTypes /\ LoopsKeep

LEMMA LifeStarts ==
  ASSUME LifecycleInit PROVE LifeInv
BY DEF LifecycleInit, LifeInv, LifeTypes, LoopsKeep, Entries, Loops, Signals, Stopped, Places, Handling, HowEnded

LEMMA LifeGives ==
  ASSUME LifeInv PROVE ExitFinishesWork
<1> USE DEF LifeInv, LifeTypes, LoopsKeep, Entries, Loops, Signals, Stopped, Places, Handling, HowEnded
<1>1. ASSUME NEW l \in Loops, exit # "no", loop[l] = "busy"
      PROVE  exit = "killed" \/ (entry = "server" /\ l = "deploy")
  <2> SUFFICES ASSUME exit # "killed" PROVE entry = "server" /\ l = "deploy"
    OBVIOUS
  <2>1. PICK s \in Signals : shutdown[s] = "over"
    BY <1>1
  <2>2. ~Stopped(l)
    BY <1>1, <2>1
  <2> QED BY <2>2
<1>2. exit = "killed" /\ entry = "index" => \A l \in Loops : received[l] = 0
  OBVIOUS
<1> QED BY <1>1, <1>2 DEF ExitFinishesWork

LEMMA TakeKeeps ==
  ASSUME LifeInv, NEW l \in Loops, TakeMessage(l)
  PROVE  LifeInv'
<1>1. /\ exit = "no" /\ loop[l] = "polling"
      /\ loop' = [loop EXCEPT ![l] = "busy"] /\ received' = [received EXCEPT ![l] = received[l] + 1]
      /\ UNCHANGED <<entry, setUp, running, shutdown, connected, exit>>
  BY DEF TakeMessage
<1>2. /\ loop \in [Loops -> Places]
      /\ received \in [Loops -> Nat] /\ after \in [Loops -> Nat]
  BY DEF LifeInv, LifeTypes
<1>3. /\ loop' \in [Loops -> Places]
      /\ received' \in [Loops -> Nat]
      /\ \A k \in Loops : k # l => loop'[k] = loop[k] /\ received'[k] = received[k]
      /\ loop'[l] = "busy"
  <2>1. "busy" \in Places
    BY DEF Places
  <2>3. /\ loop' \in [Loops -> Places] /\ loop'[l] = "busy"
        /\ \A k \in Loops : k # l => loop'[k] = loop[k]
    BY <1>1, <1>2, <2>1
  <2>4. received' \in [Loops -> Nat] /\ \A k \in Loops : k # l => received'[k] = received[k]
    BY <1>1, <1>2
  <2> QED BY <2>3, <2>4
<1>4. after[l] = 0
  <2>1. loop[l] = "polling"
    BY <1>1
  <2>2. running[l] \/ ~running[l]
    OBVIOUS
  <2> QED BY <2>1, <2>2, Zenon DEF LifeInv, LoopsKeep
<1>5. \E n \in {0, 1} : after' = [after EXCEPT ![l] = n] /\ (running[l] => n = 0)
  <2>1. CASE running[l]
    <3>1. after' = [after EXCEPT ![l] = after[l]]
      BY <2>1 DEF TakeMessage
    <3> QED BY <1>4, <3>1
  <2>2. CASE ~running[l]
    <3>1. after' = [after EXCEPT ![l] = after[l] + 1]
      BY <2>2 DEF TakeMessage
    <3>2. after[l] + 1 = 1
      BY <1>4
    <3> QED BY <2>2, <3>1, <3>2, Zenon
  <2> QED BY <2>1, <2>2
<1>6. PICK n \in {0, 1} : after' = [after EXCEPT ![l] = n] /\ (running[l] => n = 0)
  BY <1>5
<1>7. /\ after' \in [Loops -> Nat] /\ after'[l] = n /\ n <= 1
      /\ \A k \in Loops : k # l => after'[k] = after[k]
  BY <1>2, <1>6
<1>8. LifeTypes'
  BY <1>1, <1>3, <1>7 DEF LifeInv, LifeTypes
<1>9. setUp # "serving" => running[l] /\ entry # "index"
  BY <1>1 DEF LifeInv, LoopsKeep
<1>10. LoopsKeep'
  <2>1. \A k \in Loops : after'[k] <= 1 /\ (running'[k] => after'[k] = 0)
    BY <1>1, <1>6, <1>7 DEF LifeInv, LoopsKeep
  <2> QED BY <1>1, <1>2, <1>3, <1>4, <1>6, <1>7, <1>9, <2>1, ZenonT(40) DEF LifeInv, LoopsKeep, Stopped
<1> QED BY <1>8, <1>10 DEF LifeInv

LEMMA LifeSteps ==
  ASSUME LifeInv, [LifecycleNext]_lifecycleVars
  PROVE  LifeInv'
<1> USE DEF LifeInv, LifeTypes, LoopsKeep, Entries, Loops, Signals, Stopped, Places, Handling, HowEnded
<1>1. CASE PrepareLoop
  <2>1. PICK works \in BOOLEAN :
          /\ loop' = [loop EXCEPT ![setUp] =
                       IF ~works THEN "off" ELSE IF entry = "server" THEN "polling" ELSE "set up"]
          /\ running' = [running EXCEPT ![setUp] = works /\ entry = "server"]
    BY <1>1 DEF PrepareLoop
  <2>2. /\ exit = "no" /\ setUp \in Loops /\ setUp' \in {"mint", "handlers"}
        /\ UNCHANGED <<entry, shutdown, exit, received, after>>
    BY <1>1 DEF PrepareLoop
  <2>3. /\ running' \in [Loops -> BOOLEAN]
        /\ \A l \in Loops : l # setUp => running'[l] = running[l] /\ loop'[l] = loop[l]
        /\ running'[setUp] <=> (works /\ entry = "server")
    BY <2>1, <2>2
  <2>4. /\ loop' \in [Loops -> Places]
        /\ loop'[setUp] = IF ~works THEN "off" ELSE IF entry = "server" THEN "polling" ELSE "set up"
    BY <2>1, <2>2
  <2>5. LifeTypes'
    BY <2>2, <2>3, <2>4
  <2>6. LoopsKeep'
    BY <2>2, <2>3, <2>4, ZenonT(40)
  <2> QED BY <2>5, <2>6
<1>2. CASE Serve
  <2>1. /\ exit = "no" /\ setUp = "handlers" /\ setUp' = "serving"
        /\ UNCHANGED <<entry, shutdown, exit, received, after>>
        /\ \A l \in Loops : loop'[l] = IF loop[l] = "set up" THEN "polling" ELSE loop[l]
        /\ loop' \in [Loops -> Places]
    BY <1>2 DEF Serve
  <2>2. running' = [l \in Loops |-> loop[l] # "off"]
    BY <1>2 DEF Serve
  <2>3. running' \in [Loops -> BOOLEAN] /\ \A l \in Loops : running'[l] <=> loop[l] # "off"
    BY <2>2
  <2>4. LifeTypes'
    BY <2>1, <2>3
  <2>5. LoopsKeep'
    BY <2>1, <2>3
  <2> QED BY <2>4, <2>5
<1>3. ASSUME NEW l \in Loops, TakeMessage(l) PROVE LifeInv'
  BY <1>3, TakeKeeps
<1>4. ASSUME NEW l \in Loops, Turn(l) PROVE LifeInv'
  BY <1>4 DEF Turn
<1>5. ASSUME NEW s \in Signals, Signal(s) PROVE LifeInv'
  <2>1. /\ exit = "no" /\ UNCHANGED <<entry, setUp, loop, connected, received, after>>
    BY <1>5 DEF Signal
  <2>2. CASE setUp # "serving"
    <3>1. exit' = "killed" /\ UNCHANGED <<running, shutdown>>
      BY <1>5, <2>2 DEF Signal
    <3> QED BY <2>1, <2>2, <3>1
  <2>3. CASE setUp = "serving"
    <3>1. /\ shutdown' = [shutdown EXCEPT ![s] = "waiting"] /\ exit' = exit
          /\ running' = [running EXCEPT !["mint"] = FALSE, !["deploy"] = @ /\ entry = "server"]
          /\ shutdown[s] = "none"
      BY <1>5, <2>3 DEF Signal
    <3>2. running' \in [Loops -> BOOLEAN]
      BY <3>1
    <3>3. \A l \in Loops : running'[l] => running[l]
      BY <3>1
    <3>4. shutdown' \in [Signals -> Handling] /\ \A t \in Signals : t # s => shutdown'[t] = shutdown[t]
      BY <3>1
    <3>5. shutdown'[s] = "waiting"
      BY <3>1
    <3>6. LifeTypes'
      BY <2>1, <3>1, <3>2, <3>4
    <3>7. LoopsKeep'
      BY <2>1, <2>3, <3>1, <3>3, <3>4, <3>5
    <3> QED BY <3>6, <3>7
  <2> QED BY <2>2, <2>3
<1>6. ASSUME NEW s \in Signals, LoopsEnded(s) PROVE LifeInv'
  BY <1>6 DEF LoopsEnded
<1>7. ASSUME NEW s \in Signals, CleanUpAndExit(s) PROVE LifeInv'
  BY <1>7, ZenonT(60) DEF CleanUpAndExit
<1>8. CASE UNCHANGED lifecycleVars
  BY <1>8 DEF lifecycleVars
<1> QED BY <1>1, <1>2, <1>3, <1>4, <1>5, <1>6, <1>7, <1>8 DEF LifecycleNext

-----------------------------------------------------------------------------
(* All parts side by side.                                                 *)

MonitorInv == TrackInv /\ AlertInv /\ WatchInv /\ TradeInv /\ BeatInv
ContractsInv == RegistryInv /\ RecordsInv /\ ParamsInv /\ FeesInv
PartsInv == ContractsInv /\ DeploymentInv /\ CostInv /\ LifeInv /\ MonitorInv

LEMMA PartsStart == SideBySide => PartsInv
BY RegistryStart, RecordsStart, ParamsStart, FeesInitially, DeploymentStart, CostsStart, LifeStarts,
   TrackStarts, AlertsStart, WatchStarts, TradeStarts, BeatStarts
   DEF SideBySide, PartsInv, ContractsInv, MonitorInv

\* A step of each part, or of none.
LEMMA OneStep ==
  ASSUME [AnyStep]_<<part, parts>>
  PROVE  /\ [Next]_vars /\ [ContributionNext]_contributionVars /\ [ParamsNext]_paramsVars
         /\ [FeesNext]_feesVars /\ [DeploymentNext]_deploymentVars
         /\ [LifecycleNext]_lifecycleVars /\ [CostNext]_costVars
         /\ [TrackerNext]_trackerVars /\ [AlertNext]_alertVars /\ [WatchNext]_watchVars
         /\ [TradeWatchNext]_tradeVars /\ [HeartbeatNext]_heartbeatVars
<1> USE DEF parts, contractParts, apiParts, monitorParts
<1>1. CASE UNCHANGED <<part, parts>>
  BY <1>1
<1>2. CASE FactoryStep
  BY <1>2 DEF FactoryStep
<1>3. CASE ContributionStep
  BY <1>3 DEF ContributionStep
<1>4. CASE ParamsStep
  BY <1>4 DEF ParamsStep
<1>5. CASE FeesStep
  BY <1>5 DEF FeesStep
<1>6. CASE DeploymentStep
  BY <1>6 DEF DeploymentStep
<1>7. CASE LifecycleStep
  BY <1>7 DEF LifecycleStep
<1>8. CASE CostStep
  BY <1>8 DEF CostStep
<1>9. CASE TrackerStep
  BY <1>9 DEF TrackerStep
<1>10. CASE AlertStep
  BY <1>10 DEF AlertStep
<1>11. CASE WatchStep
  BY <1>11 DEF WatchStep
<1>12. CASE TradeStep
  BY <1>12 DEF TradeStep
<1>13. CASE HeartbeatStep
  BY <1>13 DEF HeartbeatStep
<1> QED BY <1>1, <1>2, <1>3, <1>4, <1>5, <1>6, <1>7, <1>8, <1>9, <1>10, <1>11, <1>12, <1>13 DEF AnyStep

LEMMA PartsKeep ==
  ASSUME PartsInv, [AnyStep]_<<part, parts>>
  PROVE  /\ PartsInv'
         /\ [TakenIdStopsAutoIds /\ StatusMovesForward /\ QueuedValuesKeepEpochs]_<<part, parts>>
         /\ [ResidualSurvives /\ BatchNeedsEveryShare /\ CostsKeepEpochs]_feesVars
<1>1. /\ RegistryInv /\ RecordsInv /\ ParamsInv /\ FeesInv /\ DeploymentInv /\ CostInv /\ LifeInv
      /\ TrackInv /\ AlertInv /\ WatchInv /\ TradeInv /\ BeatInv
  BY DEF PartsInv, ContractsInv, MonitorInv
<1>2. /\ [Next]_vars /\ [ContributionNext]_contributionVars /\ [ParamsNext]_paramsVars
      /\ [FeesNext]_feesVars /\ [DeploymentNext]_deploymentVars
      /\ [LifecycleNext]_lifecycleVars /\ [CostNext]_costVars
      /\ [TrackerNext]_trackerVars /\ [AlertNext]_alertVars /\ [WatchNext]_watchVars
      /\ [TradeWatchNext]_tradeVars /\ [HeartbeatNext]_heartbeatVars
  BY OneStep
<1>3. RecordsInv' /\ [StatusMovesForward]_contributionVars
  BY <1>1, <1>2, RecordsStep
<1>4. ParamsInv' /\ QueuedValuesKeepEpochs
  BY <1>1, <1>2, ParamsKeep
<1>5. CostInv' /\ LifeInv'
  BY <1>1, <1>2, CostSteps, LifeSteps
<1>6. TrackInv'
  BY <1>1, <1>2, TrackSteps
<1>7. AlertInv' /\ WatchInv'
  BY <1>1, <1>2, AlertsStep, WatchSteps
<1>8. TradeInv' /\ BeatInv'
  BY <1>1, <1>2, TradeSteps, BeatSteps
<1>9. RegistryInv' /\ FeesInv' /\ DeploymentInv'
  BY <1>1, <1>2, RegistryKeeps, FeesKeep, DeploymentKeeps
<1>10. [ResidualSurvives /\ BatchNeedsEveryShare /\ CostsKeepEpochs]_feesVars
  BY <1>1, <1>2, SplitStep, CostsStep DEF FeesInv
<1>11. TakenIdStopsAutoIds
  <2>1. UNCHANGED vars => TakenIdStopsAutoIds
    BY DEF vars, registryVars, TakenIdStopsAutoIds
  <2> QED BY <1>2, <2>1, TakenIdStops
<1>12. StatusMovesForward
  <2>1. UNCHANGED contributionVars => StatusMovesForward
    BY <1>1 DEF contributionVars, StatusMovesForward, RecordsInv, RecordTypes
  <2> QED BY <1>3, <2>1
<1> QED BY <1>3, <1>4, <1>5, <1>6, <1>7, <1>8, <1>11, <1>12, <1>9, <1>10
  DEF PartsInv, ContractsInv, MonitorInv

\* The invariants of all twelve parts, together.
THEOREM PartsInvariant == ServicesSpec => []PartsInv
<1>1. PartsInv /\ [AnyStep]_<<part, parts>> => PartsInv'
  BY PartsKeep
<1> QED BY <1>1, PartsStart, PTL DEF ServicesSpec

\* However polls, alerts, the start of the monitor, trades, invoices, outages and
\* signals interleave: every pool that was created and can be known is watched, a
\* pause of a pool is reported when it lasts, alerts stay within their limits and
\* silence follows an alert, each trade seen counts once and its times are the
\* newest, lists keep the newest entries, a runway is what the invoices and the
\* balance give, a blind monitor knows it and pages it once, and a service that is
\* told to stop leaves no request half done.
THEOREM ServicesAlwaysSound == ServicesSpec => []ServicesSound
<1>1. PartsInv => ServicesSound
  <2> SUFFICES ASSUME PartsInv PROVE ServicesSound
    OBVIOUS
  <2>1. NoPoolIsMissed /\ DiscoveredIsWatched /\ TradesCounted /\ LateOnlyIfLarge /\ ListsSound
    BY WatchGives, TradesGive DEF PartsInv, MonitorInv
  <2>2. PauseIsReported /\ AlertsWithinLimits /\ SilenceFollowsAlert
    BY DEF PartsInv, MonitorInv, TrackInv, AlertInv
  <2>3. BlindnessIsNoticed /\ OutagePagedOnce
    BY BeatGives DEF PartsInv, MonitorInv
  <2>4. RunwayIsHonest /\ CostsRemembered /\ ExitFinishesWork
    BY CostsGive, LifeGives DEF PartsInv
  <2> QED BY <2>1, <2>2, <2>3, <2>4 DEF ServicesSound
<1> QED BY <1>1, PartsInvariant, PTL

\* No step moves the counter of ids past one that was registered by hand, moves a
\* record's status back, or applies queued parameters twice in an epoch.
THEOREM StepsAlwaysSound == ServicesSpec => StepsSound
<1>1. PartsInv /\ [AnyStep]_<<part, parts>>
        => [TakenIdStopsAutoIds /\ StatusMovesForward /\ QueuedValuesKeepEpochs]_<<part, parts>>
  BY PartsKeep
<1> QED BY <1>1, PartsInvariant, PTL DEF ServicesSpec, StepsSound

\* The contracts and the deployment service keep what they promise in the behaviours
\* of the run too, where all parts stand side by side.
THEOREM ContractsAlwaysSound ==
  ServicesSpec => /\ [](RegistrySound /\ RecordsSound /\ ParamsSound /\ DeploymentsSound /\ FeesAccounted)
                  /\ FeesSplitSoundly
<1>1. PartsInv => RegistrySound /\ RecordsSound /\ ParamsSound /\ DeploymentsSound /\ FeesAccounted
  BY RegistryGives, ParamsGive, DeploymentGives, FeesGive DEF PartsInv, ContractsInv, RecordsInv
<1>2. PartsInv /\ [AnyStep]_<<part, parts>>
        => [ResidualSurvives /\ BatchNeedsEveryShare /\ CostsKeepEpochs]_feesVars
  BY PartsKeep
<1> QED BY <1>1, <1>2, PartsInvariant, PTL DEF ServicesSpec, FeesSplitSoundly

=============================================================================
