------------------------ MODULE DeployListenerProofs ------------------------
(***************************************************************************)
(* Theorems about DeployListener, for any number of models, listeners,     *)
(* retries, failures and crashes.                                          *)
(***************************************************************************)
EXTENDS DeployListener, CountingTheorems

-----------------------------------------------------------------------------
(* The inductive invariant.                                                *)

\* The queues are multisets; a listener holds a message while it works on one,
\* and only one that has used up its retries is about to be buried.
ControlOK ==
  /\ IsABag(processing) /\ IsABag(deadLetters) /\ IsABag(published)
  /\ redisFaults \in Nat
  /\ \A w \in Workers :
       /\ pc[w] = "idle" <=> held[w] = NoMessage
       /\ pc[w] \in {"drop", "bury", "unlist"} => held[w].retryCount = maxRetries

\* Where a listener stands tells what is on the chain.
LaunchOrdered ==
  /\ registry \subseteq tokens /\ BagToSet(published) \subseteq registry
  /\ \A w \in Workers :
       /\ pc[w] = "register" => held[w].id \in tokens
       /\ pc[w] \in {"publish", "ack"} => held[w].id \in registry
  /\ \A i \in DOMAIN mempool :
       mempool[i].kind = "register" => mempool[i].id \in tokens
  /\ FinishedMeansRegistered

\* Listener w is about to announce the model.
Announcing(w, id) == pc[w] = "publish" /\ held[w].id = id

\* One listener announces a model, the one that registered it; what it published
\* before was answered by a failure each time.
AnnouncementsCounted ==
  /\ AnnouncedOnce
  /\ \A id \in Ids :
       /\ id \notin registry => Copies(id, published) = 0
       /\ \A w \in Workers : Announcing(w, id) => Copies(id, published) <= redisFaults
       /\ \A v, w \in Workers : Announcing(v, id) /\ Announcing(w, id) => v = w

\* What one listener still may take out of the lists: the last retry of a message,
\* which was put into them a second time, and the entry it has just buried.
LastTry(s, m) ==
  IF m.retryCount = maxRetries /\ s \notin {"bury", "unlist"} THEN 1 ELSE 0
JustBuried(s) == IF s \in {"unlistRejected", "unlist"} THEN 1 ELSE 0

Debt(s, m, id) ==
  IF s # "idle" /\ m.id = id THEN LastTry(s, m) + JustBuried(s) ELSE 0

Debts(id) == SumOf([w \in Workers |-> Debt(pc[w], held[w], id)], Workers)

WaitingIn(list, id) == Cardinality({i \in DOMAIN list : list[i].id = id})

\* Last retries nobody has taken up.
LastTriesIn(list, id) ==
  Cardinality({i \in DOMAIN list : list[i] = [id |-> id, retryCount |-> maxRetries]})

Listed(id) ==
  finished[id] + WaitingIn(inbound, id) + CopiesOf(id, processing) + CopiesOf(id, deadLetters)

\* No list loses a message: what is in them covers the debts of the listeners.
Balanced ==
  \A id \in Ids : delivered[id] + LastTriesIn(inbound, id) + Debts(id) <= Listed(id)

ListenerInv ==
  ListenerTypeOK /\ ControlOK /\ LaunchOrdered /\ AnnouncementsCounted /\ Balanced

USE DEF queues, chain, local, counts

-----------------------------------------------------------------------------
(* Messages, and the control state of a listener.                          *)

LEMMA MessageFields ==
  ASSUME NEW m \in Messages
  PROVE  /\ m.id \in Ids /\ m.retryCount \in 0..maxRetries
         /\ m = [id |-> m.id, retryCount |-> m.retryCount]
BY DEF Messages

LEMMA NextRetry ==
  ASSUME NEW m \in Messages, m.retryCount < maxRetries
  PROVE  /\ [m EXCEPT !.retryCount = @ + 1] \in Messages
         /\ [m EXCEPT !.retryCount = @ + 1].id = m.id
         /\ [m EXCEPT !.retryCount = @ + 1].retryCount = m.retryCount + 1
BY ListenerConstants DEF ListenerConstants, Messages

States == {"idle", "check", "deploy", "register", "publish", "ack",
           "reject", "unlistRejected", "failed", "drop", "bury", "unlist"}

\* A listener that is not idle holds a message.
LEMMA HoldsMessage ==
  ASSUME ListenerTypeOK, ControlOK, NEW w \in Workers, pc[w] # "idle"
  PROVE  /\ held[w] \in Messages /\ held[w].id \in Ids
         /\ held[w].retryCount \in 0..maxRetries /\ held[w] # NoMessage
<1>1. held[w] \in Messages /\ held[w] # NoMessage
  BY DEF ListenerTypeOK, ControlOK
<1> QED BY <1>1, MessageFields

\* Listener w moves to state s with message m; the others stay where they are.
Moves(w, s, m) ==
  /\ pc' = [pc EXCEPT ![w] = s]
  /\ held' = [held EXCEPT ![w] = m]
  /\ attempts' \in [Workers -> 0..(maxAttempts - 1)]

LEMMA GotoMoves ==
  ASSUME ListenerTypeOK, NEW w \in Workers, NEW s, Goto(w, s)
  PROVE  Moves(w, s, held[w])
BY ListenerConstants DEF ListenerConstants, ListenerTypeOK, Goto, Moves

LEMMA FinishMoves ==
  ASSUME ListenerTypeOK, NEW w \in Workers, Finish(w)
  PROVE  Moves(w, "idle", NoMessage)
BY ListenerConstants DEF ListenerConstants, ListenerTypeOK, Finish, Moves

LEMMA TryAgainMoves ==
  ASSUME ListenerTypeOK, NEW w \in Workers, TryAgain(w)
  PROVE  Moves(w, pc[w], held[w]) \/ Moves(w, "failed", held[w])
<1>1. CASE AttemptsLeft(w) /\ attempts' = [attempts EXCEPT ![w] = @ + 1] /\ UNCHANGED <<pc, held>>
  <2>1. attempts[w] + 1 \in 0..(maxAttempts - 1)
    BY <1>1, ListenerConstants DEF ListenerConstants, ListenerTypeOK, AttemptsLeft
  <2>2. attempts' \in [Workers -> 0..(maxAttempts - 1)]
    BY <1>1, <2>1 DEF ListenerTypeOK
  <2>3. pc' = [pc EXCEPT ![w] = pc[w]] /\ held' = [held EXCEPT ![w] = held[w]]
    BY <1>1 DEF ListenerTypeOK
  <2> QED BY <2>2, <2>3 DEF Moves
<1>2. CASE Throw(w)
  BY <1>2, GotoMoves DEF Throw
<1> QED BY <1>1, <1>2 DEF TryAgain

\* Where the listeners are after a move.
LEMMA MovedTypes ==
  ASSUME ListenerTypeOK, NEW w \in Workers, NEW s \in States,
         NEW m \in Messages \union {NoMessage}, Moves(w, s, m)
  PROVE  /\ pc' \in [Workers -> States]
         /\ held' \in [Workers -> Messages \union {NoMessage}]
         /\ attempts' \in [Workers -> 0..(maxAttempts - 1)]
         /\ pc'[w] = s /\ held'[w] = m
         /\ \A v \in Workers \ {w} : pc'[v] = pc[v] /\ held'[v] = held[v]
BY DEF ListenerTypeOK, Moves, States

-----------------------------------------------------------------------------
(* Counting entries: of the inbound list by their places, of a bag by their *)
(* copies.                                                                 *)

Places(seq, S) == {i \in DOMAIN seq : seq[i] \in S}

Ones(b) == IF b THEN 1 ELSE 0

LEMMA PlacesFinite ==
  ASSUME NEW T, NEW seq \in Seq(T), NEW S
  PROVE  IsFiniteSet(Places(seq, S)) /\ Cardinality(Places(seq, S)) \in Nat
<1>1. DOMAIN seq = 1..Len(seq) /\ Len(seq) \in Nat
  OBVIOUS
<1>2. IsFiniteSet(1..Len(seq))
  BY <1>1, FS_Interval
<1>3. IsFiniteSet(Places(seq, S))
  BY <1>1, <1>2, FS_Subset DEF Places
<1> QED BY <1>3, FS_CardinalityType

\* LPUSH moves every place by one.
LEMMA PlacesPushed ==
  ASSUME NEW T, NEW seq \in Seq(T), NEW x \in T, NEW S
  PROVE  /\ <<x>> \o seq \in Seq(T)
         /\ Cardinality(Places(<<x>> \o seq, S))
              = Cardinality(Places(seq, S)) + Ones(x \in S)
<1> DEFINE new == <<x>> \o seq
           shifted == {i + 1 : i \in Places(seq, S)}
<1>1. /\ new \in Seq(T) /\ Len(seq) \in Nat /\ Len(new) = Len(seq) + 1
      /\ DOMAIN seq = 1..Len(seq) /\ DOMAIN new = 1..(Len(seq) + 1)
      /\ new[1] = x /\ \A i \in 1..Len(seq) : new[i + 1] = seq[i]
  OBVIOUS
<1> SUFFICES new \in Seq(T)
               /\ Cardinality(Places(new, S)) = Cardinality(Places(seq, S)) + Ones(x \in S)
  OBVIOUS
<1> HIDE DEF new
<1>2. IsFiniteSet(Places(seq, S)) /\ Cardinality(Places(seq, S)) \in Nat
  BY PlacesFinite
<1>3. IsFiniteSet(shifted) /\ Cardinality(shifted) = Cardinality(Places(seq, S))
  <2> DEFINE move == [i \in Places(seq, S) |-> i + 1]
  <2>1. \A i \in Places(seq, S) : i \in Nat
    BY <1>1 DEF Places
  <2>2. move \in Bijection(Places(seq, S), shifted)
    BY <2>1 DEF Bijection, Injection, Surjection, IsInjective
  <2>3. ExistsBijection(Places(seq, S), shifted)
    BY <2>2 DEF ExistsBijection
  <2> QED BY <1>2, <2>3, FS_Bijection
<1>4. ASSUME NEW j PROVE j \in Places(new, S) <=> j \in shifted \/ (j = 1 /\ x \in S)
  <2>1. ASSUME j \in Places(new, S), j # 1 PROVE j \in shifted
    <3>1. j - 1 \in 1..Len(seq) /\ new[(j - 1) + 1] = seq[j - 1] /\ (j - 1) + 1 = j
      BY <1>1, <2>1 DEF Places
    <3>2. j - 1 \in Places(seq, S)
      BY <1>1, <2>1, <3>1 DEF Places
    <3> QED BY <3>1, <3>2
  <2>2. ASSUME j \in shifted PROVE j \in Places(new, S)
    BY <1>1, <2>2 DEF Places
  <2> QED BY <1>1, <2>1, <2>2 DEF Places
<1>5. 1 \notin shifted
  BY <1>1 DEF Places
<1>6. CASE x \in S
  <2>1. Places(new, S) = shifted \union {1}
    BY <1>4, <1>6
  <2> HIDE DEF shifted
  <2>2. Cardinality(shifted \union {1}) = Cardinality(shifted) + 1
    BY <1>3, <1>5, FS_AddElement
  <2> QED BY <1>1, <1>3, <1>6, <2>1, <2>2 DEF Ones
<1>7. CASE x \notin S
  <2>1. Places(new, S) = shifted
    BY <1>4, <1>7
  <2> QED BY <1>1, <1>2, <1>3, <1>7, <2>1 DEF Ones
<1> QED BY <1>6, <1>7

\* BRPOPLPUSH takes the last place.
LEMMA PlacesPopped ==
  ASSUME NEW T, NEW seq \in Seq(T), seq # <<>>, NEW S
  PROVE  /\ SubSeq(seq, 1, Len(seq) - 1) \in Seq(T) /\ seq[Len(seq)] \in T
         /\ Cardinality(Places(SubSeq(seq, 1, Len(seq) - 1), S))
              = Cardinality(Places(seq, S)) - Ones(seq[Len(seq)] \in S)
<1> DEFINE new == SubSeq(seq, 1, Len(seq) - 1)
           n == Len(seq)
<1>1. /\ n \in Nat \ {0} /\ DOMAIN seq = 1..n /\ seq[n] \in T
      /\ new \in Seq(T) /\ DOMAIN new = 1..(n - 1)
      /\ \A i \in 1..(n - 1) : new[i] = seq[i]
  OBVIOUS
<1> SUFFICES new \in Seq(T) /\ seq[n] \in T
               /\ Cardinality(Places(new, S)) = Cardinality(Places(seq, S)) - Ones(seq[n] \in S)
  OBVIOUS
<1> HIDE DEF new, n
<1>2. IsFiniteSet(Places(seq, S)) /\ Cardinality(Places(seq, S)) \in Nat
  BY PlacesFinite
<1>3. Places(new, S) = Places(seq, S) \ {n}
  BY <1>1 DEF Places
<1>4. n \in Places(seq, S) <=> seq[n] \in S
  BY <1>1 DEF Places
<1>5. CASE seq[n] \in S
  <2>1. Cardinality(Places(seq, S) \ {n}) = Cardinality(Places(seq, S)) - 1
    BY <1>2, <1>4, <1>5, FS_RemoveElement
  <2> QED BY <1>1, <1>3, <1>5, <2>1 DEF Ones
<1>6. CASE seq[n] \notin S
  <2>1. Places(seq, S) \ {n} = Places(seq, S)
    BY <1>4, <1>6
  <2>2. Cardinality(Places(new, S)) = Cardinality(Places(seq, S)) /\ Ones(seq[n] \in S) = 0
    BY <1>3, <1>6, <2>1 DEF Ones
  <2> QED BY <1>1, <1>2, <2>2
<1> QED BY <1>5, <1>6

LEMMA ListedType ==
  ASSUME NEW list \in Seq(Messages), NEW id \in Ids
  PROVE  /\ WaitingIn(list, id) = Cardinality(Places(list, {m \in Messages : m.id = id}))
         /\ LastTriesIn(list, id)
              = Cardinality(Places(list, {[id |-> id, retryCount |-> maxRetries]}))
         /\ WaitingIn(list, id) \in Nat /\ LastTriesIn(list, id) \in Nat
<1> DEFINE own == {m \in Messages : m.id = id}
           last == [id |-> id, retryCount |-> maxRetries]
<1>1. \A i \in DOMAIN list : list[i] \in Messages
  OBVIOUS
<1>2. {i \in DOMAIN list : list[i].id = id} = Places(list, own)
  BY <1>1 DEF Places
<1>3. {i \in DOMAIN list : list[i] = last} = Places(list, {last})
  BY DEF Places
<1> HIDE DEF own, last
<1>4. /\ Cardinality(Places(list, own)) \in Nat
      /\ Cardinality(Places(list, {last})) \in Nat
  BY PlacesFinite
<1> QED BY <1>2, <1>3, <1>4 DEF WaitingIn, LastTriesIn, own, last

LEMMA Enqueued ==
  ASSUME NEW list \in Seq(Messages), NEW m \in Messages, NEW id \in Ids
  PROVE  /\ <<m>> \o list \in Seq(Messages)
         /\ WaitingIn(<<m>> \o list, id) = WaitingIn(list, id) + Ones(m.id = id)
         /\ LastTriesIn(<<m>> \o list, id)
              = LastTriesIn(list, id) + Ones(m.id = id /\ m.retryCount = maxRetries)
<1> DEFINE own == {x \in Messages : x.id = id}
           last == [id |-> id, retryCount |-> maxRetries]
           new == <<m>> \o list
<1>1. m \in own <=> m.id = id
  OBVIOUS
<1>2. m \in {last} <=> m.id = id /\ m.retryCount = maxRetries
  BY MessageFields
<1>3. Ones(m \in own) = Ones(m.id = id)
      /\ Ones(m \in {last}) = Ones(m.id = id /\ m.retryCount = maxRetries)
  BY <1>1, <1>2 DEF Ones
<1>4. new \in Seq(Messages)
  BY PlacesPushed
<1> HIDE DEF own, last
<1>5. /\ Cardinality(Places(new, own)) = Cardinality(Places(list, own)) + Ones(m \in own)
      /\ Cardinality(Places(new, {last}))
           = Cardinality(Places(list, {last})) + Ones(m \in {last})
  BY PlacesPushed
<1> HIDE DEF new
<1>6. /\ WaitingIn(list, id) = Cardinality(Places(list, own))
      /\ LastTriesIn(list, id) = Cardinality(Places(list, {last}))
  BY ListedType DEF own, last
<1>7. /\ WaitingIn(new, id) = Cardinality(Places(new, own))
      /\ LastTriesIn(new, id) = Cardinality(Places(new, {last}))
  BY <1>4, ListedType DEF own, last
<1>8. /\ WaitingIn(new, id) = WaitingIn(list, id) + Ones(m.id = id)
      /\ LastTriesIn(new, id)
           = LastTriesIn(list, id) + Ones(m.id = id /\ m.retryCount = maxRetries)
  BY <1>3, <1>5, <1>6, <1>7
<1> QED BY <1>4, <1>8 DEF new

LEMMA Dequeued ==
  ASSUME NEW list \in Seq(Messages), list # <<>>, NEW id \in Ids
  PROVE  LET left == SubSeq(list, 1, Len(list) - 1)
             m == list[Len(list)]
         IN  /\ left \in Seq(Messages) /\ m \in Messages
             /\ WaitingIn(left, id) = WaitingIn(list, id) - Ones(m.id = id)
             /\ LastTriesIn(left, id)
                  = LastTriesIn(list, id) - Ones(m.id = id /\ m.retryCount = maxRetries)
<1> DEFINE own == {x \in Messages : x.id = id}
           last == [id |-> id, retryCount |-> maxRetries]
           left == SubSeq(list, 1, Len(list) - 1)
           m == list[Len(list)]
<1>1. left \in Seq(Messages) /\ m \in Messages
  BY PlacesPopped
<1> HIDE DEF last
<1>2. /\ Cardinality(Places(left, own)) = Cardinality(Places(list, own)) - Ones(m \in own)
      /\ Cardinality(Places(left, {last}))
           = Cardinality(Places(list, {last})) - Ones(m \in {last})
  BY PlacesPopped
<1> HIDE DEF left, m
<1>3. m \in own <=> m.id = id
  BY <1>1
<1>4. m \in {last} <=> m.id = id /\ m.retryCount = maxRetries
  BY <1>1, MessageFields DEF last
<1>5. Ones(m \in own) = Ones(m.id = id)
      /\ Ones(m \in {last}) = Ones(m.id = id /\ m.retryCount = maxRetries)
  BY <1>3, <1>4 DEF Ones
<1> HIDE DEF own
<1>6. /\ WaitingIn(list, id) = Cardinality(Places(list, own))
      /\ LastTriesIn(list, id) = Cardinality(Places(list, {last}))
  BY ListedType DEF own, last
<1>7. /\ WaitingIn(left, id) = Cardinality(Places(left, own))
      /\ LastTriesIn(left, id) = Cardinality(Places(left, {last}))
  BY <1>1, ListedType DEF own, last
<1>8. /\ WaitingIn(left, id) = WaitingIn(list, id) - Ones(m.id = id)
      /\ LastTriesIn(left, id)
           = LastTriesIn(list, id) - Ones(m.id = id /\ m.retryCount = maxRetries)
  BY <1>2, <1>5, <1>6, <1>7
<1> QED BY <1>1, <1>8 DEF left, m

\* A model's copies in a bag.
CopiesByRetry(id, bag) ==
  [k \in 0..maxRetries |-> Copies([id |-> id, retryCount |-> k], bag)]

LEMMA CopiesOfType ==
  ASSUME NEW bag, IsABag(bag), NEW id \in Ids
  PROVE  /\ IsFiniteSet(0..maxRetries)
         /\ \A k \in 0..maxRetries : CopiesByRetry(id, bag)[k] \in Nat
         /\ CopiesOf(id, bag) = SumOf(CopiesByRetry(id, bag), 0..maxRetries)
         /\ CopiesOf(id, bag) \in Nat
<1>1. IsFiniteSet(0..maxRetries)
  BY FS_Interval, ListenerConstants DEF ListenerConstants
<1>2. \A k \in 0..maxRetries : CopiesByRetry(id, bag)[k] \in Nat
  BY CopiesType DEF CopiesByRetry
<1>3. CopiesOf(id, bag) = SumOf(CopiesByRetry(id, bag), 0..maxRetries)
  BY DEF CopiesOf, CopiesByRetry
<1> QED BY <1>1, <1>2, <1>3, SumType

\* Of a bag that changes in the copies of one message, the counts of the models
\* other than the message's stay, and its own changes as the copies do.
LEMMA CopiesOfChange ==
  ASSUME NEW bag, IsABag(bag), NEW new, IsABag(new), NEW m \in Messages,
         \A x : x # m => Copies(x, new) = Copies(x, bag), NEW id \in Ids
  PROVE  CopiesOf(id, new)
           = IF m.id = id THEN CopiesOf(id, bag) - Copies(m, bag) + Copies(m, new)
                          ELSE CopiesOf(id, bag)
<1> DEFINE f == CopiesByRetry(id, bag)
           g == CopiesByRetry(id, new)
           k == m.retryCount
<1>1. k \in 0..maxRetries /\ m = [id |-> m.id, retryCount |-> k]
  BY MessageFields
<1>2. /\ IsFiniteSet(0..maxRetries)
      /\ \A j \in 0..maxRetries : f[j] \in Nat /\ g[j] \in Nat
      /\ CopiesOf(id, bag) = SumOf(f, 0..maxRetries)
      /\ CopiesOf(id, new) = SumOf(g, 0..maxRetries)
  BY CopiesOfType
<1>3. CASE m.id = id
  <2>1. \A j \in 0..maxRetries \ {k} : g[j] = f[j]
    BY <1>1 DEF CopiesByRetry
  <2>2. f[k] = Copies(m, bag) /\ g[k] = Copies(m, new)
    BY <1>1, <1>3 DEF CopiesByRetry
  <2> DEFINE R == 0..maxRetries
  <2>4. k \in R /\ IsFiniteSet(R) /\ (\A j \in R : f[j] \in Nat) /\ (\A j \in R : g[j] \in Nat)
    BY <1>1, <1>2
  <2>5. \A j \in R \ {k} : g[j] = f[j]
    BY <2>1
  <2> HIDE DEF f, g, k, R
  <2>3. SumOf(g, R) = SumOf(f, R) - f[k] + g[k]
    BY <2>4, <2>5, SumChange
  <2> QED BY <1>2, <1>3, <2>2, <2>3 DEF R
<1>4. CASE m.id # id
  <2>1. \A j \in 0..maxRetries : g[j] = f[j]
    BY <1>4 DEF CopiesByRetry
  <2> HIDE DEF f, g
  <2>2. SumOf(g, 0..maxRetries) = SumOf(f, 0..maxRetries)
    BY <2>1, SumSame
  <2> QED BY <1>2, <1>4, <2>2
<1> QED BY <1>3, <1>4

LEMMA CopiesOfPushed ==
  ASSUME NEW bag, IsABag(bag), NEW m \in Messages, NEW id \in Ids
  PROVE  CopiesOf(id, bag (+) One(m)) = CopiesOf(id, bag) + Ones(m.id = id)
<1> DEFINE new == bag (+) One(m)
<1>1. /\ IsABag(new) /\ Copies(m, new) = Copies(m, bag) + 1
      /\ \A x : x # m => Copies(x, new) = Copies(x, bag)
  BY CopiesPushed
<1> HIDE DEF new
<1>2. CopiesOf(id, bag) \in Nat /\ Copies(m, bag) \in Nat
  BY CopiesOfType, CopiesType
<1>3. CopiesOf(id, new)
        = IF m.id = id THEN CopiesOf(id, bag) - Copies(m, bag) + Copies(m, new)
                       ELSE CopiesOf(id, bag)
  BY <1>1, CopiesOfChange
<1>4. CopiesOf(id, new) = CopiesOf(id, bag) + Ones(m.id = id)
  BY <1>1, <1>2, <1>3 DEF Ones
<1> QED BY <1>4 DEF new

LEMMA CopiesOfRemoved ==
  ASSUME NEW bag, IsABag(bag), NEW m \in Messages, NEW id \in Ids
  PROVE  /\ CopiesOf(id, bag (-) One(m)) \in Nat
         /\ CopiesOf(id, bag) <= CopiesOf(id, bag (-) One(m)) + Ones(m.id = id)
<1> DEFINE new == bag (-) One(m)
<1>1. /\ IsABag(new)
      /\ Copies(m, new) = IF Copies(m, bag) = 0 THEN 0 ELSE Copies(m, bag) - 1
      /\ \A x : x # m => Copies(x, new) = Copies(x, bag)
  BY CopiesRemoved
<1> HIDE DEF new
<1>2. CopiesOf(id, bag) \in Nat /\ Copies(m, bag) \in Nat /\ CopiesOf(id, new) \in Nat
  BY <1>1, CopiesOfType, CopiesType
<1>3. CopiesOf(id, new)
        = IF m.id = id THEN CopiesOf(id, bag) - Copies(m, bag) + Copies(m, new)
                       ELSE CopiesOf(id, bag)
  BY <1>1, CopiesOfChange
<1>4. CopiesOf(id, bag) <= CopiesOf(id, new) + Ones(m.id = id)
  BY <1>1, <1>2, <1>3 DEF Ones
<1> QED BY <1>2, <1>4 DEF new

-----------------------------------------------------------------------------
(* What the steps do, component by component.                              *)

LEMMA AfterCallMoves ==
  ASSUME ListenerTypeOK, NEW w \in Workers, AfterCall(w)
  PROVE  \/ pc[w] = "publish" /\ Moves(w, "ack", held[w])
         \/ pc[w] = "reject" /\ Moves(w, "unlistRejected", held[w])
         \/ pc[w] = "drop" /\ Moves(w, "bury", held[w])
         \/ pc[w] = "bury" /\ Moves(w, "unlist", held[w])
         \/ pc[w] \notin {"publish", "reject", "drop", "bury"} /\ Moves(w, "idle", NoMessage)
BY GotoMoves, FinishMoves DEF AfterCall

LEMMA AfterFailureMoves ==
  ASSUME ListenerTypeOK, NEW w \in Workers, AfterFailure(w)
  PROVE  \/ pc[w] = "publish" /\ (Moves(w, "publish", held[w]) \/ Moves(w, "failed", held[w]))
         \/ pc[w] \in {"ack", "reject", "unlistRejected"} /\ Moves(w, "failed", held[w])
         \/ pc[w] \notin {"publish", "ack", "reject", "unlistRejected"}
            /\ Moves(w, "idle", NoMessage)
BY GotoMoves, FinishMoves, TryAgainMoves DEF AfterFailure, Throw

\* A listener takes the last message of the list; a malformed one is rejected.
LEMMA TakeMoves ==
  ASSUME ListenerTypeOK, NEW w \in Workers, TakeMessage(w)
  PROVE  /\ inbound[Len(inbound)] \in Messages
         /\ \/ Moves(w, "reject", inbound[Len(inbound)])
            \/ Moves(w, "check", inbound[Len(inbound)])
<1>1. inbound \in Seq(Messages) /\ inbound # <<>>
  BY DEF ListenerTypeOK, TakeMessage, Move
<1>2. inbound[Len(inbound)] \in Messages
  BY <1>1
<1>3. attempts' \in [Workers -> 0..(maxAttempts - 1)]
  BY DEF ListenerTypeOK, TakeMessage
<1> QED BY <1>2, <1>3 DEF TakeMessage, Moves

\* The other steps of a listener and its failures.
LEMMA HandlerMoves ==
  ASSUME ListenerTypeOK, NEW w \in Workers,
         \/ CheckModelExists(w) \/ CheckReverts(w) \/ DeployToken(w) \/ RefuseToDeploy(w)
         \/ RegisterModel(w) \/ RejectEvent(w) \/ GiveUp(w) \/ RpcFails(w)
  PROVE  /\ pc[w] \in {"check", "deploy", "register", "publish", "failed"}
         /\ \/ \E s \in {"ack", "deploy", "register", "publish", "failed"} : Moves(w, s, held[w])
            \/ GiveUp(w) /\ Moves(w, "drop", held[w])
<1>1. CASE CheckModelExists(w) \/ CheckReverts(w) \/ RefuseToDeploy(w) \/ GiveUp(w)
  BY <1>1, GotoMoves DEF CheckModelExists, SkipExisting, CheckReverts, RefuseToDeploy, GiveUp, Throw
<1>2. CASE DeployToken(w)
  BY <1>2, GotoMoves, TryAgainMoves DEF DeployToken, DeploymentReverts
<1>3. CASE RegisterModel(w)
  BY <1>3, GotoMoves DEF RegisterModel, AfterRegistration, Throw
<1>4. CASE RejectEvent(w) \/ RpcFails(w)
  BY <1>4, GotoMoves, TryAgainMoves DEF RejectEvent, RpcFails, Throw
<1> QED BY <1>1, <1>2, <1>3, <1>4

\* The listeners' own variables keep their types, and the held messages fit.
LocalOK ==
  /\ pc \in [Workers -> States]
  /\ held \in [Workers -> Messages \union {NoMessage}]
  /\ attempts \in [Workers -> 0..(maxAttempts - 1)]
  /\ \A w \in Workers :
       /\ pc[w] = "idle" <=> held[w] = NoMessage
       /\ pc[w] \in {"drop", "bury", "unlist"} => held[w].retryCount = maxRetries

LEMMA MovedLocal ==
  ASSUME ListenerTypeOK, ControlOK, NEW w \in Workers, NEW s \in States,
         NEW m \in Messages \union {NoMessage}, Moves(w, s, m),
         s = "idle" <=> m = NoMessage,
         s \in {"drop", "bury", "unlist"} => m.retryCount = maxRetries
  PROVE  LocalOK'
<1>1. /\ pc' \in [Workers -> States]
      /\ held' \in [Workers -> Messages \union {NoMessage}]
      /\ attempts' \in [Workers -> 0..(maxAttempts - 1)]
      /\ pc'[w] = s /\ held'[w] = m
      /\ \A v \in Workers \ {w} : pc'[v] = pc[v] /\ held'[v] = held[v]
  BY MovedTypes
<1>2. ASSUME NEW v \in Workers
      PROVE  /\ pc'[v] = "idle" <=> held'[v] = NoMessage
             /\ pc'[v] \in {"drop", "bury", "unlist"} => held'[v].retryCount = maxRetries
  BY <1>1, <1>2 DEF ControlOK
<1> QED BY <1>1, <1>2 DEF LocalOK

LEMMA LocalStep ==
  ASSUME ListenerTypeOK, ControlOK, NEW w \in Workers, ListenerStep(w) \/ Failure(w)
  PROVE  LocalOK'
<1> NoMessage \notin Messages
  BY ListenerConstants DEF ListenerConstants
<1> pc[w] # "idle" => held[w] \in Messages /\ held[w] # NoMessage
  BY HoldsMessage
<1> USE DEF States
<1>1. CASE TakeMessage(w)
  BY <1>1, TakeMoves, MovedLocal
<1>2. CASE \/ CheckModelExists(w) \/ CheckReverts(w) \/ DeployToken(w) \/ RefuseToDeploy(w)
           \/ RegisterModel(w) \/ RejectEvent(w) \/ RpcFails(w) \/ GiveUp(w)
  <2>1. pc[w] # "idle"
    BY <1>2, HandlerMoves
  <2>2. CASE \E s \in {"ack", "deploy", "register", "publish", "failed"} : Moves(w, s, held[w])
    <3>1. PICK s \in {"ack", "deploy", "register", "publish", "failed"} : Moves(w, s, held[w])
      BY <2>2
    <3> QED BY <2>1, <3>1, MovedLocal
  <2>3. CASE GiveUp(w) /\ Moves(w, "drop", held[w])
    BY <2>1, <2>3, MovedLocal DEF GiveUp
  <2> QED BY <1>2, <2>2, <2>3, HandlerMoves
<1>3. CASE CallRedis(w)
  <2>1. pc[w] # "idle"
    BY <1>3 DEF CallRedis, RedisCall
  <2>2. AfterCall(w)
    BY <1>3 DEF CallRedis
  <2> QED BY <2>1, <2>2, AfterCallMoves, MovedLocal DEF ControlOK
<1>4. CASE RedisFails(w)
  <2>1. pc[w] # "idle"
    BY <1>4 DEF RedisFails, CallsRedis
  <2>2. AfterFailure(w)
    BY <1>4 DEF RedisFails
  <2> QED BY <2>1, <2>2, AfterFailureMoves, MovedLocal
<1>5. CASE TakeReplyLost(w)
  BY <1>5 DEF TakeReplyLost, LocalOK, ListenerTypeOK, ControlOK
<1>6. CASE Crash(w)
  BY <1>6, FinishMoves, MovedLocal DEF Crash
<1> QED BY <1>1, <1>2, <1>3, <1>4, <1>5, <1>6 DEF ListenerStep, Failure

\* The lists hold messages, and the published events ids.
ListsOK ==
  /\ inbound \in Seq(Messages)
  /\ IsABag(processing) /\ IsABag(deadLetters) /\ IsABag(published)
  /\ BagToSet(processing) \subseteq Messages /\ BagToSet(deadLetters) \subseteq Messages
  /\ BagToSet(published) \subseteq Ids

LEMMA MoveLists ==
  ASSUME ListsOK, Move
  PROVE  ListsOK'
<1>1. inbound' \in Seq(Messages) /\ inbound[Len(inbound)] \in Messages
  BY PlacesPopped DEF ListsOK, Move
<1>2. /\ IsABag(processing') 
      /\ BagToSet(processing') = BagToSet(processing) \union {inbound[Len(inbound)]}
  BY CopiesPushed DEF ListsOK, Move, KeepInProcessing
<1> QED BY <1>1, <1>2 DEF ListsOK, Move

\* What each Redis call does, to lists that are well formed.
LEMMA CallLists ==
  ASSUME ListsOK, NEW w \in Workers, held[w] \in Messages, RedisCall(w)
  PROVE  ListsOK'
<1> DEFINE m == held[w]
<1>1. m \in Messages /\ m.id \in Ids
  BY MessageFields
<1> HIDE DEF m
<1>2. CASE Publish(m.id)
  BY <1>1, <1>2, CopiesPushed DEF Publish, ListsOK
<1>3. CASE RemoveFromProcessing(m)
  BY <1>1, <1>3, CopiesRemoved DEF RemoveFromProcessing, ListsOK
<1>4. CASE Bury(m)
  BY <1>1, <1>4, CopiesPushed DEF Bury, ListsOK
<1>5. CASE m.retryCount < maxRetries /\ Requeue(m)
  <2> DEFINE again == [m EXCEPT !.retryCount = @ + 1]
  <2>1. again \in Messages
    BY <1>1, <1>5, NextRetry
  <2>2. inbound' = <<again>> \o inbound /\ UNCHANGED <<processing, deadLetters, published>>
    BY <1>5 DEF Requeue
  <2> HIDE DEF again
  <2>3. <<again>> \o inbound \in Seq(Messages)
    BY <2>1, PlacesPushed DEF ListsOK
  <2> QED BY <2>2, <2>3 DEF ListsOK
<1> QED BY <1>2, <1>3, <1>4, <1>5 DEF RedisCall, m

LEMMA ListsStep ==
  ASSUME ListenerTypeOK, ControlOK, Next
  PROVE  ListsOK' /\ redisFaults' \in Nat
<1>1. ListsOK /\ redisFaults \in Nat
  BY DEF ListsOK, ListenerTypeOK, ControlOK
<1>2. ASSUME NEW id \in Ids, Deliver(id) PROVE ListsOK'
  <2> DEFINE m == [id |-> id, retryCount |-> 0]
  <2>1. m \in Messages
    BY ListenerConstants DEF ListenerConstants, Messages
  <2>2. inbound' = <<m>> \o inbound /\ UNCHANGED <<processing, deadLetters, published>>
    BY <1>2 DEF Deliver
  <2> HIDE DEF m
  <2>3. <<m>> \o inbound \in Seq(Messages)
    BY <1>1, <2>1, PlacesPushed DEF ListsOK
  <2> QED BY <1>1, <2>2, <2>3 DEF ListsOK
<1>3. ASSUME NEW w \in Workers, TakeMessage(w) \/ TakeReplyLost(w) PROVE ListsOK'
  BY <1>1, <1>3, MoveLists DEF TakeMessage, TakeReplyLost
<1>4. ASSUME NEW w \in Workers, CallRedis(w) \/ RedisFails(w) PROVE ListsOK'
  <2>1. pc[w] # "idle"
    BY <1>4 DEF CallRedis, RedisCall, RedisFails, CallsRedis
  <2>2. RedisCall(w) \/ UNCHANGED queues
    BY <1>4 DEF CallRedis, RedisFails
  <2> QED BY <1>1, <2>1, <2>2, HoldsMessage, CallLists DEF ListsOK
<1>5. ASSUME UNCHANGED queues PROVE ListsOK'
  BY <1>1, <1>5 DEF ListsOK
<1>6. ListsOK'
  BY <1>2, <1>3, <1>4, <1>5 DEF Next, ListenerStep, Failure, MineOrphan, CheckModelExists,
     CheckReverts, DeployToken, RefuseToDeploy, RegisterModel, RejectEvent, GiveUp, RpcFails, Crash
<1>7. redisFaults' = redisFaults \/ redisFaults' = redisFaults + 1
  BY DEF Next, Deliver, ListenerStep, Failure, MineOrphan, TakeMessage, CheckModelExists,
     CheckReverts, DeployToken, RefuseToDeploy, RegisterModel, RejectEvent, CallRedis, GiveUp, RpcFails,
     RedisFails, TakeReplyLost, Crash, RedisFault
<1> QED BY <1>1, <1>6, <1>7

\* The chain and the counts of messages.
ChainOK ==
  /\ tokens \subseteq Ids /\ registry \subseteq Ids
  /\ mempool \in Seq(Transactions)
  /\ delivered \in [Ids -> 0..MaxDeliveries] /\ finished \in [Ids -> Nat]

\* A step changes the chain in one of these ways.
ChainChange(w) ==
  \/ UNCHANGED <<tokens, registry, mempool>>
  \/ /\ pc[w] = "deploy" /\ tokens' = tokens \union {held[w].id}
     /\ UNCHANGED <<registry, mempool>>
  \/ /\ pc[w] = "register" /\ registry' = registry \union {held[w].id}
     /\ UNCHANGED <<tokens, mempool>>
  \/ /\ pc[w] \in {"deploy", "register"}
     /\ mempool' = Append(mempool, [kind |-> pc[w], id |-> held[w].id])
     /\ UNCHANGED <<tokens, registry>>

LEMMA ChainChanges ==
  ASSUME NEW w \in Workers, ListenerStep(w) \/ Failure(w)
  PROVE  ChainChange(w)
BY DEF ChainChange, ListenerStep, Failure, TakeMessage, CheckModelExists, CheckReverts,
   DeployToken, RefuseToDeploy, RegisterModel, RejectEvent, CallRedis, GiveUp, RpcFails, RedisFails,
   TakeReplyLost, Crash

LEMMA ChainStep ==
  ASSUME ListenerTypeOK, ControlOK, Next
  PROVE  ChainOK'
<1>1. ChainOK
  BY DEF ChainOK, ListenerTypeOK
<1>2. ASSUME NEW id \in Ids, Deliver(id) PROVE ChainOK'
  <2>1. delivered[id] + 1 \in 0..MaxDeliveries
    BY <1>1, <1>2, ListenerConstants DEF ListenerConstants, ChainOK, Deliver
  <2> QED BY <1>1, <1>2, <2>1 DEF ChainOK, Deliver
<1>3. CASE MineOrphan
  <2>0. mempool \in Seq(Transactions) /\ mempool # <<>>
    BY <1>1, <1>3 DEF ChainOK, MineOrphan
  <2>1. Head(mempool).id \in Ids /\ Tail(mempool) \in Seq(Transactions)
    <3>1. Head(mempool) \in Transactions /\ Tail(mempool) \in Seq(Transactions)
      BY <2>0
    <3> QED BY <3>1 DEF Transactions
  <2> QED BY <1>1, <1>3, <2>1 DEF ChainOK, MineOrphan
<1>4. ASSUME NEW w \in Workers, ListenerStep(w) \/ Failure(w) PROVE ChainOK'
  <2>1. ChainChange(w)
    BY <1>4, ChainChanges
  <2>2. /\ UNCHANGED delivered
        /\ \/ UNCHANGED finished
           \/ pc[w] = "ack" /\ finished' = [finished EXCEPT ![held[w].id] = @ + 1]
    BY <1>4 DEF ListenerStep, Failure, TakeMessage, CheckModelExists, CheckReverts,
       DeployToken, RefuseToDeploy, RegisterModel, RejectEvent, CallRedis, GiveUp, RpcFails, RedisFails,
       TakeReplyLost, Crash, CountFinished
  <2>3. pc[w] # "idle" => held[w].id \in Ids
    BY HoldsMessage
  <2>4. finished' \in [Ids -> Nat]
    BY <1>1, <2>2, <2>3 DEF ChainOK
  <2>5. tokens' \subseteq Ids /\ registry' \subseteq Ids
    BY <1>1, <2>1, <2>3 DEF ChainOK, ChainChange
  <2>6. mempool' \in Seq(Transactions)
    <3>1. CASE UNCHANGED mempool
      BY <1>1, <3>1 DEF ChainOK
    <3>2. CASE /\ pc[w] \in {"deploy", "register"}
               /\ mempool' = Append(mempool, [kind |-> pc[w], id |-> held[w].id])
      <4>1. [kind |-> pc[w], id |-> held[w].id] \in Transactions
        BY <2>3, <3>2 DEF Transactions
      <4> QED BY <1>1, <3>2, <4>1 DEF ChainOK
    <3> QED BY <2>1, <3>1, <3>2 DEF ChainChange
  <2> QED BY <1>1, <2>2, <2>4, <2>5, <2>6 DEF ChainOK
<1> QED BY <1>2, <1>3, <1>4 DEF Next

LEMMA TypeStep ==
  ASSUME ListenerTypeOK, ControlOK, Next
  PROVE  ListenerTypeOK' /\ ControlOK'
<1>1. LocalOK'
  <2>1. CASE UNCHANGED local
    BY <2>1 DEF LocalOK, ListenerTypeOK, ControlOK, States
  <2> QED BY <2>1, LocalStep DEF Next, Deliver, MineOrphan
<1>2. ListsOK' /\ redisFaults' \in Nat /\ ChainOK'
  BY ListsStep, ChainStep
<1> QED BY <1>1, <1>2 DEF LocalOK, ListsOK, ChainOK, ListenerTypeOK, ControlOK, States

-----------------------------------------------------------------------------
(* How a listener comes to register, to announce and to acknowledge.       *)

LEMMA MovedAt ==
  ASSUME ListenerTypeOK, NEW w \in Workers, NEW s, NEW m, Moves(w, s, m)
  PROVE  /\ pc'[w] = s /\ held'[w] = m
         /\ \A v \in Workers \ {w} : pc'[v] = pc[v] /\ held'[v] = held[v]
BY DEF ListenerTypeOK, Moves

Arrives(w) ==
  /\ \A v \in Workers \ {w} : pc'[v] = pc[v] /\ held'[v] = held[v]
  /\ pc'[w] = "register" =>
       /\ held'[w] = held[w]
       /\ \/ pc[w] = "register"
          \/ pc[w] = "deploy" /\ held[w].id \in tokens'
  /\ pc'[w] = "publish" =>
       /\ held'[w] = held[w]
       /\ \/ pc[w] = "publish"
          \/ /\ pc[w] = "register" /\ held[w].id \notin registry /\ held[w].id \in registry'
             /\ UNCHANGED published
  /\ pc'[w] = "ack" => held'[w] = held[w] /\ (held[w].id \in registry \/ pc[w] = "publish")

LEMMA Arrivals ==
  ASSUME ListenerTypeOK, ControlOK, NEW w \in Workers, ListenerStep(w) \/ Failure(w)
  PROVE  Arrives(w)
<1>1. CASE TakeMessage(w)
  BY <1>1, TakeMoves, MovedAt DEF Arrives
<1>2. CASE CheckModelExists(w)
  <2>1. Moves(w, IF held[w].id \in registry THEN "ack" ELSE "deploy", held[w])
    BY <1>2, GotoMoves DEF CheckModelExists, SkipExisting
  <2> QED BY <2>1, MovedAt DEF Arrives
<1>3. CASE CheckReverts(w) \/ RefuseToDeploy(w)
  <2>1. Moves(w, "failed", held[w])
    BY <1>3, GotoMoves DEF CheckReverts, RefuseToDeploy, Throw
  <2> QED BY <2>1, MovedAt DEF Arrives
<1>4. CASE DeployToken(w)
  <2>1. CASE held[w].id \notin tokens /\ tokens' = tokens \union {held[w].id} /\ Goto(w, "register")
    BY <1>4, <2>1, GotoMoves, MovedAt DEF Arrives, DeployToken
  <2>2. CASE DeploymentReverts(w)
    BY <1>4, <2>2, TryAgainMoves, MovedAt DEF Arrives, DeployToken, DeploymentReverts
  <2> QED BY <1>4, <2>1, <2>2 DEF DeployToken
<1>5. CASE RegisterModel(w)
  <2>1. CASE /\ held[w].id \notin registry /\ registry' = registry \union {held[w].id}
             /\ AfterRegistration(w)
    BY <1>5, <2>1, GotoMoves, MovedAt DEF Arrives, RegisterModel, AfterRegistration
  <2>2. CASE Throw(w)
    BY <1>5, <2>2, GotoMoves, MovedAt DEF Arrives, RegisterModel, Throw
  <2> QED BY <1>5, <2>1, <2>2 DEF RegisterModel
<1>6. CASE GiveUp(w)
  BY <1>6, GotoMoves, MovedAt DEF Arrives, GiveUp
<1>7. CASE RejectEvent(w) \/ RpcFails(w)
  <2>1. /\ pc[w] \in {"check", "deploy", "register", "publish"}
        /\ \/ Moves(w, "failed", held[w])
           \/ pc[w] # "check" /\ Moves(w, pc[w], held[w])
    BY <1>7, GotoMoves, TryAgainMoves DEF RejectEvent, RpcFails, Throw
  <2> QED BY <1>7, <2>1, MovedAt DEF Arrives
<1>8. CASE CallRedis(w)
  <2>1. AfterCall(w)
    BY <1>8 DEF CallRedis
  <2> QED BY <2>1, AfterCallMoves, MovedAt DEF Arrives
<1>9. CASE RedisFails(w)
  <2>1. AfterFailure(w)
    BY <1>9 DEF RedisFails
  <2> QED BY <2>1, AfterFailureMoves, MovedAt DEF Arrives
<1>10. CASE TakeReplyLost(w)
  BY <1>10 DEF TakeReplyLost, Arrives
<1>11. CASE Crash(w)
  BY <1>11, FinishMoves, MovedAt DEF Crash, Arrives
<1> QED BY <1>1, <1>2, <1>3, <1>4, <1>5, <1>6, <1>7, <1>8, <1>9, <1>10, <1>11
        DEF ListenerStep, Failure

\* What a listener's step does to the events and to the count of failures: it
\* publishes when it leaves the publication, or when it takes a failure for the answer.
Announces(w) ==
  /\ redisFaults' \in {redisFaults, redisFaults + 1}
  /\ \/ UNCHANGED published
     \/ /\ pc[w] = "publish" /\ published' = published (+) One(held[w].id)
        /\ pc'[w] # "publish" \/ redisFaults' = redisFaults + 1
  /\ \/ UNCHANGED finished
     \/ pc[w] = "ack" /\ finished' = [finished EXCEPT ![held[w].id] = @ + 1]

LEMMA Announcements ==
  ASSUME ListenerTypeOK, ControlOK, NEW w \in Workers, ListenerStep(w) \/ Failure(w)
  PROVE  Announces(w)
<1>1. CASE CallRedis(w)
  <2>1. /\ RedisCall(w) /\ AfterCall(w) /\ CountFinished(w) /\ UNCHANGED redisFaults
    BY <1>1 DEF CallRedis
  <2>2. pc[w] = "publish" => pc'[w] = "ack"
    BY <2>1, AfterCallMoves, MovedAt
  <2>3. \/ UNCHANGED published
        \/ pc[w] = "publish" /\ published' = published (+) One(held[w].id)
    BY <2>1 DEF RedisCall, Publish, RemoveFromProcessing, Requeue, Bury
  <2> QED BY <2>1, <2>2, <2>3 DEF Announces, CountFinished
<1>2. CASE RedisFails(w)
  <2>1. /\ redisFaults' = redisFaults + 1
        /\ \/ RedisCall(w) /\ CountFinished(w)
           \/ UNCHANGED <<published, finished>>
    BY <1>2 DEF RedisFails, RedisFault
  <2>2. RedisCall(w) =>
          \/ UNCHANGED published
          \/ pc[w] = "publish" /\ published' = published (+) One(held[w].id)
    BY DEF RedisCall, Publish, RemoveFromProcessing, Requeue, Bury
  <2> QED BY <2>1, <2>2 DEF Announces, CountFinished
<1>3. ASSUME ~CallRedis(w), ~RedisFails(w)
      PROVE  UNCHANGED <<published, finished>> /\ redisFaults' \in {redisFaults, redisFaults + 1}
  BY <1>3 DEF ListenerStep, Failure, TakeMessage, CheckModelExists, CheckReverts, DeployToken,
     RefuseToDeploy, RegisterModel, RejectEvent, GiveUp, RpcFails, TakeReplyLost, Crash, Move, RedisFault
<1> QED BY <1>1, <1>2, <1>3 DEF Announces

\* The launch goes on in order through every step.
LEMMA LaunchStep ==
  ASSUME ListenerTypeOK, ControlOK, LaunchOrdered, Next
  PROVE  LaunchOrdered' /\ tokens \subseteq tokens' /\ registry \subseteq registry'
<1>1. ASSUME NEW id \in Ids, Deliver(id) PROVE LaunchOrdered'
  BY <1>1 DEF Deliver, LaunchOrdered, FinishedMeansRegistered
<1>2. CASE MineOrphan
  <2>1. /\ mempool \in Seq(Transactions) /\ mempool # <<>>
        /\ UNCHANGED <<published, pc, held, finished>>
    BY <1>2 DEF MineOrphan, ListenerTypeOK
  <2>2. /\ 1 \in DOMAIN mempool /\ Head(mempool) = mempool[1]
        /\ \A i \in DOMAIN Tail(mempool) :
             i + 1 \in DOMAIN mempool /\ Tail(mempool)[i] = mempool[i + 1]
    BY <2>1
  <2>3. Head(mempool).kind = "register" => Head(mempool).id \in tokens
    BY <2>2 DEF LaunchOrdered
  <2>4. /\ tokens \subseteq tokens' /\ registry \subseteq registry' /\ registry' \subseteq tokens'
    BY <1>2, <2>3 DEF LaunchOrdered, MineOrphan
  <2>5. \A i \in DOMAIN mempool' : mempool'[i].kind = "register" => mempool'[i].id \in tokens'
    BY <1>2, <2>2, <2>4 DEF LaunchOrdered, MineOrphan
  <2> QED BY <2>1, <2>4, <2>5 DEF LaunchOrdered, FinishedMeansRegistered
<1>3. ASSUME NEW w \in Workers, ListenerStep(w) \/ Failure(w)
      PROVE  LaunchOrdered' /\ tokens \subseteq tokens' /\ registry \subseteq registry'
  <2>1. Arrives(w) /\ Announces(w) /\ ChainChange(w)
    BY <1>3, Arrivals, Announcements, ChainChanges
  <2>2. pc[w] # "idle" => held[w].id \in Ids
    BY HoldsMessage
  <2>3. tokens \subseteq tokens' /\ registry \subseteq registry' /\ registry' \subseteq tokens'
    BY <2>1 DEF LaunchOrdered, ChainChange
  <2>4. BagToSet(published') \subseteq registry'
    BY <2>1, <2>3, CopiesPushed DEF LaunchOrdered, ControlOK, Announces
  <2>5. ASSUME NEW v \in Workers
        PROVE  /\ pc'[v] = "register" => held'[v].id \in tokens'
               /\ pc'[v] \in {"publish", "ack"} => held'[v].id \in registry'
    BY <2>1, <2>3, <2>5 DEF LaunchOrdered, Arrives
  <2>6. \A i \in DOMAIN mempool' : mempool'[i].kind = "register" => mempool'[i].id \in tokens'
    <3>1. CASE UNCHANGED mempool
      BY <2>3, <3>1 DEF LaunchOrdered
    <3>2. CASE /\ pc[w] \in {"deploy", "register"}
               /\ mempool' = Append(mempool, [kind |-> pc[w], id |-> held[w].id])
      <4> DEFINE tx == [kind |-> pc[w], id |-> held[w].id]
      <4>1. tx.kind = "register" => tx.id \in tokens
        BY <3>2 DEF LaunchOrdered
      <4> HIDE DEF tx
      <4>2. mempool \in Seq(Transactions) /\ mempool' = Append(mempool, tx)
        BY <3>2 DEF ListenerTypeOK, tx
      <4>3. \A i \in DOMAIN mempool' :
              mempool'[i] = tx \/ (i \in DOMAIN mempool /\ mempool'[i] = mempool[i])
        BY <4>2
      <4> QED BY <2>3, <4>1, <4>3 DEF LaunchOrdered
    <3> QED BY <2>1, <3>1, <3>2 DEF ChainChange
  <2>7. ASSUME NEW id \in Ids, finished'[id] > 0 PROVE id \in registry'
    <3>1. CASE finished[id] > 0
      BY <2>3, <3>1 DEF LaunchOrdered, FinishedMeansRegistered
    <3>2. CASE ~(finished[id] > 0)
      <4>1. pc[w] = "ack" /\ held[w].id = id
        BY <2>1, <2>7, <3>2 DEF Announces, ListenerTypeOK
      <4> QED BY <2>3, <4>1 DEF LaunchOrdered
    <3> QED BY <3>1, <3>2
  <2> QED BY <2>3, <2>4, <2>5, <2>6, <2>7 DEF LaunchOrdered, FinishedMeansRegistered
<1>4. ASSUME NEW id \in Ids, Deliver(id) PROVE tokens \subseteq tokens' /\ registry \subseteq registry'
  BY <1>4 DEF Deliver
<1> QED BY <1>1, <1>2, <1>3, <1>4 DEF Next

\* A registration makes one announcer, which a publication uses up.
LEMMA AnnounceStep ==
  ASSUME ListenerTypeOK, ControlOK, LaunchOrdered, AnnouncementsCounted, Next
  PROVE  AnnouncementsCounted'
<1>1. CASE (\E id \in Ids : Deliver(id)) \/ MineOrphan
  <2>1. UNCHANGED <<pc, held, published, redisFaults>>
    BY <1>1 DEF Deliver, MineOrphan
  <2>2. registry \subseteq registry'
    BY LaunchStep
  <2> QED BY <2>1, <2>2 DEF AnnouncementsCounted, AnnouncedOnce, Announcing
<1>2. ASSUME NEW w \in Workers, ListenerStep(w) \/ Failure(w) PROVE AnnouncementsCounted'
  <2>1. Arrives(w) /\ Announces(w) /\ registry \subseteq registry'
    BY <1>2, Arrivals, Announcements, LaunchStep
  <2>2. redisFaults \in Nat /\ redisFaults' \in {redisFaults, redisFaults + 1}
    BY <2>1 DEF ControlOK, Announces
  <2>3. \A id \in Ids : Copies(id, published) \in Nat
    BY CopiesType DEF ControlOK
  <2>4. ASSUME NEW id \in Ids
        PROVE  \/ Copies(id, published') = Copies(id, published)
               \/ /\ Announcing(w, id) /\ Copies(id, published') = Copies(id, published) + 1
                  /\ pc'[w] # "publish" \/ redisFaults' = redisFaults + 1
    BY <2>1, CopiesPushed DEF Announces, ControlOK, Announcing
  <2>5. ASSUME NEW v \in Workers, NEW id \in Ids, Announcing(v, id)'
        PROVE  \/ Announcing(v, id)
               \/ /\ v = w /\ id \notin registry /\ id \in registry' /\ UNCHANGED published
    BY <2>1, <2>5 DEF Arrives, Announcing
  <2>6. ASSUME NEW v \in Workers, NEW id \in Ids, Announcing(v, id) PROVE id \in registry
    BY <2>6 DEF Announcing, LaunchOrdered
  <2>7. ASSUME NEW id \in Ids
        PROVE  /\ Copies(id, published') <= 1 + redisFaults'
               /\ id \notin registry' => Copies(id, published') = 0
               /\ \A v \in Workers : Announcing(v, id)' => Copies(id, published') <= redisFaults'
               /\ \A u, v \in Workers : Announcing(u, id)' /\ Announcing(v, id)' => u = v
    <3>1. /\ Copies(id, published) <= 1 + redisFaults
          /\ id \notin registry => Copies(id, published) = 0
          /\ \A v \in Workers : Announcing(v, id) => Copies(id, published) <= redisFaults
          /\ \A u, v \in Workers : Announcing(u, id) /\ Announcing(v, id) => u = v
      BY DEF AnnouncementsCounted, AnnouncedOnce
    <3>2. Copies(id, published') <= 1 + redisFaults'
      BY <2>2, <2>3, <2>4, <3>1
    <3>3. id \notin registry' => Copies(id, published') = 0
      BY <2>1, <2>4, <2>6, <3>1
    <3>4. ASSUME NEW v \in Workers, Announcing(v, id)' PROVE Copies(id, published') <= redisFaults'
      <4>1. CASE Announcing(v, id)
        <5>1. CASE Copies(id, published') = Copies(id, published)
          BY <2>2, <2>3, <3>1, <4>1, <5>1
        <5>2. CASE /\ Announcing(w, id) /\ Copies(id, published') = Copies(id, published) + 1
                   /\ pc'[w] # "publish" \/ redisFaults' = redisFaults + 1
          <6>1. v = w
            BY <3>1, <4>1, <5>2
          <6>2. pc'[w] = "publish"
            BY <3>4, <6>1 DEF Announcing
          <6> QED BY <2>2, <2>3, <3>1, <4>1, <5>2, <6>2
        <5> QED BY <2>4, <5>1, <5>2
      <4>2. CASE id \notin registry /\ UNCHANGED published
        BY <2>2, <3>1, <4>2
      <4> QED BY <2>5, <3>4, <4>1, <4>2
    <3>5. \A u, v \in Workers : Announcing(u, id)' /\ Announcing(v, id)' => u = v
      BY <2>5, <2>6, <3>1
    <3> QED BY <3>2, <3>3, <3>4, <3>5
  <2> QED BY <2>7 DEF AnnouncementsCounted, AnnouncedOnce
<1> QED BY <1>1, <1>2 DEF Next

-----------------------------------------------------------------------------
(* The balance of the lists.                                               *)

LEMMA DebtType ==
  ASSUME NEW s, NEW m, NEW id
  PROVE  Debt(s, m, id) \in Nat
BY DEF Debt, LastTry, JustBuried

\* Of one listener's step, only its own debt changes.
LEMMA DebtsChange ==
  ASSUME NEW w \in Workers, NEW id,
         \A v \in Workers \ {w} : pc'[v] = pc[v] /\ held'[v] = held[v]
  PROVE  /\ Debts(id) \in Nat /\ Debts(id)' \in Nat
         /\ Debts(id)' = Debts(id) - Debt(pc[w], held[w], id) + Debt(pc'[w], held'[w], id)
<1> DEFINE f == [v \in Workers |-> Debt(pc[v], held[v], id)]
           g == [v \in Workers |-> Debt(pc'[v], held'[v], id)]
<1>1. /\ Debts(id) = SumOf(f, Workers) /\ Debts(id)' = SumOf(g, Workers)
      /\ f[w] = Debt(pc[w], held[w], id) /\ g[w] = Debt(pc'[w], held'[w], id)
  BY DEF Debts
<1>2. /\ \A v \in Workers : f[v] \in Nat
      /\ \A v \in Workers : g[v] \in Nat
      /\ \A v \in Workers \ {w} : g[v] = f[v]
  BY DebtType
<1>3. IsFiniteSet(Workers)
  BY ListenerConstants DEF ListenerConstants
<1> HIDE DEF f, g
<1>4. SumOf(f, Workers) \in Nat /\ SumOf(g, Workers) \in Nat
  BY <1>2, <1>3, SumType
<1>5. SumOf(g, Workers) = SumOf(f, Workers) - f[w] + g[w]
  BY <1>2, <1>3, SumChange
<1> QED BY <1>1, <1>4, <1>5

\* All that the balance of one model is made of is a number.
LEMMA BalanceTypes ==
  ASSUME ListenerTypeOK, ControlOK, NEW id \in Ids
  PROVE  /\ delivered[id] \in Nat /\ finished[id] \in Nat
         /\ WaitingIn(inbound, id) \in Nat /\ LastTriesIn(inbound, id) \in Nat
         /\ CopiesOf(id, processing) \in Nat /\ CopiesOf(id, deadLetters) \in Nat
         /\ Listed(id) \in Nat
<1>1. inbound \in Seq(Messages) /\ IsABag(processing) /\ IsABag(deadLetters)
      /\ delivered \in [Ids -> 0..MaxDeliveries] /\ finished \in [Ids -> Nat]
  BY DEF ListenerTypeOK, ControlOK
<1>2. delivered[id] \in Nat /\ finished[id] \in Nat
  BY <1>1, ListenerConstants DEF ListenerConstants
<1>3. /\ WaitingIn(inbound, id) \in Nat /\ LastTriesIn(inbound, id) \in Nat
      /\ CopiesOf(id, processing) \in Nat /\ CopiesOf(id, deadLetters) \in Nat
  BY <1>1, ListedType, CopiesOfType
<1> QED BY <1>2, <1>3 DEF Listed

\* What a step adds to one model's lists covers what it adds to the debts.
Covered(w, id) ==
  delivered'[id] + LastTriesIn(inbound', id) + Debt(pc'[w], held'[w], id) + Listed(id)
    <= Listed(id)' + delivered[id] + LastTriesIn(inbound, id) + Debt(pc[w], held[w], id)

LEMMA Rebalanced ==
  ASSUME ListenerTypeOK, ControlOK, Balanced, NEW w \in Workers, NEW id \in Ids,
         \A v \in Workers \ {w} : pc'[v] = pc[v] /\ held'[v] = held[v],
         Covered(w, id),
         delivered'[id] \in Nat, LastTriesIn(inbound', id) \in Nat, Listed(id)' \in Nat
  PROVE  delivered'[id] + LastTriesIn(inbound', id) + Debts(id)' <= Listed(id)'
<1>1. /\ Debts(id) \in Nat /\ Debts(id)' \in Nat
      /\ Debts(id)' = Debts(id) - Debt(pc[w], held[w], id) + Debt(pc'[w], held'[w], id)
  BY DebtsChange
<1>2. delivered[id] \in Nat /\ LastTriesIn(inbound, id) \in Nat /\ Listed(id) \in Nat
  BY BalanceTypes
<1>3. delivered[id] + LastTriesIn(inbound, id) + Debts(id) <= Listed(id)
  BY DEF Balanced
<1>4. Debt(pc[w], held[w], id) \in Nat /\ Debt(pc'[w], held'[w], id) \in Nat
  BY DebtType
<1> QED BY <1>1, <1>2, <1>3, <1>4 DEF Covered

\* A listener that goes on in the handler owes what it owed.
LEMMA HandlerCovered ==
  ASSUME ListenerTypeOK, ControlOK, NEW w \in Workers, NEW id \in Ids,
         UNCHANGED <<inbound, processing, deadLetters, delivered, finished>>,
         pc'[w] = "idle" \/ ( /\ held'[w] = held[w]
                              /\ pc[w] \notin {"idle", "bury", "unlist"}
                              /\ pc'[w] \notin {"unlistRejected", "unlist"} )
  PROVE  Covered(w, id)
<1>1. delivered[id] \in Nat /\ LastTriesIn(inbound, id) \in Nat /\ Listed(id) \in Nat
  BY BalanceTypes
<1>2. Listed(id)' = Listed(id)
  BY DEF Listed, CopiesOf
<1>3. Debt(pc'[w], held'[w], id) <= Debt(pc[w], held[w], id)
  BY DEF Debt, LastTry, JustBuried
<1>4. Debt(pc[w], held[w], id) \in Nat /\ Debt(pc'[w], held'[w], id) \in Nat
  BY DebtType
<1> QED BY <1>1, <1>2, <1>3, <1>4 DEF Covered

\* A message that is moved stays in the lists; its last try becomes a debt.
LEMMA MoveCovered ==
  ASSUME ListenerTypeOK, ControlOK, NEW w \in Workers, NEW id \in Ids,
         pc[w] = "idle", Move, UNCHANGED <<delivered, finished>>,
         \/ pc'[w] = "idle"
         \/ pc'[w] \in {"reject", "check"} /\ held'[w] = inbound[Len(inbound)]
  PROVE  Covered(w, id)
<1> DEFINE m == inbound[Len(inbound)]
           left == SubSeq(inbound, 1, Len(inbound) - 1)
<1>1. /\ inbound \in Seq(Messages) /\ inbound # <<>> /\ inbound' = left
      /\ IsABag(processing) /\ processing' = processing (+) One(m) /\ UNCHANGED deadLetters
  BY DEF ListenerTypeOK, ControlOK, Move, KeepInProcessing
<1>2. /\ m \in Messages
      /\ WaitingIn(left, id) = WaitingIn(inbound, id) - Ones(m.id = id)
      /\ LastTriesIn(left, id)
           = LastTriesIn(inbound, id) - Ones(m.id = id /\ m.retryCount = maxRetries)
  BY <1>1, Dequeued
<1>3. pc'[w] = "idle" \/ (pc'[w] \in {"reject", "check"} /\ held'[w] = m)
  OBVIOUS
<1> HIDE DEF m, left
<1>4. CopiesOf(id, processing') = CopiesOf(id, processing) + Ones(m.id = id)
  BY <1>1, <1>2, CopiesOfPushed
<1>5. /\ delivered[id] \in Nat /\ finished[id] \in Nat
      /\ WaitingIn(inbound, id) \in Nat /\ LastTriesIn(inbound, id) \in Nat
      /\ CopiesOf(id, processing) \in Nat /\ CopiesOf(id, deadLetters) \in Nat
  BY BalanceTypes
<1>6. Listed(id)' = finished[id] + WaitingIn(inbound', id) + CopiesOf(id, processing')
                    + CopiesOf(id, deadLetters)
  BY <1>1 DEF Listed, CopiesOf
<1>7. Listed(id)' = Listed(id)
  BY <1>1, <1>2, <1>4, <1>5, <1>6 DEF Listed, Ones
<1>8. /\ Debt(pc[w], held[w], id) = 0
      /\ Debt(pc'[w], held'[w], id) <= Ones(m.id = id /\ m.retryCount = maxRetries)
  BY <1>3 DEF Debt, LastTry, JustBuried, Ones
<1>9. Listed(id) \in Nat /\ Debt(pc'[w], held'[w], id) \in Nat
      /\ Ones(m.id = id /\ m.retryCount = maxRetries) \in Nat
  BY BalanceTypes, DebtType DEF Ones
<1>10. /\ delivered'[id] = delivered[id]
       /\ LastTriesIn(inbound', id)
            = LastTriesIn(inbound, id) - Ones(m.id = id /\ m.retryCount = maxRetries)
  BY <1>1, <1>2
<1> QED BY <1>5, <1>7, <1>8, <1>9, <1>10 DEF Covered

\* What an executed call does to the lists of one model.
LEMMA CallEffect ==
  ASSUME ListenerTypeOK, ControlOK, NEW w \in Workers, NEW id \in Ids,
         RedisCall(w), CountFinished(w)
  PROVE  LET own == Ones(held[w].id = id)
             same == LastTriesIn(inbound', id) = LastTriesIn(inbound, id)
         IN  \/ pc[w] = "publish" /\ Listed(id)' = Listed(id) /\ same
             \/ pc[w] = "ack" /\ Listed(id) <= Listed(id)' /\ Listed(id)' \in Nat /\ same
             \/ /\ pc[w] \in {"unlistRejected", "drop", "unlist"}
                /\ Listed(id) <= Listed(id)' + own /\ Listed(id)' \in Nat /\ same
             \/ pc[w] \in {"reject", "bury"} /\ Listed(id)' = Listed(id) + own /\ same
             \/ /\ pc[w] = "failed" /\ held[w].retryCount < maxRetries
                /\ Listed(id)' = Listed(id) + own
                /\ LastTriesIn(inbound', id) <= LastTriesIn(inbound, id) + own
<1> DEFINE m == held[w]
           own == Ones(m.id = id)
<1>1. /\ pc[w] # "idle" /\ (pc[w] # "ack" => UNCHANGED finished)
      /\ pc[w] = "ack" => finished' = [finished EXCEPT ![m.id] = @ + 1]
  BY DEF RedisCall, CountFinished
<1>2. m \in Messages /\ m.id \in Ids
  BY <1>1, HoldsMessage
<1>3. /\ finished[id] \in Nat
      /\ WaitingIn(inbound, id) \in Nat /\ LastTriesIn(inbound, id) \in Nat
      /\ CopiesOf(id, processing) \in Nat /\ CopiesOf(id, deadLetters) \in Nat
  BY BalanceTypes
<1>4. /\ Listed(id) = finished[id] + WaitingIn(inbound, id) + CopiesOf(id, processing)
                      + CopiesOf(id, deadLetters)
      /\ Listed(id)' = finished'[id] + WaitingIn(inbound', id) + CopiesOf(id, processing')
                       + CopiesOf(id, deadLetters')
  BY DEF Listed, CopiesOf
<1>5. /\ inbound \in Seq(Messages) /\ IsABag(processing) /\ IsABag(deadLetters)
      /\ finished \in [Ids -> Nat]
  BY DEF ListenerTypeOK, ControlOK
<1>6. own \in {0, 1}
  BY DEF Ones
<1> HIDE DEF m
<1>7. CASE pc[w] = "publish" /\ Publish(m.id)
  BY <1>1, <1>4, <1>7 DEF Publish
<1>8. CASE pc[w] \in {"ack", "unlistRejected", "drop", "unlist"} /\ RemoveFromProcessing(m)
  <2>1. /\ processing' = processing (-) One(m) /\ UNCHANGED <<inbound, deadLetters>>
    BY <1>8 DEF RemoveFromProcessing
  <2>2. /\ CopiesOf(id, processing') \in Nat
        /\ CopiesOf(id, processing) <= CopiesOf(id, processing') + own
    BY <1>2, <1>5, <2>1, CopiesOfRemoved
  <2>3. finished'[id] = finished[id] + (IF pc[w] = "ack" THEN own ELSE 0)
    BY <1>1, <1>2, <1>3, <1>5 DEF Ones
  <2> HIDE DEF own
  <2>4. CASE pc[w] = "ack"
    <3>1. Listed(id) <= Listed(id)' /\ Listed(id)' \in Nat
      BY <1>3, <1>4, <1>6, <2>1, <2>2, <2>3, <2>4
    <3> QED BY <2>1, <2>4, <3>1
  <2>5. CASE pc[w] \in {"unlistRejected", "drop", "unlist"}
    <3>1. Listed(id) <= Listed(id)' + own /\ Listed(id)' \in Nat
      BY <1>3, <1>4, <1>6, <2>1, <2>2, <2>3, <2>5
    <3> QED BY <2>1, <2>5, <3>1 DEF own, m
  <2> QED BY <1>8, <2>4, <2>5
<1>9. CASE pc[w] = "failed" /\ m.retryCount < maxRetries /\ Requeue(m)
  <2> DEFINE again == [m EXCEPT !.retryCount = @ + 1]
  <2>1. again \in Messages /\ again.id = m.id
    BY <1>2, <1>9, NextRetry
  <2>2. inbound' = <<again>> \o inbound /\ UNCHANGED <<processing, deadLetters>>
    BY <1>9 DEF Requeue
  <2>3. UNCHANGED finished
    BY <1>1, <1>9
  <2> HIDE DEF again
  <2> DEFINE last == Ones(again.id = id /\ again.retryCount = maxRetries)
  <2>4. /\ WaitingIn(inbound', id) = WaitingIn(inbound, id) + Ones(again.id = id)
        /\ LastTriesIn(inbound', id) = LastTriesIn(inbound, id) + last
    BY <1>5, <2>1, <2>2, Enqueued
  <2>5. Ones(again.id = id) = own /\ last \in {0, own}
    BY <2>1 DEF Ones
  <2> WaitingIn(inbound', id) = WaitingIn(inbound, id) + own
    BY <2>4, <2>5
  <2> HIDE DEF own, last
  <2>6. /\ Listed(id)' = Listed(id) + own
        /\ LastTriesIn(inbound', id) <= LastTriesIn(inbound, id) + own
    BY <1>3, <1>4, <1>6, <2>2, <2>3, <2>4, <2>5, SMTT(30)
  <2> QED BY <1>9, <2>6 DEF own, m
<1>10. CASE pc[w] \in {"reject", "bury"} /\ Bury(m)
  <2>1. /\ deadLetters' = deadLetters (+) One(m) /\ UNCHANGED <<inbound, processing, finished>>
    BY <1>1, <1>10 DEF Bury
  <2>2. CopiesOf(id, deadLetters') = CopiesOf(id, deadLetters) + own
    BY <1>2, <1>5, <2>1, CopiesOfPushed
  <2> HIDE DEF own
  <2>3. Listed(id)' = Listed(id) + own
    BY <1>3, <1>4, <1>6, <2>1, <2>2
  <2> QED BY <1>10, <2>1, <2>3 DEF own, m
<1> QED BY <1>7, <1>8, <1>9, <1>10 DEF RedisCall, m

\* Where a call leads, executed or not.
CallLeads(w) ==
  \/ pc[w] = "publish" /\ pc'[w] \in {"publish", "ack", "failed"} /\ held'[w] = held[w]
  \/ pc[w] = "ack" /\ (pc'[w] = "idle" \/ (pc'[w] = "failed" /\ held'[w] = held[w]))
  \/ pc[w] = "unlistRejected" /\ (pc'[w] = "idle" \/ (pc'[w] = "failed" /\ held'[w] = held[w]))
  \/ pc[w] = "reject" /\ pc'[w] \in {"unlistRejected", "failed"} /\ held'[w] = held[w]
  \/ pc[w] = "drop" /\ (pc'[w] = "idle" \/ (pc'[w] = "bury" /\ held'[w] = held[w]))
  \/ pc[w] = "bury" /\ (pc'[w] = "idle" \/ (pc'[w] = "unlist" /\ held'[w] = held[w]))
  \/ pc[w] \in {"unlist", "failed"} /\ pc'[w] = "idle"

LEMMA CallsLead ==
  ASSUME ListenerTypeOK, NEW w \in Workers, RedisCall(w) \/ CallsRedis(w),
         AfterCall(w) \/ AfterFailure(w)
  PROVE  CallLeads(w)
<1>1. pc[w] \in {"publish", "ack", "unlistRejected", "reject", "drop", "bury", "unlist", "failed"}
  BY DEF RedisCall, CallsRedis
<1>2. CASE AfterCall(w)
  BY <1>1, <1>2, AfterCallMoves, MovedAt DEF CallLeads
<1>3. CASE AfterFailure(w)
  BY <1>1, <1>3, AfterFailureMoves, MovedAt DEF CallLeads
<1> QED BY <1>2, <1>3

\* An executed call moves the entry that the listener owes.
LEMMA CallCovered ==
  ASSUME ListenerTypeOK, ControlOK, NEW w \in Workers, NEW id \in Ids,
         UNCHANGED delivered, RedisCall(w), CountFinished(w), CallLeads(w)
  PROVE  Covered(w, id)
<1> DEFINE own == Ones(held[w].id = id)
           last == held[w].retryCount = maxRetries
           before == Debt(pc[w], held[w], id)
           after == Debt(pc'[w], held'[w], id)
<1>1. /\ delivered[id] \in Nat /\ LastTriesIn(inbound, id) \in Nat /\ Listed(id) \in Nat
      /\ delivered'[id] = delivered[id]
  BY BalanceTypes
<1>2. before \in Nat /\ after \in Nat /\ own \in {0, 1}
  BY DebtType DEF Ones
<1>3. pc'[w] = "idle" => after = 0
  BY DEF Debt
<1>4. pc[w] \in {"drop", "bury", "unlist"} => last
  BY DEF ControlOK
<1>5. pc[w] = "publish" => after <= before
  BY DEF CallLeads, Debt, LastTry, JustBuried
<1>6. pc[w] = "ack" => after <= before
  BY DEF CallLeads, Debt, LastTry, JustBuried
<1>7. pc[w] = "unlistRejected" => after + own <= before
  BY DEF CallLeads, Debt, LastTry, JustBuried, Ones
<1>8. pc[w] = "drop" => after + own <= before
  BY <1>4 DEF CallLeads, Debt, LastTry, JustBuried, Ones
<1>9. pc[w] = "unlist" => after + own <= before
  BY DEF CallLeads, Debt, LastTry, JustBuried, Ones
<1>10. pc[w] \in {"reject", "bury"} => after <= before + own
  BY DEF CallLeads, Debt, LastTry, JustBuried, Ones
<1>11. pc[w] = "failed" => after = 0
  BY DEF CallLeads, Debt
<1>12. \/ pc[w] = "publish" /\ Listed(id)' = Listed(id)
          /\ LastTriesIn(inbound', id) = LastTriesIn(inbound, id)
       \/ pc[w] = "ack" /\ Listed(id) <= Listed(id)' /\ Listed(id)' \in Nat
          /\ LastTriesIn(inbound', id) = LastTriesIn(inbound, id)
       \/ /\ pc[w] \in {"unlistRejected", "drop", "unlist"}
          /\ Listed(id) <= Listed(id)' + own /\ Listed(id)' \in Nat
          /\ LastTriesIn(inbound', id) = LastTriesIn(inbound, id)
       \/ pc[w] \in {"reject", "bury"} /\ Listed(id)' = Listed(id) + own
          /\ LastTriesIn(inbound', id) = LastTriesIn(inbound, id)
       \/ /\ pc[w] = "failed"
          /\ Listed(id)' = Listed(id) + own
          /\ LastTriesIn(inbound', id) <= LastTriesIn(inbound, id) + own
  BY CallEffect
<1>13. LastTriesIn(inbound', id) \in Nat
  <2>1. inbound \in Seq(Messages) /\ pc[w] # "idle"
    BY DEF ListenerTypeOK, RedisCall
  <2>2. held[w] \in Messages
    BY <2>1, HoldsMessage
  <2>3. inbound' \in Seq(Messages)
    <3>1. ListsOK
      BY DEF ListsOK, ListenerTypeOK, ControlOK
    <3> QED BY <2>2, <3>1, CallLists DEF ListsOK
  <2> QED BY <2>3, ListedType
<1> HIDE DEF own, last, before, after
<1>14. delivered'[id] + LastTriesIn(inbound', id) + after + Listed(id)
         <= Listed(id)' + delivered[id] + LastTriesIn(inbound, id) + before
  <2>1. CASE pc[w] \in {"publish", "ack"}
    BY <1>1, <1>2, <1>5, <1>6, <1>12, <2>1
  <2>2. CASE pc[w] \in {"unlistRejected", "drop", "unlist"}
    BY <1>1, <1>2, <1>7, <1>8, <1>9, <1>12, <2>2
  <2>3. CASE pc[w] \in {"reject", "bury"}
    BY <1>1, <1>2, <1>10, <1>12, <2>3
  <2>4. CASE pc[w] = "failed"
    BY <1>1, <1>2, <1>11, <1>12, <1>13, <2>4
  <2> QED BY <1>12, <2>1, <2>2, <2>3, <2>4
<1> QED BY <1>14 DEF Covered, before, after

\* Every listener's step is covered.
LEMMA StepCovered ==
  ASSUME ListenerTypeOK, ControlOK, NEW w \in Workers, ListenerStep(w) \/ Failure(w),
         NEW id \in Ids
  PROVE  Covered(w, id)
<1>1. CASE TakeMessage(w)
  <2>1. pc'[w] \in {"reject", "check"} /\ held'[w] = inbound[Len(inbound)]
    BY <1>1, TakeMoves, MovedAt
  <2> QED BY <1>1, <2>1, MoveCovered DEF TakeMessage
<1>2. CASE TakeReplyLost(w)
  BY <1>2, MoveCovered DEF TakeReplyLost
<1>3. CASE \/ CheckModelExists(w) \/ CheckReverts(w) \/ DeployToken(w) \/ RefuseToDeploy(w)
           \/ RegisterModel(w) \/ RejectEvent(w) \/ RpcFails(w) \/ GiveUp(w)
  <2>1. /\ pc[w] \in {"check", "deploy", "register", "publish", "failed"}
        /\ pc'[w] \in {"ack", "deploy", "register", "publish", "failed", "drop"}
        /\ held'[w] = held[w]
    BY <1>3, HandlerMoves, MovedAt
  <2>2. UNCHANGED <<inbound, processing, deadLetters, delivered, finished>>
    BY <1>3 DEF CheckModelExists, CheckReverts, DeployToken, RefuseToDeploy, RegisterModel, RejectEvent,
       RpcFails, GiveUp
  <2> QED BY <2>1, <2>2, HandlerCovered
<1>4. CASE CallRedis(w)
  <2>1. CallLeads(w)
    BY <1>4, CallsLead DEF CallRedis
  <2> QED BY <1>4, <2>1, CallCovered DEF CallRedis
<1>5. CASE RedisFails(w)
  <2>1. CASE RedisCall(w) /\ CountFinished(w)
    <3>1. CallLeads(w)
      BY <1>5, CallsLead DEF RedisFails
    <3> QED BY <1>5, <2>1, <3>1, CallCovered DEF RedisFails
  <2>2. CASE UNCHANGED <<queues, finished>>
    <3>1. pc'[w] = "idle" \/ ( /\ held'[w] = held[w]
                               /\ pc[w] \notin {"idle", "bury", "unlist"}
                               /\ pc'[w] \notin {"unlistRejected", "unlist"} )
      BY <1>5, AfterFailureMoves, MovedAt DEF RedisFails, CallsRedis
    <3> QED BY <1>5, <2>2, <3>1, HandlerCovered DEF RedisFails
  <2> QED BY <1>5, <2>1, <2>2 DEF RedisFails
<1>6. CASE Crash(w)
  <2>1. pc'[w] = "idle"
    BY <1>6, FinishMoves, MovedAt DEF Crash
  <2>2. UNCHANGED <<inbound, processing, deadLetters, delivered, finished>>
    BY <1>6 DEF Crash
  <2> QED BY <2>1, <2>2, HandlerCovered
<1> QED BY <1>1, <1>2, <1>3, <1>4, <1>5, <1>6 DEF ListenerStep, Failure

LEMMA BalanceStep ==
  ASSUME ListenerTypeOK, ControlOK, Balanced, Next
  PROVE  Balanced'
<1>1. ListenerTypeOK' /\ ControlOK'
  BY TypeStep
<1>2. ASSUME NEW id \in Ids
      PROVE  /\ delivered'[id] \in Nat /\ LastTriesIn(inbound', id) \in Nat
             /\ Listed(id)' \in Nat
  <2>1. /\ inbound' \in Seq(Messages) /\ IsABag(processing') /\ IsABag(deadLetters')
        /\ delivered' \in [Ids -> 0..MaxDeliveries] /\ finished' \in [Ids -> Nat]
    BY <1>1 DEF ListenerTypeOK, ControlOK
  <2>2. delivered'[id] \in Nat /\ finished'[id] \in Nat
    BY <2>1, ListenerConstants DEF ListenerConstants
  <2>3. /\ WaitingIn(inbound', id) \in Nat /\ LastTriesIn(inbound', id) \in Nat
        /\ CopiesOf(id, processing') \in Nat /\ CopiesOf(id, deadLetters') \in Nat
    BY <2>1, ListedType, CopiesOfType
  <2> QED BY <2>2, <2>3 DEF Listed, CopiesOf
<1>3. ASSUME NEW w \in Workers, ListenerStep(w) \/ Failure(w) PROVE Balanced'
  <2>1. \A v \in Workers \ {w} : pc'[v] = pc[v] /\ held'[v] = held[v]
    BY <1>3, Arrivals DEF Arrives
  <2> QED BY <1>2, <1>3, <2>1, StepCovered, Rebalanced DEF Balanced
<1>4. CASE MineOrphan
  BY <1>4 DEF MineOrphan, Balanced, Debts, Listed, CopiesOf
<1>5. ASSUME NEW new \in Ids, Deliver(new) PROVE Balanced'
  <2> DEFINE m == [id |-> new, retryCount |-> 0]
  <2>1. m \in Messages /\ m.id = new /\ m.retryCount # maxRetries
    BY ListenerConstants DEF ListenerConstants, Messages
  <2>2. /\ inbound' = <<m>> \o inbound /\ inbound \in Seq(Messages)
        /\ UNCHANGED <<processing, deadLetters, pc, held, finished>>
        /\ delivered' = [delivered EXCEPT ![new] = @ + 1]
        /\ delivered \in [Ids -> 0..MaxDeliveries]
    BY <1>5 DEF Deliver, ListenerTypeOK
  <2> HIDE DEF m
  <2>3. ASSUME NEW id \in Ids
        PROVE  delivered'[id] + LastTriesIn(inbound', id) + Debts(id)' <= Listed(id)'
    <3>1. /\ WaitingIn(inbound', id) = WaitingIn(inbound, id) + Ones(m.id = id)
          /\ LastTriesIn(inbound', id)
               = LastTriesIn(inbound, id) + Ones(m.id = id /\ m.retryCount = maxRetries)
      BY <2>1, <2>2, Enqueued
    <3>2. /\ Ones(m.id = id /\ m.retryCount = maxRetries) = 0
          /\ Ones(m.id = id) = IF id = new THEN 1 ELSE 0
      BY <2>1 DEF Ones
    <3>3. /\ delivered[id] \in Nat /\ finished[id] \in Nat
          /\ WaitingIn(inbound, id) \in Nat /\ LastTriesIn(inbound, id) \in Nat
          /\ CopiesOf(id, processing) \in Nat /\ CopiesOf(id, deadLetters) \in Nat
      BY BalanceTypes
    <3>4. /\ Debts(id)' = Debts(id)
          /\ Listed(id)' = finished[id] + WaitingIn(inbound', id) + CopiesOf(id, processing)
                           + CopiesOf(id, deadLetters)
      BY <2>2 DEF Debts, Listed, CopiesOf
    <3>5. delivered'[id] = delivered[id] + (IF id = new THEN 1 ELSE 0)
      BY <2>2, <3>3
    <3>6. delivered[id] + LastTriesIn(inbound, id) + Debts(id) <= Listed(id)
      BY DEF Balanced
    <3>7. Debts(id) \in Nat
      <4>1. \A w \in Workers : [v \in Workers |-> Debt(pc[v], held[v], id)][w] \in Nat
        BY DebtType
      <4> QED BY <4>1, SumType, ListenerConstants DEF ListenerConstants, Debts
    <3>8. Listed(id)' = Listed(id) + (IF id = new THEN 1 ELSE 0)
      BY <3>1, <3>2, <3>3, <3>4 DEF Listed
    <3>9. LastTriesIn(inbound', id) = LastTriesIn(inbound, id) /\ Listed(id) \in Nat
      BY <3>1, <3>2, <3>3, BalanceTypes
    <3> QED BY <3>3, <3>4, <3>5, <3>6, <3>7, <3>8, <3>9
  <2> QED BY <2>3 DEF Balanced
<1> QED BY <1>3, <1>4, <1>5 DEF Next

-----------------------------------------------------------------------------
(* The theorems.                                                           *)

LEMMA ListenerInitially ==
  ASSUME Init
  PROVE  ListenerInv
<1>1. /\ IsABag(EmptyBag) /\ BagToSet(EmptyBag) = {}
      /\ \A x : Copies(x, EmptyBag) = 0
  BY EmptyCopies, CopiesType
<1>2. ListenerTypeOK
  BY <1>1, ListenerConstants DEF ListenerConstants, Init, ListenerTypeOK
<1>3. ControlOK
  BY <1>1 DEF Init, ControlOK
<1>4. LaunchOrdered
  BY <1>1 DEF Init, LaunchOrdered, FinishedMeansRegistered
<1>5. AnnouncementsCounted
  BY <1>1 DEF Init, AnnouncementsCounted, AnnouncedOnce, Announcing
<1>6. ASSUME NEW id \in Ids
      PROVE  delivered[id] + LastTriesIn(inbound, id) + Debts(id) <= Listed(id)
  <2>1. {i \in DOMAIN inbound : inbound[i] = [id |-> id, retryCount |-> maxRetries]} = {}
    BY DEF Init
  <2>2. LastTriesIn(inbound, id) = 0
    BY <2>1, FS_EmptySet DEF LastTriesIn
  <2>3. \A w \in Workers : [v \in Workers |-> Debt(pc[v], held[v], id)][w] = 0
    BY DEF Init, Debt
  <2>4. Debts(id) = 0
    BY <2>3, SumZero DEF Debts
  <2>5. Listed(id) \in Nat
    BY <1>2, <1>3, BalanceTypes
  <2>6. delivered[id] = 0
    BY DEF Init
  <2> QED BY <2>2, <2>4, <2>5, <2>6
<1> QED BY <1>2, <1>3, <1>4, <1>5, <1>6 DEF ListenerInv, Balanced

LEMMA ListenerNext ==
  ASSUME ListenerInv, [Next]_vars
  PROVE  ListenerInv'
<1>1. CASE Next
  BY <1>1, TypeStep, LaunchStep, AnnounceStep, BalanceStep DEF ListenerInv
<1>2. CASE UNCHANGED vars
  <2>1. ListenerTypeOK' /\ ControlOK'
    BY <1>2 DEF vars, ListenerInv, ListenerTypeOK, ControlOK
  <2>2. LaunchOrdered' /\ AnnouncementsCounted'
    BY <1>2 DEF vars, ListenerInv, LaunchOrdered, FinishedMeansRegistered, AnnouncementsCounted,
       AnnouncedOnce, Announcing
  <2>3. Balanced'
    BY <1>2 DEF vars, ListenerInv, Balanced, Debts, Listed, CopiesOf
  <2> QED BY <2>1, <2>2, <2>3 DEF ListenerInv
<1> QED BY <1>1, <1>2

\* The listeners keep the order of a launch, count the announcements and the
\* debts, through every race, failure and crash.
THEOREM ListenerInvariant == Spec => []ListenerInv
<1>1. Init => ListenerInv
  BY ListenerInitially
<1>2. ListenerInv /\ [Next]_vars => ListenerInv'
  BY ListenerNext
<1> QED BY <1>1, <1>2, PTL DEF Spec

\* No delivered message vanishes: what was delivered is finished, waits, is in
\* processing or is a dead letter (contract-deploy-listener.ts, queue.service.ts).
THEOREM MessagesAlwaysAccounted == Spec => []MessagesAccounted
<1>1. ListenerInv => MessagesAccounted
  <2> SUFFICES ASSUME ListenerInv PROVE MessagesAccounted
    OBVIOUS
  <2>1. ListenerTypeOK /\ ControlOK /\ Balanced
    BY DEF ListenerInv
  <2>2. ASSUME NEW id \in Ids
        PROVE  delivered[id] <= finished[id] + Waiting(id)
                                + CopiesOf(id, processing) + CopiesOf(id, deadLetters)
    <3>1. /\ delivered[id] \in Nat /\ LastTriesIn(inbound, id) \in Nat /\ Listed(id) \in Nat
      BY <2>1, BalanceTypes
    <3>2. Debts(id) \in Nat
      <4>1. \A w \in Workers : [v \in Workers |-> Debt(pc[v], held[v], id)][w] \in Nat
        BY DebtType
      <4> QED BY <4>1, SumType, ListenerConstants DEF ListenerConstants, Debts
    <3>3. delivered[id] + LastTriesIn(inbound, id) + Debts(id) <= Listed(id)
      BY <2>1 DEF Balanced
    <3>4. Listed(id) = finished[id] + Waiting(id) + CopiesOf(id, processing)
                       + CopiesOf(id, deadLetters)
      BY DEF Listed, WaitingIn, Waiting
    <3> QED BY <3>1, <3>2, <3>3, <3>4
  <2> QED BY <2>1, <2>2 DEF MessagesAccounted, NothingVanishes
<1> QED BY <1>1, ListenerInvariant, PTL

\* A message is dismissed as handled only when its model is registered.
THEOREM FinishedAlwaysRegistered == Spec => []FinishedMeansRegistered
<1>1. ListenerInv => FinishedMeansRegistered
  BY DEF ListenerInv, LaunchOrdered
<1> QED BY <1>1, ListenerInvariant, PTL

\* A model is announced once, and once more only for each publication whose
\* reply was lost.
THEOREM AlwaysAnnouncedOnce == Spec => []AnnouncedOnce
<1>1. ListenerInv => AnnouncedOnce
  BY DEF ListenerInv, AnnouncementsCounted
<1> QED BY <1>1, ListenerInvariant, PTL

\* Each step of the listeners is a step of a launch, or none: what is on the
\* chain and what was announced goes on as ModelLaunch says.
LEMMA LaunchStepMapped ==
  ASSUME ListenerInv, [Next]_vars
  PROVE  [Launch!LaunchNext]_(Launch!launch)
<1> USE DEF Launch!LaunchNext, Launch!launch, Launch!DeployModel, Launch!RegisterModel,
            Launch!AnnounceModel
<1> DEFINE announced == BagToSet(published)
<1>1. ListenerTypeOK /\ ControlOK /\ LaunchOrdered
  BY DEF ListenerInv
<1>2. CASE \/ UNCHANGED vars
           \/ \E id \in Ids : Deliver(id)
  BY <1>2 DEF vars, Deliver
<1>3. CASE MineOrphan
  <2>1. mempool \in Seq(Transactions) /\ mempool # <<>> /\ UNCHANGED published
    BY <1>1, <1>3 DEF ListenerTypeOK, MineOrphan
  <2>2. 1 \in DOMAIN mempool /\ Head(mempool) = mempool[1] /\ Head(mempool) \in Transactions
    BY <2>1
  <2>3. /\ Head(mempool).id \in Ids /\ Head(mempool).kind \in {"deploy", "register"}
        /\ Head(mempool).kind = "register" => Head(mempool).id \in tokens
    BY <1>1, <2>2 DEF LaunchOrdered, Transactions
  <2> QED BY <1>3, <2>1, <2>3 DEF MineOrphan
<1>4. ASSUME NEW w \in Workers, ListenerStep(w) \/ Failure(w)
      PROVE  [Launch!LaunchNext]_(Launch!launch)
  <2>1. Arrives(w) /\ Announces(w) /\ ChainChange(w)
    BY <1>1, <1>4, Arrivals, Announcements, ChainChanges
  <2>2. pc[w] # "idle" => held[w].id \in Ids
    BY <1>1, HoldsMessage
  <2>3. CASE UNCHANGED published
    <3>1. CASE UNCHANGED <<tokens, registry>>
      BY <2>3, <3>1
    <3>2. CASE pc[w] = "deploy" /\ tokens' = tokens \union {held[w].id} /\ UNCHANGED registry
      BY <2>2, <2>3, <3>2
    <3>3. CASE pc[w] = "register" /\ registry' = registry \union {held[w].id} /\ UNCHANGED tokens
      <4>1. held[w].id \in tokens
        BY <1>1, <3>3 DEF LaunchOrdered
      <4> QED BY <2>2, <2>3, <3>3, <4>1
    <3> QED BY <2>1, <3>1, <3>2, <3>3 DEF ChainChange
  <2>4. CASE pc[w] = "publish" /\ published' = published (+) One(held[w].id)
    <3>1. held[w].id \in registry
      BY <1>1, <2>4 DEF LaunchOrdered
    <3>2. UNCHANGED <<tokens, registry>>
      BY <2>1, <2>4 DEF ChainChange
    <3>3. BagToSet(published') = BagToSet(published) \union {held[w].id}
      BY <1>1, <2>4, CopiesPushed DEF ControlOK
    <3> QED BY <2>2, <2>4, <3>1, <3>2, <3>3
  <2> QED BY <2>1, <2>3, <2>4 DEF Announces
<1> QED BY <1>2, <1>3, <1>4 DEF Next

\* The deploy listeners implement the launch of a model, whatever races, fails,
\* is retried or is mined late.
THEOREM ListenersImplementLaunch == Spec => ImplementsLaunch
<1>1. Init => Launch!LaunchInit
  BY EmptyCopies, CopiesType DEF Init, Launch!LaunchInit
<1>2. ListenerInv /\ [Next]_vars => [Launch!LaunchNext]_(Launch!launch)
  BY LaunchStepMapped
<1> QED BY <1>1, <1>2, ListenerInvariant, PTL DEF Spec, ImplementsLaunch, Launch!LaunchSpec

=============================================================================
