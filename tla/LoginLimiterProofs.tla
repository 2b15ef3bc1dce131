------------------------- MODULE LoginLimiterProofs -------------------------
(***************************************************************************)
(* The login rate limiter, proved for every set of identifiers, any number *)
(* of handlers at once, every limit, timeout and number of retries.        *)
(***************************************************************************)
EXTENDS LoginLimiter, FiniteSetTheorems, TLAPS

LEMMA CachePut ==
  ASSUME NEW id, NEW v, Cache!Put(id, v, 0)
  PROVE  /\ DOMAIN attempts' \subseteq DOMAIN attempts \cup {id}
         /\ id \in DOMAIN attempts'
         /\ attempts'[id] = [value |-> v, expiresAt |-> Never]
         /\ \A x \in DOMAIN attempts' \ {id} : attempts'[x] = attempts[x]
         /\ LockdownEnabled => DOMAIN attempts' = DOMAIN attempts \cup {id}
<1>1. PICK m \in Cache!Room(id) :
        attempts' = Cache!With(m, id, [value |-> v, expiresAt |-> Cache!Deadline(0)])
  BY DEF Cache!Put
<1>2. Cache!Deadline(0) = Never
  BY DEF Cache!Deadline
<1>3. /\ DOMAIN m \subseteq DOMAIN attempts
      /\ \A x \in DOMAIN m : m[x] = attempts[x]
  BY DEF Cache!Room, Cache!Without
<1>4. LockdownEnabled => m = attempts
  BY DEF Cache!Room, Cache!Full
<1> QED
  BY <1>1, <1>2, <1>3, <1>4 DEF Cache!With

LEMMA FailureType ==
  ASSUME NEW a \in Attempt
  PROVE  /\ Failure(a) \in Attempt /\ Fresh \in Attempt
         /\ a.lockedFor > 0 => Failure(a).lockedFor > 0
BY ConfigAssumption DEF Failure, Fresh, Attempt

\* A tick takes one unit off every lock.
Ticked(a) == [a EXCEPT !.value.lockedFor = Left(@)]

LEMMA TickedType ==
  ASSUME NEW a \in [value : Attempt, expiresAt : {Never}]
  PROVE  /\ Ticked(a) \in [value : Attempt, expiresAt : {Never}]
         /\ Ticked(a).value.lockedFor = Left(a.value.lockedFor)
BY ConfigAssumption DEF Ticked, Left, Attempt

LEMMA SlotKinds ==
  ASSUME NEW slot \in Slot
  PROVE  /\ slot.at \in {"checkAttempt", "verify"} =>
              slot \in [at : {"checkAttempt", "verify"}, id : Id]
         /\ slot.at = "update" => slot \in [at : {"update"}, id : Id, success : BOOLEAN]
         /\ slot.at \in {"idle", "checkAttempt", "verify", "recordFull", "update"}
         /\ slot.at = "idle" => slot = Idle
         /\ Idle \in Slot /\ Idle.at = "idle"
BY DEF Slot, Idle

(***************************************************************************)
(* Type correctness, with two facts on the slots: only the users there are *)
(* succeed, and nothing is recorded while the limiter is disabled.         *)
(***************************************************************************)
Genuine(slot) ==
    /\ slot.at = "update" /\ slot.success => slot.id \in KnownUser
    /\ Disabled => slot.at \notin {"checkAttempt", "update"}

Types ==
    /\ TypeOK /\ IsFiniteSet(DOMAIN attempts)
    /\ \A r \in Request : Genuine(req[r])
    /\ Disabled => DOMAIN attempts = {}

\* What a step of slot r puts there.
LEMMA Moves ==
  ASSUME Types, NEW r \in Request,
         \/ \E id \in Id : begin(r, id)
         \/ Step(r)
  PROVE  \E v \in Slot : req' = [req EXCEPT ![r] = v] /\ Genuine(v)
<1>0. req[r] \in Slot /\ Genuine(req[r]) /\ Idle \in Slot /\ Genuine(Idle)
  BY SlotKinds DEF Types, TypeOK, Genuine
<1>1. ASSUME NEW id \in Id, begin(r, id)
      PROVE  \E v \in Slot : req' = [req EXCEPT ![r] = v] /\ Genuine(v)
  <2> DEFINE v == [at |-> IF Disabled THEN "verify" ELSE "checkAttempt", id |-> id]
  <2>1. v \in Slot /\ Genuine(v)
    BY DEF Slot, Genuine
  <2>2. req' = [req EXCEPT ![r] = v]
    BY <1>1 DEF begin, Goto
  <2> QED
    BY <2>1, <2>2
<1>2. CASE checkAttempt(r)
  <2>1. /\ [req[r] EXCEPT !.at = "verify"] \in Slot
        /\ [req[r] EXCEPT !.at = "verify"].at = "verify"
    BY <1>0, <1>2, SlotKinds DEF checkAttempt, Slot
  <2>2. Genuine([req[r] EXCEPT !.at = "verify"])
    BY <2>1 DEF Genuine
  <2> QED
    BY <1>0, <1>2, <2>1, <2>2 DEF checkAttempt, Goto
<1>3. CASE unrecorded(r)
  BY <1>0, <1>3 DEF unrecorded, Goto
<1>4. CASE record(r)
  <2>1. req[r].id \in Id /\ [at |-> "recordFull"] \in Slot /\ Genuine([at |-> "recordFull"])
    BY <1>0, <1>4, SlotKinds DEF record, Slot, Genuine
  <2>2. ASSUME NEW b \in Outcomes(req[r].id), ~Disabled
        PROVE  LET v == [at |-> "update", id |-> req[r].id, success |-> b]
               IN  v \in Slot /\ Genuine(v)
    BY <2>1, <2>2 DEF Outcomes, Slot, Genuine
  <2> QED
    BY <1>0, <1>4, <2>1, <2>2 DEF record, Goto
<1>5. CASE recordFull(r) \/ update(r)
  BY <1>0, <1>5 DEF recordFull, update, Goto
<1> QED
  BY <1>1, <1>2, <1>3, <1>4, <1>5 DEF Step

LEMMA NextTyped == Types /\ [Next]_vars => Types'
<1> SUFFICES ASSUME Types, [Next]_vars
             PROVE  Types'
  OBVIOUS
<1>0. /\ req \in [Request -> Slot] /\ LoginTimeout \in Nat /\ MaxSpawned \in Nat
      /\ \A r \in Request : req[r] \in Slot /\ Genuine(req[r])
  BY ConfigAssumption DEF Types, TypeOK
<1>1. CASE UNCHANGED vars
  BY <1>1 DEF vars, Types, TypeOK
<1>2. ASSUME NEW r \in Request, (\E id \in Id : begin(r, id)) \/ Step(r)
      PROVE  Types'
  <2>1. req' \in [Request -> Slot] /\ \A q \in Request : Genuine(req'[q])
    BY <1>0, <1>2, Moves
  <2>2. CASE UNCHANGED <<attempts, active, exiting, lockdownFor, overrun>>
    <3>1. spawned' \in 0 .. MaxSpawned
      <4>1. UNCHANGED spawned \/ (spawned < MaxSpawned /\ spawned' = spawned + 1)
        BY <1>2 DEF begin, Step, checkAttempt, unrecorded, record, recordFull, update
      <4> QED
        BY <1>0, <4>1 DEF Types, TypeOK
    <3> QED
      BY <2>1, <2>2, <3>1 DEF Types, TypeOK
  <2>3. CASE update(r)
    <3> DEFINE id == req[r].id
               old == IF id \in DOMAIN attempts THEN attempts[id].value ELSE Fresh
               new == IF req[r].success THEN Fresh ELSE Failure(old)
    <3>1. id \in Id /\ ~Disabled
      BY <1>0, <2>3, SlotKinds DEF update, Genuine
    <3>2. old \in Attempt
      BY ConfigAssumption DEF Types, TypeOK, Fresh, Attempt
    <3>3. new \in Attempt
      <4> HIDE DEF old
      <4> QED
        BY <3>2, FailureType
    <3>4. Cache!Put(id, new, 0)
      BY <2>3 DEF update
    <3> HIDE DEF new, id
    <3>5. /\ DOMAIN attempts' \subseteq DOMAIN attempts \cup {id}
          /\ attempts'[id] = [value |-> new, expiresAt |-> Never]
          /\ \A x \in DOMAIN attempts' \ {id} : attempts'[x] = attempts[x]
      BY <3>4, CachePut
    <3>6. IsFiniteSet(DOMAIN attempts')
      BY <3>5, FS_AddElement, FS_Subset DEF Types
    <3>7. overrun' \in [Id -> Nat]
      <4>1. PICK n \in {overrun[id] + 1, overrun[id], 0} :
              overrun' = [overrun EXCEPT ![id] = n]
        BY <2>3 DEF update, Counted, id
      <4> QED
        BY <3>1, <4>1 DEF Types, TypeOK
    <3>8. \A x \in DOMAIN attempts' : attempts'[x] \in [value : Attempt, expiresAt : {Never}]
      BY <3>3, <3>5 DEF Types, TypeOK
    <3>9. UNCHANGED <<active, exiting, lockdownFor, spawned>>
      BY <2>3 DEF update
    <3>10. DOMAIN attempts' \subseteq Id
      BY <3>1, <3>5 DEF Types, TypeOK
    <3> QED
      BY <2>1, <3>1, <3>6, <3>7, <3>8, <3>9, <3>10 DEF Types, TypeOK
  <2> QED
    BY <1>2, <2>2, <2>3
    DEF begin, Step, checkAttempt, unrecorded, record, recordFull
<1>3. CASE lockdownEnter
  BY <1>0, <1>3 DEF lockdownEnter, Types, TypeOK
<1>4. CASE lockdownClear
  <2>1. DOMAIN attempts' = {} /\ overrun' \in [Id -> Nat]
    BY <1>4 DEF lockdownClear, ClearAttempts
  <2> QED
    BY <1>4, <2>1, FS_EmptySet DEF lockdownClear, Types, TypeOK
<1>5. CASE lockdownExit
  BY <1>5 DEF lockdownExit, Types, TypeOK
<1>6. CASE Tick
  <2>1. /\ DOMAIN attempts' = DOMAIN attempts
        /\ \A i \in DOMAIN attempts' : attempts'[i] = Ticked(attempts[i])
    BY <1>6 DEF Tick, Ticked
  <2>2. \A i \in DOMAIN attempts' : attempts'[i] \in [value : Attempt, expiresAt : {Never}]
    BY <2>1, TickedType DEF Types, TypeOK
  <2>3. lockdownFor' \in 0 .. LoginTimeout /\ overrun' \in [Id -> Nat]
    BY <1>0, <1>6 DEF Tick, Left, Types, TypeOK
  <2> QED
    BY <1>6, <2>1, <2>2, <2>3 DEF Tick, Types, TypeOK
<1> QED
  BY <1>1, <1>2, <1>3, <1>4, <1>5, <1>6 DEF Next

LEMMA TypesInvariant == Spec => []Types
<1>1. Init => Types
  <2> SUFFICES ASSUME Init PROVE Types
    OBVIOUS
  <2>1. DOMAIN attempts = {} /\ IsFiniteSet(DOMAIN attempts)
    BY FS_EmptySet DEF Init
  <2>2. req \in [Request -> Slot] /\ \A r \in Request : Genuine(req[r])
    BY DEF Init, Slot, Genuine, Idle
  <2>3. overrun \in [Id -> Nat] /\ lockdownFor \in 0 .. LoginTimeout
        /\ spawned \in 0 .. MaxSpawned
    BY ConfigAssumption DEF Init
  <2>4. active \in BOOLEAN /\ exiting \in BOOLEAN
    BY DEF Init
  <2> QED
    BY <2>1, <2>2, <2>3, <2>4 DEF Types, TypeOK
<1> QED
  BY <1>1, NextTyped, PTL DEF Spec

\* The cache of IsAccountLocked and RecordLoginAttempt, the state of lockdownMode
\* and the slots of the handlers keep their types in every interleaving.
THEOREM TypeCorrect == Spec => []TypeOK
<1>1. Types => TypeOK
  BY DEF Types
<1> QED
  BY <1>1, TypesInvariant, PTL

(***************************************************************************)
(* Few failures get past a lock.  While an identifier is locked, a failure *)
(* that is added to the overrun takes a handler out of those that are past *)
(* the check, and none comes in; the one that set the lock is out as well. *)
(***************************************************************************)
Past(i) == {r \in Request : req[r].at \in {"verify", "update"} /\ req[r].id = i}

OverInv ==
    \A i \in Id :
      /\ overrun[i] < Cardinality(Request)
      /\ EntryLocked(i) => overrun[i] + Cardinality(Past(i)) < Cardinality(Request)

LEMMA PastFinite ==
  ASSUME NEW S \in SUBSET Request
  PROVE  /\ IsFiniteSet(S) /\ Cardinality(S) \in Nat
         /\ Cardinality(S) <= Cardinality(Request)
         /\ Cardinality(Request) \in Nat \ {0}
         /\ \A T \in SUBSET S : Cardinality(T) <= Cardinality(S) /\ Cardinality(T) \in Nat
         /\ \A r \in S : Cardinality(S \ {r}) = Cardinality(S) - 1
<1>1. /\ IsFiniteSet(S) /\ Cardinality(S) <= Cardinality(Request)
      /\ Cardinality(Request) \in Nat
  BY RequestAssumption, FS_Subset, FS_CardinalityType
<1>2. Cardinality(S) \in Nat
  BY <1>1, FS_CardinalityType
<1>3. Cardinality(Request) # 0
  BY RequestAssumption, FS_EmptySet
<1>4. \A T \in SUBSET S : Cardinality(T) <= Cardinality(S) /\ Cardinality(T) \in Nat
  BY <1>1, FS_Subset, FS_CardinalityType
<1>5. \A r \in S : Cardinality(S \ {r}) = Cardinality(S) - 1
  BY <1>1, FS_RemoveElement
<1> QED
  BY <1>1, <1>2, <1>3, <1>4, <1>5

\* Steps that leave an identifier's lock and overrun alone and let nobody past
\* its check.
LEMMA OverFrame ==
  ASSUME Types, OverInv, NEW i \in Id,
         overrun'[i] = overrun[i], EntryLocked(i)' => EntryLocked(i) /\ Past(i)' \subseteq Past(i)
  PROVE  /\ overrun'[i] < Cardinality(Request)
         /\ EntryLocked(i)' => overrun'[i] + Cardinality(Past(i)') < Cardinality(Request)
<1>1. Past(i) \in SUBSET Request /\ overrun[i] \in Nat
  BY DEF Past, Types, TypeOK
<1>2. overrun[i] < Cardinality(Request)
  BY DEF OverInv
<1>3. ASSUME EntryLocked(i)'
      PROVE  overrun'[i] + Cardinality(Past(i)') < Cardinality(Request)
  <2>1. /\ Cardinality(Past(i)') <= Cardinality(Past(i))
        /\ Cardinality(Past(i)') \in Nat /\ Cardinality(Past(i)) \in Nat
        /\ Cardinality(Request) \in Nat
    BY <1>1, <1>3, PastFinite
  <2>2. overrun[i] + Cardinality(Past(i)) < Cardinality(Request)
    BY <1>3 DEF OverInv
  <2> QED
    BY <1>1, <2>1, <2>2
<1> QED
  BY <1>2, <1>3

LEMMA NextOver == Types /\ OverInv /\ [Next]_vars => OverInv'
<1> SUFFICES ASSUME Types, OverInv, [Next]_vars
             PROVE  OverInv'
  OBVIOUS
<1>0. /\ req \in [Request -> Slot] /\ Cardinality(Request) \in Nat \ {0}
      /\ \A r \in Request : req[r] \in Slot /\ Genuine(req[r])
  BY PastFinite DEF Types, TypeOK
<1>1. CASE UNCHANGED <<attempts, req, overrun>>
  BY <1>1 DEF OverInv, EntryLocked, Past
<1>2. ASSUME NEW r \in Request, UNCHANGED <<attempts, overrun>>,
             \/ \E id \in Id : begin(r, id)
             \/ checkAttempt(r) \/ unrecorded(r) \/ record(r) \/ recordFull(r)
      PROVE  OverInv'
  <2>1. ASSUME NEW i \in Id, EntryLocked(i)
        PROVE  Past(i)' \subseteq Past(i)
    <3>1. ~Disabled
      BY <2>1 DEF EntryLocked, Types
    <3>2. \/ req'[r].at \notin {"verify", "update"}
          \/ /\ req'[r].id = req[r].id
             /\ req[r].at = "verify" \/ ~EntryLocked(req[r].id)
      <4>1. ASSUME NEW id \in Id, begin(r, id)
            PROVE  req'[r].at \notin {"verify", "update"}
        BY <1>0, <3>1, <4>1 DEF begin, Goto
      <4>2. CASE checkAttempt(r)
        <5>1. req[r] \in [at : {"checkAttempt", "verify"}, id : Id]
          BY <1>0, <4>2, SlotKinds DEF checkAttempt
        <5> QED
          BY <1>0, <4>2, <5>1 DEF checkAttempt, Goto, Idle
      <4>3. CASE unrecorded(r)
        BY <1>0, <4>3 DEF unrecorded, Goto, Idle
      <4>4. CASE record(r)
        BY <1>0, <4>4 DEF record, Goto, Idle
      <4>5. CASE recordFull(r)
        BY <1>0, <4>5 DEF recordFull, Goto, Idle
      <4> QED
        BY <1>2, <4>1, <4>2, <4>3, <4>4, <4>5
    <3>3. \A q \in Request \ {r} : req'[q] = req[q]
      BY <1>0, <1>2, Moves DEF Step
    <3> QED
      BY <2>1, <3>2, <3>3 DEF Past
  <2>2. \A i \in Id : (EntryLocked(i)' <=> EntryLocked(i)) /\ overrun'[i] = overrun[i]
    BY <1>2 DEF EntryLocked
  <2> QED
    BY <2>1, <2>2, OverFrame DEF OverInv
<1>3. ASSUME NEW r \in Request, update(r)
      PROVE  OverInv'
  <2> DEFINE id == req[r].id
             old == IF id \in DOMAIN attempts THEN attempts[id].value ELSE Fresh
             new == IF req[r].success THEN Fresh ELSE Failure(old)
  <2>1. id \in Id /\ r \in Past(id)
    BY <1>0, <1>3, SlotKinds DEF update, Past
  <2>2. \A q \in Request : req'[q] = IF q = r THEN Idle ELSE req[q]
    BY <1>0, <1>3 DEF update, Goto
  <2>3. \A i \in Id : Past(i)' \subseteq Past(i) \ {r}
    BY <2>2 DEF Past, Idle
  <2>4. Cache!Put(id, new, 0)
    BY <1>3 DEF update
  <2>5. \A i \in Id \ {id} : EntryLocked(i)' => EntryLocked(i)
    <3> HIDE DEF id, new
    <3> QED
      BY <2>4, CachePut DEF EntryLocked
  <2>6. PICK n \in {overrun[id] + 1, overrun[id], 0} :
          /\ overrun' = [overrun EXCEPT ![id] = n]
          /\ n # 0 => EntryLocked(id)
    BY <1>3 DEF update, Counted
  <2>7. overrun \in [Id -> Nat]
    BY DEF Types, TypeOK
  <2> HIDE DEF id, old, new
  <2>8. ASSUME NEW i \in Id, i # id
        PROVE  /\ overrun'[i] < Cardinality(Request)
               /\ EntryLocked(i)' => overrun'[i] + Cardinality(Past(i)') < Cardinality(Request)
    <3>1. overrun'[i] = overrun[i]
      BY <2>6, <2>7, <2>8
    <3> QED
      BY <2>3, <2>5, <2>8, <3>1, OverFrame
  <2>9. /\ overrun'[id] = n /\ n \in Nat /\ overrun[id] \in Nat
        /\ overrun[id] < Cardinality(Request)
    BY <2>1, <2>6, <2>7 DEF OverInv
  <2>10. \A x : x = id => /\ overrun'[x] < Cardinality(Request)
                          /\ overrun'[x] + Cardinality(Past(x)') < Cardinality(Request)
    <3> DEFINE S == Past(id)
               k == Cardinality(S)
               m == Cardinality({q \in Request : /\ req'[q].at \in {"verify", "update"}
                                                 /\ req'[q].id = id})
    <3>1. S \in SUBSET Request
      BY DEF Past
    <3>2. k \in Nat /\ m \in Nat /\ m <= k - 1 /\ k <= Cardinality(Request)
      <4>1. {q \in Request : /\ req'[q].at \in {"verify", "update"}
                             /\ req'[q].id = id} \subseteq S \ {r}
        BY <2>2 DEF Past, Idle
      <4>2. Cardinality(S \ {r}) = k - 1 /\ k \in Nat /\ k <= Cardinality(Request)
        BY <2>1, <3>1, PastFinite
      <4>3. S \ {r} \in SUBSET Request
        BY <3>1
      <4> QED
        BY <4>1, <4>2, <4>3, PastFinite
    <3>3. \A x : x = id => Cardinality(Past(x)') = m
      BY DEF Past
    <3>4. EntryLocked(id) => overrun[id] + k < Cardinality(Request)
      BY <2>1 DEF OverInv
    <3> HIDE DEF S, k, m
    <3>5. n < Cardinality(Request) /\ n + m < Cardinality(Request)
      <4>1. CASE n = 0
        BY <1>0, <3>2, <4>1
      <4>2. CASE n # 0
        BY <1>0, <2>6, <2>9, <3>2, <3>4, <4>2
      <4> QED
        BY <4>1, <4>2
    <3> QED
      BY <2>9, <3>3, <3>5
  <2> QED
    BY <2>8, <2>10 DEF OverInv
<1>4. CASE lockdownClear
  <2>1. DOMAIN attempts' = {} /\ \A i \in Id : overrun'[i] = 0
    BY <1>4 DEF lockdownClear, ClearAttempts
  <2> QED
    BY <1>0, <2>1 DEF OverInv, EntryLocked
<1>5. CASE Tick
  <2>1. ASSUME NEW i \in Id
        PROVE  /\ overrun'[i] < Cardinality(Request)
               /\ EntryLocked(i)' => overrun'[i] + Cardinality(Past(i)') < Cardinality(Request)
    <3>1. CASE i \in DOMAIN attempts /\ attempts[i].value.lockedFor > 1
      <4>1. overrun'[i] = overrun[i] /\ EntryLocked(i) /\ UNCHANGED req
        BY <1>5, <2>1, <3>1 DEF Tick, EntryLocked, Types, TypeOK, Attempt
      <4> QED
        BY <2>1, <4>1, OverFrame DEF Past
    <3>2. CASE ~(i \in DOMAIN attempts /\ attempts[i].value.lockedFor > 1)
      <4>1. overrun'[i] = 0
        BY <1>5, <2>1, <3>2 DEF Tick
      <4>2. ~EntryLocked(i)'
        <5> SUFFICES ASSUME i \in DOMAIN attempts
                     PROVE  ~(attempts'[i].value.lockedFor > 0)
          BY <1>5 DEF EntryLocked, Tick
        <5>1. attempts'[i] = Ticked(attempts[i])
          BY <1>5 DEF Tick, Ticked
        <5>2. attempts[i] \in [value : Attempt, expiresAt : {Never}]
          BY DEF Types, TypeOK
        <5>3. attempts'[i].value.lockedFor = Left(attempts[i].value.lockedFor)
          BY <5>1, <5>2, TickedType
        <5>4. attempts[i].value.lockedFor \in 0 .. LoginTimeout
          BY <5>2 DEF Attempt
        <5> QED
          BY <3>2, <5>3, <5>4, ConfigAssumption DEF Left
      <4> QED
        BY <1>0, <4>1, <4>2
    <3> QED
      BY <3>1, <3>2
  <2> QED
    BY <2>1 DEF OverInv
<1> QED
  BY <1>1, <1>2, <1>3, <1>4, <1>5 DEF Next, Step, vars, begin, checkAttempt, unrecorded, record,
     recordFull, lockdownEnter, lockdownExit

\* IsAccountLocked before, RecordLoginAttempt after, and no lock in between: still
\* a lock period sees fewer recorded failures than there are handlers.
THEOREM OverrunsBounded == Spec => []OverrunBounded
<1>1. Init => OverInv
  <2>1. Cardinality(Request) \in Nat \ {0}
    BY PastFinite
  <2> QED
    BY <2>1 DEF Init, OverInv, EntryLocked
<1>2. OverInv => OverrunBounded
  BY DEF OverInv, OverrunBounded
<1> QED
  BY <1>1, <1>2, NextOver, TypesInvariant, PTL DEF Spec

(***************************************************************************)
(* Locks hold.  With lockdown mode on the cache has no capacity, so no     *)
(* entry makes room for another one.                                       *)
(***************************************************************************)
LEMMA NextHolds ==
  ASSUME LockdownEnabled, Types, Next
  PROVE  LockHoldsStep
<1> SUFFICES ASSUME NEW i \in Id, EntryLocked(i)
             PROVE  \/ EntryLocked(i)'
                    \/ attempts[i].value.lockedFor = 1 /\ Tick
                    \/ \E r \in Request : /\ req[r].at = "update" /\ req'[r] = Idle
                                          /\ req[r].id = i /\ req[r].success
                    \/ exiting'
  BY DEF LockHoldsStep
<1>0. /\ i \in DOMAIN attempts /\ attempts[i] \in [value : Attempt, expiresAt : {Never}]
      /\ attempts[i].value \in Attempt /\ attempts[i].value.lockedFor > 0
      /\ attempts[i].value.lockedFor \in Nat
  BY DEF EntryLocked, Types, TypeOK, Attempt
<1>1. CASE UNCHANGED attempts
  BY <1>1 DEF EntryLocked
<1>2. CASE lockdownClear
  BY <1>2 DEF lockdownClear
<1>3. CASE Tick
  <2>1. attempts'[i] = Ticked(attempts[i]) /\ DOMAIN attempts' = DOMAIN attempts
    BY <1>0, <1>3 DEF Tick, Ticked
  <2>2. attempts'[i].value.lockedFor = Left(attempts[i].value.lockedFor)
    BY <1>0, <2>1, TickedType
  <2>3. attempts[i].value.lockedFor # 1 => EntryLocked(i)'
    BY <1>0, <2>1, <2>2 DEF EntryLocked, Left
  <2> QED
    BY <1>3, <2>3
<1>4. ASSUME NEW r \in Request, update(r)
      PROVE  \/ EntryLocked(i)'
             \/ \E q \in Request : /\ req[q].at = "update" /\ req'[q] = Idle
                                   /\ req[q].id = i /\ req[q].success
  <2> DEFINE id == req[r].id
             old == IF id \in DOMAIN attempts THEN attempts[id].value ELSE Fresh
             new == IF req[r].success THEN Fresh ELSE Failure(old)
  <2>1. Cache!Put(id, new, 0)
    BY <1>4 DEF update
  <2>2. CASE id # i
    <3> HIDE DEF id, new
    <3>0. /\ DOMAIN attempts' = DOMAIN attempts \cup {id}
          /\ \A x \in DOMAIN attempts' \ {id} : attempts'[x] = attempts[x]
      BY <2>1, CachePut, Zenon
    <3>1. i \in DOMAIN attempts' /\ attempts'[i] = attempts[i]
      BY <1>0, <2>2, <3>0
    <3> QED
      BY <1>0, <3>1 DEF EntryLocked
  <2>3. CASE id = i /\ req[r].success
    BY <1>4, <2>3 DEF update, Goto, Types, TypeOK
  <2>4. CASE id = i /\ ~req[r].success
    <3>1. new = Failure(attempts[i].value)
      BY <1>0, <2>4
    <3> HIDE DEF id, new
    <3>2. i \in DOMAIN attempts' /\ attempts'[i] = [value |-> new, expiresAt |-> Never]
      BY <2>1, <2>4, CachePut
    <3>3. new.lockedFor > 0
      BY <1>0, <3>1, FailureType
    <3> QED
      BY <3>2, <3>3 DEF EntryLocked
  <2> QED
    BY <2>2, <2>3, <2>4
<1> QED
  BY <1>1, <1>2, <1>3, <1>4 DEF Next, Step, begin, checkAttempt, unrecorded, record,
     recordFull, lockdownEnter, lockdownExit

\* With lockdown mode on, a lock ends early only by a recorded success of that
\* very identifier, or with a lockdown: neither other identifiers' failures
\* (RecordLoginAttempt) nor a full store touch it.
THEOREM LocksHold ==
  ASSUME LockdownEnabled
  PROVE  Spec => LockHolds
<1>1. Types /\ [Next]_vars => [LockHoldsStep]_vars
  BY NextHolds
<1> QED
  BY <1>1, TypesInvariant, PTL DEF Spec, LockHolds

(***************************************************************************)
(* The size of the cache.  Entries of identifiers that cannot log in come  *)
(* from failures only, and of those at most one per handler is past the    *)
(* check of the size.                                                      *)
(***************************************************************************)
Strangers == DOMAIN attempts \ KnownUser
Coming == {r \in Request : req[r].at = "update" /\ ~req[r].success}

SizeInv ==
    LockdownEnabled =>
      Cardinality(Strangers) + Cardinality(Coming)
        <= MaxLoginLimits + Cardinality(Request) - 1

LEMMA SizesAreNumbers ==
  ASSUME Types
  PROVE  /\ IsFiniteSet(Strangers) /\ Cardinality(Strangers) \in Nat
         /\ Cardinality(Strangers) <= Cardinality(DOMAIN attempts)
         /\ Cardinality(DOMAIN attempts) \in Nat
         /\ Coming \in SUBSET Request
         /\ Cardinality(Coming) \in Nat /\ Cardinality(Coming) <= Cardinality(Request)
         /\ Cardinality(Request) \in Nat \ {0} /\ MaxLoginLimits \in Nat \ {0}
<1>1. Strangers \subseteq DOMAIN attempts /\ IsFiniteSet(DOMAIN attempts)
  BY DEF Strangers, Types
<1>2. IsFiniteSet(Strangers) /\ Cardinality(Strangers) <= Cardinality(DOMAIN attempts)
  BY <1>1, FS_Subset
<1>3. Cardinality(Strangers) \in Nat /\ Cardinality(DOMAIN attempts) \in Nat
  BY <1>1, <1>2, FS_CardinalityType
<1>4. Coming \in SUBSET Request
  BY DEF Coming
<1> QED
  BY <1>2, <1>3, <1>4, PastFinite, ConfigAssumption

\* Steps that add neither a stranger nor one who is coming.
LEMMA SizeFrame ==
  ASSUME Types, SizeInv, Strangers' \subseteq Strangers, Coming' \subseteq Coming
  PROVE  SizeInv'
<1> SUFFICES ASSUME LockdownEnabled
             PROVE  Cardinality(Strangers') + Cardinality(Coming')
                      <= MaxLoginLimits + Cardinality(Request) - 1
  BY DEF SizeInv
<1>1. Cardinality(Strangers') \in Nat /\ Cardinality(Strangers') <= Cardinality(Strangers)
  BY SizesAreNumbers, FS_Subset, FS_CardinalityType
<1>2. Cardinality(Coming') \in Nat /\ Cardinality(Coming') <= Cardinality(Coming)
  BY SizesAreNumbers, PastFinite
<1>3. Cardinality(Strangers) + Cardinality(Coming) <= MaxLoginLimits + Cardinality(Request) - 1
  BY DEF SizeInv
<1> QED
  BY <1>1, <1>2, <1>3, SizesAreNumbers

LEMMA NextSize == Types /\ SizeInv /\ [Next]_vars => SizeInv'
<1> SUFFICES ASSUME Types, SizeInv, [Next]_vars
             PROVE  SizeInv'
  OBVIOUS
<1>0. /\ req \in [Request -> Slot] /\ Types'
      /\ \A r \in Request : req[r] \in Slot /\ Genuine(req[r])
  BY NextTyped DEF Types, TypeOK
<1>1. ASSUME UNCHANGED req, DOMAIN attempts' \subseteq DOMAIN attempts
      PROVE  SizeInv'
  BY <1>1, SizeFrame DEF Strangers, Coming
<1>2. ASSUME NEW r \in Request, UNCHANGED attempts,
             \/ \E id \in Id : begin(r, id)
             \/ checkAttempt(r) \/ unrecorded(r) \/ recordFull(r)
      PROVE  SizeInv'
  <2>1. PICK v \in Slot : req' = [req EXCEPT ![r] = v] /\ v.at # "update"
    <3>1. ASSUME NEW id \in Id, begin(r, id)
          PROVE  req'[r].at # "update"
      BY <1>0, <3>1 DEF begin, Goto
    <3>2. ASSUME checkAttempt(r)
          PROVE  req'[r].at # "update"
      <4>1. req[r] \in [at : {"checkAttempt", "verify"}, id : Id]
        BY <1>0, <3>2, SlotKinds DEF checkAttempt
      <4> QED
        BY <1>0, <3>2, <4>1 DEF checkAttempt, Goto, Idle
    <3>3. ASSUME unrecorded(r)
          PROVE  req'[r].at # "update"
      BY <1>0, <3>3 DEF unrecorded, Goto, Idle
    <3>4. ASSUME recordFull(r)
          PROVE  req'[r].at # "update"
      BY <1>0, <3>4 DEF recordFull, Goto, Idle
    <3>5. req'[r].at # "update"
      BY <1>2, <3>1, <3>2, <3>3, <3>4
    <3> QED
      BY <1>0, <1>2, <3>5, Moves DEF Step
  <2>2. Coming' \subseteq Coming
    <3>1. \A q \in Request : q \in Coming' => q # r /\ req'[q] = req[q]
      BY <1>0, <2>1 DEF Coming
    <3> QED
      BY <3>1 DEF Coming
  <2> QED
    BY <1>2, <2>2, SizeFrame DEF Strangers
<1>3. ASSUME NEW r \in Request, record(r)
      PROVE  SizeInv'
  <2>1. UNCHANGED attempts
    BY <1>3 DEF record
  <2>2. CASE LockdownEnabled /\ ~LoginCacheFull
    <3>1. Cardinality(Strangers) <= MaxLoginLimits - 1
      BY <2>2, SizesAreNumbers DEF LoginCacheFull
    <3>2. Strangers' = Strangers
      BY <2>1 DEF Strangers
    <3>3. Cardinality(Coming') \in Nat /\ Cardinality(Coming') <= Cardinality(Request)
      BY <1>0, PastFinite DEF Coming
    <3> QED
      BY <3>1, <3>2, <3>3, SizesAreNumbers DEF SizeInv
  <2>3. CASE LockdownEnabled /\ LoginCacheFull
    <3>1. PICK b \in Outcomes(req[r].id) :
            \/ req' = [req EXCEPT ![r] = [at |-> "update", id |-> req[r].id, success |-> b]]
               /\ b
            \/ req' = [req EXCEPT ![r] = [at |-> "recordFull"]]
            \/ req' = [req EXCEPT ![r] = Idle]
      BY <1>3, <2>3 DEF record, Goto
    <3>4. r \notin Coming'
      BY <1>0, <3>1 DEF Coming, Idle
    <3>5. \A q \in Request \ {r} : req'[q] = req[q]
      BY <1>0, <1>3, Moves DEF Step
    <3>6. Coming' \subseteq Coming
      BY <3>4, <3>5 DEF Coming
    <3> QED
      BY <2>1, <3>6, SizeFrame DEF Strangers
  <2>4. CASE ~LockdownEnabled
    BY <2>4 DEF SizeInv
  <2> QED
    BY <2>2, <2>3, <2>4
<1>4. ASSUME NEW r \in Request, update(r)
      PROVE  SizeInv'
  <2> DEFINE id == req[r].id
  <2>1. PICK new : Cache!Put(id, new, 0)
    BY <1>4 DEF update
  <2>2. DOMAIN attempts' \subseteq DOMAIN attempts \cup {id}
    <3> HIDE DEF id
    <3> QED
      BY <2>1, CachePut
  <2>3. \A q \in Request : req'[q] = IF q = r THEN Idle ELSE req[q]
    BY <1>0, <1>4 DEF update, Goto
  <2>4. Coming' \subseteq Coming \ {r}
    BY <2>3 DEF Coming, Idle
  <2>5. req[r].at = "update"
    BY <1>4 DEF update
  <2>6. CASE id \in KnownUser
    BY <2>2, <2>4, <2>6, SizeFrame DEF Strangers
  <2>7. CASE id \notin KnownUser
    <3>1. r \in Coming
      BY <1>0, <2>5, <2>7 DEF Genuine, Coming
    <3>2. Cardinality(Coming') \in Nat /\ Cardinality(Coming') <= Cardinality(Coming) - 1
      <4>1. Coming \ {r} \in SUBSET Request /\ Cardinality(Coming \ {r}) = Cardinality(Coming) - 1
        BY <3>1, SizesAreNumbers, PastFinite
      <4> QED
        BY <2>4, <4>1, PastFinite
    <3>3. Cardinality(Strangers') \in Nat /\ Cardinality(Strangers') <= Cardinality(Strangers) + 1
      <4>1. Strangers' \subseteq Strangers \cup {id}
        BY <2>2 DEF Strangers
      <4> HIDE DEF id
      <4>2. /\ IsFiniteSet(Strangers \cup {id})
            /\ Cardinality(Strangers \cup {id}) <= Cardinality(Strangers) + 1
        BY SizesAreNumbers, FS_AddElement
      <4>3. /\ Cardinality(Strangers') <= Cardinality(Strangers \cup {id})
            /\ Cardinality(Strangers') \in Nat /\ Cardinality(Strangers \cup {id}) \in Nat
        BY <4>1, <4>2, FS_Subset, FS_CardinalityType
      <4> QED
        BY <4>2, <4>3, SizesAreNumbers
    <3>4. LockdownEnabled =>
            Cardinality(Strangers) + Cardinality(Coming)
              <= MaxLoginLimits + Cardinality(Request) - 1
      BY DEF SizeInv
    <3> QED
      BY <3>2, <3>3, <3>4, SizesAreNumbers DEF SizeInv
  <2> QED
    BY <2>6, <2>7
<1>5. CASE lockdownClear \/ Tick
  <2>1. UNCHANGED req /\ DOMAIN attempts' \subseteq DOMAIN attempts
    BY <1>5 DEF lockdownClear, ClearAttempts, Tick
  <2> QED
    BY <1>1, <2>1
<1> QED
  BY <1>1, <1>2, <1>3, <1>4, <1>5 DEF Next, Step, vars, begin, checkAttempt, unrecorded,
     recordFull, lockdownEnter, lockdownExit

\* The check of the size in RecordLoginAttempt is read outside the lock of the
\* update; the cache still outgrows the limit by no more than one entry per
\* handler in flight and the entries of those who can log in.
THEOREM LimiterStaysBounded == Spec => []LimiterBounded
<1>1. Init => SizeInv
  <2> SUFFICES ASSUME Init PROVE SizeInv
    OBVIOUS
  <2>1. Strangers = {} /\ Coming = {}
    BY DEF Init, Strangers, Coming, Idle
  <2>2. Cardinality({}) = 0
    BY FS_EmptySet
  <2> QED
    BY <2>1, <2>2, PastFinite, ConfigAssumption DEF SizeInv
<1>2. Types /\ SizeInv => LimiterBounded
  <2> SUFFICES ASSUME Types, SizeInv, LockdownEnabled
               PROVE  Cardinality(DOMAIN attempts)
                        <= MaxLoginLimits + Cardinality(Request) - 1 + Cardinality(KnownUser)
    BY DEF LimiterBounded
  <2>1. /\ IsFiniteSet(Strangers \cup KnownUser)
        /\ Cardinality(Strangers \cup KnownUser) <= Cardinality(Strangers) + Cardinality(KnownUser)
        /\ Cardinality(KnownUser) \in Nat
    <3>1. IsFiniteSet(Strangers) /\ IsFiniteSet(KnownUser)
      BY SizesAreNumbers, UsersAssumption
    <3>2. /\ IsFiniteSet(Strangers \cup KnownUser)
          /\ Cardinality(Strangers \cup KnownUser)
               = Cardinality(Strangers) + Cardinality(KnownUser)
                 - Cardinality(Strangers \cap KnownUser)
      BY <3>1, FS_Union
    <3>3. Cardinality(Strangers \cap KnownUser) = 0
      <4>1. Strangers \cap KnownUser = {}
        BY DEF Strangers
      <4> QED
        BY <4>1, FS_EmptySet
    <3> QED
      BY <3>1, <3>2, <3>3, SizesAreNumbers, FS_CardinalityType
  <2>2. DOMAIN attempts \subseteq Strangers \cup KnownUser
    BY DEF Strangers
  <2>3. /\ Cardinality(DOMAIN attempts) <= Cardinality(Strangers \cup KnownUser)
        /\ Cardinality(Strangers \cup KnownUser) \in Nat
    BY <2>1, <2>2, FS_Subset, FS_CardinalityType
  <2>4. Cardinality(Strangers) + Cardinality(Coming)
          <= MaxLoginLimits + Cardinality(Request) - 1
    BY DEF SizeInv
  <2> QED
    BY <2>1, <2>3, <2>4, SizesAreNumbers
<1> QED
  BY <1>1, <1>2, NextSize, TypesInvariant, PTL DEF Spec
=============================================================================
