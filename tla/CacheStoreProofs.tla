-------------------------- MODULE CacheStoreProofs --------------------------
(***************************************************************************)
(* The invariants of CacheStore, proved for every set of keys, capacity    *)
(* and set of times to live.                                               *)
(***************************************************************************)
EXTENDS CacheStore, TLAPS, SequenceTheorems, FiniteSetTheorems

(***************************************************************************)
(* What deleteCallback does to the slice: the key is gone, every other key *)
(* is kept, and no duplicate appears.                                      *)
(***************************************************************************)
LEMMA RemoveAtElements ==
  ASSUME NEW S, NEW s \in Seq(S), NEW i \in 1 .. Len(s)
  PROVE  /\ RemoveAt(s, i) \in Seq(S)
         /\ Len(RemoveAt(s, i)) = Len(s) - 1
         /\ \A j \in 1 .. Len(s) - 1 :
              RemoveAt(s, i)[j] = IF j < i THEN s[j] ELSE s[j + 1]
<1> DEFINE a == SubSeq(s, 1, i - 1)
           b == SubSeq(s, i + 1, Len(s))
<1>0. Len(s) \in Nat /\ i \in Nat
  BY LenProperties
<1>1. /\ a \in Seq(S)
      /\ Len(a) = i - 1
      /\ \A j \in 1 .. i - 1 : a[j] = s[j]
  BY SubSeqProperties, LenProperties, ElementOfSeq
<1>2. /\ b \in Seq(S)
      /\ Len(b) = Len(s) - i
      /\ \A j \in 1 .. Len(s) - i : b[j] = s[i + j]
  BY SubSeqProperties, LenProperties, ElementOfSeq
<1> HIDE DEF a, b
<1>3. /\ a \o b \in Seq(S)
      /\ Len(a \o b) = Len(a) + Len(b)
      /\ \A j \in 1 .. Len(a) + Len(b) :
           (a \o b)[j] = IF j <= Len(a) THEN a[j] ELSE b[j - Len(a)]
  BY <1>1, <1>2, ConcatProperties
<1>4. RemoveAt(s, i) = a \o b
  BY DEF RemoveAt, a, b
<1>5. ASSUME NEW j \in 1 .. Len(s) - 1
      PROVE  (a \o b)[j] = IF j < i THEN s[j] ELSE s[j + 1]
  <2>1. CASE j < i
    BY <2>1, <1>1, <1>2, <1>3, <1>0
  <2>2. CASE j >= i
    <3>1. b[j - (i - 1)] = s[i + (j - (i - 1))]
      BY <2>2, <1>2, <1>0
    <3> QED
      BY <2>2, <3>1, <1>1, <1>2, <1>3, <1>0
  <2>3. j < i \/ j >= i
    BY <1>0
  <2> QED
    BY <2>1, <2>2, <2>3, Zenon
<1>6. Len(a \o b) = Len(s) - 1
  BY <1>0, <1>1, <1>2, <1>3
<1> QED
  BY <1>3, <1>4, <1>5, <1>6, Zenon

\* On a slice without duplicates, the loop of deleteCallback removes the one
\* position that holds the key.
LEMMA RemoveFirstIsRemoveAt ==
  ASSUME NEW S, NEW s \in Seq(S), NEW e, e \in ToSet(s), IsInjective(s)
  PROVE  \E i \in 1 .. Len(s) : s[i] = e /\ RemoveFirst(s, e) = RemoveAt(s, i)
<1> DEFINE I == {i \in 1 .. Len(s) : s[i] = e}
<1>1. PICK i \in 1 .. Len(s) : s[i] = e
  BY DEF ToSet
<1>2. I = {i}
  BY <1>1 DEF IsInjective
<1>3. Min({i}) = i
  BY DEF Min
<1>4. RemoveFirst(s, e) = RemoveAt(s, Min(I))
  BY <1>1 DEF RemoveFirst, SelectInSeq
<1> QED
  BY <1>1, <1>2, <1>3, <1>4

\* deleteCallback takes exactly the key out of a slice without duplicates, and
\* leaves a slice without a key alone.
LEMMA RemoveFirstElements ==
  ASSUME NEW S, NEW s \in Seq(S), NEW e, IsInjective(s)
  PROVE  /\ RemoveFirst(s, e) \in Seq(S)
         /\ ToSet(RemoveFirst(s, e)) = ToSet(s) \ {e}
         /\ IsInjective(RemoveFirst(s, e))
<1>1. CASE e \notin ToSet(s)
  <2>1. RemoveFirst(s, e) = s
    BY <1>1 DEF ToSet, RemoveFirst, SelectInSeq
  <2> QED
    BY <1>1, <2>1
<1>2. CASE e \in ToSet(s)
  <2>1. PICK i \in 1 .. Len(s) : s[i] = e /\ RemoveFirst(s, e) = RemoveAt(s, i)
    BY <1>2, RemoveFirstIsRemoveAt
  <2> DEFINE t == RemoveAt(s, i)
  <2>2. /\ t \in Seq(S)
        /\ Len(t) = Len(s) - 1
        /\ \A j \in 1 .. Len(s) - 1 : t[j] = IF j < i THEN s[j] ELSE s[j + 1]
    BY RemoveAtElements
  <2> HIDE DEF t
  <2>3. IsInjective(t)
    <3> DEFINE old(j) == IF j < i THEN j ELSE j + 1
    <3>1. \A j \in 1 .. Len(s) - 1 : old(j) \in 1 .. Len(s) /\ t[j] = s[old(j)]
      BY <2>2
    <3>2. \A a, b \in 1 .. Len(s) - 1 : old(a) = old(b) => a = b
      OBVIOUS
    <3> HIDE DEF old
    <3>3. \A a, b \in 1 .. Len(s) : s[a] = s[b] => a = b
      <4>1. DOMAIN s = 1 .. Len(s)
        OBVIOUS
      <4> QED
        BY <4>1 DEF IsInjective
    <3>4. DOMAIN t = 1 .. Len(s) - 1
      BY <2>2
    <3>5. ASSUME NEW a \in 1 .. Len(s) - 1, NEW b \in 1 .. Len(s) - 1, t[a] = t[b]
          PROVE  a = b
      <4>1. s[old(a)] = s[old(b)]
        BY <3>1, <3>5
      <4>2. old(a) = old(b)
        BY <4>1, <3>1, <3>3
      <4> QED
        BY <4>2, <3>2
    <3> QED
      BY <3>4, <3>5 DEF IsInjective
  <2>4. ToSet(t) = ToSet(s) \ {e}
    <3>1. ToSet(t) \subseteq ToSet(s) \ {e}
      BY <2>1, <2>2 DEF ToSet, IsInjective
    <3>2. ASSUME NEW x \in ToSet(s) \ {e}
          PROVE  x \in ToSet(t)
      <4>1. PICK j \in 1 .. Len(s) : s[j] = x
        BY DEF ToSet
      <4>2. CASE j < i
        BY <4>1, <4>2, <2>2 DEF ToSet
      <4>3. CASE j > i
        <5>1. j - 1 \in 1 .. Len(s) - 1 /\ t[j - 1] = s[j]
          BY <4>3, <2>2
        <5> QED
          BY <5>1, <4>1, <2>2 DEF ToSet
      <4> QED
        BY <4>1, <4>2, <4>3, <2>1
    <3> QED
      BY <3>1, <3>2
  <2> QED
    BY <2>1, <2>2, <2>3, <2>4 DEF t
<1> QED
  BY <1>1, <1>2

\* setCallback's append of a key the slice does not hold adds just that key.
LEMMA AppendElements ==
  ASSUME NEW S, NEW s \in Seq(S), NEW e \in S, IsInjective(s), ~Contains(s, e)
  PROVE  /\ Append(s, e) \in Seq(S)
         /\ ToSet(Append(s, e)) = ToSet(s) \cup {e}
         /\ IsInjective(Append(s, e))
<1> DEFINE t == Append(s, e)
<1>1. /\ t \in Seq(S)
      /\ Len(t) = Len(s) + 1
      /\ \A j \in 1 .. Len(s) + 1 : t[j] = IF j <= Len(s) THEN s[j] ELSE e
  OBVIOUS
<1> HIDE DEF t
<1>2. IsInjective(t)
  BY <1>1 DEF IsInjective, Contains
<1>3. ToSet(t) = ToSet(s) \cup {e}
  <2>1. ToSet(t) \subseteq ToSet(s) \cup {e}
    BY <1>1 DEF ToSet
  <2>2. e \in ToSet(t)
    BY <1>1 DEF ToSet
  <2>3. ToSet(s) \subseteq ToSet(t)
    BY <1>1 DEF ToSet
  <2> QED
    BY <2>1, <2>2, <2>3
<1> QED
  BY <1>1, <1>2, <1>3 DEF t

-----------------------------------------------------------------------------
(* The map and the slice agree, on any pair of them an operation builds. *)
Rep(c, o) ==
    /\ DOMAIN c \subseteq Key
    /\ c \in [DOMAIN c -> Entry]
    /\ o \in Seq(Key)
    /\ DOMAIN c = ToSet(o)
    /\ IsInjective(o)

IInv == TypeOK /\ OrderMatchesCache /\ SizeBounded

\* A map that a slice enumerates is finite: len(cs.cache) is a number.
LEMMA RepFinite ==
  ASSUME NEW c, NEW o, Rep(c, o)
  PROVE  /\ IsFiniteSet(DOMAIN c)
         /\ Cardinality(DOMAIN c) \in Nat
<1>1. Len(o) \in Nat /\ DOMAIN o = 1 .. Len(o)
  BY LenProperties DEF Rep
<1>2. IsFiniteSet(DOMAIN o)
  BY <1>1, FS_Interval
<1>3. o \in Surjection(DOMAIN o, ToSet(o))
  BY <1>1 DEF Rep, ToSet, Surjection
<1>4. IsFiniteSet(ToSet(o))
  BY <1>2, <1>3, FS_Surjection
<1> QED
  BY <1>4, FS_CardinalityType DEF Rep

\* Deleting a key from the map and the slice keeps them in agreement.
LEMMA RepWithout ==
  ASSUME NEW c, NEW o, Rep(c, o), NEW k
  PROVE  /\ Rep(Without(c, k), RemoveFirst(o, k))
         /\ DOMAIN Without(c, k) = DOMAIN c \ {k}
<1>1. /\ RemoveFirst(o, k) \in Seq(Key)
      /\ ToSet(RemoveFirst(o, k)) = ToSet(o) \ {k}
      /\ IsInjective(RemoveFirst(o, k))
  BY RemoveFirstElements DEF Rep
<1> QED
  BY <1>1 DEF Rep, Without

\* Storing a key, and appending it when slices.Contains does not find it, keeps
\* the map and the slice in agreement.
LEMMA RepWith ==
  ASSUME NEW c, NEW o, Rep(c, o), NEW k \in Key, NEW e \in Entry
  PROVE  /\ Rep(With(c, k, e), IF Contains(o, k) THEN o ELSE Append(o, k))
         /\ DOMAIN With(c, k, e) = DOMAIN c \cup {k}
<1> DEFINE p == IF Contains(o, k) THEN o ELSE Append(o, k)
<1>1. p \in Seq(Key) /\ ToSet(p) = ToSet(o) \cup {k} /\ IsInjective(p)
  <2>1. CASE Contains(o, k)
    BY <2>1, LenProperties DEF Rep, Contains, ToSet
  <2>2. CASE ~Contains(o, k)
    BY <2>2, AppendElements DEF Rep
  <2> QED
    BY <2>1, <2>2
<1> QED
  BY <1>1 DEF Rep, With

\* The expiry setCallback computes is a time, or none.
LEMMA DeadlineType ==
  ASSUME now \in Nat, NEW ttl \in Ttl
  PROVE  Deadline(ttl) \in Nat \cup {Never}
  BY TtlAssumption DEF Deadline

\* The invariant in terms of Rep, the form the steps on setCallback,
\* deleteCallback and Sweep work with.
LEMMA IInvRep ==
  IInv <=> /\ Rep(cache, order)
           /\ toVisit \subseteq DOMAIN cache
           /\ now \in Nat
           /\ SizeBounded
  BY DEF IInv, TypeOK, OrderMatchesCache, Rep

\* evictOne names a key of the store whenever the store is not empty.
LEMMA EvictOneInCache ==
  ASSUME IInv, NEW k, MustEvict(k)
  PROVE  evictOne \subseteq DOMAIN cache
<1>1. IsFiniteSet(DOMAIN cache) /\ Cardinality(DOMAIN cache) \in Nat
  BY IInvRep, RepFinite
<1>2. DOMAIN cache # {}
  BY <1>1, FS_EmptySet, MaxSizeAssumption DEF MustEvict
<1>3. order[1] \in DOMAIN cache
  BY <1>2, LenProperties DEF IInv, TypeOK, OrderMatchesCache, ToSet
<1> QED
  BY <1>3 DEF evictOne, ExpiredKeys, Soonest, Perishable

(***************************************************************************)
(* Set keeps the invariant: without an eviction a new key is only added    *)
(* below the capacity; with one, a key of the store goes before it is.     *)
(***************************************************************************)
LEMMA SetPreserves ==
  ASSUME IInv, NEW k \in Key, NEW v \in Value, NEW ttl \in Ttl, Set(k, v, ttl)
  PROVE  IInv'
<1> DEFINE e == [value |-> v, expiresAt |-> Deadline(ttl)]
<1>1. e \in Entry
  BY DeadlineType DEF IInv, TypeOK, Entry
<1>2. Rep(cache, order) /\ now \in Nat /\ toVisit = {} /\ SizeBounded
  BY IInvRep DEF Set, Unlocked
<1>3. IsFiniteSet(DOMAIN cache) /\ Cardinality(DOMAIN cache) \in Nat
  BY <1>2, RepFinite
<1>4. now' = now /\ toVisit' = toVisit
  BY DEF Set
<1> HIDE DEF e
<1>5. CASE ~MustEvict(k) /\ Store(cache, order, k, e)
  <2>1. Rep(cache', order') /\ DOMAIN cache' = DOMAIN cache \cup {k}
    BY <1>1, <1>2, <1>5, RepWith DEF Store
  <2>2. Cardinality(DOMAIN cache') = IF k \in DOMAIN cache
                                       THEN Cardinality(DOMAIN cache)
                                       ELSE Cardinality(DOMAIN cache) + 1
    <3>1. Cardinality(DOMAIN cache \cup {k}) = IF k \in DOMAIN cache
                                       THEN Cardinality(DOMAIN cache)
                                       ELSE Cardinality(DOMAIN cache) + 1
      BY <1>3, FS_AddElement
    <3> QED
      BY <2>1, <3>1
  <2>3. SizeBounded'
    BY <1>2, <1>3, <1>5, <2>2, MaxSizeAssumption DEF SizeBounded, MustEvict
  <2> QED
    BY <1>2, <1>4, <2>1, <2>3 DEF IInv, TypeOK, OrderMatchesCache, Rep
<1>6. CASE /\ MustEvict(k)
           /\ \E x \in evictOne :
                Store(Without(cache, x), RemoveFirst(order, x), k, e)
  <2>1. PICK x \in DOMAIN cache :
          Store(Without(cache, x), RemoveFirst(order, x), k, e)
    BY <1>6, EvictOneInCache
  <2> DEFINE c == Without(cache, x)
             o == RemoveFirst(order, x)
  <2>2. Rep(c, o) /\ DOMAIN c = DOMAIN cache \ {x}
    BY <1>2, RepWithout
  <2>3. Store(c, o, k, e)
    BY <2>1
  <2> HIDE DEF c, o
  <2>4. Rep(cache', order') /\ DOMAIN cache' = DOMAIN c \cup {k}
    BY <1>1, <2>2, <2>3, RepWith DEF Store
  <2>5. SizeBounded'
    <3>1. /\ IsFiniteSet(DOMAIN c)
          /\ Cardinality(DOMAIN c) = Cardinality(DOMAIN cache) - 1
      BY <1>3, <2>2, FS_RemoveElement
    <3>2. Cardinality(DOMAIN c \cup {k}) = IF k \in DOMAIN c
                                       THEN Cardinality(DOMAIN c)
                                       ELSE Cardinality(DOMAIN c) + 1
      BY <3>1, FS_AddElement
    <3>3. Cardinality(DOMAIN cache') = Cardinality(DOMAIN c \cup {k})
      BY <2>4
    <3>4. Cardinality(DOMAIN cache') <= Cardinality(DOMAIN cache)
      BY <1>3, <3>1, <3>2, <3>3
    <3>5. Cardinality(DOMAIN cache') \in Nat
      BY <2>4, RepFinite
    <3> QED
      BY <1>2, <1>3, <3>4, <3>5, MaxSizeAssumption DEF SizeBounded
  <2> QED
    BY <1>2, <1>4, <2>4, <2>5 DEF IInv, TypeOK, OrderMatchesCache, Rep
<1> QED
  BY <1>5, <1>6 DEF Set, e

\* Update changes the entry of a key that is there, and no set of keys.
LEMMA UpdatePreserves ==
  ASSUME IInv, NEW k \in Key, NEW v \in Value, NEW ttl \in Ttl,
         Update(k, v, ttl)
  PROVE  IInv'
<1>1. k \in DOMAIN cache
  BY DEF Update, Found
<1>2. PICK e \in Entry : cache' = With(cache, k, e)
  BY <1>1, DeadlineType DEF Update, IInv, TypeOK, Entry
<1>3. /\ DOMAIN cache' = DOMAIN cache
      /\ cache' \in [DOMAIN cache -> Entry]
  BY <1>1, <1>2 DEF With, IInv, TypeOK
<1> QED
  BY <1>3 DEF Update, IInv, TypeOK, OrderMatchesCache, SizeBounded

\* Deleting a key, in Delete or in the loop of Sweep, keeps what IInv says of
\* the map and the slice.
LEMMA deleteCallbackPreserves ==
  ASSUME IInv, NEW k, deleteCallback(k)
  PROVE  /\ Rep(cache', order')
         /\ DOMAIN cache' = DOMAIN cache \ {k}
         /\ SizeBounded'
<1>1. Rep(cache', order') /\ DOMAIN cache' = DOMAIN cache \ {k}
  BY IInvRep, RepWithout DEF deleteCallback
<1>2. IsFiniteSet(DOMAIN cache) /\ Cardinality(DOMAIN cache) \in Nat
  BY IInvRep, RepFinite
<1>3. Cardinality(DOMAIN cache') <= Cardinality(DOMAIN cache)
  BY <1>1, <1>2, FS_RemoveElement
<1>4. Cardinality(DOMAIN cache') \in Nat
  BY <1>1, <1>2, FS_RemoveElement, FS_CardinalityType
<1> QED
  BY <1>1, <1>2, <1>3, <1>4, MaxSizeAssumption DEF IInv, SizeBounded

\* The empty map and slice of NewCacheStore and Clear agree.
LEMMA EmptyRep ==
  /\ Rep(NoEntries, <<>>)
  /\ DOMAIN NoEntries = {}
  BY DEF Rep, NoEntries, ToSet, IsInjective

\* NewCacheStore establishes the invariant.
LEMMA InitIInv == Init => IInv
<1> SUFFICES ASSUME Init PROVE IInv
  OBVIOUS
<1>1. Rep(cache, order) /\ DOMAIN cache = {}
  BY EmptyRep DEF Init
<1>2. SizeBounded
  BY <1>1, FS_EmptySet, MaxSizeAssumption DEF SizeBounded
<1> QED
  BY <1>1, <1>2, IInvRep DEF Init

(***************************************************************************)
(* The invariant is inductive: one step per operation of the store.        *)
(***************************************************************************)
THEOREM NextPreservesIInv == IInv /\ [Next]_vars => IInv'
<1> SUFFICES ASSUME IInv, [Next]_vars PROVE IInv'
  OBVIOUS
<1>1. ASSUME NEW k \in Key, NEW v \in Value, NEW ttl \in Ttl, Set(k, v, ttl)
      PROVE  IInv'
  BY <1>1, SetPreserves
<1>2. ASSUME NEW k \in Key, NEW v \in Value, NEW ttl \in Ttl, Update(k, v, ttl)
      PROVE  IInv'
  BY <1>2, UpdatePreserves
<1>3. ASSUME NEW k \in Key, Delete(k)
      PROVE  IInv'
  <2>1. /\ Rep(cache', order')
        /\ SizeBounded'
    BY <1>3, deleteCallbackPreserves DEF Delete
  <2> QED
    BY <1>3, <2>1 DEF Delete, Unlocked, IInv, TypeOK, OrderMatchesCache, Rep
<1>4. CASE Clear
  <2>1. Rep(cache', order') /\ DOMAIN cache' = {}
    BY <1>4, EmptyRep DEF Clear
  <2>2. SizeBounded'
    BY <2>1, FS_EmptySet, MaxSizeAssumption DEF SizeBounded
  <2> QED
    BY <1>4, <2>1, <2>2
       DEF Clear, Unlocked, IInv, TypeOK, OrderMatchesCache, Rep
<1>5. CASE SweepLock
  BY <1>5 DEF SweepLock, IInv, TypeOK, OrderMatchesCache, SizeBounded
<1>6. ASSUME NEW k \in Key, SweepVisit(k)
      PROVE  IInv'
  <2>1. CASE Expired(k) /\ deleteCallback(k)
    <3>1. /\ Rep(cache', order')
          /\ DOMAIN cache' = DOMAIN cache \ {k}
          /\ SizeBounded'
      BY <2>1, deleteCallbackPreserves
    <3> QED
      BY <1>6, <3>1 DEF SweepVisit, IInv, TypeOK, OrderMatchesCache, Rep
  <2>2. CASE ~Expired(k) /\ UNCHANGED <<cache, order>>
    BY <1>6, <2>2
       DEF SweepVisit, IInv, TypeOK, OrderMatchesCache, SizeBounded
  <2> QED
    BY <1>6, <2>1, <2>2 DEF SweepVisit
<1>7. CASE Tick
  BY <1>7 DEF Tick, IInv, TypeOK, OrderMatchesCache, SizeBounded
<1>8. CASE UNCHANGED vars
  BY <1>8 DEF vars, IInv, TypeOK, OrderMatchesCache, SizeBounded
<1> QED
  BY <1>1, <1>2, <1>3, <1>4, <1>5, <1>6, <1>7, <1>8 DEF Next

(***************************************************************************)
(* Type correctness of the store's map, slice and sweeper state, for every *)
(* interleaving of the operations of cache_store.go.                       *)
(***************************************************************************)
THEOREM TypeCorrect == Spec => []TypeOK
<1>1. IInv => TypeOK
  BY DEF IInv
<1> QED
  BY InitIInv, NextPreservesIInv, <1>1, PTL DEF Spec

(***************************************************************************)
(* setCallback, deleteCallback, evictOne and the loop of Sweep keep the    *)
(* map and the slice of keys in agreement.                                 *)
(***************************************************************************)
THEOREM OrderAlwaysMatchesCache == Spec => []OrderMatchesCache
<1>1. IInv => OrderMatchesCache
  BY DEF IInv
<1> QED
  BY InitIInv, NextPreservesIInv, <1>1, PTL DEF Spec

(***************************************************************************)
(* The eviction in setCallback is enough: the store never outgrows the     *)
(* maxSize it was created with.                                            *)
(***************************************************************************)
THEOREM SizeAlwaysBounded == Spec => []SizeBounded
<1>1. IInv => SizeBounded
  BY DEF IInv
<1> QED
  BY InitIInv, NextPreservesIInv, <1>1, PTL DEF Spec

-----------------------------------------------------------------------------
(* What callers see: the store implements the abstract bounded map.         *)

\* getCallback reads an entry as it is stored.
LEMMA LiveIsStored ==
  /\ DOMAIN LiveEntries = Found
  /\ \A x \in Found : LiveEntries[x] = cache[x]
  BY DEF LiveEntries

\* Both levels count entries alike.
LEMMA CountsAlike == \A S : Abstract!Cardinality(S) = Cardinality(S)
  BY DEF Abstract!Cardinality, Cardinality

\* An entry that setCallback or Update has just written is found.
LEMMA DeadlineAhead ==
  ASSUME now \in Nat, NEW ttl \in Ttl
  PROVE  Deadline(ttl) = Never \/ (Deadline(ttl) \in Nat /\ ~(now > Deadline(ttl)))
  BY TtlAssumption DEF Deadline

\* An expired entry costs a live one nothing: a store in which some entry is
\* expired, or that has room, is not full for its callers.
LEMMA NotFull ==
  ASSUME IInv,
         \/ \E x \in DOMAIN cache : Expired(x)
         \/ MaxSize = 0
         \/ Cardinality(DOMAIN cache) < MaxSize
  PROVE  ~Abstract!Full
<1>1. IsFiniteSet(DOMAIN cache) /\ Cardinality(DOMAIN cache) \in Nat
  BY IInvRep, RepFinite
<1>2. IsFiniteSet(Found) /\ Cardinality(Found) <= Cardinality(DOMAIN cache)
  BY <1>1, FS_Subset DEF Found
<1>3. Cardinality(Found) \in Nat
  BY <1>2, FS_CardinalityType
<1>4. ASSUME NEW x \in DOMAIN cache, Expired(x)
      PROVE  Cardinality(Found) < Cardinality(DOMAIN cache)
  <2>1. Found \subseteq DOMAIN cache /\ Found # DOMAIN cache
    BY <1>4 DEF Found
  <2> QED
    BY <1>1, <1>2, <1>3, <2>1, FS_Subset
<1>5. MaxSize > 0 => Cardinality(Found) < MaxSize
  <2>1. CASE \E x \in DOMAIN cache : Expired(x)
    <3>1. Cardinality(Found) < Cardinality(DOMAIN cache)
      BY <2>1, <1>4
    <3> QED
      BY <3>1, <1>1, <1>3, MaxSizeAssumption DEF IInv, SizeBounded
  <2>2. CASE MaxSize = 0
    BY <2>2
  <2>3. CASE Cardinality(DOMAIN cache) < MaxSize
    BY <2>3, <1>1, <1>2, <1>3, MaxSizeAssumption
  <2> QED
    BY <2>1, <2>2, <2>3
<1>6. Cardinality(DOMAIN LiveEntries) = Cardinality(Found)
  BY LiveIsStored
<1> QED
  BY <1>3, <1>5, <1>6, CountsAlike, MaxSizeAssumption DEF Abstract!Full

\* What Get finds once setCallback has stored an entry in c, a part of the map
\* that still has every live entry but those in gone.
LEMMA StoredIsFound ==
  ASSUME IInv, NEW k \in Key, NEW ttl \in Ttl, NEW v, NEW c, NEW gone,
         DOMAIN c \subseteq DOMAIN cache,
         \A x \in DOMAIN c : c[x] = cache[x],
         Found \ gone = {x \in DOMAIN c : ~Expired(x)},
         cache' = With(c, k, [value |-> v, expiresAt |-> Deadline(ttl)]),
         now' = now
  PROVE  LiveEntries' = With([x \in Found \ gone |-> cache[x]], k,
                             [value |-> v, expiresAt |-> Deadline(ttl)])
<1> DEFINE e == [value |-> v, expiresAt |-> Deadline(ttl)]
<1>1. e.expiresAt = Never \/ ~(now > e.expiresAt)
  BY DeadlineAhead DEF IInv, TypeOK
<1>2. cache' = With(c, k, e)
  OBVIOUS
<1> HIDE DEF e
<1>3. DOMAIN cache' = DOMAIN c \cup {k} /\ cache'[k] = e
  BY <1>2 DEF With
<1>4. \A x \in DOMAIN c \ {k} : cache'[x] = cache[x]
  BY <1>2 DEF With
<1>5. Found' = (Found \ gone) \cup {k}
  <2>1. Found' = {x \in DOMAIN cache' :
                    ~(cache'[x].expiresAt # Never /\ now > cache'[x].expiresAt)}
    BY DEF Found, Expired
  <2>2. k \in Found'
    BY <1>1, <1>3, <2>1
  <2>3. \A x : x # k => (x \in Found' <=> x \in Found \ gone)
    BY <1>3, <1>4, <2>1 DEF Expired
  <2> QED
    BY <2>2, <2>3
<1>6. LiveEntries' = [x \in Found' |-> cache'[x]]
  BY DEF LiveEntries
<1>7. \A x \in Found \ gone : x # k => cache'[x] = cache[x]
  BY <1>4
<1> QED
  BY <1>3, <1>5, <1>6, <1>7 DEF With, e

\* The maps of the two levels are changed alike.
LEMMA ChangesAlike ==
  /\ \A m, k, e : Abstract!With(m, k, e) = With(m, k, e)
  /\ \A m, k : Abstract!Without(m, k) = Without(m, k)
  /\ \A ttl : Abstract!Deadline(ttl) = Deadline(ttl)
  BY DEF Abstract!With, With, Abstract!Without, Without,
         Abstract!Deadline, Deadline

\* When setCallback evicts a live entry, the store is full for its callers too,
\* and evictOne picks one of the entries the abstract map may forget.
LEMMA EvictsVictim ==
  ASSUME IInv, EmptyKey \notin Key, NEW k, MustEvict(k), ExpiredKeys = {},
         NEW x \in evictOne
  PROVE  /\ k \notin DOMAIN LiveEntries
         /\ Abstract!Full
         /\ x \in Abstract!Victims
<1>1. Found = DOMAIN cache /\ LiveEntries = cache
  BY DEF Found, ExpiredKeys, LiveEntries, IInv, TypeOK
<1>2. k \notin DOMAIN LiveEntries /\ Abstract!Full
  BY <1>1, CountsAlike DEF MustEvict, Abstract!Full
<1>3. Perishable = Abstract!Perishable
  BY <1>1 DEF Perishable, Abstract!Perishable
<1>4. x \in DOMAIN cache
  BY EvictOneInCache
<1>5. CASE Perishable = {}
  BY <1>1, <1>2, <1>3, <1>4, <1>5 DEF Abstract!Victims
<1>6. CASE Perishable # {}
  <2>1. \A y \in Soonest : y # EmptyKey
    BY DEF Soonest, Perishable, IInv, TypeOK
  <2>2. x \in Soonest
    BY <1>6, <2>1 DEF evictOne
  <2> QED
    BY <1>1, <1>2, <1>3, <1>6, <2>2 DEF Soonest, Abstract!Victims
<1> QED
  BY <1>2, <1>5, <1>6

(***************************************************************************)
(* Set is Put.  What evictOne takes is an expired entry, which no caller   *)
(* misses, or the entry the abstract map gives up.                         *)
(***************************************************************************)
LEMMA SetIsPut ==
  ASSUME IInv, EmptyKey \notin Key,
         NEW k \in Key, NEW v \in Value, NEW ttl \in Ttl, Set(k, v, ttl)
  PROVE  Abstract!Put(k, v, ttl)
<1> DEFINE e == [value |-> v, expiresAt |-> Deadline(ttl)]
<1>0. now' = now
  BY DEF Set
<1> DEFINE Goal == \E m \in Abstract!Room(k) : LiveEntries' = With(m, k, e)
<1>1. SUFFICES Goal
  BY <1>0, ChangesAlike DEF Abstract!Put
<1>2. CASE ~MustEvict(k) /\ Store(cache, order, k, e)
  <2>1. LiveEntries' = With(LiveEntries, k, e)
    <3>1. LiveEntries' = With([x \in Found \ {} |-> cache[x]], k, e)
      BY <1>0, <1>2, StoredIsFound DEF Store, Found
    <3> QED
      BY <3>1 DEF LiveEntries
  <2>2. LiveEntries \in Abstract!Room(k)
    <3>1. CASE k \in Found
      BY <3>1, LiveIsStored DEF Abstract!Room
    <3>2. CASE k \notin Found
      <4>1. k \in DOMAIN cache => Expired(k)
        BY <3>2 DEF Found
      <4>2. Cardinality(DOMAIN cache) \in Nat
        BY IInvRep, RepFinite
      <4>3. ~Abstract!Full
        BY <1>2, <4>1, <4>2, NotFull, MaxSizeAssumption DEF MustEvict
      <4> QED
        BY <4>3 DEF Abstract!Room
    <3> QED
      BY <3>1, <3>2
  <2> QED
    BY <2>1, <2>2
<1>3. ASSUME MustEvict(k), NEW x \in evictOne,
             Store(Without(cache, x), RemoveFirst(order, x), k, e)
      PROVE  Goal
  <2>1. x \in DOMAIN cache
    BY <1>3, EvictOneInCache
  <2>2. LiveEntries' = With([y \in Found \ {x} |-> cache[y]], k, e)
    <3> DEFINE c == Without(cache, x)
    <3>1. DOMAIN c = DOMAIN cache \ {x} /\ \A y \in DOMAIN c : c[y] = cache[y]
      BY DEF Without
    <3>2. cache' = With(c, k, e)
      BY <1>3 DEF Store
    <3> HIDE DEF c
    <3>3. Found \ {x} = {y \in DOMAIN c : ~Expired(y)}
      BY <3>1 DEF Found
    <3> QED
      BY <1>0, <3>1, <3>2, <3>3, StoredIsFound
  <2>3. CASE ExpiredKeys # {}
    <3>1. Expired(x) /\ Found \ {x} = Found
      BY <1>3, <2>3 DEF evictOne, ExpiredKeys, Found
    <3>2. LiveEntries' = With(LiveEntries, k, e)
      BY <2>2, <3>1 DEF LiveEntries
    <3>3. ~Abstract!Full
      BY <2>1, <3>1, NotFull
    <3> QED
      BY <3>2, <3>3 DEF Abstract!Room
  <2>4. CASE ExpiredKeys = {}
    <3>1. /\ k \notin DOMAIN LiveEntries
          /\ Abstract!Full
          /\ x \in Abstract!Victims
      BY <1>3, <2>4, EvictsVictim
    <3>2. Without(LiveEntries, x) = [y \in Found \ {x} |-> cache[y]]
      BY DEF LiveEntries, Without
    <3>3. Without(LiveEntries, x) \in Abstract!Room(k)
      BY <3>1, ChangesAlike DEF Abstract!Room
    <3> QED
      BY <2>2, <3>2, <3>3
  <2> QED
    BY <2>3, <2>4
<1> QED
  BY <1>2, <1>3 DEF Set

\* Update is Replace: it writes a key that Get finds, and an expiry it leaves
\* alone is one that has not passed.
LEMMA UpdateIsReplace ==
  ASSUME IInv, NEW k \in Key, NEW v \in Value, NEW ttl \in Ttl,
         Update(k, v, ttl)
  PROVE  Abstract!Replace(k, v, ttl)
<1> DEFINE e == [value |-> v, expiresAt |-> IF ttl > 0 THEN Deadline(ttl)
                                            ELSE cache[k].expiresAt]
<1>1. k \in Found /\ cache' = With(cache, k, e) /\ now' = now
  BY DEF Update
<1>2. e.expiresAt = Never \/ ~(now > e.expiresAt)
  BY <1>1, DeadlineAhead DEF Found, Expired, IInv, TypeOK
<1>3. k \in DOMAIN LiveEntries /\ LiveEntries[k] = cache[k]
  BY <1>1, LiveIsStored
<1>4. SUFFICES LiveEntries' = With(LiveEntries, k, e)
  BY <1>1, <1>3, ChangesAlike DEF Abstract!Replace
<1> HIDE DEF e
<1>5. /\ DOMAIN cache' = DOMAIN cache
      /\ cache'[k] = e
      /\ \A x \in DOMAIN cache \ {k} : cache'[x] = cache[x]
  BY <1>1 DEF With, Found
<1>6. Found' = Found
  BY <1>1, <1>2, <1>5 DEF Found, Expired
<1>7. LiveEntries' = [x \in Found |-> cache'[x]]
  BY <1>6 DEF LiveEntries
<1> QED
  BY <1>1, <1>5, <1>7 DEF LiveEntries, With, Found

\* deleteCallback takes one key from what Get finds, and no caller notices when
\* the key has expired.
LEMMA DeleteIsRemove ==
  ASSUME IInv, NEW k, deleteCallback(k), now' = now
  PROVE  /\ LiveEntries' = Without(LiveEntries, k)
         /\ k \notin Found => LiveEntries' = LiveEntries
<1>1. /\ DOMAIN cache' = DOMAIN cache \ {k}
      /\ \A x \in DOMAIN cache \ {k} : cache'[x] = cache[x]
  BY DEF deleteCallback, Without
<1>2. Found' = Found \ {k}
  BY <1>1 DEF Found, Expired
<1>3. LiveEntries' = [x \in Found \ {k} |-> cache[x]]
  <2>1. LiveEntries' = [x \in Found \ {k} |-> cache'[x]]
    BY <1>2 DEF LiveEntries
  <2> QED
    BY <1>1, <2>1 DEF Found
<1>4. LiveEntries' = Without(LiveEntries, k)
  BY <1>3 DEF LiveEntries, Without
<1>5. k \notin Found => LiveEntries' = LiveEntries
  <2> SUFFICES ASSUME k \notin Found PROVE LiveEntries' = LiveEntries
    OBVIOUS
  <2>1. Found \ {k} = Found
    OBVIOUS
  <2> QED
    BY <1>3, <2>1 DEF LiveEntries
<1> QED
  BY <1>4, <1>5

\* The clock hides at once, from every Get, the entries whose time is up.
LEMMA TickIsTick ==
  ASSUME IInv, Tick
  PROVE  Abstract!Tick
<1>1. now' = now + 1 /\ now < MaxTime /\ cache' = cache /\ now \in Nat
  BY DEF Tick, IInv, TypeOK
<1>2. \A x \in DOMAIN cache : cache[x].expiresAt \in Nat \cup {Never}
  BY DEF IInv, TypeOK, Entry
<1> DEFINE kept == {x \in Found : \/ cache[x].expiresAt = Never
                                  \/ now' <= cache[x].expiresAt}
<1>3. Found' = kept
  BY <1>1, <1>2, NeverAssumption DEF Found, Expired
<1>4. kept = {x \in DOMAIN LiveEntries : \/ LiveEntries[x].expiresAt = Never
                                         \/ now' <= LiveEntries[x].expiresAt}
  BY LiveIsStored
<1>5. LiveEntries' = [x \in kept |-> cache[x]]
  BY <1>1, <1>3 DEF LiveEntries
<1>6. LiveEntries' = [x \in kept |-> LiveEntries[x]]
  BY <1>5, LiveIsStored
<1> HIDE DEF kept
<1> QED
  BY <1>1, <1>4, <1>6 DEF Abstract!Tick

(***************************************************************************)
(* A step of the store is a step of the abstract map, or one no caller     *)
(* sees: taking the mutex to sweep, and sweeping an entry.                 *)
(***************************************************************************)
LEMMA StepIsAbstractStep ==
  ASSUME IInv, EmptyKey \notin Key, [Next]_vars
  PROVE  [Abstract!Next]_(Abstract!vars)
<1>1. ASSUME NEW k \in Key, NEW v \in Value, NEW ttl \in Ttl, Set(k, v, ttl)
      PROVE  Abstract!Next
  BY <1>1, SetIsPut DEF Abstract!Next
<1>2. ASSUME NEW k \in Key, NEW v \in Value, NEW ttl \in Ttl, Update(k, v, ttl)
      PROVE  Abstract!Next
  BY <1>2, UpdateIsReplace DEF Abstract!Next
<1>3. ASSUME NEW k \in Key, Delete(k)
      PROVE  Abstract!Next
  <2>1. deleteCallback(k) /\ now' = now
    BY <1>3 DEF Delete
  <2>2. LiveEntries' = Without(LiveEntries, k)
    BY <2>1, DeleteIsRemove
  <2>3. Abstract!Remove(k)
    BY <2>1, <2>2, ChangesAlike DEF Abstract!Remove
  <2> QED
    BY <2>3 DEF Abstract!Next
<1>4. CASE Clear
  <2>1. cache' = NoEntries /\ now' = now
    BY <1>4 DEF Clear
  <2>2. Found' = {}
    BY <2>1 DEF Found, NoEntries
  <2>3. LiveEntries' = [x \in {} |-> Never]
    BY <2>2 DEF LiveEntries
  <2> QED
    BY <2>1, <2>3 DEF Abstract!RemoveAll, Abstract!Next
<1> DEFINE Unseen == UNCHANGED <<LiveEntries, now>>
<1>5. ASSUME UNCHANGED <<cache, now>>
      PROVE  Unseen
  <2>1. Found' = Found
    BY <1>5 DEF Found, Expired
  <2> QED
    BY <1>5, <2>1 DEF LiveEntries
<1>6. CASE SweepLock \/ UNCHANGED vars
  BY <1>5, <1>6 DEF SweepLock, vars, Abstract!vars
<1>7. ASSUME NEW k \in Key, SweepVisit(k)
      PROVE  Unseen
  <2>1. CASE Expired(k) /\ deleteCallback(k)
    <3>1. k \notin Found /\ now' = now
      BY <1>7, <2>1 DEF Found, SweepVisit
    <3> QED
      BY <2>1, <3>1, DeleteIsRemove
  <2>2. CASE ~Expired(k) /\ UNCHANGED <<cache, order>>
    BY <1>5, <1>7, <2>2 DEF SweepVisit
  <2> QED
    BY <1>7, <2>1, <2>2 DEF SweepVisit
<1>8. CASE Tick
  BY <1>8, TickIsTick DEF Abstract!Next
<1> QED
  BY <1>1, <1>2, <1>3, <1>4, <1>6, <1>7, <1>8 DEF Next, Abstract!vars

(***************************************************************************)
(* Callers of CacheStore may think of it as the bounded map, when no key   *)
(* is the empty string that evictOne takes for "nothing found".            *)
(***************************************************************************)
THEOREM StoreIsBoundedMap ==
  ASSUME EmptyKey \notin Key
  PROVE  Spec => ImplementsBoundedMap
<1>1. Init => Abstract!Init
  <2> SUFFICES ASSUME Init PROVE Abstract!Init
    OBVIOUS
  <2>1. Found = {}
    BY DEF Init, NoEntries, Found
  <2>2. LiveEntries = [x \in {} |-> Never]
    BY <2>1 DEF LiveEntries
  <2> QED
    BY <2>2 DEF Init, Abstract!Init
<1>2. IInv /\ [Next]_vars => [Abstract!Next]_(Abstract!vars)
  BY StepIsAbstractStep
<1> QED
  BY InitIInv, NextPreservesIInv, <1>1, <1>2, PTL
     DEF Spec, ImplementsBoundedMap, Abstract!Spec
=============================================================================
