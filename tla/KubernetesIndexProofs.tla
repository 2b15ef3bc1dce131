------------------------ MODULE KubernetesIndexProofs ------------------------
(***************************************************************************)
(* Proofs about KubernetesIndex, for every set of ingresses, names, domains *)
(* and manifests and any number of changes: the indexes never dangle, and   *)
(* what was never contested is always found.  Only addIngressApps and       *)
(* removeIngress touch the maps, so each invariant is proved for these two  *)
(* and carried over to the steps of the goroutine that make them.           *)
(***************************************************************************)
EXTENDS KubernetesIndex, FiniteSetTheorems, TLAPS

\* The collisions that addIngressApps records are all there are.
CollisionsKnown ==
    \A i, j \in DOMAIN ingressApps : i # j =>
      /\ Domains(ingressApps[i]) \cap Domains(ingressApps[j]) \subseteq contested
      /\ DOMAIN ingressApps[i] \cap DOMAIN ingressApps[j] \subseteq contested

\* ClaimsIndexed in terms of the indexes alone.
ClaimsOwned ==
    \A i \in DOMAIN ingressApps :
      /\ \A d \in Domains(ingressApps[i]) \ contested :
           d \in DOMAIN domainIndex /\ domainIndex[d][1] = i
      /\ \A a \in DOMAIN ingressApps[i] \ contested :
           a \in DOMAIN appNameIndex /\ appNameIndex[a] = i

IInv == IndexSound /\ CollisionsKnown /\ ClaimsOwned

indexVars == <<ingressApps, domainIndex, appNameIndex, contested>>

\* What is stored for an ingress is empty or what the map has.
LEMMA StoredCases ==
    ASSUME NEW i
    PROVE  /\ i \in DOMAIN ingressApps => Stored(i) = ingressApps[i]
           /\ i \notin DOMAIN ingressApps => DOMAIN Stored(i) = {} /\ Domains(Stored(i)) = {}
BY DEF Stored, Empty, Domains

\* No kept entry leads to the ingress whose entries are taken out.
LEMMA KeptElsewhere ==
    ASSUME IndexSound, NEW i
    PROVE  /\ \A d \in DOMAIN domainIndex \ Domains(Stored(i)) : domainIndex[d][1] # i
           /\ \A a \in DOMAIN appNameIndex \ DOMAIN Stored(i) : appNameIndex[a] # i
BY StoredCases DEF IndexSound, Domains

\* addIngressApps of a function keeps the indexes sound.
LEMMA AddKeepsIndexSound ==
    ASSUME IndexSound, NEW i, NEW apps, apps = [a \in DOMAIN apps |-> apps[a]],
           addIngressApps(i, apps)
    PROVE  IndexSound'
<1> DEFINE kept == Without(domainIndex, Domains(Stored(i)))
           keptNames == Without(appNameIndex, DOMAIN Stored(i))
<1>1. PICK last \in [Domains(apps) -> DOMAIN apps] :
         /\ \A d \in Domains(apps) : apps[last[d]] = d
         /\ ingressApps' = With(ingressApps, i, apps)
         /\ domainIndex' = [d \in DOMAIN kept \cup Domains(apps) |->
                              IF d \in Domains(apps) THEN <<i, last[d]>> ELSE kept[d]]
         /\ appNameIndex' = [a \in DOMAIN keptNames \cup DOMAIN apps |->
                               IF a \in DOMAIN apps THEN i ELSE keptNames[a]]
  BY DEF addIngressApps
<1>2. /\ DOMAIN ingressApps' = DOMAIN ingressApps \cup {i}
      /\ ingressApps'[i] = apps
      /\ \A j \in DOMAIN ingressApps \ {i} : ingressApps'[j] = ingressApps[j]
  BY <1>1 DEF With
<1>3. ASSUME NEW d \in DOMAIN domainIndex'
      PROVE  /\ domainIndex'[d][1] \in DOMAIN ingressApps'
             /\ domainIndex'[d][2] \in DOMAIN ingressApps'[domainIndex'[d][1]]
             /\ ingressApps'[domainIndex'[d][1]][domainIndex'[d][2]] = d
  <2>1. CASE d \in Domains(apps)
    <3>1. domainIndex'[d] = <<i, last[d]>> /\ last[d] \in DOMAIN apps
      BY <1>1, <2>1
    <3> QED BY <3>1, <2>1, <1>1, <1>2
  <2>2. CASE d \notin Domains(apps)
    <3>1. d \in DOMAIN domainIndex \ Domains(Stored(i)) /\ domainIndex'[d] = domainIndex[d]
      BY <1>1, <2>2 DEF Without
    <3>2. domainIndex[d][1] # i
      BY <3>1, KeptElsewhere
    <3> QED BY <3>1, <3>2, <1>2 DEF IndexSound
  <2> QED BY <2>1, <2>2
<1>4. ASSUME NEW a \in DOMAIN appNameIndex'
      PROVE  /\ appNameIndex'[a] \in DOMAIN ingressApps'
             /\ a \in DOMAIN ingressApps'[appNameIndex'[a]]
  <2>1. CASE a \in DOMAIN apps
    BY <2>1, <1>1, <1>2
  <2>2. CASE a \notin DOMAIN apps
    <3>1. a \in DOMAIN appNameIndex \ DOMAIN Stored(i) /\ appNameIndex'[a] = appNameIndex[a]
      BY <1>1, <2>2 DEF Without
    <3>2. appNameIndex[a] # i
      BY <3>1, KeptElsewhere
    <3> QED BY <3>1, <3>2, <1>2 DEF IndexSound
  <2> QED BY <2>1, <2>2
<1> QED BY <1>3, <1>4 DEF IndexSound

\* removeIngress keeps the indexes sound.
LEMMA RemoveKeepsIndexSound ==
    ASSUME IndexSound, NEW i, removeIngress(i)
    PROVE  IndexSound'
<1>1. /\ DOMAIN ingressApps' = DOMAIN ingressApps \ {i}
      /\ \A j \in DOMAIN ingressApps \ {i} : ingressApps'[j] = ingressApps[j]
  BY DEF removeIngress, Without
<1>2. /\ DOMAIN domainIndex' = DOMAIN domainIndex \ Domains(Stored(i))
      /\ \A d \in DOMAIN domainIndex' : domainIndex'[d] = domainIndex[d] /\ domainIndex[d][1] # i
  BY KeptElsewhere DEF removeIngress, Without
<1>3. /\ DOMAIN appNameIndex' = DOMAIN appNameIndex \ DOMAIN Stored(i)
      /\ \A a \in DOMAIN appNameIndex' : appNameIndex'[a] = appNameIndex[a] /\ appNameIndex[a] # i
  BY KeptElsewhere DEF removeIngress, Without
<1> QED BY <1>1, <1>2, <1>3 DEF IndexSound

\* addIngressApps records every collision it makes.
LEMMA AddKeepsCollisions ==
    ASSUME CollisionsKnown, NEW i, NEW apps, addIngressApps(i, apps)
    PROVE  CollisionsKnown'
<1>1. /\ DOMAIN ingressApps' = DOMAIN ingressApps \cup {i}
      /\ ingressApps'[i] = apps
      /\ \A j \in DOMAIN ingressApps \ {i} : ingressApps'[j] = ingressApps[j]
  BY DEF addIngressApps, With
<1>2. /\ contested \subseteq contested'
      /\ \A j \in DOMAIN ingressApps \ {i} :
           /\ Domains(apps) \cap Domains(ingressApps[j]) \subseteq contested'
           /\ DOMAIN apps \cap DOMAIN ingressApps[j] \subseteq contested'
  BY DEF addIngressApps
<1>3. ASSUME NEW j \in DOMAIN ingressApps', NEW k \in DOMAIN ingressApps', j # k
      PROVE  /\ Domains(ingressApps'[j]) \cap Domains(ingressApps'[k]) \subseteq contested'
             /\ DOMAIN ingressApps'[j] \cap DOMAIN ingressApps'[k] \subseteq contested'
  <2>1. CASE j = i
    BY <2>1, <1>1, <1>2, <1>3
  <2>2. CASE k = i
    BY <2>2, <1>1, <1>2, <1>3
  <2>3. CASE j # i /\ k # i
    BY <2>3, <1>1, <1>2, <1>3 DEF CollisionsKnown
  <2> QED BY <2>1, <2>2, <2>3
<1> QED BY <1>3 DEF CollisionsKnown, Domains

\* removeIngress makes none.
LEMMA RemoveKeepsCollisions ==
    ASSUME CollisionsKnown, NEW i, removeIngress(i)
    PROVE  CollisionsKnown'
<1>1. /\ DOMAIN ingressApps' = DOMAIN ingressApps \ {i} /\ contested' = contested
      /\ \A j \in DOMAIN ingressApps \ {i} : ingressApps'[j] = ingressApps[j]
  BY DEF removeIngress, Without
<1> QED BY <1>1 DEF CollisionsKnown, Domains

\* addIngressApps takes an uncontested entry from nobody else.
LEMMA AddKeepsClaims ==
    ASSUME CollisionsKnown, ClaimsOwned, NEW i, NEW apps, addIngressApps(i, apps)
    PROVE  ClaimsOwned'
<1>1. /\ DOMAIN ingressApps' = DOMAIN ingressApps \cup {i}
      /\ ingressApps'[i] = apps
      /\ \A j \in DOMAIN ingressApps \ {i} : ingressApps'[j] = ingressApps[j]
  BY DEF addIngressApps, With
<1>2. /\ contested \subseteq contested'
      /\ \A j \in DOMAIN ingressApps \ {i} :
           /\ Domains(apps) \cap Domains(ingressApps[j]) \subseteq contested'
           /\ DOMAIN apps \cap DOMAIN ingressApps[j] \subseteq contested'
  BY DEF addIngressApps
<1>3. \A d \in Domains(apps) : d \in DOMAIN domainIndex' /\ domainIndex'[d][1] = i
  BY DEF addIngressApps
<1>4. \A a \in DOMAIN apps : a \in DOMAIN appNameIndex' /\ appNameIndex'[a] = i
  BY DEF addIngressApps
<1>5. \A d \in DOMAIN domainIndex \ (Domains(apps) \cup Domains(Stored(i))) :
        d \in DOMAIN domainIndex' /\ domainIndex'[d] = domainIndex[d]
  BY DEF addIngressApps, Without
<1>6. \A a \in DOMAIN appNameIndex \ (DOMAIN apps \cup DOMAIN Stored(i)) :
        a \in DOMAIN appNameIndex' /\ appNameIndex'[a] = appNameIndex[a]
  BY DEF addIngressApps, Without
<1>7. ASSUME NEW j \in DOMAIN ingressApps'
      PROVE  /\ \A d \in Domains(ingressApps'[j]) \ contested' :
                  d \in DOMAIN domainIndex' /\ domainIndex'[d][1] = j
             /\ \A a \in DOMAIN ingressApps'[j] \ contested' :
                  a \in DOMAIN appNameIndex' /\ appNameIndex'[a] = j
  <2>1. CASE j = i
    BY <2>1, <1>1, <1>3, <1>4
  <2>2. CASE j # i
    <3>1. j \in DOMAIN ingressApps /\ ingressApps'[j] = ingressApps[j]
      BY <2>2, <1>1
    <3>2. /\ Domains(Stored(i)) \cap Domains(ingressApps[j]) \subseteq contested
          /\ DOMAIN Stored(i) \cap DOMAIN ingressApps[j] \subseteq contested
      BY <3>1, <2>2, StoredCases DEF CollisionsKnown
    <3>3. ASSUME NEW d \in Domains(ingressApps[j]) \ contested'
          PROVE  d \in DOMAIN domainIndex' /\ domainIndex'[d][1] = j
      <4>1. d \in DOMAIN domainIndex /\ domainIndex[d][1] = j
        BY <3>1, <1>2 DEF ClaimsOwned
      <4>2. d \notin Domains(apps) /\ d \notin Domains(Stored(i))
        BY <3>1, <3>2, <1>2, <2>2
      <4> QED BY <4>1, <4>2, <1>5
    <3>4. ASSUME NEW a \in DOMAIN ingressApps[j] \ contested'
          PROVE  a \in DOMAIN appNameIndex' /\ appNameIndex'[a] = j
      <4>1. a \in DOMAIN appNameIndex /\ appNameIndex[a] = j
        BY <3>1, <1>2 DEF ClaimsOwned
      <4>2. a \notin DOMAIN apps /\ a \notin DOMAIN Stored(i)
        BY <3>1, <3>2, <1>2, <2>2
      <4> QED BY <4>1, <4>2, <1>6
    <3> QED BY <3>1, <3>3, <3>4
  <2> QED BY <2>1, <2>2
<1> QED BY <1>7 DEF ClaimsOwned, Domains

\* Neither does removeIngress.
LEMMA RemoveKeepsClaims ==
    ASSUME CollisionsKnown, ClaimsOwned, NEW i, removeIngress(i)
    PROVE  ClaimsOwned'
<1>1. /\ DOMAIN ingressApps' = DOMAIN ingressApps \ {i} /\ contested' = contested
      /\ \A j \in DOMAIN ingressApps \ {i} : ingressApps'[j] = ingressApps[j]
  BY DEF removeIngress, Without
<1>2. /\ \A d \in DOMAIN domainIndex \ Domains(Stored(i)) :
           d \in DOMAIN domainIndex' /\ domainIndex'[d] = domainIndex[d]
      /\ \A a \in DOMAIN appNameIndex \ DOMAIN Stored(i) :
           a \in DOMAIN appNameIndex' /\ appNameIndex'[a] = appNameIndex[a]
  BY DEF removeIngress, Without
<1>3. ASSUME NEW j \in DOMAIN ingressApps'
      PROVE  /\ \A d \in Domains(ingressApps'[j]) \ contested' :
                  d \in DOMAIN domainIndex' /\ domainIndex'[d][1] = j
             /\ \A a \in DOMAIN ingressApps'[j] \ contested' :
                  a \in DOMAIN appNameIndex' /\ appNameIndex'[a] = j
  <2>1. /\ Domains(Stored(i)) \cap Domains(ingressApps[j]) \subseteq contested
        /\ DOMAIN Stored(i) \cap DOMAIN ingressApps[j] \subseteq contested
    BY <1>1, StoredCases DEF CollisionsKnown
  <2> QED BY <2>1, <1>1, <1>2 DEF ClaimsOwned
<1> QED BY <1>3 DEF ClaimsOwned, Domains

\* One call of updateFromItem keeps the invariant.
LEMMA UpdateKeepsIInv ==
    ASSUME IInv, NEW i, NEW m, updateFromItem(i, m)
    PROVE  IInv'
<1>1. Valid(m) = [a \in DOMAIN Valid(m) |-> Valid(m)[a]]
  BY DEF Valid
<1>2. CASE removeIngress(i)
  BY <1>2, RemoveKeepsIndexSound, RemoveKeepsCollisions, RemoveKeepsClaims DEF IInv
<1>3. CASE addIngressApps(i, Valid(m))
  BY <1>1, <1>3, AddKeepsIndexSound, AddKeepsCollisions, AddKeepsClaims DEF IInv
<1> QED BY <1>2, <1>3 DEF updateFromItem

\* A step that leaves the maps alone keeps the invariant.
LEMMA StutterKeepsIInv ==
    ASSUME IInv, UNCHANGED indexVars
    PROVE  IInv'
BY DEF IInv, IndexSound, CollisionsKnown, ClaimsOwned, indexVars, Domains

\* The invariant holds at the start, where all maps are empty, and is kept by
\* every step of the goroutine and of the cluster.
LEMMA InvariantHolds == Spec => []IInv
<1>1. Init => IInv
  BY DEF Init, IInv, IndexSound, CollisionsKnown, ClaimsOwned, Empty
<1>2. IInv /\ [Next]_vars => IInv'
  <2> SUFFICES ASSUME IInv, [Next]_vars PROVE IInv'
    OBVIOUS
  <2>1. CASE resyncList
    BY <2>1, StutterKeepsIInv DEF resyncList, index, indexVars
  <2>2. CASE resyncFails
    BY <2>2, StutterKeepsIInv DEF resyncFails, index, indexVars
  <2>3. CASE watchStart
    BY <2>3, StutterKeepsIInv DEF watchStart, index, indexVars
  <2>4. CASE event
    <3>1. CASE updateFromItem(Head(events).ingress, Head(events).item)
      BY <3>1, UpdateKeepsIInv
    <3>2. CASE removeIngress(Head(events).ingress)
      BY <3>2, RemoveKeepsIndexSound, RemoveKeepsCollisions, RemoveKeepsClaims DEF IInv
    <3> QED BY <2>4, <3>1, <3>2 DEF event
  <2>5. CASE watchClosed
    BY <2>5, StutterKeepsIInv DEF watchClosed, index, indexVars
  <2>6. CASE stop
    BY <2>6, StutterKeepsIInv DEF stop, index, indexVars
  <2>7. ASSUME NEW i \in Ingress, resyncItem(i) PROVE IInv'
    BY <2>7, UpdateKeepsIInv DEF resyncItem
  <2>8. ASSUME NEW i \in Ingress, delete(i) PROVE IInv'
    BY <2>8, StutterKeepsIInv DEF delete, change, index, indexVars
  <2>9. ASSUME NEW i \in Ingress, NEW m \in Manifest, apply(i, m) PROVE IInv'
    BY <2>9, StutterKeepsIInv DEF apply, change, index, indexVars
  <2>10. CASE UNCHANGED vars
    BY <2>10, StutterKeepsIInv DEF vars, indexVars
  <2> QED
    BY <2>1, <2>2, <2>3, <2>4, <2>5, <2>6, <2>7, <2>8, <2>9, <2>10 DEF Next
<1> QED BY <1>1, <1>2, PTL DEF Spec

\* The indexes of the Kubernetes provider never dangle.
THEOREM IndexAlwaysSound == Spec => []IndexSound
<1>1. IInv => IndexSound
  BY DEF IInv
<1> QED BY <1>1, InvariantHolds, PTL

\* A domain or name that no two ingresses ever shared is found for as long as
\* its ingress is stored.
THEOREM ClaimsAlwaysIndexed == Spec => []ClaimsIndexed
<1>1. IInv => ClaimsIndexed
  <2> SUFFICES ASSUME IInv, NEW i \in DOMAIN ingressApps
               PROVE  /\ \A d \in Domains(ingressApps[i]) \ contested : getByDomain(d) = {i}
                      /\ \A a \in DOMAIN ingressApps[i] \ contested : getByAppName(a) = {i}
    BY DEF ClaimsIndexed
  <2>1. ASSUME NEW d \in Domains(ingressApps[i]) \ contested
        PROVE  getByDomain(d) = {i}
    <3>1. d \in DOMAIN domainIndex /\ domainIndex[d][1] = i
      BY DEF IInv, ClaimsOwned
    <3>2. domainIndex[d][2] \in DOMAIN ingressApps[i]
          /\ ingressApps[i][domainIndex[d][2]] = d
      BY <3>1 DEF IInv, IndexSound
    <3> QED BY <3>1, <3>2 DEF getByDomain
  <2>2. ASSUME NEW a \in DOMAIN ingressApps[i] \ contested
        PROVE  getByAppName(a) = {i}
    BY DEF IInv, ClaimsOwned, getByAppName
  <2> QED BY <2>1, <2>2
<1> QED BY <1>1, InvariantHolds, PTL

-----------------------------------------------------------------------------
(* Types.                                                                  *)

IndexTypes ==
    /\ DOMAIN ingressApps \subseteq Ingress
    /\ \A i \in DOMAIN ingressApps :
         ingressApps[i] \in Apps /\ DOMAIN ingressApps[i] # {}
    /\ DOMAIN domainIndex \subseteq Domain
    /\ DOMAIN appNameIndex \subseteq AppName
    /\ contested \subseteq Domain \cup AppName

\* What counts of a manifest maps app names to domains.
LEMMA ValidIsApps ==
    ASSUME NEW m \in Manifest
    PROVE  Valid(m) \in Apps
<1>1. DOMAIN Valid(m) \subseteq AppName
  BY ManifestAssumption DEF Valid
<1>2. \A a \in DOMAIN Valid(m) : Valid(m)[a] \in Domain
  BY ManifestAssumption DEF Valid
<1>3. Valid(m) \in [DOMAIN Valid(m) -> Domain]
  BY <1>2 DEF Valid
<1> QED BY <1>1, <1>3 DEF Apps

\* One call of updateFromItem keeps the types of the maps.
LEMMA UpdateKeepsIndexTypes ==
    ASSUME IndexTypes, NEW i \in Ingress,
           \/ removeIngress(i)
           \/ \E m \in Manifest : updateFromItem(i, m)
    PROVE  IndexTypes'
<1>1. CASE removeIngress(i)
  BY <1>1 DEF IndexTypes, removeIngress, Without
<1>2. ASSUME NEW m \in Manifest, DOMAIN Valid(m) # {}, addIngressApps(i, Valid(m))
      PROVE  IndexTypes'
  <2> DEFINE apps == Valid(m)
  <2>1. apps \in Apps /\ DOMAIN apps \subseteq AppName /\ Domains(apps) \subseteq Domain
    BY ValidIsApps DEF Apps, Domains
  <2>2. /\ DOMAIN ingressApps' = DOMAIN ingressApps \cup {i}
        /\ ingressApps'[i] = apps
        /\ \A j \in DOMAIN ingressApps \ {i} : ingressApps'[j] = ingressApps[j]
    BY <1>2 DEF addIngressApps, With
  <2>3. /\ DOMAIN domainIndex' \subseteq DOMAIN domainIndex \cup Domains(apps)
        /\ DOMAIN appNameIndex' \subseteq DOMAIN appNameIndex \cup DOMAIN apps
        /\ contested' \subseteq contested \cup Domains(apps) \cup DOMAIN apps
    BY <1>2 DEF addIngressApps, Without
  <2> QED BY <1>2, <2>1, <2>2, <2>3 DEF IndexTypes
<1> QED BY <1>1, <1>2 DEF updateFromItem

\* The events and counters of the cluster, and the state of the goroutine.
RestTypes ==
    /\ phase \in {"start", "closed", "open", "done"}
    /\ DOMAIN todo \subseteq Ingress
    /\ \A i \in DOMAIN todo : todo[i] \in Manifest
    /\ DOMAIN cluster \subseteq Ingress
    /\ \A i \in DOMAIN cluster : cluster[i] \in Manifest
    /\ events \in Seq(Event)
    /\ changes \in 0 .. MaxChanges
    /\ unseen \subseteq Ingress

\* A change of the cluster keeps the types.
LEMMA ChangeKeepsRestTypes ==
    ASSUME RestTypes, NEW i \in Ingress, NEW e \in Event, change(i, e),
           DOMAIN cluster' \subseteq Ingress,
           \A j \in DOMAIN cluster' : cluster'[j] \in Manifest
    PROVE  RestTypes'
<1>1. events' \in Seq(Event)
  BY DEF RestTypes, change
<1>2. changes' \in 0 .. MaxChanges
  BY BoundAssumption DEF RestTypes, change
<1>3. unseen' \subseteq Ingress
  BY DEF RestTypes, change
<1> QED BY <1>1, <1>2, <1>3 DEF RestTypes, change

\* The events of a new watch are well typed.
LEMMA WatchKeepsRestTypes ==
    ASSUME RestTypes, watchStart
    PROVE  RestTypes'
<1>1. PICK order \in [1 .. Cardinality(DOMAIN cluster) -> DOMAIN cluster] :
        events' = [n \in DOMAIN order |->
                     [type |-> "put", ingress |-> order[n], item |-> cluster[order[n]]]]
  BY DEF watchStart
<1>2. CASE Cardinality(DOMAIN cluster) \in Nat
  <2>1. \A n \in DOMAIN order : order[n] \in DOMAIN cluster
    BY <1>1
  <2>2. \A n \in 1 .. Cardinality(DOMAIN cluster) :
          [type |-> "put", ingress |-> order[n], item |-> cluster[order[n]]] \in Event
    BY <1>1, <2>1 DEF RestTypes, Event
  <2>3. events' \in [1 .. Cardinality(DOMAIN cluster) -> Event]
    BY <1>1, <2>2
  <2>4. events' \in Seq(Event)
    BY <1>2, <2>3
  <2> QED BY <2>4 DEF RestTypes, watchStart
<1>3. Cardinality(DOMAIN cluster) \in Nat
  <2>1. IsFiniteSet(Ingress)
    BY IngressAssumption
  <2>2. IsFiniteSet(DOMAIN cluster)
    BY <2>1, FS_Subset DEF RestTypes
  <2> QED BY <2>2, FS_CardinalityType
<1> QED BY <1>2, <1>3

\* All variables keep their types.
THEOREM TypeCorrect == Spec => []TypeOK
<1>1. TypeOK <=> IndexTypes /\ RestTypes
  BY DEF TypeOK, IndexTypes, RestTypes
<1>2. Init => IndexTypes /\ RestTypes
  <2> SUFFICES ASSUME Init PROVE IndexTypes /\ RestTypes
    OBVIOUS
  <2>1. IndexTypes
    BY DEF Init, IndexTypes, Empty
  <2>2. DOMAIN cluster \subseteq Ingress /\ \A i \in DOMAIN cluster : cluster[i] \in Manifest
    BY DEF Init
  <2>3. events \in Seq(Event) /\ changes \in 0 .. MaxChanges
    BY BoundAssumption DEF Init
  <2> QED BY <2>1, <2>2, <2>3 DEF Init, RestTypes, Empty
<1>3. IndexTypes /\ RestTypes /\ [Next]_vars => IndexTypes' /\ RestTypes'
  <2> SUFFICES ASSUME IndexTypes, RestTypes, [Next]_vars PROVE IndexTypes' /\ RestTypes'
    OBVIOUS
  <2>0. ASSUME UNCHANGED indexVars PROVE IndexTypes'
    BY <2>0 DEF IndexTypes, indexVars
  <2>1. CASE resyncList
    BY <2>1, <2>0 DEF resyncList, index, indexVars, RestTypes
  <2>2. CASE resyncFails
    BY <2>2, <2>0 DEF resyncFails, index, indexVars, RestTypes
  <2>3. CASE watchStart
    BY <2>3, <2>0, WatchKeepsRestTypes DEF watchStart, index, indexVars
  <2>4. CASE event
    <3>1. Head(events) \in Event /\ Tail(events) \in Seq(Event)
      BY <2>4 DEF event, RestTypes
    <3>2. RestTypes'
      BY <2>4, <3>1 DEF event, RestTypes
    <3>3. Head(events).ingress \in Ingress
      BY <3>1 DEF Event
    <3>4. CASE Head(events).type = "put"
      <4>1. Head(events).item \in Manifest
        BY <3>1, <3>4 DEF Event
      <4>2. updateFromItem(Head(events).ingress, Head(events).item)
        BY <2>4, <3>4 DEF event
      <4> QED BY <3>2, <3>3, <4>1, <4>2, UpdateKeepsIndexTypes
    <3>5. CASE Head(events).type # "put"
      <4>1. removeIngress(Head(events).ingress)
        BY <2>4, <3>5 DEF event
      <4> QED BY <3>2, <3>3, <4>1, UpdateKeepsIndexTypes
    <3> QED BY <3>4, <3>5
  <2>5. CASE watchClosed
    <3>1. \A n \in DOMAIN events : events[n].ingress \in Ingress
      BY DEF RestTypes, Event
    <3>2. unseen' \subseteq Ingress /\ events' \in Seq(Event)
      BY <2>5, <3>1 DEF watchClosed, RestTypes
    <3> QED BY <2>5, <2>0, <3>2 DEF watchClosed, index, indexVars, RestTypes
  <2>6. CASE stop
    <3>1. \A n \in DOMAIN events : events[n].ingress \in Ingress
      BY DEF RestTypes, Event
    <3>2. unseen' \subseteq Ingress /\ events' \in Seq(Event)
      BY <2>6, <3>1 DEF stop, RestTypes
    <3> QED BY <2>6, <2>0, <3>2 DEF stop, index, indexVars, RestTypes
  <2>7. ASSUME NEW i \in Ingress, resyncItem(i) PROVE IndexTypes' /\ RestTypes'
    <3>1. todo[i] \in Manifest /\ updateFromItem(i, todo[i])
      BY <2>7 DEF resyncItem, RestTypes
    <3>2. IndexTypes'
      BY <3>1, UpdateKeepsIndexTypes
    <3>3. RestTypes'
      BY <2>7 DEF resyncItem, RestTypes, Without
    <3> QED BY <3>2, <3>3
  <2>8. ASSUME NEW i \in Ingress, delete(i) PROVE IndexTypes' /\ RestTypes'
    <3>1. [type |-> "delete", ingress |-> i] \in Event
      BY DEF Event
    <3>2. DOMAIN cluster' \subseteq Ingress /\ \A j \in DOMAIN cluster' : cluster'[j] \in Manifest
      BY <2>8 DEF delete, Without, RestTypes
    <3>3. change(i, [type |-> "delete", ingress |-> i])
      BY <2>8 DEF delete
    <3>4. RestTypes'
      BY <3>1, <3>2, <3>3, ChangeKeepsRestTypes
    <3> QED BY <3>3, <3>4, <2>0 DEF change, index, indexVars
  <2>9. ASSUME NEW i \in Ingress, NEW m \in Manifest, apply(i, m)
        PROVE  IndexTypes' /\ RestTypes'
    <3>1. [type |-> "put", ingress |-> i, item |-> m] \in Event
      BY DEF Event
    <3>2. DOMAIN cluster' \subseteq Ingress /\ \A j \in DOMAIN cluster' : cluster'[j] \in Manifest
      BY <2>9 DEF apply, With, RestTypes
    <3>3. change(i, [type |-> "put", ingress |-> i, item |-> m])
      BY <2>9 DEF apply
    <3>4. RestTypes'
      BY <3>1, <3>2, <3>3, ChangeKeepsRestTypes
    <3> QED BY <3>3, <3>4, <2>0 DEF change, index, indexVars
  <2>10. CASE UNCHANGED vars
    BY <2>10, <2>0 DEF vars, indexVars, RestTypes
  <2> QED
    BY <2>1, <2>2, <2>3, <2>4, <2>5, <2>6, <2>7, <2>8, <2>9, <2>10 DEF Next
<1> QED BY <1>1, <1>2, <1>3, PTL DEF Spec

-----------------------------------------------------------------------------
(***************************************************************************)
(* Nothing is overlooked.  Of an ingress with events under way the last    *)
(* one says what the cluster has, whether the ingress is unseen or not; of *)
(* the others, the list or what is stored does unless they are unseen.     *)
(***************************************************************************)
Mine(i) == {n \in DOMAIN events : events[n].ingress = i}
Says(e) == IF e.type = "put" THEN Valid(e.item) ELSE Empty
InCluster(i) == IF i \in DOMAIN cluster THEN Valid(cluster[i]) ELSE Empty
Known(i) == IF i \in DOMAIN todo THEN Valid(todo[i]) ELSE Stored(i)

Quiet == phase # "open" => events = <<>>
LastSays ==
    \A i \in Ingress : Mine(i) # {} =>
      \E n \in Mine(i) : /\ \A k \in Mine(i) : k <= n
                         /\ Says(events[n]) = InCluster(i)
Settled == \A i \in Ingress \ unseen : Mine(i) = {} => Known(i) = InCluster(i)

SeenInv == Quiet /\ LastSays /\ Settled

\* What is stored after updateFromItem and removeIngress.
LEMMA UpdateStores ==
    ASSUME NEW i, NEW m, updateFromItem(i, m)
    PROVE  Stored(i)' = Valid(m) /\ \A j : j # i => Stored(j)' = Stored(j)
<1>1. CASE DOMAIN Valid(m) = {}
  <2>1. Valid(m) = Empty
    <3>1. Valid(m) = [a \in DOMAIN Valid(m) |-> Valid(m)[a]]
      BY DEF Valid
    <3> QED BY <1>1, <3>1 DEF Empty
  <2>2. ingressApps' = Without(ingressApps, {i})
    BY <1>1 DEF updateFromItem, removeIngress
  <2> QED BY <2>1, <2>2 DEF Stored, Without
<1>2. CASE DOMAIN Valid(m) # {}
  <2>1. ingressApps' = With(ingressApps, i, Valid(m))
    BY <1>2 DEF updateFromItem, addIngressApps
  <2> QED BY <2>1 DEF Stored, With
<1> QED BY <1>1, <1>2

LEMMA RemoveStores ==
    ASSUME NEW i, removeIngress(i)
    PROVE  Stored(i)' = Empty /\ \A j : j # i => Stored(j)' = Stored(j)
BY DEF removeIngress, Without, Stored

\* One more event, for an ingress that has changed to what the event says.
LEMMA AppendSays ==
    ASSUME RestTypes, LastSays, NEW i \in Ingress, NEW e \in Event, e.ingress = i,
           events' = Append(events, e),
           \A x : x = i => Says(e) = InCluster(x)',
           \A j \in Ingress \ {i} : InCluster(j)' = InCluster(j)
    PROVE  LastSays' /\ \A j \in Ingress \ {i} : Mine(j)' = Mine(j)
<1> DEFINE n == Len(events) + 1
<1>1. /\ Len(events) \in Nat /\ DOMAIN events = 1 .. Len(events)
      /\ DOMAIN events' = 1 .. n /\ events'[n] = e
      /\ \A k \in DOMAIN events : events'[k] = events[k]
  BY DEF RestTypes
<1>2. \A j \in Ingress \ {i} : Mine(j)' = Mine(j)
  BY <1>1 DEF Mine
<1>3. ASSUME NEW j \in Ingress, Mine(j)' # {}
      PROVE  \E k \in Mine(j)' : /\ \A l \in Mine(j)' : l <= k
                                 /\ Says(events'[k]) = InCluster(j)'
  <2>1. CASE j = i
    <3>1. n \in Mine(j)' /\ \A l \in Mine(j)' : l <= n
      BY <1>1, <2>1 DEF Mine
    <3>2. Says(events'[n]) = InCluster(j)'
      BY <1>1, <2>1
    <3> QED BY <3>1, <3>2
  <2>2. CASE j # i
    <3>1. PICK k \in Mine(j) : (\A l \in Mine(j) : l <= k) /\ Says(events[k]) = InCluster(j)
      BY <1>2, <1>3, <2>2 DEF LastSays
    <3>2. events'[k] = events[k]
      BY <1>1 DEF Mine
    <3> QED BY <1>2, <2>2, <3>1, <3>2
  <2> QED BY <2>1, <2>2
<1> QED BY <1>2, <1>3 DEF LastSays, Says

\* One event less: those of an ingress move up by one place.
LEMMA TailSays ==
    ASSUME RestTypes, LastSays, events # <<>>, events' = Tail(events), UNCHANGED cluster
    PROVE  /\ LastSays'
           /\ \A j \in Ingress : j # Head(events).ingress => (Mine(j)' = {} <=> Mine(j) = {})
           /\ \A j \in Ingress : j = Head(events).ingress /\ Mine(j)' = {} =>
                Says(Head(events)) = InCluster(j)
<1> DEFINE n == Len(events)
<1>1. /\ n \in Nat \ {0} /\ DOMAIN events = 1 .. n /\ DOMAIN events' = 1 .. n - 1
      /\ \A k \in 1 .. n - 1 : events'[k] = events[k + 1]
      /\ Head(events) = events[1]
  BY DEF RestTypes
<1> HIDE DEF n
<1>2. \A j, k : k \in Mine(j)' <=> k \in 1 .. n - 1 /\ k + 1 \in Mine(j)
  BY <1>1 DEF Mine
<1>3. \A j : Mine(j)' = {} => Mine(j) \subseteq {1}
  <2> SUFFICES ASSUME NEW j, NEW k \in Mine(j), k # 1
               PROVE  k - 1 \in Mine(j)'
    OBVIOUS
  <2>1. k \in 1 .. n
    BY <1>1 DEF Mine
  <2>2. k - 1 \in 1 .. n - 1 /\ (k - 1) + 1 = k
    BY <1>1, <2>1
  <2> QED BY <1>2, <2>2
<1>4. \A j : 1 \in Mine(j) <=> j = Head(events).ingress
  BY <1>1 DEF Mine
<1>5. ASSUME NEW j \in Ingress, Mine(j)' # {}
      PROVE  \E k \in Mine(j)' : /\ \A l \in Mine(j)' : l <= k
                                 /\ Says(events'[k]) = InCluster(j)
  <2>1. PICK k \in Mine(j)' : k \in 1 .. n - 1 /\ k + 1 \in Mine(j)
    BY <1>2, <1>5
  <2>2. PICK m \in Mine(j) : (\A l \in Mine(j) : l <= m) /\ Says(events[m]) = InCluster(j)
    BY <2>1 DEF LastSays
  <2>3. m \in 1 .. n /\ k + 1 <= m
    BY <1>1, <2>1, <2>2 DEF Mine
  <2>4. m - 1 \in 1 .. n - 1 /\ (m - 1) + 1 = m
    BY <1>1, <2>1, <2>3
  <2>5. m - 1 \in Mine(j)' /\ events'[m - 1] = events[m]
    BY <1>1, <1>2, <2>2, <2>4
  <2>6. \A l \in Mine(j)' : l <= m - 1
    BY <1>1, <1>2, <2>2, <2>3
  <2> QED BY <2>2, <2>5, <2>6
<1>6. LastSays'
  <2>1. \A j : InCluster(j)' = InCluster(j)
    BY DEF InCluster
  <2> QED BY <1>5, <2>1 DEF LastSays, Says
<1>7. ASSUME NEW j \in Ingress, j # Head(events).ingress
      PROVE  Mine(j)' = {} <=> Mine(j) = {}
  BY <1>2, <1>3, <1>4, <1>7
<1>8. ASSUME NEW j \in Ingress, j = Head(events).ingress, Mine(j)' = {}
      PROVE  Says(Head(events)) = InCluster(j)
  <2>1. PICK m \in Mine(j) : Says(events[m]) = InCluster(j)
    BY <1>4, <1>8 DEF LastSays
  <2>2. m = 1
    BY <1>3, <1>8, <2>1
  <2> QED BY <1>1, <2>1, <2>2
<1> QED BY <1>6, <1>7, <1>8

\* A new watch tells of every ingress once.
LEMMA WatchSays ==
    ASSUME RestTypes, watchStart
    PROVE  LastSays' /\ \A i \in Ingress : Mine(i)' = {} => i \notin DOMAIN cluster
<1> DEFINE n == Cardinality(DOMAIN cluster)
<1>1. PICK order \in [1 .. n -> DOMAIN cluster] :
        /\ \A i \in DOMAIN cluster : \E k \in DOMAIN order : order[k] = i
        /\ events' = [k \in DOMAIN order |->
                        [type |-> "put", ingress |-> order[k], item |-> cluster[order[k]]]]
  BY DEF watchStart
<1>2. IsFiniteSet(DOMAIN cluster) /\ n \in Nat
  BY IngressAssumption, FS_Subset, FS_CardinalityType DEF RestTypes
<1> HIDE DEF n
<1>3. order \in Injection(1 .. n, DOMAIN cluster)
  <2>1. order \in Surjection(1 .. n, DOMAIN cluster)
    BY <1>1 DEF Surjection
  <2>2. IsFiniteSet(1 .. n) /\ Cardinality(1 .. n) = n
    BY <1>2, FS_Interval
  <2> QED BY <2>1, <2>2, FS_Surjection DEF n
<1>4. \A k, l \in 1 .. n : order[k] = order[l] => k = l
  BY <1>3 DEF Injection, IsInjective
<1>5. /\ DOMAIN events' = 1 .. n
      /\ \A k \in 1 .. n : /\ events'[k].ingress = order[k] /\ events'[k].type = "put"
                           /\ events'[k].item = cluster[order[k]]
  BY <1>1
<1>6. \A i : Mine(i)' = {k \in 1 .. n : order[k] = i}
  BY <1>5 DEF Mine
<1>7. ASSUME NEW i \in Ingress, Mine(i)' # {}
      PROVE  \E k \in Mine(i)' : /\ \A l \in Mine(i)' : l <= k
                                 /\ Says(events'[k]) = InCluster(i)'
  <2>1. PICK k \in 1 .. n : order[k] = i /\ k \in Mine(i)'
    BY <1>6, <1>7
  <2>2. \A l \in Mine(i)' : l <= k
    BY <1>2, <1>4, <1>6, <2>1
  <2>3. i \in DOMAIN cluster /\ UNCHANGED cluster
    BY <1>1, <2>1 DEF watchStart
  <2>4. Says(events'[k]) = InCluster(i)'
    BY <1>5, <2>1, <2>3 DEF Says, InCluster
  <2> QED BY <2>1, <2>2, <2>4
<1>8. \A i \in Ingress : Mine(i)' = {} => i \notin DOMAIN cluster
  BY <1>1, <1>6
<1> QED BY <1>7, <1>8 DEF LastSays, Says

LEMMA NextSeen == RestTypes /\ SeenInv /\ [Next]_vars => SeenInv'
<1> SUFFICES ASSUME RestTypes, SeenInv, [Next]_vars PROVE SeenInv'
  OBVIOUS
<1>0. Quiet /\ LastSays /\ Settled
  BY DEF SeenInv
<1>1. ASSUME UNCHANGED <<events, cluster>> PROVE LastSays'
  BY <1>0, <1>1 DEF LastSays, Mine, InCluster, Says
<1>2. ASSUME UNCHANGED <<events, cluster, todo, ingressApps>>, unseen \subseteq unseen'
      PROVE  Settled'
  BY <1>0, <1>2 DEF Settled, Mine, InCluster, Known, Stored
<1>3. CASE resyncList
  <2>1. ASSUME NEW i \in Ingress \ unseen', Mine(i)' = {}
        PROVE  Known(i)' = InCluster(i)'
    <3>1. Mine(i) = {} /\ i \notin DOMAIN todo
      BY <1>3, <2>1 DEF resyncList, Mine, Resyncing
    <3>2. CASE i \in DOMAIN cluster
      BY <1>3, <3>2 DEF resyncList, Known, InCluster
    <3>3. CASE i \notin DOMAIN cluster
      <4>1. Stored(i) = Empty
        BY <1>0, <1>3, <2>1, <3>1, <3>3 DEF resyncList, Settled, Known, InCluster
      <4> QED BY <1>3, <3>3, <4>1 DEF resyncList, Known, InCluster, Stored, index
    <3> QED BY <3>2, <3>3
  <2> QED BY <1>0, <1>1, <1>3, <2>1 DEF resyncList, SeenInv, Quiet, Settled
<1>4. CASE resyncFails
  BY <1>0, <1>1, <1>2, <1>4 DEF resyncFails, SeenInv, Quiet, index
<1>5. CASE watchStart
  <2>1. LastSays' /\ \A i \in Ingress : Mine(i)' = {} => i \notin DOMAIN cluster
    BY <1>5, WatchSays
  <2>2. ASSUME NEW i \in Ingress \ unseen', Mine(i)' = {}
        PROVE  Known(i)' = InCluster(i)'
    <3>1. i \notin DOMAIN cluster /\ i \notin unseen
      BY <1>5, <2>1, <2>2 DEF watchStart
    <3>2. Mine(i) = {}
      BY <1>0, <1>5 DEF watchStart, Quiet, Mine
    <3>3. Known(i) = InCluster(i)
      BY <1>0, <3>1, <3>2 DEF Settled
    <3> QED BY <1>5, <3>3 DEF watchStart, Known, InCluster, Stored, index
  <2> QED BY <1>5, <2>1, <2>2 DEF watchStart, SeenInv, Quiet, Settled
<1>6. CASE event
  <2> DEFINE e == Head(events)
  <2>1. /\ events # <<>> /\ events' = Tail(events) /\ todo' = todo
        /\ \A j : j \notin DOMAIN todo
        /\ UNCHANGED <<phase, todo, cluster, unseen>> /\ phase = "open"
    BY <1>6 DEF event, Resyncing
  <2>2. /\ LastSays'
        /\ \A j \in Ingress : j # e.ingress => (Mine(j)' = {} <=> Mine(j) = {})
        /\ \A j \in Ingress : j = e.ingress /\ Mine(j)' = {} => Says(e) = InCluster(j)
    BY <1>0, <2>1, TailSays
  <2>3. \A x : IF x = e.ingress THEN Stored(x)' = Says(e) ELSE Stored(x)' = Stored(x)
    <3>1. CASE e.type = "put"
      <4>1. updateFromItem(e.ingress, e.item)
        BY <1>6, <3>1 DEF event
      <4> HIDE DEF e
      <4>2. PICK i, m : i = e.ingress /\ m = e.item
        OBVIOUS
      <4>3. \A x : IF x = i THEN Stored(x)' = Valid(m) ELSE Stored(x)' = Stored(x)
        BY <4>1, <4>2, UpdateStores
      <4> QED BY <3>1, <4>2, <4>3 DEF Says
    <3>2. CASE e.type # "put"
      <4>1. removeIngress(e.ingress)
        BY <1>6, <3>2 DEF event
      <4> HIDE DEF e
      <4>2. PICK i : i = e.ingress
        OBVIOUS
      <4>3. \A x : IF x = i THEN Stored(x)' = Empty ELSE Stored(x)' = Stored(x)
        BY <4>1, <4>2, RemoveStores
      <4> QED BY <3>2, <4>2, <4>3 DEF Says
    <3> QED BY <3>1, <3>2
  <2> HIDE DEF e
  <2>4. ASSUME NEW i \in Ingress \ unseen', Mine(i)' = {}
        PROVE  Known(i)' = InCluster(i)'
    <3>1. Known(i)' = Stored(i)' /\ Known(i) = Stored(i) /\ InCluster(i)' = InCluster(i)
      BY <2>1 DEF Known, InCluster
    <3>2. CASE i = e.ingress
      BY <2>2, <2>3, <2>4, <3>1, <3>2
    <3>3. CASE i # e.ingress
      BY <1>0, <2>1, <2>2, <2>3, <2>4, <3>1, <3>3 DEF Settled
    <3> QED BY <3>2, <3>3
  <2> QED BY <2>1, <2>2, <2>4 DEF SeenInv, Quiet, Settled
<1>7. CASE watchClosed \/ stop
  <2>1. /\ events' = <<>> /\ UNCHANGED <<ingressApps, todo, cluster>> /\ phase' # "open"
        /\ unseen' = unseen \cup {events[n].ingress : n \in DOMAIN events}
    BY <1>7 DEF watchClosed, stop, index
  <2>2. LastSays'
    BY <2>1 DEF LastSays, Mine
  <2>3. \A i \in Ingress \ unseen' : Mine(i) = {}
    BY <2>1 DEF Mine
  <2>4. Settled'
    BY <1>0, <2>1, <2>3 DEF Settled, Known, InCluster, Stored
  <2> QED BY <2>1, <2>2, <2>4 DEF SeenInv, Quiet
<1>8. ASSUME NEW i \in Ingress, resyncItem(i) PROVE SeenInv'
  <2>1. /\ i \in DOMAIN todo /\ todo' = Without(todo, {i})
        /\ UNCHANGED <<phase, cluster, events, unseen>>
    BY <1>8 DEF resyncItem
  <2>2. Stored(i)' = Valid(todo[i]) /\ \A j : j # i => Stored(j)' = Stored(j)
    BY <1>8, UpdateStores DEF resyncItem
  <2>3. ASSUME NEW j \in Ingress PROVE Known(j)' = Known(j)
    <3>1. CASE j = i
      BY <2>1, <2>2, <3>1 DEF Known, Without
    <3>2. CASE j # i
      BY <2>1, <2>2, <3>2 DEF Known, Without
    <3> QED BY <3>1, <3>2
  <2>4. Settled'
    BY <1>0, <2>1, <2>3 DEF Settled, Mine, InCluster
  <2> QED BY <1>0, <1>1, <2>1, <2>4 DEF SeenInv, Quiet
<1>9. ASSUME NEW i \in Ingress, NEW e \in Event, e.ingress = i, change(i, e),
             \A x : x = i => Says(e) = InCluster(x)',
             \A j \in Ingress \ {i} : InCluster(j)' = InCluster(j)
      PROVE  SeenInv'
  <2>1. \A j : Known(j)' = Known(j)
    BY <1>9 DEF change, Known, Stored, index
  <2>2. CASE phase = "open"
    <3>1. events' = Append(events, e) /\ phase' = "open" /\ UNCHANGED unseen
      BY <1>9, <2>2 DEF change
    <3>2. LastSays' /\ \A j \in Ingress \ {i} : Mine(j)' = Mine(j)
      BY <1>0, <1>9, <3>1, AppendSays
    <3>3. \A j \in Ingress : j = i => Mine(j)' # {}
      <4>1. Len(events) + 1 \in DOMAIN events' /\ events'[Len(events) + 1] = e
        BY <3>1 DEF RestTypes
      <4> QED BY <1>9, <4>1 DEF Mine
    <3>4. Settled'
      BY <1>0, <1>9, <2>1, <3>1, <3>2, <3>3 DEF Settled
    <3> QED BY <3>1, <3>2, <3>4 DEF SeenInv, Quiet
  <2>3. CASE phase # "open"
    <3>1. /\ events' = <<>> /\ events = <<>> /\ UNCHANGED phase
          /\ unseen' = unseen \cup {i}
      BY <1>0, <1>9, <2>3 DEF change, Quiet
    <3>2. \A j : Mine(j)' = {} /\ Mine(j) = {}
      BY <3>1 DEF Mine
    <3>3. Settled'
      BY <1>0, <1>9, <2>1, <3>1, <3>2 DEF Settled
    <3> QED BY <3>1, <3>2, <3>3 DEF SeenInv, Quiet, LastSays
  <2> QED BY <2>2, <2>3
<1>10. ASSUME NEW i \in Ingress, delete(i) PROVE SeenInv'
  <2> DEFINE e == [type |-> "delete", ingress |-> i]
  <2>1. e \in Event /\ e.ingress = i /\ Says(e) = Empty
    BY DEF Event, Says
  <2>2. change(i, e) /\ cluster' = Without(cluster, {i})
    BY <1>10 DEF delete
  <2> HIDE DEF e
  <2>3. /\ \A x : x = i => Empty = InCluster(x)'
        /\ \A j \in Ingress \ {i} : InCluster(j)' = InCluster(j)
    BY <2>2 DEF InCluster, Without
  <2> QED BY <1>9, <2>1, <2>2, <2>3
<1>11. ASSUME NEW i \in Ingress, NEW m \in Manifest, apply(i, m) PROVE SeenInv'
  <2> DEFINE e == [type |-> "put", ingress |-> i, item |-> m]
  <2>1. e \in Event /\ e.ingress = i /\ Says(e) = Valid(m)
    BY DEF Event, Says
  <2>2. change(i, e) /\ cluster' = With(cluster, i, m)
    BY <1>11 DEF apply
  <2> HIDE DEF e
  <2>3. /\ \A x : x = i => Valid(m) = InCluster(x)'
        /\ \A j \in Ingress \ {i} : InCluster(j)' = InCluster(j)
    BY <2>2 DEF InCluster, With
  <2> QED BY <1>9, <2>1, <2>2, <2>3
<1>12. CASE UNCHANGED vars
  BY <1>0, <1>1, <1>2, <1>12 DEF vars, SeenInv, Quiet
<1> QED
  BY <1>3, <1>4, <1>5, <1>6, <1>7, <1>8, <1>10, <1>11, <1>12 DEF Next

\* resyncGVR and runWatcher apply lists and events in an order that never brings
\* an old state of an ingress back: unless its last change came while no watch
\* was open, or was lost with one, the provider arrives at what the cluster has.
THEOREM NothingIsOverlooked == Spec => []NothingOverlooked
<1>1. Init => SeenInv
  BY DEF Init, SeenInv, Quiet, LastSays, Settled, Mine, InCluster, Known, Stored, Empty
<1>2. RestTypes /\ SeenInv => NothingOverlooked
  <2> SUFFICES ASSUME RestTypes, SeenInv, NEW i \in Ingress \ unseen
               PROVE  Latest(i) = InCluster(i)
    BY DEF NothingOverlooked, InCluster
  <2> DEFINE last == CHOOSE n \in Mine(i) : \A k \in Mine(i) : k <= n
  <2>1. Latest(i) = IF Mine(i) # {} THEN Says(events[last]) ELSE Known(i)
    BY DEF Latest, Mine, Says, Known
  <2>2. CASE Mine(i) = {}
    BY <2>1, <2>2 DEF SeenInv, Settled
  <2>3. CASE Mine(i) # {}
    <3>1. PICK n \in Mine(i) : (\A k \in Mine(i) : k <= n) /\ Says(events[n]) = InCluster(i)
      BY <2>3 DEF SeenInv, LastSays
    <3>2. last \in Mine(i) /\ \A k \in Mine(i) : k <= last
      BY <3>1
    <3> HIDE DEF last
    <3>3. last = n
      <4>1. last <= n /\ n <= last
        BY <3>1, <3>2
      <4>2. last \in Nat /\ n \in Nat
        BY <3>1, <3>2 DEF Mine, RestTypes
      <4> QED BY <4>1, <4>2
    <3> QED BY <2>1, <2>3, <3>1, <3>3
  <2> QED BY <2>2, <2>3
<1>3. TypeOK => RestTypes
  BY DEF TypeOK, RestTypes
<1> QED BY <1>1, <1>2, <1>3, NextSeen, TypeCorrect, PTL DEF Spec
===============================================================================
