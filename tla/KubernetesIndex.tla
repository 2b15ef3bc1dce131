--------------------------- MODULE KubernetesIndex ---------------------------
(***************************************************************************)
(* The Kubernetes label provider (internal/service/kubernetes_service.go): *)
(* the apps that ingresses declare, two indexes over them, and the         *)
(* goroutine watchGVR that keeps them up to date from a watch that breaks  *)
(* and a list that is fetched from time to time.                           *)
(*                                                                         *)
(* The mutex makes addIngressApps, removeIngress and each lookup one step; *)
(* a resync takes it item by item, so lookups see it half done.  Sleeps,   *)
(* tickers and timeouts are left out: a list, a watch or a restart may     *)
(* come at any time the goroutine can ask for it.  A list or a watch that  *)
(* fails changes nothing, except for the first list.                       *)
(*                                                                         *)
(* External, as the API describes it: a watch without resourceVersion      *)
(* starts with an Added event for every ingress there is, and then sends   *)
(* the changes in order until it breaks; what it had not sent is lost.     *)
(***************************************************************************)
EXTENDS Naturals, Sequences, FiniteSets

CONSTANTS Ingress, AppName, Domain,
          NoDomain,      \* config.domain left empty
          Manifest,      \* what an ingress may declare
          MaxChanges     \* bound on the changes of the cluster

ASSUME NoDomainAssumption == NoDomain \notin Domain
ASSUME IngressAssumption == IsFiniteSet(Ingress)
ASSUME BoundAssumption == MaxChanges \in Nat

\* An ingress as updateFromItem reads it: whether it has annotations and can
\* be decoded, the hosts of its rules, and the domains of its apps.
ASSUME ManifestAssumption ==
    \A m \in Manifest :
      /\ m.readable \in BOOLEAN
      /\ m.hosts \subseteq Domain
      /\ DOMAIN m.apps \subseteq AppName
      /\ \A a \in DOMAIN m.apps : m.apps[a] \in Domain \cup {NoDomain}

VARIABLES
    ingressApps,   \* ingress -> its apps, app name -> domain
    domainIndex,   \* domain -> the ingress and the app that has it
    appNameIndex,  \* app name -> the ingress that has it
    phase,         \* where watchGVR is: "start", "closed", "open" or "done"
    todo,          \* the items of a list that a resync has still to apply
    cluster,       \* external: the ingresses there are
    events,        \* external: what the watch has sent
    changes,       \* number of changes of the cluster
    unseen,        \* history: ingresses that changed where no watch told it
    contested      \* history: domains and app names that two ingresses
                   \* had at the same time

index == <<ingressApps, domainIndex, appNameIndex>>
vars == <<ingressApps, domainIndex, appNameIndex, phase, todo, cluster, events,
          changes, unseen, contested>>

Empty == [x \in {} |-> NoDomain]
With(f, k, e) == [x \in DOMAIN f \cup {k} |-> IF x = k THEN e ELSE f[x]]
Without(f, S) == [x \in DOMAIN f \ S |-> f[x]]
Domains(apps) == {apps[a] : a \in DOMAIN apps}

Init ==
    /\ ingressApps = Empty /\ domainIndex = Empty /\ appNameIndex = Empty
    /\ phase = "start" /\ todo = Empty
    /\ cluster \in UNION {[S -> Manifest] : S \in SUBSET Ingress}
    /\ events = <<>>
    /\ changes = 0 /\ unseen = DOMAIN cluster /\ contested = {}

-----------------------------------------------------------------------------
(* The two writers and the two lookups, each under the mutex.              *)

Stored(i) == IF i \in DOMAIN ingressApps THEN ingressApps[i] ELSE Empty

\* Mutant: the old entries are removed after the new ones were added.
addThenRemove(i, apps) ==
    /\ ingressApps' = With(ingressApps, i, apps)
    /\ \E a \in DOMAIN apps :
         domainIndex' = Without(With(domainIndex, apps[a], <<i, a>>),
                                Domains(Stored(i)))
    /\ appNameIndex' = Without([n \in DOMAIN appNameIndex \cup DOMAIN apps |-> i],
                               DOMAIN Stored(i))
    /\ UNCHANGED contested

\* The apps replace those of the same ingress.  They come from a Go map: of
\* two apps with one domain, either may be the last to enter the index.
addIngressApps(i, apps) ==
    LET kept == Without(domainIndex, Domains(Stored(i)))
        keptNames == Without(appNameIndex, DOMAIN Stored(i))
    IN  \E last \in [Domains(apps) -> DOMAIN apps] :
          /\ \A d \in Domains(apps) : apps[last[d]] = d
          /\ ingressApps' = With(ingressApps, i, apps)
          /\ domainIndex' = [d \in DOMAIN kept \cup Domains(apps) |->
                               IF d \in Domains(apps) THEN <<i, last[d]>>
                                                      ELSE kept[d]]
          /\ appNameIndex' = [a \in DOMAIN keptNames \cup DOMAIN apps |->
                                IF a \in DOMAIN apps THEN i ELSE keptNames[a]]
          /\ contested' = contested \cup UNION
               {(Domains(apps) \cap Domains(ingressApps[j]))
                  \cup (DOMAIN apps \cap DOMAIN ingressApps[j]) :
                j \in DOMAIN ingressApps \ {i}}

\* Mutant: the index by app name is left alone.
removeIngressHalf(i) ==
    /\ ingressApps' = Without(ingressApps, {i})
    /\ domainIndex' = Without(domainIndex, Domains(Stored(i)))
    /\ UNCHANGED <<appNameIndex, contested>>

removeIngress(i) ==
    /\ ingressApps' = Without(ingressApps, {i})
    /\ domainIndex' = Without(domainIndex, Domains(Stored(i)))
    /\ appNameIndex' = Without(appNameIndex, DOMAIN Stored(i))
    /\ UNCHANGED contested

\* The owner of what getByDomain and getByAppName return, as sets of at most
\* one ingress.
getByDomain(d) ==
    {i \in DOMAIN ingressApps :
       /\ d \in DOMAIN domainIndex /\ domainIndex[d][1] = i
       /\ \E a \in DOMAIN ingressApps[i] :
            ingressApps[i][a] = d /\ a = domainIndex[d][2]}
getByAppName(a) ==
    {i \in DOMAIN ingressApps :
       /\ a \in DOMAIN appNameIndex /\ appNameIndex[a] = i
       /\ a \in DOMAIN ingressApps[i]}

\* The apps of an ingress that count: with a domain, which is one of the hosts
\* of the rules if the rules name any.
Valid(m) ==
    LET ok == {a \in DOMAIN m.apps :
                 /\ m.readable
                 /\ m.apps[a] # NoDomain
                 /\ m.hosts # {} => m.apps[a] \in m.hosts}
    IN  [a \in ok |-> m.apps[a]]

\* Mutant: an ingress without apps is stored like any other.
updateAlways(i, m) == addIngressApps(i, Valid(m))

\* Mutant: an ingress that lost its last app keeps what it had.
updateOnlyFrom(i, m) ==
    IF DOMAIN Valid(m) = {} THEN UNCHANGED <<index, contested>>
                            ELSE addIngressApps(i, Valid(m))

updateFromItem(i, m) ==
    IF DOMAIN Valid(m) = {} THEN removeIngress(i)
                            ELSE addIngressApps(i, Valid(m))

-----------------------------------------------------------------------------
(* watchGVR, runWatcher and resyncGVR: one goroutine.                      *)

Resyncing == DOMAIN todo # {}

\* Mutant: runWatcher does not look at the ticker.
resyncUnwatched ==
    /\ phase \in {"start", "closed"} /\ ~Resyncing
    /\ todo' = cluster
    /\ phase' = "closed"
    /\ unseen' = unseen \ DOMAIN cluster
    /\ UNCHANGED <<index, cluster, events, changes, contested>>

\* The list answers; an empty one is done at once.  The first one takes the
\* goroutine to its loop.
resyncList ==
    /\ phase # "done" /\ ~Resyncing
    /\ todo' = cluster
    /\ phase' = IF phase = "start" THEN "closed" ELSE phase
    /\ unseen' = unseen \ DOMAIN cluster
    /\ UNCHANGED <<index, cluster, events, changes, contested>>

\* The first list fails, and the loop begins without it.
resyncFails ==
    /\ phase = "start"
    /\ phase' = "closed"
    /\ UNCHANGED <<index, todo, cluster, events, changes, unseen, contested>>

resyncItem(i) ==
    /\ i \in DOMAIN todo
    /\ updateFromItem(i, todo[i])
    /\ todo' = Without(todo, {i})
    /\ UNCHANGED <<phase, cluster, events, changes, unseen>>

\* Watch succeeds; the ingresses there are come as events, in any order.
watchStart ==
    /\ phase = "closed" /\ ~Resyncing
    /\ phase' = "open"
    /\ \E order \in [1 .. Cardinality(DOMAIN cluster) -> DOMAIN cluster] :
         /\ \A i \in DOMAIN cluster : \E n \in DOMAIN order : order[n] = i
         /\ events' = [n \in DOMAIN order |->
                         [type |-> "put", ingress |-> order[n],
                          item |-> cluster[order[n]]]]
    /\ unseen' = unseen \ DOMAIN cluster
    /\ UNCHANGED <<index, todo, cluster, changes, contested>>

\* Added, Modified or Deleted.
event ==
    /\ phase = "open" /\ ~Resyncing /\ events # <<>>
    /\ LET e == Head(events)
       IN  IF e.type = "put" THEN updateFromItem(e.ingress, e.item)
                             ELSE removeIngress(e.ingress)
    /\ events' = Tail(events)
    /\ UNCHANGED <<phase, todo, cluster, changes, unseen>>

\* The result channel is closed, the goroutine sleeps and starts over.
watchClosed ==
    /\ phase = "open" /\ ~Resyncing
    /\ phase' = "closed" /\ events' = <<>>
    /\ unseen' = unseen \cup {events[n].ingress : n \in DOMAIN events}
    /\ UNCHANGED <<index, todo, cluster, changes, contested>>

\* ctx is done.  A resync in progress finishes its loop over the items.
stop ==
    /\ phase # "done"
    /\ phase' = "done" /\ events' = <<>>
    /\ unseen' = unseen \cup {events[n].ingress : n \in DOMAIN events}
    /\ UNCHANGED <<index, todo, cluster, changes, contested>>

-----------------------------------------------------------------------------
(* The cluster.                                                            *)

change(i, e) ==
    /\ changes < MaxChanges
    /\ changes' = changes + 1
    /\ IF phase = "open" THEN events' = Append(events, e) /\ UNCHANGED unseen
                         ELSE unseen' = unseen \cup {i} /\ UNCHANGED events
    /\ UNCHANGED <<index, phase, todo, contested>>

apply(i, m) ==
    /\ cluster' = With(cluster, i, m)
    /\ change(i, [type |-> "put", ingress |-> i, item |-> m])

delete(i) ==
    /\ i \in DOMAIN cluster
    /\ cluster' = Without(cluster, {i})
    /\ change(i, [type |-> "delete", ingress |-> i])

-----------------------------------------------------------------------------

Next ==
    \/ resyncList \/ resyncFails \/ watchStart \/ event \/ watchClosed \/ stop
    \/ \E i \in Ingress : resyncItem(i) \/ delete(i)
    \/ \E i \in Ingress, m \in Manifest : apply(i, m)

Spec == Init /\ [][Next]_vars

\* The ticker of five minutes is polled wherever the goroutine waits, and the
\* loop over the items of a list does not block.  That a list succeeds again
\* and again is an assumption on the API server; nothing is assumed of the
\* watch.
Fairness == WF_vars(resyncList) /\ WF_vars(\E i \in Ingress : resyncItem(i))
FairSpec == Spec /\ Fairness

-----------------------------------------------------------------------------
(* Properties.                                                             *)

Apps == UNION {[S -> Domain] : S \in SUBSET AppName}
Event == [type : {"put"}, ingress : Ingress, item : Manifest]
           \cup [type : {"delete"}, ingress : Ingress]

TypeOK ==
    /\ DOMAIN ingressApps \subseteq Ingress
    /\ \A i \in DOMAIN ingressApps :
         ingressApps[i] \in Apps /\ DOMAIN ingressApps[i] # {}
    /\ DOMAIN domainIndex \subseteq Domain
    /\ DOMAIN appNameIndex \subseteq AppName
    /\ phase \in {"start", "closed", "open", "done"}
    /\ DOMAIN todo \subseteq Ingress
    /\ \A i \in DOMAIN todo : todo[i] \in Manifest
    /\ DOMAIN cluster \subseteq Ingress
    /\ \A i \in DOMAIN cluster : cluster[i] \in Manifest
    /\ events \in Seq(Event)
    /\ changes \in 0 .. MaxChanges
    /\ unseen \subseteq Ingress
    /\ contested \subseteq Domain \cup AppName

\* No index entry dangles: it leads to an ingress that is stored and has that
\* domain under that name.  getByDomain and getByAppName check it again, and
\* return "no app" for an entry that dangles.
IndexSound ==
    /\ \A d \in DOMAIN domainIndex :
         /\ domainIndex[d][1] \in DOMAIN ingressApps
         /\ domainIndex[d][2] \in DOMAIN ingressApps[domainIndex[d][1]]
         /\ ingressApps[domainIndex[d][1]][domainIndex[d][2]] = d
    /\ \A a \in DOMAIN appNameIndex :
         /\ appNameIndex[a] \in DOMAIN ingressApps
         /\ a \in DOMAIN ingressApps[appNameIndex[a]]

\* A domain or a name that no two ingresses ever had at the same time is found
\* for as long as the ingress that declares it is stored.
ClaimsIndexed ==
    \A i \in DOMAIN ingressApps :
      /\ \A d \in Domains(ingressApps[i]) \ contested : getByDomain(d) = {i}
      /\ \A a \in DOMAIN ingressApps[i] \ contested : getByAppName(a) = {i}

\* What the provider will know of an ingress once it has worked off the list
\* and the events it has: the last event, or the list, or what is stored.
Latest(i) ==
    LET mine == {n \in DOMAIN events : events[n].ingress = i}
        last == CHOOSE n \in mine : \A k \in mine : k <= n
    IN  IF mine # {} THEN IF events[last].type = "put"
                          THEN Valid(events[last].item) ELSE Empty
        ELSE IF i \in DOMAIN todo THEN Valid(todo[i])
        ELSE Stored(i)

\* Lists and events are applied in an order that never brings an old state of
\* an ingress back: unless its last change came while no watch was open (or
\* was lost with one), what the provider arrives at is what the cluster has.
NothingOverlooked ==
    \A i \in Ingress \ unseen :
      Latest(i) = IF i \in DOMAIN cluster THEN Valid(cluster[i]) ELSE Empty

Claims(i, d) == i \in DOMAIN cluster /\ d \in Domains(Valid(cluster[i]))

\* Resyncs repair what collisions and lost events have done: a domain that one
\* ingress, and no other, declares from some time on is served for it in the
\* end, whether a watch ever opens or not.
ServedInTheEnd ==
    \A i \in Ingress, d \in Domain :
      <>[](phase # "done" /\ Claims(i, d) /\ \A j \in Ingress \ {i} : ~Claims(j, d))
        => <>[](getByDomain(d) = {i})
=============================================================================
