-------------------------- MODULE LifecycleProofs ---------------------------
(***************************************************************************)
(* The life of the process and its LDAP connection, proved for every set   *)
(* of users, requests and configured parts, any number of attempts and     *)
(* any time to live of cached groups.                                      *)
(***************************************************************************)
EXTENDS Lifecycle, TLAPS

(***************************************************************************)
(* Type correctness.                                                       *)
(***************************************************************************)
LEMMA InitTyped == Init => TypeOK
<1> SUFFICES ASSUME Init PROVE TypeOK
  OBVIOUS
<1>1. tainted \in BOOLEAN /\ signal \in BOOLEAN
  BY Zenon DEF Init, InitLdap
<1>2. /\ conn \in Account \cup {Closed}
      /\ req \in [Request -> Slot]
      /\ cache = [k \in {} |-> 0] /\ member \subseteq User
  BY DEF Init, InitLdap, Slot
<1>3. routine \in [at : {"none", "wait", "reconnect", "connect", "ended"},
                   tries : 0 .. MaxTries - 1]
  BY MaxTriesAssumption DEF Init, InitLdap
<1>4. LdapTypeOK
  BY <1>1, <1>2, <1>3 DEF LdapTypeOK
<1> QED
  BY <1>1, <1>4 DEF Init, TypeOK

LEMMA ConnectTyped ==
  ASSUME LdapTypeOK, NEW o \in {"ok", "bindFailed", "dialFailed"}, Connect(o)
  PROVE  conn' \in Account \cup {Closed} /\ tainted' \in BOOLEAN
BY DEF LdapTypeOK, Connect, BindService, Account

\* A request changes its own slot, and the connection or the cache with it.
LEMMA StepTyped ==
  ASSUME LdapTypeOK, NEW r \in Request, Step(r)
  PROVE  LdapTypeOK'
<1>0. req[r] \in Slot
  BY DEF LdapTypeOK
<1> USE DEF Goto, GotoAt
<1>1. CASE bind(r)
  BY <1>0, <1>1 DEF bind, LdapTypeOK, Slot, Idle, Account
<1>2. CASE bindFails(r)
  BY <1>0, <1>2 DEF bindFails, LdapTypeOK, Slot, Idle, Account
<1>3. CASE rebind(r)
  BY <1>0, <1>3 DEF rebind, BindService, LdapTypeOK, Slot, Idle, Account
<1>4. CASE cached(r)
  BY <1>0, <1>4 DEF cached, LdapTypeOK, Slot, Idle, Account
<1>5. CASE GetUserGroups(r)
  <2>1. UNCHANGED <<conn, routine, cache, member, tainted>> /\ req[r].at = "getUserGroups"
    BY <1>5, Zenon DEF GetUserGroups
  <2>2. \E v \in Slot : req' = [req EXCEPT ![r] = v]
    <3>1. CASE req' = [req EXCEPT ![r] = Idle]
      BY <3>1 DEF Slot
    <3>2. ASSUME NEW groups \in BOOLEAN,
                 req' = [req EXCEPT ![r] = [req[r] EXCEPT !.at = "setGroups",
                                                          !.groups = groups]]
          PROVE  \E v \in Slot : req' = [req EXCEPT ![r] = v]
      <4>0. req[r] \in Slot \ {Idle}
        BY <1>0, <2>1 DEF Idle
      <4>1. [req[r] EXCEPT !.at = "setGroups", !.groups = groups] \in Slot
        BY <4>0 DEF Slot
      <4> QED
        BY <3>2, <4>1, Zenon
    <3> QED
      BY <1>5, <3>1, <3>2, Zenon DEF GetUserGroups
  <2> QED
    BY <2>1, <2>2 DEF LdapTypeOK
<1>6. CASE setGroups(r)
  BY <1>0, <1>6, TTLAssumption DEF setGroups, timeToLive, LdapTypeOK, Slot, Idle, Account
<1> QED
  BY <1>1, <1>2, <1>3, <1>4, <1>5, <1>6 DEF Step

\* The heartbeat's goroutine and what happens to the connection around it.
LEMMA RoutineTyped ==
  ASSUME LdapTypeOK, ldapAttempt \/ heartbeat \/ Drop
  PROVE  LdapTypeOK'
<1>1. CASE closeConn
  BY <1>1 DEF closeConn, LdapTypeOK
<1>2. ASSUME NEW o \in {"ok", "bindFailed", "dialFailed"}, reconnect(o)
      PROVE  LdapTypeOK'
  <2>1. routine' \in [at : {"none", "wait", "reconnect", "connect", "ended"},
                      tries : 0 .. MaxTries - 1]
    BY <1>2, MaxTriesAssumption DEF reconnect, LdapTypeOK
  <2>2. conn' \in Account \cup {Closed} /\ tainted' \in BOOLEAN
    BY <1>2, ConnectTyped DEF reconnect
  <2>3. UNCHANGED <<req, cache, member>>
    BY <1>2 DEF reconnect
  <2> QED
    BY <2>1, <2>2, <2>3 DEF LdapTypeOK
<1>3. CASE heartbeat
  BY <1>3, MaxTriesAssumption DEF heartbeat, LdapTypeOK
<1>4. CASE Drop
  BY <1>4 DEF Drop, LdapTypeOK
<1> QED
  BY <1>1, <1>2, <1>3, <1>4 DEF ldapAttempt

LEMMA ProcessEndsTyped ==
  ASSUME LdapTypeOK, NEW last, ProcessEnds(last)
  PROVE  LdapTypeOK'
BY DEF ProcessEnds, LdapTypeOK, Slot

LEMMA LdapUntouched ==
  ASSUME LdapTypeOK, UNCHANGED ldapVars
  PROVE  LdapTypeOK'
BY DEF ldapVars, LdapTypeOK

LEMMA NextTyped == TypeOK /\ [Next]_vars => TypeOK'
<1> SUFFICES ASSUME TypeOK, [Next]_vars
             PROVE  TypeOK'
  OBVIOUS
<1> USE ConfiguredAssumption DEF TypeOK
<1>1. CASE setupStore
  BY <1>1, LdapUntouched DEF setupStore, Fails, Routine
<1>2. CASE getLabelProvider
  BY <1>2, LdapUntouched DEF getLabelProvider, Fails, Routine
<1>3. ASSUME NEW o \in {"ok", "bindFailed", "dialFailed"}, newLdapService(o)
      PROVE  TypeOK'
  <2>1. conn' \in Account \cup {Closed} /\ tainted' \in BOOLEAN
    BY <1>3, ConnectTyped DEF newLdapService
  <2>2. routine' \in [at : {"none", "wait", "reconnect", "connect", "ended"},
                      tries : 0 .. MaxTries - 1]
    BY <1>3, MaxTriesAssumption DEF newLdapService
  <2>3. LdapTypeOK'
    BY <1>3, <2>1, <2>2 DEF newLdapService, LdapTypeOK
  <2> QED
    BY <1>3, <2>3 DEF newLdapService, Routine
<1>4. CASE ldapCertFails \/ ldapGivenUp
  BY <1>4, LdapUntouched DEF ldapCertFails, ldapGivenUp, Fails
<1>5. CASE newServices
  BY <1>5, LdapUntouched DEF newServices, Fails, Routine
<1>6. CASE run
  BY <1>6, LdapUntouched DEF run, Fails, Routine
<1>7. CASE monitorDone
  BY <1>7, LdapUntouched DEF monitorDone
<1>8. CASE monitorError
  <2>1. LdapTypeOK'
    BY <1>8, ProcessEndsTyped DEF monitorError
  <2> QED
    BY <1>8, <2>1 DEF monitorError, ProcessEnds
<1>9. CASE Signal
  BY <1>9, LdapUntouched DEF Signal
<1>10. CASE listen
  BY <1>10, LdapUntouched DEF listen
<1>11. CASE shutdown
  BY <1>11, LdapUntouched DEF shutdown
<1>12. CASE drained
  BY <1>12, LdapUntouched DEF drained
<1>13. CASE cancelRing
  BY <1>13, LdapUntouched DEF cancelRing
<1>14. ASSUME NEW g \in Routine, routineEnds(g)
       PROVE  TypeOK'
  BY <1>14, LdapUntouched DEF routineEnds, Cancelled, Up, Ends
<1>15. CASE listenerEnds
  BY <1>15, LdapUntouched DEF listenerEnds, Up, Ends
<1>16. CASE ldapEnds
  <2>1. LdapTypeOK'
    BY <1>16, MaxTriesAssumption DEF ldapEnds, LdapTypeOK
  <2> QED
    BY <1>16, <2>1 DEF ldapEnds, Cancelled, Up, Ends
<1>17. CASE databaseEnds
  BY <1>17, LdapUntouched DEF databaseEnds, Cancelled, Up, Ends
<1>18. CASE exit
  <2>1. LdapTypeOK'
    BY <1>18, ProcessEndsTyped DEF exit
  <2> QED
    BY <1>18, <2>1 DEF exit, ProcessEnds
<1>19. CASE ldapArrives
  <2>1. LdapTypeOK'
    BY <1>19 DEF ldapArrives, SearchUser, Goto, LdapTypeOK, Slot
  <2> QED
    BY <1>19, <2>1 DEF ldapArrives, lifeVars
<1>20. CASE ldapServes
  BY <1>20, StepTyped DEF ldapServes, lifeVars
<1>21. CASE ldapReconnects \/ ldapHeartbeat
  BY <1>21, RoutineTyped DEF ldapReconnects, ldapHeartbeat, lifeVars
<1>22. CASE world
  <2>1. ASSUME Drop PROVE LdapTypeOK'
    BY <2>1, RoutineTyped
  <2>2. ASSUME Tick PROVE LdapTypeOK'
    <3>1. ASSUME NEW k \in DOMAIN cache'
          PROVE  cache'[k] \in [groups : BOOLEAN, left : 1 .. GroupCacheTTL]
      <4>1. /\ k \in DOMAIN cache /\ cache[k].left # 1
            /\ cache'[k] = [cache[k] EXCEPT !.left = IF @ > 1 THEN @ - 1 ELSE @]
        BY <2>2 DEF Tick
      <4>2. cache[k] \in [groups : BOOLEAN, left : 1 .. GroupCacheTTL]
        BY <4>1 DEF LdapTypeOK
      <4> QED
        BY <4>1, <4>2, TTLAssumption
    <3>2. DOMAIN cache' \subseteq User
      BY <2>2 DEF Tick, LdapTypeOK
    <3> QED
      BY <2>2, <3>1, <3>2 DEF Tick, LdapTypeOK
  <2>3. ASSUME NEW u \in User, Regroup(u)
        PROVE  LdapTypeOK'
    BY <2>3 DEF Regroup, LdapTypeOK
  <2> QED
    BY <1>22, <2>1, <2>2, <2>3 DEF world, lifeVars
<1>23. CASE UNCHANGED vars
  BY <1>23, LdapUntouched DEF vars, lifeVars
<1> QED
  BY <1>1, <1>2, <1>3, <1>4, <1>5, <1>6, <1>7, <1>8, <1>9, <1>10, <1>11, <1>12,
     <1>13, <1>14, <1>15, <1>16, <1>17, <1>18, <1>19, <1>20, <1>21, <1>22, <1>23
     DEF Next, Terminated

\* Setup, the rings, the connection, the slots and the cache keep their types.
THEOREM TypeCorrect == Spec => []TypeOK
BY InitTyped, NextTyped, PTL DEF Spec

(***************************************************************************)
(* The connection is the service's but for a login between its binds.      *)
(* BoundAsService is inductive: whoever leaves "rebind" has bound the      *)
(* service, found the connection closed, or tainted it.                    *)
(***************************************************************************)
LEMMA ConnectBound ==
  ASSUME BoundAsService, UNCHANGED req,
         NEW o \in {"ok", "bindFailed", "dialFailed"}, Connect(o)
  PROVE  BoundAsService'
BY DEF BoundAsService, Connect, BindService

LEMMA StepBound ==
  ASSUME LdapTypeOK, BoundAsService, NEW r \in Request, Step(r)
  PROVE  BoundAsService'
<1>0. req \in [Request -> Slot]
  BY DEF LdapTypeOK
<1> USE <1>0 DEF BoundAsService, Goto, GotoAt
<1>1. CASE bind(r)
  <2>1. req[r] \in Slot /\ req[r] # Idle
    BY <1>1 DEF bind, Idle
  <2>2. req'[r].at = "rebind"
    BY <1>1, <2>1 DEF bind, Slot
  <2> QED
    BY <2>2
<1>2. CASE bindFails(r)
  BY <1>2 DEF bindFails
<1>3. CASE rebind(r)
  BY <1>3 DEF rebind, BindService
<1>4. CASE cached(r)
  BY <1>4 DEF cached
<1>5. CASE GetUserGroups(r)
  BY <1>5 DEF GetUserGroups
<1>6. CASE setGroups(r)
  BY <1>6 DEF setGroups
<1> QED
  BY <1>1, <1>2, <1>3, <1>4, <1>5, <1>6 DEF Step

LEMMA NextBound == TypeOK /\ BoundAsService /\ [Next]_vars => BoundAsService'
<1> SUFFICES ASSUME TypeOK, BoundAsService, [Next]_vars
             PROVE  BoundAsService'
  OBVIOUS
<1>1. ASSUME UNCHANGED ldapVars PROVE BoundAsService'
  BY <1>1 DEF ldapVars, BoundAsService
<1>2. ASSUME NEW o \in {"ok", "bindFailed", "dialFailed"},
             newLdapService(o) \/ reconnect(o)
      PROVE  BoundAsService'
  BY <1>2, ConnectBound DEF newLdapService, reconnect
<1>3. ASSUME conn' = Closed PROVE BoundAsService'
  BY <1>3 DEF BoundAsService
<1>4. CASE ldapEnds
  BY <1>4 DEF ldapEnds, BoundAsService
<1>5. CASE ldapArrives
  <2>1. PICK r \in Request, u \in User, k \in {"login", "cookie"} : SearchUser(r, u, k)
    BY <1>5 DEF ldapArrives
  <2>2. req \in [Request -> Slot] /\ req[r].at # "rebind"
    BY <2>1 DEF SearchUser, TypeOK, LdapTypeOK, Idle
  <2> QED
    BY <2>1, <2>2 DEF SearchUser, Goto, BoundAsService
<1>6. CASE ldapServes
  BY <1>6, StepBound DEF ldapServes, TypeOK
<1>7. CASE ldapHeartbeat
  BY <1>7 DEF ldapHeartbeat, heartbeat, BoundAsService
<1>8. CASE world
  BY <1>8, <1>3 DEF world, Drop, Tick, Regroup, BoundAsService
<1>9. CASE ldapReconnects
  BY <1>9, <1>2, <1>3 DEF ldapReconnects, ldapAttempt, closeConn
<1>10. CASE monitorError \/ exit
  BY <1>10, <1>3 DEF monitorError, exit, ProcessEnds
<1>11. CASE \/ setupStore \/ getLabelProvider \/ ldapCertFails \/ ldapGivenUp
            \/ newServices \/ run \/ monitorDone \/ Signal \/ listen \/ shutdown \/ drained \/ cancelRing
            \/ (\E g \in Routine : routineEnds(g)) \/ listenerEnds \/ databaseEnds
            \/ Terminated \/ UNCHANGED vars
  BY <1>11, <1>1 DEF setupStore, getLabelProvider, ldapCertFails, ldapGivenUp, newServices, run,
     monitorDone, Signal, listen, shutdown, drained, cancelRing, routineEnds,
     listenerEnds, databaseEnds, Terminated, vars
<1> QED
  BY <1>2, <1>4, <1>5, <1>6, <1>7, <1>8, <1>9, <1>10, <1>11 DEF Next

\* Searches run as the service account (GetUserInfo and GetUserGroups against
\* Bind, BindService and reconnect), but for the time between the two binds of
\* a login and after a bind that failed.
THEOREM SearchesRunAsService == Spec => []BoundAsService
<1>1. Init => BoundAsService
  BY DEF Init, InitLdap, BoundAsService
<1> QED
  BY <1>1, NextBound, TypeCorrect, PTL DEF Spec

(***************************************************************************)
(* The shutdown.  What has ended, the listener apart, was in a ring that   *)
(* is cancelled; what is up is in none that was left behind; and a server  *)
(* that accepts requests holds the second ring up.                         *)
(***************************************************************************)
RingsInOrder ==
    /\ phase \notin {"wait", "exited"} => ring = 0
    /\ \A g \in ended \ {"listener"} : Ring(g) <= ring
    /\ \A g \in started \ ended : ring <= Ring(g)

DatabaseKnown ==
    /\ IF phase = "setupStore" THEN started = {}
                               ELSE phase # "failed" => "database" \in started
    /\ db = IF "database" \in ended THEN "closed"
            ELSE IF "database" \in started THEN "open" ELSE "none"

ServerHeld == server = "serving" => Up("listener")

IInv == TypeOK /\ RingsInOrder /\ DatabaseKnown /\ ServerHeld

LEMMA RingValues ==
  /\ \A g \in Routine : Ring(g) \in 1 .. 4
  /\ Ring("sweep") = 1 /\ Ring("dbCleanup") = 1 /\ Ring("listener") = 2
  /\ \A g \in Provider : Ring(g) = 3
  /\ Ring("docker") = 3 /\ Ring("kubernetes") = 3
  /\ Ring("ldap") = 3 /\ Ring("tailscale") = 3
  /\ Ring("database") = 4
BY DEF Ring, Routine, Provider

LEMMA IInvStopsInOrder == IInv => StopsInOrder
<1> SUFFICES ASSUME IInv, Alive
             PROVE  /\ Up("dbCleanup") \/ Up("sweep") => db = "open"
                    /\ server = "serving" =>
                         /\ db = "open"
                         /\ \A g \in Provider \cap started :
                              Callable(g) \/ (g = "docker" /\ signal)
  BY DEF StopsInOrder
<1>1. ring \in 0 .. 4 /\ ended \subseteq started
  BY DEF IInv, TypeOK
<1>2. ASSUME NEW g \in {"dbCleanup", "sweep", "listener"}, Up(g)
      PROVE  ring <= 2 /\ db = "open"
  <2>1. ring <= 2
    BY <1>1, <1>2, RingValues DEF IInv, RingsInOrder, Up
  <2>2. "database" \notin ended
    BY <1>1, <2>1, RingValues DEF IInv, RingsInOrder
  <2>3. "database" \in started
    BY <1>2 DEF IInv, DatabaseKnown, Up, Alive
  <2> QED
    BY <2>1, <2>2, <2>3 DEF IInv, DatabaseKnown
<1>3. ASSUME server = "serving"
      PROVE  /\ db = "open"
             /\ \A g \in Provider \cap started : Callable(g) \/ (g = "docker" /\ signal)
  <2>1. ring <= 2 /\ db = "open"
    BY <1>2, <1>3 DEF IInv, ServerHeld
  <2>2. \A g \in Provider \cap started : Up(g) /\ ring < Ring(g)
    <3>1. \A g \in Provider : g # "listener" /\ Ring(g) = 3
      BY RingValues DEF Provider
    <3> QED
      BY <1>1, <2>1, <3>1 DEF IInv, RingsInOrder, Up
  <2> QED
    BY <2>1, <2>2 DEF Callable
<1> QED
  BY <1>2, <1>3

LEMMA NextIInv == IInv /\ [Next]_vars => IInv'
<1> SUFFICES ASSUME IInv, [Next]_vars
             PROVE  IInv'
  OBVIOUS
<1>0. TypeOK'
  BY NextTyped DEF IInv
<1>00. ring \in 0 .. 4 /\ ended \subseteq started /\ started \subseteq Routine
  BY DEF IInv, TypeOK
<1> USE RingValues, <1>0, <1>00 DEF IInv, RingsInOrder, DatabaseKnown, ServerHeld, Up
<1>1. ASSUME UNCHANGED lifeVars PROVE IInv'
  BY <1>1 DEF lifeVars
<1>2. CASE setupStore
  BY <1>2 DEF setupStore, Fails
<1>3. CASE getLabelProvider
  BY <1>3 DEF getLabelProvider, Fails
<1>4. ASSUME NEW o \in {"ok", "bindFailed", "dialFailed"}, newLdapService(o)
      PROVE  IInv'
  BY <1>4 DEF newLdapService
<1>5. CASE newServices
  BY <1>5 DEF newServices, Fails
<1>6. CASE run
  <2>1. /\ ring = 0 /\ UNCHANGED <<ended, ring, server, db>>
        /\ started \subseteq started'
        /\ phase' \in {"monitor", "failed"} /\ "database" \in started
    BY <1>6 DEF run, Fails
  <2>2. started' \subseteq Routine
    BY DEF TypeOK
  <2> QED
    BY <2>1, <2>2
<1>7. CASE ldapCertFails \/ ldapGivenUp \/ monitorDone \/ monitorError \/ Signal
  BY <1>7 DEF ldapCertFails, Fails, ldapGivenUp, monitorDone, monitorError, Signal, ProcessEnds
<1>8. CASE listen \/ shutdown \/ drained
  BY <1>8 DEF listen, shutdown, drained
<1>9. CASE cancelRing
  BY <1>9 DEF cancelRing
<1>10. ASSUME NEW g \in Routine, routineEnds(g)
       PROVE  IInv'
  BY <1>10 DEF routineEnds, Cancelled, Ends
<1>11. CASE listenerEnds
  BY <1>11 DEF listenerEnds, Ends
<1>12. CASE ldapEnds
  BY <1>12 DEF ldapEnds, Cancelled, Ends
<1>13. CASE databaseEnds
  BY <1>13 DEF databaseEnds, Cancelled, Ends
<1>14. CASE exit
  BY <1>14 DEF exit, ProcessEnds
<1>15. CASE \/ ldapArrives \/ ldapServes \/ ldapReconnects \/ ldapHeartbeat \/ world
            \/ Terminated \/ UNCHANGED vars
  BY <1>15, <1>1 DEF ldapArrives, ldapServes, ldapReconnects, ldapHeartbeat, world,
     Terminated, vars
<1> QED
  BY <1>2, <1>3, <1>4, <1>5, <1>6, <1>7, <1>8, <1>9, <1>10, <1>11, <1>12, <1>13,
     <1>14, <1>15 DEF Next

\* The order of the shutdown (ding's rings in app_bootstrap.go, and serve in
\* router_bootstrap.go): no janitor outlives the database, and while the server
\* accepts requests the database is open and no provider has ended or been told
\* to stop, but for Docker, which the signal itself cuts off.
THEOREM ShutdownInOrder == Spec => []StopsInOrder
<1>1. Init => IInv
  BY InitTyped DEF Init, IInv, RingsInOrder, DatabaseKnown, ServerHeld
<1> QED
  BY <1>1, NextIInv, IInvStopsInOrder, PTL DEF Spec
=============================================================================
