------------------------- MODULE UserSessionsProofs -------------------------
(***************************************************************************)
(* Login sessions, proved for every set of users, providers and requests   *)
(* in flight, all durations and all bounds.                                *)
(***************************************************************************)
EXTENDS UserSessions, FiniteSetTheorems, TLAPS

(***************************************************************************)
(* Sessions are numbered without a gap, so the next uuid is new.           *)
(***************************************************************************)
Numbered(S) == \E n \in Nat : S = 1 .. n

LEMMA NextIsNew ==
  ASSUME NEW S, Numbered(S)
  PROVE  LET n == Cardinality(S) + 1
         IN  n \in Nat \ {0} /\ n \notin S /\ Numbered(S \cup {n})
<1>1. PICK n \in Nat : S = 1 .. n
  BY DEF Numbered
<1>2. Cardinality(S) = n
  BY <1>1, FS_Interval
<1>3. S \cup {n + 1} = 1 .. n + 1
  BY <1>1
<1> QED
  BY <1>1, <1>2, <1>3 DEF Numbered

(***************************************************************************)
(* Type correctness, of the clock and the histories too, and the agreement *)
(* of each row with the login that made it.                                *)
(***************************************************************************)
Login == [user : User, provider : Provider \cup {"local"}, totpPending : BOOLEAN,
          time : Nat, from : Nat]

AgreesWith(row, entry) ==
    /\ row.user = entry.user /\ row.provider = entry.provider
    /\ row.totpPending = entry.totpPending /\ row.createdAt = entry.time

Histories ==
    /\ now \in Nat
    /\ Numbered(DOMAIN created)
    /\ \A u \in DOMAIN created : created[u] \in Login
    /\ \A r \in Request : req[r] # Idle => req[r].uuid \in DOMAIN created
    /\ \A u \in DOMAIN sessions : AgreesWith(sessions[u], created[u])

Types == TypeOK /\ Histories

LEMMA ThresholdTyped == refreshThreshold \in Nat
BY DurationsAssumption DEF refreshThreshold

\* The steps of a request move its slot and leave its session's number alone.
LEMMA Moves ==
  ASSUME Types, NEW r \in Request, Step(r)
  PROVE  /\ req[r] \in Busy
         /\ \A q \in Request \ {r} : req'[q] = req[q]
         /\ req' \in [Request -> {Idle} \cup Busy]
         /\ req'[r] # Idle => req'[r].uuid = req[r].uuid
<1>0. req \in [Request -> {Idle} \cup Busy]
  BY DEF Types, TypeOK
<1>1. req[r] \in Busy
  <2>1. req[r].at # Idle.at
    BY DEF Step, discard, provider, discardOAuth, refresh, updateSession, logout,
       verifyTotp, deletePending, createFull, Idle
  <2> QED
    BY <1>0, <2>1
<1>2. \A l \in {"discard", "discardOAuth", "provider", "refresh", "updateSession",
                "logout", "verifyTotp", "deletePending", "createFull"} :
        GotoAt(r, l) => \E v \in Busy : v.uuid = req[r].uuid /\ Goto(r, v)
  BY <1>1 DEF GotoAt, Busy
<1>3. Serve(r) => \/ Goto(r, Idle)
                  \/ \E v \in Busy : v.uuid = req[r].uuid /\ Goto(r, v)
  BY <1>2 DEF Serve
<1>4. refresh(r) => \/ Goto(r, Idle)
                    \/ \E v \in Busy : v.uuid = req[r].uuid /\ Goto(r, v)
  <2> SUFFICES ASSUME refresh(r), req[r].uuid \in DOMAIN sessions,
                      Goto(r, [req[r] EXCEPT !.at = "updateSession",
                                 !.expiry = sessions[req[r].uuid].expiry + refreshThreshold])
               PROVE  \E v \in Busy : v.uuid = req[r].uuid /\ Goto(r, v)
    BY <1>3 DEF refresh
  <2>1. sessions[req[r].uuid].expiry + refreshThreshold \in Nat
    BY ThresholdTyped DEF Types, TypeOK, Row
  <2> QED
    BY <1>1, <2>1 DEF Busy
<1>5. \/ Goto(r, Idle)
      \/ \E v \in Busy : v.uuid = req[r].uuid /\ Goto(r, v)
  BY <1>2, <1>3, <1>4 DEF Step, discard, provider, discardOAuth, updateSession,
     logout, verifyTotp, deletePending, createFull
<1> QED
  BY <1>0, <1>1, <1>5 DEF Goto

LEMMA Arrives ==
  ASSUME Types, NEW r \in Request, NEW u \in Uuid, NEW e \in Endpoint, getSession(r, u, e)
  PROVE  /\ \A q \in Request \ {r} : req'[q] = req[q]
         /\ req'[r] \in Busy /\ req'[r].uuid = u
         /\ req'[r].at \in {"discard", "verifyTotp", "logout", "provider"}
         /\ req' \in [Request -> {Idle} \cup Busy]
<1>0. req \in [Request -> {Idle} \cup Busy]
  BY DEF Types, TypeOK
<1>1. \E l \in {"discard", "verifyTotp", "logout", "provider"} :
        req' = [req EXCEPT ![r] = [at |-> l, uuid |-> u, endpoint |-> e, expiry |-> 0]]
  BY DEF getSession, Goto
<1>2. \A l \in {"discard", "verifyTotp", "logout", "provider"} :
        [at |-> l, uuid |-> u, endpoint |-> e, expiry |-> 0] \in Busy
  BY DEF Busy
<1> QED
  BY <1>0, <1>1, <1>2

\* Steps that create no session: rows keep their login.
Keeps(new, old) ==
    /\ DOMAIN new \subseteq DOMAIN old
    /\ \A u \in DOMAIN new :
         /\ new[u] \in Row
         /\ new[u].user = old[u].user /\ new[u].provider = old[u].provider
         /\ new[u].totpPending = old[u].totpPending
         /\ new[u].createdAt = old[u].createdAt

LEMMA RowsKept ==
  ASSUME Types, NEW r \in Request,
         \/ discard(r) \/ discardOAuth(r) \/ updateSession(r)
         \/ logout(r) \/ deletePending(r)
  PROVE  Keeps(sessions', sessions)
<1>0. \A u \in DOMAIN sessions : sessions[u] \in Row
  BY DEF Types, TypeOK
<1>1. CASE discard(r) \/ discardOAuth(r)
  BY <1>0, <1>1 DEF discard, discardOAuth, Without, Keeps
<1>2. CASE logout(r) \/ deletePending(r)
  BY <1>0, <1>2 DEF logout, deletePending, DeleteSession, Without, Keeps
<1>3. CASE updateSession(r)
  <2>1. req[r].expiry \in Nat
    BY <1>3, Moves DEF Step, Busy
  <2> QED
    BY <1>0, <1>3, <2>1 DEF updateSession, Keeps, Row
<1> QED
  BY <1>1, <1>2, <1>3

LEMMA KeepsTyped ==
  ASSUME Types, Keeps(sessions', sessions), UNCHANGED <<created, serial>>, now' \in Nat,
         req' \in [Request -> {Idle} \cup Busy],
         \A r \in Request : req'[r] # Idle => req'[r].uuid \in DOMAIN created
  PROVE  Types'
<1>1. Busy' = Busy /\ Uuid' = Uuid /\ Idle' = Idle
  BY DEF Busy, Uuid, LastUuid, Idle
<1>2. TypeOK'
  BY <1>1 DEF Types, TypeOK, Keeps
<1>3. Histories'
  BY <1>1 DEF Types, TypeOK, Histories, Keeps, AgreesWith
<1> QED
  BY <1>2, <1>3 DEF Types

\* A login and a completed TOTP verification add one row and its record.
LEMMA CreateAdds ==
  ASSUME Types, NEW user \in User, NEW p \in Provider \cup {"local"},
         NEW pending \in BOOLEAN, NEW from \in Nat,
         CreateSession(user, p, pending, from), UNCHANGED serial
  PROVE  /\ newUuid \in Uuid /\ newUuid \notin DOMAIN created
         /\ Numbered(DOMAIN created \cup {newUuid})
         /\ DOMAIN created' = DOMAIN created \cup {newUuid}
         /\ DOMAIN sessions' = DOMAIN sessions \cup {newUuid}
         /\ created'[newUuid] = [user |-> user, provider |-> p, totpPending |-> pending,
                                 time |-> now, from |-> from]
         /\ sessions'[newUuid] \in Row
         /\ AgreesWith(sessions'[newUuid], created'[newUuid])
         /\ sessions'[newUuid].expiry = now + (IF pending THEN Hour ELSE SessionExpiry)
         /\ \A u \in DOMAIN created : created'[u] = created[u]
         /\ \A u \in DOMAIN sessions : sessions'[u] = sessions[u]
<1> DEFINE n == newUuid
<1>1. n \in Nat \ {0} /\ n \notin DOMAIN created /\ Numbered(DOMAIN created \cup {n})
  BY NextIsNew DEF newUuid, Types, Histories
<1>2. n \in Uuid
  BY <1>1, BoundsAssumption DEF CreateSession, Uuid, LastUuid
<1>3. now + (IF pending THEN Hour ELSE SessionExpiry) \in Nat
  BY DurationsAssumption DEF Types, Histories
<1>4. n \notin DOMAIN sessions
  BY <1>1 DEF Types, TypeOK
<1>5. /\ sessions' = With(sessions, n,
           [user |-> user, provider |-> p, totpPending |-> pending,
            expiry |-> now + (IF pending THEN Hour ELSE SessionExpiry), createdAt |-> now])
      /\ created' = With(created, n,
           [user |-> user, provider |-> p, totpPending |-> pending, time |-> now,
            from |-> from])
  BY DEF CreateSession
<1> HIDE DEF n
<1>6. /\ DOMAIN created' = DOMAIN created \cup {n}
      /\ \A u \in DOMAIN created : created'[u] = created[u]
      /\ created'[n] = [user |-> user, provider |-> p, totpPending |-> pending,
                        time |-> now, from |-> from]
  BY <1>1, <1>5 DEF With
<1>7. /\ DOMAIN sessions' = DOMAIN sessions \cup {n}
      /\ \A u \in DOMAIN sessions : sessions'[u] = sessions[u]
      /\ sessions'[n] =
           [user |-> user, provider |-> p, totpPending |-> pending,
            expiry |-> now + (IF pending THEN Hour ELSE SessionExpiry), createdAt |-> now]
  BY <1>4, <1>5 DEF With
<1>8. sessions'[n] \in Row /\ AgreesWith(sessions'[n], created'[n])
  BY <1>3, <1>6, <1>7 DEF Row, AgreesWith, Types, Histories
<1>9. sessions'[n].expiry = now + (IF pending THEN Hour ELSE SessionExpiry)
  BY <1>7
<1> QED
  BY <1>1, <1>2, <1>6, <1>7, <1>8, <1>9 DEF n

LEMMA CreateTyped ==
  ASSUME Types, NEW user \in User, NEW p \in Provider \cup {"local"},
         NEW pending \in BOOLEAN, NEW from \in Nat,
         CreateSession(user, p, pending, from), UNCHANGED <<serial, now>>,
         req' \in [Request -> {Idle} \cup Busy],
         \A r \in Request : req'[r] = req[r] \/ req'[r] = Idle
  PROVE  Types'
<1> DEFINE n == newUuid
<1>1. /\ n \in Uuid /\ Numbered(DOMAIN created')
      /\ DOMAIN created' = DOMAIN created \cup {n}
      /\ DOMAIN sessions' = DOMAIN sessions \cup {n}
      /\ created'[n] = [user |-> user, provider |-> p, totpPending |-> pending,
                        time |-> now, from |-> from]
      /\ sessions'[n] \in Row
      /\ AgreesWith(sessions'[n], created'[n])
      /\ \A u \in DOMAIN created : created'[u] = created[u]
      /\ \A u \in DOMAIN sessions : sessions'[u] = sessions[u]
  BY CreateAdds
<1> HIDE DEF n
<1>2. Busy' = Busy /\ Uuid' = Uuid /\ Idle' = Idle
  BY DEF Busy, Uuid, LastUuid, Idle
<1>3. TypeOK'
  BY <1>1, <1>2 DEF Types, TypeOK
<1>4. created'[n] \in Login
  BY <1>1 DEF Login, Types, Histories
<1>5. \A u \in DOMAIN sessions' : AgreesWith(sessions'[u], created'[u])
  BY <1>1 DEF Types, TypeOK, Histories
<1>6. \A r \in Request : req'[r] # Idle => req'[r].uuid \in DOMAIN created'
  BY <1>1 DEF Types, Histories
<1>7. Histories'
  BY <1>1, <1>2, <1>4, <1>5, <1>6 DEF Types, Histories, AgreesWith
<1> QED
  BY <1>3, <1>7 DEF Types

LEMMA NextTyped == Types /\ [Next]_vars => Types'
<1> SUFFICES ASSUME Types, [Next]_vars
             PROVE  Types'
  OBVIOUS
<1>0. /\ UNCHANGED serial
      /\ req \in [Request -> {Idle} \cup Busy]
      /\ \A r \in Request : req[r] # Idle => req[r].uuid \in DOMAIN created
      /\ now \in Nat
  BY DEF Types, TypeOK, Histories, Next, vars
<1>1. Keeps(sessions, sessions)
  BY DEF Keeps, Types, TypeOK
<1>2. CASE UNCHANGED vars \/ Tick
  BY <1>0, <1>1, <1>2, KeepsTyped DEF vars, Tick
<1>3. CASE Restart
  <2>1. req' \in [Request -> {Idle} \cup Busy] /\ \A r \in Request : req'[r] = Idle
    BY <1>3 DEF Restart
  <2> QED
    BY <1>0, <1>1, <1>3, <2>1, KeepsTyped DEF Restart
<1>4. CASE dbCleanup
  <2>1. Keeps(sessions', sessions)
    BY <1>4 DEF dbCleanup, Without, Keeps, Types, TypeOK
  <2> QED
    BY <1>0, <1>4, <2>1, KeepsTyped DEF dbCleanup
<1>5. ASSUME NEW u \in User, NEW p \in Provider \cup {"local"}, login(u, p)
      PROVE  Types'
  <2>1. (p = "local" /\ u \in TotpUser) \in BOOLEAN
    OBVIOUS
  <2>2. \E pending \in BOOLEAN : CreateSession(u, p, pending, 0)
    BY <1>5, <2>1 DEF login
  <2> QED
    BY <1>0, <1>5, <2>2, CreateTyped DEF login
<1>6. ASSUME NEW r \in Request, NEW u \in Uuid, NEW e \in Endpoint, getSession(r, u, e)
      PROVE  Types'
  <2>1. u \in DOMAIN created
    BY <1>6 DEF getSession, Types, TypeOK
  <2>2. \A q \in Request : req'[q] # Idle => req'[q].uuid \in DOMAIN created
    BY <1>0, <1>6, <2>1, Arrives
  <2> QED
    BY <1>0, <1>1, <1>6, <2>2, Arrives, KeepsTyped DEF getSession
<1>7. ASSUME NEW r \in Request, Step(r)
      PROVE  Types'
  <2>1. \A q \in Request : req'[q] # Idle => req'[q].uuid \in DOMAIN created
    BY <1>0, <1>7, Moves DEF Busy, Idle
  <2>2. req' \in [Request -> {Idle} \cup Busy]
    BY <1>7, Moves
  <2>3. CASE \/ discard(r) \/ discardOAuth(r) \/ updateSession(r)
             \/ logout(r) \/ deletePending(r)
    <3>1. UNCHANGED <<now, created>>
      BY <2>3 DEF discard, discardOAuth, updateSession, logout, deletePending
    <3> QED
      BY <1>0, <2>1, <2>2, <2>3, <3>1, RowsKept, KeepsTyped
  <2>4. CASE provider(r) \/ refresh(r) \/ verifyTotp(r)
    BY <1>0, <1>1, <2>1, <2>2, <2>4, KeepsTyped DEF provider, refresh, verifyTotp
  <2>5. CASE createFull(r)
    <3>1. UNCHANGED now /\ \A q \in Request : req'[q] = req[q] \/ req'[q] = Idle
      BY <1>0, <2>5 DEF createFull, Goto
    <3>2. CASE UNCHANGED <<sessions, created>>
      BY <1>0, <1>1, <2>1, <2>2, <3>1, <3>2, KeepsTyped
    <3>3. CASE CreateSession(created[req[r].uuid].user, "local", FALSE, req[r].uuid)
      <4>1. req[r].uuid \in DOMAIN created /\ req[r].uuid \in Nat
        BY <1>0, <1>7, Moves DEF Busy, Idle, Uuid
      <4>2. created[req[r].uuid].user \in User
        BY <4>1 DEF Types, Histories, Login
      <4> QED
        BY <1>0, <2>2, <3>1, <3>3, <4>1, <4>2, CreateTyped
    <3> QED
      BY <2>5, <3>2, <3>3 DEF createFull
  <2> QED
    BY <1>7, <2>3, <2>4, <2>5 DEF Step
<1> QED
  BY <1>2, <1>3, <1>4, <1>5, <1>6, <1>7 DEF Next

LEMMA TypesInvariant == Spec => []Types
<1>1. Init => Types
  <2> SUFFICES ASSUME Init PROVE Types
    OBVIOUS
  <2>1. DOMAIN created = 1 .. 0 /\ DOMAIN sessions = {} /\ now = 1
    BY DEF Init
  <2>2. req \in [Request -> {Idle} \cup Busy] /\ \A r \in Request : req[r] = Idle
    BY DEF Init
  <2> QED
    BY <2>1, <2>2 DEF Init, Types, TypeOK, Histories, Numbered
<1> QED
  BY <1>1, NextTyped, PTL DEF Spec

\* The slots of the requests and the rows of the table hold what they should,
\* and every row has the login that made it, in every interleaving of the
\* requests of AuthService and its callers.
THEOREM TypeCorrect == Spec => []TypeOK
<1>1. Types => TypeOK
  BY DEF Types
<1> QED
  BY <1>1, TypesInvariant, PTL

(***************************************************************************)
(* Which steps create sessions, and who comes to hold what.                *)
(***************************************************************************)
Logs == \E u \in User, p \in Provider \cup {"local"} : login(u, p)

Completes(r) ==
    createFull(r) /\ CreateSession(created[req[r].uuid].user, "local", FALSE, req[r].uuid)

LEMMA OthersKeep ==
  ASSUME Types, [Next]_vars, ~Logs, ~\E r \in Request : Completes(r)
  PROVE  Keeps(sessions', sessions) /\ UNCHANGED created
<1>1. Keeps(sessions, sessions)
  BY DEF Keeps, Types, TypeOK
<1>2. CASE UNCHANGED <<sessions, created>>
  BY <1>1, <1>2
<1>3. CASE dbCleanup
  BY <1>3 DEF dbCleanup, Without, Keeps, Types, TypeOK
<1>4. ASSUME NEW r \in Request,
             \/ discard(r) \/ discardOAuth(r) \/ updateSession(r)
             \/ logout(r) \/ deletePending(r)
      PROVE  Keeps(sessions', sessions) /\ UNCHANGED created
  BY <1>4, RowsKept DEF discard, discardOAuth, updateSession, logout, deletePending
<1>5. ASSUME NEW r \in Request, provider(r) \/ refresh(r) \/ verifyTotp(r) \/ createFull(r)
      PROVE  UNCHANGED <<sessions, created>>
  BY <1>5 DEF provider, refresh, verifyTotp, createFull, Completes
<1> QED
  BY <1>2, <1>3, <1>4, <1>5 DEF Next, vars, Logs, Step, getSession, Tick, Restart

\* The two ways a session begins.
Adds(n) ==
    /\ n \notin DOMAIN created
    /\ DOMAIN created' = DOMAIN created \cup {n}
    /\ DOMAIN sessions' = DOMAIN sessions \cup {n}
    /\ \A u \in DOMAIN created : created'[u] = created[u]
    /\ \A u \in DOMAIN sessions : sessions'[u] = sessions[u]
    /\ sessions'[n].expiry
         = now + (IF sessions'[n].totpPending THEN Hour ELSE SessionExpiry)
    /\ sessions'[n].createdAt = now
    /\ UNCHANGED now

LEMMA LoginAdds ==
  ASSUME Types, Logs, UNCHANGED serial
  PROVE  \E n : /\ Adds(n)
                /\ created'[n].from = 0
                /\ created'[n].provider = "local" /\ created'[n].user \in TotpUser
                     => created'[n].totpPending
                /\ UNCHANGED <<req, deletes>>
<1>1. PICK u \in User, p \in Provider \cup {"local"} : login(u, p)
  BY DEF Logs
<1>2. PICK pending \in BOOLEAN : /\ pending <=> (p = "local" /\ u \in TotpUser)
                                 /\ CreateSession(u, p, pending, 0)
  <2>1. (p = "local" /\ u \in TotpUser) \in BOOLEAN
    OBVIOUS
  <2> QED
    BY <1>1, <2>1 DEF login
<1> DEFINE n == newUuid
<1>3. /\ n \notin DOMAIN created
      /\ DOMAIN created' = DOMAIN created \cup {n}
      /\ DOMAIN sessions' = DOMAIN sessions \cup {n}
      /\ created'[n] = [user |-> u, provider |-> p, totpPending |-> pending,
                        time |-> now, from |-> 0]
      /\ AgreesWith(sessions'[n], created'[n])
      /\ sessions'[n].expiry = now + (IF pending THEN Hour ELSE SessionExpiry)
      /\ \A x \in DOMAIN created : created'[x] = created[x]
      /\ \A x \in DOMAIN sessions : sessions'[x] = sessions[x]
  <2>1. 0 \in Nat
    OBVIOUS
  <2> QED
    BY <1>2, <2>1, CreateAdds, Zenon
<1> HIDE DEF n
<1>4. /\ created'[n].from = 0 /\ created'[n].provider = p /\ created'[n].user = u
      /\ created'[n].totpPending = pending /\ sessions'[n].totpPending = pending
      /\ sessions'[n].createdAt = now
  BY <1>3 DEF AgreesWith
<1>5. Adds(n)
  BY <1>1, <1>3, <1>4 DEF Adds, login
<1> QED
  BY <1>1, <1>2, <1>4, <1>5 DEF login

LEMMA CompleteAdds ==
  ASSUME Types, NEW r \in Request, Completes(r), UNCHANGED serial
  PROVE  \E n : /\ Adds(n)
                /\ created'[n].from = req[r].uuid
                /\ created'[n].user = created[req[r].uuid].user
                /\ UNCHANGED deletes
<1> DEFINE n == newUuid
           user == created[req[r].uuid].user
<1>1. req[r] \in Busy /\ req[r] # Idle
  <2>1. Step(r)
    BY DEF Completes, Step
  <2> QED
    BY <2>1, Moves DEF Busy, Idle
<1>2. req[r].uuid \in DOMAIN created /\ req[r].uuid \in Nat
  BY <1>1 DEF Types, Histories, Busy, Uuid
<1>3. user \in User
  BY <1>2 DEF Types, Histories, Login
<1>4. CreateSession(user, "local", FALSE, req[r].uuid)
  BY DEF Completes
<1> HIDE DEF user
<1>5. /\ n \notin DOMAIN created
      /\ DOMAIN created' = DOMAIN created \cup {n}
      /\ DOMAIN sessions' = DOMAIN sessions \cup {n}
      /\ created'[n] = [user |-> user, provider |-> "local", totpPending |-> FALSE,
                        time |-> now, from |-> req[r].uuid]
      /\ AgreesWith(sessions'[n], created'[n])
      /\ sessions'[n].expiry = now + SessionExpiry
      /\ \A x \in DOMAIN created : created'[x] = created[x]
      /\ \A x \in DOMAIN sessions : sessions'[x] = sessions[x]
  BY <1>2, <1>3, <1>4, CreateAdds
<1> HIDE DEF n
<1>6. Adds(n)
  <2>1. ~sessions'[n].totpPending /\ sessions'[n].createdAt = now
    BY <1>5 DEF AgreesWith
  <2> QED
    BY <1>5, <2>1 DEF Adds, Completes, createFull
<1>7. created'[n].from = req[r].uuid /\ created'[n].user = user
  BY <1>5
<1> QED
  BY <1>6, <1>7 DEF user, Completes, createFull

LEMMA SlotChange ==
  ASSUME Types, [Next]_vars, NEW q \in Request, req'[q] # req[q]
  PROVE  \/ Step(q)
         \/ \E u \in Uuid, e \in Endpoint : getSession(q, u, e)
         \/ req'[q] = Idle
<1>1. CASE Restart
  BY <1>1 DEF Restart
<1>2. ASSUME NEW r \in Request, Step(r)
      PROVE  Step(q)
  BY <1>2, Moves
<1>3. ASSUME NEW r \in Request, NEW u \in Uuid, NEW e \in Endpoint, getSession(r, u, e)
      PROVE  getSession(q, u, e)
  BY <1>3, Arrives
<1>4. CASE UNCHANGED req
  BY <1>4
<1> QED
  BY <1>1, <1>2, <1>3, <1>4 DEF Next, vars, login, dbCleanup, Tick

\* Where a step leaves its slot.
LEMMA StepTo ==
  ASSUME Types, NEW r \in Request, Step(r), req'[r] # Idle
  PROVE  /\ req'[r].at = "createFull" => deletePending(r)
         /\ req'[r].at = "deletePending" => verifyTotp(r)
         /\ req'[r].at = "updateSession" => refresh(r)
         /\ req'[r].at = "refresh" => provider(r)
         /\ req'[r].at \notin {"discard", "verifyTotp", "provider"}
<1>0. req[r] \in Busy /\ req \in [Request -> {Idle} \cup Busy]
  BY Moves DEF Types, TypeOK
<1>1. \A l : GotoAt(r, l) => req'[r].at = l
  BY <1>0 DEF GotoAt, Goto, Busy
<1>2. Goto(r, Idle) => req'[r] = Idle
  BY <1>0 DEF Goto
<1>3. Serve(r) => req'[r].at = "logout"
  BY <1>1, <1>2 DEF Serve
<1>4. refresh(r) => req'[r].at \in {"logout", "updateSession"}
  <2> SUFFICES ASSUME NEW x, Goto(r, [req[r] EXCEPT !.at = "updateSession", !.expiry = x])
               PROVE  req'[r].at = "updateSession"
    BY <1>3 DEF refresh
  <2> QED
    BY <1>0 DEF Goto, Busy
<1>5. CASE discard(r) \/ discardOAuth(r) \/ updateSession(r)
  BY <1>3, <1>5 DEF discard, discardOAuth, updateSession
<1>6. CASE provider(r)
  BY <1>1, <1>3, <1>6 DEF provider
<1>7. CASE logout(r) \/ createFull(r)
  BY <1>2, <1>7 DEF logout, createFull
<1>8. CASE verifyTotp(r)
  BY <1>1, <1>2, <1>8 DEF verifyTotp
<1>9. CASE deletePending(r)
  BY <1>1, <1>9 DEF deletePending
<1>10. CASE refresh(r)
  BY <1>4, <1>10
<1> QED
  BY <1>5, <1>6, <1>7, <1>8, <1>9, <1>10 DEF Step

\* What GetSession has checked when a request passes it.
LEMMA ArrivesChecked ==
  ASSUME Types, NEW r \in Request, NEW u \in Uuid, NEW e \in Endpoint, getSession(r, u, e)
  PROVE  /\ u \in DOMAIN sessions /\ UNCHANGED <<sessions, now, created, deletes>>
         /\ req'[r].at = "discard" => Overaged(sessions[u]) \/ Expired(sessions[u])
         /\ req'[r].at = "verifyTotp" => sessions[u].totpPending /\ ~Expired(sessions[u])
         /\ req'[r].at = "provider" => ~Overaged(sessions[u]) /\ ~sessions[u].totpPending
<1>0. req \in [Request -> {Idle} \cup Busy]
  BY DEF Types, TypeOK
<1>1. \A l : Goto(r, [at |-> l, uuid |-> u, endpoint |-> e, expiry |-> 0]) => req'[r].at = l
  BY <1>0 DEF Goto
<1> QED
  BY <1>1 DEF getSession

(***************************************************************************)
(* Deleted for good.                                                       *)
(***************************************************************************)
DeletedInv ==
    /\ \A d \in deletes : d.uuid \in DOMAIN created
    /\ DeletedForGood

LEMMA NextDeleted == Types /\ DeletedInv /\ [Next]_vars => DeletedInv'
<1> SUFFICES ASSUME Types, DeletedInv, [Next]_vars
             PROVE  DeletedInv'
  OBVIOUS
<1>0. UNCHANGED serial /\ DOMAIN sessions \subseteq DOMAIN created
  BY DEF Next, vars, Types, TypeOK
<1>1. ASSUME NEW n, Adds(n), UNCHANGED deletes
      PROVE  DeletedInv'
  BY <1>0, <1>1 DEF Adds, DeletedInv, DeletedForGood
<1>2. CASE Logs
  BY <1>0, <1>1, <1>2, LoginAdds
<1>3. CASE \E r \in Request : Completes(r)
  BY <1>0, <1>1, <1>3, CompleteAdds
<1>4. CASE ~Logs /\ ~\E r \in Request : Completes(r)
  <2>1. DOMAIN sessions' \subseteq DOMAIN sessions /\ UNCHANGED created
    BY <1>4, OthersKeep DEF Keeps
  <2>2. CASE UNCHANGED deletes
    BY <2>1, <2>2 DEF DeletedInv, DeletedForGood
  <2>3. ASSUME NEW r \in Request, logout(r) \/ deletePending(r)
        PROVE  DeletedInv'
    <3>1. req[r].uuid \in DOMAIN created
      BY <2>3, Moves DEF Step, Types, Histories, Busy, Idle
    <3>2. PICK done \in BOOLEAN :
            /\ deletes' = deletes \cup {[uuid |-> req[r].uuid, done |-> done]}
            /\ done => sessions' = Without(sessions, {req[r].uuid})
      BY <2>3 DEF logout, deletePending, DeleteSession
    <3>3. done => req[r].uuid \notin DOMAIN sessions'
      BY <3>2 DEF Without
    <3> QED
      BY <2>1, <3>1, <3>2, <3>3 DEF DeletedInv, DeletedForGood
  <2>4. ASSUME NEW r \in Request, Step(r), ~logout(r), ~deletePending(r)
        PROVE  UNCHANGED deletes
    BY <2>4 DEF Step, discard, provider, discardOAuth, refresh, updateSession, verifyTotp,
       createFull
  <2> QED
    BY <1>4, <2>2, <2>3, <2>4 DEF Next, vars, Logs, getSession, dbCleanup, Tick, Restart
<1> QED
  BY <1>2, <1>3, <1>4

LEMMA DeletedInvariant == Spec => []DeletedInv
<1>1. Init => DeletedInv
  BY DEF Init, DeletedInv, DeletedForGood
<1> QED
  BY <1>1, NextDeleted, TypesInvariant, PTL DEF Spec

\* A session that was logged out, or used up by TOTP, stays deleted
\* (DeleteSession): no request that read it before brings it back.
THEOREM DeletedStaysDeleted == Spec => []DeletedForGood
<1>1. DeletedInv => DeletedForGood
  BY DEF DeletedInv
<1> QED
  BY <1>1, DeletedInvariant, PTL

(***************************************************************************)
(* The second factor: whoever verifies or completes a TOTP login does so   *)
(* from a pending session.                                                 *)
(***************************************************************************)
Verifying(slot) == slot.at \in {"verifyTotp", "deletePending", "createFull"}

TotpInv ==
    /\ \A r \in Request : Verifying(req[r]) => created[req[r].uuid].totpPending
    /\ SecondFactorUsed

LEMMA EntersVerifying ==
  ASSUME Types, [Next]_vars, NEW q \in Request, Verifying(req'[q])
  PROVE  \/ Verifying(req[q]) /\ req'[q].uuid = req[q].uuid
         \/ \E u \in Uuid, e \in Endpoint :
              /\ getSession(q, u, e) /\ req'[q].uuid = u
              /\ u \in DOMAIN sessions /\ sessions[u].totpPending
              /\ UNCHANGED <<sessions, created, deletes>>
<1>0. ~Verifying(Idle)
  BY DEF Verifying, Idle
<1>1. CASE req'[q] = req[q]
  BY <1>1
<1>2. CASE Step(q)
  BY <1>0, <1>2, Moves, StepTo DEF Verifying, deletePending, verifyTotp
<1>3. ASSUME NEW u \in Uuid, NEW e \in Endpoint, getSession(q, u, e)
      PROVE  /\ req'[q].uuid = u /\ u \in DOMAIN sessions /\ sessions[u].totpPending
             /\ UNCHANGED <<sessions, created, deletes>>
  BY <1>3, Arrives, ArrivesChecked DEF Verifying
<1> QED
  BY <1>0, <1>1, <1>2, <1>3, SlotChange

LEMMA CreatedGrows ==
  ASSUME Types, [Next]_vars
  PROVE  /\ DOMAIN created \subseteq DOMAIN created'
         /\ \A u \in DOMAIN created : created'[u] = created[u]
<1>0. UNCHANGED serial
  BY DEF Next, vars
<1>1. CASE Logs
  BY <1>0, <1>1, LoginAdds DEF Adds
<1>2. CASE \E r \in Request : Completes(r)
  BY <1>0, <1>2, CompleteAdds DEF Adds
<1>3. CASE ~Logs /\ ~\E r \in Request : Completes(r)
  BY <1>3, OthersKeep
<1> QED
  BY <1>1, <1>2, <1>3

LEMMA NextTotp == Types /\ TotpInv /\ [Next]_vars => TotpInv'
<1> SUFFICES ASSUME Types, TotpInv, [Next]_vars
             PROVE  TotpInv'
  OBVIOUS
<1>0. /\ UNCHANGED serial
      /\ \A r \in Request : Verifying(req[r]) => req[r].uuid \in DOMAIN created
  BY DEF Next, vars, Types, Histories, Verifying, Idle
<1>1. /\ DOMAIN created \subseteq DOMAIN created'
      /\ \A u \in DOMAIN created : created'[u] = created[u]
  BY CreatedGrows
<1>2. \A q \in Request : Verifying(req'[q]) => created'[req'[q].uuid].totpPending
  <2> SUFFICES ASSUME NEW q \in Request, Verifying(req'[q])
               PROVE  created'[req'[q].uuid].totpPending
    OBVIOUS
  <2>1. CASE Verifying(req[q]) /\ req'[q].uuid = req[q].uuid
    BY <1>0, <1>1, <2>1 DEF TotpInv
  <2>2. ASSUME NEW u \in DOMAIN sessions, req'[q].uuid = u, sessions[u].totpPending
        PROVE  created'[req'[q].uuid].totpPending
    BY <1>1, <2>2 DEF Types, TypeOK, Histories, AgreesWith
  <2> QED
    BY <2>1, <2>2, EntersVerifying
<1>3. \A u \in DOMAIN created :
        /\ created'[u].provider = "local" /\ created'[u].user \in TotpUser
        /\ ~created'[u].totpPending
        => /\ created'[u].from \in DOMAIN created'
           /\ created'[created'[u].from].totpPending
           /\ created'[created'[u].from].user = created'[u].user
  BY <1>1 DEF TotpInv, SecondFactorUsed
<1>4. \A u \in DOMAIN created' \ DOMAIN created :
        /\ created'[u].provider = "local" /\ created'[u].user \in TotpUser
        /\ ~created'[u].totpPending
        => /\ created'[u].from \in DOMAIN created'
           /\ created'[created'[u].from].totpPending
           /\ created'[created'[u].from].user = created'[u].user
  <2>1. CASE Logs
    <3>1. PICK n : /\ Adds(n)
                   /\ created'[n].provider = "local" /\ created'[n].user \in TotpUser
                        => created'[n].totpPending
      BY <1>0, <2>1, LoginAdds
    <3>2. \A u \in DOMAIN created' \ DOMAIN created : u = n
      BY <3>1 DEF Adds
    <3> QED
      BY <3>1, <3>2
  <2>2. ASSUME NEW r \in Request, Completes(r)
        PROVE  \A u \in DOMAIN created' \ DOMAIN created :
                 /\ created'[u].from \in DOMAIN created'
                 /\ created'[created'[u].from].totpPending
                 /\ created'[created'[u].from].user = created'[u].user
    <3>1. PICK n : /\ Adds(n)
                   /\ created'[n].from = req[r].uuid
                   /\ created'[n].user = created[req[r].uuid].user
      BY <1>0, <2>2, CompleteAdds
    <3>2. Verifying(req[r])
      BY <2>2 DEF Completes, createFull, Verifying
    <3>3. created[req[r].uuid].totpPending /\ req[r].uuid \in DOMAIN created
      BY <1>0, <3>2 DEF TotpInv
    <3>4. created'[n].from = req[r].uuid /\ created'[req[r].uuid] = created[req[r].uuid]
      BY <1>1, <3>1, <3>3
    <3>5. \A u \in DOMAIN created' \ DOMAIN created : u = n
      BY <3>1 DEF Adds
    <3> QED
      BY <1>1, <3>1, <3>3, <3>4, <3>5
  <2>3. CASE ~Logs /\ ~\E r \in Request : Completes(r)
    BY <2>3, OthersKeep
  <2> QED
    BY <2>1, <2>2, <2>3
<1>5. SecondFactorUsed'
  BY <1>3, <1>4 DEF SecondFactorUsed
<1> QED
  BY <1>2, <1>5 DEF TotpInv, Verifying

LEMMA TotpInvariant == Spec => []TotpInv
<1>1. Init => TotpInv
  BY DEF Init, TotpInv, SecondFactorUsed, Verifying, Idle
<1> QED
  BY <1>1, NextTotp, TypesInvariant, PTL DEF Spec

\* "Maximum session lifetime in seconds": no request gets past GetSession later
\* than that after the login, however often the session was refreshed.
THEOREM LifetimeHolds == Spec => LifetimeRespected
<1>1. Types /\ [Next]_vars => [LifetimeRespectedStep]_vars
  <2> SUFFICES ASSUME Types, [Next]_vars, NEW r \in Request, SessionMaxLifetime # 0,
                      req[r] = Idle, req'[r].at = "provider"
               PROVE  now - created[req'[r].uuid].time <= SessionMaxLifetime
    BY DEF LifetimeRespectedStep
  <2>1. req'[r] # req[r] /\ req'[r] # Idle /\ ~Step(r)
    BY Moves DEF Idle, Busy
  <2>2. PICK u \in Uuid, e \in Endpoint : getSession(r, u, e)
    BY <2>1, SlotChange
  <2>3. req'[r].uuid = u /\ u \in DOMAIN sessions /\ ~Overaged(sessions[u])
    BY <2>2, Arrives, ArrivesChecked
  <2>4. sessions[u].createdAt = created[u].time /\ sessions[u].createdAt \in Nat
    BY <2>3 DEF Types, TypeOK, Histories, AgreesWith, Row
  <2> QED
    BY <2>3, <2>4, DurationsAssumption DEF Overaged, Types, Histories
<1> QED
  BY <1>1, TypesInvariant, PTL DEF Spec, LifetimeRespected

(***************************************************************************)
(* An unused session expires: what a row is refreshed to is at most two    *)
(* thresholds ahead, which is SessionExpiry or less.  That arithmetic is   *)
(* not true of an expiry between one and two hours: a session refreshed    *)
(* there lives for up to two hours from then on.                           *)
(***************************************************************************)
ThresholdFits == SessionExpiry <= Hour \/ 2 * Hour <= SessionExpiry

IdleInv ==
    /\ IdleSessionExpires
    /\ \A r \in Request :
         req[r].at = "updateSession" => req[r].expiry <= now + SessionExpiry

LEMMA TwoThresholds ==
  ASSUME ThresholdFits
  PROVE  2 * refreshThreshold <= SessionExpiry
BY DurationsAssumption DEF ThresholdFits, refreshThreshold

LEMMA TimePasses ==
  ASSUME Types, [Next]_vars
  PROVE  now \in Nat /\ now' \in Nat /\ now' >= now
<1>1. now \in Nat
  BY DEF Types, Histories
<1>2. UNCHANGED now \/ now' = now + 1
  BY DEF Next, vars, login, getSession, Step, dbCleanup, Tick, Restart, discard, provider,
     discardOAuth, refresh, updateSession, logout, verifyTotp, deletePending, createFull
<1> QED
  BY <1>1, <1>2

\* How a row comes to be as it is after a step.
LEMMA RowChange ==
  ASSUME Types, [Next]_vars, NEW u \in DOMAIN sessions'
  PROVE  \/ u \in DOMAIN sessions /\ sessions'[u] = sessions[u]
         \/ /\ u \notin DOMAIN created
            /\ sessions'[u].createdAt = now
            /\ sessions'[u].expiry
                 = now + (IF sessions'[u].totpPending THEN Hour ELSE SessionExpiry)
         \/ \E r \in Request : /\ updateSession(r) /\ u = req[r].uuid
                               /\ u \in DOMAIN sessions
                               /\ sessions'[u].totpPending = sessions[u].totpPending
                               /\ sessions'[u].expiry = req[r].expiry
<1>0. UNCHANGED serial /\ DOMAIN sessions \subseteq DOMAIN created
  BY DEF Next, vars, Types, TypeOK
<1>1. CASE Logs
  BY <1>0, <1>1, LoginAdds DEF Adds
<1>2. CASE \E r \in Request : Completes(r)
  BY <1>0, <1>2, CompleteAdds DEF Adds
<1>3. CASE UNCHANGED sessions
  BY <1>3
<1>4. CASE dbCleanup
  BY <1>4 DEF dbCleanup, Without
<1>5. ASSUME NEW r \in Request, discard(r) \/ discardOAuth(r) \/ logout(r) \/ deletePending(r)
      PROVE  u \in DOMAIN sessions /\ sessions'[u] = sessions[u]
  BY <1>5 DEF discard, discardOAuth, logout, deletePending, DeleteSession, Without
<1>6. ASSUME NEW r \in Request, updateSession(r)
      PROVE  \/ u \in DOMAIN sessions /\ sessions'[u] = sessions[u]
             \/ /\ u = req[r].uuid /\ u \in DOMAIN sessions
                /\ sessions'[u].totpPending = sessions[u].totpPending
                /\ sessions'[u].expiry = req[r].expiry
  BY <1>6 DEF updateSession, Types, TypeOK, Row
<1>7. ASSUME NEW r \in Request, provider(r) \/ refresh(r) \/ verifyTotp(r)
             \/ (createFull(r) /\ ~Completes(r))
      PROVE  UNCHANGED sessions
  BY <1>7 DEF provider, refresh, verifyTotp, createFull, Completes
<1> QED
  BY <1>1, <1>2, <1>3, <1>4, <1>5, <1>6, <1>7 DEF Next, vars, Logs, Step, getSession, Tick,
     Restart

LEMMA NextIdle ==
  ASSUME ThresholdFits
  PROVE  Types /\ IdleInv /\ [Next]_vars => IdleInv'
<1> SUFFICES ASSUME Types, IdleInv, [Next]_vars
             PROVE  IdleInv'
  OBVIOUS
<1>0. /\ now \in Nat /\ now' \in Nat /\ now' >= now /\ SessionExpiry \in Nat
      /\ req \in [Request -> {Idle} \cup Busy]
      /\ refreshThreshold \in Nat
  BY TimePasses, ThresholdTyped, DurationsAssumption DEF Types, TypeOK
<1>1. ASSUME NEW u \in DOMAIN sessions', ~sessions'[u].totpPending
      PROVE  sessions'[u].expiry <= now' + SessionExpiry
  <2>1. CASE u \in DOMAIN sessions /\ sessions'[u] = sessions[u]
    <3>1. sessions[u].expiry \in Nat
      BY <2>1 DEF Types, TypeOK, Row
    <3>2. sessions[u].expiry <= now + SessionExpiry
      BY <1>1, <2>1 DEF IdleInv, IdleSessionExpires
    <3> QED
      BY <1>0, <2>1, <3>1, <3>2
  <2>2. CASE sessions'[u].expiry = now + SessionExpiry
    BY <1>0, <2>2
  <2>3. ASSUME NEW r \in Request, updateSession(r), sessions'[u].expiry = req[r].expiry
        PROVE  sessions'[u].expiry <= now' + SessionExpiry
    <3>1. req[r] \in Busy
      BY <2>3, Moves DEF Step
    <3>2. req[r].expiry \in Nat /\ req[r].expiry <= now + SessionExpiry
      BY <2>3, <3>1 DEF Busy, IdleInv, updateSession
    <3> QED
      BY <1>0, <2>3, <3>2
  <2> QED
    BY <1>1, <2>1, <2>2, <2>3, RowChange
<1>2. ASSUME NEW r \in Request, req'[r].at = "updateSession"
      PROVE  req'[r].expiry <= now' + SessionExpiry
  <2>1. CASE req'[r] = req[r]
    <3>1. req[r] \in Busy
      BY <1>0, <1>2, <2>1 DEF Idle
    <3>2. req[r].expiry \in Nat /\ req[r].expiry <= now + SessionExpiry
      BY <1>2, <2>1, <3>1 DEF Busy, IdleInv
    <3> QED
      BY <1>0, <2>1, <3>2
  <2>2. CASE req'[r] # req[r]
    <3>1. req'[r] # Idle
      BY <1>2 DEF Idle
    <3>2. Step(r)
      BY <1>2, <2>2, <3>1, SlotChange, Arrives
    <3>3. refresh(r) /\ req[r] \in Busy
      BY <1>2, <3>1, <3>2, StepTo, Moves
    <3>4. ~Serve(r)
      BY <1>0, <1>2, <3>1, <3>3 DEF Serve, Goto, GotoAt, Busy
    <3>5. /\ req[r].uuid \in DOMAIN sessions
          /\ sessions[req[r].uuid].expiry - now <= refreshThreshold
          /\ req'[r].expiry = sessions[req[r].uuid].expiry + refreshThreshold
      <4> DEFINE x == sessions[req[r].uuid].expiry + refreshThreshold
      <4>1. /\ req[r].uuid \in DOMAIN sessions
            /\ sessions[req[r].uuid].expiry - now <= refreshThreshold
            /\ Goto(r, [req[r] EXCEPT !.at = "updateSession", !.expiry = x])
        BY <3>3, <3>4 DEF refresh
      <4> HIDE DEF x
      <4>2. req'[r].expiry = x
        BY <1>0, <3>3, <4>1 DEF Goto, Busy
      <4> QED
        BY <4>1, <4>2 DEF x
    <3>6. sessions[req[r].uuid].expiry \in Nat
      BY <3>5 DEF Types, TypeOK, Row
    <3> QED
      BY <1>0, <3>5, <3>6, TwoThresholds
  <2> QED
    BY <2>1, <2>2
<1> QED
  BY <1>1, <1>2 DEF IdleInv, IdleSessionExpires

\* "Session expiry time in seconds": a session nobody uses is over after that
\* time, whatever refreshes it has had (RefreshSession), when the expiry is at
\* most one hour or at least two.
THEOREM IdleSessionsExpire ==
  ASSUME ThresholdFits
  PROVE  Spec => []IdleSessionExpires
<1>1. Init => IdleInv
  BY DEF Init, IdleInv, IdleSessionExpires, Idle
<1>2. Spec => []IdleInv
  BY <1>1, NextIdle, TypesInvariant, PTL DEF Spec
<1>3. IdleInv => IdleSessionExpires
  BY DEF IdleInv
<1> QED
  BY <1>2, <1>3, PTL

(***************************************************************************)
(* A pending session has its hour and no more: only the sessions that pass *)
(* for full ones are refreshed.                                            *)
(***************************************************************************)
Refreshing(slot) == slot.at \in {"provider", "refresh", "updateSession"}

HourInv ==
    /\ \A u \in DOMAIN sessions :
         sessions[u].totpPending => sessions[u].expiry = created[u].time + Hour
    /\ \A r \in Request : Refreshing(req[r]) => ~created[req[r].uuid].totpPending

LEMMA EntersRefreshing ==
  ASSUME Types, [Next]_vars, NEW q \in Request, Refreshing(req'[q])
  PROVE  \/ Refreshing(req[q]) /\ req'[q].uuid = req[q].uuid
         \/ \E u \in DOMAIN sessions : /\ req'[q].uuid = u /\ ~sessions[u].totpPending
                                       /\ UNCHANGED <<sessions, created>>
<1>0. ~Refreshing(Idle)
  BY DEF Refreshing, Idle
<1>1. CASE req'[q] = req[q]
  BY <1>1
<1>2. CASE Step(q)
  <2>1. req'[q] # Idle /\ req'[q].uuid = req[q].uuid
    BY <1>0, <1>2, Moves
  <2>2. refresh(q) \/ provider(q)
    BY <1>2, <2>1, StepTo DEF Refreshing
  <2> QED
    BY <2>1, <2>2 DEF Refreshing, refresh, provider
<1>3. ASSUME NEW u \in Uuid, NEW e \in Endpoint, getSession(q, u, e)
      PROVE  /\ u \in DOMAIN sessions /\ req'[q].uuid = u /\ ~sessions[u].totpPending
             /\ UNCHANGED <<sessions, created>>
  BY <1>3, Arrives, ArrivesChecked DEF Refreshing
<1> QED
  BY <1>0, <1>1, <1>2, <1>3, SlotChange

LEMMA NextHour == Types /\ HourInv /\ [Next]_vars => HourInv'
<1> SUFFICES ASSUME Types, HourInv, [Next]_vars
             PROVE  HourInv'
  OBVIOUS
<1>1. \A u \in DOMAIN created : u \in DOMAIN created' /\ created'[u] = created[u]
  BY CreatedGrows
<1>2. ASSUME NEW u \in DOMAIN sessions', sessions'[u].totpPending
      PROVE  sessions'[u].expiry = created'[u].time + Hour
  <2>1. CASE u \in DOMAIN sessions /\ sessions'[u] = sessions[u]
    BY <1>1, <1>2, <2>1 DEF HourInv, Types, TypeOK
  <2>2. CASE sessions'[u].createdAt = now /\ sessions'[u].expiry = now + Hour
    <3>1. sessions'[u].createdAt = created'[u].time
      BY <1>2, NextTyped DEF Types, Histories, AgreesWith
    <3> QED
      BY <2>2, <3>1
  <2>3. ASSUME NEW r \in Request, updateSession(r), u = req[r].uuid, u \in DOMAIN sessions,
               sessions'[u].totpPending = sessions[u].totpPending
        PROVE  FALSE
    <3>1. ~created[u].totpPending
      BY <2>3 DEF HourInv, Refreshing, updateSession
    <3> QED
      BY <1>2, <2>3, <3>1 DEF Types, Histories, AgreesWith
  <2> QED
    BY <1>2, <2>1, <2>2, <2>3, RowChange
<1>3. ASSUME NEW q \in Request, Refreshing(req'[q])
      PROVE  ~created'[req'[q].uuid].totpPending
  <2>1. CASE Refreshing(req[q]) /\ req'[q].uuid = req[q].uuid
    <3>1. req[q].uuid \in DOMAIN created
      BY <2>1 DEF Types, Histories, Refreshing, Idle
    <3> QED
      BY <1>1, <2>1, <3>1 DEF HourInv
  <2>2. ASSUME NEW u \in DOMAIN sessions, req'[q].uuid = u, ~sessions[u].totpPending,
               UNCHANGED created
        PROVE  ~created'[req'[q].uuid].totpPending
    BY <2>2 DEF Types, Histories, AgreesWith
  <2> QED
    BY <1>3, <2>1, <2>2, EntersRefreshing
<1> QED
  BY <1>2, <1>3 DEF HourInv, Refreshing

\* "Should not allow full login with totp": a local user with TOTP has a full
\* session only from a pending session of the same user (totpHandler), and no
\* verification begins later than an hour after the password was accepted
\* (CreateSession, GetSession), however requests interleave.
THEOREM SecondFactorHolds == Spec => SecondFactorRequired
<1>1. TotpInv => SecondFactorUsed
  BY DEF TotpInv
<1>2. Types /\ HourInv /\ [Next]_vars => [VerifiesInTimeStep]_vars
  <2> SUFFICES ASSUME Types, HourInv, [Next]_vars, NEW r \in Request,
                      req[r] = Idle, req'[r].at = "verifyTotp"
               PROVE  /\ created[req'[r].uuid].totpPending
                      /\ now <= created[req'[r].uuid].time + Hour
    BY DEF VerifiesInTimeStep
  <2>1. req'[r] # req[r] /\ req'[r] # Idle /\ ~Step(r)
    BY Moves DEF Idle, Busy
  <2>2. PICK u \in Uuid, e \in Endpoint : getSession(r, u, e)
    BY <2>1, SlotChange
  <2>3. /\ req'[r].uuid = u /\ u \in DOMAIN sessions
        /\ sessions[u].totpPending /\ ~Expired(sessions[u])
    BY <2>2, Arrives, ArrivesChecked
  <2>4. created[u].totpPending /\ sessions[u].expiry = created[u].time + Hour
    BY <2>3 DEF HourInv, Types, Histories, AgreesWith
  <2>5. sessions[u].expiry \in Nat /\ now \in Nat
    BY <2>3 DEF Types, TypeOK, Histories, Row
  <2> QED
    BY <2>3, <2>4, <2>5 DEF Expired
<1>3. Init => HourInv
  BY DEF Init, HourInv, Refreshing, Idle
<1>4. Spec => []HourInv
  BY <1>3, NextHour, TypesInvariant, PTL DEF Spec
<1> QED
  BY <1>1, <1>2, <1>4, TotpInvariant, TypesInvariant, PTL DEF Spec, SecondFactorRequired

(***************************************************************************)
(* Requests that do not overlap.                                           *)
(***************************************************************************)
AloneInv == serial => \A q, r \in Request : req[q] # Idle /\ req[r] # Idle => q = r

LEMMA ActsAlone ==
  ASSUME Types, AloneInv, NEW r \in Request,
         Step(r) \/ \E u \in Uuid, e \in Endpoint : getSession(r, u, e)
  PROVE  serial => \A q \in Request \ {r} : req[q] = Idle /\ req'[q] = Idle
<1>1. CASE Step(r)
  BY <1>1, Moves DEF AloneInv, Busy, Idle
<1>2. CASE \E u \in Uuid, e \in Endpoint : getSession(r, u, e)
  BY <1>2, Arrives DEF getSession, Starts
<1> QED
  BY <1>1, <1>2

LEMMA NextAlone == Types /\ AloneInv /\ [Next]_vars => AloneInv'
<1> SUFFICES ASSUME Types, AloneInv, [Next]_vars
             PROVE  AloneInv'
  OBVIOUS
<1>1. serial' = serial
  BY DEF Next, vars
<1>2. CASE UNCHANGED req
  BY <1>1, <1>2 DEF AloneInv
<1>3. CASE \E r \in Request : \/ Step(r)
                              \/ \E u \in Uuid, e \in Endpoint : getSession(r, u, e)
  BY <1>1, <1>3, ActsAlone DEF AloneInv
<1>4. CASE Restart
  BY <1>4 DEF Restart, AloneInv
<1> QED
  BY <1>2, <1>3, <1>4 DEF Next, vars, login, dbCleanup, Tick

LEMMA AloneInvariant == Spec => []AloneInv
<1>1. Init => AloneInv
  BY DEF Init, AloneInv
<1> QED
  BY <1>1, NextAlone, TypesInvariant, PTL DEF Spec

(***************************************************************************)
(* A pending session is used once, unless its delete failed.               *)
(***************************************************************************)
Failed(p) == [uuid |-> p, done |-> FALSE] \in deletes
UsedUp(p) == p # 0 /\ \E u \in DOMAIN created : created[u].from = p

PendingInv ==
    /\ \A p \in DOMAIN sessions : UsedUp(p) => Failed(p)
    /\ \A u \in DOMAIN created : created[u].from # 0 => created[u].from \in DOMAIN created
    /\ \A r \in Request :
         req[r].at = "createFull" /\ req[r].uuid \in DOMAIN sessions => Failed(req[r].uuid)
    /\ serial => \A r \in Request :
         Verifying(req[r]) /\ UsedUp(req[r].uuid) => Failed(req[r].uuid)
    /\ PendingUsedOnce

LEMMA DeletesGrow ==
  ASSUME [Next]_vars
  PROVE  deletes \subseteq deletes'
BY DEF Next, vars, login, getSession, Step, dbCleanup, Tick, Restart, discard, provider,
   discardOAuth, refresh, updateSession, logout, verifyTotp, deletePending, createFull,
   DeleteSession

LEMMA EntersCreateFull ==
  ASSUME Types, [Next]_vars, NEW q \in Request, req'[q].at = "createFull",
         req'[q] # req[q]
  PROVE  \A p : p = req'[q].uuid /\ p \in DOMAIN sessions' => Failed(p)'
<1>1. req'[q] # Idle
  BY DEF Idle
<1>2. Step(q)
  BY <1>1, SlotChange, Arrives
<1>3. deletePending(q) /\ req'[q].uuid = req[q].uuid
  BY <1>1, <1>2, StepTo, Moves
<1>4. PICK done \in BOOLEAN :
        /\ deletes' = deletes \cup {[uuid |-> req[q].uuid, done |-> done]}
        /\ sessions' = IF done THEN Without(sessions, {req[q].uuid}) ELSE sessions
  BY <1>3 DEF deletePending, DeleteSession
<1>5. CASE done = TRUE
  BY <1>3, <1>4, <1>5 DEF Without
<1>6. CASE done = FALSE
  BY <1>3, <1>4, <1>6 DEF Failed
<1> QED
  BY <1>5, <1>6

LEMMA NextPending == Types /\ AloneInv /\ PendingInv /\ [Next]_vars => PendingInv'
<1> SUFFICES ASSUME Types, AloneInv, PendingInv, [Next]_vars
             PROVE  PendingInv'
  OBVIOUS
<1>0. /\ UNCHANGED serial /\ DOMAIN sessions \subseteq DOMAIN created
      /\ \A r \in Request : req[r].at # "idle" => req[r].uuid \in DOMAIN created
      /\ \A p : Failed(p) => Failed(p)'
  BY DeletesGrow DEF Next, vars, Types, TypeOK, Histories, Idle, Failed
<1>1. ASSUME NEW q \in Request, Verifying(req'[q])
      PROVE  \/ Verifying(req[q]) /\ req'[q].uuid = req[q].uuid
             \/ req'[q].uuid \in DOMAIN sessions
  BY <1>1, EntersVerifying
<1>2. \A u \in DOMAIN created : created[u].from # 0 => created[u].from \in DOMAIN created
  BY DEF PendingInv
<1>3. CASE Logs
  <2>1. PICK n : Adds(n) /\ created'[n].from = 0 /\ UNCHANGED <<req, deletes>>
    BY <1>0, <1>3, LoginAdds
  <2>2. \A p : (UsedUp(p)' <=> UsedUp(p)) /\ (Failed(p)' <=> Failed(p))
    BY <2>1 DEF UsedUp, Adds, Failed
  <2>3. ~UsedUp(n)
    BY <1>2, <2>1 DEF UsedUp, Adds
  <2>4. \A p \in DOMAIN sessions' : UsedUp(p)' => Failed(p)'
    BY <2>1, <2>2, <2>3 DEF PendingInv, Adds
  <2>5. \A u \in DOMAIN created' : created'[u].from # 0 => created'[u].from \in DOMAIN created'
    BY <2>1 DEF PendingInv, Adds
  <2>6. \A r \in Request : req[r].at = "createFull" /\ req[r].uuid \in DOMAIN sessions'
                             => req[r].uuid \in DOMAIN sessions
    BY <1>0, <2>1 DEF Adds
  <2>7. PendingUsedOnce'
    BY <1>0, <2>1 DEF PendingInv, PendingUsedOnce, Adds
  <2> QED
    BY <1>0, <2>1, <2>2, <2>4, <2>5, <2>6, <2>7 DEF PendingInv, Verifying
<1>4. ASSUME NEW r \in Request, Completes(r)
      PROVE  PendingInv'
  <2>1. PICK n : Adds(n) /\ created'[n].from = req[r].uuid /\ UNCHANGED deletes
    BY <1>0, <1>4, CompleteAdds
  <2>2. /\ req[r].at = "createFull" /\ Verifying(req[r]) /\ req[r].uuid \in DOMAIN created
        /\ \A q \in Request \ {r} : req'[q] = req[q]
        /\ req'[r] = Idle
        /\ serial => \A q \in Request : req'[q] = Idle
    <3>1. Step(r) /\ Goto(r, Idle) /\ req[r].at = "createFull"
      BY <1>4 DEF Completes, Step, createFull
    <3>2. req[r].uuid \in DOMAIN created /\ Verifying(req[r])
      BY <1>0, <3>1 DEF Verifying
    <3>3. req'[r] = Idle
      BY <3>1 DEF Goto, Types, TypeOK
    <3> QED
      BY <3>1, <3>2, <3>3, Moves, ActsAlone
  <2>3. \A p : (UsedUp(p)' => UsedUp(p) \/ p = req[r].uuid) /\ (Failed(p)' <=> Failed(p))
    BY <2>1 DEF UsedUp, Adds, Failed
  <2>4. ~UsedUp(n) /\ n # req[r].uuid
    BY <1>2, <2>1, <2>2 DEF UsedUp, Adds
  <2>5. \A p \in DOMAIN sessions' : UsedUp(p)' => Failed(p)'
    BY <2>1, <2>2, <2>3, <2>4 DEF PendingInv, Adds
  <2>6. \A u \in DOMAIN created' : created'[u].from # 0 => created'[u].from \in DOMAIN created'
    BY <2>1, <2>2 DEF PendingInv, Adds
  <2>7. \A q \in Request : req'[q].at = "createFull" /\ req'[q].uuid \in DOMAIN sessions'
          => req'[q] = req[q] /\ req[q].uuid \in DOMAIN sessions
    BY <1>0, <2>1, <2>2 DEF Adds, Idle
  <2>8. PendingUsedOnce'
    <3> SUFFICES ASSUME serial, NEW u \in DOMAIN created', NEW v \in DOMAIN created',
                        created'[u].from # 0, created'[u].from = created'[v].from, u # v
                 PROVE  Failed(created'[u].from)
      BY <1>0, <2>1 DEF PendingUsedOnce, Failed
    <3>1. CASE u \in DOMAIN created /\ v \in DOMAIN created
      BY <2>1, <3>1 DEF PendingInv, PendingUsedOnce, Adds, Failed
    <3>2. CASE u = n \/ v = n
      <4>1. created'[u].from = req[r].uuid /\ UsedUp(req[r].uuid)
        BY <2>1, <3>2 DEF UsedUp, Adds
      <4> QED
        BY <2>2, <4>1 DEF PendingInv
    <3> QED
      BY <2>1, <3>1, <3>2 DEF Adds
  <2>9. \A q \in Request : serial' => ~Verifying(req'[q])
    BY <1>0, <2>2 DEF Verifying, Idle
  <2> QED
    BY <2>3, <2>5, <2>6, <2>7, <2>8, <2>9 DEF PendingInv, Verifying
<1>5. CASE ~Logs /\ ~\E r \in Request : Completes(r)
  <2>1. DOMAIN sessions' \subseteq DOMAIN sessions /\ UNCHANGED created
    BY <1>5, OthersKeep DEF Keeps
  <2>2. \A p : UsedUp(p)' <=> UsedUp(p)
    BY <2>1 DEF UsedUp
  <2>3. \A q \in Request : \A p :
          req'[q].at = "createFull" /\ p = req'[q].uuid /\ p \in DOMAIN sessions' => Failed(p)'
    BY <1>0, <2>1, EntersCreateFull DEF PendingInv
  <2>4. serial => \A q \in Request : \A p :
          Verifying(req'[q]) /\ p = req'[q].uuid /\ UsedUp(p) => Failed(p)
    BY <1>1 DEF PendingInv
  <2>5. PendingUsedOnce'
    BY <1>0, <2>1 DEF PendingInv, PendingUsedOnce, Failed
  <2> QED
    BY <1>0, <2>1, <2>2, <2>3, <2>4, <2>5 DEF PendingInv, Verifying
<1> QED
  BY <1>3, <1>4, <1>5

\* totpHandler deletes the pending session before it creates the full one: as
\* long as requests do not overlap, a second full session from the same
\* pending one takes a delete that failed.
THEOREM PendingSpentOnce == Spec => []PendingUsedOnce
<1>1. Init => PendingInv
  BY DEF Init, PendingInv, PendingUsedOnce, Verifying, Idle
<1>2. PendingInv => PendingUsedOnce
  BY DEF PendingInv
<1> QED
  BY <1>1, <1>2, NextPending, TypesInvariant, AloneInvariant, PTL DEF Spec

(***************************************************************************)
(* GetSession discards dead sessions only.                                 *)
(***************************************************************************)
DeadInv ==
    serial =>
      \A r \in Request : req[r].at = "discard" /\ req[r].uuid \in DOMAIN sessions =>
        Expired(sessions[req[r].uuid]) \/ Overaged(sessions[req[r].uuid])

LEMMA NextDead == Types /\ AloneInv /\ DeadInv /\ [Next]_vars => DeadInv'
<1> SUFFICES ASSUME Types, AloneInv, DeadInv, [Next]_vars, serial, NEW r \in Request,
                    req'[r].at = "discard", req'[r].uuid \in DOMAIN sessions'
             PROVE  (Expired(sessions[req[r].uuid]) \/ Overaged(sessions[req[r].uuid]))'
  BY DEF DeadInv, Next, vars
<1>0. /\ now \in Nat /\ now' \in Nat /\ now' >= now /\ SessionMaxLifetime \in Nat
      /\ req'[r] # Idle
  BY TimePasses, DurationsAssumption DEF Idle
<1>1. CASE req'[r] = req[r]
  <2>1. req[r].uuid \in DOMAIN created
    BY <1>0, <1>1 DEF Types, Histories
  <2>2. ~\E q \in Request : updateSession(q)
    <3> SUFFICES ASSUME NEW q \in Request, updateSession(q)
                 PROVE  FALSE
      OBVIOUS
    <3>1. q # r
      BY <1>1 DEF updateSession
    <3>2. req[r] = Idle
      BY <3>1, ActsAlone DEF Step
    <3> QED
      BY <1>0, <1>1, <3>2
  <2>3. req[r].uuid \in DOMAIN sessions /\ sessions'[req[r].uuid] = sessions[req[r].uuid]
    BY <1>1, <2>1, <2>2, RowChange
  <2>4. Expired(sessions[req[r].uuid]) \/ Overaged(sessions[req[r].uuid])
    BY <1>1, <2>3 DEF DeadInv
  <2>5. sessions[req[r].uuid].expiry \in Nat /\ sessions[req[r].uuid].createdAt \in Nat
    BY <2>3 DEF Types, TypeOK, Row
  <2> QED
    BY <1>0, <1>1, <2>3, <2>4, <2>5 DEF Expired, Overaged
<1>2. CASE req'[r] # req[r]
  <2>1. ~Step(r)
    BY <1>0, StepTo
  <2>2. PICK u \in Uuid, e \in Endpoint : getSession(r, u, e)
    BY <1>0, <1>2, <2>1, SlotChange
  <2>3. /\ req'[r].uuid = u /\ UNCHANGED <<sessions, now>>
        /\ Overaged(sessions[u]) \/ Expired(sessions[u])
    BY <2>2, Arrives, ArrivesChecked
  <2> QED
    BY <2>3 DEF Expired, Overaged
<1> QED
  BY <1>1, <1>2

\* GetSession deletes what it has found expired and no session refreshed since,
\* as long as requests do not overlap.
THEOREM DiscardsDeadOnly == Spec => DiscardsOnlyDead
<1>1. Init => DeadInv
  BY DEF Init, DeadInv, Idle
<1>2. Spec => []DeadInv
  BY <1>1, NextDead, TypesInvariant, AloneInvariant, PTL DEF Spec
<1>3. Types /\ AloneInv /\ DeadInv /\ [Next]_vars => [DiscardsOnlyDeadStep]_vars
  <2> SUFFICES ASSUME Types, AloneInv, DeadInv, [Next]_vars, NEW r \in Request, serial,
                      req[r].at = "discard", req'[r] # req[r],
                      NEW u \in DOMAIN sessions \ DOMAIN sessions'
               PROVE  Expired(sessions[u]) \/ Overaged(sessions[u])
    BY DEF DiscardsOnlyDeadStep
  <2>1. CASE discard(r)
    <3>1. u = req[r].uuid
      BY <2>1 DEF discard, Without
    <3> QED
      BY <3>1 DEF DeadInv
  <2>2. req[r] # Idle /\ ~Restart
    BY DEF Idle, Restart
  <2>3. Step(r)
    <3>1. CASE \E q \in Request : Step(q)
      BY <3>1, Moves
    <3>2. CASE \E q \in Request, v \in Uuid, e \in Endpoint : getSession(q, v, e)
      BY <3>2 DEF getSession
    <3> QED
      BY <2>2, <3>1, <3>2 DEF Next, vars, login, dbCleanup, Tick
  <2> QED
    BY <2>1, <2>3 DEF Step, provider, discardOAuth, refresh, updateSession, logout,
       verifyTotp, deletePending, createFull
<1> QED
  BY <1>2, <1>3, TypesInvariant, AloneInvariant, PTL DEF Spec, DiscardsOnlyDead
=============================================================================
