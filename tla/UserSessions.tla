---------------------------- MODULE UserSessions ----------------------------
(***************************************************************************)
(* Login sessions: the table sessions, CreateSession, GetSession,          *)
(* RefreshSession and DeleteSession of AuthService (internal/service/      *)
(* auth_service.go), the cookie path of the context middleware, the login, *)
(* TOTP and logout handlers, and the cleanup of the table.                 *)
(*                                                                         *)
(* A request carries a cookie and heads for an endpoint.  The middleware   *)
(* reads the session, checks its provider, reads it again to refresh it    *)
(* and updates it; then the endpoint runs.  Each statement on the table is *)
(* atomic, nothing spans two of them, and each may fail.  Requests that    *)
(* end before they change anything (no cookie, unknown session, wrong      *)
(* password, failing first statement) have no step.  Sessions are          *)
(* numbered: a random uuid does not repeat.  Time starts at 1, as the code *)
(* takes createdAt = 0 for a row older than that column.                   *)
(***************************************************************************)
EXTENDS Integers, FiniteSets

CONSTANTS User,
          TotpUser,         \* local users with a TOTP secret
          Provider,         \* providers besides "local" that users come from
          Request,          \* slots for requests handled at the same time
          SessionExpiry,    \* config.Auth.SessionExpiry
          SessionMaxLifetime, \* config.Auth.SessionMaxLifetime, 0 for none
          Hour,             \* 3600 seconds
          MaxSessions, MaxTime, \* bounds
          MaxSerialSessions, MaxSerialTime \* bounds when requests do not overlap

ASSUME DurationsAssumption ==
    {SessionExpiry, SessionMaxLifetime, Hour} \subseteq Nat
\* Setup refuses any other configuration (app_bootstrap.go).
ASSUME LifetimeAssumption ==
    SessionMaxLifetime # 0 => SessionMaxLifetime >= SessionExpiry
ASSUME BoundsAssumption ==
    {MaxSessions, MaxTime, MaxSerialSessions, MaxSerialTime} \subseteq Nat
ASSUME UsersAssumption == TotpUser \subseteq User /\ "local" \notin Provider

VARIABLES
    sessions,   \* table sessions: uuid -> row
    req,        \* the request in each slot
    serial,     \* fixed from the start: does each request wait for the last?
    now,
    created,    \* history: uuid -> who logged in, when and how
    deletes     \* history: the outcome of each logout's and verification's delete

vars == <<sessions, req, serial, now, created, deletes>>

LastUuid == IF serial THEN MaxSerialSessions ELSE MaxSessions
Uuid == 1 .. LastUuid
Endpoint == {"any", "totp", "logout"}

Row == [user : User, provider : Provider \cup {"local"}, totpPending : BOOLEAN,
        expiry : Nat, createdAt : Nat]

With(m, k, e) == [x \in DOMAIN m \cup {k} |-> IF x = k THEN e ELSE m[x]]
Without(m, S) == [x \in DOMAIN m \ S |-> m[x]]

Idle == [at |-> "idle"]
Goto(r, slot) == req' = [req EXCEPT ![r] = slot]
GotoAt(r, label) == Goto(r, [req[r] EXCEPT !.at = label])

\* A request arrives in slot r.
Starts(r) ==
    /\ req[r] = Idle
    /\ serial => \A q \in Request : req[q] = Idle

Init ==
    /\ sessions = [u \in {} |-> 0]
    /\ req = [r \in Request |-> Idle]
    /\ serial \in BOOLEAN
    /\ now = 1
    /\ created = [u \in {} |-> 0]
    /\ deletes = {}

-----------------------------------------------------------------------------
(* CreateSession and the handlers that start with it.                      *)

newUuid == Cardinality(DOMAIN created) + 1

\* "from" is the pending session that a TOTP verification started from.
CreateSession(user, provider, totpPending, from) ==
    /\ newUuid <= LastUuid
    /\ sessions' = With(sessions, newUuid,
         [user |-> user, provider |-> provider, totpPending |-> totpPending,
          expiry |-> now + (IF totpPending THEN Hour ELSE SessionExpiry),
          createdAt |-> now])
    /\ created' = With(created, newUuid,
         [user |-> user, provider |-> provider, totpPending |-> totpPending,
          time |-> now, from |-> from])

\* loginHandler after the password was accepted, and the OAuth and Tailscale
\* logins: a session, pending for a local user with TOTP.
login(user, provider) ==
    /\ CreateSession(user, provider, provider = "local" /\ user \in TotpUser, 0)
    /\ UNCHANGED <<req, now, deletes>>

-----------------------------------------------------------------------------
(* ContextMiddleware.cookieAuth.                                           *)

Overaged(row) ==
    SessionMaxLifetime # 0 /\ now - row.createdAt > SessionMaxLifetime
Expired(row) == now > row.expiry

\* What the endpoint does for an authenticated session or for none: logout
\* goes by the cookie alone, and TOTP wants a pending session.
Serve(r) == IF req[r].endpoint = "logout" THEN GotoAt(r, "logout")
                                            ELSE Goto(r, Idle)

\* Mutant: totpHandler takes any session for a pending one.
getAnySession(r, uuid, endpoint) ==
    /\ Starts(r)
    /\ uuid \in DOMAIN sessions
    /\ LET row == sessions[uuid]
           slot(label) == [at |-> label, uuid |-> uuid, endpoint |-> endpoint,
                           expiry |-> 0]
       IN  Goto(r, slot(IF Overaged(row) \/ Expired(row) THEN "discard"
                        ELSE IF endpoint = "totp" THEN "verifyTotp" ELSE "provider"))
    /\ UNCHANGED <<sessions, now, created, deletes>>

\* GetSession, and the branch on a pending TOTP session.
getSession(r, uuid, endpoint) ==
    /\ Starts(r)
    /\ uuid \in DOMAIN sessions
    /\ LET row == sessions[uuid]
           slot(label) == [at |-> label, uuid |-> uuid, endpoint |-> endpoint,
                           expiry |-> 0]
       IN  \/ /\ Overaged(row) \/ Expired(row)
              /\ Goto(r, slot("discard"))
           \/ /\ ~Overaged(row) /\ ~Expired(row) /\ row.totpPending
              /\ endpoint # "any"
              /\ Goto(r, slot(IF endpoint = "totp" THEN "verifyTotp" ELSE "logout"))
           \/ /\ ~Overaged(row) /\ ~Expired(row) /\ ~row.totpPending
              /\ Goto(r, slot("provider"))
    /\ UNCHANGED <<sessions, now, created, deletes>>

\* Mutant: all sessions of the user go.
discardAllOfUser(r) ==
    /\ req[r].at = "discard"
    /\ sessions' = Without(sessions, {u \in DOMAIN sessions :
                                       created[u].user = created[req[r].uuid].user})
    /\ Serve(r)
    /\ UNCHANGED <<now, created, deletes>>

\* GetSession deletes the session it has found past its time.
discard(r) ==
    /\ req[r].at = "discard"
    /\ sessions' \in {Without(sessions, {req[r].uuid}), sessions}
    /\ Serve(r)
    /\ UNCHANGED <<now, created, deletes>>

\* The provider's say: the local user exists; the directory, Tailscale or the
\* list of OAuth providers knows the user, or does not, or fails.
provider(r) ==
    /\ req[r].at = "provider"
    /\ \/ GotoAt(r, "refresh")
       \/ created[req[r].uuid].provider # "local" /\ Serve(r)
       \/ created[req[r].uuid].provider = "oauth" /\ GotoAt(r, "discardOAuth")
    /\ UNCHANGED <<sessions, now, created, deletes>>

\* DeleteSession of a user whose e-mail address is not whitelisted any more.
discardOAuth(r) ==
    /\ req[r].at = "discardOAuth"
    /\ sessions' \in {Without(sessions, {req[r].uuid}), sessions}
    /\ Serve(r)
    /\ UNCHANGED <<now, created, deletes>>

\* Mutant: the threshold of long sessions for short ones too.
longThreshold == Hour
refreshThreshold == IF SessionExpiry <= Hour THEN SessionExpiry \div 2 ELSE Hour

\* Mutant: the subtraction is swapped.
refreshSwapped(r) ==
    /\ req[r].at = "refresh"
    /\ req[r].uuid \in DOMAIN sessions
    /\ Goto(r, [req[r] EXCEPT !.at = "updateSession",
                              !.expiry = now - sessions[req[r].uuid].expiry])
    /\ UNCHANGED <<sessions, now, created, deletes>>

\* RefreshSession reads the row again ...
refresh(r) ==
    /\ req[r].at = "refresh"
    /\ LET uuid == req[r].uuid IN
         \/ Serve(r)   \* the statement fails, the row is gone, or it is too early
         \/ /\ uuid \in DOMAIN sessions
            /\ sessions[uuid].expiry - now <= refreshThreshold
            /\ Goto(r, [req[r] EXCEPT !.at = "updateSession",
                          !.expiry = sessions[uuid].expiry + refreshThreshold])
    /\ UNCHANGED <<sessions, now, created, deletes>>

\* Mutant: the row is inserted or replaced.
replaceSession(r) ==
    /\ req[r].at = "updateSession"
    /\ LET c == created[req[r].uuid] IN
         sessions' = With(sessions, req[r].uuid,
           [user |-> c.user, provider |-> c.provider, totpPending |-> c.totpPending,
            expiry |-> req[r].expiry, createdAt |-> now])
    /\ Serve(r)
    /\ UNCHANGED <<now, created, deletes>>

\* ... and UpdateSession writes the new expiry, if the row is still there.
updateSession(r) ==
    /\ req[r].at = "updateSession"
    /\ \/ UNCHANGED sessions
       \/ /\ req[r].uuid \in DOMAIN sessions
          /\ sessions' = [sessions EXCEPT ![req[r].uuid].expiry = req[r].expiry]
    /\ Serve(r)
    /\ UNCHANGED <<now, created, deletes>>

-----------------------------------------------------------------------------
(* The endpoints that change sessions.                                     *)

\* DeleteSession logs a failing statement and reports success.
DeleteSession(uuid) ==
    \E done \in BOOLEAN :
      /\ deletes' = deletes \cup {[uuid |-> uuid, done |-> done]}
      /\ sessions' = IF done THEN Without(sessions, {uuid}) ELSE sessions

\* logoutHandler, which goes by the cookie alone.
logout(r) ==
    /\ req[r].at = "logout"
    /\ DeleteSession(req[r].uuid)
    /\ Goto(r, Idle)
    /\ UNCHANGED <<now, created>>

\* totpHandler: the code is checked ...
verifyTotp(r) ==
    /\ req[r].at = "verifyTotp"
    /\ \/ GotoAt(r, "deletePending")
       \/ Goto(r, Idle)
    /\ UNCHANGED <<sessions, now, created, deletes>>

\* Mutant: the pending session is left to expire.
pendingKept(r) ==
    /\ req[r].at = "deletePending"
    /\ GotoAt(r, "createFull")
    /\ UNCHANGED <<sessions, deletes, now, created>>

\* ... the pending session is deleted ...
deletePending(r) ==
    /\ req[r].at = "deletePending"
    /\ DeleteSession(req[r].uuid)
    /\ GotoAt(r, "createFull")
    /\ UNCHANGED <<now, created>>

\* ... and a session without the flag is created.
createFull(r) ==
    /\ req[r].at = "createFull"
    /\ \/ CreateSession(created[req[r].uuid].user, "local", FALSE, req[r].uuid)
       \/ UNCHANGED <<sessions, created>>
    /\ Goto(r, Idle)
    /\ UNCHANGED <<now, deletes>>

-----------------------------------------------------------------------------

\* dbCleanupRoutine: DeleteExpiredSessions, one statement.
dbCleanup ==
    /\ sessions' = Without(sessions, {u \in DOMAIN sessions : sessions[u].expiry < now})
    /\ UNCHANGED <<req, now, created, deletes>>

Tick ==
    /\ now < (IF serial THEN MaxSerialTime ELSE MaxTime)
    /\ now' = now + 1
    /\ UNCHANGED <<sessions, req, created, deletes>>

\* The process stops and starts again over the same table.
Restart ==
    /\ req # [r \in Request |-> Idle]
    /\ req' = [r \in Request |-> Idle]
    /\ UNCHANGED <<sessions, now, created, deletes>>

Step(r) ==
    \/ discard(r) \/ provider(r) \/ discardOAuth(r)
    \/ refresh(r) \/ updateSession(r)
    \/ logout(r)
    \/ verifyTotp(r) \/ deletePending(r) \/ createFull(r)

Next ==
    /\ \/ \E u \in User, p \in Provider \cup {"local"} : login(u, p)
       \/ \E r \in Request, u \in Uuid, e \in Endpoint : getSession(r, u, e)
       \/ \E r \in Request : Step(r)
       \/ dbCleanup
       \/ Tick
       \/ Restart
    /\ UNCHANGED serial

Spec == Init /\ [][Next]_vars

-----------------------------------------------------------------------------
(* Properties.                                                             *)

Busy == [at : {"discard", "discardOAuth", "provider", "refresh", "updateSession",
               "logout", "verifyTotp", "deletePending", "createFull"},
         uuid : Uuid, endpoint : Endpoint, expiry : Nat]

\* Every slot holds what a request at that point remembers; every row has its
\* type and the login that made it.
TypeOK ==
    /\ serial \in BOOLEAN
    /\ DOMAIN sessions \subseteq DOMAIN created
    /\ DOMAIN created \subseteq Uuid
    /\ \A u \in DOMAIN sessions : sessions[u] \in Row
    /\ req \in [Request -> {Idle} \cup Busy]

\* A session that was logged out, or used up by TOTP, stays deleted: requests
\* that read it before and refresh it after do not bring it back.
DeletedForGood == \A d \in deletes : d.done => d.uuid \notin DOMAIN sessions

\* "Maximum session lifetime in seconds" (config.go): however often and from
\* however many requests a session is refreshed, no request gets past
\* GetSession later than that after the login.
LifetimeRespectedStep ==
    \A r \in Request :
      /\ SessionMaxLifetime # 0
      /\ req[r] = Idle /\ req'[r].at = "provider"
      => now - created[req'[r].uuid].time <= SessionMaxLifetime
LifetimeRespected == [][LifetimeRespectedStep]_vars

\* "Session expiry time in seconds" (config.go): a session nobody uses any
\* more is over after that time, whatever refreshes it has had.
IdleSessionExpires ==
    \A u \in DOMAIN sessions :
      ~sessions[u].totpPending => sessions[u].expiry <= now + SessionExpiry

SecondFactorUsed ==
    \A u \in DOMAIN created :
      /\ created[u].provider = "local" /\ created[u].user \in TotpUser
      /\ ~created[u].totpPending
      => LET from == created[u].from
         IN  /\ from \in DOMAIN created
             /\ created[from].totpPending
             /\ created[from].user = created[u].user
VerifiesInTimeStep ==
    \A r \in Request :
      req[r] = Idle /\ req'[r].at = "verifyTotp" =>
        LET pending == created[req'[r].uuid]
        IN  pending.totpPending /\ now <= pending.time + Hour

\* "Should not allow full login with totp" (user_controller_test.go): a local
\* user with TOTP has a full session only from a pending session of the same
\* user, and no verification begins later than an hour after the password was
\* accepted: nothing that requests do to the session in between, refreshes
\* included, gives it more time or makes it a full one.
SecondFactorRequired == []SecondFactorUsed /\ [][VerifiesInTimeStep]_vars

\* totpHandler deletes the pending session before it creates the full one: a
\* second full session from the same pending one takes a delete that failed,
\* or a verification that overlaps the first.
PendingUsedOnce ==
    serial => \A u, v \in DOMAIN created :
      created[u].from # 0 /\ created[u].from = created[v].from /\ u # v
        => [uuid |-> created[u].from, done |-> FALSE] \in deletes

\* GetSession deletes what it has found expired, and no session that has been
\* refreshed since, as long as the requests of a session do not overlap.
DiscardsOnlyDeadStep ==
    \A r \in Request :
      serial /\ req[r].at = "discard" /\ req'[r] # req[r] =>
        \A u \in DOMAIN sessions \ DOMAIN sessions' :
          Expired(sessions[u]) \/ Overaged(sessions[u])
DiscardsOnlyDead == [][DiscardsOnlyDeadStep]_vars
=============================================================================
