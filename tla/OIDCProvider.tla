---------------------------- MODULE OIDCProvider ----------------------------
(***************************************************************************)
(* tinyauth as an OpenID Connect provider: OIDCController and OIDCService  *)
(* (internal/controller/oidc_controller.go, internal/service/              *)
(* oidc_service.go) over the table oidc_sessions.                          *)
(*                                                                         *)
(* HTTP handlers run concurrently and share three in-memory caches and the *)
(* table; nothing spans two accesses.  A request in flight occupies a slot *)
(* of Request, and each access of its handler to shared state is a step of *)
(* its own, with what the handler remembers between them in the slot.  The *)
(* caches are the bounded maps that CacheStore is shown to implement.      *)
(*                                                                         *)
(* A code, a ticket and a pair of access and refresh tokens are numbers    *)
(* given out in order: GenerateString(32) does not repeat.  A code also    *)
(* names the authorization it stands for (scope, nonce, userinfo) in the   *)
(* rows made from it.  Any statement on the table may fail.  Requests that *)
(* are refused before they touch shared state (bad credentials, unknown    *)
(* client, failed binding, failing first statement) have no step.          *)
(***************************************************************************)
EXTENDS Integers, FiniteSets

CONSTANTS User, Client,
          Request,          \* slots for handlers that run at the same time
          CacheSize,        \* capacity of each cache (256 in the source)
          CodeTtl, UsedTtl, TicketTtl,   \* 1, 2 and 10 minutes in the source
          SessionExpiry,    \* config.Auth.SessionExpiry
          Never,            \* BoundedMap's mark for "no expiry"
          MaxTickets, MaxCodes, MaxGrants, MaxTime, MaxRestarts, \* bounds
          MaxOverlapGrants, MaxOverlapTime  \* bounds when requests overlap

ASSUME DurationsAssumption ==
    /\ {CacheSize, CodeTtl, UsedTtl, TicketTtl, SessionExpiry} \subseteq Nat
    /\ CodeTtl > 0 /\ UsedTtl > 0 /\ TicketTtl > 0
ASSUME NeverAssumption == Never \notin Nat
ASSUME BoundsAssumption ==
    /\ {MaxTickets, MaxCodes, MaxGrants, MaxTime, MaxRestarts,
        MaxOverlapGrants, MaxOverlapTime} \subseteq Nat
    /\ MaxOverlapGrants <= MaxGrants

VARIABLES
    tickets,    \* caches.authorize: ticket -> the client that asked
    codes,      \* caches.code: code -> user and client
    used,       \* caches.usedCode: code -> sub
    sessions,   \* table oidc_sessions: sub -> row
    req,        \* the handler running in each slot
    serial,     \* fixed from the start: does each request wait for the last?
    now,
    nextTicket, nextGrant, restarts,
    issued,     \* history: code -> who consented to what, and when
    grants,     \* history: token pair -> what it was given out for
    reused,     \* history: codes whose reuse was answered with invalid_grant
    revoked     \* history: authorizations whose row was deleted on purpose

history == <<issued, grants, reused, revoked>>
caches == <<tickets, codes, used>>
counters == <<nextTicket, nextGrant, restarts>>
vars == <<tickets, codes, used, sessions, req, serial, now, nextTicket, nextGrant,
          restarts, issued, grants, reused, revoked>>

Ticket == 1 .. MaxTickets
Code == 1 .. MaxCodes
Grant == 1 .. MaxGrants

\* CreateSub: a uuid of "username:client".
Sub == User \X Client

T == INSTANCE BoundedMap WITH live <- tickets, Key <- Ticket, Value <- Client,
                              Ttl <- {TicketTtl}, MaxSize <- CacheSize
C == INSTANCE BoundedMap WITH live <- codes, Key <- Code, Value <- Sub,
                              Ttl <- {CodeTtl}, MaxSize <- CacheSize
U == INSTANCE BoundedMap WITH live <- used, Key <- Code, Value <- Sub,
                              Ttl <- {UsedTtl}, MaxSize <- CacheSize

Empty == [x \in {} |-> Never]
With(m, k, e) == [x \in DOMAIN m \cup {k} |-> IF x = k THEN e ELSE m[x]]
Without(m, S) == [x \in DOMAIN m \ S |-> m[x]]

Idle == [at |-> "idle"]
nextCode == Cardinality(DOMAIN issued) + 1

\* A handler starts in slot r.
Starts(r) ==
    /\ req[r] = Idle
    /\ serial => \A q \in Request : req[q] = Idle

Init ==
    /\ tickets = Empty /\ codes = Empty /\ used = Empty
    /\ sessions = Empty
    /\ req = [r \in Request |-> Idle]
    /\ serial \in BOOLEAN
    /\ now = 0 /\ nextTicket = 1 /\ nextGrant = 1 /\ restarts = 0
    /\ issued = Empty /\ grants = Empty /\ reused = {} /\ revoked = {}

-----------------------------------------------------------------------------
(* /authorize and /api/oidc/authorize-complete                             *)

\* The authorize handler for a valid request: CreateAuthorizeRequestTicket.
authorize(c) ==
    /\ nextTicket <= MaxTickets
    /\ T!Put(nextTicket, c, TicketTtl)
    /\ nextTicket' = nextTicket + 1
    /\ UNCHANGED <<codes, used, sessions, req, nextGrant, restarts, history>>

\* authorizeComplete of a logged-in user: GetAuthorizeRequestByTicket ...
completeRead(r, u, t) ==
    /\ Starts(r)
    /\ t \in DOMAIN tickets
    /\ req' = [req EXCEPT ![r] = [at |-> "deleteTicket", ticket |-> t,
                                  sub |-> <<u, tickets[t].value>>]]
    /\ UNCHANGED <<caches, sessions, now, counters, history>>

\* Mutant: the ticket is left to expire.
ticketKept(t) == UNCHANGED <<tickets, now>>
DeleteAuthorizeRequestTicket(t) == T!Remove(t)

\* ... "We no longer need the ticket" ...
completeDeleteTicket(r) ==
    /\ req[r].at = "deleteTicket"
    /\ DeleteAuthorizeRequestTicket(req[r].ticket)
    /\ req' = [req EXCEPT ![r].at = "deleteOldSession"]
    /\ UNCHANGED <<codes, used, sessions, counters, history>>

\* Mutant: the deletion is reported and not done.
revokeNothing(sub) ==
    /\ sessions' = sessions
    /\ revoked' = revoked \cup {sessions[s].code : s \in DOMAIN sessions \cap {sub}}

\* DeleteOldSession and DeleteSessionBySub, when the statement succeeds.
DeleteSessionBySub(sub) ==
    /\ sessions' = Without(sessions, {sub})
    /\ revoked' = revoked \cup {sessions[s].code : s \in DOMAIN sessions \cap {sub}}

\* ... DeleteOldSession (a failing delete ends the request) ...
completeDeleteOldSession(r) ==
    /\ req[r].at = "deleteOldSession"
    /\ \/ /\ DeleteSessionBySub(req[r].sub)
          /\ req' = [req EXCEPT ![r].at = "createCode"]
       \/ /\ UNCHANGED <<sessions, revoked>>
          /\ req' = [req EXCEPT ![r] = Idle]
    /\ UNCHANGED <<caches, now, counters, issued, grants, reused>>

\* ... CreateCode.
completeCreateCode(r) ==
    /\ req[r].at = "createCode"
    /\ nextCode <= MaxCodes
    /\ C!Put(nextCode, req[r].sub, CodeTtl)
    /\ issued' = With(issued, nextCode, [sub |-> req[r].sub, time |-> now,
                                         ticket |-> req[r].ticket])
    /\ req' = [req EXCEPT ![r] = Idle]
    /\ UNCHANGED <<tickets, used, sessions, counters, grants, reused, revoked>>

-----------------------------------------------------------------------------
(* /api/oidc/token, grant_type authorization_code                          *)

\* Mutant: a code works for every client.
takesAnyCode(code, c) == code \in DOMAIN codes

\* GetCodeEntry: found and of this client, then deleted, under one lock.
TakesCode(code, c) == code \in DOMAIN codes /\ codes[code].value[2] = c

\* Mutant: the code stays in the cache until it expires.
codeKept(code) == UNCHANGED <<codes, now>>
DeleteCode(code) == C!Remove(code)

\* "valid" is whether the redirect uri and the PKCE verifier match the code.
exchangeTake(r, c, code, valid) ==
    /\ Starts(r)
    /\ code \in DOMAIN issued
    /\ \/ /\ TakesCode(code, c)
          /\ DeleteCode(code)
          /\ req' = [req EXCEPT ![r] =
                       [at |-> "markUsed", code |-> code, valid |-> valid,
                        sub |-> codes[code].value, client |-> c]]
       \/ /\ ~TakesCode(code, c)
          /\ req' = [req EXCEPT ![r] = [at |-> "checkUsed", code |-> code]]
          /\ UNCHANGED <<codes, now>>
    /\ UNCHANGED <<tickets, used, sessions, counters, history>>

\* IsCodeUsed; when it is not, the request ends with invalid_grant.
exchangeCheckUsed(r) ==
    /\ req[r].at = "checkUsed"
    /\ LET code == req[r].code IN
         req' = [req EXCEPT ![r] =
                   IF code \in DOMAIN used
                     THEN [at |-> "revoke", code |-> code, sub |-> used[code].value]
                     ELSE Idle]
    /\ UNCHANGED <<caches, sessions, now, counters, history>>

\* DeleteSessionBySub for a reused code, then invalid_grant; a delete that
\* fails is logged.
exchangeRevoke(r) ==
    /\ req[r].at = "revoke"
    /\ \/ /\ DeleteSessionBySub(req[r].sub)
          /\ reused' = reused \cup {req[r].code}
       \/ UNCHANGED <<sessions, revoked, reused>>
    /\ req' = [req EXCEPT ![r] = Idle]
    /\ UNCHANGED <<caches, now, counters, issued, grants>>

\* Mutants: the entry names the client; there is no entry.
markedForClient(code, sub) == U!Put(code, sub[2], UsedTtl)
notMarked(code, sub) == UNCHANGED <<used, now>>

MarkCodeAsUsed(code, sub) == U!Put(code, sub, UsedTtl)

\* MarkCodeAsUsed, then the checks of the redirect uri and of PKCE.
exchangeMarkUsed(r) ==
    /\ req[r].at = "markUsed"
    /\ MarkCodeAsUsed(req[r].code, req[r].sub)
    /\ req' = [req EXCEPT ![r] = IF req[r].valid THEN [req[r] EXCEPT !.at = "create"]
                                                 ELSE Idle]
    /\ UNCHANGED <<tickets, codes, sessions, counters, history>>

Row(code, client) ==
    [grant |-> nextGrant, code |-> code, client |-> client,
     tokenExpiresAt |-> now + SessionExpiry,
     refreshTokenExpiresAt |-> now + 2 * SessionExpiry]

GiveOut(code, client, by, parent) ==
    /\ nextGrant <= (IF serial THEN MaxGrants ELSE MaxOverlapGrants)
    /\ grants' = With(grants, nextGrant, [code |-> code, client |-> client,
                                          by |-> by, parent |-> parent])
    /\ nextGrant' = nextGrant + 1

\* CreateOIDCSession: "sub" is the primary key.  A row of that sub is an
\* error, like a failing statement; the code is spent either way.
exchangeCreate(r) ==
    /\ req[r].at = "create"
    /\ \/ /\ req[r].sub \notin DOMAIN sessions
          /\ sessions' = With(sessions, req[r].sub, Row(req[r].code, req[r].client))
          /\ GiveOut(req[r].code, req[r].client, "code", 0)
       \/ UNCHANGED <<sessions, grants, nextGrant>>
    /\ req' = [req EXCEPT ![r] = Idle]
    /\ UNCHANGED <<caches, now, nextTicket, restarts, issued, reused, revoked>>

-----------------------------------------------------------------------------
(* /api/oidc/token, grant_type refresh_token                               *)

\* GetOIDCSessionByRefreshTokenHash and the checks of expiry and client.
refreshRead(r, c, g) ==
    /\ Starts(r)
    /\ \E sub \in DOMAIN sessions :
         /\ sessions[sub].grant = g
         /\ sessions[sub].refreshTokenExpiresAt >= now
         /\ sessions[sub].client = c
         /\ req' = [req EXCEPT ![r] = [at |-> "update", sub |-> sub, grant |-> g,
                                       code |-> sessions[sub].code, client |-> c]]
    /\ UNCHANGED <<caches, sessions, now, counters, history>>

\* UpdateOIDCSession: the row of that sub, whichever it is by now.  No such
\* row is an error.
refreshUpdate(r) ==
    /\ req[r].at = "update"
    /\ \/ /\ req[r].sub \in DOMAIN sessions
          /\ sessions' = With(sessions, req[r].sub, Row(req[r].code, req[r].client))
          /\ GiveOut(req[r].code, req[r].client, "refresh", req[r].grant)
       \/ UNCHANGED <<sessions, grants, nextGrant>>
    /\ req' = [req EXCEPT ![r] = Idle]
    /\ UNCHANGED <<caches, now, nextTicket, restarts, issued, reused, revoked>>

-----------------------------------------------------------------------------
(* /api/oidc/userinfo and the cleanup routine                              *)

Dead(row) == row.tokenExpiresAt < now /\ row.refreshTokenExpiresAt < now

\* Mutant: the refresh token's expiry is not looked at.
userinfoReadAccessOnly(r, g) ==
    /\ Starts(r)
    /\ \E sub \in DOMAIN sessions :
         /\ sessions[sub].grant = g
         /\ sessions[sub].tokenExpiresAt < now
         /\ req' = [req EXCEPT ![r] = [at |-> "forget", sub |-> sub]]
    /\ UNCHANGED <<caches, sessions, now, counters, history>>

\* GetSessionByToken finds a row past both expiries and goes on to delete it;
\* every other outcome of Userinfo leaves no trace.
userinfoRead(r, g) ==
    /\ Starts(r)
    /\ \E sub \in DOMAIN sessions :
         /\ sessions[sub].grant = g
         /\ Dead(sessions[sub])
         /\ req' = [req EXCEPT ![r] = [at |-> "forget", sub |-> sub]]
    /\ UNCHANGED <<caches, sessions, now, counters, history>>

\* DeleteOIDCSessionBySub.
userinfoForget(r) ==
    /\ req[r].at = "forget"
    /\ sessions' \in {Without(sessions, {req[r].sub}), sessions}
    /\ req' = [req EXCEPT ![r] = Idle]
    /\ UNCHANGED <<caches, now, counters, history>>

\* cleanupRoutine: one statement, DeleteExpiredOIDCSessions.
cleanup ==
    /\ sessions' = Without(sessions, {s \in DOMAIN sessions : Dead(sessions[s])})
    /\ UNCHANGED <<caches, req, now, counters, history>>

-----------------------------------------------------------------------------

Tick ==
    /\ serial \/ now < MaxOverlapTime
    /\ T!Tick /\ C!Tick /\ U!Tick
    /\ UNCHANGED <<sessions, req, counters, history>>

\* The process stops and starts again: the table is all that is left.
Restart ==
    /\ restarts < MaxRestarts
    /\ restarts' = restarts + 1
    /\ tickets' = Empty /\ codes' = Empty /\ used' = Empty
    /\ req' = [r \in Request |-> Idle]
    /\ UNCHANGED <<sessions, now, nextTicket, nextGrant, history>>

Step(r) ==
    \/ completeDeleteTicket(r) \/ completeDeleteOldSession(r)
    \/ completeCreateCode(r)
    \/ exchangeCheckUsed(r) \/ exchangeRevoke(r) \/ exchangeMarkUsed(r)
    \/ exchangeCreate(r)
    \/ refreshUpdate(r)
    \/ userinfoForget(r)

Begin(r) ==
    \/ \E u \in User, t \in Ticket : completeRead(r, u, t)
    \/ \E c \in Client, code \in Code, valid \in BOOLEAN :
         exchangeTake(r, c, code, valid)
    \/ \E c \in Client, g \in Grant : refreshRead(r, c, g)
    \/ \E g \in Grant : userinfoRead(r, g)

Next ==
    /\ \/ \E c \in Client : authorize(c)
       \/ \E r \in Request : Begin(r) \/ Step(r)
       \/ cleanup
       \/ Tick
       \/ Restart
    /\ UNCHANGED serial

Spec == Init /\ [][Next]_vars

-----------------------------------------------------------------------------
(* Properties.                                                             *)

Slot == {Idle}
   \cup [at : {"deleteTicket", "deleteOldSession", "createCode"},
         ticket : Ticket, sub : Sub]
   \cup [at : {"checkUsed"}, code : Code]
   \cup [at : {"revoke"}, code : Code, sub : Sub]
   \cup [at : {"markUsed", "create"}, code : Code, valid : BOOLEAN,
         sub : Sub, client : Client]
   \cup [at : {"update"}, sub : Sub, grant : Grant, code : Code, client : Client]
   \cup [at : {"forget"}, sub : Sub]

\* Every slot holds what the handler at that point remembers, and the caches
\* and the table hold entries of their own kind.
TypeOK ==
    /\ req \in [Request -> Slot]
    /\ serial \in BOOLEAN
    /\ DOMAIN sessions \subseteq Sub
    /\ \A s \in DOMAIN sessions :
         sessions[s] \in [grant : Grant, code : Code, client : Client,
                          tokenExpiresAt : Nat, refreshTokenExpiresAt : Nat]
    /\ DOMAIN issued \subseteq Code /\ DOMAIN grants \subseteq Grant
    /\ \A c \in DOMAIN codes : codes[c].value \in Sub
    /\ \A c \in DOMAIN used : used[c].value \in Sub
    /\ \A t \in DOMAIN tickets : tickets[t].value \in Client

\* "Since the code can only be used once" (GetCodeEntry): however requests
\* interleave, and across restarts, a code pays for one token pair at most.
CodeRedeemedOnce ==
    \A g, h \in DOMAIN grants :
      grants[g].by = "code" /\ grants[h].by = "code"
        /\ grants[g].code = grants[h].code => g = h

\* Tokens go to the client the user consented to, and describe that user: the
\* checks in GetCodeEntry and RefreshAccessToken, on entries read earlier.
GrantsFollowConsent ==
    /\ \A g \in DOMAIN grants :
         grants[g].client = issued[grants[g].code].sub[2]
    /\ \A s \in DOMAIN sessions : issued[sessions[s].code].sub = s

\* usedCode remembers a code for longer than the code itself would have lived:
\* a second use of an exchanged code within that time is recognized as reuse,
\* while the process runs and its caches are not full.
ReuseDetectedStep ==
    \A r \in Request :
      /\ req[r].at = "checkUsed" /\ req'[r] # req[r]
      /\ restarts' = 0
      /\ \E g \in DOMAIN grants : grants[g].code = req[r].code
      /\ now <= issued[req[r].code].time + CodeTtl
      => req'[r].at = "revoke"
ReuseDetected == [][ReuseDetectedStep]_vars

\* "Token deletes the session and returns invalid_grant when a code is reused"
\* (oidc_controller_test.go): once a reuse has been answered, and the delete
\* went through, no session of that code is left.
ReuseRevokes ==
    \A s \in DOMAIN sessions : sessions[s].code \notin reused

\* "Before storing the code, delete old session" (authorizeComplete): an
\* authorization whose session was deleted is not in the table again.
RevokedStaysRevoked ==
    \A s \in DOMAIN sessions : sessions[s].code \notin revoked

\* Both are true of handlers that run one after the other: what Token and
\* authorizeComplete delete is not brought back by a later exchange or refresh,
\* whatever fails, expires or is lost in a restart in between.
RevocationsHoldSerially == serial => ReuseRevokes /\ RevokedStaysRevoked

\* "If refresh token is expired, delete the session since there is no way for
\* the client to access anything anymore" (GetSessionByToken): the delete
\* that Userinfo issues hits no session that can still be used, as long as
\* requests do not overlap.
ForgetsOnlyDeadStep ==
    \A r \in Request :
      serial /\ req[r].at = "forget" =>
        \A s \in DOMAIN sessions \ DOMAIN sessions' :
          s = req[r].sub /\ req'[r] = Idle => Dead(sessions[s])
ForgetsOnlyDead == [][ForgetsOnlyDeadStep]_vars

\* A consent screen is answered once, one ticket, one code, and refresh tokens
\* rotate, one new pair for each, as long as requests do not overlap
\* (authorizeComplete reads the ticket and deletes it in two steps;
\* RefreshAccessToken reads and updates the row in two statements).
UsedOnceSerially ==
    serial =>
      /\ \A c, d \in DOMAIN issued : issued[c].ticket = issued[d].ticket => c = d
      /\ \A g, h \in DOMAIN grants :
           grants[g].by = "refresh" /\ grants[h].by = "refresh"
             /\ grants[g].parent = grants[h].parent => g = h
=============================================================================
