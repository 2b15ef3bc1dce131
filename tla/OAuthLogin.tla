------------------------------ MODULE OAuthLogin ------------------------------
(***************************************************************************)
(* Login through an OAuth provider: oauthURLHandler and                    *)
(* oauthCallbackHandler (internal/controller/oauth_controller.go) over the *)
(* cache of pending sessions (internal/service/auth_service.go).           *)
(*                                                                         *)
(* As in OIDCProvider, a handler occupies a slot of Request and each of    *)
(* its accesses to the cache is a step; what the provider answers comes    *)
(* with the step that uses it.  A pending session stands for its own state *)
(* and verifier, and a code knows the session whose verifier it was issued *)
(* for.  Redirect targets, names and e-mail addresses are left out;        *)
(* callbacks without a cookie, or whose session is gone, have no step.     *)
(***************************************************************************)
EXTENDS Integers, FiniteSets

CONSTANTS Provider, Account,
          Whitelisted,      \* the accounts the whitelists let in, per provider
          Request,          \* slots for handlers that run at the same time
          CacheSize,        \* 256 in the source
          PendingTtl,       \* 10 minutes in the source
          Never, NoToken,
          MaxPending, MaxCodes, MaxTime   \* bounds

ASSUME WhitelistAssumption == Whitelisted \subseteq Provider \X Account
ASSUME DurationsAssumption == CacheSize \in Nat /\ PendingTtl \in Nat \ {0}
ASSUME BoundsAssumption == {MaxPending, MaxCodes, MaxTime} \subseteq Nat
ASSUME NeverAssumption == Never \notin Nat /\ NoToken \notin Nat

VARIABLES
    pending,   \* caches.oauth: session id -> its service and token
    req,       \* the handler running in each slot
    now,
    started,   \* history: session id -> its provider, its time, whether the
               \*   browser got an address to go to
    codes,     \* external: what the providers issued, for which session
    ended,     \* history: sessions that EndOAuthSession was called for
    logins     \* history: the sessions created, from which code

vars == <<pending, req, now, started, codes, ended, logins>>

Session == 1 .. MaxPending
Code == 1 .. MaxCodes

P == INSTANCE BoundedMap WITH
       live <- pending, Key <- Session, Ttl <- {PendingTtl}, MaxSize <- CacheSize,
       Value <- [provider : Provider, token : Code \cup {NoToken}]

Empty == [x \in {} |-> Never]
With(m, k, e) == [x \in DOMAIN m \cup {k} |-> IF x = k THEN e ELSE m[x]]

Idle == [at |-> "idle"]
Goto(r, label) == req' = [req EXCEPT ![r].at = label]
nextSession == Cardinality(DOMAIN started) + 1
nextCode == Cardinality(DOMAIN codes) + 1

Init ==
    /\ pending = Empty /\ req = [r \in Request |-> Idle] /\ now = 0
    /\ started = Empty /\ codes = Empty /\ ended = {} /\ logins = {}

-----------------------------------------------------------------------------
(* oauthURLHandler                                                         *)

\* NewOAuthSession ...
NewOAuthSession(r, p) ==
    /\ req[r] = Idle /\ nextSession <= MaxPending
    /\ P!Put(nextSession, [provider |-> p, token |-> NoToken], PendingTtl)
    /\ started' = With(started, nextSession,
                       [provider |-> p, time |-> now, sent |-> FALSE])
    /\ req' = [req EXCEPT ![r] = [at |-> "url", session |-> nextSession]]
    /\ UNCHANGED <<codes, ended, logins>>

\* ... and GetOAuthURL, which fails if the session was evicted meanwhile.
GetOAuthURL(r) ==
    /\ req[r].at = "url"
    /\ started' = [started EXCEPT ![req[r].session].sent =
                     req[r].session \in DOMAIN pending]
    /\ req' = [req EXCEPT ![r] = Idle]
    /\ UNCHANGED <<pending, now, codes, ended, logins>>

-----------------------------------------------------------------------------
(* oauthCallbackHandler                                                    *)

\* The session of the cookie is there; state is the right one or not.  From
\* here on every return goes through EndOAuthSession.
callback(r, s, c, p, state) ==
    /\ req[r] = Idle
    /\ s \in DOMAIN pending /\ c \in DOMAIN codes
    /\ req' = [req EXCEPT ![r] = [at |-> IF state THEN "getToken" ELSE "end",
                                  session |-> s, code |-> c, provider |-> p]]
    /\ UNCHANGED <<pending, now, started, codes, ended, logins>>

\* GetOAuthToken: the session, before the provider is asked ...
getToken(r) ==
    /\ req[r].at = "getToken"
    /\ IF req[r].session \in DOMAIN pending
         THEN req' = [req EXCEPT ![r] = [at |-> "update", session |-> req[r].session,
                        code |-> req[r].code, provider |-> req[r].provider,
                        read |-> pending[req[r].session].value]]
         ELSE Goto(r, "end")
    /\ UNCHANGED <<pending, now, started, codes, ended, logins>>

\* Mutant: the verifier is not sent along.
acceptsUnbound(c, s, p) == ~codes[c].spent /\ codes[c].provider = p

\* What a provider checks of a code: its client, the verifier, the first use.
GetToken(c, s, p) ==
    ~codes[c].spent /\ codes[c].provider = p /\ codes[c].session = s

\* Mutant: Set instead of Update.
storeToken(s, v) == P!Put(s, v, PendingTtl)

\* "ttl 0 means keep current expiration".
UpdateToken(s, v) ==
    IF s \in DOMAIN pending THEN P!Replace(s, v, 0) ELSE UNCHANGED <<pending, now>>

\* ... and the session with the token, written over what is there by now.
updateToken(r) ==
    LET s == req[r].session  c == req[r].code
    IN  /\ req[r].at = "update"
        /\ \/ /\ GetToken(c, s, req[r].read.provider)
              /\ codes' = [codes EXCEPT ![c].spent = TRUE]
              /\ UpdateToken(s, [req[r].read EXCEPT !.token = c])
              /\ Goto(r, IF s \in DOMAIN pending THEN "userinfo" ELSE "end")
           \/ /\ Goto(r, "end")   \* the provider refuses or does not answer
              /\ UNCHANGED <<pending, now, codes>>
        /\ UNCHANGED <<started, ended, logins>>

\* GetOAuthUserinfo with the token that the session holds now.
userinfo(r) ==
    LET s == req[r].session
    IN  /\ req[r].at = "userinfo"
        /\ \/ /\ s \in DOMAIN pending /\ pending[s].value.token # NoToken
              /\ req' = [req EXCEPT ![r] = [at |-> "service", session |-> s,
                           code |-> req[r].code, provider |-> req[r].provider,
                           user |-> codes[pending[s].value.token].account]]
           \/ Goto(r, "end")      \* gone, or the provider does not answer
        /\ UNCHANGED <<pending, now, started, codes, ended, logins>>

\* GetOAuthService, the comparison with the provider of the path, and the
\* whitelist.
GetOAuthService(r) ==
    LET s == req[r].session
    IN  /\ req[r].at = "service"
        /\ Goto(r, IF /\ s \in DOMAIN pending
                      /\ pending[s].value.provider = req[r].provider
                      /\ <<req[r].provider, req[r].user>> \in Whitelisted
                   THEN "create" ELSE "end")
        /\ UNCHANGED <<pending, now, started, codes, ended, logins>>

\* CreateSession, which may fail.
create(r) ==
    /\ req[r].at = "create"
    /\ \/ logins' = logins \cup {[session |-> req[r].session, code |-> req[r].code,
                                  provider |-> req[r].provider, account |-> req[r].user]}
       \/ UNCHANGED logins
    /\ Goto(r, "end")
    /\ UNCHANGED <<pending, now, started, codes, ended>>

EndOAuthSession(s) == P!Remove(s)

end(r) ==
    /\ req[r].at = "end"
    /\ EndOAuthSession(req[r].session)
    /\ ended' = ended \cup {req[r].session}
    /\ req' = [req EXCEPT ![r] = Idle]
    /\ UNCHANGED <<started, codes, logins>>

-----------------------------------------------------------------------------

\* A user with the address of a session consents at its provider.
consent(s, a) ==
    /\ s \in DOMAIN started /\ started[s].sent
    /\ nextCode <= MaxCodes
    /\ codes' = With(codes, nextCode, [session |-> s, account |-> a,
                       provider |-> started[s].provider, spent |-> FALSE])
    /\ UNCHANGED <<pending, req, now, started, ended, logins>>

\* Time passes, and expired sessions are gone.
tick ==
    /\ P!Tick
    /\ UNCHANGED <<req, started, codes, ended, logins>>

\* The process starts anew: the cache is lost and no deferred call runs.
restart ==
    /\ pending' = Empty /\ req' = [r \in Request |-> Idle]
    /\ UNCHANGED <<now, started, codes, ended, logins>>

Next ==
    \/ \E r \in Request :
         \/ \E p \in Provider : NewOAuthSession(r, p)
         \/ GetOAuthURL(r)
         \/ \E s \in Session, c \in Code, p \in Provider, state \in BOOLEAN :
              callback(r, s, c, p, state)
         \/ getToken(r) \/ updateToken(r) \/ userinfo(r) \/ GetOAuthService(r)
         \/ create(r) \/ end(r)
    \/ \E s \in Session, a \in Account : consent(s, a)
    \/ tick \/ restart

Spec == Init /\ [][Next]_vars

-----------------------------------------------------------------------------
(* Properties.                                                             *)

Value == [provider : Provider, token : Code \cup {NoToken}]

Slot == {Idle}
   \cup [at : {"url"}, session : Session]
   \cup [at : {"getToken", "end"}, session : Session, code : Code, provider : Provider]
   \cup [at : {"update", "userinfo", "end"},
         session : Session, code : Code, provider : Provider, read : Value]
   \cup [at : {"service", "create", "end"},
         session : Session, code : Code, provider : Provider, user : Account]

\* Every slot holds what the handler at that point remembers, and the cache
\* holds pending sessions.
TypeOK ==
    /\ DOMAIN pending \subseteq Session
    /\ \A s \in DOMAIN pending : pending[s].value \in Value /\ pending[s].expiresAt \in Nat
    /\ req \in [Request -> Slot]
    /\ now \in 0 .. MaxTime
    /\ DOMAIN started \subseteq Session /\ ended \subseteq Session
    /\ DOMAIN codes \subseteq Code

\* "defer controller.auth.EndOAuthSession" (oauthCallbackHandler), "ttl 0 means
\* keep current expiration" (GetOAuthToken): a pending session that a callback
\* has ended is not there again, although another callback may be about to
\* write its token, and none outlives the ten minutes it was given.
PendingEnds ==
    \A s \in DOMAIN pending : s \notin ended /\ now <= started[s].time + PendingTtl

\* Whoever is logged in consented, at the provider of that very pending session
\* and in answer to it, and is on the whitelist of that provider; also when
\* two callbacks write and read the token of one session in turn.
LoginConsented ==
    \A l \in logins :
      /\ l.provider = started[l.session].provider
      /\ <<l.provider, l.account>> \in Whitelisted
      /\ \E c \in DOMAIN codes :
           /\ codes[c].spent
           /\ codes[c].session = l.session /\ codes[c].account = l.account
===============================================================================
