---------------------------- MODULE LdapService -----------------------------
(***************************************************************************)
(* The LDAP service (internal/service/ldap_service.go) and its callers:    *)
(* SearchUser, CheckUserPassword and GetLDAPUser of AuthService with the   *)
(* cache of groups, the login handler, and the cookie and basic paths of   *)
(* the context middleware.                                                 *)
(*                                                                         *)
(* All requests share one connection, and the account it is bound to is    *)
(* the account every search runs as.  Each operation holds the mutex once: *)
(* a password check binds the user in one section and the service account  *)
(* in the next.  The directory is external: a search as the service        *)
(* account finds the user and its groups, one as anybody else may find     *)
(* less, and a bind that fails leaves the connection anonymous (RFC 4511,  *)
(* 4.2.1).  One group stands for all of them.  Left out: basicAuth also    *)
(* asks for groups, of the user name in place of the DN; no group has such *)
(* a member, and that is cached under the name.                            *)
(***************************************************************************)
EXTENDS Integers

CONSTANTS User,             \* the users in the directory
          Request,          \* slots for requests handled at the same time
          GroupCacheTTL,    \* config.LDAP.GroupCacheTTL
          MaxTries          \* backoff.WithMaxTries, 3 in the code

\* The default is 900.  The cache takes 0 for no expiry at all.
ASSUME TTLAssumption == GroupCacheTTL \in Nat \ {0}
ASSUME MaxTriesAssumption == MaxTries \in Nat \ {0}
\* What the connection can be besides bound to a user.
ASSUME UserAssumption == User \cap {"service", "anonymous", "closed"} = {}

VARIABLES
    conn,       \* the shared connection: the account it is bound to, or Closed
    routine,    \* where the goroutine that looks after the connection is
    req,        \* the request in each slot
    cache,      \* the cache of groups: user -> groups, and the time they have left
    member,     \* the directory: the users in the group
    tainted     \* history: has a bind failed since the last one of the service?

ldapVars == <<conn, routine, req, cache, member, tainted>>

Idle == [at |-> "idle"]
Account == User \cup {"service", "anonymous"}
Closed == "closed"

InitLdap ==
    /\ conn = Closed
    /\ routine = [at |-> "none", tries |-> 0]
    /\ req = [r \in Request |-> Idle]
    /\ cache = [k \in {} |-> 0]
    /\ member \in SUBSET User
    /\ tainted = FALSE

Goto(r, slot) == req' = [req EXCEPT ![r] = slot]
GotoAt(r, label) == Goto(r, [req[r] EXCEPT !.at = label])

-----------------------------------------------------------------------------
(* The connection.                                                         *)

\* BindService, on an open connection: it is the service's, or the bind fails.
BindService(succeeds) ==
    \/ succeeds /\ conn' = "service" /\ tainted' = FALSE
    \/ ~succeeds /\ conn' = "anonymous" /\ tainted' = TRUE

\* connect: dial, then bind.  The new connection stays when the bind fails.
Connect(outcome) ==
    CASE outcome = "ok"         -> BindService(TRUE)
      [] outcome = "bindFailed" -> BindService(FALSE)
      [] outcome = "dialFailed" -> UNCHANGED <<conn, tainted>>

\* One attempt of the operation that reconnect retries: Close, then connect.
\* Nothing holds the mutex in between.
closeConn ==
    /\ routine.at = "reconnect"
    /\ conn' = Closed /\ tainted' = FALSE
    /\ routine' = [routine EXCEPT !.at = "connect"]
    /\ UNCHANGED <<req, cache, member>>

\* Mutant: the routine ends when it has not got through.
giveUp(outcome) ==
    /\ routine.at = "connect"
    /\ Connect(outcome)
    /\ routine' = IF outcome = "ok" THEN [at |-> "wait", tries |-> 0]
                  ELSE IF routine.tries + 1 < MaxTries
                    THEN [at |-> "reconnect", tries |-> routine.tries + 1]
                    ELSE [at |-> "ended", tries |-> 0]
    /\ UNCHANGED <<req, cache, member>>

reconnect(outcome) ==
    /\ routine.at = "connect"
    /\ Connect(outcome)
    /\ routine' = IF outcome # "ok" /\ routine.tries + 1 < MaxTries
                    THEN [at |-> "reconnect", tries |-> routine.tries + 1]
                    ELSE [at |-> "wait", tries |-> 0]
    /\ UNCHANGED <<req, cache, member>>

\* The ticker: a search of the root DSE, which anybody may do, has failed.
heartbeat ==
    /\ routine.at = "wait"
    /\ routine' = [at |-> "reconnect", tries |-> 0]
    /\ UNCHANGED <<conn, req, cache, member, tainted>>

\* The server or the network drops the connection.
Drop ==
    /\ conn # Closed
    /\ conn' = Closed /\ tainted' = FALSE
    /\ UNCHANGED <<routine, req, cache, member>>

-----------------------------------------------------------------------------
(* Requests.  A search that finds nothing ends the request.                *)

\* SearchUser: GetUserInfo, for a login by form or basic, or for a session.
SearchUser(r, user, kind) ==
    /\ req[r] = Idle
    /\ conn # Closed
    /\ Goto(r, [at |-> IF kind = "login" THEN "bind" ELSE "cached",
                user |-> user, groups |-> FALSE])
    /\ UNCHANGED <<conn, routine, cache, member, tainted>>

\* CheckUserPassword: Bind as the user, with the right password ...
bind(r) ==
    /\ req[r].at = "bind"
    /\ conn # Closed
    /\ conn' = req[r].user
    /\ GotoAt(r, "rebind")
    /\ UNCHANGED <<routine, cache, member, tainted>>

\* ... or with a wrong one, or without a connection; that is the end of it.
bindFails(r) ==
    /\ req[r].at = "bind"
    /\ \/ conn # Closed /\ conn' = "anonymous" /\ tainted' = TRUE
       \/ conn = Closed /\ UNCHANGED <<conn, tainted>>
    /\ Goto(r, Idle)
    /\ UNCHANGED <<routine, cache, member>>

\* Mutant: the connection is left as it is.
notRebound(r) ==
    /\ req[r].at = "rebind"
    /\ Goto(r, Idle)
    /\ UNCHANGED <<conn, routine, cache, member, tainted>>

\* BindService(true), which may fail or find the connection closed.
rebind(r) ==
    /\ req[r].at = "rebind"
    /\ \/ conn # Closed /\ \E succeeds \in BOOLEAN : BindService(succeeds)
       \/ conn = Closed /\ UNCHANGED <<conn, tainted>>
    /\ Goto(r, Idle)
    /\ UNCHANGED <<routine, cache, member>>

\* GetLDAPUser: the groups are cached, or to be searched for.
cached(r) ==
    /\ req[r].at = "cached"
    /\ IF req[r].user \in DOMAIN cache THEN Goto(r, Idle) ELSE GotoAt(r, "getUserGroups")
    /\ UNCHANGED <<conn, routine, cache, member, tainted>>

\* GetUserGroups.
GetUserGroups(r) ==
    /\ req[r].at = "getUserGroups"
    /\ \/ /\ conn # Closed
          /\ \E groups \in BOOLEAN :
               /\ groups => req[r].user \in member
               /\ conn = "service" /\ req[r].user \in member => groups
               /\ Goto(r, [req[r] EXCEPT !.at = "setGroups", !.groups = groups])
       \/ conn = Closed /\ Goto(r, Idle)
    /\ UNCHANGED <<conn, routine, cache, member, tainted>>

\* Mutant: no time to live is given.
noTimeToLive == 0

timeToLive == GroupCacheTTL

\* The groups are cached under a lock of their own, and handed on.
setGroups(r) ==
    /\ req[r].at = "setGroups"
    /\ cache' = [u \in DOMAIN cache \cup {req[r].user} |->
                   IF u = req[r].user
                     THEN [groups |-> req[r].groups, left |-> timeToLive] ELSE cache[u]]
    /\ Goto(r, Idle)
    /\ UNCHANGED <<conn, routine, member, tainted>>

\* The directory changes.
Regroup(user) ==
    /\ member' \in {member \cup {user}, member \ {user}} \ {member}
    /\ UNCHANGED <<conn, routine, req, cache, tainted>>

\* Time passes; Get takes an expired entry for none, and 0 is no expiry.
Tick ==
    /\ LET alive == {k \in DOMAIN cache : cache[k].left # 1}
       IN  cache' = [k \in alive |-> [cache[k] EXCEPT !.left = IF @ > 1 THEN @ - 1 ELSE @]]
    /\ UNCHANGED <<conn, routine, req, member, tainted>>

Step(r) == \/ bind(r) \/ bindFails(r) \/ rebind(r)
           \/ cached(r) \/ GetUserGroups(r) \/ setGroups(r)

-----------------------------------------------------------------------------
(* Properties.                                                             *)

Slot == {Idle} \cup [at : {"bind", "rebind", "cached", "getUserGroups", "setGroups"},
                     user : User, groups : BOOLEAN]

LdapTypeOK ==
    /\ conn \in Account \cup {Closed}
    /\ routine \in [at : {"none", "wait", "reconnect", "connect", "ended"},
                    tries : 0 .. MaxTries - 1]
    /\ req \in [Request -> Slot]
    /\ DOMAIN cache \subseteq User
    /\ \A k \in DOMAIN cache : cache[k] \in [groups : BOOLEAN, left : 1 .. GroupCacheTTL]
    /\ member \subseteq User
    /\ tainted \in BOOLEAN

\* Searches run as the service account, however logins, reconnects and lost
\* connections interleave: the connection is bound to somebody else only while
\* a login is between its bind and its rebind, or after a bind has failed.
BoundAsService ==
    conn # Closed /\ ~tainted /\ (\A r \in Request : req[r].at # "rebind")
      => conn = "service"

\* "Cache duration for LDAP group membership in seconds." (config.go): once a
\* user has left a group for good, requests that read the groups before do not
\* keep the membership in the cache, nor does reading it from there.
RemovalTakesEffect ==
    \A u \in User :
      <>[](u \notin member)
        => <>[](u \in DOMAIN cache => ~cache[u].groups)
=============================================================================
