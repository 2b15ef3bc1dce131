----------------------------- MODULE Lifecycle ------------------------------
(***************************************************************************)
(* The life of the process: Setup (internal/bootstrap/app_bootstrap.go)    *)
(* with the services it starts (service_bootstrap.go, NewLdapService,      *)
(* NewTailscaleService, NewDockerService), the listener                    *)
(* (router_bootstrap.go) and the shutdown in rings, composed with the LDAP *)
(* service and the requests that use it.                                   *)
(*                                                                         *)
(* ding is external.  As Setup uses it: Go runs a goroutine in a ring;     *)
(* Wait, called once the root context is cancelled, cancels one ring after *)
(* the other and waits for the goroutines of each.  A step of Setup that   *)
(* fails ends the process.                                                 *)
(***************************************************************************)
EXTENDS LdapService

CONSTANT Configured     \* the optional parts that are configured

\* There is one label provider at most (config.LabelProvider).
ASSUME ConfiguredAssumption ==
    /\ Configured \subseteq {"docker", "kubernetes", "tailscale", "heartbeatRoutine"}
    /\ ~({"docker", "kubernetes"} \subseteq Configured)

VARIABLES
    phase,      \* where Setup is
    started,    \* the goroutines given to ding
    ended,      \* those of them that have returned
    ring,       \* the last ring that ding has cancelled
    signal,     \* is the root context cancelled?
    server,     \* the HTTP server
    db          \* the database

lifeVars == <<phase, started, ended, ring, signal, server, db>>
vars == <<ldapVars, lifeVars>>

\* sweep stands for the cleanupRoutine of the OIDC service too.
Routine == {"sweep", "dbCleanup", "heartbeatRoutine", "listener",
            "docker", "kubernetes", "ldap", "tailscale", "database"}
Provider == {"docker", "kubernetes", "ldap", "tailscale"}

\* Mutant: the cleanup stops with the database.
ringCleanupLate(g) ==
    CASE g \in {"sweep", "heartbeatRoutine"}    -> 1
      [] g = "listener"                         -> 2
      [] g \in Provider                         -> 3
      [] OTHER                                  -> 4

\* RingMinor, RingNormal, RingMajor, RingCritical.
Ring(g) ==
    CASE g \in {"sweep", "dbCleanup", "heartbeatRoutine"} -> 1
      [] g = "listener"                                   -> 2
      [] g \in Provider                                   -> 3
      [] g = "database"                                   -> 4

Up(g) == g \in started \ ended

\* Is there something to call for those who ask a provider?  DockerService keeps
\* the root context and makes its calls (getContainers, inspectContainer) under
\* it: they fail from the signal on, long before the ring of the provider.
Callable(g) == Up(g) /\ ring < Ring(g) /\ (g = "docker" => ~signal)

Init ==
    /\ InitLdap
    /\ phase = "setupStore" /\ started = {} /\ ended = {} /\ ring = 0
    /\ signal = FALSE /\ server = "none" /\ db = "none"

-----------------------------------------------------------------------------
(* Setup.                                                                  *)

Fails == phase' = "failed" /\ UNCHANGED <<started, db>>

\* The end of the process takes its handlers, cache and connections with it.
ProcessEnds(last) ==
    /\ phase' = last
    /\ req' = [r \in Request |-> Idle]
    /\ cache' = [k \in {} |-> 0]
    /\ conn' = Closed /\ tainted' = FALSE
    /\ UNCHANGED <<routine, member>>

setupStore ==
    /\ phase = "setupStore"
    /\ \/ phase' = "getLabelProvider" /\ db' = "open" /\ started' = started \cup {"database"}
       \/ Fails
    /\ UNCHANGED <<ldapVars, ended, ring, signal, server>>

\* Without a Docker daemon, Setup goes on without a label provider; without the
\* Kubernetes API it fails.  Both are tried under the root context.
getLabelProvider ==
    /\ phase = "getLabelProvider"
    /\ \/ /\ phase' = "newLdapService"
          /\ "kubernetes" \notin Configured
          /\ UNCHANGED <<started, db>>
       \/ /\ phase' = "newLdapService"
          /\ ~signal
          /\ started' = started \cup (Configured \cap {"docker", "kubernetes"})
          /\ UNCHANGED db
       \/ Fails
    /\ UNCHANGED <<ldapVars, ended, ring, signal, server>>

\* The client certificate of NewLdapService cannot be loaded.
ldapCertFails ==
    /\ phase = "newLdapService"
    /\ Fails
    /\ UNCHANGED <<ldapVars, ended, ring, signal, server>>

\* The heartbeat of the connection starts if the first connect succeeds.
newLdapService(outcome) ==
    /\ phase = "newLdapService"
    /\ Connect(outcome)
    /\ IF outcome = "ok"
         THEN /\ phase' = "newServices"
              /\ started' = started \cup {"ldap"}
              /\ routine' = [at |-> "wait", tries |-> 0]
         ELSE /\ phase' = "ldapRetry"
              /\ UNCHANGED started
              /\ routine' = [at |-> "reconnect", tries |-> 0]
    /\ UNCHANGED <<req, cache, member, ended, ring, signal, server, db>>

\* reconnect has returned: backoff.Retry looks at the root context between two
\* attempts.
Returned == routine.at = "wait" \/ (routine.at = "reconnect" /\ signal)

\* And so does NewLdapService: with an error.
ldapGivenUp ==
    /\ phase = "ldapRetry"
    /\ Returned
    /\ phase' = "failed"
    /\ UNCHANGED <<ldapVars, started, ended, ring, signal, server, db>>

\* NewTailscaleService, which waits for the network, and NewAuthService.
newServices ==
    /\ phase = "newServices"
    /\ \/ /\ phase' = "run"
          /\ started' = started \cup {"sweep"} \cup (Configured \cap {"tailscale"})
          /\ UNCHANGED db
       \/ Fails
    /\ UNCHANGED <<ldapVars, ended, ring, signal, server>>

\* Providers are checked, the router is set up, and the goroutines start.
run ==
    /\ phase = "run"
    /\ \/ /\ phase' = "monitor"
          /\ started' = started \cup {"dbCleanup", "listener"}
                                \cup (Configured \cap {"heartbeatRoutine"})
          /\ UNCHANGED db
       \/ Fails
    /\ UNCHANGED <<ldapVars, ended, ring, signal, server>>

\* The loop at the end: the root context is done ...
monitorDone ==
    /\ phase = "monitor" /\ signal
    /\ phase' = "wait"
    /\ UNCHANGED <<ldapVars, started, ended, ring, signal, server, db>>

\* ... or the listener has failed, and Setup returns without ding.Wait.
monitorError ==
    /\ phase = "monitor" /\ server = "error"
    /\ ProcessEnds("failed")
    /\ UNCHANGED <<started, ended, ring, signal, server, db>>

\* SIGTERM or SIGINT cancels the root context: Setup sees it in monitorDone, the
\* retries of the directory in Returned, the label providers in getLabelProvider
\* and Callable.
Signal ==
    /\ ~signal /\ phase \notin {"failed", "exited"}
    /\ signal' = TRUE
    /\ UNCHANGED <<ldapVars, phase, started, ended, ring, server, db>>

-----------------------------------------------------------------------------
(* The listener: serveHTTP, serveUnix or serveTailscale, then serve.       *)

listen ==
    /\ Up("listener") /\ server = "none" /\ phase \in {"monitor", "wait"}
    /\ server' \in {"serving", "error"}
    /\ UNCHANGED <<ldapVars, phase, started, ended, ring, signal, db>>

\* The goroutine beside Serve: the ring is cancelled, Shutdown begins, and
\* Serve returns with ErrServerClosed.
shutdown ==
    /\ server = "serving" /\ ring >= Ring("listener")
    /\ server' = "draining"
    /\ UNCHANGED <<ldapVars, phase, started, ended, ring, signal, db>>

\* Shutdown returns when the handlers have, or after GracefulShutdownTimeout.
drained ==
    /\ server = "draining" /\ phase # "exited"
    /\ server' = "closed"
    /\ UNCHANGED <<ldapVars, phase, started, ended, ring, signal, db>>

-----------------------------------------------------------------------------
(* The shutdown.                                                           *)

\* ding.Wait cancels the next ring when the one before has ended.
cancelRing ==
    /\ phase = "wait" /\ ring < 4
    /\ \A g \in started \ ended : Ring(g) > ring
    /\ ring' = ring + 1
    /\ UNCHANGED <<ldapVars, phase, started, ended, signal, server, db>>

Cancelled(g) == Up(g) /\ phase = "wait" /\ Ring(g) <= ring
Ends(g) == ended' = ended \cup {g}

\* Mutant: a tick that is due is served over the cancellation, again and again.
janitorsStay(g) == FALSE /\ UNCHANGED vars

\* dbCleanupRoutine, heartbeatRoutine, the sweep of the caches, and the
\* watchAndClose of Docker and Tailscale.
routineEnds(g) ==
    /\ Cancelled(g) /\ g \notin {"listener", "ldap", "database"}
    /\ Ends(g)
    /\ UNCHANGED <<ldapVars, phase, started, ring, signal, server, db>>

\* The listener's goroutine ends when Serve returns, with or without an error.
listenerEnds ==
    /\ Up("listener") /\ server \in {"error", "draining", "closed"}
    /\ phase \in {"monitor", "wait"}
    /\ Ends("listener")
    /\ UNCHANGED <<ldapVars, phase, started, ring, signal, server, db>>

ldapEnds ==
    /\ Cancelled("ldap") /\ Returned
    /\ routine' = [at |-> "ended", tries |-> 0]
    /\ Ends("ldap")
    /\ UNCHANGED <<conn, req, cache, member, tainted,
                   phase, started, ring, signal, server, db>>

databaseEnds ==
    /\ Cancelled("database")
    /\ db' = "closed"
    /\ Ends("database")
    /\ UNCHANGED <<ldapVars, phase, started, ring, signal, server>>

\* Wait returns and so does Setup; the handlers that still run go with it.
exit ==
    /\ phase = "wait" /\ ring = 4 /\ started = ended
    /\ ProcessEnds("exited")
    /\ UNCHANGED <<started, ended, ring, signal, server, db>>

-----------------------------------------------------------------------------

Alive == phase \notin {"failed", "exited"}
Serving == server \in {"serving", "draining", "closed"} /\ Alive

\* What the LDAP service does: requests arrive while the server accepts them.
ldapArrives ==
    /\ server = "serving"
    /\ \E r \in Request, u \in User, k \in {"login", "cookie"} : SearchUser(r, u, k)
    /\ UNCHANGED lifeVars
ldapServes == Serving /\ (\E r \in Request : Step(r)) /\ UNCHANGED lifeVars
ldapAttempt == closeConn \/ \E o \in {"ok", "bindFailed", "dialFailed"} : reconnect(o)
ldapReconnects == Alive /\ ldapAttempt /\ UNCHANGED lifeVars
ldapHeartbeat == Up("ldap") /\ Alive /\ heartbeat /\ UNCHANGED lifeVars
world == Alive /\ (Drop \/ Tick \/ \E u \in User : Regroup(u)) /\ UNCHANGED lifeVars

Terminated == ~Alive /\ UNCHANGED vars

Next ==
    \/ setupStore \/ getLabelProvider
    \/ \E o \in {"ok", "bindFailed", "dialFailed"} : newLdapService(o)
    \/ ldapCertFails \/ ldapGivenUp \/ newServices \/ run \/ monitorDone \/ monitorError
    \/ Signal
    \/ listen \/ shutdown \/ drained
    \/ cancelRing \/ (\E g \in Routine : routineEnds(g))
    \/ listenerEnds \/ ldapEnds \/ databaseEnds \/ exit
    \/ ldapArrives \/ ldapServes \/ ldapReconnects \/ ldapHeartbeat \/ world
    \/ Terminated

Spec == Init /\ [][Next]_vars

\* The process is scheduled and handlers return; signals, requests and changes
\* of the directory need not come.  A directory that was lost is back for one
\* of the attempts to reach it, in the end; and select, which picks one of the
\* cases that are ready at random, does not miss a cancellation for ever.
Fairness ==
    /\ WF_vars(setupStore \/ getLabelProvider \/ ldapCertFails \/ ldapGivenUp
               \/ newServices \/ run \/ monitorDone \/ monitorError
               \/ \E o \in {"ok", "bindFailed", "dialFailed"} : newLdapService(o))
    /\ WF_vars(listen) /\ WF_vars(shutdown)
    /\ WF_vars(cancelRing \/ exit)
    /\ \A g \in Routine : WF_vars(routineEnds(g))
    /\ WF_vars(listenerEnds) /\ SF_vars(ldapEnds) /\ WF_vars(databaseEnds)
    /\ \A r \in Request : WF_vars(Serving /\ Step(r) /\ UNCHANGED lifeVars)
    /\ WF_vars(ldapReconnects)
    /\ SF_vars(Alive /\ reconnect("ok") /\ UNCHANGED lifeVars)
    /\ WF_vars(ldapHeartbeat /\ conn = Closed)
    /\ WF_vars(Alive /\ Tick /\ UNCHANGED lifeVars)

FairSpec == Spec /\ Fairness

-----------------------------------------------------------------------------
(* Properties.                                                             *)

TypeOK ==
    /\ LdapTypeOK
    /\ phase \in {"setupStore", "getLabelProvider", "newLdapService", "ldapRetry",
                  "newServices", "run", "monitor", "wait", "failed", "exited"}
    /\ ended \subseteq started /\ started \subseteq Routine
    /\ ring \in 0 .. 4 /\ signal \in BOOLEAN
    /\ server \in {"none", "serving", "error", "draining", "closed"}
    /\ db \in {"none", "open", "closed"}

\* "1. Janitor routines ... 2. HTTP server listeners ... 3. Networking layers,
\* user and label providers ... 4. Database connection" (app_bootstrap.go):
\* no janitor, neither that of the sessions nor that of the OIDC service, runs
\* without the database, and while the server accepts requests the database is
\* open and no provider has been told to stop.  Docker is the exception that the
\* order does not tell of: from the signal on, with ring 1 still to be cancelled
\* and the server accepting requests, nobody can call it.
StopsInOrder ==
    Alive =>
      /\ Up("dbCleanup") \/ Up("sweep") => db = "open"
      /\ server = "serving" =>
           /\ db = "open"
           /\ \A g \in Provider \cap started : Callable(g) \/ (g = "docker" /\ signal)

\* A signal ends the process, whatever it is doing: setting up, reconnecting to
\* the directory, serving.
ShutdownCompletes == signal ~> phase \in {"exited", "failed"}

\* "LDAP connection heartbeat failed, attempting to reconnect": a connection
\* that is lost is replaced, however often the attempts fail.
Reconnects ==
    conn = Closed /\ phase = "monitor" ~> conn # Closed \/ signal \/ ~Alive

\* "Shutdown order for go routines ... 2. HTTP server listeners ... 4. Database
\* connection" (app_bootstrap.go), and Shutdown gives the handlers
\* GracefulShutdownTimeout: no handler is left without the database.
HandlersHaveDatabase ==
    (\E r \in Request : req[r] # Idle) /\ Alive => db = "open"

\* "~6.75-8.25s total wait time before giving up" (ldap_service.go): Setup gives
\* up on the directory only if it has not been reached.
GivesUpUnconnected ==
    [][ldapGivenUp /\ ~signal => conn # "service"]_vars
=============================================================================
