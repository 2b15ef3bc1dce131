---------------------------- MODULE ForwardAuth -----------------------------
(***************************************************************************)
(* The forward-auth endpoint (proxyHandler of internal/controller/         *)
(* proxy_controller.go) with the lookup of an app's ACLs                   *)
(* (access_controls_service.go) and the Docker label provider              *)
(* (docker_service.go), which asks the daemon about one container after    *)
(* the other while containers come and go.                                 *)
(*                                                                         *)
(* Neither service keeps state between requests, so one request at a time  *)
(* is enough; the containers run beside it.  A request names the proxy,    *)
(* the auth modules whose headers are complete, and who asks for what.     *)
(* The name of an app is compared with the first label of the host.        *)
(***************************************************************************)
EXTENDS AccessPolicy, Integers, Sequences, FiniteSets

CONSTANTS Request,      \* the requests that may come
          FirstLabel,   \* host -> its first label
          PathOf,       \* [uri, module] -> the path a module makes of a URI
          StaticSetup,  \* configurations whose apps are in the config file
          DockerSetup,  \* configurations with labels on containers
          NumContainers \* bound on the containers that are ever created

ASSUME NumContainersAssumption == NumContainers \in Nat

\* In the order of their creation.
Container == 1 .. NumContainers

\* An app is [name, domain, acls]; labels[c] has the apps of a container, or is
\* undecodable.
ASSUME SetupAssumption ==
    \A s \in StaticSetup \cup DockerSetup :
      /\ {"policy"} \cup IPFields \subseteq DOMAIN s.config
      /\ \A a \in s.apps : IsACLs(a.acls)
      /\ \A c \in Container : \A a \in s.labels[c].apps : IsACLs(a.acls)

VARIABLES
    setup,      \* the configuration, fixed from the start
    status,     \* container -> "future", "running", "stopped" or "removed"
    req         \* the request being handled

vars == <<setup, status, req>>

Idle == [at |-> "idle"]

Init ==
    /\ \/ setup \in StaticSetup /\ setup.labelProvider = "none"
       \/ setup \in DockerSetup /\ setup.labelProvider = "docker"
    /\ status \in [Container -> {"future", "running"}]
    /\ \A c, d \in Container : c < d /\ status[d] # "future" => status[c] # "future"
    /\ setup.labelProvider = "none" => \A c \in Container : status[c] = "future"
    /\ req = Idle

-----------------------------------------------------------------------------
(* getProxyContext.                                                        *)

determineAuthModules(proxy) ==
    CASE proxy \in {"traefik", "caddy"} -> <<"ForwardAuth">>
      [] proxy = "envoy"                -> <<"ExtAuthz", "ForwardAuth">>
      [] proxy = "nginx"                -> <<"AuthRequest", "ForwardAuth">>
      [] OTHER                          -> << >>   \* unsupported proxy type

\* The modules that make a context of the headers, in the order they are tried.
Applicable(q) ==
    SelectSeq(determineAuthModules(q.proxy), LAMBDA m : m \in q.modules)

\* The path in the context: each module takes it from another header.
PathSeen(q) == PathOf[q.uri, Head(Applicable(q))]

useBrowserResponse(q) == q.proxy # "nginx" /\ q.browser

\* Errors and refusals are redirects for browsers; a panic never is.
Respond(q, verdict) ==
    [status |-> verdict.status, identity |-> verdict.identity,
     redirect |-> /\ verdict.status \in {"forbidden", "login", "error"}
                  /\ useBrowserResponse(q)]

\* "from" is the container the ACLs are from, 0 if from elsewhere.
Answered(q, verdict, acls, from, steady) ==
    req' = [at |-> "answered", q |-> q, acls |-> acls, from |-> from,
            steady |-> steady, response |-> Respond(q, verdict)]

\* The rest of proxyHandler, once the ACLs are there.
Decide(q, acls, from, steady) ==
    Answered(q,
             Decision(setup.config, acls,
                      [user |-> q.user, ip |-> q.ip, path |-> PathSeen(q)]),
             acls, from, steady)

-----------------------------------------------------------------------------
(* lookupStaticACLs and GetLabels: maps are walked in any order.           *)

ByDomain(apps, host) == {a \in apps : a.domain = host}
ByName(apps, host) == {a \in apps : a.name = FirstLabel[host]}

\* Mutant: the first app that matches in either way.
lookupEither(apps, host) == ByDomain(apps, host) \cup ByName(apps, host)

\* The apps the loop may return: by domain, then by name.
Lookup(apps, host) ==
    IF ByDomain(apps, host) # {} THEN ByDomain(apps, host) ELSE ByName(apps, host)

Running == {c \in Container : status[c] = "running"}

\* proxyHandler up to GetAccessControls, and the whole of it without Docker.
proxyHandler(q) ==
    /\ req = Idle
    /\ IF Applicable(q) = << >>
         THEN Answered(q, Verdict("badRequest", FALSE), NoACLs, 0, {})
       ELSE IF Lookup(setup.apps, q.host) # {}
         THEN \E a \in Lookup(setup.apps, q.host) : Decide(q, a.acls, 0, {})
       ELSE IF setup.labelProvider = "none" THEN Decide(q, NoACLs, 0, {})
         ELSE req' = [at |-> "getContainers", q |-> q, steady |-> Running]
    /\ UNCHANGED <<setup, status>>

Fail(steady) ==
    Answered(req.q, Verdict("error", FALSE), NoACLs, 0, steady)

Descending(s) == \A i, j \in 1 .. Len(s) : i < j => s[i] > s[j]

\* ContainerList returns the running containers, the newest first.
getContainers ==
    /\ req.at = "getContainers"
    /\ \/ \E left \in [1 .. Cardinality(Running) -> Running] :
            /\ Descending(left)
            /\ req' = [at |-> "inspectContainer", q |-> req.q, steady |-> req.steady,
                       left |-> left]
       \/ Fail(req.steady)
    /\ UNCHANGED <<setup, status>>

\* Mutant: a container that cannot be inspected is passed over.
inspectOrSkip ==
    /\ req.at = "inspectContainer" /\ req.left # << >>
    /\ LET labels == setup.labels[Head(req.left)]
           found == IF labels.decodable THEN Lookup(labels.apps, req.q.host) ELSE {}
       IN  \/ req' = [req EXCEPT !.left = Tail(@)]
           \/ \E a \in found : Decide(req.q, a.acls, Head(req.left), req.steady)
    /\ UNCHANGED <<setup, status>>

\* ContainerInspect, which fails for a container that is gone and may fail for
\* any, the decoding of its labels, and the search among them.
inspectContainer ==
    /\ req.at = "inspectContainer" /\ req.left # << >>
    /\ LET c == Head(req.left)
           labels == setup.labels[c]
           found == Lookup(labels.apps, req.q.host)
       IN  \/ Fail(req.steady)
           \/ /\ status[c] # "removed" /\ labels.decodable
              /\ \/ /\ found = {}
                    /\ req' = [req EXCEPT !.left = Tail(@)]
                 \/ \E a \in found : Decide(req.q, a.acls, c, req.steady)
    /\ UNCHANGED <<setup, status>>

\* No container matched.
noContainer ==
    /\ req.at = "inspectContainer" /\ req.left = << >>
    /\ Decide(req.q, NoACLs, 0, req.steady)
    /\ UNCHANGED <<setup, status>>

finish ==
    /\ req.at = "answered"
    /\ req' = Idle
    /\ UNCHANGED <<setup, status>>

-----------------------------------------------------------------------------
(* The daemon, which is external: containers are created, stop, start      *)
(* again and are removed.  Their labels never change.                      *)

containerStart(c) ==
    /\ setup.labelProvider = "docker"
    /\ \/ status[c] = "stopped"
       \/ status[c] = "future" /\ \A d \in Container : d < c => status[d] # "future"
    /\ status' = [status EXCEPT ![c] = "running"]
    /\ UNCHANGED <<setup, req>>

containerStop(c) ==
    /\ status[c] = "running"
    /\ status' = [status EXCEPT ![c] = "stopped"]
    /\ req' = IF req.at \in {"getContainers", "inspectContainer"}
                THEN [req EXCEPT !.steady = @ \ {c}] ELSE req
    /\ UNCHANGED setup

containerRemove(c) ==
    /\ status[c] = "stopped"
    /\ status' = [status EXCEPT ![c] = "removed"]
    /\ UNCHANGED <<setup, req>>

Next ==
    \/ \E q \in Request : proxyHandler(q)
    \/ getContainers \/ inspectContainer \/ noContainer \/ finish
    \/ \E c \in Container : containerStart(c) \/ containerStop(c) \/ containerRemove(c)

Spec == Init /\ [][Next]_vars

-----------------------------------------------------------------------------
(* Properties.  req.steady, a history, are the containers that have been   *)
(* running from the arrival of the request on.                             *)

TypeOK ==
    /\ status \in [Container -> {"future", "running", "stopped", "removed"}]
    /\ req.at \in {"idle", "getContainers", "inspectContainer", "answered"}
    /\ req # Idle => req.q \in Request /\ req.steady \subseteq Container
    /\ req.at = "inspectContainer" => req.left \in Seq(Container) /\ Descending(req.left)
    /\ req.at = "answered" =>
         /\ req.response.status \in
              {"ok", "badRequest", "forbidden", "login", "error", "panic"}
         /\ req.response.identity => req.q.user.authenticated

Decided == req.at = "answered" /\ req.response.status \notin {"badRequest", "error"}

VerdictWith(config, acls) ==
    Decision(config, acls,
             [user |-> req.q.user, ip |-> req.q.ip, path |-> PathSeen(req.q)])

BadFilter(kind) == [kind |-> kind, accepts |-> {}]
BadItem == [valid |-> FALSE, covers |-> {}]

\* The ACLs with one of their filters, or one of the entries of an allow or a
\* bypass list, misspelt: a filter that does not compile, or of which the lone
\* slash is left.
Misspelt(acls) ==
    LET lists == {f \in FilterFields : acls[f].kind = "list"}
    IN  {[acls EXCEPT ![f] = BadFilter("invalid")] : f \in lists}
        \cup {[acls EXCEPT ![f] = BadFilter("slash")] : f \in lists \ PathFields}
        \cup UNION {{[acls EXCEPT ![f] = (@ \ {i}) \cup {BadItem}] : i \in acls[f]} :
                      f \in {"ipAllow", "ipBypass"}}

\* A mistake in the ACLs never opens an app: whoever is refused by them would
\* be refused as well if one of their filters did not compile or were the lone
\* slash, which CheckFilter panics at, or if one of the addresses on an allow or
\* bypass list did not parse ("Invalid entry in ...",
\* access_controls_rules.go).  Block lists of addresses are the exception: the
\* code skips what it cannot read there.
MistakesNeverOpen ==
    Decided /\ req.acls.exist /\ req.response.status # "ok" =>
      \A acls \in Misspelt(req.acls) : VerdictWith(setup.config, acls).status # "ok"

\* "access to apps will be blocked by default unless explicitly allowed"
\* (policy_engine.go): the default policy decides about nobody but logged-in
\* users for whom the app has no list, and the policy "deny" never admits
\* somebody "allow" does not.  OAuth users always have a list, the whitelist.
DefaultOnlyForUnlisted ==
    Decided =>
      LET under(p) == VerdictWith([setup.config EXCEPT !.policy = p], req.acls)
          user == req.q.user
      IN  under("allow") # under("deny") =>
            /\ user.authenticated
            /\ under("deny").status = "forbidden"
            /\ \/ ~req.acls.exist
               \/ /\ ~IsOAuth(user)
                  /\ req.acls.usersBlock.kind = "unset"
                  /\ req.acls.usersAllow.kind \in {"unset", "blank"}

\* "merge global and per-app block/allow lists": it makes no difference to
\* anybody whether an address is on the list of the app or on the global one.
ListsMerge ==
    Decided /\ req.acls.exist =>
      LET global == [f \in DOMAIN setup.config |->
                       IF f \in IPFields THEN setup.config[f] \cup req.acls[f]
                                         ELSE setup.config[f]]
          local == [f \in DOMAIN req.acls |-> IF f \in IPFields THEN {} ELSE req.acls[f]]
      IN  VerdictWith(global, local) = VerdictWith(setup.config, req.acls)

Claims(apps, host) == ByDomain(apps, host) \cup ByName(apps, host) # {}

\* Containers that come and go beside a request, and a daemon that fails, never
\* make the app of a container that runs all the time look unprotected: the
\* request gets its ACLs or an error, never the default policy.
NeverUnprotected ==
    Decided /\ ~req.acls.exist =>
      /\ ~Claims(setup.apps, req.q.host)
      /\ \A c \in req.steady : ~Claims(setup.labels[c].apps, req.q.host)

\* "First try to find a matching app by domain, then fallback to matching by
\* app name (subdomain)", whatever the order of the map, in the config file
\* and on each container; of two containers that run all the time and claim
\* the host, the newer one wins, by its name even where the older one has the
\* domain.
FirstMatchWins ==
    Decided /\ req.acls.exist =>
      LET host == req.q.host
          apps == IF req.from = 0 THEN setup.apps ELSE setup.labels[req.from].apps
      IN  /\ ByDomain(apps, host) # {} =>
               \E a \in ByDomain(apps, host) : a.acls = req.acls
          /\ req.from # 0 =>
               /\ ~Claims(setup.apps, host)
               /\ \A c \in req.steady : c > req.from => ~Claims(setup.labels[c].apps, host)
=============================================================================
