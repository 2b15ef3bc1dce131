# A TLA+ verification of tinyauth

tinyauth is an authentication server that sits beside a reverse proxy: it logs
users in (passwords with optional TOTP, LDAP, OAuth providers, Tailscale), keeps
their sessions, answers the proxy's forward-auth requests, and acts as an OpenID
Connect provider for other applications. This directory holds TLA+ models of the
parts of it where the order of events matters, TLC configurations that check them
on small instances, and proofs that TLAPS checks.

Paths below are relative to the repository; `internal/...` is where nearly all of
the program lives.

## 1. Inventory

| Component | Source | State | Operations | What makes it hard | What makes it correct |
|---|---|---|---|---|---|
| Cache store | `service/cache_store.go` | a map with expiries, a slice of its keys in order of insertion, a mutex, a capacity | Set, Get, Update, Delete, Sweep, Clear, WithLock | two copies of one key set; three kinds of victims for an eviction; expired entries linger until swept | map and slice agree; capacity; callers see a plain map of live entries; expired entries are reclaimed |
| Login sessions | `service/auth_service.go`, `middleware/context_middleware.go`, `controller/user_controller.go` | table `sessions` | login, TOTP, logout, read, refresh, discard, cleanup | every request reads, decides and writes in separate statements; statements fail | what was logged out stays out; sessions end; TOTP cannot be passed by |
| Login limiter and lockdown | `service/auth_service.go` | a cache of attempts per identifier, the lockdown flag and timer | check, record, lockdown | the check, the verification and the record are not one step; goroutines and timers | locks hold, are not overrun without bound, and end; the cache does not grow without bound |
| OpenID Connect provider | `controller/oidc_controller.go`, `service/oidc_service.go` | caches of tickets, codes and used codes; table `oidc_sessions` | authorize, consent, exchange, refresh, userinfo, cleanup | one handler touches three caches and a table, nothing spans two accesses; restarts empty the caches | a code is good for one token pair, for the right client and user; reuse and re-authorization revoke |
| OAuth login | `controller/oauth_controller.go`, `service/oauth_*.go`, `service/auth_service.go` | a cache of pending sessions | start, callback, token, userinfo, end | calls to the provider between reads and updates of the pending session; eviction and expiry in mid-flow | one pending session, one login; the deferred clean-up always runs |
| Access control policy | `service/policy_engine.go`, `service/access_controls_*.go` | rules registered by name, static ACLs | evaluate | combination of allow, deny and abstain under two default policies; lookup in an unordered map | the default policy decides only where no list does; global and per-app lists merge |
| Forward-auth controller | `controller/proxy_controller.go` | none | decide per request | order of the decisions | no way around a deny; mistakes in a list never open an app |
| Kubernetes provider | `service/kubernetes_service.go` | ingresses and two indexes | watch events, resync, lookup | two ingresses with one domain; missed events | index agrees with the ingresses |
| LDAP service | `service/ldap_service.go` | one shared connection and its bind state | search, bind, rebind, reconnect | a bind and the rebind are two locked sections; reconnects beside requests; groups are read and cached in two steps | searches run as the service account; a lost connection comes back; removals from a group take effect |
| Bootstrap and shutdown | `bootstrap/*.go` | goroutines in rings, listeners, the database | set up, stop | order of stopping, handlers still in flight, signals during the set-up | what others need stops after them; every signal ends the process |
| Docker provider | `service/docker_service.go` | none: every lookup asks the daemon | list, inspect one by one | containers come and go between the calls | a protected app never looks unprotected |
| Tailscale, repository, utilities, CLI, generators, frontend | | little or none | | I/O, generated code or pure formatting | |

The components meet in three places. The services keep their short-lived state in
cache stores (pending OAuth sessions, login attempts, LDAP groups, tickets, codes,
used codes). The handlers run concurrently, one goroutine per request, and share
those caches and the two tables. The context middleware runs before every handler
that needs a user, and so a session can be read, discarded or refreshed by any
request. Goroutines in the background sweep the caches, clean the tables, time the
lockdown and keep the providers' connections.

`PROJECT.json` lists every component with what is modelled of it, and under
`hazards` each place where the code is hard to test.

## 2. Modules

    BoundedMap          what a cache promises (abstract)
      CacheStore        cache_store.go, shown to implement BoundedMap
        CacheStoreProofs  its invariants and the refinement, proved
      OIDCProvider      uses three BoundedMaps
        OIDCProviderProofs
      LoginLimiter      uses one BoundedMap
        LoginLimiterProofs
      OAuthLogin        uses one BoundedMap
        OAuthLoginProofs
    UserSessions        the table of sessions and the requests on it
      UserSessionsProofs
    KubernetesIndex     the index of ingresses and its watcher
      KubernetesIndexProofs
    AccessPolicy        the rules and the order they are asked in, as functions
      ForwardAuth       requests of the proxy, app lookup, Docker's containers
        ForwardAuthProofs  laws of the policy, and the invariants, proved
    LdapService         the LDAP connection, the cache of groups, their requests
      Lifecycle         Setup, goroutines in rings, listener and shutdown,
                        composed with the LDAP service
        LifecycleProofs

`MC*.tla` instantiate them for TLC, with symmetry sets and the sets a cfg cannot write; `MC*.cfg` give the bounds.

**How handlers are modelled.** A request in flight occupies a slot of the constant
`Request`. The slot records where the handler stands (`at`) and what it has read.
Each access to shared state that the code performs under one lock, or as one SQL
statement, is one action; everything between two accesses is folded into the
second. So two slots give every interleaving the Go scheduler can produce. In
`OIDCProvider` and `UserSessions` the variable `serial`, fixed in the initial state,
also makes handlers wait for each other, which gives the program as its tests run it;
one run covers both. Requests that are refused before
they touch anything have no step. Any SQL statement may fail, and then the handler
goes on the way its error path does.

**Definitions with "Mutant" above them** are not part of the models: each is a
plausible mistake in the operation defined after it, kept to show that the
properties would notice. Replacing the operation by the mutant makes TLC report a
violation of the property that `PROJECT.json` pairs it with.

### CacheStore and BoundedMap

`cache` and `order` are the map and the slice. Each exported operation is an action,
because it holds the mutex from start to end; `Sweep` is opened into `SweepLock` and
`SweepVisit`, one per entry, because it reads the clock anew for each entry.
`evictOne` is the set of keys the loop over a Go map may settle on.

`BoundedMap` has only live entries. An eviction takes the entry that expires
soonest, or any entry when none expires. `CacheStore` implements it with
`live <- LiveEntries`: sweeping is invisible, and an expired entry that is in the way is
evicted before a live one, at the abstract level an insertion into a map with room.

`evictOne` tells "nothing found" by the key `""`. An entry stored with a ttl under
that key would be passed over, so the refinement holds for keys other than
`EmptyKey`. The program has no such entry: keys with a ttl are uuids, hashes and
random strings, and the distinguished name of an LDAP user.

### OIDCProvider

| Actions | Code |
|---|---|
| `authorize` | `OIDCController.authorize`, `CreateAuthorizeRequestTicket` |
| `completeRead`, `completeDeleteTicket`, `completeDeleteOldSession`, `completeCreateCode` | `authorizeComplete`, its four accesses |
| `exchangeTake`, `exchangeCheckUsed`, `exchangeRevoke` | `Token` up to `GetCodeEntry`, and the branch on reuse |
| `exchangeMarkUsed`, `exchangeCreate` | `MarkCodeAsUsed`, the checks, `GenerateAccessToken` |
| `refreshRead`, `refreshUpdate` | `RefreshAccessToken` |
| `userinfoRead`, `userinfoForget` | `GetSessionByToken` |
| `cleanup` | `cleanupRoutine` |
| `Restart` | the process stops and starts over the same SQL database |

Codes, tickets and token pairs are numbers in order of issue, since the program's
are random and do not repeat. `issued`, `grants`, `reused` and `revoked` are history:
no guard reads them, except to number codes and to choose the codes a client may
present. The caches are taken at their abstract level; the runs keep their 256
places, so no eviction happens in them. Userinfo has a trace in the state only when
it deletes. Scope, nonce, claims, redirect uri and PKCE are one bit, `valid`.

### LoginLimiter

`begin`, `checkAttempt` are `IsAccountLocked`; what the caller then does with the
password or TOTP code touches nothing here, so its outcome is drawn in the step that
reports it, `record`, or `unrecorded` when nothing is reported (a search error, a
password that leads on to TOTP); `record`, `recordFull`, `update` are
`RecordLoginAttempt`; `lockdownEnter`, `lockdownClear`, `lockdownExit` are the goroutine
`lockdownMode`, whose last part holds `lockdown.mu` while the cache, with its own
mutex, can still be written. Time is relative (what is left of a lock), so the
model is finite without a bound on time. Counts of failures saturate at the limit.
A lockdown cut short by the end of the process is left out.

### UserSessions

`login` is the end of the password, OAuth and Tailscale logins. A request with a
cookie goes through `getSession`, `provider`, `refresh`, `updateSession`
(`GetSession`, `cookieAuth`, `RefreshSession`) and on to its endpoint; logout goes
by the cookie alone, whatever the middleware found. `provider` is a free choice for
anything but a local user: the directory, the broker or Tailscale may know the user
or not. `verifyTotp`, `deletePending`, `createFull` are `totpHandler`. `DeleteSession`
logs a failing statement and reports success, which `deletes` records.
Rows older than the column `created_at` are not modelled.

### OAuthLogin

`NewOAuthSession` and `GetOAuthURL` are `oauthURLHandler`; `callback`, `getToken`,
`updateToken`, `userinfo`, `GetOAuthService`, `create` and `end` are
`oauthCallbackHandler`, `end` being the deferred `EndOAuthSession` that every path after
`callback` leads to. A pending session's id stands for its state and verifier too.
The provider is external: a user who was sent to it gets a code (`consent`), and it
takes a code once, from its own client, with the verifier it was asked for with
(`GetToken`). The exchange is folded into the update that follows it: what it changes at
the provider concerns that code only.

### KubernetesIndex

`ingressApps`, `domainIndex` and `appNameIndex` are the three maps, `addIngressApps`,
`removeIngress` and `updateFromItem` the operations on them. A manifest is reduced to
what `updateFromItem` reads of an ingress, and `Valid` is what it keeps. `resyncList`,
`resyncItem`, `watchStart`, `event`, `watchClosed` and `stop` are the goroutine
`watchGVR` with `runWatcher` and `resyncGVR`; `phase` is where it stands, `todo` the rest
of a list being applied. The API server is external and behaves as its documentation
says for requests without a resource version: a list is current, a watch begins with
the ingresses there are. `unseen` and `contested` are history.

### AccessPolicy and ForwardAuth

`AccessPolicy` has no state: one operator for each rule of `access_controls_rules.go`,
with its order of checks and its way with each kind of error, `effectToAccess` for the
policy engine, and `Decision` for the order in which `proxyHandler` asks them. A filter
is known by what `CheckFilter` makes of it (unset, blank, a regular expression that
does not compile, a lone slash, or the inputs it accepts), an entry of an IP list by
whether it parses and which addresses it covers. The path filters do not go through
`CheckFilter`: whatever is set is a regular expression, so a path filter is unset, does
not compile, or is the paths it matches ("/" matches them all).

`ForwardAuth` is a request from the choice of an auth module (`determineAuthModules`,
`Applicable`) through the lookup of the app (`Lookup`, in the config file first) to the
answer. With Docker, `getContainers` and one `inspectContainer` per container are steps
of their own, and containers start, stop and are removed between them; the daemon may
fail at each. Neither service keeps anything between requests, so one request at a
time is enough. `steady`, the containers that ran all the time, is history. The
response headers of an app and the text of redirects are left out.

### LdapService and Lifecycle

`conn` is the connection all requests share and the account it is bound to. Each
locked section is a step: `SearchUser`, `bind`, `rebind`, `GetUserGroups` of requests,
`closeConn` and `reconnect` of the goroutine that looks after the connection
(`closeConn` is not locked at all in the code). The directory is external: a search as
the service account sees the group memberships, a search as anybody else may see
fewer, and a failed bind leaves a connection anonymous, as RFC 4511 says. `tainted`
records that. One group stands for all.

`Lifecycle` has the steps of `Setup` that start something or can fail, the goroutines
given to `ding` with their rings, `serve`, and the shutdown. `ding` is a library whose
source is not in the repository; the model takes from its use that `Wait` cancels one
ring after the other and waits for the goroutines of each. `sweep` stands for the OIDC
clean-up too, which has the same ring. Of the two label providers at most one is
configured: without its daemon Docker is left out, without its API Kubernetes ends
`Setup`. LDAP is always configured in the model. The process ends with its handlers when
`Setup` returns, with or without an error.

A signal cancels the root context. `Setup`, the retries of the directory and the start of
the label providers see that, and so does the Docker provider for as long as it lives,
because it keeps that context for its calls: `Callable` says which providers still have
an answer to give.

## 3. What is checked

| Run | Instance | Properties |
|---|---|---|
| `cache_store` | 3 keys, 2 values, ttl 0, 1 or 2, capacity 2, time to 4, fair sweeper | `TypeOK`, `OrderMatchesCache`, `SizeBounded`, `ImplementsBoundedMap`, `ExpiredIsReclaimed` |
| `oidc` | 2 requests, overlapping or serial, 2 clients, 2 tickets, 2 codes, 1 restart; serial: 3 token pairs, time to 3; overlapping: 2 pairs, time to 2 | `TypeOK`, `CodeRedeemedOnce`, `GrantsFollowConsent`, `ReuseDetected`; serial: `RevocationsHoldSerially`, `UsedOnceSerially`, `ForgetsOnlyDead` |
| `login_limiter` | 5 identifiers, 2 failures to a lock, locks of 2 units, limit of 2 identifiers, 2 requests, lockdown on, fairness | `OverrunBounded`, `LimiterBounded`, `LockHolds`, `EveryLockEnds` |
| `user_sessions` | a user with TOTP; 2 overlapping requests, 2 sessions, time to 5; or serial requests, 3 sessions, time to 4 | `TypeOK`, `DeletedForGood`, `IdleSessionExpires`, `SecondFactorRequired`, `LifetimeRespected`; serial: `PendingUsedOnce`, `DiscardsOnlyDead` |
| `oauth_login` | 2 requests, 2 providers, 2 pending sessions on 1 place, 2 codes | `PendingEnds`, `LoginConsented` |
| `kubernetes_index` | 2 ingresses, 2 domains, 2 names, 4 manifests, any initial cluster, 2 changes, fair resyncs | `TypeOK`, `IndexSound`, `ClaimsIndexed`, `NothingOverlooked`, `ServedInTheEnd` |
| `forward_auth` | every configuration with at most 2 settings besides the defaults out of 41, under both policies; 10 kinds of user, 3 addresses, 2 paths; 4 proxies and an unknown one with 3 sets of headers; 2 containers with 6 label sets each | `MistakesNeverOpen`, `DefaultOnlyForUnlisted`, `ListsMerge`, `NeverUnprotected`, `FirstMatchWins` |
| `lifecycle` | 1 LDAP user, 2 requests, 2 attempts to reconnect, groups cached for 1 unit, Docker configured, fairness | `BoundAsService`, `StopsInOrder`, `RemovalTakesEffect`, `ShutdownCompletes`, `Reconnects` |

`TypeOK` is stated in every module and checked by the runs that list it; in the other
modules it is proved only (section 4).

**Why these bounds.** In the cache, three keys over a capacity of two evict in every
state of the others (live, expired, everlasting), and ttls of 1 and 2 order two
expiries. In the provider, two tickets let one consent overtake another, two codes
let one authorization revoke another, three token pairs allow an exchange, a refresh
and a competing one; the ttls keep the source's order (a code 1, its mark 2) and
time goes far enough for everything to die. Two slots give every pair of handlers.
In the limiter, two failures separate counting from locking, one known and four
unknown identifiers overrun a limit of two by more than the two slots, and a lock of two
units can be set anew between one tick and the next, so that time alone ends none: without
the check of the lock, one handler after the other would prolong it for ever, which is
the mutant of `EveryLockEnds`. In the sessions, an expiry of 2 and a lifetime of 3 allow two refreshes before the lifetime
cuts; three sessions are a pending one and two made from it. In the OAuth login a cache
of one place loses a session to the next at every point of a flow, and two codes for one
session let two callbacks exchange its token under each other. In the Kubernetes
index two ingresses compete for a domain, for a name or for both, also from the start,
and two changes are enough for a removal and a change that is lost with its watch.
For the policy, two settings are what every branch of every rule depends on, and each
kind of filter meets each kind of user; two containers have an order and can disappear
under each other. In the life cycle two requests are a login between bind and rebind
and a search beside it, or two logins; two attempts to reconnect are a failed one and a
last one; a ttl of 1 expires between any two steps.

**Fairness.** Four runs assume any. The sweepers run from tickers and hold the mutex
for one loop, so `SweepLock` and `SweepVisit` are weakly fair. For the limiter, time
passes and an exiting lockdown proceeds; nothing is assumed about handlers, which may
hang in a verification, about goroutines being scheduled, or about users coming back.
For the index, a resync is asked for again and again, because the ticker is polled
wherever the goroutine waits, and its loop does not block; that lists succeed in the
end is an assumption on the API server. Nothing is assumed of the watch.
In the life cycle the steps of the process itself are weakly fair: goroutines are
scheduled, handlers return, the ticker of the heartbeat comes round. Two things need
strong fairness. The LDAP goroutine chooses between its ticker and the cancellation
with `select`, which picks at random among what is ready, so it does not miss the
cancellation for ever. And the directory, once lost, answers one of the attempts in the
end, an assumption on the directory that `Reconnects` cannot do without. Signals,
requests, lost connections and changes of the directory need not happen.

**Serial and overlapping requests.** `RevocationsHoldSerially`, `UsedOnceSerially`,
`ForgetsOnlyDead`, `PendingUsedOnce` and `DiscardsOnlyDead` hold while requests do not
overlap, with time, cleanups, failing statements and restarts between any two steps.
With overlapping requests they do not hold. Where a document of the repository states
the property, a run of its own exhibits the overlap, and two more runs show where the
start and the end of the process differ from what comments say:

| Run | What it shows |
|---|---|
| `oidc_reuse_race` | One exchange has marked its code as used and not yet created the session; the other detects the reuse and deletes a session that is not there; then the session appears. A test says that a reused code deletes the session. |
| `oidc_revoked_race` | A refresh has read the session; a new consent deletes it and its code is exchanged; the refresh then updates the row of the same `sub`, which restores the old authorization and kills the new tokens. The comment in `authorizeComplete` says the old session is deleted before the code is stored. |
| `ldap_startup` | The first connect to the directory fails, the reconnect succeeds, and `NewLdapService` returns an error all the same; Setup ends. The comment above the call speaks of a wait "before giving up". |
| `shutdown_order` | A handler is running when the listener's ring is cancelled. `Serve` returns as soon as `Shutdown` begins, so the ring is done; `Shutdown` waits for handlers in a goroutine `ding` does not know. The database is closed under the handler. The comment in `app_bootstrap.go` puts the database behind the listeners. |

For the others (`ForgetsOnlyDead`, `UsedOnceSerially`, `PendingUsedOnce`,
`DiscardsOnlyDead`) the repository makes no statement that an overlap would contradict;
they are listed as hazards. (For `ForgetsOnlyDead` a comment
in `GetSessionByToken` gives the reason for the delete, "no way for the client to access
anything anymore", which a refresh that overlaps makes untrue.) More observations:

* `IdleSessionExpires` needs a session expiry of at most one hour or at least two. In
  between, a refresh adds an hour to a session with up to an hour left, and an idle
  session lives longer than configured.
* An ingress that is deleted between a list and the start of a watch, or whose Deleted
  event is lost with a watch, stays in the index until it is created again, since a
  resync removes nothing. `NothingOverlooked` shows that there is no other way to a stale
  ingress.
* With one lockdown after another, an identifier may be locked anew between `Clear` and
  the end of a lockdown, so that lock and lockdown end but not both at once
  (`EveryLockEnds` says so).
* With lockdown disabled the login cache is bounded and, as its entries do not expire,
  evicts the first in its slice of keys, locked or not.
* A goroutine of `lockdownMode` that is scheduled only after a lockdown has ended starts
  another one.
* Of two overlapping refreshes of a login session the later write may carry the older
  expiry.
* Two ingresses that declare one domain: removing the one the index does not name takes
  the domain out of the index until the next resync (`ServedInTheEnd`, `ClaimsIndexed`).
* Of two containers, a match by name on the newer one beats a match by domain on the
  older: "first by domain, then by name" holds within one container (`FirstMatchWins`).
* `app_bootstrap.go` stops the label providers after the listeners, but `DockerService`
  keeps the root context (`docker_service.go:52`) and lists and inspects under it: from the
  signal on every lookup of a label fails, and with it every forward-auth request that is
  not for an app of the config file, while the server goes on accepting requests until
  the first ring has ended, up to the 30 seconds that a request of the analytics heartbeat
  may take. `StopsInOrder` names this exception. `OAuthService` keeps the root context in
  the same way for the exchange of a code (`oauth_service.go:78`), and a reconnect to the
  directory gives up. Kubernetes is asked in its own maps, and Tailscale
  by the context of the request.
* A container removed between the list and its inspection, or any with labels that
  cannot be decoded, makes every lookup fail that reaches it: 500, never the default
  policy (`NeverUnprotected`).
* An address on a block list still reaches paths that need no authentication, since
  those are decided before the IP rule. Entries of a block list that do not parse are
  skipped, which is why `MistakesNeverOpen` leaves them out. A lone slash is a mistake that
  refuses with a panic where `CheckFilter` reads it, and not a mistake in a path filter,
  where it is the expression that matches every path. OAuth users are not
  subject to `users.block`, and an app with ACLs and no whitelist denies all of them.
* Path rules see the query string with the modules ForwardAuth and ExtAuthz and not
  with AuthRequest.
* A failed bind, by a wrong password, leaves the shared LDAP connection anonymous; the
  heartbeat searches the root DSE, which anybody may, and does not notice. The next
  login that succeeds mends it (`BoundAsService` excludes this through `tainted`).
* `basicAuth` asks for the groups of the user name, `cookieAuth` for those of the DN; an
  LDAP user with basic auth has no groups. This is not in the model.
* A `GroupCacheTTL` of 0 makes cache entries without expiry, and groups are never read
  again; the model assumes a positive one.

## 4. What is proved

Eight modules hold theorems. Every safety property that a run checks is proved, for every
value of the constants: any number of requests, users, clients, keys, containers and
ingresses, any capacities and times. The bounds of the models (`MaxTime`, `MaxCodes`
and so on) are constants too, so a theorem holds under each of them. `PROJECT.json` pairs the
theorems with the properties.

**Assumptions.** The modules' `ASSUME`s, which TLC evaluates in every run: durations,
capacities and bounds are natural numbers, marks such as `Never` are not, sets of slots and
ingresses are finite where they are counted, the configuration is one that `Setup` accepts
(`LifetimeAssumption`) and that the decoders can yield (`SetupAssumption`), and the code's
constants are as in the source where a model depends on it. Four theorems have a hypothesis
of their own, which TLC's instances and the program's defaults satisfy:

| Theorem | Hypothesis | Why |
|---|---|---|
| `StoreIsBoundedMap` | `EmptyKey \notin Key` | an entry under `""` would be passed over by `evictOne` |
| `ReuseIsDetected` | `CacheSuffices`: a mark lives as long as a code, and `usedCode` has room for every code | a mark that expires or is evicted first lets a reused code look unknown; the source has 2 minutes against 1. It has 256 places, so the theorem says nothing of behaviours with more codes than that, where the oldest mark may go |
| `IdleSessionsExpire` | `ThresholdFits`: the expiry is at most one hour or at least two | between them a refresh adds an hour to a session with up to an hour left |
| `LocksHold` | `LockdownEnabled` | without it the cache is bounded and an entry that is locked may be evicted |

**CacheStore.** `SizeBounded` alone is not inductive, since an eviction frees a place only
if `evictOne` names a key of the map, and its last resort takes that key from the slice; so
agreement of the two is needed, and agreement is kept by `deleteCallback` only because
the slice has no duplicates (it removes one occurrence). `IInv` is the conjunction of
the three. `Rep(c, o)` states the agreement of a map and a slice in themselves, so that the
two halves of `Set`, eviction and storing, each have a lemma. The refinement needs the same
invariant: when an expired entry is still in the map, there are fewer live entries
than places (`NotFull`), so what takes the place of an expired entry is an insertion into
an abstract map with room (`SetIsPut`); when there is none, the map is what callers see
and `evictOne` picks one of the abstract victims (`EvictsVictim`). `StepIsAbstractStep`
has one step per operation; sweeping is a stutter.

**KubernetesIndex.** `IndexSound` is inductive by itself: an entry that leads to an
ingress is among the domains that are deleted when that ingress changes, because the entry
was sound. That is what makes deleting by domain safe, and also why it takes too
much. `ClaimsIndexed` needs `CollisionsKnown` (whatever two stored ingresses share is in
`contested`): only then is a domain that disappears with one ingress nobody else's. Each is
proved once for `addIngressApps` and once for `removeIngress`, and carried over to the steps of the
goroutine by `UpdateKeepsIInv`. `NothingOverlooked` speaks of the last event of an ingress
that is on its way; its invariant `SeenInv` says that the last one always says what
the cluster has, that with none on its way the index has it already, and that no event
is on its way without a watch.

**OIDCProvider.** All the properties rest on `Types`, which also says which codes
and token pairs were given out. `GrantsFollowConsent` needs `ConsentInv`: every entry, row,
slot and grant agrees with the consent its code stands for, so that what a handler read
earlier and uses now was never anything else. `CodeRedeemedOnce` needs `OnceInv`: a code
in the cache is not paid, and of the handlers that redeem, no two have the same code, which
`exchangeTake` guarantees by taking the code in the step that reads it. The serial
properties need `AloneInv`, that only one slot is in use, and what each handler relies on
between two accesses (`RevInv`, `RotateInv`, `ConsentOnceInv`, `DeadInv`).
`ReuseDetected` needs `MarkedInv`: a code that is paid or about to be is marked for as long
as it was good.

**UserSessions.** `DeletedForGood` is inductive once the record of deletes names only
sessions that were created, because uuids are not given out twice and `updateSession`
writes only rows that are there. `SecondFactorRequired` needs that whoever is verifying a
TOTP code read a pending session (`TotpInv`), and for the time between the password and
the code that a pending session expires an hour after it was made and that only full
sessions are ever refreshed (`HourInv`); an expiry of `created[u].time + Hour` that
`getSession` still accepts is then a bound on `now`. `LifetimeRespected` follows step by step:
`created` and the row agree on the time of the login, and the check precedes every use.
`IdleSessionExpires` needs the expiry that a handler has computed and not yet written;
two refresh thresholds fit into the expiry. `PendingUsedOnce` and `DiscardsOnlyDead` are
serial and rest on `AloneInv`.

**OAuthLogin.** `PendingEnds` is inductive with the expiry of each entry (`EndsInv`): the
update of a token keeps it and needs the entry to be there. `LoginConsented` needs
`ConsentInv`: a pending session's token, and what each callback holds, came from a code of
that very session, which only a consent at its provider makes.

**AccessPolicy and ForwardAuth.** `DecisionCases` lists how `Decision` can end; from it and
from `DecisionOk`, three laws hold for all ACLs and visitors: misspelling an entry (to
something that does not compile or parse, or to a lone slash) admits nobody (`MistakesLaw`), global and per-app lists are one (`MergeLaw`), and the
default policy decides about the unlisted only (`DefaultLaw`). They need nothing of the
configuration but its shape. The properties are these laws for the answer that was
given, which `IInv` ties to the ACLs it was decided on. `NeverUnprotected` and
`FirstMatchWins` need `Inspecting`: the containers that ran all the time and claim the host
are still among those left to inspect, which are in descending order.

**LdapService and Lifecycle.** `BoundAsService` is inductive over the connection, the
slots and `tainted` alone, and the steps of `Lifecycle` leave those alone or end the process.
`StopsInOrder` needs three more parts: rings are cancelled in order, each when the
goroutines of the ones before it have ended (`RingsInOrder`); the database is open from the start
of its goroutine to its end, and that start comes first (`DatabaseKnown`); and a server
that accepts requests still has its goroutine (`ServerHeld`). So the second ring is the
last that can be cancelled then, and the providers are in the third: none has ended or
been told to stop. What the theorem does not say is that Docker can be called: after the
signal it cannot, and the formula says so.

**LoginLimiter.** `OverrunBounded` counts the handlers that have passed the check and
not yet recorded (`Past`): of a locked identifier, what was recorded since and what may
still be is less than the number of handlers, since the one that set the lock is among
neither. `LimiterBounded` counts in the same way the entries of strangers and the failures that
have passed the check of the size and are about to be stored (`SizeInv`); the cache is full for
everybody else. `LockHolds` is proved step by step from the types.

**Only model-checked.** The liveness properties, `ExpiredIsReclaimed`, `EveryLockEnds`,
`ServedInTheEnd`, `RemovalTakesEffect`, `ShutdownCompletes` and `Reconnects` (fairness and
ENABLED are out of the prover's reach), and what the four runs with a violation show.

## 5. Not modelled

The other controllers, parsing and formatting, the CLI, generators and frontend: no
state, no order of events. SQL is taken at the level of atomic statements, and the
stores are assumed to survive a restart, which the in-memory one does not.
Configuration is fixed for the life of a model. Of Tailscale only the start and the
place in the shutdown are modelled: the service is a thin layer over its client, and
what a listener does that is created after `watchAndClose` depends on `ding`.

## 6. Plan

Every property that TLC checks and TLAPS can reach has its theorem. What could follow is
what the models leave out: the in-memory store, which forgets its tables with a restart; the
groups that `basicAuth` asks for; and the rows that predate the column `created_at`.
