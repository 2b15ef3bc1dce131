---------------------------- MODULE LoginLimiter ----------------------------
(***************************************************************************)
(* The login rate limiter of AuthService (internal/service/                *)
(* auth_service.go): IsAccountLocked, RecordLoginAttempt and lockdownMode, *)
(* as used by loginHandler, totpHandler and the basic auth of the context  *)
(* middleware.                                                             *)
(*                                                                         *)
(* All three callers do the same around the limiter: check, verify the     *)
(* password or the TOTP code, record the outcome.  Nothing holds a lock    *)
(* from the first to the last, so a slot of Request walks through them     *)
(* step by step.  The exported reads and the read-modify-write under       *)
(* WithLock are atomic, each under its own mutex.                          *)
(*                                                                         *)
(* Time is relative: lockedFor and lockdownFor are what is left of         *)
(* LockedUntil and lockdown.until, and Tick takes one unit off all of      *)
(* them.  A count of failures stops at MaxRetries: the code only compares  *)
(* it with >=.                                                             *)
(***************************************************************************)
EXTENDS Integers, FiniteSets

CONSTANTS Id,               \* identifiers (user names) that are tried
          KnownUser,        \* those for which a login can succeed
          Request,          \* slots for handlers that run at the same time
          MaxRetries,       \* config.Auth.LoginMaxRetries
          LoginTimeout,     \* config.Auth.LoginTimeout
          LockdownEnabled,  \* config.Auth.LockdownEnabled
          MaxLoginLimits,   \* maxLoginLimits (at least 256 in the source)
          MaxSpawned,       \* bound: goroutines not yet scheduled
          Never             \* BoundedMap's mark for "no expiry"

ASSUME ConfigAssumption ==
    /\ MaxRetries \in Nat /\ LoginTimeout \in Nat
    /\ LockdownEnabled \in BOOLEAN
    /\ MaxLoginLimits \in Nat \ {0} /\ MaxSpawned \in Nat
ASSUME UsersAssumption == KnownUser \subseteq Id /\ IsFiniteSet(KnownUser)
ASSUME RequestAssumption == IsFiniteSet(Request) /\ Request # {}
ASSUME NeverAssumption == Never \notin Nat

VARIABLES
    attempts,     \* caches.login: identifier -> LoginAttempt
    active,       \* lockdown.active
    exiting,      \* lockdownMode is between Clear and its last unlock
    lockdownFor,  \* time left until lockdown.until
    spawned,      \* goroutines started by "go lockdownMode()", yet to run
    req,          \* the handler running in each slot
    overrun       \* history: failures recorded for an id while it was locked

vars == <<attempts, active, exiting, lockdownFor, spawned, req, overrun>>

Attempt == [failed : 0 .. MaxRetries, lockedFor : 0 .. LoginTimeout]
Fresh == [failed |-> 0, lockedFor |-> 0]

\* NewAuthService: the cache is bounded only when there is no lockdown.
\* Entries are stored without a ttl, so its clock plays no part.
Cache == INSTANCE BoundedMap WITH
    live <- attempts, now <- 0, Key <- Id, Value <- Attempt, Ttl <- {0},
    MaxSize <- IF LockdownEnabled THEN 0 ELSE MaxLoginLimits, MaxTime <- 0

Disabled == MaxRetries <= 0 \/ LoginTimeout <= 0

Idle == [at |-> "idle"]

Init ==
    /\ attempts = [i \in {} |-> Never]
    /\ active = FALSE /\ exiting = FALSE /\ lockdownFor = 0 /\ spawned = 0
    /\ req = [r \in Request |-> Idle]
    /\ overrun = [i \in Id |-> 0]

Goto(r, slot) == req' = [req EXCEPT ![r] = slot]

-----------------------------------------------------------------------------
(* IsAccountLocked.                                                        *)

\* IsInLockdown, which waits while lockdown.mu is held; "locked" is refused with 429.
begin(r, id) ==
    /\ req[r] = Idle
    /\ ~active
    /\ Goto(r, [at |-> IF Disabled THEN "verify" ELSE "checkAttempt", id |-> id])
    /\ UNCHANGED <<attempts, active, exiting, lockdownFor, spawned, overrun>>

EntryLocked(id) == id \in DOMAIN attempts /\ attempts[id].value.lockedFor > 0

\* Mutant: LockedUntil is not looked at.
checkNothing(r) ==
    /\ req[r].at = "checkAttempt"
    /\ Goto(r, [req[r] EXCEPT !.at = "verify"])
    /\ UNCHANGED <<attempts, active, exiting, lockdownFor, spawned, overrun>>

\* LockedUntil.After(time.Now()).
checkAttempt(r) ==
    /\ req[r].at = "checkAttempt"
    /\ Goto(r, IF EntryLocked(req[r].id) THEN Idle
                                         ELSE [req[r] EXCEPT !.at = "verify"])
    /\ UNCHANGED <<attempts, active, exiting, lockdownFor, spawned, overrun>>

-----------------------------------------------------------------------------
(* Between the check and the record: SearchUser and CheckUserPassword, or  *)
(* the validation of a TOTP code.  They take their time and touch nothing  *)
(* here, so their outcome is drawn when it is reported.                    *)

\* A search error, and a password that leads on to TOTP, record nothing.
unrecorded(r) ==
    /\ req[r].at = "verify"
    /\ Goto(r, Idle)
    /\ UNCHANGED <<attempts, active, exiting, lockdownFor, spawned, overrun>>

Outcomes(id) == {FALSE} \cup {success \in {TRUE} : id \in KnownUser}

-----------------------------------------------------------------------------
(* RecordLoginAttempt.                                                     *)

\* Mutant: the size is not compared with the limit.
neverFull == FALSE
LoginCacheFull == Cardinality(DOMAIN attempts) >= MaxLoginLimits

\* The size is read before, and outside, the lock of the update.
record(r) ==
    /\ req[r].at = "verify"
    /\ \E success \in Outcomes(req[r].id) :
         Goto(r, IF Disabled THEN Idle
                 ELSE IF ~success /\ LockdownEnabled /\ LoginCacheFull
                   THEN [at |-> "recordFull"]
                   ELSE [at |-> "update", id |-> req[r].id, success |-> success])
    /\ UNCHANGED <<attempts, active, exiting, lockdownFor, spawned, overrun>>

\* Too many identifiers: the failure is not counted, a lockdown is requested.
recordFull(r) ==
    /\ req[r].at = "recordFull"
    /\ ~exiting
    /\ \/ active /\ UNCHANGED spawned
       \/ ~active /\ spawned < MaxSpawned /\ spawned' = spawned + 1
    /\ Goto(r, Idle)
    /\ UNCHANGED <<attempts, active, exiting, lockdownFor, overrun>>

\* Mutant: the lock is set by one failure only and cleared by the next.
failureUnlocks(a) ==
    LET n == a.failed + 1
    IN  [failed |-> IF n >= MaxRetries THEN MaxRetries ELSE n,
         lockedFor |-> IF n = MaxRetries THEN LoginTimeout ELSE 0]

Failure(a) ==
    LET n == a.failed + 1
    IN  [failed |-> IF n >= MaxRetries THEN MaxRetries ELSE n,
         lockedFor |-> IF n >= MaxRetries THEN LoginTimeout ELSE a.lockedFor]

\* The history stops at a count that is one too many already.
Counted(n) == IF n < Cardinality(Request) THEN n + 1 ELSE n

\* The callback under WithLock.
update(r) ==
    LET id == req[r].id
        old == IF id \in DOMAIN attempts THEN attempts[id].value ELSE Fresh
    IN  /\ req[r].at = "update"
        /\ Cache!Put(id, IF req[r].success THEN Fresh ELSE Failure(old), 0)
        /\ overrun' = [overrun EXCEPT ![id] =
                         IF ~req[r].success /\ EntryLocked(id) THEN Counted(@) ELSE 0]
        /\ Goto(r, Idle)
        /\ UNCHANGED <<active, exiting, lockdownFor, spawned>>

-----------------------------------------------------------------------------
(* lockdownMode.                                                           *)

\* A goroutine gets to run: it enters the lockdown, or finds one and returns.
lockdownEnter ==
    /\ spawned > 0
    /\ ~exiting
    /\ spawned' = spawned - 1
    /\ active' = TRUE
    /\ lockdownFor' = IF active THEN lockdownFor ELSE LoginTimeout
    /\ UNCHANGED <<attempts, exiting, req, overrun>>

ClearAttempts ==
    /\ attempts' = [i \in {} |-> Never]
    /\ overrun' = [i \in Id |-> 0]

\* Its timer has fired: it takes lockdown.mu and clears the login cache ...
lockdownClear ==
    /\ active /\ ~exiting
    /\ lockdownFor = 0
    /\ ClearAttempts
    /\ exiting' = TRUE
    /\ UNCHANGED <<active, lockdownFor, spawned, req>>

\* ... and opens up again.  Updates of the cache do not wait for lockdown.mu.
lockdownExit ==
    /\ exiting
    /\ active' = FALSE
    /\ exiting' = FALSE
    /\ UNCHANGED <<attempts, lockdownFor, spawned, req, overrun>>

-----------------------------------------------------------------------------

Left(t) == IF t > 0 THEN t - 1 ELSE 0

Tick ==
    /\ lockdownFor' = Left(lockdownFor)
    /\ attempts' = [i \in DOMAIN attempts |->
                      [attempts[i] EXCEPT !.value.lockedFor = Left(@)]]
    /\ overrun' = [i \in Id |-> IF i \in DOMAIN attempts /\ attempts[i].value.lockedFor > 1
                                THEN overrun[i] ELSE 0]
    /\ UNCHANGED <<active, exiting, spawned, req>>

Step(r) == \/ checkAttempt(r) \/ unrecorded(r)
           \/ record(r) \/ recordFull(r) \/ update(r)

Next == \/ \E r \in Request : (\E id \in Id : begin(r, id)) \/ Step(r)
        \/ lockdownEnter
        \/ lockdownClear
        \/ lockdownExit
        \/ Tick

Spec == Init /\ [][Next]_vars

\* Time passes and the timer of a lockdown fires.  Nothing else is promised:
\* handlers may hang in the verification and nobody has to log in.
Fairness == WF_vars(Tick) /\ WF_vars(lockdownClear) /\ WF_vars(lockdownExit)

FairSpec == Spec /\ Fairness

-----------------------------------------------------------------------------
(* Properties.                                                             *)

Slot == {Idle} \cup [at : {"recordFull"}]
   \cup [at : {"checkAttempt", "verify"}, id : Id]
   \cup [at : {"update"}, id : Id, success : BOOLEAN]

\* The entries are attempts without an expiry, and every slot holds what the
\* handler at that point remembers.
TypeOK ==
    /\ DOMAIN attempts \subseteq Id
    /\ \A i \in DOMAIN attempts : attempts[i] \in [value : Attempt, expiresAt : {Never}]
    /\ active \in BOOLEAN /\ exiting \in BOOLEAN
    /\ lockdownFor \in 0 .. LoginTimeout
    /\ spawned \in 0 .. MaxSpawned
    /\ req \in [Request -> Slot]
    /\ overrun \in [Id -> Nat]

\* IsAccountLocked before, RecordLoginAttempt after, and no lock in between:
\* once an identifier is locked, only requests that had passed the check by
\* then can still add failures to it, so a lock period sees fewer of them than
\* there are handlers.  Slots that finish cannot come back for more.
OverrunBounded == \A i \in Id : overrun[i] < Cardinality(Request)

\* A lock ends early for one reason only, a recorded success for that very
\* identifier; other identifiers' failures, the full store and the other
\* slots do not touch it (with lockdown mode on; it ends with a lockdown).
LockHoldsStep ==
    \A i \in Id :
      EntryLocked(i) =>
        \/ EntryLocked(i)'
        \/ attempts[i].value.lockedFor = 1 /\ Tick
        \/ \E r \in Request : /\ req[r].at = "update" /\ req'[r] = Idle
                              /\ req[r].id = i /\ req[r].success
        \/ exiting'
LockHolds == [][LockHoldsStep]_vars

\* The login cache has no capacity when lockdown is enabled; the check of its
\* size in RecordLoginAttempt stands in for one.  What gets past the check
\* unseen is one entry per handler in flight, and the entries of logins that
\* succeed.
LimiterBounded ==
    LockdownEnabled =>
      Cardinality(DOMAIN attempts)
        <= MaxLoginLimits + Cardinality(Request) - 1 + Cardinality(KnownUser)

\* Locks are temporary, although every failure recorded at the limit sets
\* LockedUntil anew: the check lets nobody in who could go on prolonging a lock,
\* and the handlers past it are few.  So the lock of every user ends, and so does
\* every lockdown, whatever the requests in flight and the goroutines do.  (Not
\* both at once: a handler can lock an identifier anew between Clear and the end
\* of one lockdown, and a failure elsewhere can start the next before that is
\* over.)
EveryLockEnds ==
    /\ active ~> ~active
    /\ \A i \in KnownUser : EntryLocked(i) ~> ~EntryLocked(i)
=============================================================================
