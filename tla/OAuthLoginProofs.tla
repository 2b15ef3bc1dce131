-------------------------- MODULE OAuthLoginProofs --------------------------
(***************************************************************************)
(* Login through an OAuth provider, proved for every set of providers,     *)
(* accounts and requests in flight, every whitelist, every capacity of the *)
(* cache and all bounds.                                                   *)
(***************************************************************************)
EXTENDS OAuthLogin, FiniteSetTheorems, TLAPS

(***************************************************************************)
(* What the operations of the cache do to its map.                         *)
(***************************************************************************)
Shrinks(new, old) ==
    /\ DOMAIN new \subseteq DOMAIN old
    /\ \A x \in DOMAIN new : new[x] = old[x]

LEMMA PendingPut ==
  ASSUME NEW k, NEW v, P!Put(k, v, PendingTtl)
  PROVE  /\ DOMAIN pending' \subseteq DOMAIN pending \cup {k}
         /\ pending'[k] = [value |-> v, expiresAt |-> now + PendingTtl]
         /\ \A x \in DOMAIN pending' \ {k} : pending'[x] = pending[x]
         /\ UNCHANGED now
<1>1. PICK m \in P!Room(k) :
        pending' = P!With(m, k, [value |-> v, expiresAt |-> P!Deadline(PendingTtl)])
  BY DEF P!Put
<1>2. Shrinks(m, pending)
  BY DEF P!Room, P!Without, Shrinks
<1>3. P!Deadline(PendingTtl) = now + PendingTtl
  BY DurationsAssumption DEF P!Deadline
<1>4. UNCHANGED now
  BY DEF P!Put
<1> QED
  BY <1>1, <1>2, <1>3, <1>4 DEF P!With, Shrinks

LEMMA PendingRemove ==
  ASSUME NEW k, P!Remove(k)
  PROVE  Shrinks(pending', pending) /\ k \notin DOMAIN pending' /\ UNCHANGED now
BY DEF P!Remove, P!Without, Shrinks

\* "ttl 0 means keep current expiration".
LEMMA TokenUpdate ==
  ASSUME NEW s, NEW v, UpdateToken(s, v)
  PROVE  /\ DOMAIN pending' = DOMAIN pending
         /\ s \in DOMAIN pending =>
              pending'[s].value = v /\ pending'[s].expiresAt = pending[s].expiresAt
         /\ \A x \in DOMAIN pending \ {s} : pending'[x] = pending[x]
         /\ UNCHANGED now
<1>1. CASE s \notin DOMAIN pending
  BY <1>1 DEF UpdateToken
<1>2. CASE s \in DOMAIN pending
  <2>1. pending' = P!With(pending, s, [value |-> v, expiresAt |-> pending[s].expiresAt])
        /\ UNCHANGED now
    BY <1>2 DEF UpdateToken, P!Replace
  <2> QED
    BY <1>2, <2>1 DEF P!With
<1> QED
  BY <1>1, <1>2

LEMMA TickShrinks ==
  ASSUME tick
  PROVE  /\ Shrinks(pending', pending) /\ now < MaxTime /\ now' = now + 1
         /\ \A s \in DOMAIN pending' :
              pending[s].expiresAt = Never \/ now' <= pending[s].expiresAt
         /\ UNCHANGED <<req, started, codes, ended, logins>>
BY DEF tick, P!Tick, Shrinks

(***************************************************************************)
(* Sessions and codes are numbered without a gap, so the next one is new.  *)
(***************************************************************************)
Numbered(S) == \E n \in Nat : S = 1 .. n

LEMMA NextIsNew ==
  ASSUME NEW S, Numbered(S)
  PROVE  LET n == Cardinality(S) + 1
         IN  n \in Nat \ {0} /\ n \notin S /\ Numbered(S \cup {n})
<1>1. PICK n \in Nat : S = 1 .. n
  BY DEF Numbered
<1>2. Cardinality(S) = n
  BY <1>1, FS_Interval
<1>3. S \cup {n + 1} = 1 .. n + 1
  BY <1>1
<1> QED
  BY <1>1, <1>2, <1>3 DEF Numbered

(***************************************************************************)
(* Type correctness, of the histories too.                                 *)
(***************************************************************************)
Known(slot) ==
    /\ slot.at # "idle" => slot.session \in DOMAIN started
    /\ slot.at \notin {"idle", "url"} => slot.code \in DOMAIN codes

Histories ==
    /\ Numbered(DOMAIN started) /\ Numbered(DOMAIN codes)
    /\ \A s \in DOMAIN started : started[s].provider \in Provider /\ started[s].time \in Nat
    /\ \A c \in DOMAIN codes :
         codes[c] \in [session : DOMAIN started, account : Account, provider : Provider,
                       spent : BOOLEAN]
    /\ DOMAIN pending \subseteq DOMAIN started /\ ended \subseteq DOMAIN started
    /\ \A s \in DOMAIN pending :
         pending[s].value.token # NoToken => pending[s].value.token \in DOMAIN codes
    /\ \A r \in Request : Known(req[r])

Types == TypeOK /\ Histories

LEMMA SlotKinds ==
  ASSUME NEW slot \in Slot
  PROVE  /\ slot.at = "url" => slot \in [at : {"url"}, session : Session]
         /\ slot.at = "getToken" =>
              slot \in [at : {"getToken", "end"}, session : Session, code : Code,
                        provider : Provider]
         /\ slot.at \in {"update", "userinfo"} =>
              slot \in [at : {"update", "userinfo", "end"}, session : Session,
                        code : Code, provider : Provider, read : Value]
         /\ slot.at \in {"service", "create"} =>
              slot \in [at : {"service", "create", "end"}, session : Session,
                        code : Code, provider : Provider, user : Account]
         /\ slot.at = "end" => slot.session \in Session /\ slot.code \in Code
BY DEF Slot, Idle

\* Where the handlers go: every step of slot r puts a slot of its type there.
LEMMA Moves ==
  ASSUME Types, NEW r \in Request,
         \/ getToken(r) \/ updateToken(r) \/ userinfo(r) \/ GetOAuthService(r) \/ create(r)
  PROVE  \E v \in Slot : /\ req' = [req EXCEPT ![r] = v]
                         /\ v.session = req[r].session /\ v.code = req[r].code
                         /\ v.at \notin {"idle", "url"}
<1>0. req[r] \in Slot /\ req[r].at \in {"getToken", "update", "userinfo", "service", "create"}
  BY DEF Types, TypeOK, getToken, updateToken, userinfo, GetOAuthService, create
<1>1. /\ [req[r] EXCEPT !.at = "end"] \in Slot
      /\ [req[r] EXCEPT !.at = "end"].session = req[r].session
      /\ [req[r] EXCEPT !.at = "end"].code = req[r].code
      /\ [req[r] EXCEPT !.at = "end"].at = "end"
  BY <1>0, SlotKinds DEF Slot
<1>2. Goto(r, "end") => \E v \in Slot : /\ req' = [req EXCEPT ![r] = v]
                                        /\ v.session = req[r].session /\ v.code = req[r].code
                                        /\ v.at \notin {"idle", "url"}
  BY <1>1 DEF Goto
<1>3. CASE getToken(r)
  <2>1. req[r].session \in DOMAIN pending =>
          [at |-> "update", session |-> req[r].session, code |-> req[r].code,
           provider |-> req[r].provider, read |-> pending[req[r].session].value] \in Slot
    BY <1>0, <1>3, SlotKinds DEF getToken, Slot, Types, TypeOK
  <2> QED
    BY <1>2, <1>3, <2>1 DEF getToken
<1>4. CASE updateToken(r)
  <2>1. /\ [req[r] EXCEPT !.at = "userinfo"] \in Slot
        /\ [req[r] EXCEPT !.at = "userinfo"].session = req[r].session
        /\ [req[r] EXCEPT !.at = "userinfo"].code = req[r].code
        /\ [req[r] EXCEPT !.at = "userinfo"].at = "userinfo"
    BY <1>0, <1>4, SlotKinds DEF updateToken, Slot
  <2>2. Goto(r, "end") \/ Goto(r, "userinfo")
    BY <1>4 DEF updateToken
  <2> QED
    BY <1>2, <2>1, <2>2 DEF Goto
<1>5. CASE userinfo(r)
  <2>1. ASSUME req[r].session \in DOMAIN pending,
               pending[req[r].session].value.token # NoToken
        PROVE  [at |-> "service", session |-> req[r].session, code |-> req[r].code,
                provider |-> req[r].provider,
                user |-> codes[pending[req[r].session].value.token].account] \in Slot
    BY <1>0, <1>5, <2>1, SlotKinds DEF userinfo, Slot, Types, Histories
  <2> QED
    BY <1>2, <1>5, <2>1 DEF userinfo
<1>6. CASE GetOAuthService(r)
  <2>1. /\ [req[r] EXCEPT !.at = "create"] \in Slot
        /\ [req[r] EXCEPT !.at = "create"].session = req[r].session
        /\ [req[r] EXCEPT !.at = "create"].code = req[r].code
        /\ [req[r] EXCEPT !.at = "create"].at = "create"
    BY <1>0, <1>6, SlotKinds DEF GetOAuthService, Slot
  <2>2. Goto(r, "end") \/ Goto(r, "create")
    BY <1>6 DEF GetOAuthService
  <2> QED
    BY <1>2, <2>1, <2>2 DEF Goto
<1>7. CASE create(r)
  BY <1>2, <1>7 DEF create
<1> QED
  BY <1>3, <1>4, <1>5, <1>6, <1>7

LEMMA NextTyped == Types /\ [Next]_vars => Types'
<1> SUFFICES ASSUME Types, [Next]_vars
             PROVE  Types'
  OBVIOUS
<1>0. /\ req \in [Request -> Slot] /\ Idle \in Slot /\ now \in Nat
      /\ \A r \in Request : req[r] \in Slot /\ Known(req[r])
  BY BoundsAssumption DEF Types, TypeOK, Histories, Slot
<1>1. CASE UNCHANGED vars
  BY <1>1 DEF vars, Types, TypeOK, Histories, Known, Value, Slot
<1>2. ASSUME NEW r \in Request, NEW p \in Provider, NewOAuthSession(r, p)
      PROVE  Types'
  <2> DEFINE n == nextSession
  <2>1. n \in Nat \ {0} /\ n \notin DOMAIN started /\ Numbered(DOMAIN started \cup {n})
    BY NextIsNew DEF nextSession, Types, Histories
  <2>2. n \in Session
    BY <1>2, <2>1, BoundsAssumption DEF NewOAuthSession, Session
  <2> HIDE DEF n
  <2>3. /\ DOMAIN pending' \subseteq DOMAIN pending \cup {n}
        /\ pending'[n] = [value |-> [provider |-> p, token |-> NoToken],
                          expiresAt |-> now + PendingTtl]
        /\ \A x \in DOMAIN pending' \ {n} : pending'[x] = pending[x]
        /\ UNCHANGED <<now, codes, ended, logins>>
    BY <1>2, PendingPut DEF NewOAuthSession, n
  <2>4. /\ DOMAIN started' = DOMAIN started \cup {n}
        /\ started'[n].provider = p /\ started'[n].time = now
        /\ \A x \in DOMAIN started : started'[x] = started[x]
    BY <1>2, <2>1 DEF NewOAuthSession, With, n
  <2>5. req' = [req EXCEPT ![r] = [at |-> "url", session |-> n]]
    BY <1>2 DEF NewOAuthSession, n
  <2>6. [at |-> "url", session |-> n] \in Slot
    BY <2>2 DEF Slot
  <2>7. req' \in [Request -> Slot]
    BY <1>0, <2>5, <2>6
  <2>8. now + PendingTtl \in Nat
    BY <1>0, DurationsAssumption
  <2>9. TypeOK'
    BY <2>2, <2>3, <2>4, <2>7, <2>8 DEF Types, TypeOK, Value
  <2>10. \A q \in Request : Known(req[q])'
    BY <1>0, <2>3, <2>4, <2>5 DEF Known
  <2>11. Histories'
    BY <1>0, <2>1, <2>3, <2>4, <2>10 DEF Types, Histories
  <2> QED
    BY <2>9, <2>11 DEF Types
<1>3. ASSUME NEW r \in Request, GetOAuthURL(r)
      PROVE  Types'
  <2>1. /\ DOMAIN started' = DOMAIN started
        /\ \A s \in DOMAIN started : started'[s].provider = started[s].provider
                                     /\ started'[s].time = started[s].time
        /\ UNCHANGED <<pending, now, codes, ended, logins>>
    <3>1. PICK b : started' = [started EXCEPT ![req[r].session].sent = b]
      BY <1>3 DEF GetOAuthURL
    <3> QED
      BY <1>3, <3>1 DEF GetOAuthURL
  <2>2. req' \in [Request -> Slot] /\ \A q \in Request : req'[q] = req[q] \/ req'[q] = Idle
    BY <1>0, <1>3 DEF GetOAuthURL
  <2>3. \A q \in Request : Known(req[q])'
    BY <1>0, <2>1, <2>2 DEF Known, Idle
  <2> QED
    BY <2>1, <2>2, <2>3 DEF Types, TypeOK, Histories, Value
<1>4. ASSUME NEW r \in Request, NEW s \in Session, NEW c \in Code, NEW p \in Provider,
             NEW state \in BOOLEAN, callback(r, s, c, p, state)
      PROVE  Types'
  <2>1. PICK l \in {"getToken", "end"} :
          req' = [req EXCEPT ![r] = [at |-> l, session |-> s, code |-> c, provider |-> p]]
    <3>1. CASE state
      BY <1>4, <3>1 DEF callback
    <3>2. CASE ~state
      BY <1>4, <3>2 DEF callback
    <3> QED
      BY <3>1, <3>2
  <2>2. [at |-> l, session |-> s, code |-> c, provider |-> p] \in Slot
    BY DEF Slot
  <2>3. req' \in [Request -> Slot]
    BY <1>0, <2>1, <2>2
  <2>4. s \in DOMAIN started /\ c \in DOMAIN codes
        /\ UNCHANGED <<pending, now, started, codes, ended, logins>>
    BY <1>4 DEF callback, Types, Histories
  <2>5. \A q \in Request : Known(req[q])'
    BY <1>0, <2>1, <2>4 DEF Known
  <2> QED
    BY <2>3, <2>4, <2>5 DEF Types, TypeOK, Histories, Value
<1>5. ASSUME NEW r \in Request,
             \/ getToken(r) \/ updateToken(r) \/ userinfo(r) \/ GetOAuthService(r) \/ create(r)
      PROVE  Types'
  <2>1. PICK slot \in Slot : /\ req' = [req EXCEPT ![r] = slot]
                             /\ slot.session = req[r].session /\ slot.code = req[r].code
                             /\ slot.at \notin {"idle", "url"}
    BY <1>5, Moves
  <2>2. req' \in [Request -> Slot]
    BY <1>0, <2>1
  <2>3. req[r].at \notin {"idle", "url"} /\ UNCHANGED <<started, ended, now>>
    BY <1>5, TokenUpdate DEF getToken, updateToken, userinfo, GetOAuthService, create
  <2>4. /\ DOMAIN codes' = DOMAIN codes
        /\ \A c \in DOMAIN codes : /\ codes'[c].session = codes[c].session
                                   /\ codes'[c].account = codes[c].account
                                   /\ codes'[c].provider = codes[c].provider
                                   /\ codes'[c] \in [session : DOMAIN started,
                                        account : Account, provider : Provider,
                                        spent : BOOLEAN]
    <3>1. UNCHANGED codes \/ codes' = [codes EXCEPT ![req[r].code].spent = TRUE]
      BY <1>5 DEF getToken, updateToken, userinfo, GetOAuthService, create
    <3>2. \A c \in DOMAIN codes :
            codes[c] \in [session : DOMAIN started, account : Account, provider : Provider,
                          spent : BOOLEAN]
      BY DEF Types, Histories
    <3>3. CASE UNCHANGED codes
      BY <3>2, <3>3
    <3>4. CASE codes' = [codes EXCEPT ![req[r].code].spent = TRUE]
      <4>1. DOMAIN codes' = DOMAIN codes
        BY <3>4
      <4>2. ASSUME NEW c \in DOMAIN codes
            PROVE  codes'[c] = IF c = req[r].code THEN [codes[c] EXCEPT !.spent = TRUE]
                                                  ELSE codes[c]
        BY <3>4
      <4> QED
        BY <3>2, <4>1, <4>2
    <3> QED
      BY <3>1, <3>3, <3>4
  <2>5. \A q \in Request : Known(req[q])'
    BY <1>0, <2>1, <2>3, <2>4 DEF Known
  <2>6. /\ DOMAIN pending' = DOMAIN pending
        /\ \A s \in DOMAIN pending' :
             /\ pending'[s].value \in Value /\ pending'[s].expiresAt \in Nat
             /\ pending'[s].value.token # NoToken => pending'[s].value.token \in DOMAIN codes
    <3>1. CASE UNCHANGED pending
      BY <3>1 DEF Types, TypeOK, Histories
    <3>2. ASSUME req[r].at = "update",
                 UpdateToken(req[r].session, [req[r].read EXCEPT !.token = req[r].code])
          PROVE  /\ DOMAIN pending' = DOMAIN pending
                 /\ \A s \in DOMAIN pending' :
                      /\ pending'[s].value \in Value /\ pending'[s].expiresAt \in Nat
                      /\ pending'[s].value.token # NoToken =>
                           pending'[s].value.token \in DOMAIN codes
      <4>1. req[r].read \in Value /\ req[r].code \in Code /\ req[r].code \in DOMAIN codes
        BY <1>0, <3>2, SlotKinds DEF Known
      <4>2. /\ [req[r].read EXCEPT !.token = req[r].code] \in Value
            /\ [req[r].read EXCEPT !.token = req[r].code].token = req[r].code
        BY <4>1 DEF Value
      <4> DEFINE v == [req[r].read EXCEPT !.token = req[r].code]
      <4> HIDE DEF v
      <4>3. /\ DOMAIN pending' = DOMAIN pending
            /\ req[r].session \in DOMAIN pending =>
                 /\ pending'[req[r].session].value = v
                 /\ pending'[req[r].session].expiresAt = pending[req[r].session].expiresAt
            /\ \A x \in DOMAIN pending \ {req[r].session} : pending'[x] = pending[x]
        BY <3>2, TokenUpdate DEF v
      <4>4. v \in Value /\ v.token \in DOMAIN codes
        BY <4>1, <4>2 DEF v
      <4> QED
        BY <4>3, <4>4 DEF Types, TypeOK, Histories
    <3> QED
      BY <1>5, <3>1, <3>2 DEF getToken, updateToken, userinfo, GetOAuthService, create
  <2>7. TypeOK'
    BY <2>2, <2>3, <2>4, <2>6 DEF Types, TypeOK, Value
  <2>8. Histories'
    BY <2>3, <2>4, <2>5, <2>6 DEF Types, Histories
  <2> QED
    BY <2>7, <2>8 DEF Types
<1>6. ASSUME NEW r \in Request, end(r)
      PROVE  Types'
  <2>1. Shrinks(pending', pending) /\ UNCHANGED <<now, started, codes>>
    BY <1>6, PendingRemove DEF end, EndOAuthSession
  <2>2. req' \in [Request -> Slot] /\ \A q \in Request : req'[q] = req[q] \/ req'[q] = Idle
    BY <1>0, <1>6 DEF end
  <2>3. req[r].session \in Session /\ req[r].session \in DOMAIN started
        /\ ended' = ended \cup {req[r].session}
    BY <1>0, <1>6, SlotKinds DEF end, Known
  <2>4. \A q \in Request : Known(req[q])'
    BY <1>0, <2>1, <2>2 DEF Known, Idle
  <2>5. TypeOK'
    BY <2>1, <2>2, <2>3 DEF Types, TypeOK, Shrinks, Value
  <2>6. Histories'
    BY <2>1, <2>3, <2>4 DEF Types, Histories, Shrinks
  <2> QED
    BY <2>5, <2>6 DEF Types
<1>7. ASSUME NEW s \in Session, NEW a \in Account, consent(s, a)
      PROVE  Types'
  <2> DEFINE n == nextCode
  <2>1. n \in Nat \ {0} /\ n \notin DOMAIN codes /\ Numbered(DOMAIN codes \cup {n})
    BY NextIsNew DEF nextCode, Types, Histories
  <2>2. n \in Code
    BY <1>7, <2>1, BoundsAssumption DEF consent, Code
  <2> HIDE DEF n
  <2>3. /\ DOMAIN codes' = DOMAIN codes \cup {n}
        /\ codes'[n] = [session |-> s, account |-> a, provider |-> started[s].provider,
                        spent |-> FALSE]
        /\ \A x \in DOMAIN codes : codes'[x] = codes[x]
    BY <1>7, <2>1 DEF consent, With, n
  <2>4. s \in DOMAIN started /\ UNCHANGED <<pending, req, now, started, ended, logins>>
    BY <1>7 DEF consent
  <2>5. \A q \in Request : Known(req[q])'
    BY <1>0, <2>3, <2>4 DEF Known
  <2>6. \A c \in DOMAIN codes' :
          codes'[c] \in [session : DOMAIN started, account : Account, provider : Provider,
                         spent : BOOLEAN]
    <3>1. codes'[n] \in [session : DOMAIN started, account : Account, provider : Provider,
                         spent : BOOLEAN]
      BY <2>3, <2>4 DEF Types, Histories
    <3> QED
      BY <2>3, <3>1 DEF Types, Histories
  <2>7. Histories'
    BY <2>1, <2>3, <2>4, <2>5, <2>6 DEF Types, Histories
  <2> QED
    BY <2>2, <2>3, <2>4, <2>7 DEF Types, TypeOK, Value
<1>8. CASE tick
  <2>1. TypeOK'
    BY <1>8, TickShrinks, BoundsAssumption DEF Types, TypeOK, Shrinks, Value
  <2> QED
    BY <1>8, <2>1, TickShrinks DEF Types, Histories, Shrinks, Known
<1>9. CASE restart
  <2>1. req' \in [Request -> Slot] /\ DOMAIN pending' = {}
        /\ \A q \in Request : Known(req[q])'
    BY <1>0, <1>9 DEF restart, Empty, Known, Idle
  <2> QED
    BY <1>9, <2>1 DEF restart, Types, TypeOK, Histories, Value
<1> QED
  BY <1>1, <1>2, <1>3, <1>4, <1>5, <1>6, <1>7, <1>8, <1>9 DEF Next

LEMMA TypesInvariant == Spec => []Types
<1>1. Init => Types
  <2> SUFFICES ASSUME Init PROVE Types
    OBVIOUS
  <2>1. DOMAIN Empty = 1 .. 0 /\ DOMAIN Empty = {}
    BY DEF Empty
  <2>2. req \in [Request -> Slot] /\ \A r \in Request : Known(req[r])
    BY DEF Init, Slot, Known, Idle
  <2>3. Numbered(DOMAIN Empty)
    BY <2>1 DEF Numbered
  <2>4. TypeOK
    BY <2>1, <2>2, BoundsAssumption DEF Init, TypeOK
  <2>5. Histories
    BY <2>1, <2>2, <2>3 DEF Init, Histories
  <2> QED
    BY <2>4, <2>5 DEF Types
<1> QED
  BY <1>1, NextTyped, PTL DEF Spec

\* The slots of oauthURLHandler and oauthCallbackHandler and the pending sessions
\* hold what they should, in every interleaving.
THEOREM TypeCorrect == Spec => []TypeOK
<1>1. Types => TypeOK
  BY DEF Types
<1> QED
  BY <1>1, TypesInvariant, PTL

(***************************************************************************)
(* Pending sessions end.                                                   *)
(***************************************************************************)
EndsInv ==
    \A s \in DOMAIN pending :
      /\ s \notin ended
      /\ pending[s].expiresAt = started[s].time + PendingTtl
      /\ now <= pending[s].expiresAt

\* Entries that stay as long as they were meant to.
Lasts(new, old) ==
    /\ DOMAIN new \subseteq DOMAIN old
    /\ \A s \in DOMAIN new : new[s].expiresAt = old[s].expiresAt

LEMMA EndsFrame ==
  ASSUME Types, EndsInv, Lasts(pending', pending), UNCHANGED now,
         \A s \in DOMAIN pending' : s \notin ended' \/ s \notin DOMAIN pending,
         \A s \in DOMAIN started : started'[s].time = started[s].time
  PROVE  EndsInv'
BY DEF Types, Histories, EndsInv, Lasts

LEMMA NextEnds == Types /\ EndsInv /\ [Next]_vars => EndsInv'
<1> SUFFICES ASSUME Types, EndsInv, [Next]_vars
             PROVE  EndsInv'
  OBVIOUS
<1>0. now \in Nat /\ PendingTtl \in Nat /\ Lasts(pending, pending)
  BY BoundsAssumption, DurationsAssumption DEF Types, TypeOK, Lasts
<1>1. CASE UNCHANGED <<pending, now, started, ended>>
  BY <1>0, <1>1, EndsFrame DEF EndsInv
<1>2. ASSUME NEW r \in Request, NEW p \in Provider, NewOAuthSession(r, p)
      PROVE  EndsInv'
  <2> DEFINE n == nextSession
  <2>1. n \notin DOMAIN started
    BY NextIsNew DEF nextSession, Types, Histories
  <2> HIDE DEF n
  <2>2. /\ DOMAIN pending' \subseteq DOMAIN pending \cup {n}
        /\ pending'[n] = [value |-> [provider |-> p, token |-> NoToken],
                          expiresAt |-> now + PendingTtl]
        /\ \A x \in DOMAIN pending' \ {n} : pending'[x] = pending[x]
        /\ UNCHANGED <<now, ended>>
    BY <1>2, PendingPut DEF NewOAuthSession, n
  <2>3. started'[n].time = now /\ \A x \in DOMAIN started : started'[x] = started[x]
    BY <1>2, <2>1 DEF NewOAuthSession, With, n
  <2>4. n \notin ended
    BY <2>1 DEF Types, Histories
  <2> QED
    BY <1>0, <2>1, <2>2, <2>3, <2>4 DEF EndsInv, Types, Histories
<1>3. ASSUME NEW r \in Request, GetOAuthURL(r)
      PROVE  EndsInv'
  <2>1. PICK b : started' = [started EXCEPT ![req[r].session].sent = b]
    BY <1>3 DEF GetOAuthURL
  <2>2. \A s \in DOMAIN started : started'[s].time = started[s].time
    BY <2>1
  <2> QED
    BY <1>0, <1>3, <2>2, EndsFrame DEF GetOAuthURL, EndsInv
<1>4. ASSUME NEW r \in Request, updateToken(r)
      PROVE  EndsInv'
  <2>1. UNCHANGED <<started, ended>>
    BY <1>4 DEF updateToken
  <2>2. CASE UNCHANGED <<pending, now>>
    BY <1>0, <2>1, <2>2, EndsFrame DEF EndsInv
  <2>3. ASSUME NEW v, UpdateToken(req[r].session, v)
        PROVE  EndsInv'
    <3>1. Lasts(pending', pending) /\ UNCHANGED now
      BY <2>3, TokenUpdate DEF Lasts
    <3> QED
      BY <2>1, <3>1, EndsFrame DEF EndsInv, Lasts
  <2> QED
    BY <1>4, <2>2, <2>3 DEF updateToken
<1>5. ASSUME NEW r \in Request, end(r)
      PROVE  EndsInv'
  <2>1. Shrinks(pending', pending) /\ req[r].session \notin DOMAIN pending' /\ UNCHANGED now
    BY <1>5, PendingRemove DEF end, EndOAuthSession
  <2> QED
    BY <1>5, <2>1, EndsFrame DEF end, EndsInv, Lasts, Shrinks
<1>6. CASE tick
  <2>1. \A s \in DOMAIN pending : pending[s].expiresAt # Never
    BY NeverAssumption DEF Types, TypeOK
  <2> QED
    BY <1>6, <2>1, TickShrinks DEF EndsInv, Shrinks
<1>7. CASE restart
  BY <1>7 DEF restart, Empty, EndsInv
<1> QED
  BY <1>1, <1>2, <1>3, <1>4, <1>5, <1>6, <1>7 DEF Next, vars, callback, getToken, userinfo,
     GetOAuthService, create, consent

\* A pending session that EndOAuthSession has ended is not there again, although
\* another callback may be about to write its token (GetOAuthToken), and none
\* outlives the ten minutes it was given.
THEOREM PendingSessionsEnd == Spec => []PendingEnds
<1>1. Init => EndsInv
  BY DEF Init, EndsInv, Empty
<1>2. EndsInv => PendingEnds
  BY DEF EndsInv, PendingEnds
<1> QED
  BY <1>1, <1>2, NextEnds, TypesInvariant, PTL DEF Spec

(***************************************************************************)
(* Logins are consented to: the token of a pending session, and the user   *)
(* that a callback has read with it, come from a code that was issued in   *)
(* answer to that very session.                                            *)
(***************************************************************************)
Answers(c, s) == c \in DOMAIN codes /\ codes[c].spent /\ codes[c].session = s

Consented(s, a) == \E c \in DOMAIN codes : Answers(c, s) /\ codes[c].account = a

EntryOf(s, v) ==
    /\ v.provider = started[s].provider
    /\ v.token # NoToken => Answers(v.token, s)

Honest(slot) ==
    /\ slot.at = "update" => slot.read.provider = started[slot.session].provider
    /\ slot.at \in {"service", "create"} => Consented(slot.session, slot.user)
    /\ slot.at = "create" => /\ slot.provider = started[slot.session].provider
                             /\ <<slot.provider, slot.user>> \in Whitelisted

LoginOf(l) ==
    /\ l.session \in DOMAIN started
    /\ l.provider = started[l.session].provider
    /\ <<l.provider, l.account>> \in Whitelisted
    /\ Consented(l.session, l.account)

ConsentInv ==
    /\ \A s \in DOMAIN pending : EntryOf(s, pending[s].value)
    /\ \A r \in Request : Honest(req[r])
    /\ \A l \in logins : LoginOf(l)

\* Histories only grow: what was consented to stays so.
Grows ==
    /\ DOMAIN started \subseteq DOMAIN started'
    /\ \A s \in DOMAIN started : started'[s].provider = started[s].provider
    /\ \A c \in DOMAIN codes :
         /\ c \in DOMAIN codes' /\ codes'[c].session = codes[c].session
         /\ codes'[c].account = codes[c].account
         /\ codes[c].spent => codes'[c].spent

LEMMA StaysConsented ==
  ASSUME Grows
  PROVE  /\ \A c, s : Answers(c, s) => Answers(c, s)'
         /\ \A s, a : Consented(s, a) => Consented(s, a)'
         /\ \A s \in DOMAIN started : \A v : EntryOf(s, v) => EntryOf(s, v)'
         /\ \A l : LoginOf(l) => LoginOf(l)'
         /\ \A slot : /\ slot.at # "idle" => slot.session \in DOMAIN started
                      /\ Honest(slot)
                      => Honest(slot)'
<1>1. \A c, s : Answers(c, s) => Answers(c, s)'
  BY DEF Grows, Answers
<1>2. \A s, a : Consented(s, a) => Consented(s, a)'
  BY <1>1 DEF Grows, Consented
<1>3. \A s \in DOMAIN started : \A v : EntryOf(s, v) => EntryOf(s, v)'
  BY <1>1 DEF Grows, EntryOf
<1>4. \A l : LoginOf(l) => LoginOf(l)'
  BY <1>2 DEF Grows, LoginOf
<1>5. \A slot : /\ slot.at # "idle" => slot.session \in DOMAIN started
                /\ Honest(slot)
                => Honest(slot)'
  BY <1>2 DEF Grows, Honest
<1> QED
  BY <1>1, <1>2, <1>3, <1>4, <1>5

\* Most steps move slots honestly and take entries away.
LEMMA ConsentFrame ==
  ASSUME Types, ConsentInv, Grows, Shrinks(pending', pending), UNCHANGED logins,
         \A r \in Request : req'[r] = req[r] \/ \A v : v = req'[r] => Honest(v)'
  PROVE  ConsentInv'
<1>1. \A s \in DOMAIN pending' : EntryOf(s, pending[s].value)'
  BY StaysConsented DEF ConsentInv, Shrinks, Types, Histories
<1>2. \A r \in Request : Honest(req[r])'
  BY StaysConsented DEF ConsentInv, Types, Histories, Known
<1>3. \A l \in logins' : LoginOf(l)'
  BY StaysConsented DEF ConsentInv
<1> QED
  BY <1>1, <1>2, <1>3 DEF ConsentInv

LEMMA NextConsent == Types /\ ConsentInv /\ [Next]_vars => ConsentInv'
<1> SUFFICES ASSUME Types, ConsentInv, [Next]_vars
             PROVE  ConsentInv'
  OBVIOUS
<1>0. /\ req \in [Request -> Slot] /\ Shrinks(pending, pending)
      /\ \A r \in Request : req[r] \in Slot /\ Known(req[r]) /\ Honest(req[r])
      /\ \A v : v = Idle => Honest(v)'
  BY DEF Types, TypeOK, Histories, Shrinks, ConsentInv, Honest, Idle
<1>1. UNCHANGED <<started, codes>> => Grows
  BY DEF Grows
<1>2. CASE UNCHANGED vars
  <2>1. Grows /\ Shrinks(pending', pending) /\ UNCHANGED <<req, logins>>
    BY <1>0, <1>1, <1>2 DEF vars
  <2> QED
    BY <2>1, ConsentFrame
<1>3. ASSUME NEW r \in Request, NEW p \in Provider, NewOAuthSession(r, p)
      PROVE  ConsentInv'
  <2> DEFINE n == nextSession
  <2>1. n \notin DOMAIN started
    BY NextIsNew DEF nextSession, Types, Histories
  <2> HIDE DEF n
  <2>2. /\ DOMAIN pending' \subseteq DOMAIN pending \cup {n}
        /\ pending'[n] = [value |-> [provider |-> p, token |-> NoToken],
                          expiresAt |-> now + PendingTtl]
        /\ \A x \in DOMAIN pending' \ {n} : pending'[x] = pending[x]
        /\ UNCHANGED <<codes, logins>>
    BY <1>3, PendingPut DEF NewOAuthSession, n
  <2>3. /\ DOMAIN started' = DOMAIN started \cup {n} /\ started'[n].provider = p
        /\ \A x \in DOMAIN started : started'[x] = started[x]
    BY <1>3, <2>1 DEF NewOAuthSession, With, n
  <2>4. Grows
    BY <2>2, <2>3 DEF Grows
  <2>5. \A q \in Request : req'[q] = req[q] \/ req'[q] = [at |-> "url", session |-> n]
    BY <1>0, <1>3 DEF NewOAuthSession, n
  <2>6. \A v : v = [at |-> "url", session |-> n] => Honest(v)'
    BY DEF Honest
  <2>7. \A q \in Request : Honest(req[q])'
    BY <1>0, <2>4, <2>5, <2>6, StaysConsented DEF Known
  <2>8. \A s \in DOMAIN pending' : EntryOf(s, pending[s].value)'
    <3>1. \A s : s = n => EntryOf(s, pending[s].value)'
      BY <2>2, <2>3 DEF EntryOf
    <3> QED
      BY <2>2, <2>4, <3>1, StaysConsented DEF ConsentInv, Types, Histories
  <2>9. \A l \in logins' : LoginOf(l)'
    BY <2>2, <2>4, StaysConsented DEF ConsentInv
  <2> QED
    BY <2>7, <2>8, <2>9 DEF ConsentInv
<1>4. ASSUME NEW r \in Request, GetOAuthURL(r)
      PROVE  ConsentInv'
  <2>1. /\ DOMAIN started' = DOMAIN started
        /\ \A s \in DOMAIN started : started'[s].provider = started[s].provider
    <3>1. PICK b : started' = [started EXCEPT ![req[r].session].sent = b]
      BY <1>4 DEF GetOAuthURL
    <3> QED
      BY <3>1
  <2>2. Grows /\ Shrinks(pending', pending) /\ UNCHANGED logins
    BY <1>0, <1>4, <2>1 DEF GetOAuthURL, Grows
  <2>3. \A q \in Request : req'[q] = req[q] \/ req'[q] = Idle
    BY <1>0, <1>4 DEF GetOAuthURL
  <2> QED
    BY <1>0, <2>2, <2>3, ConsentFrame
<1>5. ASSUME NEW r \in Request, NEW s \in Session, NEW c \in Code, NEW p \in Provider,
             NEW state \in BOOLEAN, callback(r, s, c, p, state)
      PROVE  ConsentInv'
  <2>1. PICK l \in {"getToken", "end"} :
          req' = [req EXCEPT ![r] = [at |-> l, session |-> s, code |-> c, provider |-> p]]
    <3>1. CASE state
      BY <1>5, <3>1 DEF callback
    <3>2. CASE ~state
      BY <1>5, <3>2 DEF callback
    <3> QED
      BY <3>1, <3>2
  <2>2. \A v : v = [at |-> l, session |-> s, code |-> c, provider |-> p] => Honest(v)'
    BY DEF Honest
  <2>3. Grows /\ Shrinks(pending', pending) /\ UNCHANGED logins
    BY <1>0, <1>1, <1>5 DEF callback
  <2> QED
    BY <1>0, <2>1, <2>2, <2>3, ConsentFrame
<1>6. ASSUME NEW r \in Request,
             \/ getToken(r) \/ updateToken(r) \/ userinfo(r) \/ GetOAuthService(r) \/ create(r),
             Goto(r, "end"), UNCHANGED <<pending, started, codes, logins>>
      PROVE  ConsentInv'
  <2>1. req[r].at \in {"getToken", "update", "userinfo", "service", "create"}
    BY <1>6 DEF getToken, updateToken, userinfo, GetOAuthService, create
  <2>2. \A v : v = [req[r] EXCEPT !.at = "end"] => v.at = "end"
    BY <1>0, <2>1, SlotKinds
  <2>3. \A v : v = [req[r] EXCEPT !.at = "end"] => Honest(v)'
    BY <2>2 DEF Honest
  <2>4. Grows /\ Shrinks(pending', pending) /\ UNCHANGED logins
    BY <1>0, <1>1, <1>6
  <2> QED
    BY <1>0, <1>6, <2>3, <2>4, ConsentFrame DEF Goto
<1>7. ASSUME NEW r \in Request, getToken(r)
      PROVE  ConsentInv'
  <2> DEFINE s == req[r].session
  <2>1. CASE s \notin DOMAIN pending
    BY <1>6, <1>7, <2>1 DEF getToken
  <2>2. CASE s \in DOMAIN pending
    <3> DEFINE v == [at |-> "update", session |-> s, code |-> req[r].code,
                     provider |-> req[r].provider, read |-> pending[s].value]
    <3>1. v.at = "update" /\ v.session = s /\ v.read = pending[s].value
      OBVIOUS
    <3>2. req' = [req EXCEPT ![r] = v] /\ UNCHANGED <<pending, started, codes, logins>>
      BY <1>7, <2>2 DEF getToken
    <3> HIDE DEF v
    <3>3. Honest(v)
      BY <2>2, <3>1 DEF Honest, ConsentInv, EntryOf
    <3>4. Grows /\ Shrinks(pending', pending) /\ s \in DOMAIN started
      BY <1>0, <1>1, <2>2, <3>2 DEF Types, Histories
    <3>5. \A w : w = v => Honest(w)'
      BY <3>1, <3>3, <3>4, StaysConsented
    <3> QED
      BY <1>0, <3>2, <3>4, <3>5, ConsentFrame
  <2> QED
    BY <2>1, <2>2
<1>8. ASSUME NEW r \in Request, updateToken(r)
      PROVE  ConsentInv'
  <2> DEFINE s == req[r].session
             c == req[r].code
             v == [req[r].read EXCEPT !.token = c]
  <2>1. CASE Goto(r, "end") /\ UNCHANGED <<pending, now, codes>>
    BY <1>6, <1>8, <2>1 DEF updateToken
  <2>2. ASSUME GetToken(c, s, req[r].read.provider),
               codes' = [codes EXCEPT ![c].spent = TRUE],
               UpdateToken(s, v),
               Goto(r, IF s \in DOMAIN pending THEN "userinfo" ELSE "end")
        PROVE  ConsentInv'
    <3>0. req[r].at = "update" /\ UNCHANGED <<started, logins>>
      BY <1>8 DEF updateToken
    <3>1. /\ req[r].read \in Value /\ c \in DOMAIN codes /\ s \in DOMAIN started
          /\ req[r].read.provider = started[s].provider
          /\ req[r] \in [at : {"update", "userinfo", "end"}, session : Session,
                         code : Code, provider : Provider, read : Value]
      BY <1>0, <3>0, SlotKinds DEF Known, Honest
    <3>2. v.provider = started[s].provider /\ v.token = c
      BY <3>1 DEF Value
    <3>3. /\ DOMAIN codes' = DOMAIN codes
          /\ \A x \in DOMAIN codes :
               codes'[x] = IF x = c THEN [codes[x] EXCEPT !.spent = TRUE] ELSE codes[x]
      BY <2>2
    <3>4. \A x \in DOMAIN codes :
            codes[x] \in [session : DOMAIN started, account : Account, provider : Provider,
                          spent : BOOLEAN]
      BY DEF Types, Histories
    <3>5. Grows /\ codes'[c].spent /\ codes'[c].session = s
      BY <2>2, <3>0, <3>1, <3>3, <3>4 DEF Grows, GetToken
    <3>6. \A x, t : x = c /\ t = s => Answers(x, t)'
      BY <3>1, <3>3, <3>5 DEF Answers
    <3> HIDE DEF v, s, c
    <3>7. \A t \in DOMAIN pending' : EntryOf(t, pending[t].value)'
      <4>1. /\ DOMAIN pending' = DOMAIN pending
            /\ s \in DOMAIN pending => pending'[s].value = v
            /\ \A x \in DOMAIN pending \ {s} : pending'[x] = pending[x]
        BY <2>2, TokenUpdate
      <4>2. \A t : t = s /\ t \in DOMAIN pending => EntryOf(t, pending[t].value)'
        BY <3>0, <3>2, <3>6, <4>1 DEF EntryOf
      <4>3. \A t \in DOMAIN pending : EntryOf(t, pending[t].value) /\ t \in DOMAIN started
        BY DEF ConsentInv, Types, Histories
      <4>4. \A t \in DOMAIN pending \ {s} : EntryOf(t, pending[t].value)'
        BY <3>5, <4>1, <4>3, StaysConsented
      <4> QED
        BY <4>1, <4>2, <4>4
    <3>8. \A q \in Request : Honest(req[q])'
      <4>1. PICK l \in {"userinfo", "end"} : req' = [req EXCEPT ![r].at = l]
        BY <2>2 DEF Goto
      <4>2. \A w : w = [req[r] EXCEPT !.at = l] => w.at = l
        BY <3>1
      <4>3. \A w : w = [req[r] EXCEPT !.at = l] => Honest(w)'
        BY <4>2 DEF Honest
      <4>4. \A q \in Request : req'[q] = req[q] \/ req'[q] = [req[r] EXCEPT !.at = l]
        BY <1>0, <4>1
      <4> QED
        BY <1>0, <3>5, <4>3, <4>4, StaysConsented DEF Known
    <3>9. \A l \in logins' : LoginOf(l)'
      BY <3>0, <3>5, StaysConsented DEF ConsentInv
    <3> QED
      BY <3>7, <3>8, <3>9 DEF ConsentInv
  <2> QED
    BY <1>8, <2>1, <2>2 DEF updateToken
<1>9. ASSUME NEW r \in Request, userinfo(r)
      PROVE  ConsentInv'
  <2> DEFINE s == req[r].session
             a == codes[pending[s].value.token].account
             v == [at |-> "service", session |-> s, code |-> req[r].code,
                   provider |-> req[r].provider, user |-> a]
  <2>1. CASE Goto(r, "end")
    BY <1>6, <1>9, <2>1 DEF userinfo
  <2>2. ASSUME s \in DOMAIN pending, pending[s].value.token # NoToken,
               req' = [req EXCEPT ![r] = v]
        PROVE  ConsentInv'
    <3>1. Consented(s, a) /\ s \in DOMAIN started
      BY <2>2 DEF ConsentInv, EntryOf, Consented, Answers, Types, Histories
    <3>2. v.at = "service" /\ v.session = s /\ v.user = a
      OBVIOUS
    <3> HIDE DEF v, a
    <3>3. Honest(v)
      BY <3>1, <3>2 DEF Honest
    <3>4. Grows /\ Shrinks(pending', pending) /\ UNCHANGED logins
      BY <1>0, <1>1, <1>9 DEF userinfo
    <3>5. \A w : w = v => Honest(w)'
      BY <3>1, <3>2, <3>3, <3>4, StaysConsented
    <3> QED
      BY <1>0, <2>2, <3>4, <3>5, ConsentFrame
  <2> QED
    BY <1>9, <2>1, <2>2 DEF userinfo
<1>10. ASSUME NEW r \in Request, GetOAuthService(r)
       PROVE  ConsentInv'
  <2> DEFINE s == req[r].session
             v == [req[r] EXCEPT !.at = "create"]
  <2>1. CASE Goto(r, "end")
    BY <1>6, <1>10, <2>1 DEF GetOAuthService
  <2>2. ASSUME Goto(r, "create"), s \in DOMAIN pending,
               pending[s].value.provider = req[r].provider,
               <<req[r].provider, req[r].user>> \in Whitelisted
        PROVE  ConsentInv'
    <3>1. /\ Consented(s, req[r].user) /\ s \in DOMAIN started
          /\ req[r].provider = started[s].provider
      BY <1>0, <1>10, <2>2 DEF GetOAuthService, Honest, ConsentInv, EntryOf, Types, Histories
    <3>2. v.at = "create" /\ v.session = s /\ v.user = req[r].user
          /\ v.provider = req[r].provider
      BY <1>0, <1>10, SlotKinds DEF GetOAuthService
    <3>3. req' = [req EXCEPT ![r] = v]
      BY <2>2 DEF Goto
    <3> HIDE DEF v
    <3>4. Honest(v)
      BY <2>2, <3>1, <3>2 DEF Honest
    <3>5. Grows /\ Shrinks(pending', pending) /\ UNCHANGED logins
      BY <1>0, <1>1, <1>10 DEF GetOAuthService
    <3>6. \A w : w = v => Honest(w)'
      BY <3>1, <3>2, <3>4, <3>5, StaysConsented
    <3> QED
      BY <1>0, <3>3, <3>5, <3>6, ConsentFrame
  <2> QED
    BY <1>10, <2>1, <2>2 DEF GetOAuthService
<1>11. ASSUME NEW r \in Request, create(r)
       PROVE  ConsentInv'
  <2>1. CASE UNCHANGED logins
    BY <1>6, <1>11, <2>1 DEF create
  <2> DEFINE l == [session |-> req[r].session, code |-> req[r].code,
                   provider |-> req[r].provider, account |-> req[r].user]
  <2>2. CASE logins' = logins \cup {l}
    <3>1. Grows /\ UNCHANGED pending /\ req[r].at = "create" /\ Goto(r, "end")
      BY <1>1, <1>11 DEF create
    <3>2. LoginOf(l)
      BY <1>0, <3>1 DEF LoginOf, Honest, Known
    <3> HIDE DEF l
    <3>3. \A x \in logins' : LoginOf(x)'
      BY <2>2, <3>1, <3>2, StaysConsented DEF ConsentInv
    <3>4. \A v : v = [req[r] EXCEPT !.at = "end"] => Honest(v)'
      <4>1. \A v : v = [req[r] EXCEPT !.at = "end"] => v.at = "end"
        BY <1>0, <3>1, SlotKinds
      <4> QED
        BY <4>1 DEF Honest
    <3>5. \A q \in Request : req'[q] = req[q] \/ req'[q] = [req[r] EXCEPT !.at = "end"]
      BY <1>0, <3>1 DEF Goto
    <3>6. \A q \in Request : Honest(req[q])'
      BY <1>0, <3>1, <3>4, <3>5, StaysConsented DEF Known
    <3>7. \A s \in DOMAIN pending' : EntryOf(s, pending[s].value)'
      BY <3>1, StaysConsented DEF ConsentInv, Types, Histories
    <3> QED
      BY <3>3, <3>6, <3>7 DEF ConsentInv
  <2> QED
    BY <1>11, <2>1, <2>2 DEF create
<1>12. ASSUME NEW r \in Request, end(r)
       PROVE  ConsentInv'
  <2>1. Shrinks(pending', pending) /\ Grows /\ UNCHANGED logins
    BY <1>1, <1>12, PendingRemove DEF end, EndOAuthSession
  <2>2. \A q \in Request : req'[q] = req[q] \/ req'[q] = Idle
    BY <1>0, <1>12 DEF end
  <2> QED
    BY <1>0, <2>1, <2>2, ConsentFrame
<1>13. ASSUME NEW s \in Session, NEW a \in Account, consent(s, a)
       PROVE  ConsentInv'
  <2>1. nextCode \notin DOMAIN codes
    BY NextIsNew DEF nextCode, Types, Histories
  <2>2. Grows /\ UNCHANGED <<pending, req, logins>>
    BY <1>13, <2>1 DEF consent, With, Grows
  <2> QED
    BY <1>0, <2>2, ConsentFrame
<1>14. CASE tick
  <2>1. Grows
    BY <1>1, <1>14, TickShrinks
  <2> QED
    BY <1>14, <2>1, TickShrinks, ConsentFrame
<1>15. CASE restart
  <2>1. Grows /\ Shrinks(pending', pending) /\ UNCHANGED logins
        /\ \A q \in Request : req'[q] = Idle
    BY <1>1, <1>15 DEF restart, Empty, Shrinks
  <2> QED
    BY <1>0, <2>1, ConsentFrame
<1> QED
  BY <1>2, <1>3, <1>4, <1>5, <1>7, <1>8, <1>9, <1>10, <1>11, <1>12, <1>13, <1>14, <1>15
  DEF Next

\* Whoever oauthCallbackHandler logs in consented, at the provider of that very
\* pending session and in answer to it, and is on the whitelist of that provider,
\* however the callbacks of one session take turns with its token.
THEOREM LoginsFollowConsent == Spec => []LoginConsented
<1>1. Init => ConsentInv
  BY DEF Init, ConsentInv, Empty, Honest, Idle
<1>2. ConsentInv => LoginConsented
  BY DEF ConsentInv, LoginOf, Consented, Answers, LoginConsented
<1> QED
  BY <1>1, <1>2, NextConsent, TypesInvariant, PTL DEF Spec
=============================================================================
