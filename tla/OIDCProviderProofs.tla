------------------------- MODULE OIDCProviderProofs -------------------------
(***************************************************************************)
(* The OpenID Connect provider, proved for every set of users, clients and *)
(* requests in flight, every capacity of the caches and all bounds.        *)
(***************************************************************************)
EXTENDS OIDCProvider, FiniteSetTheorems, TLAPS

(***************************************************************************)
(* What the operations of a cache do to its map.                           *)
(***************************************************************************)

\* A put adds its key and may cost another entry.
Extends(new, old, k, v) ==
    /\ DOMAIN new \subseteq DOMAIN old \cup {k}
    /\ k \in DOMAIN new
    /\ new[k].value = v
    /\ \A x \in DOMAIN new \ {k} : new[x] = old[x]

\* A removal, a restart and time take entries away and leave the others alone.
Shrinks(new, old) ==
    /\ DOMAIN new \subseteq DOMAIN old
    /\ \A x \in DOMAIN new : new[x] = old[x]

LEMMA TicketPut ==
  ASSUME NEW k, NEW v, NEW ttl, T!Put(k, v, ttl)
  PROVE  Extends(tickets', tickets, k, v) /\ now' = now
<1>1. PICK m \in T!Room(k) :
        tickets' = T!With(m, k, [value |-> v, expiresAt |-> T!Deadline(ttl)])
  BY DEF T!Put
<1>2. Shrinks(m, tickets)
  BY DEF T!Room, T!Without, Shrinks
<1>3. now' = now
  BY DEF T!Put
<1> QED
  BY <1>1, <1>2, <1>3 DEF T!With, Shrinks, Extends

LEMMA CodePut ==
  ASSUME NEW k, NEW v, NEW ttl, C!Put(k, v, ttl)
  PROVE  Extends(codes', codes, k, v) /\ now' = now
<1>1. PICK m \in C!Room(k) :
        codes' = C!With(m, k, [value |-> v, expiresAt |-> C!Deadline(ttl)])
  BY DEF C!Put
<1>2. Shrinks(m, codes)
  BY DEF C!Room, C!Without, Shrinks
<1>3. now' = now
  BY DEF C!Put
<1> QED
  BY <1>1, <1>2, <1>3 DEF C!With, Shrinks, Extends

LEMMA UsedPut ==
  ASSUME NEW k, NEW v, NEW ttl, U!Put(k, v, ttl)
  PROVE  Extends(used', used, k, v) /\ now' = now
<1>1. PICK m \in U!Room(k) :
        used' = U!With(m, k, [value |-> v, expiresAt |-> U!Deadline(ttl)])
  BY DEF U!Put
<1>2. Shrinks(m, used)
  BY DEF U!Room, U!Without, Shrinks
<1>3. now' = now
  BY DEF U!Put
<1> QED
  BY <1>1, <1>2, <1>3 DEF U!With, Shrinks, Extends

LEMMA TicketRemove ==
  ASSUME NEW k, T!Remove(k)
  PROVE  Shrinks(tickets', tickets) /\ k \notin DOMAIN tickets' /\ now' = now
BY DEF T!Remove, T!Without, Shrinks

LEMMA CodeRemove ==
  ASSUME NEW k, C!Remove(k)
  PROVE  Shrinks(codes', codes) /\ k \notin DOMAIN codes' /\ now' = now
BY DEF C!Remove, C!Without, Shrinks

LEMMA TickShrinks ==
  ASSUME Tick
  PROVE  /\ Shrinks(tickets', tickets) /\ Shrinks(codes', codes) /\ Shrinks(used', used)
         /\ now' = now + 1
         /\ UNCHANGED <<sessions, req, counters, history>>
<1>1. Shrinks(tickets', tickets)
  BY DEF Tick, T!Tick, Shrinks
<1>2. Shrinks(codes', codes)
  BY DEF Tick, C!Tick, Shrinks
<1>3. Shrinks(used', used)
  BY DEF Tick, U!Tick, Shrinks
<1>4. now' = now + 1 /\ UNCHANGED <<sessions, req, counters, history>>
  BY DEF Tick, T!Tick
<1> QED
  BY <1>1, <1>2, <1>3, <1>4

LEMMA RestartShrinks ==
  ASSUME Restart
  PROVE  /\ Shrinks(tickets', tickets) /\ Shrinks(codes', codes) /\ Shrinks(used', used)
         /\ req' = [r \in Request |-> Idle]
         /\ UNCHANGED <<sessions, now, nextTicket, nextGrant, history>>
         /\ restarts' = restarts + 1
BY DEF Restart, Shrinks, Empty

(***************************************************************************)
(* Codes are numbered without a gap, so the next one is new.               *)
(***************************************************************************)
Numbered(S) == \E n \in Nat : S = 1 .. n

LEMMA NextIsNew ==
  ASSUME NEW S, Numbered(S)
  PROVE  LET n == Cardinality(S) + 1
         IN  n \in Nat \ {0} /\ n \notin S /\ Numbered(S \cup {n})
<1>1. PICK n \in Nat : S = 1 .. n
  BY DEF Numbered
<1>2. Cardinality(S) = n
  BY <1>1, FS_Interval
<1>3. S \cup {n + 1} = 1 .. n + 1
  BY <1>1
<1> QED
  BY <1>1, <1>2, <1>3 DEF Numbered

(***************************************************************************)
(* Type correctness, of the counters and the histories too.                *)
(***************************************************************************)
Counters ==
    /\ now \in Nat /\ restarts \in Nat
    /\ nextTicket \in Nat \ {0} /\ nextGrant \in Nat \ {0}

Histories ==
    /\ Numbered(DOMAIN issued)
    /\ \A c \in DOMAIN issued : issued[c] \in [sub : Sub, time : Nat, ticket : Ticket]
    /\ \A g \in DOMAIN grants :
         grants[g] \in [code : Code, client : Client, by : {"code", "refresh"},
                        parent : Nat]
    /\ DOMAIN tickets \subseteq Ticket
    /\ DOMAIN codes \subseteq DOMAIN issued /\ DOMAIN used \subseteq Code

Types == TypeOK /\ Counters /\ Histories

\* The steps of a handler, seen from its slot.
LEMMA SlotTyped ==
  ASSUME req \in [Request -> Slot], NEW r \in Request, NEW v \in Slot,
         req' = [req EXCEPT ![r] = v]
  PROVE  req' \in [Request -> Slot]
OBVIOUS

Completing(slot) == slot.at \in {"deleteTicket", "deleteOldSession", "createCode"}
Redeeming(slot) == slot.at \in {"markUsed", "create"}

LEMMA SlotKinds ==
  ASSUME NEW slot \in Slot
  PROVE  /\ Completing(slot) =>
              slot \in [at : {"deleteTicket", "deleteOldSession", "createCode"},
                        ticket : Ticket, sub : Sub]
         /\ slot.at = "checkUsed" => slot \in [at : {"checkUsed"}, code : Code]
         /\ slot.at = "revoke" => slot \in [at : {"revoke"}, code : Code, sub : Sub]
         /\ Redeeming(slot) =>
              slot \in [at : {"markUsed", "create"}, code : Code, valid : BOOLEAN,
                        sub : Sub, client : Client]
         /\ slot.at = "update" =>
              slot \in [at : {"update"}, sub : Sub, grant : Grant, code : Code,
                        client : Client]
         /\ slot.at = "forget" => slot \in [at : {"forget"}, sub : Sub]
BY DEF Slot, Idle, Completing, Redeeming

LEMMA InitTyped == Init => Types
<1> SUFFICES ASSUME Init PROVE Types
  OBVIOUS
<1>1. DOMAIN Empty = {}
  BY DEF Empty
<1>2. TypeOK
  BY <1>1 DEF Init, TypeOK, Slot
<1>3. DOMAIN issued = 1 .. 0
  BY <1>1 DEF Init
<1>4. Histories
  BY <1>1, <1>3 DEF Init, Histories, Numbered
<1> QED
  BY <1>2, <1>4 DEF Init, Types, Counters

\* What the three caches hold keeps its type when entries go.
LEMMA ShrunkTyped ==
  ASSUME Types, Shrinks(tickets', tickets), Shrinks(codes', codes),
         Shrinks(used', used), UNCHANGED issued
  PROVE  /\ \A c \in DOMAIN codes' : codes'[c].value \in Sub
         /\ \A c \in DOMAIN used' : used'[c].value \in Sub
         /\ \A t \in DOMAIN tickets' : tickets'[t].value \in Client
         /\ DOMAIN tickets' \subseteq Ticket
         /\ DOMAIN codes' \subseteq DOMAIN issued' /\ DOMAIN used' \subseteq Code
BY DEF Types, TypeOK, Histories, Shrinks

LEMMA SameCaches ==
  ASSUME UNCHANGED caches
  PROVE  /\ Shrinks(tickets', tickets) /\ Shrinks(codes', codes)
         /\ Shrinks(used', used)
BY DEF caches, Shrinks

\* A step of slot r that changes nothing but its slot.
LEMMA MoveTyped ==
  ASSUME Types, NEW r \in Request, NEW v \in Slot, req' = [req EXCEPT ![r] = v],
         UNCHANGED <<caches, sessions, now, counters, history, serial>>
  PROVE  Types'
<1>1. req' \in [Request -> Slot]
  BY DEF Types, TypeOK
<1> QED
  BY <1>1 DEF Types, TypeOK, Histories, Counters, caches, counters, history

LEMMA authorizeTyped ==
  ASSUME Types, NEW c \in Client, authorize(c), UNCHANGED serial
  PROVE  Types'
<1>1. Extends(tickets', tickets, nextTicket, c) /\ now' = now
  BY TicketPut DEF authorize
<1>2. nextTicket \in Ticket /\ nextTicket' = nextTicket + 1
  BY BoundsAssumption DEF authorize, Types, Counters, Ticket
<1>3. UNCHANGED <<codes, used, sessions, req, nextGrant, restarts, issued, grants,
                  reused, revoked>>
  BY DEF authorize, history
<1>4. /\ \A t \in DOMAIN tickets' : tickets'[t].value \in Client
      /\ DOMAIN tickets' \subseteq Ticket
  BY <1>1, <1>2 DEF Types, TypeOK, Histories, Extends
<1> QED
  BY <1>1, <1>2, <1>3, <1>4 DEF Types, TypeOK, Histories, Counters

LEMMA completeTyped ==
  ASSUME Types, UNCHANGED serial, NEW r \in Request
  PROVE  /\ (\E u \in User, t \in Ticket : completeRead(r, u, t)) => Types'
         /\ completeDeleteTicket(r) => Types'
         /\ completeDeleteOldSession(r) => Types'
         /\ completeCreateCode(r) => Types'
<1>0. req[r] \in Slot
  BY DEF Types, TypeOK
<1>1. ASSUME NEW u \in User, NEW t \in Ticket, completeRead(r, u, t)
      PROVE  Types'
  <2>1. [at |-> "deleteTicket", ticket |-> t, sub |-> <<u, tickets[t].value>>] \in Slot
    BY <1>1 DEF completeRead, Types, TypeOK, Slot, Sub
  <2> QED
    BY <1>1, <2>1, MoveTyped DEF completeRead
<1>2. CASE completeDeleteTicket(r)
  <2>1. [req[r] EXCEPT !.at = "deleteOldSession"] \in Slot
    BY <1>0, <1>2, SlotKinds DEF completeDeleteTicket, Completing, Slot
  <2>2. req' \in [Request -> Slot]
    BY <1>2, <2>1 DEF completeDeleteTicket, Types, TypeOK
  <2>3. Shrinks(tickets', tickets) /\ now' = now
    BY <1>2, TicketRemove DEF completeDeleteTicket, DeleteAuthorizeRequestTicket
  <2> QED
    BY <1>2, <2>2, <2>3 DEF completeDeleteTicket, Types, TypeOK, Histories, Counters,
       Shrinks, history, counters
<1>3. CASE completeDeleteOldSession(r)
  <2>1. [req[r] EXCEPT !.at = "createCode"] \in Slot /\ Idle \in Slot
    BY <1>0, <1>3, SlotKinds DEF completeDeleteOldSession, Completing, Slot
  <2>2. req' \in [Request -> Slot]
    BY <1>3, <2>1 DEF completeDeleteOldSession, Types, TypeOK
  <2>3. Shrinks(sessions', sessions)
    BY <1>3 DEF completeDeleteOldSession, DeleteSessionBySub, Without, Shrinks
  <2> QED
    BY <1>3, <2>2, <2>3 DEF completeDeleteOldSession, Types, TypeOK, Histories, Counters,
       Shrinks, caches, counters
<1>4. CASE completeCreateCode(r)
  <2> DEFINE n == nextCode
  <2>1. n \in Nat \ {0} /\ n \notin DOMAIN issued /\ Numbered(DOMAIN issued \cup {n})
    BY NextIsNew DEF nextCode, Types, Histories
  <2>2. n \in Code
    BY <1>4, <2>1, BoundsAssumption DEF completeCreateCode, Code
  <2> HIDE DEF n
  <2>3. req[r].sub \in Sub /\ req[r].ticket \in Ticket
    BY <1>0, <1>4, SlotKinds DEF completeCreateCode, Completing
  <2>4. Extends(codes', codes, n, req[r].sub) /\ now' = now
    BY <1>4, CodePut DEF completeCreateCode, n
  <2>5. issued' = With(issued, n, [sub |-> req[r].sub, time |-> now,
                                   ticket |-> req[r].ticket])
    BY <1>4 DEF completeCreateCode, n
  <2>6. req' \in [Request -> Slot]
    BY <1>4 DEF completeCreateCode, Types, TypeOK, Slot
  <2>7. /\ DOMAIN issued' = DOMAIN issued \cup {n}
        /\ \A c \in DOMAIN issued' :
             issued'[c] \in [sub : Sub, time : Nat, ticket : Ticket]
    BY <2>3, <2>5 DEF With, Types, Histories, Counters
  <2>8. /\ \A c \in DOMAIN codes' : codes'[c].value \in Sub
        /\ DOMAIN codes' \subseteq DOMAIN issued'
    BY <2>3, <2>4, <2>7 DEF Types, TypeOK, Histories, Extends
  <2>9. UNCHANGED <<tickets, used, sessions, counters, grants, reused, revoked>>
    BY <1>4 DEF completeCreateCode
  <2> QED
    BY <2>1, <2>2, <2>4, <2>6, <2>7, <2>8, <2>9
       DEF Types, TypeOK, Histories, Counters, counters
<1> QED
  BY <1>1, <1>2, <1>3, <1>4

LEMMA exchangeTyped ==
  ASSUME Types, UNCHANGED serial, NEW r \in Request
  PROVE  /\ (\E c \in Client, code \in Code, valid \in BOOLEAN :
               exchangeTake(r, c, code, valid)) => Types'
         /\ exchangeCheckUsed(r) => Types'
         /\ exchangeRevoke(r) => Types'
         /\ exchangeMarkUsed(r) => Types'
<1>0. req[r] \in Slot /\ Idle \in Slot
  BY DEF Types, TypeOK, Slot
<1>1. ASSUME NEW c \in Client, NEW code \in Code, NEW valid \in BOOLEAN,
             exchangeTake(r, c, code, valid)
      PROVE  Types'
  <2>1. CASE TakesCode(code, c) /\ DeleteCode(code)
             /\ req' = [req EXCEPT ![r] =
                          [at |-> "markUsed", code |-> code, valid |-> valid,
                           sub |-> codes[code].value, client |-> c]]
    <3>1. codes[code].value \in Sub
      BY <2>1 DEF TakesCode, Types, TypeOK
    <3>2. [at |-> "markUsed", code |-> code, valid |-> valid,
           sub |-> codes[code].value, client |-> c] \in Slot
      BY <3>1 DEF Slot
    <3>3. req' \in [Request -> Slot]
      BY <2>1, <3>2 DEF Types, TypeOK
    <3>4. Shrinks(codes', codes) /\ now' = now
      BY <2>1, CodeRemove DEF DeleteCode
    <3>5. UNCHANGED <<tickets, used, sessions, counters, history>>
      BY <1>1 DEF exchangeTake
    <3> QED
      BY <3>3, <3>4, <3>5 DEF Types, TypeOK, Histories, Counters, Shrinks, history, counters
  <2>2. CASE UNCHANGED <<codes, now>>
             /\ req' = [req EXCEPT ![r] = [at |-> "checkUsed", code |-> code]]
    <3>1. [at |-> "checkUsed", code |-> code] \in Slot
      BY DEF Slot
    <3> QED
      BY <1>1, <2>2, <3>1, MoveTyped DEF exchangeTake, caches
  <2> QED
    BY <1>1, <2>1, <2>2 DEF exchangeTake
<1>2. CASE exchangeCheckUsed(r)
  <2>1. req[r].code \in Code
    BY <1>0, <1>2, SlotKinds DEF exchangeCheckUsed
  <2>2. req[r].code \in DOMAIN used =>
          [at |-> "revoke", code |-> req[r].code, sub |-> used[req[r].code].value] \in Slot
    BY <2>1 DEF Types, TypeOK, Slot
  <2> QED
    BY <1>0, <1>2, <2>2, MoveTyped DEF exchangeCheckUsed
<1>3. CASE exchangeRevoke(r)
  <2>1. req' \in [Request -> Slot]
    BY <1>0, <1>3 DEF exchangeRevoke, Types, TypeOK
  <2>2. Shrinks(sessions', sessions)
    BY <1>3 DEF exchangeRevoke, DeleteSessionBySub, Without, Shrinks
  <2> QED
    BY <1>3, <2>1, <2>2 DEF exchangeRevoke, Types, TypeOK, Histories, Counters,
       Shrinks, caches, counters
<1>4. CASE exchangeMarkUsed(r)
  <2>1. req[r] \in [at : {"markUsed", "create"}, code : Code, valid : BOOLEAN,
                    sub : Sub, client : Client]
    BY <1>0, <1>4, SlotKinds DEF exchangeMarkUsed, Redeeming
  <2>2. [req[r] EXCEPT !.at = "create"] \in Slot
    BY <2>1 DEF Slot
  <2>3. req' \in [Request -> Slot]
    BY <1>0, <1>4, <2>2 DEF exchangeMarkUsed, Types, TypeOK
  <2>4. Extends(used', used, req[r].code, req[r].sub) /\ now' = now
    BY <1>4, UsedPut DEF exchangeMarkUsed, MarkCodeAsUsed
  <2>5. UNCHANGED <<tickets, codes, sessions, counters, history>>
    BY <1>4 DEF exchangeMarkUsed
  <2>6. \A c \in DOMAIN used' : used'[c].value \in Sub
    BY <2>1, <2>4 DEF Extends, Types, TypeOK
  <2>7. DOMAIN used' \subseteq Code
    BY <2>1, <2>4 DEF Extends, Types, Histories
  <2> QED
    BY <2>3, <2>4, <2>5, <2>6, <2>7 DEF Types, TypeOK, Histories, Counters, history, counters
<1> QED
  BY <1>1, <1>2, <1>3, <1>4

\* The two statements that write a row and give out a pair of tokens.
LEMMA GiveOutTyped ==
  ASSUME Types, UNCHANGED serial, NEW r \in Request,
         exchangeCreate(r) \/ refreshUpdate(r)
  PROVE  Types'
<1>1. /\ req[r].sub \in Sub /\ req[r].code \in Code /\ req[r].client \in Client
      /\ req[r].at = "update" => req[r].grant \in Grant
  <2>1. req[r] \in Slot
    BY DEF Types, TypeOK
  <2> QED
    BY <2>1, SlotKinds DEF exchangeCreate, refreshUpdate, Redeeming
<1>2. req' \in [Request -> Slot]
  BY DEF exchangeCreate, refreshUpdate, Types, TypeOK, Slot
<1>3. UNCHANGED <<caches, now, nextTicket, restarts, issued, reused, revoked>>
  BY DEF exchangeCreate, refreshUpdate
<1>4. CASE UNCHANGED <<sessions, grants, nextGrant>>
  BY <1>2, <1>3, <1>4 DEF Types, TypeOK, Histories, Counters, caches
<1>5. ASSUME NEW by \in {"code", "refresh"}, NEW parent \in Nat,
             sessions' = With(sessions, req[r].sub, Row(req[r].code, req[r].client)),
             GiveOut(req[r].code, req[r].client, by, parent)
      PROVE  Types'
  <2>1. nextGrant \in Grant /\ nextGrant' = nextGrant + 1
    BY <1>5, BoundsAssumption DEF GiveOut, Types, Counters, Grant
  <2>2. Row(req[r].code, req[r].client)
          \in [grant : Grant, code : Code, client : Client,
               tokenExpiresAt : Nat, refreshTokenExpiresAt : Nat]
    BY <1>1, <2>1, DurationsAssumption DEF Row, Types, Counters
  <2>3. /\ DOMAIN sessions' \subseteq Sub
        /\ \A s \in DOMAIN sessions' :
             sessions'[s] \in [grant : Grant, code : Code, client : Client,
                               tokenExpiresAt : Nat, refreshTokenExpiresAt : Nat]
    BY <1>1, <1>5, <2>2 DEF With, Types, TypeOK
  <2>4. /\ DOMAIN grants' \subseteq Grant
        /\ \A g \in DOMAIN grants' :
             grants'[g] \in [code : Code, client : Client, by : {"code", "refresh"},
                             parent : Nat]
    BY <1>1, <1>5, <2>1 DEF GiveOut, With, Types, TypeOK, Histories
  <2> QED
    BY <1>2, <1>3, <2>1, <2>3, <2>4 DEF Types, TypeOK, Histories, Counters, caches
<1>6. \A g \in Grant : g \in Nat
  BY DEF Grant
<1> QED
  BY <1>1, <1>4, <1>5, <1>6 DEF exchangeCreate, refreshUpdate

LEMMA refreshTyped ==
  ASSUME Types, UNCHANGED serial, NEW r \in Request,
         NEW c \in Client, NEW g \in Grant, refreshRead(r, c, g)
  PROVE  Types'
<1>1. PICK sub \in DOMAIN sessions :
        req' = [req EXCEPT ![r] = [at |-> "update", sub |-> sub, grant |-> g,
                                   code |-> sessions[sub].code, client |-> c]]
  BY DEF refreshRead
<1>2. [at |-> "update", sub |-> sub, grant |-> g,
       code |-> sessions[sub].code, client |-> c] \in Slot
  BY DEF Types, TypeOK, Slot
<1> QED
  BY <1>1, <1>2, MoveTyped DEF refreshRead

LEMMA userinfoTyped ==
  ASSUME Types, UNCHANGED serial, NEW r \in Request
  PROVE  /\ (\E g \in Grant : userinfoRead(r, g)) => Types'
         /\ userinfoForget(r) => Types'
<1>1. ASSUME NEW g \in Grant, userinfoRead(r, g)
      PROVE  Types'
  <2>1. PICK sub \in DOMAIN sessions :
          req' = [req EXCEPT ![r] = [at |-> "forget", sub |-> sub]]
    BY <1>1 DEF userinfoRead
  <2>2. [at |-> "forget", sub |-> sub] \in Slot
    BY DEF Types, TypeOK, Slot
  <2> QED
    BY <1>1, <2>1, <2>2, MoveTyped DEF userinfoRead
<1>2. CASE userinfoForget(r)
  <2>1. req' \in [Request -> Slot]
    BY <1>2 DEF userinfoForget, Types, TypeOK, Slot
  <2>2. Shrinks(sessions', sessions)
    BY <1>2 DEF userinfoForget, Without, Shrinks
  <2> QED
    BY <1>2, <2>1, <2>2 DEF userinfoForget, Types, TypeOK, Histories, Counters,
       Shrinks, caches, counters, history
<1> QED
  BY <1>1, <1>2

LEMMA NextTyped == Types /\ [Next]_vars => Types'
<1> SUFFICES ASSUME Types, [Next]_vars
             PROVE  Types'
  OBVIOUS
<1>1. CASE UNCHANGED vars
  BY <1>1 DEF vars, Types, TypeOK, Histories, Counters, nextCode
<1>2. ASSUME cleanup, UNCHANGED serial
      PROVE  Types'
  <2>1. Shrinks(sessions', sessions)
    BY <1>2 DEF cleanup, Without, Shrinks
  <2> QED
    BY <1>2, <2>1 DEF cleanup, Types, TypeOK, Histories, Counters, Shrinks, caches,
       counters, history
<1>3. ASSUME Tick, UNCHANGED serial
      PROVE  Types'
  BY <1>3, TickShrinks, ShrunkTyped
     DEF Types, TypeOK, Histories, Counters, counters, history
<1>4. ASSUME Restart, UNCHANGED serial
      PROVE  Types'
  <2>1. req' \in [Request -> Slot]
    BY <1>4, RestartShrinks DEF Slot
  <2> QED
    BY <1>4, <2>1, RestartShrinks, ShrunkTyped
       DEF Types, TypeOK, Histories, Counters, history
<1>5. ASSUME NEW r \in Request, Begin(r), UNCHANGED serial
      PROVE  Types'
  BY <1>5, completeTyped, exchangeTyped, refreshTyped, userinfoTyped DEF Begin
<1>6. ASSUME NEW r \in Request, Step(r), UNCHANGED serial
      PROVE  Types'
  BY <1>6, completeTyped, exchangeTyped, GiveOutTyped, userinfoTyped DEF Step
<1> QED
  BY <1>1, <1>2, <1>3, <1>4, <1>5, <1>6, authorizeTyped DEF Next

LEMMA TypesInvariant == Spec => []Types
BY InitTyped, NextTyped, PTL DEF Spec

\* The slots of the handlers, the caches and the table hold what they should,
\* in every interleaving of the handlers of OIDCController.
THEOREM TypeCorrect == Spec => []TypeOK
<1>1. Types => TypeOK
  BY DEF Types
<1> QED
  BY <1>1, TypesInvariant, PTL

(***************************************************************************)
(* Tokens follow consent: whatever a cache, a slot or a row knows of a     *)
(* code agrees with what the user consented to when it was issued.         *)
(***************************************************************************)
Agrees(slot) ==
    /\ slot.at \in {"checkUsed", "revoke", "markUsed", "create", "update"} =>
         slot.code \in DOMAIN issued
    /\ slot.at \in {"revoke", "markUsed", "create", "update"} =>
         slot.sub = issued[slot.code].sub
    /\ slot.at \in {"markUsed", "create", "update"} => slot.client = slot.sub[2]

RowAgrees(s, row) ==
    row.code \in DOMAIN issued /\ issued[row.code].sub = s /\ row.client = s[2]

GrantAgrees(grant) ==
    grant.code \in DOMAIN issued /\ grant.client = issued[grant.code].sub[2]

ConsentInv ==
    /\ \A c \in DOMAIN codes : codes[c].value = issued[c].sub
    /\ \A c \in DOMAIN used : c \in DOMAIN issued /\ used[c].value = issued[c].sub
    /\ \A r \in Request : Agrees(req[r])
    /\ \A s \in DOMAIN sessions : RowAgrees(s, sessions[s])
    /\ \A g \in DOMAIN grants : GrantAgrees(grants[g])

\* Most steps move slots to where they agree and take away entries and rows.
LEMMA ConsentFrame ==
  ASSUME Types, ConsentInv, UNCHANGED issued,
         Shrinks(codes', codes), Shrinks(used', used), Shrinks(sessions', sessions),
         UNCHANGED grants,
         \A r \in Request : req'[r] = req[r] \/ Agrees(req'[r])
  PROVE  ConsentInv'
<1>1. \A r \in Request : Agrees(req[r])'
  BY DEF ConsentInv, Agrees
<1>2. \A s \in DOMAIN sessions' : RowAgrees(s, sessions[s])'
  BY DEF ConsentInv, RowAgrees, Shrinks
<1> QED
  BY <1>1, <1>2 DEF ConsentInv, GrantAgrees, Shrinks

LEMMA IdleAgrees == Agrees(Idle)
BY DEF Agrees, Idle

LEMMA NextConsent == Types /\ ConsentInv /\ [Next]_vars => ConsentInv'
<1> SUFFICES ASSUME Types, ConsentInv, [Next]_vars
             PROVE  ConsentInv'
  OBVIOUS
<1>0. /\ req \in [Request -> Slot]
      /\ \A r \in Request : req[r] \in Slot /\ Agrees(req[r])
  BY DEF Types, TypeOK, ConsentInv
<1>1. CASE UNCHANGED vars
  BY <1>1, ConsentFrame DEF vars, Shrinks
<1>2. CASE \E c \in Client : authorize(c)
  BY <1>2, ConsentFrame DEF authorize, history, Shrinks
<1>3. CASE cleanup
  <2>1. Shrinks(sessions', sessions)
    BY <1>3 DEF cleanup, Without, Shrinks
  <2> QED
    BY <1>3, <2>1, SameCaches, ConsentFrame DEF cleanup, history
<1>4. CASE Tick
  BY <1>4, TickShrinks, ConsentFrame DEF history, Shrinks
<1>5. CASE Restart
  BY <1>5, RestartShrinks, ConsentFrame, IdleAgrees DEF history, Shrinks
<1>6. ASSUME NEW r \in Request, NEW u \in User, NEW t \in Ticket, completeRead(r, u, t)
      PROVE  ConsentInv'
  <2>1. \A q \in Request : req'[q] = req[q] \/ Agrees(req'[q])
    BY <1>0, <1>6 DEF completeRead, Agrees
  <2> QED
    BY <1>6, <2>1, SameCaches, ConsentFrame DEF completeRead, history, Shrinks
<1>7. ASSUME NEW r \in Request, completeDeleteTicket(r)
      PROVE  ConsentInv'
  <2>1. Agrees([req[r] EXCEPT !.at = "deleteOldSession"])
    BY <1>0, <1>7, SlotKinds DEF completeDeleteTicket, Completing, Agrees
  <2>2. \A q \in Request : req'[q] = req[q] \/ Agrees(req'[q])
    BY <1>0, <1>7, <2>1 DEF completeDeleteTicket
  <2> QED
    BY <1>7, <2>2, ConsentFrame DEF completeDeleteTicket, history, Shrinks
<1>8. ASSUME NEW r \in Request, completeDeleteOldSession(r)
      PROVE  ConsentInv'
  <2>1. Agrees([req[r] EXCEPT !.at = "createCode"])
    BY <1>0, <1>8, SlotKinds DEF completeDeleteOldSession, Completing, Agrees
  <2>2. \A q \in Request : req'[q] = req[q] \/ Agrees(req'[q])
    BY <1>0, <1>8, <2>1, IdleAgrees DEF completeDeleteOldSession
  <2>3. Shrinks(sessions', sessions)
    BY <1>8 DEF completeDeleteOldSession, DeleteSessionBySub, Without, Shrinks
  <2> QED
    BY <1>8, <2>2, <2>3, SameCaches, ConsentFrame DEF completeDeleteOldSession
<1>9. ASSUME NEW r \in Request, completeCreateCode(r)
      PROVE  ConsentInv'
  <2> DEFINE n == nextCode
  <2>1. n \notin DOMAIN issued
    BY NextIsNew DEF nextCode, Types, Histories
  <2> HIDE DEF n
  <2>2. Extends(codes', codes, n, req[r].sub)
    BY <1>9, CodePut DEF completeCreateCode, n
  <2>3. /\ DOMAIN issued' = DOMAIN issued \cup {n}
        /\ issued'[n].sub = req[r].sub
        /\ \A c \in DOMAIN issued : issued'[c] = issued[c]
    BY <1>9, <2>1 DEF completeCreateCode, With, n
  <2>4. \A q \in Request : req'[q] = req[q] \/ req'[q] = Idle
    BY <1>0, <1>9 DEF completeCreateCode
  <2>5. \A q \in Request : Agrees(req[q])'
    BY <1>0, <2>3, <2>4 DEF Agrees, Idle
  <2>6. UNCHANGED <<used, sessions, grants>>
    BY <1>9 DEF completeCreateCode
  <2>7. \A c \in DOMAIN codes' : codes'[c].value = issued'[c].sub
    BY <2>1, <2>2, <2>3 DEF Extends, ConsentInv, Types, Histories
  <2>8. \A c \in DOMAIN used' : c \in DOMAIN issued' /\ used'[c].value = issued'[c].sub
    BY <2>3, <2>6 DEF ConsentInv
  <2>9. \A s \in DOMAIN sessions' : RowAgrees(s, sessions[s])'
    BY <2>3, <2>6 DEF ConsentInv, RowAgrees
  <2>10. \A g \in DOMAIN grants' : GrantAgrees(grants[g])'
    BY <2>3, <2>6 DEF ConsentInv, GrantAgrees
  <2> QED
    BY <2>5, <2>7, <2>8, <2>9, <2>10 DEF ConsentInv
<1>10. ASSUME NEW r \in Request, NEW c \in Client, NEW code \in Code,
              NEW valid \in BOOLEAN, exchangeTake(r, c, code, valid)
       PROVE  ConsentInv'
  <2>1. CASE /\ TakesCode(code, c) /\ DeleteCode(code)
             /\ req' = [req EXCEPT ![r] =
                          [at |-> "markUsed", code |-> code, valid |-> valid,
                           sub |-> codes[code].value, client |-> c]]
    <3>1. Agrees([at |-> "markUsed", code |-> code, valid |-> valid,
                  sub |-> codes[code].value, client |-> c])
      BY <2>1 DEF TakesCode, Agrees, ConsentInv, Types, Histories
    <3>2. \A q \in Request : req'[q] = req[q] \/ Agrees(req'[q])
      BY <1>0, <2>1, <3>1
    <3>3. Shrinks(codes', codes)
      BY <2>1, CodeRemove DEF DeleteCode
    <3> QED
      BY <1>10, <3>2, <3>3, ConsentFrame DEF exchangeTake, history, Shrinks
  <2>2. CASE /\ UNCHANGED <<codes, now>>
             /\ req' = [req EXCEPT ![r] = [at |-> "checkUsed", code |-> code]]
    <3>1. \A q \in Request : req'[q] = req[q] \/ Agrees(req'[q])
      BY <1>0, <1>10, <2>2 DEF exchangeTake, Agrees
    <3> QED
      BY <1>10, <2>2, <3>1, ConsentFrame DEF exchangeTake, history, Shrinks
  <2> QED
    BY <1>10, <2>1, <2>2 DEF exchangeTake
<1>11. ASSUME NEW r \in Request, exchangeCheckUsed(r)
       PROVE  ConsentInv'
  <2>1. \A q \in Request : req'[q] = req[q] \/ Agrees(req'[q])
    BY <1>0, <1>11, IdleAgrees DEF exchangeCheckUsed, Agrees, ConsentInv
  <2> QED
    BY <1>11, <2>1, SameCaches, ConsentFrame DEF exchangeCheckUsed, history, Shrinks
<1>12. ASSUME NEW r \in Request, exchangeRevoke(r)
       PROVE  ConsentInv'
  <2>1. \A q \in Request : req'[q] = req[q] \/ Agrees(req'[q])
    BY <1>0, <1>12, IdleAgrees DEF exchangeRevoke
  <2>2. Shrinks(sessions', sessions)
    BY <1>12 DEF exchangeRevoke, DeleteSessionBySub, Without, Shrinks
  <2> QED
    BY <1>12, <2>1, <2>2, SameCaches, ConsentFrame DEF exchangeRevoke
<1>13. ASSUME NEW r \in Request, exchangeMarkUsed(r)
       PROVE  ConsentInv'
  <2>1. Agrees(req[r]) /\ req[r].at = "markUsed" /\ Redeeming(req[r])
    BY <1>0, <1>13 DEF exchangeMarkUsed, Redeeming
  <2>2. Agrees([req[r] EXCEPT !.at = "create"])
    BY <1>0, <2>1, SlotKinds DEF Agrees
  <2>3. \A q \in Request : req'[q] = req[q] \/ Agrees(req'[q])
    BY <1>0, <1>13, <2>2, IdleAgrees DEF exchangeMarkUsed
  <2>4. Extends(used', used, req[r].code, req[r].sub)
    BY <1>13, UsedPut DEF exchangeMarkUsed, MarkCodeAsUsed
  <2>5. UNCHANGED <<codes, sessions, issued, grants>>
    BY <1>13 DEF exchangeMarkUsed, history
  <2>6. \A c \in DOMAIN used' : c \in DOMAIN issued' /\ used'[c].value = issued'[c].sub
    BY <2>1, <2>4, <2>5 DEF Extends, ConsentInv, Agrees
  <2>7. \A q \in Request : Agrees(req[q])'
    BY <1>0, <2>3, <2>5 DEF Agrees
  <2> QED
    BY <2>5, <2>6, <2>7 DEF ConsentInv, RowAgrees, GrantAgrees
<1>14. ASSUME NEW r \in Request, exchangeCreate(r) \/ refreshUpdate(r)
       PROVE  ConsentInv'
  <2>1. UNCHANGED <<codes, used, issued>>
    BY <1>14 DEF exchangeCreate, refreshUpdate, caches
  <2>2. \A q \in Request : req'[q] = req[q] \/ Agrees(req'[q])
    BY <1>0, <1>14, IdleAgrees DEF exchangeCreate, refreshUpdate
  <2>3. CASE UNCHANGED <<sessions, grants, nextGrant>>
    BY <2>1, <2>2, <2>3, ConsentFrame DEF Shrinks
  <2>4. ASSUME NEW by, NEW parent,
               sessions' = With(sessions, req[r].sub, Row(req[r].code, req[r].client)),
               GiveOut(req[r].code, req[r].client, by, parent)
        PROVE  ConsentInv'
    <3>1. Agrees(req[r]) /\ req[r].at \in {"create", "update"}
      BY <1>0, <1>14 DEF exchangeCreate, refreshUpdate
    <3>2. \A s \in DOMAIN sessions' : RowAgrees(s, sessions'[s])
      BY <2>4, <3>1 DEF With, Row, RowAgrees, Agrees, ConsentInv
    <3>3. \A g \in DOMAIN grants' : GrantAgrees(grants'[g])
      BY <2>4, <3>1 DEF GiveOut, With, GrantAgrees, Agrees, ConsentInv
    <3>4. \A q \in Request : Agrees(req'[q])
      BY <1>0, <2>2
    <3> QED
      BY <2>1, <3>2, <3>3, <3>4 DEF ConsentInv, RowAgrees, GrantAgrees, Agrees
  <2> QED
    BY <1>14, <2>3, <2>4 DEF exchangeCreate, refreshUpdate
<1>15. ASSUME NEW r \in Request, NEW c \in Client, NEW g \in Grant, refreshRead(r, c, g)
       PROVE  ConsentInv'
  <2>1. \A q \in Request : req'[q] = req[q] \/ Agrees(req'[q])
    BY <1>0, <1>15 DEF refreshRead, Agrees, ConsentInv, RowAgrees
  <2> QED
    BY <1>15, <2>1, SameCaches, ConsentFrame DEF refreshRead, history, Shrinks
<1>16. ASSUME NEW r \in Request, NEW g \in Grant, userinfoRead(r, g)
       PROVE  ConsentInv'
  <2>1. \A q \in Request : req'[q] = req[q] \/ Agrees(req'[q])
    BY <1>0, <1>16 DEF userinfoRead, Agrees
  <2> QED
    BY <1>16, <2>1, SameCaches, ConsentFrame DEF userinfoRead, history, Shrinks
<1>17. ASSUME NEW r \in Request, userinfoForget(r)
       PROVE  ConsentInv'
  <2>1. \A q \in Request : req'[q] = req[q] \/ Agrees(req'[q])
    BY <1>0, <1>17, IdleAgrees DEF userinfoForget
  <2>2. Shrinks(sessions', sessions)
    BY <1>17 DEF userinfoForget, Without, Shrinks
  <2> QED
    BY <1>17, <2>1, <2>2, SameCaches, ConsentFrame DEF userinfoForget, history
<1> QED
  BY <1>1, <1>2, <1>3, <1>4, <1>5, <1>6, <1>7, <1>8, <1>9, <1>10, <1>11, <1>12, <1>13,
     <1>14, <1>15, <1>16, <1>17 DEF Next, Begin, Step

LEMMA ConsentInvariant == Spec => []ConsentInv
<1>1. Init => ConsentInv
  BY IdleAgrees DEF Init, ConsentInv, Empty
<1> QED
  BY <1>1, NextConsent, TypesInvariant, PTL DEF Spec

\* Tokens go to the client the user consented to and describe that user
\* (GetCodeEntry, GenerateAccessToken, RefreshAccessToken), although every
\* check is made on an entry or a row that was read earlier.
THEOREM TokensFollowConsent == Spec => []GrantsFollowConsent
<1>1. ConsentInv => GrantsFollowConsent
  BY DEF ConsentInv, GrantsFollowConsent, RowAgrees, GrantAgrees
<1> QED
  BY <1>1, ConsentInvariant, PTL

(***************************************************************************)
(* A code is redeemed once: it is in the cache, or in the hands of one     *)
(* request, or paid for, and never two of these.                           *)
(***************************************************************************)
Paid(c) == \E g \in DOMAIN grants : grants[g].by = "code" /\ grants[g].code = c

OnceInv ==
    /\ \A g \in DOMAIN grants : g < nextGrant
    /\ \A c \in DOMAIN codes : ~Paid(c)
    /\ \A r \in Request : Redeeming(req[r]) =>
         req[r].code \notin DOMAIN codes /\ ~Paid(req[r].code)
    /\ \A q, r \in Request :
         Redeeming(req[q]) /\ Redeeming(req[r]) /\ req[q].code = req[r].code => q = r
    /\ CodeRedeemedOnce

\* Steps that neither put a code in the cache, nor take one, nor give out.
LEMMA OnceFrame ==
  ASSUME OnceInv, Shrinks(codes', codes), UNCHANGED <<grants, nextGrant>>,
         \A r \in Request : Redeeming(req'[r]) =>
           Redeeming(req[r]) /\ req'[r].code = req[r].code
  PROVE  OnceInv'
<1>1. \A c : Paid(c)' <=> Paid(c)
  BY DEF Paid
<1> QED
  BY <1>1 DEF OnceInv, CodeRedeemedOnce, Shrinks, Redeeming

LEMMA NextOnce == Types /\ ConsentInv /\ OnceInv /\ [Next]_vars => OnceInv'
<1> SUFFICES ASSUME Types, ConsentInv, OnceInv, [Next]_vars
             PROVE  OnceInv'
  OBVIOUS
<1>0. /\ req \in [Request -> Slot]
      /\ \A r \in Request : req[r] \in Slot /\ Agrees(req[r])
      /\ ~Redeeming(Idle)
  BY DEF Types, TypeOK, ConsentInv, Redeeming, Idle
<1>1. CASE UNCHANGED vars
  BY <1>1, OnceFrame DEF vars, Shrinks
<1>2. CASE (\E c \in Client : authorize(c)) \/ cleanup \/ Tick
  BY <1>2, TickShrinks, OnceFrame DEF authorize, cleanup, caches, counters, history, Shrinks
<1>3. CASE Restart
  BY <1>0, <1>3, RestartShrinks, OnceFrame DEF history
<1>4. ASSUME NEW r \in Request,
             \/ \E u \in User, t \in Ticket : completeRead(r, u, t)
             \/ completeDeleteTicket(r)
             \/ completeDeleteOldSession(r)
             \/ exchangeCheckUsed(r)
             \/ exchangeRevoke(r)
             \/ \E c \in Client, g \in Grant : refreshRead(r, c, g)
             \/ \E g \in Grant : userinfoRead(r, g)
             \/ userinfoForget(r)
      PROVE  OnceInv'
  <2>1. /\ \A q \in Request \ {r} : req'[q] = req[q]
        /\ ~Redeeming(req'[r])
    BY <1>0, <1>4, SlotKinds DEF completeRead, completeDeleteTicket, completeDeleteOldSession,
       exchangeCheckUsed, exchangeRevoke, refreshRead, userinfoRead, userinfoForget,
       Redeeming, Completing
  <2>2. UNCHANGED <<codes, grants, nextGrant>>
    BY <1>4 DEF completeRead, completeDeleteTicket, completeDeleteOldSession,
       exchangeCheckUsed, exchangeRevoke, refreshRead, userinfoRead, userinfoForget,
       caches, counters, history
  <2> QED
    BY <2>1, <2>2, OnceFrame DEF Shrinks
<1>5. ASSUME NEW r \in Request, completeCreateCode(r)
      PROVE  OnceInv'
  <2> DEFINE n == nextCode
  <2>1. n \notin DOMAIN issued
    BY NextIsNew DEF nextCode, Types, Histories
  <2> HIDE DEF n
  <2>2. Extends(codes', codes, n, req[r].sub)
    BY <1>5, CodePut DEF completeCreateCode, n
  <2>3. UNCHANGED <<grants, nextGrant>>
    BY <1>5 DEF completeCreateCode, counters
  <2>4. \A q \in Request : Redeeming(req'[q]) => req'[q] = req[q] /\ req[q].code # n
    BY <1>0, <1>5, <2>1 DEF completeCreateCode, Agrees, Redeeming
  <2>5. ~Paid(n) /\ \A c : Paid(c)' <=> Paid(c)
    BY <2>1, <2>3 DEF Paid, ConsentInv, GrantAgrees
  <2> QED
    BY <2>2, <2>3, <2>4, <2>5 DEF OnceInv, CodeRedeemedOnce, Extends
<1>6. ASSUME NEW r \in Request, NEW c \in Client, NEW code \in Code,
             NEW valid \in BOOLEAN, exchangeTake(r, c, code, valid)
      PROVE  OnceInv'
  <2>1. UNCHANGED <<grants, nextGrant>>
    BY <1>6 DEF exchangeTake, history, counters
  <2>2. CASE /\ TakesCode(code, c) /\ DeleteCode(code)
             /\ req' = [req EXCEPT ![r] =
                          [at |-> "markUsed", code |-> code, valid |-> valid,
                           sub |-> codes[code].value, client |-> c]]
    <3>1. Shrinks(codes', codes) /\ code \in DOMAIN codes /\ code \notin DOMAIN codes'
      BY <2>2, CodeRemove DEF DeleteCode, TakesCode
    <3>2. /\ \A q \in Request \ {r} : req'[q] = req[q]
          /\ req'[r].code = code
      BY <1>0, <2>2
    <3>3. \A x : Paid(x)' <=> Paid(x)
      BY <2>1 DEF Paid
    <3> QED
      BY <2>1, <3>1, <3>2, <3>3 DEF OnceInv, CodeRedeemedOnce, Shrinks
  <2>3. CASE /\ UNCHANGED <<codes, now>>
             /\ req' = [req EXCEPT ![r] = [at |-> "checkUsed", code |-> code]]
    <3>1. /\ \A q \in Request \ {r} : req'[q] = req[q]
          /\ ~Redeeming(req'[r])
      BY <1>0, <2>3 DEF Redeeming
    <3> QED
      BY <2>1, <2>3, <3>1, OnceFrame DEF Shrinks
  <2> QED
    BY <1>6, <2>2, <2>3 DEF exchangeTake
<1>7. ASSUME NEW r \in Request, exchangeMarkUsed(r)
      PROVE  OnceInv'
  <2>1. /\ Redeeming(req[r])
        /\ req' = [req EXCEPT ![r] = [req[r] EXCEPT !.at = "create"]]
           \/ req' = [req EXCEPT ![r] = Idle]
    BY <1>7 DEF exchangeMarkUsed, Redeeming
  <2>2. \A q \in Request : Redeeming(req'[q]) =>
          Redeeming(req[q]) /\ req'[q].code = req[q].code
    BY <1>0, <2>1, SlotKinds
  <2> QED
    BY <1>7, <2>2, OnceFrame DEF exchangeMarkUsed, history, counters, Shrinks
<1>8. ASSUME NEW r \in Request, exchangeCreate(r) \/ refreshUpdate(r)
      PROVE  OnceInv'
  <2>1. UNCHANGED codes /\ req' = [req EXCEPT ![r] = Idle]
    BY <1>8 DEF exchangeCreate, refreshUpdate, caches
  <2>2. \A q \in Request : Redeeming(req'[q]) => q # r /\ req'[q] = req[q]
    BY <1>0, <2>1
  <2>3. CASE UNCHANGED <<sessions, grants, nextGrant>>
    BY <2>1, <2>2, <2>3, OnceFrame DEF Shrinks
  <2>4. ASSUME NEW by, NEW parent, by = "code" => Redeeming(req[r]),
               GiveOut(req[r].code, req[r].client, by, parent)
        PROVE  OnceInv'
    <3>1. nextGrant \in Nat /\ nextGrant \notin DOMAIN grants /\ DOMAIN grants \subseteq Nat
      BY DEF OnceInv, Types, TypeOK, Counters, Grant
    <3>2. /\ DOMAIN grants' = DOMAIN grants \cup {nextGrant}
          /\ \A g \in DOMAIN grants : grants'[g] = grants[g]
          /\ grants'[nextGrant].by = by /\ grants'[nextGrant].code = req[r].code
          /\ nextGrant' = nextGrant + 1
      BY <2>4, <3>1 DEF GiveOut, With
    <3>3. \A g \in DOMAIN grants' : g < nextGrant'
      BY <3>1, <3>2 DEF OnceInv
    <3>4. \A x : Paid(x)' => Paid(x) \/ (by = "code" /\ x = req[r].code)
      BY <3>2 DEF Paid
    <3>5. by = "code" => ~Paid(req[r].code)
      BY <2>4 DEF OnceInv
    <3>6. CodeRedeemedOnce'
      BY <3>1, <3>2, <3>5 DEF OnceInv, CodeRedeemedOnce, Paid
    <3> QED
      BY <2>1, <2>2, <2>4, <3>3, <3>4, <3>6 DEF OnceInv
  <2> QED
    BY <1>8, <2>3, <2>4 DEF exchangeCreate, refreshUpdate, Redeeming
<1> QED
  BY <1>1, <1>2, <1>3, <1>4, <1>5, <1>6, <1>7, <1>8 DEF Next, Begin, Step

LEMMA OnceInvariant == Spec => []OnceInv
<1>1. Init => OnceInv
  BY DEF Init, OnceInv, CodeRedeemedOnce, Empty, Redeeming, Idle
<1> QED
  BY <1>1, NextOnce, TypesInvariant, ConsentInvariant, PTL DEF Spec

\* "Since the code can only be used once" (GetCodeEntry): however requests
\* interleave and whenever the process restarts, a code pays for one pair of
\* tokens at most.
THEOREM CodesRedeemedOnce == Spec => []CodeRedeemedOnce
<1>1. OnceInv => CodeRedeemedOnce
  BY DEF OnceInv
<1> QED
  BY <1>1, OnceInvariant, PTL

(***************************************************************************)
(* Requests that do not overlap: a handler that runs is alone.             *)
(***************************************************************************)
AloneInv == serial => \A q, r \in Request : req[q] # Idle /\ req[r] # Idle => q = r

LEMMA ActsAlone ==
  ASSUME Types, AloneInv, NEW r \in Request, Begin(r) \/ Step(r)
  PROVE  /\ \A q \in Request \ {r} : req'[q] = req[q]
         /\ serial => \A q \in Request \ {r} : req[q] = Idle
<1>1. \E v : req' = [req EXCEPT ![r] = v]
  BY DEF Begin, Step, completeRead, completeDeleteTicket, completeDeleteOldSession,
     completeCreateCode, exchangeTake, exchangeCheckUsed, exchangeRevoke, exchangeMarkUsed,
     exchangeCreate, refreshRead, refreshUpdate, userinfoRead, userinfoForget
<1>2. Starts(r) \/ req[r] # Idle
  BY DEF Begin, Step, completeRead, completeDeleteTicket, completeDeleteOldSession,
     completeCreateCode, exchangeTake, exchangeCheckUsed, exchangeRevoke, exchangeMarkUsed,
     exchangeCreate, refreshRead, refreshUpdate, userinfoRead, userinfoForget, Idle
<1>3. serial => \A q \in Request \ {r} : req[q] = Idle
  BY <1>2 DEF Starts, AloneInv
<1> QED
  BY <1>1, <1>3 DEF Types, TypeOK

LEMMA NextAlone == Types /\ AloneInv /\ [Next]_vars => AloneInv'
<1> SUFFICES ASSUME Types, AloneInv, [Next]_vars
             PROVE  AloneInv'
  OBVIOUS
<1>1. serial' = serial
  BY DEF Next, vars
<1>2. CASE UNCHANGED req
  BY <1>1, <1>2 DEF AloneInv
<1>3. CASE \E r \in Request : Begin(r) \/ Step(r)
  BY <1>1, <1>3, ActsAlone DEF AloneInv
<1>4. CASE Restart
  BY <1>4 DEF Restart, AloneInv
<1> QED
  BY <1>2, <1>3, <1>4 DEF Next, vars, authorize, cleanup, Tick

LEMMA AloneInvariant == Spec => []AloneInv
<1>1. Init => AloneInv
  BY DEF Init, AloneInv
<1> QED
  BY <1>1, NextAlone, TypesInvariant, PTL DEF Spec

(***************************************************************************)
(* Revocations hold: a code that was reused or whose session was deleted   *)
(* is out of the cache and in nobody's hands, so no row is made from it.   *)
(***************************************************************************)
RevokedInv ==
    /\ reused \subseteq DOMAIN issued
    /\ \A c \in DOMAIN used \cup reused : c \notin DOMAIN codes
    /\ \A c \in revoked : Paid(c)
    /\ \A s \in DOMAIN sessions : Paid(sessions[s].code)
    /\ \A r \in Request :
         /\ req[r].at = "revoke" => req[r].code \notin DOMAIN codes
         /\ req[r].at = "update" => Paid(req[r].code)

SerialRevokedInv ==
    serial =>
      /\ \A r \in Request :
           /\ Redeeming(req[r]) => req[r].code \notin reused
           /\ req[r].at = "update" /\ req[r].sub \in DOMAIN sessions =>
                sessions[req[r].sub].code = req[r].code
      /\ ReuseRevokes /\ RevokedStaysRevoked

RevInv == RevokedInv /\ SerialRevokedInv

\* A slot that holds nothing a revocation depends on.
Calm(slot) == ~Redeeming(slot) /\ slot.at \notin {"revoke", "update"}

LEMMA RevFrame ==
  ASSUME RevInv, UNCHANGED <<issued, grants, reused, revoked, serial>>,
         Shrinks(codes', codes), Shrinks(used', used), Shrinks(sessions', sessions),
         \A r \in Request : req'[r] = req[r] \/ Calm(req'[r])
  PROVE  RevInv'
<1>1. \A c : Paid(c)' <=> Paid(c)
  BY DEF Paid
<1>2. RevokedInv'
  BY <1>1 DEF RevInv, RevokedInv, Shrinks, Calm
<1>3. SerialRevokedInv'
  BY DEF RevInv, SerialRevokedInv, ReuseRevokes, RevokedStaysRevoked, Shrinks, Calm, Redeeming
<1> QED
  BY <1>2, <1>3 DEF RevInv

LEMMA NextRev ==
  Types /\ ConsentInv /\ OnceInv /\ AloneInv /\ RevInv /\ [Next]_vars => RevInv'
<1> SUFFICES ASSUME Types, ConsentInv, OnceInv, AloneInv, RevInv, [Next]_vars
             PROVE  RevInv'
  OBVIOUS
<1>0. /\ req \in [Request -> Slot]
      /\ \A r \in Request : req[r] \in Slot /\ Agrees(req[r])
      /\ Calm(Idle)
      /\ serial' = serial
  BY DEF Types, TypeOK, ConsentInv, Redeeming, Idle, Calm, Next, vars
<1>1. CASE UNCHANGED vars
  BY <1>1, RevFrame DEF vars, Shrinks
<1>2. CASE (\E c \in Client : authorize(c)) \/ Tick
  BY <1>0, <1>2, TickShrinks, RevFrame DEF authorize, history, Shrinks
<1>3. CASE Restart
  BY <1>0, <1>3, RestartShrinks, RevFrame DEF history, Shrinks
<1>4. CASE cleanup
  <2>1. Shrinks(sessions', sessions)
    BY <1>4 DEF cleanup, Without, Shrinks
  <2> QED
    BY <1>0, <1>4, <2>1, SameCaches, RevFrame DEF cleanup, history
<1>5. ASSUME NEW r \in Request,
             \/ \E u \in User, t \in Ticket : completeRead(r, u, t)
             \/ completeDeleteTicket(r)
             \/ \E g \in Grant : userinfoRead(r, g)
             \/ userinfoForget(r)
      PROVE  RevInv'
  <2>1. \A q \in Request : req'[q] = req[q] \/ Calm(req'[q])
    BY <1>0, <1>5, SlotKinds DEF completeRead, completeDeleteTicket, userinfoRead,
       userinfoForget, Calm, Redeeming, Completing
  <2>2. Shrinks(sessions', sessions)
    BY <1>5 DEF completeRead, completeDeleteTicket, userinfoRead, userinfoForget,
       Without, Shrinks
  <2>3. UNCHANGED <<codes, used, issued, grants, reused, revoked>>
    BY <1>5 DEF completeRead, completeDeleteTicket, userinfoRead, userinfoForget,
       caches, history
  <2> QED
    BY <1>0, <2>1, <2>2, <2>3, RevFrame DEF Shrinks
<1>6. ASSUME NEW r \in Request, completeDeleteOldSession(r) \/ exchangeRevoke(r)
      PROVE  RevInv'
  <2>1. \A q \in Request : req'[q] = req[q] \/ Calm(req'[q])
    BY <1>0, <1>6, SlotKinds DEF completeDeleteOldSession, exchangeRevoke, Calm, Redeeming,
       Completing
  <2>2. UNCHANGED <<codes, used, issued, grants>>
    BY <1>6 DEF completeDeleteOldSession, exchangeRevoke, caches
  <2>3. CASE UNCHANGED <<sessions, revoked, reused>>
    BY <1>0, <2>1, <2>2, <2>3, RevFrame DEF Shrinks
  <2>4. ASSUME DeleteSessionBySub(req[r].sub),
               \/ UNCHANGED reused
               \/ req[r].at = "revoke" /\ reused' = reused \cup {req[r].code}
        PROVE  RevInv'
    <3>1. /\ Shrinks(sessions', sessions) /\ req[r].sub \notin DOMAIN sessions'
          /\ \A c \in revoked' : c \in revoked \/
               \E s \in DOMAIN sessions : s = req[r].sub /\ c = sessions[s].code
      BY <2>4 DEF DeleteSessionBySub, Without, Shrinks
    <3>2. \A c : Paid(c)' <=> Paid(c)
      BY <2>2 DEF Paid
    <3>3. req[r].at = "revoke" =>
            /\ req[r].code \in DOMAIN issued /\ req[r].code \notin DOMAIN codes
            /\ issued[req[r].code].sub = req[r].sub
      BY <1>0 DEF Agrees, RevInv, RevokedInv
    <3>4. RevokedInv'
      BY <2>1, <2>2, <2>4, <3>1, <3>2, <3>3 DEF RevInv, RevokedInv, Shrinks, Calm
    <3>5. ASSUME serial
          PROVE  \A q \in Request : Calm(req'[q])
      <4>1. \A q \in Request \ {r} : req'[q] = Idle
        BY <1>6, <3>5, ActsAlone DEF Step
      <4>2. Calm(req'[r])
        BY <1>0, <1>6, SlotKinds DEF completeDeleteOldSession, exchangeRevoke, Calm, Redeeming,
           Completing
      <4> QED
        BY <1>0, <4>1, <4>2
    <3>6. ASSUME serial
          PROVE  ReuseRevokes'
      BY <1>0, <2>4, <3>1, <3>3, <3>6 DEF RevInv, SerialRevokedInv, ReuseRevokes, Shrinks, ConsentInv,
         RowAgrees
    <3>7. ASSUME serial
          PROVE  RevokedStaysRevoked'
      BY <3>1, <3>7 DEF RevInv, SerialRevokedInv, RevokedStaysRevoked, Shrinks, ConsentInv,
         RowAgrees
    <3>8. SerialRevokedInv'
      BY <1>0, <3>5, <3>6, <3>7 DEF SerialRevokedInv, Calm
    <3> QED
      BY <3>4, <3>8 DEF RevInv
  <2> QED
    BY <1>6, <2>3, <2>4 DEF completeDeleteOldSession, exchangeRevoke
<1>7. ASSUME NEW r \in Request, completeCreateCode(r)
      PROVE  RevInv'
  <2> DEFINE n == nextCode
  <2>1. n \notin DOMAIN issued
    BY NextIsNew DEF nextCode, Types, Histories
  <2> HIDE DEF n
  <2>2. Extends(codes', codes, n, req[r].sub) /\ DOMAIN issued \subseteq DOMAIN issued'
    BY <1>7, CodePut DEF completeCreateCode, With, n
  <2>3. UNCHANGED <<used, sessions, grants, reused, revoked>>
    BY <1>7 DEF completeCreateCode
  <2>4. \A q \in Request : req'[q] = req[q] \/ req'[q] = Idle
    BY <1>0, <1>7 DEF completeCreateCode
  <2>5. \A c : Paid(c)' <=> Paid(c)
    BY <2>3 DEF Paid
  <2>6. \A c \in DOMAIN used \cup reused : c # n
    BY <2>1 DEF RevInv, RevokedInv, ConsentInv
  <2>7. \A q \in Request : req[q].at = "revoke" => req[q].code # n
    BY <1>0, <2>1 DEF Agrees
  <2>8. RevokedInv'
    BY <2>2, <2>3, <2>4, <2>5, <2>6, <2>7 DEF RevInv, RevokedInv, Extends, Idle
  <2>9. SerialRevokedInv'
    BY <1>0, <2>3, <2>4 DEF RevInv, SerialRevokedInv, ReuseRevokes, RevokedStaysRevoked, Idle, Redeeming
  <2> QED
    BY <2>8, <2>9 DEF RevInv
<1>8. ASSUME NEW r \in Request, NEW c \in Client, NEW code \in Code,
             NEW valid \in BOOLEAN, exchangeTake(r, c, code, valid)
      PROVE  RevInv'
  <2>1. UNCHANGED <<used, sessions, issued, grants, reused, revoked>>
    BY <1>8 DEF exchangeTake, history
  <2>2. CASE /\ TakesCode(code, c) /\ DeleteCode(code)
             /\ req' = [req EXCEPT ![r] =
                          [at |-> "markUsed", code |-> code, valid |-> valid,
                           sub |-> codes[code].value, client |-> c]]
    <3>1. Shrinks(codes', codes) /\ code \in DOMAIN codes
      BY <2>2, CodeRemove DEF DeleteCode, TakesCode
    <3>2. /\ \A q \in Request \ {r} : req'[q] = req[q]
          /\ req'[r].code = code /\ req'[r].at = "markUsed"
      BY <1>0, <2>2
    <3>3. \A x : Paid(x)' <=> Paid(x)
      BY <2>1 DEF Paid
    <3>4. code \notin reused
      BY <3>1 DEF RevInv, RevokedInv
    <3>5. RevokedInv'
      BY <2>1, <3>1, <3>2, <3>3 DEF RevInv, RevokedInv, Shrinks
    <3>6. SerialRevokedInv'
      BY <1>0, <2>1, <3>2, <3>4 DEF RevInv, SerialRevokedInv, ReuseRevokes, RevokedStaysRevoked, Redeeming
    <3> QED
      BY <3>5, <3>6 DEF RevInv
  <2>3. CASE /\ UNCHANGED <<codes, now>>
             /\ req' = [req EXCEPT ![r] = [at |-> "checkUsed", code |-> code]]
    <3>1. \A q \in Request : req'[q] = req[q] \/ Calm(req'[q])
      BY <1>0, <2>3 DEF Redeeming, Calm
    <3> QED
      BY <1>0, <2>1, <2>3, <3>1, RevFrame DEF Shrinks
  <2> QED
    BY <1>8, <2>2, <2>3 DEF exchangeTake
<1>9. ASSUME NEW r \in Request, exchangeCheckUsed(r)
      PROVE  RevInv'
  <2>1. UNCHANGED <<codes, used, sessions, issued, grants, reused, revoked>>
    BY <1>9 DEF exchangeCheckUsed, caches, history
  <2>2. \A q \in Request :
          \/ req'[q] = req[q]
          \/ req'[q] = Idle
          \/ req'[q].at = "revoke" /\ req'[q].code \in DOMAIN used
    <3>1. CASE req[r].code \in DOMAIN used
      BY <1>0, <1>9, <3>1 DEF exchangeCheckUsed
    <3>2. CASE req[r].code \notin DOMAIN used
      BY <1>0, <1>9, <3>2 DEF exchangeCheckUsed
    <3> QED
      BY <3>1, <3>2
  <2>3. \A c : Paid(c)' <=> Paid(c)
    BY <2>1 DEF Paid
  <2>4. RevokedInv'
    BY <2>1, <2>2, <2>3 DEF RevInv, RevokedInv, Idle
  <2>5. SerialRevokedInv'
    BY <1>0, <2>1, <2>2 DEF RevInv, SerialRevokedInv, ReuseRevokes, RevokedStaysRevoked, Idle, Redeeming
  <2> QED
    BY <2>4, <2>5 DEF RevInv
<1>10. ASSUME NEW r \in Request, exchangeMarkUsed(r)
       PROVE  RevInv'
  <2>1. Redeeming(req[r]) /\ Extends(used', used, req[r].code, req[r].sub)
    BY <1>10, UsedPut DEF exchangeMarkUsed, MarkCodeAsUsed, Redeeming
  <2>2. UNCHANGED <<codes, sessions, issued, grants, reused, revoked>>
    BY <1>10 DEF exchangeMarkUsed, history
  <2>3. \A q \in Request : req'[q] = req[q] \/ req'[q] = Idle
          \/ /\ req'[q].at = "create" /\ req'[q].code = req[q].code
             /\ Redeeming(req[q])
    BY <1>0, <1>10, <2>1, SlotKinds DEF exchangeMarkUsed
  <2>4. \A c : Paid(c)' <=> Paid(c)
    BY <2>2 DEF Paid
  <2>5. RevokedInv'
    BY <2>1, <2>2, <2>3, <2>4 DEF RevInv, RevokedInv, OnceInv, Extends, Idle
  <2>6. SerialRevokedInv'
    BY <1>0, <2>2, <2>3 DEF RevInv, SerialRevokedInv, ReuseRevokes, RevokedStaysRevoked, Idle, Redeeming
  <2> QED
    BY <2>5, <2>6 DEF RevInv
<1>11. ASSUME NEW r \in Request, exchangeCreate(r) \/ refreshUpdate(r)
       PROVE  RevInv'
  <2>1. /\ UNCHANGED <<codes, used, issued, reused, revoked>>
        /\ req' = [req EXCEPT ![r] = Idle]
    BY <1>11 DEF exchangeCreate, refreshUpdate, caches
  <2>2. \A q \in Request : req'[q] = req[q] \/ req'[q] = Idle
    BY <1>0, <2>1
  <2>3. CASE UNCHANGED <<sessions, grants, nextGrant>>
    BY <1>0, <2>1, <2>2, <2>3, RevFrame DEF Shrinks
  <2>4. ASSUME NEW by, NEW parent,
               \/ by = "code" /\ Redeeming(req[r])
               \/ by = "refresh" /\ req[r].at = "update" /\ req[r].sub \in DOMAIN sessions,
               sessions' = With(sessions, req[r].sub, Row(req[r].code, req[r].client)),
               GiveOut(req[r].code, req[r].client, by, parent)
        PROVE  RevInv'
    <3>1. nextGrant \notin DOMAIN grants
      BY DEF OnceInv, Types, TypeOK, Counters, Grant
    <3>2. /\ nextGrant \in DOMAIN grants'
          /\ grants'[nextGrant].by = by /\ grants'[nextGrant].code = req[r].code
          /\ DOMAIN grants \subseteq DOMAIN grants'
          /\ \A g \in DOMAIN grants : grants'[g] = grants[g]
      BY <2>4, <3>1 DEF GiveOut, With
    <3>3. \A x : Paid(x) \/ x = req[r].code => Paid(x)'
      <4>1. \A x : Paid(x) => Paid(x)'
        BY <3>2 DEF Paid
      <4>2. by = "code" => \A x : x = req[r].code => Paid(x)'
        BY <3>2 DEF Paid
      <4>3. by = "refresh" => Paid(req[r].code)
        BY <2>4 DEF RevInv, RevokedInv
      <4> QED
        BY <2>4, <4>1, <4>2, <4>3
    <3>4. \A s \in DOMAIN sessions' :
            \/ s \in DOMAIN sessions /\ sessions'[s] = sessions[s]
            \/ s = req[r].sub /\ sessions'[s].code = req[r].code
      BY <2>4 DEF With, Row
    <3>5. RevokedInv'
      BY <2>1, <2>2, <3>3, <3>4 DEF RevInv, RevokedInv, Idle
    <3>6. ASSUME serial
          PROVE  req[r].code \notin reused /\ req[r].code \notin revoked
      BY <2>4, <3>6 DEF RevInv, RevokedInv, SerialRevokedInv, ReuseRevokes, RevokedStaysRevoked,
         OnceInv
    <3>7. ASSUME serial
          PROVE  \A q \in Request : req'[q] = Idle
      BY <1>0, <1>11, <2>1, <3>7, ActsAlone DEF Step
    <3>8. SerialRevokedInv'
      BY <1>0, <2>1, <3>4, <3>6, <3>7 DEF RevInv, SerialRevokedInv, ReuseRevokes, RevokedStaysRevoked,
         Idle, Redeeming
    <3> QED
      BY <3>5, <3>8 DEF RevInv
  <2> QED
    BY <1>11, <2>3, <2>4 DEF exchangeCreate, refreshUpdate, Redeeming
<1>12. ASSUME NEW r \in Request, NEW c \in Client, NEW g \in Grant, refreshRead(r, c, g)
       PROVE  RevInv'
  <2>1. UNCHANGED <<codes, used, sessions, issued, grants, reused, revoked>>
    BY <1>12 DEF refreshRead, caches, history
  <2>2. \A q \in Request : req'[q] = req[q]
          \/ /\ req'[q].at = "update" /\ req'[q].sub \in DOMAIN sessions
             /\ req'[q].code = sessions[req'[q].sub].code
    BY <1>0, <1>12 DEF refreshRead
  <2>3. \A x : Paid(x)' <=> Paid(x)
    BY <2>1 DEF Paid
  <2>4. RevokedInv'
    BY <2>1, <2>2, <2>3 DEF RevInv, RevokedInv
  <2>5. SerialRevokedInv'
    BY <1>0, <2>1, <2>2 DEF RevInv, SerialRevokedInv, ReuseRevokes, RevokedStaysRevoked, Redeeming
  <2> QED
    BY <2>4, <2>5 DEF RevInv
<1> QED
  BY <1>1, <1>2, <1>3, <1>4, <1>5, <1>6, <1>7, <1>8, <1>9, <1>10, <1>11, <1>12
     DEF Next, Begin, Step

LEMMA RevInvariant == Spec => []RevInv
<1>1. Init => RevInv
  BY DEF Init, RevInv, RevokedInv, SerialRevokedInv, ReuseRevokes, RevokedStaysRevoked,
     Empty, Redeeming, Idle
<1> QED
  BY <1>1, NextRev, TypesInvariant, ConsentInvariant, OnceInvariant, AloneInvariant, PTL
     DEF Spec

\* What Token deletes when a code is reused, and what authorizeComplete deletes
\* before it stores a code, no later exchange or refresh brings back, as long
\* as handlers run one after the other.
THEOREM RevocationsHold == Spec => []RevocationsHoldSerially
<1>1. RevInv => RevocationsHoldSerially
  BY DEF RevInv, SerialRevokedInv, RevocationsHoldSerially
<1> QED
  BY <1>1, RevInvariant, PTL

(***************************************************************************)
(* Which steps write rows, and which handlers come to hold what.           *)
(***************************************************************************)
Writes(r) == exchangeCreate(r) \/ refreshUpdate(r)

LEMMA OthersShrink ==
  ASSUME [Next]_vars, ~\E r \in Request : Writes(r)
  PROVE  Shrinks(sessions', sessions) /\ UNCHANGED <<grants, nextGrant>>
<1>1. Shrinks(sessions', sessions)
  BY DEF Next, Begin, Step, Writes, vars, authorize, cleanup, Tick, Restart, completeRead,
     completeDeleteTicket, completeDeleteOldSession, completeCreateCode, exchangeTake,
     exchangeCheckUsed, exchangeRevoke, exchangeMarkUsed, refreshRead, userinfoRead,
     userinfoForget, DeleteSessionBySub, Without, Shrinks
<1>2. UNCHANGED <<grants, nextGrant>>
  BY DEF Next, Begin, Step, Writes, vars, authorize, cleanup, Tick, Restart, completeRead,
     completeDeleteTicket, completeDeleteOldSession, completeCreateCode, exchangeTake,
     exchangeCheckUsed, exchangeRevoke, exchangeMarkUsed, refreshRead, userinfoRead,
     userinfoForget, history, counters
<1> QED
  BY <1>1, <1>2

LEMMA WritesAlone ==
  ASSUME Types, AloneInv, OnceInv, NEW r \in Request, Writes(r)
  PROVE  /\ \A q \in Request \ {r} : req'[q] = req[q]
         /\ req'[r] = Idle
         /\ serial => \A q \in Request : req'[q] = Idle
         /\ nextGrant \in Nat /\ nextGrant \notin DOMAIN grants /\ UNCHANGED now
<1>1. req' = [req EXCEPT ![r] = Idle] /\ UNCHANGED now
  BY DEF Writes, exchangeCreate, refreshUpdate
<1>2. nextGrant \in Nat /\ nextGrant \notin DOMAIN grants
  BY DEF OnceInv, Types, TypeOK, Counters, Grant
<1>3. serial => \A q \in Request \ {r} : req[q] = Idle
  BY ActsAlone DEF Writes, Step
<1> QED
  BY <1>1, <1>2, <1>3 DEF Types, TypeOK

\* A slot that changes is the one that begins or takes a step, or the process
\* restarts.
LEMMA SlotChange ==
  ASSUME Types, AloneInv, [Next]_vars, NEW q \in Request, req'[q] # req[q]
  PROVE  Begin(q) \/ Step(q) \/ req'[q] = Idle
<1>1. CASE Restart
  BY <1>1, RestartShrinks
<1>2. ASSUME NEW r \in Request, Begin(r) \/ Step(r)
      PROVE  Begin(q) \/ Step(q)
  BY <1>2, ActsAlone
<1>3. CASE UNCHANGED req
  BY <1>3
<1> QED
  BY <1>1, <1>2, <1>3 DEF Next, vars, authorize, cleanup, Tick

LEMMA EntersUpdate ==
  ASSUME Types, AloneInv, [Next]_vars, NEW q \in Request, req'[q].at = "update",
         req'[q] # req[q]
  PROVE  \E c \in Client, g \in Grant : refreshRead(q, c, g)
<1>1. req[q] \in Slot /\ req \in [Request -> Slot]
  BY DEF Types, TypeOK
<1>2. Idle.at # "update" /\ (Begin(q) \/ Step(q))
  BY SlotChange DEF Idle
<1> QED
  BY <1>1, <1>2, SlotKinds DEF Begin, Step, completeRead, completeDeleteTicket,
     completeDeleteOldSession, completeCreateCode, exchangeTake, exchangeCheckUsed,
     exchangeRevoke, exchangeMarkUsed, exchangeCreate, refreshUpdate, userinfoRead,
     userinfoForget, Completing, Redeeming

LEMMA EntersForget ==
  ASSUME Types, AloneInv, [Next]_vars, NEW q \in Request, req'[q].at = "forget",
         req'[q] # req[q]
  PROVE  \E g \in Grant : userinfoRead(q, g)
<1>1. req[q] \in Slot /\ req \in [Request -> Slot]
  BY DEF Types, TypeOK
<1>2. Idle.at # "forget" /\ (Begin(q) \/ Step(q))
  BY SlotChange DEF Idle
<1> QED
  BY <1>1, <1>2, SlotKinds DEF Begin, Step, completeRead, completeDeleteTicket,
     completeDeleteOldSession, completeCreateCode, exchangeTake, exchangeCheckUsed,
     exchangeRevoke, exchangeMarkUsed, exchangeCreate, refreshRead, refreshUpdate,
     userinfoForget, Completing, Redeeming

LEMMA EntersCompleting ==
  ASSUME Types, AloneInv, [Next]_vars, NEW q \in Request, Completing(req'[q]),
         req'[q] # req[q]
  PROVE  \/ \E u \in User, t \in Ticket : completeRead(q, u, t)
         \/ completeDeleteTicket(q)
         \/ completeDeleteOldSession(q)
<1>1. req[q] \in Slot /\ req \in [Request -> Slot]
  BY DEF Types, TypeOK
<1>2. ~Completing(Idle) /\ (Begin(q) \/ Step(q))
  BY SlotChange DEF Idle, Completing
<1> QED
  BY <1>1, <1>2, SlotKinds DEF Begin, Step, completeCreateCode, exchangeTake,
     exchangeCheckUsed, exchangeRevoke, exchangeMarkUsed, exchangeCreate, refreshRead,
     refreshUpdate, userinfoRead, userinfoForget, Completing, Redeeming

(***************************************************************************)
(* Refresh tokens rotate: the token of a row has not been refreshed, and   *)
(* no two rows have the same.                                              *)
(***************************************************************************)
Refreshed(g) == \E h \in DOMAIN grants : grants[h].by = "refresh" /\ grants[h].parent = g

PairsInv ==
    /\ \A g \in DOMAIN grants : grants[g].parent < nextGrant
    /\ \A r \in Request : req[r].at = "update" => req[r].grant < nextGrant
    /\ \A s \in DOMAIN sessions : sessions[s].grant < nextGrant
    /\ \A s, t \in DOMAIN sessions : sessions[s].grant = sessions[t].grant => s = t

SerialPairsInv ==
    serial =>
      /\ \A s \in DOMAIN sessions : ~Refreshed(sessions[s].grant)
      /\ \A r \in Request : req[r].at = "update" /\ req[r].sub \in DOMAIN sessions =>
           sessions[req[r].sub].grant = req[r].grant
      /\ \A g, h \in DOMAIN grants :
           grants[g].by = "refresh" /\ grants[h].by = "refresh"
             /\ grants[g].parent = grants[h].parent => g = h

RotateInv == PairsInv /\ SerialPairsInv

LEMMA NextRotate ==
  Types /\ OnceInv /\ AloneInv /\ RotateInv /\ [Next]_vars => RotateInv'
<1> SUFFICES ASSUME Types, OnceInv, AloneInv, RotateInv, [Next]_vars
             PROVE  RotateInv'
  OBVIOUS
<1>0. serial' = serial
  BY DEF Next, vars
<1>1. ASSUME ~\E r \in Request : Writes(r)
      PROVE  RotateInv'
  <2>1. Shrinks(sessions', sessions) /\ UNCHANGED <<grants, nextGrant>>
    BY <1>1, OthersShrink
  <2>2. \A q \in Request : req'[q].at = "update" =>
          \/ req'[q] = req[q]
          \/ /\ req'[q].sub \in DOMAIN sessions
             /\ req'[q].grant = sessions[req'[q].sub].grant
             /\ UNCHANGED sessions
    <3> SUFFICES ASSUME NEW q \in Request, req'[q].at = "update", req'[q] # req[q]
                 PROVE  /\ req'[q].sub \in DOMAIN sessions
                        /\ req'[q].grant = sessions[req'[q].sub].grant
                        /\ UNCHANGED sessions
      OBVIOUS
    <3>1. PICK c \in Client, g \in Grant : refreshRead(q, c, g)
      BY EntersUpdate
    <3> QED
      BY <3>1 DEF refreshRead, Types, TypeOK
  <2>3. \A g : Refreshed(g)' <=> Refreshed(g)
    BY <2>1 DEF Refreshed
  <2>4. PairsInv'
    BY <2>1, <2>2 DEF RotateInv, PairsInv, Shrinks
  <2>5. SerialPairsInv'
    BY <1>0, <2>1, <2>2, <2>3 DEF RotateInv, SerialPairsInv, Shrinks
  <2> QED
    BY <2>4, <2>5 DEF RotateInv
<1>2. ASSUME NEW r \in Request, Writes(r)
      PROVE  RotateInv'
  <2>0. /\ \A q \in Request : req'[q] = req[q] \/ req'[q] = Idle
        /\ serial => \A q \in Request : req'[q] = Idle
        /\ nextGrant \in Nat /\ nextGrant \notin DOMAIN grants
    BY <1>2, WritesAlone
  <2>1. CASE UNCHANGED <<sessions, grants, nextGrant>>
    <3>1. \A g : Refreshed(g)' <=> Refreshed(g)
      BY <2>1 DEF Refreshed
    <3>2. PairsInv'
      BY <2>0, <2>1 DEF RotateInv, PairsInv, Idle
    <3>3. SerialPairsInv'
      BY <1>0, <2>0, <2>1, <3>1 DEF RotateInv, SerialPairsInv, Idle
    <3> QED
      BY <3>2, <3>3 DEF RotateInv
  <2>2. ASSUME NEW by, NEW parent,
               \/ by = "code" /\ parent = 0
               \/ /\ by = "refresh" /\ parent = req[r].grant
                  /\ req[r].at = "update" /\ req[r].sub \in DOMAIN sessions,
               sessions' = With(sessions, req[r].sub, Row(req[r].code, req[r].client)),
               GiveOut(req[r].code, req[r].client, by, parent)
        PROVE  RotateInv'
    <3>1. /\ DOMAIN grants' = DOMAIN grants \cup {nextGrant}
          /\ \A g \in DOMAIN grants : grants'[g] = grants[g]
          /\ grants'[nextGrant].by = by /\ grants'[nextGrant].parent = parent
          /\ nextGrant' = nextGrant + 1
      BY <2>0, <2>2 DEF GiveOut, With
    <3>2. /\ \A s \in DOMAIN sessions' \ {req[r].sub} :
               s \in DOMAIN sessions /\ sessions'[s] = sessions[s]
          /\ sessions'[req[r].sub].grant = nextGrant
      BY <2>2 DEF With, Row
    <3>3. /\ \A g \in DOMAIN grants : grants[g].parent \in Nat
          /\ \A s \in DOMAIN sessions : sessions[s].grant \in Nat
          /\ \A q \in Request : req[q].at = "update" => req[q].grant \in Nat
      <4>1. \A q \in Request : req[q].at = "update" => req[q].grant \in Nat
        BY SlotKinds DEF Types, TypeOK, Grant
      <4> QED
        BY <4>1 DEF Types, TypeOK, Histories, Grant
    <3>4. parent < nextGrant /\ parent \in Nat
      BY <2>0, <2>2, <3>3 DEF RotateInv, PairsInv, Types, Counters
    <3>5. PairsInv'
      <4>1. \A g \in DOMAIN grants' : grants'[g].parent < nextGrant'
        BY <2>0, <3>1, <3>3, <3>4 DEF RotateInv, PairsInv
      <4>2. \A q \in Request : req'[q].at = "update" => req'[q].grant < nextGrant'
        BY <2>0, <3>1, <3>3 DEF RotateInv, PairsInv, Idle
      <4>3. \A s \in DOMAIN sessions' : sessions'[s].grant < nextGrant'
        BY <2>0, <3>1, <3>2, <3>3 DEF RotateInv, PairsInv
      <4>4. \A s, t \in DOMAIN sessions' : sessions'[s].grant = sessions'[t].grant => s = t
        BY <2>0, <3>2, <3>3 DEF RotateInv, PairsInv
      <4> QED
        BY <4>1, <4>2, <4>3, <4>4 DEF PairsInv
    <3>6. ASSUME serial
          PROVE  SerialPairsInv'
      <4>1. by = "refresh" => /\ parent = sessions[req[r].sub].grant
                              /\ ~Refreshed(parent)
        BY <2>2, <3>6 DEF RotateInv, SerialPairsInv
      <4>2. \A g : Refreshed(g)' => Refreshed(g) \/ (by = "refresh" /\ g = parent)
        BY <3>1 DEF Refreshed
      <4>3. ~Refreshed(nextGrant)
        BY <2>0, <3>3 DEF Refreshed, RotateInv, PairsInv
      <4>4. \A s \in DOMAIN sessions' : ~Refreshed(sessions'[s].grant)
        BY <3>2, <3>6, <4>3 DEF RotateInv, SerialPairsInv
      <4>5. \A s \in DOMAIN sessions' : by = "refresh" => sessions'[s].grant # parent
        BY <2>0, <2>2, <3>2, <3>4, <4>1 DEF RotateInv, PairsInv
      <4>6. \A s \in DOMAIN sessions' : ~Refreshed(sessions[s].grant)'
        BY <4>2, <4>4, <4>5
      <4>7. \A g, h \in DOMAIN grants' :
              grants'[g].by = "refresh" /\ grants'[h].by = "refresh"
                /\ grants'[g].parent = grants'[h].parent => g = h
        BY <2>0, <3>1, <3>6, <4>1 DEF Refreshed, RotateInv, SerialPairsInv
      <4> QED
        BY <2>0, <3>6, <4>6, <4>7 DEF SerialPairsInv, Idle
    <3> QED
      BY <1>0, <3>5, <3>6 DEF RotateInv, SerialPairsInv
  <2> QED
    BY <1>2, <2>1, <2>2 DEF Writes, exchangeCreate, refreshUpdate
<1> QED
  BY <1>1, <1>2

LEMMA RotateInvariant == Spec => []RotateInv
<1>1. Init => RotateInv
  BY DEF Init, RotateInv, PairsInv, SerialPairsInv, Empty, Idle
<1> QED
  BY <1>1, NextRotate, TypesInvariant, OnceInvariant, AloneInvariant, PTL DEF Spec

(***************************************************************************)
(* A consent screen is answered once: a ticket is in the cache, or in the  *)
(* hands of one request, or a code was issued for it.                      *)
(***************************************************************************)
TicketsInv ==
    /\ \A t \in DOMAIN tickets : t < nextTicket
    /\ \A c \in DOMAIN issued :
         issued[c].ticket < nextTicket /\ issued[c].ticket \notin DOMAIN tickets
    /\ \A r \in Request : Completing(req[r]) =>
         /\ req[r].ticket < nextTicket
         /\ req[r].at # "deleteTicket" => req[r].ticket \notin DOMAIN tickets

SerialTicketsInv ==
    serial =>
      /\ \A r \in Request : Completing(req[r]) =>
           \A c \in DOMAIN issued : issued[c].ticket # req[r].ticket
      /\ \A c, d \in DOMAIN issued : issued[c].ticket = issued[d].ticket => c = d

ConsentOnceInv == TicketsInv /\ SerialTicketsInv

LEMMA NextConsentOnce ==
  Types /\ AloneInv /\ ConsentOnceInv /\ [Next]_vars => ConsentOnceInv'
<1> SUFFICES ASSUME Types, AloneInv, ConsentOnceInv, [Next]_vars
             PROVE  ConsentOnceInv'
  OBVIOUS
<1>0. /\ req \in [Request -> Slot] /\ nextTicket \in Nat
      /\ \A r \in Request : req[r] \in Slot
      /\ \A r \in Request : Completing(req[r]) => req[r].ticket \in Nat
      /\ ~Completing(Idle)
      /\ serial' = serial
  <2>1. \A r \in Request : Completing(req[r]) => req[r].ticket \in Nat
    BY SlotKinds DEF Types, TypeOK, Ticket
  <2> QED
    BY <2>1 DEF Types, TypeOK, Counters, Next, vars, Completing, Idle
<1>1. ASSUME NEW c \in Client, authorize(c)
      PROVE  ConsentOnceInv'
  <2>1. Extends(tickets', tickets, nextTicket, c) /\ nextTicket' = nextTicket + 1
        /\ UNCHANGED <<req, issued>>
    BY <1>1, TicketPut DEF authorize, history
  <2>2. \A t \in DOMAIN tickets' : t \in DOMAIN tickets \/ t = nextTicket
    BY <2>1 DEF Extends
  <2>3. \A t \in DOMAIN tickets : t \in Nat
    BY DEF Types, Histories, Ticket
  <2>4. \A x \in DOMAIN issued : issued[x].ticket \in Nat
    BY DEF Types, Histories, Ticket
  <2>5. TicketsInv'
    BY <1>0, <2>1, <2>2, <2>3, <2>4 DEF ConsentOnceInv, TicketsInv, Completing
  <2> QED
    BY <1>0, <2>1, <2>5 DEF ConsentOnceInv, SerialTicketsInv, Completing
<1>2. ASSUME NEW r \in Request, completeCreateCode(r)
      PROVE  ConsentOnceInv'
  <2> DEFINE n == nextCode
  <2>1. n \notin DOMAIN issued
    BY NextIsNew DEF nextCode, Types, Histories
  <2> HIDE DEF n
  <2>2. /\ DOMAIN issued' = DOMAIN issued \cup {n}
        /\ issued'[n].ticket = req[r].ticket
        /\ \A c \in DOMAIN issued : issued'[c] = issued[c]
        /\ UNCHANGED <<tickets, nextTicket>>
    BY <1>2, <2>1 DEF completeCreateCode, With, n, counters
  <2>3. /\ \A q \in Request \ {r} : req'[q] = req[q]
        /\ req'[r] = Idle
        /\ serial => \A q \in Request : req'[q] = Idle
        /\ Completing(req[r]) /\ req[r].at # "deleteTicket"
    BY <1>0, <1>2, ActsAlone DEF completeCreateCode, Step, Completing
  <2>4. TicketsInv'
    BY <1>0, <2>2, <2>3 DEF ConsentOnceInv, TicketsInv
  <2>5. SerialTicketsInv'
    BY <1>0, <2>2, <2>3 DEF ConsentOnceInv, SerialTicketsInv
  <2> QED
    BY <2>4, <2>5 DEF ConsentOnceInv
<1>3. ASSUME ~\E c \in Client : authorize(c), ~\E r \in Request : completeCreateCode(r)
      PROVE  ConsentOnceInv'
  <2>1. UNCHANGED <<nextTicket, issued>>
    BY <1>3 DEF Next, Begin, Step, vars, cleanup, Tick, Restart, completeRead,
       completeDeleteTicket, completeDeleteOldSession, exchangeTake, exchangeCheckUsed,
       exchangeRevoke, exchangeMarkUsed, exchangeCreate, refreshRead, refreshUpdate,
       userinfoRead, userinfoForget, history, counters
  <2>2. DOMAIN tickets' \subseteq DOMAIN tickets
    <3>1. CASE Tick \/ Restart
      BY <3>1, TickShrinks, RestartShrinks DEF Shrinks
    <3>2. CASE \E r \in Request : completeDeleteTicket(r)
      BY <3>2, TicketRemove DEF completeDeleteTicket, DeleteAuthorizeRequestTicket, Shrinks
    <3>3. CASE UNCHANGED tickets
      BY <3>3
    <3> QED
      BY <1>3, <3>1, <3>2, <3>3 DEF Next, Begin, Step, vars, cleanup, completeRead,
         completeDeleteOldSession, exchangeTake, exchangeCheckUsed, exchangeRevoke,
         exchangeMarkUsed, exchangeCreate, refreshRead, refreshUpdate, userinfoRead,
         userinfoForget, caches
  <2>3. ASSUME NEW q \in Request, Completing(req'[q]), req'[q] # req[q]
        PROVE  \/ /\ req'[q].ticket \in DOMAIN tickets /\ req'[q].at = "deleteTicket"
               \/ /\ Completing(req[q]) /\ req'[q].ticket = req[q].ticket
                  /\ req[q].at # "deleteTicket" \/ req'[q].ticket \notin DOMAIN tickets'
    <3>1. CASE \E u \in User, t \in Ticket : completeRead(q, u, t)
      BY <1>0, <3>1 DEF completeRead
    <3>2. CASE completeDeleteTicket(q)
      <4>1. Completing(req[q])
        BY <3>2 DEF completeDeleteTicket, Completing
      <4>2. req[q].ticket \notin DOMAIN tickets'
        BY <3>2, TicketRemove DEF completeDeleteTicket, DeleteAuthorizeRequestTicket
      <4>3. req'[q].ticket = req[q].ticket
        BY <1>0, <3>2, <4>1, SlotKinds DEF completeDeleteTicket
      <4> QED
        BY <4>1, <4>2, <4>3
    <3>3. CASE completeDeleteOldSession(q)
      <4>1. Completing(req[q]) /\ req[q].at # "deleteTicket"
        BY <3>3 DEF completeDeleteOldSession, Completing
      <4>2. req'[q].ticket = req[q].ticket
        BY <1>0, <2>3, <3>3, <4>1, SlotKinds DEF completeDeleteOldSession
      <4> QED
        BY <4>1, <4>2
    <3> QED
      BY <2>3, <3>1, <3>2, <3>3, EntersCompleting
  <2>4. TicketsInv'
    BY <1>0, <2>1, <2>2, <2>3 DEF ConsentOnceInv, TicketsInv
  <2>5. SerialTicketsInv'
    BY <1>0, <2>1, <2>3 DEF ConsentOnceInv, TicketsInv, SerialTicketsInv
  <2> QED
    BY <2>4, <2>5 DEF ConsentOnceInv
<1> QED
  BY <1>1, <1>2, <1>3

LEMMA ConsentOnceInvariant == Spec => []ConsentOnceInv
<1>1. Init => ConsentOnceInv
  BY DEF Init, ConsentOnceInv, TicketsInv, SerialTicketsInv, Empty, Idle, Completing
<1> QED
  BY <1>1, NextConsentOnce, TypesInvariant, AloneInvariant, PTL DEF Spec

\* As long as handlers run one after the other, a ticket of authorize gives one
\* code (authorizeComplete) and a refresh token one new pair
\* (RefreshAccessToken).
THEOREM TicketsAndTokensUsedOnce == Spec => []UsedOnceSerially
<1>1. RotateInv /\ ConsentOnceInv => UsedOnceSerially
  BY DEF RotateInv, SerialPairsInv, ConsentOnceInv, SerialTicketsInv, UsedOnceSerially
<1> QED
  BY <1>1, RotateInvariant, ConsentOnceInvariant, PTL

(***************************************************************************)
(* Userinfo forgets dead sessions only.                                    *)
(***************************************************************************)
DeadInv ==
    serial =>
      \A r \in Request : req[r].at = "forget" /\ req[r].sub \in DOMAIN sessions =>
        Dead(sessions[req[r].sub])

LEMMA TimePasses ==
  ASSUME Types, [Next]_vars
  PROVE  now \in Nat /\ (UNCHANGED now \/ now' = now + 1)
<1>1. CASE \E c \in Client : authorize(c)
  BY <1>1, TicketPut DEF authorize, Types, Counters
<1>2. ASSUME NEW r \in Request, Step(r)
      PROVE  UNCHANGED now
  BY <1>2, CodePut, UsedPut, TicketRemove DEF Step, completeDeleteTicket,
     completeDeleteOldSession, completeCreateCode, exchangeCheckUsed, exchangeRevoke,
     exchangeMarkUsed, exchangeCreate, refreshUpdate, userinfoForget, MarkCodeAsUsed,
     DeleteAuthorizeRequestTicket
<1>3. ASSUME NEW r \in Request, Begin(r)
      PROVE  UNCHANGED now
  BY <1>3, CodeRemove DEF Begin, completeRead, exchangeTake, refreshRead, userinfoRead,
     DeleteCode
<1>4. CASE cleanup \/ Tick \/ Restart \/ UNCHANGED vars
  BY <1>4, TickShrinks DEF cleanup, Restart, vars, Types, Counters
<1> QED
  BY <1>1, <1>2, <1>3, <1>4 DEF Next, Types, Counters

LEMMA NextDead == Types /\ OnceInv /\ AloneInv /\ DeadInv /\ [Next]_vars => DeadInv'
<1> SUFFICES ASSUME Types, OnceInv, AloneInv, DeadInv, [Next]_vars, serial,
                    NEW r \in Request, req'[r].at = "forget", req'[r].sub \in DOMAIN sessions'
             PROVE  Dead(sessions[req[r].sub])'
  BY DEF DeadInv, Next, vars
<1>1. now \in Nat /\ (UNCHANGED now \/ now' = now + 1)
  BY TimePasses
<1>2. ~\E q \in Request : Writes(q)
  BY WritesAlone DEF Idle
<1>3. Shrinks(sessions', sessions)
  BY <1>2, OthersShrink
<1>4. CASE req'[r] = req[r]
  BY <1>1, <1>3, <1>4 DEF DeadInv, Dead, Shrinks, Types, TypeOK
<1>5. CASE req'[r] # req[r]
  <2>1. PICK g \in Grant : userinfoRead(r, g)
    BY <1>5, EntersForget
  <2>2. PICK sub \in DOMAIN sessions :
          Dead(sessions[sub]) /\ req' = [req EXCEPT ![r] = [at |-> "forget", sub |-> sub]]
    BY <2>1 DEF userinfoRead
  <2>3. req'[r].sub = sub /\ UNCHANGED <<sessions, now>>
    BY <2>1, <2>2 DEF userinfoRead, Types, TypeOK
  <2> QED
    BY <2>2, <2>3 DEF Dead
<1> QED
  BY <1>4, <1>5

LEMMA DeadInvariant == Spec => []DeadInv
<1>1. Init => DeadInv
  BY DEF Init, DeadInv, Idle
<1> QED
  BY <1>1, NextDead, TypesInvariant, OnceInvariant, AloneInvariant, PTL DEF Spec

\* "If refresh token is expired, delete the session" (GetSessionByToken): the
\* delete of Userinfo hits no session that can still be used, as long as
\* handlers run one after the other.
THEOREM ForgetsDeadOnly == Spec => ForgetsOnlyDead
<1>1. DeadInv /\ [Next]_vars => [ForgetsOnlyDeadStep]_vars
  BY DEF DeadInv, ForgetsOnlyDeadStep
<1> QED
  BY <1>1, DeadInvariant, PTL DEF Spec, ForgetsOnlyDead

(***************************************************************************)
(* Reuse is detected: usedCode remembers a code that was redeemed for as   *)
(* long as the code would have lived.  This needs a cache that does not    *)
(* overflow and an entry that outlives the code's own (2 minutes against 1 *)
(* in the source).                                                         *)
(***************************************************************************)
CacheSuffices ==
    CodeTtl <= UsedTtl /\ (CacheSize = 0 \/ MaxCodes <= CacheSize)

\* Its tokens are given out or about to be.
Held(c) == Paid(c) \/ \E r \in Request : req[r].at = "create" /\ req[r].code = c

Remembered(c) ==
    \/ now > issued[c].time + CodeTtl
    \/ /\ c \in DOMAIN used
       /\ used[c].expiresAt \in Nat
       /\ used[c].expiresAt >= issued[c].time + CodeTtl

MarkedInv ==
    /\ \A c \in DOMAIN issued : issued[c].time <= now
    /\ \A g \in DOMAIN grants : Paid(grants[g].code)
    /\ restarts = 0 => \A c \in DOMAIN issued : Held(c) => Remembered(c)

\* A put of a code displaces no other.
LEMMA MarkAdds ==
  ASSUME Types, CacheSuffices, NEW c \in Code, NEW sub, U!Put(c, sub, UsedTtl)
  PROVE  /\ DOMAIN used' = DOMAIN used \cup {c}
         /\ used'[c].expiresAt = now + UsedTtl
         /\ \A x \in DOMAIN used \ {c} : used'[x] = used[x]
<1>1. c \in DOMAIN used \/ ~U!Full
  <2> SUFFICES ASSUME c \notin DOMAIN used, U!Full
               PROVE  FALSE
    OBVIOUS
  <2>1. IsFiniteSet(Code) /\ Cardinality(Code) = MaxCodes
    BY FS_Interval, BoundsAssumption DEF Code
  <2>2. DOMAIN used \subseteq Code /\ DOMAIN used # Code
    BY DEF Types, Histories
  <2>3. Cardinality(DOMAIN used) < Cardinality(Code)
    <3>1. /\ Cardinality(DOMAIN used) <= Cardinality(Code)
          /\ Cardinality(Code) # Cardinality(DOMAIN used)
      BY <2>1, <2>2, FS_Subset
    <3>2. Cardinality(DOMAIN used) \in Nat
      BY <2>1, <2>2, FS_Subset, FS_CardinalityType
    <3> QED
      BY <2>1, <3>1, <3>2, BoundsAssumption
  <2>4. Cardinality(DOMAIN used) \in Nat
    BY <2>1, <2>2, FS_Subset, FS_CardinalityType
  <2>5. CacheSize > 0 /\ Cardinality(DOMAIN used) >= CacheSize
    BY DEF U!Full, U!Cardinality, Cardinality
  <2> QED
    BY <2>1, <2>3, <2>4, <2>5, DurationsAssumption, BoundsAssumption DEF CacheSuffices
<1>2. U!Room(c) = {used}
  BY <1>1 DEF U!Room
<1>3. used' = U!With(used, c, [value |-> sub, expiresAt |-> now + UsedTtl])
  BY <1>2, DurationsAssumption DEF U!Put, U!Deadline
<1> QED
  BY <1>3 DEF U!With

LEMMA EntersCreate ==
  ASSUME Types, AloneInv, [Next]_vars, NEW q \in Request, req'[q].at = "create",
         req'[q] # req[q]
  PROVE  exchangeMarkUsed(q)
<1>1. req[q] \in Slot /\ req \in [Request -> Slot]
  BY DEF Types, TypeOK
<1>2. Idle.at # "create" /\ (Begin(q) \/ Step(q))
  BY SlotChange DEF Idle
<1> QED
  BY <1>1, <1>2, SlotKinds DEF Begin, Step, completeRead, completeDeleteTicket,
     completeDeleteOldSession, completeCreateCode, exchangeTake, exchangeCheckUsed,
     exchangeRevoke, exchangeCreate, refreshRead, refreshUpdate, userinfoRead,
     userinfoForget, Completing, Redeeming

LEMMA NextMarked ==
  ASSUME CacheSuffices
  PROVE  Types /\ ConsentInv /\ OnceInv /\ AloneInv /\ RevInv /\ MarkedInv /\ [Next]_vars
           => MarkedInv'
<1> SUFFICES ASSUME Types, ConsentInv, OnceInv, AloneInv, RevInv, MarkedInv, [Next]_vars
             PROVE  MarkedInv'
  OBVIOUS
<1>0. /\ req \in [Request -> Slot] /\ now \in Nat /\ CodeTtl \in Nat /\ UsedTtl \in Nat
      /\ \A r \in Request : req[r] \in Slot /\ Agrees(req[r])
      /\ \A c \in DOMAIN issued : issued[c].time \in Nat
      /\ restarts \in Nat /\ Idle.at # "create"
  BY DurationsAssumption DEF Types, TypeOK, Counters, Histories, ConsentInv, Idle
<1>1. ASSUME NEW r \in Request, exchangeMarkUsed(r)
      PROVE  MarkedInv'
  <2>1. Redeeming(req[r]) /\ req[r].code \in Code /\ req[r].code \in DOMAIN issued
    BY <1>0, <1>1, SlotKinds DEF exchangeMarkUsed, Redeeming, Agrees
  <2>2. U!Put(req[r].code, req[r].sub, UsedTtl) /\ UNCHANGED <<issued, grants, restarts>>
    BY <1>1 DEF exchangeMarkUsed, MarkCodeAsUsed, history, counters
  <2>3. /\ DOMAIN used' = DOMAIN used \cup {req[r].code}
        /\ used'[req[r].code].expiresAt = now + UsedTtl
        /\ \A x \in DOMAIN used \ {req[r].code} : used'[x] = used[x]
    BY <2>1, <2>2, MarkAdds
  <2>4. UNCHANGED now
    BY <2>2, UsedPut
  <2>5. \A c : Paid(c)' <=> Paid(c)
    BY <2>2 DEF Paid
  <2>6. \A q \in Request \ {r} : req'[q] = req[q]
    BY <1>0, <1>1 DEF exchangeMarkUsed
  <2>7. req'[r].at = "create" => req'[r].code = req[r].code
    BY <1>0, <1>1, <2>1, SlotKinds DEF exchangeMarkUsed
  <2>8. \A c : Held(c)' => Held(c) \/ c = req[r].code
    BY <2>5, <2>6, <2>7 DEF Held
  <2>9. \A c \in DOMAIN issued : Remembered(c) /\ c # req[r].code => Remembered(c)'
    BY <2>2, <2>3, <2>4 DEF Remembered
  <2>10. \A c \in DOMAIN issued : c = req[r].code => Remembered(c)'
    BY <1>0, <2>1, <2>2, <2>3, <2>4 DEF Remembered, MarkedInv, CacheSuffices
  <2> QED
    BY <2>2, <2>4, <2>5, <2>8, <2>9, <2>10 DEF MarkedInv
<1>2. CASE Tick
  <2>1. /\ now' = now + 1 /\ UNCHANGED <<req, issued, grants, restarts>>
        /\ \A c \in DOMAIN used : now' <= used[c].expiresAt =>
             c \in DOMAIN used' /\ used'[c] = used[c]
    BY <1>2, TickShrinks DEF Tick, U!Tick, history, counters
  <2>2. \A c : (Paid(c)' <=> Paid(c)) /\ (Held(c)' <=> Held(c))
    BY <2>1 DEF Paid, Held
  <2>3. \A c \in DOMAIN issued : Remembered(c) => Remembered(c)'
    BY <1>0, <2>1 DEF Remembered
  <2>4. \A c \in DOMAIN issued : issued[c].time <= now'
    BY <1>0, <2>1 DEF MarkedInv
  <2> QED
    BY <2>1, <2>2, <2>3, <2>4 DEF MarkedInv
<1>3. CASE Restart
  <2>1. restarts' # 0 /\ UNCHANGED <<now, issued, grants>>
    BY <1>0, <1>3, RestartShrinks DEF history
  <2>2. \A c : Paid(c)' <=> Paid(c)
    BY <2>1 DEF Paid
  <2> QED
    BY <2>1, <2>2 DEF MarkedInv
<1>4. ASSUME NEW r \in Request, completeCreateCode(r)
      PROVE  MarkedInv'
  <2> DEFINE n == nextCode
  <2>1. n \notin DOMAIN issued
    BY NextIsNew DEF nextCode, Types, Histories
  <2> HIDE DEF n
  <2>2. /\ DOMAIN issued' = DOMAIN issued \cup {n}
        /\ issued'[n].time = now
        /\ \A c \in DOMAIN issued : issued'[c] = issued[c]
        /\ UNCHANGED <<used, grants, now, restarts>>
    BY <1>4, <2>1, CodePut DEF completeCreateCode, With, n, counters
  <2>3. \A q \in Request : req'[q] = req[q] \/ req'[q] = Idle
    BY <1>0, <1>4 DEF completeCreateCode
  <2>4. \A c : (Paid(c)' <=> Paid(c)) /\ (Held(c)' => Held(c))
    BY <1>0, <2>2, <2>3 DEF Paid, Held
  <2>5. ~Held(n)
    BY <1>0, <2>1 DEF Held, Paid, Agrees, ConsentInv, GrantAgrees
  <2>6. \A c \in DOMAIN issued : Remembered(c) => Remembered(c)'
    BY <2>2 DEF Remembered
  <2> QED
    BY <1>0, <2>2, <2>4, <2>5, <2>6 DEF MarkedInv
<1>5. ASSUME NEW r \in Request, Writes(r)
      PROVE  MarkedInv'
  <2>1. UNCHANGED <<used, issued, now, restarts>>
    BY <1>5 DEF Writes, exchangeCreate, refreshUpdate, caches
  <2>2. \A q \in Request : req'[q] = req[q] \/ req'[q] = Idle
    BY <1>5, WritesAlone
  <2>3. \A c : Paid(c) => Paid(c)'
    <3>1. nextGrant \notin DOMAIN grants
      BY <1>5, WritesAlone
    <3>2. /\ DOMAIN grants \subseteq DOMAIN grants'
          /\ \A g \in DOMAIN grants : grants'[g] = grants[g]
      BY <1>5, <3>1 DEF Writes, exchangeCreate, refreshUpdate, GiveOut, With
    <3> QED
      BY <3>2 DEF Paid
  <2>4. /\ \A c : Paid(c)' => Held(c)
        /\ \A g \in DOMAIN grants' : \A c : c = grants'[g].code => Paid(c)'
    <3>1. CASE UNCHANGED grants
      BY <2>3, <3>1 DEF Paid, Held, MarkedInv
    <3>2. ASSUME NEW by, NEW parent, GiveOut(req[r].code, req[r].client, by, parent),
                 \/ by = "code" /\ req[r].at = "create"
                 \/ by = "refresh" /\ req[r].at = "update"
          PROVE  /\ \A c : Paid(c)' => Held(c)
                 /\ \A g \in DOMAIN grants' : \A c : c = grants'[g].code => Paid(c)'
      <4>1. nextGrant \notin DOMAIN grants
        BY <1>5, WritesAlone
      <4>2. /\ DOMAIN grants' = DOMAIN grants \cup {nextGrant}
            /\ \A g \in DOMAIN grants : grants'[g] = grants[g]
            /\ grants'[nextGrant].by = by /\ grants'[nextGrant].code = req[r].code
        BY <3>2, <4>1 DEF GiveOut, With
      <4>3. by = "refresh" => Paid(req[r].code)
        BY <3>2 DEF RevInv, RevokedInv
      <4>4. \A c : Paid(c)' => Held(c)
        BY <3>2, <4>2 DEF Paid, Held
      <4>5. \A c : c = req[r].code => Paid(c)'
        <5>1. by = "code" => \A c : c = req[r].code => Paid(c)'
          BY <4>2 DEF Paid
        <5> QED
          BY <2>3, <3>2, <4>3, <5>1
      <4> QED
        BY <2>3, <4>2, <4>4, <4>5 DEF MarkedInv
    <3> QED
      BY <1>5, <3>1, <3>2 DEF Writes, exchangeCreate, refreshUpdate
  <2>5. \A c : Held(c)' => Held(c)
    BY <1>0, <2>2, <2>4 DEF Held
  <2>6. \A c \in DOMAIN issued : Remembered(c) => Remembered(c)'
    BY <2>1 DEF Remembered
  <2> QED
    BY <2>1, <2>4, <2>5, <2>6 DEF MarkedInv
<1>6. ASSUME ~\E r \in Request : exchangeMarkUsed(r), ~Tick, ~Restart,
             ~\E r \in Request : completeCreateCode(r), ~\E r \in Request : Writes(r)
      PROVE  MarkedInv'
  <2>1. UNCHANGED <<used, issued, restarts>>
    BY <1>6 DEF Next, Begin, Step, Writes, vars, authorize, cleanup, completeRead,
       completeDeleteTicket, completeDeleteOldSession, exchangeTake, exchangeCheckUsed,
       exchangeRevoke, refreshRead, userinfoRead, userinfoForget, caches, history, counters
  <2>2. UNCHANGED grants /\ now' >= now
    BY <1>6, OthersShrink, TimePasses
  <2>3. UNCHANGED now
    BY <1>6, TicketPut, TicketRemove, CodeRemove DEF Next, Begin, Step, Writes, vars, authorize,
       cleanup, completeRead, completeDeleteTicket, completeDeleteOldSession, exchangeTake,
       exchangeCheckUsed, exchangeRevoke, refreshRead, userinfoRead, userinfoForget,
       DeleteCode, DeleteAuthorizeRequestTicket
  <2>4. \A q \in Request : req'[q].at = "create" => req'[q] = req[q]
    BY <1>6, EntersCreate
  <2>5. \A c : (Paid(c)' <=> Paid(c)) /\ (Held(c)' => Held(c))
    BY <2>2, <2>4 DEF Paid, Held
  <2>6. \A c \in DOMAIN issued : Remembered(c) => Remembered(c)'
    BY <2>1, <2>3 DEF Remembered
  <2> QED
    BY <2>1, <2>2, <2>3, <2>5, <2>6 DEF MarkedInv
<1> QED
  BY <1>1, <1>2, <1>3, <1>4, <1>5, <1>6

\* "IsCodeUsed": a second exchange of a redeemed code, within the time the code
\* was good for, is recognized as reuse and leads to the revocation, while the
\* process runs and usedCode has room for every code.
THEOREM ReuseIsDetected ==
  ASSUME CacheSuffices
  PROVE  Spec => ReuseDetected
<1>1. Init => MarkedInv
  BY DEF Init, MarkedInv, Empty
<1>2. Spec => []MarkedInv
  BY <1>1, NextMarked, TypesInvariant, ConsentInvariant, OnceInvariant, AloneInvariant,
     RevInvariant, PTL DEF Spec
<1>3. Types /\ ConsentInv /\ AloneInv /\ MarkedInv /\ [Next]_vars => [ReuseDetectedStep]_vars
  <2> SUFFICES ASSUME Types, ConsentInv, AloneInv, MarkedInv, [Next]_vars,
                      NEW r \in Request, req[r].at = "checkUsed", req'[r] # req[r],
                      restarts' = 0, NEW g \in DOMAIN grants,
                      grants[g].code = req[r].code,
                      now <= issued[req[r].code].time + CodeTtl
               PROVE  req'[r].at = "revoke"
    BY DEF ReuseDetectedStep
  <2>1. ~Restart /\ restarts \in Nat
    BY RestartShrinks DEF Types, Counters
  <2>2. Begin(r) \/ Step(r)
    <3>1. CASE \E q \in Request : Begin(q) \/ Step(q)
      BY <3>1, ActsAlone
    <3> QED
      BY <2>1, <3>1 DEF Next, vars, authorize, cleanup, Tick
  <2>3. exchangeCheckUsed(r)
    BY <2>2 DEF Begin, Step, Starts, Idle, completeRead, completeDeleteTicket,
       completeDeleteOldSession, completeCreateCode, exchangeTake, exchangeRevoke,
       exchangeMarkUsed, exchangeCreate, refreshRead, refreshUpdate, userinfoRead,
       userinfoForget
  <2>4. restarts = 0
    BY <2>3 DEF exchangeCheckUsed, counters
  <2>5. req[r].code \in DOMAIN issued /\ Held(req[r].code)
    BY DEF ConsentInv, Agrees, MarkedInv, Held
  <2>6. Remembered(req[r].code)
    BY <2>4, <2>5 DEF MarkedInv
  <2>7. now \in Nat /\ issued[req[r].code].time \in Nat /\ CodeTtl \in Nat
    BY <2>5, DurationsAssumption DEF Types, Counters, Histories
  <2>8. req[r].code \in DOMAIN used
    BY <2>6, <2>7 DEF Remembered
  <2> QED
    BY <2>3, <2>8 DEF exchangeCheckUsed, Types, TypeOK
<1> QED
  BY <1>2, <1>3, TypesInvariant, ConsentInvariant, AloneInvariant, PTL DEF Spec, ReuseDetected
=============================================================================
