----------------------- MODULE ConnectionToken_proofs -----------------------
(***************************************************************************)
(* Proofs about ConnectionToken, for any tokens, settings and overlap of   *)
(* requests: the types, the delay of a revocation, and that no secret      *)
(* leaves with a token whose review or face verification is not done; and  *)
(* which overlap it takes to spend a token twice, to bring an expired one  *)
(* back, or to lose the activation of an approved one.                     *)
(***************************************************************************)
EXTENDS ConnectionToken, TLAPS

USE TokenAssumption

\* What inserts t: a create or an exchange, at either endpoint.
Inserts(t, acl) ==
    \E e \in Endpoints : \/ \E b \in BOOLEAN : Create(t, acl, b, e)
                         \/ \E s \in Tokens : Exchange(s, t, acl, e)

\* A row that may be inserted for t: it starts active only without a review, it
\* never shares the ticket of the row it copies, and only the admin endpoint
\* makes admin tokens.
Insertable(t, acl, row, e) ==
    /\ row \in Row
    /\ row.created = now
    /\ row.active => acl = "accept"
    /\ row.from = IF acl = "review" THEN t ELSE None
    /\ row.admin => e = "admin"

LEMMA InsertedRow ==
    ASSUME TypeOK, NEW t \in Tokens, NEW acl \in AclActions, Inserts(t, acl)
    PROVE  \E row \in Row, e \in Endpoints :
              Insert(t, acl, row, e) /\ Insertable(t, acl, row, e)
  <1>1. ASSUME NEW b \in BOOLEAN, NEW e \in Endpoints, Create(t, acl, b, e)
        PROVE  \E row \in Row : Insert(t, acl, row, e) /\ Insertable(t, acl, row, e)
    <2> DEFINE row == [created |-> now, expires |-> now + OneTime,
                       active |-> ~Withheld(acl), reusable |-> b,
                       admin |-> e = "admin",
                       from |-> IF acl = "review" THEN t ELSE None]
    <2>1. row \in Row
      <3>1. (~Withheld(acl)) \in BOOLEAN /\ (e = "admin") \in BOOLEAN
        BY DEF Withheld
      <3> QED
        BY <3>1 DEF Row, TypeOK
    <2>2. row.active => acl = "accept"
      BY DEF Withheld, AclActions
    <2>3. Insert(t, acl, row, e)
      BY <1>1 DEF Create
    <2>4. Insertable(t, acl, row, e)
      BY <2>1, <2>2 DEF Insertable
    <2> QED
      BY <2>1, <2>3, <2>4
  <1>2. ASSUME NEW s \in Tokens, NEW e \in Endpoints, Exchange(s, t, acl, e)
        PROVE  \E row \in Row : Insert(t, acl, row, e) /\ Insertable(t, acl, row, e)
    <2> DEFINE from == IF acl = "review" THEN t ELSE token[s].from
               row == [token[s] EXCEPT !.created = now, !.expires = now + OneTime,
                                       !.active = ~Withheld(acl) /\ token[s].active,
                                       !.admin = FALSE, !.from = from]
    <2>1. token[s] \in Row
      BY DEF TypeOK
    <2>2. (~Withheld(acl) /\ token[s].active) \in BOOLEAN
      BY DEF Withheld
    <2>3. row \in Row
      <3>1. /\ now \in Nat /\ now + OneTime \in Nat
            /\ from \in Tokens \cup {None}
        BY <2>1 DEF Row, TypeOK
      <3> HIDE DEF from
      <3> DEFINE active == ~Withheld(acl) /\ token[s].active
      <3>2. active \in BOOLEAN
        BY <2>2
      <3> HIDE DEF active
      <3> QED
        BY <2>1, <3>1, <3>2 DEF Row
    <2>4. /\ row.created = now /\ row.from = from /\ row.admin = FALSE
          /\ row.active = (~Withheld(acl) /\ token[s].active)
      BY <2>1 DEF Row
    <2>5. row.active => acl = "accept"
      BY <2>4 DEF Withheld, AclActions
    <2>6. Insert(t, acl, row, e)
      BY <1>2 DEF Exchange
    <2>7. from = IF acl = "review" THEN t ELSE None
      BY <1>2 DEF Exchange
    <2>8. Insertable(t, acl, row, e)
      <3> HIDE DEF row
      <3> QED
        BY <2>3, <2>4, <2>5, <2>7, Zenon DEF Insertable
    <2> QED
      BY <2>3, <2>6, <2>8
  <1> QED
    BY <1>1, <1>2 DEF Inserts

\* The rows a request may write: who it belongs to does not change, and but for
\* a PATCH it is active only if the row read, or the row stored, was.
LEMMA WrittenRow ==
    ASSUME TypeOK, NEW r \in Requests, NEW keep \in BOOLEAN,
           req[r].op # "idle", req[r].t \in Tokens,
           NEW w \in Written(req[r], keep)
    PROVE  /\ w \in Row
           /\ \E row \in {req[r].seen, token[req[r].t]} :
                 /\ req[r].op # "patch" => w.active = row.active
                 /\ w.from = row.from
                 /\ w.created = row.created
                 /\ w.admin => row.admin
           /\ w.from = IF SavesRow(req[r]) THEN req[r].seen.from
                       ELSE token[req[r].t].from
           /\ ~SavesRow(req[r]) => w.active = token[req[r].t].active
           /\ req[r].op = "renewal" => w.active = req[r].seen.active
  <1> DEFINE q == req[r]
             row == token[q.t]
  <1>1. row \in Row /\ q.seen \in Row /\ q.op \in Ops
    BY DEF TypeOK
  <1>2. /\ now \in Nat /\ now + OneTime \in Nat /\ q.seen.created + ReusableTTL \in Nat
        /\ q.seen.created + OneTime \in Nat
    BY <1>1 DEF TypeOK, Row
  <1>3. CASE q.op = "expire" \/ Consumed(q, keep)
    <2>1. w = Expired(q) /\ ~SavesRow(q)
      BY <1>3, Zenon DEF Written, SavesRow, Consumed
    <2>2. q.op # "renewal"
      BY <2>1 DEF SavesRow
    <2> QED
      BY <1>1, <1>2, <1>3, <2>1, <2>2 DEF Expired, Row
  <1>4. CASE q.op = "reuse"
    <2>1. w \in Reused(q) /\ ~SavesRow(q)
      BY <1>4, Zenon DEF Written, SavesRow, Consumed
    <2>2. PICK b \in BOOLEAN :
             w = [row EXCEPT !.reusable = b,
                             !.expires = q.seen.created
                                           + (IF b THEN ReusableTTL ELSE OneTime)]
      BY <2>1, Zenon DEF Reused
    <2> QED
      BY <1>1, <1>2, <1>4, <2>1, <2>2 DEF Row
  <1>5. CASE q.op = "renewal"
    <2>1. w = Renewed(q) /\ SavesRow(q)
      BY <1>5, Zenon DEF Written, SavesRow, Consumed
    <2> QED
      BY <1>1, <1>2, <1>5, <2>1 DEF Renewed, Row
  <1>6. CASE q.op = "patch"
    <2>1. w \in Patched(q) /\ SavesRow(q)
      BY <1>6, Zenon DEF Written, SavesRow, Consumed
    <2>2. PICK body \in [active: BOOLEAN, reusable: BOOLEAN] :
             w = [q.seen EXCEPT !.active = body.active, !.reusable = body.reusable]
      BY <2>1, Zenon DEF Patched
    <2> QED
      BY <1>1, <1>6, <2>1, <2>2 DEF Row
  <1>7. CASE q.op = "secret" /\ ~Consumed(q, keep)
    <2>0. q.op # "expire" /\ q.op # "reuse" /\ q.op # "renewal" /\ q.op # "patch"
      BY <1>7
    <2>1. w \in {row}
      BY <1>7, <2>0, Zenon DEF Written
    <2> QED
      BY <1>1, <1>7, <2>1 DEF SavesRow
  <1> QED
    BY <1>1, <1>3, <1>4, <1>5, <1>6, <1>7 DEF Ops

\* Every request under way names a token, and a PATCH one that is overruled.
RequestsNamed ==
    \A r \in Requests : /\ req[r].op # "idle" => req[r].t \in Tokens
                        /\ req[r].op = "patch" => req[r].t \in overruled

\* What the end of a request does, to its token and to nothing else.
LEMMA EndFrame ==
    ASSUME TypeOK, RequestsNamed, NEW r \in Requests, NEW keep \in BOOLEAN, End(r, keep)
    PROVE  LET q == req[r]
               t == q.t
           IN  /\ q.op # "idle" /\ q.op \in Ops /\ t \in Tokens
               /\ token' \in [Tokens -> Row]
               /\ \/ token'[t] \in Written(q, keep)
                  \/ db[t] # "stored" /\ ~SavesRow(q) /\ token'[t] = token[t]
               /\ db[t] = "stored" => token'[t] \in Written(q, keep)
               /\ db'[t] = IF SavesRow(q) THEN "stored" ELSE db[t]
               /\ db[t] = "stored" => handed'[t] = Handing(q, keep)
               /\ q.op # "secret" => handed'[t] = handed[t]
               /\ \A u \in Tokens \ {t} : /\ token'[u] = token[u] /\ db'[u] = db[u]
                                          /\ handed'[u] = handed[u]
               /\ req'[r] = Idle /\ \A p \in Requests \ {r} : req'[p] = req[p]
               /\ UNCHANGED <<now, access, lastOk, ticket, face, bypassed, overruled>>
  <1> DEFINE q == req[r]
             t == q.t
  <1>1. q.op # "idle" /\ q.op \in Ops /\ t \in Tokens
    BY DEF End, RequestsNamed, TypeOK
  <1>2. PICK w \in Written(q, keep) :
           token' = [token EXCEPT ![t] = IF db[t] # "stored" /\ ~SavesRow(q) THEN @ ELSE w]
    BY DEF End
  <1>3. w \in Row
    BY <1>1, <1>2, WrittenRow
  <1>4. token' \in [Tokens -> Row]
    BY <1>1, <1>2, <1>3 DEF TypeOK
  <1>5. token'[t] = (IF db[t] # "stored" /\ ~SavesRow(q) THEN token[t] ELSE w)
        /\ \A u \in Tokens \ {t} : token'[u] = token[u]
    BY <1>1, <1>2 DEF TypeOK
  <1>6. /\ db'[t] = (IF SavesRow(q) THEN "stored" ELSE db[t])
        /\ \A u \in Tokens \ {t} : db'[u] = db[u] /\ handed'[u] = handed[u]
        /\ handed'[t] = (IF db[t] # "stored" /\ Consumed(q, keep) THEN handed[t]
                         ELSE Handing(q, keep))
        /\ req'[r] = Idle /\ \A p \in Requests \ {r} : req'[p] = req[p]
        /\ UNCHANGED <<now, access, lastOk, ticket, face, bypassed, overruled>>
    BY <1>1 DEF End, TypeOK
  <1>7. q.op # "secret" => handed'[t] = handed[t]
    BY <1>6 DEF Handing
  <1> QED
    BY <1>1, <1>2, <1>4, <1>5, <1>6, <1>7

LEMMA TypeStep ==
    ASSUME TypeOK, RequestsNamed, [Next]_vars
    PROVE  TypeOK' /\ RequestsNamed'
  <1>1. ASSUME NEW t \in Tokens, NEW acl \in AclActions, NEW row \in Row,
               NEW e \in Endpoints, Insert(t, acl, row, e)
        PROVE  TypeOK' /\ RequestsNamed'
    BY <1>1 DEF Insert, TypeOK, RequestsNamed
  <1>2. ASSUME NEW r \in Requests, NEW op \in Ops, NEW t \in Tokens, Begin(r, op, t)
        PROVE  TypeOK' /\ RequestsNamed'
    <2>1. TypeOK'
      BY <1>2 DEF Begin, TypeOK
    <2>2. op = "patch" => t \in overruled'
      BY <1>2 DEF Begin, Overrules
    <2>3. overruled \subseteq overruled'
      BY <1>2 DEF Begin
    <2> QED
      BY <1>2, <2>1, <2>2, <2>3 DEF Begin, TypeOK, RequestsNamed
  <1>3. ASSUME NEW r \in Requests, NEW keep \in BOOLEAN, End(r, keep)
        PROVE  TypeOK' /\ RequestsNamed'
    <2>1. req[r].op # "idle" /\ req[r].t \in Tokens
      BY <1>3 DEF End, RequestsNamed
    <2>2. token' \in [Tokens -> Row]
      BY <1>3, EndFrame
    <2>3. Handing(req[r], keep) \in {"no", "kept", "spent", "again"}
      BY <2>1 DEF Handing, TypeOK
    <2>4. handed' \in [Tokens -> {"no", "kept", "spent", "again"}]
      BY <1>3, <2>3 DEF End, TypeOK
    <2>5. Idle \in [op: Ops \cup {"idle"}, t: Tokens \cup {None}, seen: Row]
      BY DEF Idle, NoRow, Row
    <2>6. /\ db' \in [Tokens -> {"unused", "stored", "deleted"}]
          /\ req' \in [Requests -> [op: Ops \cup {"idle"}, t: Tokens \cup {None},
                                    seen: Row]]
      BY <1>3, <2>5 DEF End, TypeOK
    <2>7. UNCHANGED <<now, access, lastOk, ticket, face, bypassed, overruled>>
      BY <1>3 DEF End
    <2>8. RequestsNamed'
      BY <1>3 DEF End, TypeOK, RequestsNamed, Idle
    <2> QED
      BY <2>2, <2>4, <2>6, <2>7, <2>8 DEF TypeOK
  <1>4. ASSUME NEW t \in Tokens
        PROVE  Activate(t) \in [Tokens -> Row]
    <2>1. [token[t] EXCEPT !.active = TRUE] \in Row
      <3>1. token[t] \in Row
        BY DEF TypeOK
      <3> QED
        BY <3>1 DEF Row
    <2> QED
      BY <2>1 DEF Activate, TypeOK
  <1>5. ASSUME NEW t \in Tokens, Approve(t) \/ FaceDone(t)
        PROVE  TypeOK' /\ RequestsNamed'
    <2>1. token' \in [Tokens -> Row]
      BY <1>4, <1>5 DEF Approve, FaceDone
    <2> QED
      BY <1>5, <2>1 DEF Approve, FaceDone, TypeOK, RequestsNamed
  <1>6. ASSUME NEW t \in Tokens, Refuse(t)
        PROVE  TypeOK' /\ RequestsNamed'
    BY <1>6 DEF Refuse, TypeOK, RequestsNamed
  <1>7. CASE CleanExpired
    <2>1. NoRow \in Row
      BY DEF NoRow, Row
    <2> QED
      BY <1>7, <2>1 DEF CleanExpired, TypeOK, RequestsNamed
  <1>8. ASSUME NEW a \in {"ok", "revoked", "disabled"}, SetAccess(a)
        PROVE  TypeOK' /\ RequestsNamed'
    BY <1>8 DEF SetAccess, TypeOK, RequestsNamed
  <1>9. CASE Tick
    BY <1>9 DEF Tick, TypeOK, RequestsNamed
  <1>10. CASE UNCHANGED vars
    BY <1>10 DEF vars, TypeOK, RequestsNamed
  <1>11. ASSUME NEW t \in Tokens, NEW acl \in AclActions, Inserts(t, acl)
         PROVE  TypeOK' /\ RequestsNamed'
    BY <1>1, <1>11, InsertedRow
  <1> QED
    BY <1>2, <1>3, <1>5, <1>6, <1>7, <1>8, <1>9, <1>10, <1>11 DEF Next, Inserts

\* Every step keeps the types.
THEOREM TypeCorrect == Spec => [](TypeOK /\ RequestsNamed)
  <1>1. Init => TypeOK /\ RequestsNamed
    BY DEF Init, TypeOK, RequestsNamed, Idle, NoRow, Row
  <1> QED
    BY <1>1, TypeStep, PTL DEF Spec

-----------------------------------------------------------------------------
(* The delay of a revocation *)

\* A row of t, stored or read, is not older than the last moment of permission,
\* and not an admin token, unless t was made without a permission.
RowTimed(row, t) == (row.created <= lastOk /\ ~row.admin) \/ t \in bypassed

\* A secret on its way was allowed less than Fresh ticks after that moment.
Timed ==
    /\ access = "ok" => lastOk = now
    /\ \A t \in Tokens : RowTimed(token[t], t)
    /\ \A r \in Requests : req[r].op # "idle" =>
          /\ RowTimed(req[r].seen, req[r].t)
          /\ req[r].op = "secret" => now - lastOk < Fresh \/ req[r].t \in bypassed

LEMMA TimedStep ==
    ASSUME TypeOK, RequestsNamed, Timed, [Next]_vars
    PROVE  Timed'
  <1>0. now \in Nat /\ lastOk \in Nat /\ Fresh \in Nat /\ lastOk <= now
    BY DEF TypeOK
  <1>1. ASSUME NEW t \in Tokens, NEW acl \in AclActions, NEW row \in Row,
               NEW e \in Endpoints, Insert(t, acl, row, e), Insertable(t, acl, row, e)
        PROVE  Timed'
    <2>1. /\ UNCHANGED <<now, access, lastOk, req>>
          /\ token'[t] = row /\ \A u \in Tokens \ {t} : token'[u] = token[u]
          /\ bypassed \subseteq bypassed'
      BY <1>1 DEF Insert, TypeOK
    <2>2. (row.created <= lastOk /\ ~row.admin) \/ t \in bypassed'
      BY <1>0, <1>1 DEF Insert, Insertable, Timed
    <2> QED
      BY <2>1, <2>2 DEF Timed, RowTimed
  <1>2. ASSUME NEW r \in Requests, NEW op \in Ops, NEW t \in Tokens, Begin(r, op, t)
        PROVE  Timed'
    <2>1. op = "secret" => now - lastOk < Fresh \/ t \in bypassed
      <3>1. token[t].created \in Nat /\ RowTimed(token[t], t)
        BY DEF TypeOK, Row, Timed
      <3> QED
        BY <1>0, <1>2, <3>1 DEF Begin, Accepted, is_valid, Timed, RowTimed, TokenAssumption
    <2> QED
      BY <1>2, <2>1 DEF Begin, TypeOK, Timed, RowTimed
  <1>3. ASSUME NEW r \in Requests, NEW keep \in BOOLEAN, End(r, keep)
        PROVE  Timed'
    <2> DEFINE t == req[r].t
    <2>1. /\ req[r].op # "idle" /\ t \in Tokens
          /\ token'[t] \in Written(req[r], keep) \cup {token[t]}
          /\ \A u \in Tokens \ {t} : token'[u] = token[u]
          /\ req'[r] = Idle /\ \A p \in Requests \ {r} : req'[p] = req[p]
          /\ UNCHANGED <<now, access, lastOk, bypassed>>
      BY <1>3, EndFrame
    <2>2. \A w \in Written(req[r], keep) : RowTimed(w, t)
      BY <2>1, WrittenRow DEF Timed, RowTimed
    <2>3. RowTimed(token'[t], t)
      BY <2>1, <2>2 DEF Timed
    <2> QED
      BY <2>1, <2>3 DEF Timed, RowTimed, Idle
  <1>4. ASSUME NEW t \in Tokens, Approve(t) \/ FaceDone(t)
        PROVE  Timed'
    <2>1. \A u \in Tokens : /\ token'[u].created = token[u].created
                            /\ token'[u].admin = token[u].admin
      <3>1. token \in [Tokens -> Row]
        BY DEF TypeOK
      <3>2. ASSUME NEW v \in Tokens, NEW u \in Tokens
            PROVE  /\ Activate(v)[u].created = token[u].created
                   /\ Activate(v)[u].admin = token[u].admin
        BY <3>1 DEF Activate, Row
      <3>3. PICK v \in Tokens : token' = Activate(v)
        BY <1>4 DEF Approve, FaceDone
      <3> QED
        BY <3>2, <3>3
    <2> QED
      BY <1>4, <2>1 DEF Approve, FaceDone, Timed, RowTimed
  <1>5. ASSUME NEW t \in Tokens, Refuse(t)
        PROVE  Timed'
    BY <1>5 DEF Refuse, Timed, RowTimed
  <1>6. CASE CleanExpired
    BY <1>0, <1>6 DEF CleanExpired, Timed, RowTimed, NoRow
  <1>7. ASSUME NEW a \in {"ok", "revoked", "disabled"}, SetAccess(a)
        PROVE  Timed'
    <2>1. lastOk' \in {lastOk, now} /\ (access' = "ok" => lastOk' = now)
      BY <1>7 DEF SetAccess
    <2>2. \A t \in Tokens : token[t].created \in Nat
      BY DEF TypeOK, Row
    <2>3. \A r \in Requests : req[r].seen.created \in Nat
      BY DEF TypeOK, Row
    <2> QED
      BY <1>0, <1>7, <2>1, <2>2, <2>3 DEF SetAccess, Timed, RowTimed
  <1>8. CASE Tick
    <2>1. lastOk' \in Nat /\ lastOk <= lastOk'
      BY <1>0, <1>8 DEF Tick, Timed
    <2>2. \A t \in Tokens : token[t].created \in Nat
      BY DEF TypeOK, Row
    <2> QED
      BY <1>0, <1>8, <2>1, <2>2 DEF Tick, Quiet, Timed, RowTimed
  <1>9. CASE UNCHANGED vars
    BY <1>9 DEF vars, Timed, RowTimed
  <1>10. ASSUME NEW t \in Tokens, NEW acl \in AclActions, Inserts(t, acl)
         PROVE  Timed'
    BY <1>1, <1>10, InsertedRow
  <1> QED
    BY <1>2, <1>3, <1>4, <1>5, <1>6, <1>7, <1>8, <1>9, <1>10 DEF Next, Inserts

LEMMA TimedInductive == Spec => []Timed
  <1>1. Init => Timed
    BY DEF Init, Timed, RowTimed, NoRow, Idle
  <1> QED
    BY <1>1, TimedStep, TypeCorrect, PTL DEF Spec

\* A secret leaves only within Fresh ticks of a moment at which the user had
\* the permission, however tokens are exchanged, renewed and reused, or with a
\* token made at the admin endpoint (ConnectionToken.is_valid,
\* get_secret_detail).
THEOREM RevocationBound == Spec => RevocationDelayed
  <1> DEFINE Kept == \A t \in Tokens \ bypassed :
                        handed'[t] # handed[t] => now - lastOk < Fresh
  <1>1. TypeOK /\ RequestsNamed /\ Timed /\ [Next]_vars => Kept
    <2> SUFFICES ASSUME TypeOK, RequestsNamed, Timed, [Next]_vars,
                        NEW t \in Tokens \ bypassed, handed'[t] # handed[t]
                 PROVE  now - lastOk < Fresh
      OBVIOUS
    <2>0. ASSUME NEW u \in Tokens, NEW acl \in AclActions, Inserts(u, acl)
          PROVE  handed' = handed
      BY <2>0, InsertedRow DEF Insert
    <2>1. PICK r \in Requests, keep \in BOOLEAN : End(r, keep)
      BY <2>0 DEF Next, Inserts, Begin, Approve, Refuse, FaceDone,
                  CleanExpired, SetAccess, Tick, vars
    <2>2. req[r].op = "secret" /\ t = req[r].t
      BY <2>1, EndFrame
    <2> QED
      BY <2>2 DEF Timed
  <1>2. Kept => [Kept]_vars
    OBVIOUS
  <1> QED
    BY <1>1, <1>2, TypeCorrect, TimedInductive, PTL DEF Spec, RevocationDelayed

\* The exceptions are a superuser's: a user without the admin endpoint neither
\* has a token made without a permission nor overrules anything
\* (AdminConnectionTokenViewSet.check_permissions).
THEOREM NoSuperuser ==
    ASSUME AdminIds = {} PROVE Spec => [](bypassed = {} /\ overruled = {})
  <1>1. Init => bypassed = {} /\ overruled = {}
    BY DEF Init
  <1>2. TypeOK /\ Timed /\ (bypassed = {} /\ overruled = {}) /\ [Next]_vars
        => (bypassed = {} /\ overruled = {})'
    <2> SUFFICES ASSUME TypeOK, Timed, bypassed = {}, overruled = {}, [Next]_vars
                 PROVE  bypassed' = {} /\ overruled' = {}
      OBVIOUS
    <2>1. ASSUME NEW r \in Requests, NEW op \in Ops, NEW t \in Tokens, Begin(r, op, t)
          PROVE  bypassed' = {} /\ overruled' = {}
      <3>1. ~token[t].admin
        BY DEF Timed, RowTimed
      <3>2. ~Overrules(op, token[t])
        BY <2>1, <3>1 DEF Begin, Accepted, Overrules
      <3> QED
        BY <2>1, <3>2 DEF Begin
    <2>2. ASSUME NEW t \in Tokens, NEW acl \in AclActions, Inserts(t, acl)
          PROVE  bypassed' = {} /\ overruled' = {}
      BY <2>2, InsertedRow DEF Insert
    <2>3. ASSUME NEW r \in Requests, NEW keep \in BOOLEAN, End(r, keep)
          PROVE  bypassed' = {} /\ overruled' = {}
      BY <2>3 DEF End
    <2> QED
      BY <2>1, <2>2, <2>3 DEF Next, Inserts, Approve, FaceDone, Refuse,
                              CleanExpired, SetAccess, Tick, vars
  <1> QED
    BY <1>1, <1>2, TypeCorrect, TimedInductive, PTL DEF Spec

-----------------------------------------------------------------------------
(* Tokens that wait for a decision *)

\* The review of t approved, if row asks for one, and so did the face.
Decided(row, t) ==
    /\ row.from # None => ticket[t] = "approved"
    /\ face[t] # "wait"

\* A row of t has the ticket created with t, or none, and an active row waits
\* for nothing, unless a superuser overruled that.
Own(row, t) ==
    /\ row.from # None => row.from = t /\ face[t] = "none"
    /\ row.active => Decided(row, t) \/ t \in overruled

RowsOwn ==
    \A t \in Tokens :
       /\ Own(token[t], t)
       /\ handed[t] # "no" => Decided(token[t], t) \/ t \in overruled
       /\ db[t] = "unused" => handed[t] = "no"
       /\ db[t] # "stored" => token[t].from = None /\ ~token[t].active

RequestsOwn ==
    \A r \in Requests : req[r].op # "idle" =>
       /\ Own(req[r].seen, req[r].t)
       /\ handed[req[r].t] # "no" => \/ Decided(req[r].seen, req[r].t)
                                 \/ req[r].t \in overruled
       /\ db[req[r].t] # "unused"
       /\ db[req[r].t] = "stored" => req[r].seen.from = token[req[r].t].from
       /\ req[r].op = "secret" => req[r].seen.active
       /\ \A q \in Requests : req[q].op # "idle" /\ req[q].t = req[r].t
                              => req[q].seen.from = req[r].seen.from

GateInv == RowsOwn /\ RequestsOwn

\* A request that saves chosen fields of a deleted row leaves it as it was.
LEMMA GoneStays ==
    ASSUME TypeOK, RequestsNamed, NEW r \in Requests, NEW keep \in BOOLEAN,
           End(r, keep), db[req[r].t] # "stored", ~SavesRow(req[r])
    PROVE  token' = token
  <1>1. req[r].t \in Tokens
    BY DEF End, RequestsNamed
  <1> QED
    BY <1>1 DEF End, TypeOK

LEMMA GateStep ==
    ASSUME TypeOK, RequestsNamed, GateInv, [Next]_vars
    PROVE  GateInv'
  <1> USE DEF GateInv
  <1>1. ASSUME NEW t \in Tokens, NEW acl \in AclActions, NEW row \in Row,
               NEW e \in Endpoints, Insert(t, acl, row, e), Insertable(t, acl, row, e)
        PROVE  GateInv'
    <2>1. /\ db[t] = "unused" /\ handed[t] = "no"
          /\ db'[t] = "stored" /\ token'[t] = row
          /\ ticket'[t] = (IF acl = "review" THEN "pending" ELSE "none")
          /\ face'[t] = (IF acl = "face_verify" THEN "wait" ELSE "none")
          /\ UNCHANGED <<handed, req, overruled>>
      BY <1>1 DEF Insert, TypeOK, RowsOwn
    <2>2. \A u \in Tokens : u # t => /\ db'[u] = db[u] /\ token'[u] = token[u]
                                     /\ ticket'[u] = ticket[u] /\ face'[u] = face[u]
      BY <1>1 DEF Insert, TypeOK
    <2>3. RowsOwn'
      BY <1>1, <2>1, <2>2 DEF RowsOwn, Own, Decided, AclActions, Insertable
    <2>4. \A r \in Requests : req[r].op # "idle" => req[r].t \in Tokens /\ req[r].t # t
      BY <2>1 DEF RequestsOwn, RequestsNamed
    <2>5. RequestsOwn'
      BY <2>1, <2>2, <2>4 DEF RequestsOwn, Own, Decided
    <2> QED
      BY <2>3, <2>5
  <1>2. ASSUME NEW r \in Requests, NEW op \in Ops, NEW t \in Tokens, Begin(r, op, t)
        PROVE  GateInv'
    <2>1. /\ db[t] = "stored" /\ Accepted(op, token[t])
          /\ req' = [req EXCEPT ![r] = [op |-> op, t |-> t, seen |-> token[t]]]
          /\ UNCHANGED <<db, token, ticket, face, handed>>
          /\ overruled \subseteq overruled'
      BY <1>2 DEF Begin
    <2>2. op = "secret" => token[t].active
      BY <2>1 DEF Accepted, is_valid
    <2>3. RowsOwn'
      BY <2>1 DEF RowsOwn, Own, Decided
    <2>4. req'[r] = [op |-> op, t |-> t, seen |-> token[t]]
          /\ \A q \in Requests : q # r => req'[q] = req[q]
      BY <2>1 DEF TypeOK
    <2>5. RequestsOwn'
      BY <2>1, <2>2, <2>4 DEF RequestsOwn, RowsOwn, Own, Decided
    <2> QED
      BY <2>3, <2>5
  <1>3. ASSUME NEW r \in Requests, NEW keep \in BOOLEAN, End(r, keep)
        PROVE  GateInv'
    <2> DEFINE q == req[r]
               t == q.t
    <2>1. /\ q.op # "idle" /\ t \in Tokens
          /\ UNCHANGED <<ticket, face, overruled>>
          /\ \A u \in Tokens \ {t} : /\ db'[u] = db[u] /\ token'[u] = token[u]
                                     /\ handed'[u] = handed[u]
          /\ \A p \in Requests \ {r} : req'[p] = req[p]
          /\ req'[r].op = "idle"
      BY <1>3, EndFrame DEF Idle
    <2>2. /\ Own(q.seen, t) /\ Own(token[t], t)
          /\ db[t] # "unused"
          /\ db[t] = "stored" => q.seen.from = token[t].from
          /\ q.op = "secret" => q.seen.active
          /\ handed[t] # "no" => \/ Decided(q.seen, t) /\ Decided(token[t], t)
                                 \/ t \in overruled
          /\ db[t] # "stored" => token[t].from = None /\ ~token[t].active
          /\ q.op = "patch" => t \in overruled
      BY <2>1 DEF RequestsOwn, RowsOwn, RequestsNamed
    <2>3. /\ db[t] = "stored" \/ SavesRow(q) => db'[t] = "stored"
          /\ db'[t] \in {db[t], "stored"}
          /\ \/ token'[t] \in Written(q, keep)
             \/ db[t] # "stored" /\ ~SavesRow(q) /\ token'[t] = token[t]
          /\ db[t] # "stored" /\ ~SavesRow(q) => db'[t] = db[t]
          /\ q.op # "secret" => handed'[t] = handed[t]
      BY <1>3, EndFrame
    <2>4. handed'[t] # "no" => Decided(q.seen, t) \/ t \in overruled
      BY <2>2, <2>3 DEF Own
    <2>5. \A w \in Written(q, keep) :
             /\ Own(w, t)
             /\ w.from = IF SavesRow(q) THEN q.seen.from ELSE token[t].from
      BY <2>1, <2>2, WrittenRow DEF Own, Decided
    <2>6. Own(token'[t], t)
      BY <2>2, <2>3, <2>5
    <2>7. /\ db'[t] = "stored" => token'[t].from = q.seen.from
          /\ db'[t] # "stored" => token'[t].from = None /\ ~token'[t].active
      <3>1. CASE db[t] = "stored" \/ SavesRow(q)
        <4>1. token'[t] \in Written(q, keep) /\ db'[t] = "stored"
          BY <2>3, <3>1
        <4> QED
          BY <2>2, <2>5, <3>1, <4>1
      <3>2. CASE ~(db[t] = "stored" \/ SavesRow(q))
        <4>1. token'[t] = token[t] /\ db'[t] = db[t]
          BY <1>3, <2>3, <3>2, GoneStays
        <4> QED
          BY <2>2, <3>2, <4>1
      <3> QED
        BY <3>1, <3>2
    <2>8. RowsOwn'
      <3> SUFFICES ASSUME NEW u \in Tokens
                   PROVE  /\ Own(token[u], u)'
                          /\ handed'[u] # "no" => Decided(token[u], u)' \/ u \in overruled'
                          /\ db'[u] = "unused" => handed'[u] = "no"
                          /\ db'[u] # "stored" => token'[u].from = None /\ ~token'[u].active
        BY DEF RowsOwn
      <3>1. CASE u # t
        BY <2>1, <3>1 DEF RowsOwn, Own, Decided
      <3>2. CASE u = t
        <4>1. Own(token[u], u)'
          BY <2>1, <2>6, <3>2 DEF Own, Decided
        <4>2. handed'[u] # "no" => Decided(token[u], u)' \/ u \in overruled'
          BY <2>1, <2>2, <2>3, <2>4, <2>7, <3>2, <4>1 DEF Own, Decided
        <4> QED
          BY <2>2, <2>3, <2>7, <3>2, <4>1, <4>2
      <3> QED
        BY <3>1, <3>2
    <2>9. RequestsOwn'
      <3> SUFFICES ASSUME NEW p \in Requests, req'[p].op # "idle"
                   PROVE  /\ Own(req[p].seen, req[p].t)'
                          /\ handed'[req'[p].t] # "no" =>
                                Decided(req[p].seen, req[p].t)' \/ req'[p].t \in overruled'
                          /\ db'[req'[p].t] # "unused"
                          /\ db'[req'[p].t] = "stored"
                                => req'[p].seen.from = token'[req'[p].t].from
                          /\ req'[p].op = "secret" => req'[p].seen.active
                          /\ \A s \in Requests : req'[s].op # "idle" /\ req'[s].t = req'[p].t
                                => req'[s].seen.from = req'[p].seen.from
        BY DEF RequestsOwn
      <3>1. p # r /\ req'[p] = req[p] /\ req[p].t \in Tokens
        BY <2>1 DEF RequestsNamed
      <3>2. req[p].t = t => req[p].seen.from = q.seen.from
        BY <2>1, <3>1 DEF RequestsOwn
      <3>3. CASE req[p].t # t
        BY <2>1, <3>1, <3>3 DEF RequestsOwn, Own, Decided
      <3>4. CASE req[p].t = t
        BY <2>1, <2>2, <2>3, <2>4, <2>7, <3>1, <3>2, <3>4 DEF RequestsOwn, Own, Decided
      <3> QED
        BY <3>3, <3>4
    <2> QED
      BY <2>8, <2>9
  <1>4. ASSUME NEW t \in Tokens, Approve(t)
        PROVE  GateInv'
    <2>1. PICK u \in Tokens : db[u] = "stored" /\ token[u].from = t /\ token' = Activate(u)
      BY <1>4 DEF Approve
    <2>2. u = t /\ face[t] = "none"
      BY <2>1 DEF RowsOwn, Own, TokenAssumption
    <2>3. /\ ticket'[t] = "approved" /\ UNCHANGED <<db, face, handed, req, overruled>>
          /\ \A x \in Tokens : x # t => ticket'[x] = ticket[x] /\ token'[x] = token[x]
          /\ token'[t].from = token[t].from
      BY <1>4, <2>1, <2>2 DEF Approve, Activate, TypeOK, Row
    <2>4. RowsOwn'
      BY <2>1, <2>2, <2>3 DEF RowsOwn, Own, Decided
    <2>5. RequestsOwn'
      BY <2>2, <2>3 DEF RequestsOwn, RequestsNamed, Own, Decided
    <2> QED
      BY <2>4, <2>5
  <1>5. ASSUME NEW t \in Tokens, FaceDone(t)
        PROVE  GateInv'
    <2>1. /\ db[t] = "stored" /\ face[t] = "wait" /\ token[t].from = None
          /\ face'[t] = "none" /\ UNCHANGED <<db, ticket, handed, req, overruled>>
          /\ \A x \in Tokens : x # t => face'[x] = face[x] /\ token'[x] = token[x]
          /\ token'[t].from = token[t].from
      BY <1>5 DEF FaceDone, Activate, TypeOK, Row, RowsOwn, Own
    <2>2. RowsOwn'
      BY <2>1 DEF RowsOwn, Own, Decided
    <2>3. RequestsOwn'
      BY <2>1 DEF RequestsOwn, RequestsNamed, Own, Decided
    <2> QED
      BY <2>2, <2>3
  <1>6. ASSUME NEW t \in Tokens, Refuse(t)
        PROVE  GateInv'
    <2>1. /\ ticket[t] = "pending" /\ UNCHANGED <<db, token, face, handed, req, overruled>>
          /\ \A x \in Tokens : ticket[x] = "approved" => ticket'[x] = "approved"
      BY <1>6 DEF Refuse, TypeOK
    <2>2. RowsOwn'
      BY <2>1 DEF RowsOwn, Own, Decided
    <2>3. RequestsOwn'
      BY <2>1 DEF RequestsOwn, RequestsNamed, Own, Decided
    <2> QED
      BY <2>2, <2>3
  <1>7. CASE CleanExpired
    <2>1. /\ UNCHANGED <<ticket, face, handed, req, overruled>>
          /\ \A x \in Tokens : \/ db'[x] = db[x] /\ token'[x] = token[x]
                               \/ /\ db[x] = "stored" /\ db'[x] = "deleted"
                                  /\ token'[x] = NoRow
      BY <1>7 DEF CleanExpired
    <2>2. RowsOwn'
      BY <2>1 DEF RowsOwn, Own, Decided, NoRow
    <2>3. RequestsOwn'
      BY <2>1 DEF RequestsOwn, RequestsNamed, Own, Decided
    <2> QED
      BY <2>2, <2>3
  <1>8. ASSUME UNCHANGED <<db, token, ticket, face, handed, req, overruled>>
        PROVE  GateInv'
    BY <1>8 DEF RowsOwn, RequestsOwn, Own, Decided
  <1>9. ASSUME NEW t \in Tokens, NEW acl \in AclActions, Inserts(t, acl)
        PROVE  GateInv'
    BY <1>1, <1>9, InsertedRow
  <1>10. ASSUME \/ \E a \in {"ok", "revoked", "disabled"} : SetAccess(a)
                \/ Tick \/ UNCHANGED vars
         PROVE  GateInv'
    BY <1>8, <1>10 DEF SetAccess, Tick, vars
  <1> QED
    BY <1>2, <1>3, <1>4, <1>5, <1>6, <1>7, <1>9, <1>10 DEF Next, Inserts

LEMMA GateInductive == Spec => []GateInv
  <1>1. Init => GateInv
    BY DEF Init, GateInv, RowsOwn, RequestsOwn, Own, Decided, NoRow, Idle
  <1> QED
    BY <1>1, GateStep, TypeCorrect, PTL DEF Spec

\* No secret leaves with a token that waits for its review or its face
\* verification, or whose review refused, however requests overlap
\* (from_ticket, is_active, FaceCallbackApi).
THEOREM DecidedFirst == Spec => []WithheldUntilDecided
  <1>1. GateInv => WithheldUntilDecided
    BY DEF GateInv, RowsOwn, Own, Decided, WithheldUntilDecided
  <1> QED
    BY <1>1, GateInductive, PTL

-----------------------------------------------------------------------------
(* Requests on one token that do not overlap *)

\* No two requests on one token are under way at once.  Nothing is said of
\* requests on different tokens, of reviews, of faces or of the cleaner.
OneEach ==
    \A r, q \in Requests :
       req[r].op # "idle" /\ req[q].op # "idle" /\ req[r].t = req[q].t => r = q

\* The token a request is working on is stored and has not expired, unless the
\* request only expires it: the clock waits for the request, and the cleaner
\* deletes expired tokens.
LiveReads ==
    \A r \in Requests :
       req[r].op \notin {"idle", "expire"} /\ req[r].t \notin overruled =>
          db[req[r].t] = "stored" /\ ~is_expired(token[req[r].t])

\* A token that was spent is expired, for as long as its row is kept.
SpentExpired ==
    \A t \in Tokens \ overruled :
       handed[t] = "spent" /\ db[t] = "stored" => is_expired(token[t])

SpentInv == LiveReads /\ SpentExpired /\ SpentOnce

\* What the end of a request does to a token nobody overruled.
LEMMA EndOfOne ==
    ASSUME TypeOK, RequestsNamed, LiveReads, NEW r \in Requests,
           NEW keep \in BOOLEAN, End(r, keep), req[r].t \notin overruled
    PROVE  LET q == req[r]
               t == q.t
           IN  /\ q.op \in {"secret", "reuse", "expire", "renewal"}
               /\ db'[t] = db[t]
               /\ q.op # "expire" => db[t] = "stored" /\ ~is_expired(token[t])
               /\ (q.op = "expire" \/ Consumed(q, keep)) /\ db[t] = "stored"
                     => token'[t].expires <= now'
               /\ handed'[t] = IF q.op = "expire" THEN handed[t] ELSE Handing(q, keep)
  <1> DEFINE q == req[r]
             t == q.t
  <1>1. /\ q.op # "idle" /\ q.op \in Ops /\ t \in Tokens /\ now' = now
        /\ db[t] = "stored" => token'[t] \in Written(q, keep)
        /\ db'[t] = IF SavesRow(q) THEN "stored" ELSE db[t]
        /\ db[t] = "stored" => handed'[t] = Handing(q, keep)
        /\ q.op # "secret" => handed'[t] = handed[t]
    BY EndFrame
  <1>2. q.op # "expire" => db[t] = "stored" /\ ~is_expired(token[t])
    BY <1>1 DEF LiveReads
  <1>3. q.op # "patch"
    BY DEF RequestsNamed
  <1>4. ASSUME q.op = "expire" \/ Consumed(q, keep), db[t] = "stored"
        PROVE  token'[t].expires <= now'
    <2>1. token'[t] = Expired(q)
      <3>1. ASSUME NEW w \in Written(q, keep)
            PROVE  w = Expired(q)
        BY <1>4, <3>1, Zenon DEF Written, Consumed
      <3> QED
        BY <1>1, <1>4, <3>1
    <2>2. token[t] \in Row /\ now \in Nat
      BY <1>1 DEF TypeOK
    <2> QED
      BY <1>1, <2>1, <2>2 DEF Expired, Row
  <1>5. db'[t] = db[t]
    BY <1>1, <1>2, <1>3 DEF SavesRow
  <1> QED
    BY <1>1, <1>2, <1>3, <1>4, <1>5 DEF Ops

\* An insert, a decision, the cleaner and the clock leave alone what a request
\* works on, or wait.
LEMMA OthersLive ==
    ASSUME TypeOK, RequestsNamed, GateInv, SpentInv,
           \/ \E t \in Tokens, acl \in AclActions : Inserts(t, acl)
           \/ \E t \in Tokens : Approve(t) \/ FaceDone(t)
           \/ CleanExpired
           \/ Tick
    PROVE  SpentInv'
  <1> USE DEF SpentInv
  <1>0. now \in Nat /\ \A t \in Tokens : token[t].expires \in Nat
    BY DEF TypeOK, Row
  <1>1. ASSUME NEW t \in Tokens, NEW acl \in AclActions, NEW row \in Row,
               NEW e \in Endpoints, Insert(t, acl, row, e)
        PROVE  SpentInv'
    <2>1. db[t] = "unused" /\ handed[t] = "no"
      BY <1>1 DEF Insert, GateInv, RowsOwn
    <2>2. /\ UNCHANGED <<now, handed, req, overruled>>
          /\ \A u \in Tokens : u # t => db'[u] = db[u] /\ token'[u] = token[u]
      BY <1>1 DEF Insert, TypeOK
    <2> QED
      BY <2>1, <2>2 DEF LiveReads, SpentExpired, SpentOnce, RequestsNamed, is_expired
  <1>2. ASSUME NEW t \in Tokens, Approve(t) \/ FaceDone(t) PROVE SpentInv'
    <2>1. \E u \in Tokens : token' = Activate(u)
      BY <1>2 DEF Approve, FaceDone
    <2>2. \A u \in Tokens : token'[u].expires = token[u].expires
      BY <2>1 DEF Activate, TypeOK, Row
    <2>3. UNCHANGED <<now, db, handed, req, overruled>>
      BY <1>2 DEF Approve, FaceDone
    <2> QED
      BY <2>2, <2>3 DEF LiveReads, SpentExpired, SpentOnce, RequestsNamed, is_expired
  <1>3. CASE CleanExpired
    <2>1. UNCHANGED <<now, handed, req, overruled>> /\ Turn
      BY <1>3 DEF CleanExpired
    <2>2. \A t \in Tokens : \/ db'[t] = db[t] /\ token'[t] = token[t]
                            \/ db'[t] = "deleted" /\ token[t].expires + Keep < now
      BY <1>3 DEF CleanExpired
    <2>3. \A t \in Tokens : token[t].expires + Keep < now => is_expired(token[t])
      BY <1>0 DEF is_expired
    <2>4. SpentExpired' /\ SpentOnce'
      BY <2>1, <2>2 DEF SpentExpired, SpentOnce, is_expired
    <2>5. LiveReads'
      BY <2>1, <2>2, <2>3 DEF LiveReads, RequestsNamed, is_expired
    <2> QED
      BY <2>4, <2>5
  <1>4. CASE Tick
    BY <1>0, <1>4 DEF Tick, Quiet, LiveReads, SpentExpired, SpentOnce, is_expired
  <1>5. ASSUME NEW t \in Tokens, NEW acl \in AclActions, Inserts(t, acl)
        PROVE  SpentInv'
    BY <1>1, <1>5, InsertedRow
  <1> QED
    BY <1>2, <1>3, <1>4, <1>5

LEMMA SpentStep ==
    ASSUME TypeOK, RequestsNamed, GateInv, OneEach, SpentInv, [Next]_vars
    PROVE  SpentInv'
  <1>2. ASSUME NEW r \in Requests, NEW op \in Ops, NEW t \in Tokens, Begin(r, op, t)
        PROVE  SpentInv'
    <2>1. /\ db[t] = "stored"
          /\ t \notin overruled' /\ op # "expire" => ~is_expired(token[t])
      BY <1>2 DEF Begin, Accepted, Overrules, is_valid, Ops
    <2>2. /\ req'[r].t = t /\ req'[r].op = op
          /\ \A q \in Requests : q # r => req'[q] = req[q]
          /\ UNCHANGED <<now, db, token, handed>> /\ overruled \subseteq overruled'
      BY <1>2 DEF Begin, TypeOK
    <2> QED
      BY <2>1, <2>2 DEF SpentInv, LiveReads, SpentExpired, SpentOnce, is_expired
  <1>3. ASSUME NEW r \in Requests, NEW keep \in BOOLEAN, End(r, keep)
        PROVE  SpentInv'
    <2> DEFINE q == req[r]
               t == q.t
    <2>1. /\ t \in Tokens /\ q.op # "idle"
          /\ \A u \in Tokens \ {t} : /\ token'[u] = token[u] /\ db'[u] = db[u]
                                     /\ handed'[u] = handed[u]
          /\ req'[r].op = "idle" /\ \A p \in Requests \ {r} : req'[p] = req[p]
          /\ UNCHANGED <<now, overruled>>
      BY <1>3, EndFrame DEF Idle
    <2>2. \A p \in Requests \ {r} : req[p].op # "idle" => req[p].t # t
      BY <2>1 DEF OneEach
    <2>3. LiveReads'
      BY <2>1, <2>2 DEF SpentInv, LiveReads, RequestsNamed, is_expired
    <2>4. ASSUME t \notin overruled
          PROVE  /\ handed'[t] # "again"
                 /\ handed'[t] = "spent" /\ db'[t] = "stored" => token'[t].expires <= now'
      <3>1. /\ q.op \in {"secret", "reuse", "expire", "renewal"}
            /\ db'[t] = db[t]
            /\ q.op # "expire" => db[t] = "stored" /\ ~is_expired(token[t])
            /\ (q.op = "expire" \/ Consumed(q, keep)) /\ db[t] = "stored"
                  => token'[t].expires <= now'
            /\ handed'[t] = IF q.op = "expire" THEN handed[t] ELSE Handing(q, keep)
        BY <1>3, <2>4, EndOfOne DEF SpentInv
      <3>2. /\ handed[t] # "again"
            /\ q.op # "expire" => handed[t] # "spent"
        BY <2>1, <2>4, <3>1 DEF SpentInv, SpentExpired, SpentOnce
      <3> QED
        BY <3>1, <3>2 DEF Handing
    <2>5. SpentExpired'
      <3> SUFFICES ASSUME NEW u \in Tokens \ overruled', handed'[u] = "spent",
                          db'[u] = "stored"
                   PROVE  is_expired(token[u])'
        BY DEF SpentExpired
      <3>1. CASE u = t
        BY <2>1, <2>4, <3>1 DEF is_expired
      <3>2. CASE u # t
        BY <2>1, <3>2 DEF SpentInv, SpentExpired, is_expired
      <3> QED
        BY <3>1, <3>2
    <2>6. SpentOnce'
      BY <2>1, <2>4 DEF SpentInv, SpentOnce
    <2> QED
      BY <2>3, <2>5, <2>6 DEF SpentInv
  <1>4. ASSUME UNCHANGED <<now, db, token, handed, req, overruled>>
        PROVE  SpentInv'
    BY <1>4 DEF SpentInv, LiveReads, SpentExpired, SpentOnce, is_expired
  <1>5. ASSUME \/ \E t \in Tokens : Refuse(t)
               \/ \E a \in {"ok", "revoked", "disabled"} : SetAccess(a)
               \/ UNCHANGED vars
        PROVE  SpentInv'
    BY <1>4, <1>5 DEF Refuse, SetAccess, vars
  <1> QED
    BY <1>2, <1>3, <1>5, OthersLive DEF Next, Inserts

LEMMA SpentInductive == Spec /\ []OneEach => []SpentInv
  <1>1. Init => SpentInv
    BY DEF Init, SpentInv, LiveReads, SpentExpired, SpentOnce, Idle
  <1> QED
    BY <1>1, SpentStep, TypeCorrect, GateInductive, PTL DEF Spec

\* A token that is not reusable gives its secret once, unless two requests on
\* that token overlap or a superuser overruled it: reviews, faces, the cleaner
\* and requests on copies of the token cannot break it (get_secret_detail,
\* expire, renewal).
THEOREM SpentUnlessOverlap == Spec /\ []OneEach => []SpentOnce
  BY SpentInductive, PTL DEF SpentInv

\* An expired token stays expired, unless two requests on it overlap or a
\* superuser overruled it: each request asked of the row that it is not
\* (renewal, reuse), or leaves it expired (expire).
THEOREM ExpiredUnlessOverlap == Spec /\ []OneEach => ExpiredIsFinal
  <1> DEFINE Kept == \A t \in Tokens \ overruled :
                        db[t] = "stored" /\ is_expired(token[t])
                        => is_expired(token[t])'
  <1>1. TypeOK /\ RequestsNamed /\ SpentInv /\ [Next]_vars => Kept
    <2> SUFFICES ASSUME TypeOK, RequestsNamed, SpentInv, [Next]_vars,
                        NEW t \in Tokens \ overruled,
                        db[t] = "stored", is_expired(token[t])
                 PROVE  is_expired(token[t])'
      OBVIOUS
    <2>0. now \in Nat /\ \A u \in Tokens : token[u].expires \in Nat
      BY DEF TypeOK, Row
    <2>1. ASSUME now' \in {now, now + 1}, token'[t].expires = token[t].expires
          PROVE  is_expired(token[t])'
      BY <2>0, <2>1 DEF is_expired
    <2>2. ASSUME NEW u \in Tokens, NEW acl \in AclActions, NEW row \in Row,
                 NEW e \in Endpoints, Insert(u, acl, row, e)
          PROVE  is_expired(token[t])'
      BY <2>1, <2>2 DEF Insert, TypeOK
    <2>3. ASSUME NEW u \in Tokens, NEW acl \in AclActions, Inserts(u, acl)
          PROVE  is_expired(token[t])'
      BY <2>2, <2>3, InsertedRow
    <2>4. ASSUME NEW r \in Requests, NEW keep \in BOOLEAN, End(r, keep)
          PROVE  is_expired(token[t])'
      <3>1. now' = now /\ (t # req[r].t => token'[t] = token[t])
        BY <2>4, EndFrame
      <3>2. CASE t = req[r].t
        BY <2>4, <3>2, EndOfOne DEF SpentInv, is_expired
      <3> QED
        BY <2>1, <3>1, <3>2
    <2>5. ASSUME NEW u \in Tokens, Approve(u) \/ FaceDone(u)
          PROVE  is_expired(token[t])'
      <3>1. ASSUME NEW v \in Tokens PROVE Activate(v)[t].expires = token[t].expires
        BY DEF Activate, TypeOK, Row
      <3> QED
        BY <2>1, <2>5, <3>1 DEF Approve, FaceDone
    <2>6. CASE CleanExpired
      <3>1. now' = now /\ token'[t] \in {token[t], NoRow}
        BY <2>6 DEF CleanExpired
      <3> QED
        BY <2>0, <2>1, <3>1 DEF NoRow, is_expired
    <2>7. ASSUME token' = token, now' \in {now, now + 1}
          PROVE  is_expired(token[t])'
      BY <2>1, <2>7
    <2> QED
      BY <2>3, <2>4, <2>5, <2>6, <2>7 DEF Next, Inserts, Begin, Refuse, SetAccess, Tick, vars
  <1>2. [Next]_vars /\ Kept => [Kept]_vars
    OBVIOUS
  <1> QED
    BY <1>1, <1>2, TypeCorrect, SpentInductive, PTL DEF Spec, ExpiredIsFinal

-----------------------------------------------------------------------------
(* Decisions and renewals *)

\* A renewal under way knows whether its token is active: no decision came
\* between its read and its write.
RenewalsKnow ==
    \A r \in Requests : req[r].op = "renewal" /\ db[req[r].t] = "stored" =>
       req[r].seen.active = token[req[r].t].active

\* A renewal of a token whose ticket is approved writes back an active row.
RenewalsKeep ==
    \A r \in Requests : /\ req[r].op = "renewal" /\ req[r].t \notin overruled
                        /\ ticket[req[r].t] = "approved"
                        => req[r].seen.active

ActiveInv == RenewalsKeep /\ ApprovedIsActive

LEMMA ActiveStep ==
    ASSUME TypeOK, RequestsNamed, GateInv, ActiveInv, RenewalsKnow', [Next]_vars
    PROVE  ActiveInv'
  <1> USE DEF ActiveInv
  <1>1. ASSUME NEW t \in Tokens, NEW acl \in AclActions, NEW row \in Row,
               NEW e \in Endpoints, Insert(t, acl, row, e)
        PROVE  ActiveInv'
    <2>1. /\ UNCHANGED <<req, overruled>> /\ ticket'[t] # "approved"
          /\ \A u \in Tokens : u # t => /\ db'[u] = db[u] /\ token'[u] = token[u]
                                        /\ ticket'[u] = ticket[u]
      BY <1>1 DEF Insert, TypeOK
    <2> QED
      BY <2>1 DEF RenewalsKeep, ApprovedIsActive, RequestsNamed
  <1>2. ASSUME NEW r \in Requests, NEW op \in Ops, NEW t \in Tokens, Begin(r, op, t)
        PROVE  ActiveInv'
    <2>1. /\ db[t] = "stored" /\ UNCHANGED <<db, token, ticket>>
          /\ overruled \subseteq overruled'
          /\ req'[r] = [op |-> op, t |-> t, seen |-> token[t]]
          /\ \A q \in Requests : q # r => req'[q] = req[q]
      BY <1>2 DEF Begin, TypeOK
    <2> QED
      BY <2>1 DEF RenewalsKeep, ApprovedIsActive
  <1>3. ASSUME NEW r \in Requests, NEW keep \in BOOLEAN, End(r, keep)
        PROVE  ActiveInv'
    <2> DEFINE q == req[r]
               t == q.t
    <2>1. /\ q.op # "idle" /\ t \in Tokens /\ UNCHANGED <<ticket, overruled>>
          /\ req'[r].op = "idle" /\ \A p \in Requests \ {r} : req'[p] = req[p]
          /\ \A u \in Tokens \ {t} : token'[u] = token[u] /\ db'[u] = db[u]
          /\ q.op = "patch" => t \in overruled
      BY <1>3, EndFrame DEF Idle, RequestsNamed
    <2>2. RenewalsKeep'
      BY <2>1 DEF RenewalsKeep
    <2>3. ASSUME t \notin overruled, ticket[t] = "approved", db'[t] = "stored"
          PROVE  token'[t].active
      <3>1. CASE q.op = "renewal"
        <4>1. token'[t] \in Written(q, keep)
          BY <1>3, <3>1, EndFrame DEF SavesRow
        <4> QED
          BY <2>1, <2>3, <3>1, <4>1, WrittenRow DEF RenewalsKeep
      <3>2. CASE q.op # "renewal"
        <4>1. ~SavesRow(q)
          BY <2>1, <2>3, <3>2 DEF SavesRow
        <4>2. db[t] = "stored" /\ token'[t] \in Written(q, keep)
          BY <1>3, <2>3, <4>1, EndFrame
        <4>3. token'[t].active = token[t].active
          BY <2>1, <4>1, <4>2, WrittenRow
        <4> QED
          BY <2>1, <2>3, <4>2, <4>3 DEF ApprovedIsActive
      <3> QED
        BY <3>1, <3>2
    <2>4. ApprovedIsActive'
      BY <2>1, <2>3 DEF ApprovedIsActive
    <2> QED
      BY <2>2, <2>4
  <1>4. ASSUME NEW t \in Tokens, Approve(t)
        PROVE  ActiveInv'
    <2>1. PICK u \in Tokens : db[u] = "stored" /\ token[u].from = t /\ token' = Activate(u)
      BY <1>4 DEF Approve
    <2>2. u = t
      BY <2>1 DEF GateInv, RowsOwn, Own, TokenAssumption
    <2>3. /\ token'[t].active /\ \A v \in Tokens : v # t => token'[v] = token[v]
          /\ UNCHANGED <<db, req, overruled>>
          /\ \A v \in Tokens : v # t => ticket'[v] = ticket[v]
      BY <1>4, <2>1, <2>2 DEF Approve, Activate, TypeOK, Row
    <2>4. \A r \in Requests : req[r].op = "renewal" /\ req[r].t = t => req[r].seen.active
      BY <2>1, <2>2, <2>3 DEF RenewalsKnow
    <2> QED
      BY <2>3, <2>4 DEF RenewalsKeep, ApprovedIsActive, RequestsNamed
  <1>5. ASSUME NEW t \in Tokens, FaceDone(t)
        PROVE  ActiveInv'
    <2>1. /\ UNCHANGED <<db, ticket, req, overruled>>
          /\ \A u \in Tokens : token[u].active => token'[u].active
      BY <1>5 DEF FaceDone, Activate, TypeOK, Row
    <2> QED
      BY <2>1 DEF RenewalsKeep, ApprovedIsActive
  <1>6. ASSUME NEW t \in Tokens, Refuse(t)
        PROVE  ActiveInv'
    <2>1. /\ UNCHANGED <<db, token, req, overruled>> /\ ticket'[t] # "approved"
          /\ \A u \in Tokens : u # t => ticket'[u] = ticket[u]
      BY <1>6 DEF Refuse, TypeOK
    <2> QED
      BY <2>1 DEF RenewalsKeep, ApprovedIsActive, RequestsNamed
  <1>7. CASE CleanExpired
    <2>1. /\ UNCHANGED <<ticket, req, overruled>>
          /\ \A t \in Tokens : db'[t] = "stored" => db[t] = "stored" /\ token'[t] = token[t]
      BY <1>7 DEF CleanExpired
    <2> QED
      BY <2>1 DEF RenewalsKeep, ApprovedIsActive
  <1>8. ASSUME UNCHANGED <<db, token, ticket, req, overruled>>
        PROVE  ActiveInv'
    BY <1>8 DEF RenewalsKeep, ApprovedIsActive
  <1>9. ASSUME NEW t \in Tokens, NEW acl \in AclActions, Inserts(t, acl)
        PROVE  ActiveInv'
    BY <1>1, <1>9, InsertedRow
  <1>10. ASSUME \/ \E a \in {"ok", "revoked", "disabled"} : SetAccess(a)
                \/ Tick \/ UNCHANGED vars
         PROVE  ActiveInv'
    BY <1>8, <1>10 DEF SetAccess, Tick, vars
  <1> QED
    BY <1>2, <1>3, <1>4, <1>5, <1>6, <1>7, <1>9, <1>10 DEF Next, Inserts

\* An approved review leaves an active token, unless the decision came while a
\* renewal of that token was under way or a superuser overruled it, whatever
\* else overlaps (activate_connection_token_if_need, renewal).
THEOREM ApprovedUnlessRenewed == Spec /\ []RenewalsKnow => []ApprovedIsActive
  <1>1. Init => ActiveInv
    BY DEF Init, ActiveInv, RenewalsKeep, ApprovedIsActive, Idle
  <1>2. ActiveInv => ApprovedIsActive
    BY DEF ActiveInv
  <1> QED
    BY <1>1, <1>2, ActiveStep, TypeCorrect, GateInductive, PTL DEF Spec

-----------------------------------------------------------------------------
(* Requests that come one at a time *)

\* The request under way is alone and has read the row that is stored.
Alone ==
    \A r \in Requests : req[r].op # "idle" =>
       /\ db[req[r].t] = "stored" => req[r].seen = token[req[r].t]
       /\ \A q \in Requests : req[q].op # "idle" => q = r

\* The run's setting satisfies the two hypotheses above.
THEOREM SerialIsApart ==
    ASSUME Serial PROVE Spec => [](OneEach /\ RenewalsKnow)
  <1>1. Init => Alone
    BY DEF Init, Alone, Idle
  <1>2. TypeOK /\ RequestsNamed /\ Alone /\ [Next]_vars => Alone'
    <2> SUFFICES ASSUME TypeOK, RequestsNamed, Alone, [Next]_vars PROVE Alone'
      OBVIOUS
    <2>1. ASSUME \A r \in Requests : req'[r].op = "idle" PROVE Alone'
      BY <2>1 DEF Alone
    <2>2. ASSUME Quiet, UNCHANGED req PROVE Alone'
      BY <2>1, <2>2 DEF Quiet
    <2>3. ASSUME NEW r \in Requests, NEW op \in Ops, NEW t \in Tokens, Begin(r, op, t)
          PROVE  Alone'
      BY <2>3 DEF Begin, Turn, Quiet, Alone, TypeOK
    <2>4. ASSUME NEW r \in Requests, NEW keep \in BOOLEAN, End(r, keep) PROVE Alone'
      <3>1. req[r].op # "idle" /\ req' = [req EXCEPT ![r] = Idle]
        BY <2>4 DEF End
      <3>2. \A q \in Requests : req'[q].op = "idle"
        BY <3>1 DEF Alone, Idle, TypeOK
      <3> QED
        BY <2>1, <3>2
    <2>5. ASSUME UNCHANGED <<db, token, req>> PROVE Alone'
      BY <2>5 DEF Alone
    <2>6. ASSUME NEW t \in Tokens, NEW acl \in AclActions, Inserts(t, acl)
          PROVE  Alone'
      <3>1. Quiet /\ UNCHANGED req
        BY <2>6, InsertedRow DEF Insert, Turn
      <3> QED
        BY <2>2, <3>1
    <2> QED
      BY <2>2, <2>3, <2>4, <2>5, <2>6 DEF Next, Inserts, Approve, FaceDone,
         Refuse, CleanExpired, SetAccess, Tick, Turn, vars
  <1>3. Alone => OneEach /\ RenewalsKnow
    BY DEF Alone, OneEach, RenewalsKnow
  <1> QED
    BY <1>1, <1>2, <1>3, TypeCorrect, PTL DEF Spec
=============================================================================
