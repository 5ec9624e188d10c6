--------------------------- MODULE ConnectionToken ---------------------------
(***************************************************************************)
(* Connection tokens (apps/authentication): the user asks for a token for  *)
(* one asset and account, a component redeems it for the secret of the     *)
(* account, and the user or the component expires, renews, reuses or       *)
(* exchanges it.  An ACL may withhold a token until a ticket is approved   *)
(* or a face is verified.  All tokens here are of one user, one asset and  *)
(* one account.                                                            *)
(*                                                                         *)
(* A superuser may also work through the admin endpoint: its tokens need   *)
(* no permission on the asset, and it finds them when they have expired.   *)
(*                                                                         *)
(* A request is one transaction at READ COMMITTED that reads the row       *)
(* without a lock (Begin) and writes it at its end (End); a request that   *)
(* only inserts rows, or updates fields without having read them, is one   *)
(* step.  A request is shorter than a tick of the clock.                   *)
(***************************************************************************)
EXTENDS Integers

CONSTANTS
    Tokens,       \* ids of tokens; one is used at most once
    None,         \* no ticket
    Reusable,     \* setting CONNECTION_TOKEN_REUSABLE
    OneTime,      \* setting CONNECTION_TOKEN_ONETIME_EXPIRATION, in ticks
    ReusableTTL,  \* setting CONNECTION_TOKEN_REUSABLE_EXPIRATION, in ticks
    Fresh,        \* is_valid asks for the permission only after this many ticks
    Keep,         \* setting SECURITY_EXPIRED_TOKEN_RECORD_KEEP_DAYS, in ticks
    MaxTime,      \* bound of the clock
    AdminIds,     \* ids a superuser may get from the admin endpoint; none when
                  \* the user is no superuser
    Requests,     \* request slots: how many requests may overlap
    Serial        \* TRUE: requests on the tokens come one at a time

ASSUME TokenAssumption ==
    /\ None \notin Tokens
    /\ AdminIds \subseteq Tokens
    /\ Reusable \in BOOLEAN /\ Serial \in BOOLEAN
    /\ {OneTime, ReusableTTL, Fresh, Keep, MaxTime} \subseteq Nat
    /\ Fresh # 0

VARIABLES
    now,       \* the clock
    access,    \* what the user may do on the asset
    lastOk,    \* when access was last "ok"
    db,        \* per id, whether the row is stored
    token,     \* per id, its row
    ticket,    \* per id, the review ticket created with the token
    face,      \* per id, the face verification its token waits for
    handed,    \* per id, how the secret was handed out so far
    req,       \* the requests under way, with the row each one read
    bypassed,  \* history: tokens made at the admin endpoint, which asks for no
               \* permission
    overruled  \* history: tokens a superuser asked to change, at that endpoint,
               \* in a way the endpoint of the users refuses

vars == <<now, access, lastOk, db, token, ticket, face, handed, req, bypassed,
          overruled>>

Row == [created: Nat, expires: Nat, active: BOOLEAN, reusable: BOOLEAN,
        admin: BOOLEAN, from: Tokens \cup {None}]

\* connection-token and super-connection-token, or admin-connection-token.
Endpoints == {"user", "admin"}

\* The actions of the LoginAssetACL that matches, those that refuse left out.
AclActions == {"accept", "review", "face_verify"}

Ops == {"secret", "reuse", "expire", "renewal", "patch"}

NoRow == [created |-> 0, expires |-> 0, active |-> FALSE, reusable |-> FALSE,
          admin |-> FALSE, from |-> None]

TypeOK ==
    /\ now \in Nat /\ lastOk \in 0..now
    /\ access \in {"ok", "revoked", "disabled"}
    /\ db \in [Tokens -> {"unused", "stored", "deleted"}]
    /\ token \in [Tokens -> Row]
    /\ ticket \in [Tokens -> {"none", "pending", "approved", "refused"}]
    /\ face \in [Tokens -> {"none", "wait"}]
    /\ handed \in [Tokens -> {"no", "kept", "spent", "again"}]
    /\ req \in [Requests -> [op: Ops \cup {"idle"}, t: Tokens \cup {None}, seen: Row]]
    /\ bypassed \subseteq Tokens /\ overruled \subseteq Tokens

Idle == [op |-> "idle", t |-> None, seen |-> NoRow]

\* No token yet; the user has the permission.
Init ==
    /\ now = 0 /\ lastOk = 0 /\ access = "ok"
    /\ db = [t \in Tokens |-> "unused"]
    /\ token = [t \in Tokens |-> NoRow]
    /\ ticket = [t \in Tokens |-> "none"]
    /\ face = [t \in Tokens |-> "none"]
    /\ handed = [t \in Tokens |-> "no"]
    /\ req = [r \in Requests |-> Idle]
    /\ bypassed = {} /\ overruled = {}

Quiet == \A r \in Requests : req[r].op = "idle"
Turn  == Serial => Quiet

\* date_expired < now: the clock has moved on since date_expired was written.
is_expired(row) == row.expires <= now

\* Mutant of is_valid: the permission is not asked for.
is_validNoPerm(row) ==
    /\ row.active
    /\ ~is_expired(row)
    /\ access # "disabled"

\* ConnectionToken.is_valid; to an admin token every account of the asset is
\* permitted.
is_valid(row) ==
    /\ row.active
    /\ ~is_expired(row)
    /\ access # "disabled"                             \* user and asset are valid
    /\ now - row.created < Fresh \/ row.admin \/ access = "ok"    \* the permission

-----------------------------------------------------------------------------
(* New tokens *)

Withheld(acl) == acl \in {"review", "face_verify"}

\* _validate: permission, then ACL; under review a ticket comes with the token.
Insert(t, acl, row, endpoint) ==
    /\ Turn
    /\ db[t] = "unused"
    /\ IF endpoint = "admin" THEN t \in AdminIds ELSE access = "ok"
    /\ db' = [db EXCEPT ![t] = "stored"]
    /\ token' = [token EXCEPT ![t] = row]
    /\ ticket' = [ticket EXCEPT ![t] = IF acl = "review" THEN "pending" ELSE "none"]
    /\ face' = [face EXCEPT ![t] = IF acl = "face_verify" THEN "wait" ELSE "none"]
    /\ bypassed' = IF endpoint = "admin" THEN bypassed \cup {t} ELSE bypassed
    /\ UNCHANGED <<now, access, lastOk, handed, req, overruled>>

Create(t, acl, is_reusable, endpoint) ==
    Insert(t, acl, [created |-> now, expires |-> now + OneTime,
                    active |-> ~Withheld(acl), reusable |-> is_reusable,
                    admin |-> endpoint = "admin",
                    from |-> IF acl = "review" THEN t ELSE None], endpoint)

\* Mutant of Exchange: the copy starts active.
ExchangeActive(s, t, acl, endpoint) ==
    LET from == IF acl = "review" THEN t ELSE token[s].from
    IN  /\ db[s] = "stored"
        /\ \A u \in Tokens : db[u] = "stored" /\ from # None => token[u].from # from
        /\ Insert(t, acl, [token[s] EXCEPT !.created = now, !.expires = now + OneTime,
                                           !.active = TRUE, !.admin = FALSE,
                                           !.from = from], endpoint)

\* The row of s is copied to a new id, as a token of a user at either endpoint
\* (save).  from_ticket is unique: when the copy would share the ticket of s,
\* the insert fails and nothing is written.
Exchange(s, t, acl, endpoint) ==
    LET from == IF acl = "review" THEN t ELSE token[s].from
    IN  /\ db[s] = "stored"
        /\ \A u \in Tokens : db[u] = "stored" /\ from # None => token[u].from # from
        /\ Insert(t, acl, [token[s] EXCEPT !.created = now, !.expires = now + OneTime,
                                           !.active = ~Withheld(acl) /\ token[s].active,
                                           !.admin = FALSE, !.from = from], endpoint)

-----------------------------------------------------------------------------
(* Requests that read a token and write it *)

\* Mutant of Accepted: an expired token can be renewed.
AcceptedExpired(op, row) == op = "renewal" \/ is_valid(row)

\* What each request asks of the row it read.  The users' endpoint finds only
\* tokens that have not expired (get_queryset), the admin endpoint every token
\* made there; set_reusable does nothing when the setting is off.  The download
\* of an RDP file that asks for reuse does what reuse does, of a valid token.
Accepted(op, row) ==
    /\ op = "secret" => is_valid(row)
    /\ op \in {"reuse", "expire"} => ~is_expired(row) \/ row.admin
    /\ op = "renewal" => ~is_expired(row)
    /\ op = "patch" => row.admin
    /\ op = "reuse" => Reusable

\* What only the admin endpoint takes: to write is_active and is_reusable, and
\* to give an expired token another date.
Overrules(op, row) ==
    op = "patch" \/ (op = "reuse" /\ is_expired(row))

Begin(r, op, t) ==
    /\ req[r].op = "idle" /\ Turn
    /\ db[t] = "stored"
    /\ Accepted(op, token[t])
    /\ req' = [req EXCEPT ![r] = [op |-> op, t |-> t, seen |-> token[t]]]
    /\ overruled' = IF Overrules(op, token[t]) THEN overruled \cup {t} ELSE overruled
    /\ UNCHANGED <<now, access, lastOk, db, token, ticket, face, handed, bypassed>>

\* get_secret_detail: fetching the secret expires the token, unless the token
\* is reusable or the component asks to keep it.
Consumed(q, keep) == q.op = "secret" /\ ~keep /\ ~(q.seen.reusable /\ Reusable)

\* expire writes its own field.
Expired(q) == [token[q.t] EXCEPT !.expires = now]

\* renewal saves the whole row it read, as a token of a user.
Renewed(q) == [q.seen EXCEPT !.expires = now + OneTime, !.admin = FALSE]

\* set_reusable, either way: the date of expiry counts from the date of creation.
Reused(q) ==
    {[token[q.t] EXCEPT !.reusable = b,
                        !.expires = q.seen.created
                                      + (IF b THEN ReusableTTL ELSE OneTime)] :
        b \in BOOLEAN}

\* PATCH saves the whole row it read, with what the body says of two fields.
Patched(q) ==
    {[q.seen EXCEPT !.active = body.active, !.reusable = body.reusable] :
        body \in [active: BOOLEAN, reusable: BOOLEAN]}

\* Mutant of Written: expire writes a time that has passed.
WrittenBackdated(q, keep) ==
    {[token[q.t] EXCEPT !.expires = IF q.op = "expire" THEN now - 1 ELSE @]}

\* Mutant of Written: the fetch of a secret does not expire the token.
WrittenUnspent(q, keep) ==
    {IF q.op = "renewal" THEN Renewed(q) ELSE token[q.t]}

\* The rows request q may leave.
Written(q, keep) ==
    CASE q.op = "expire" \/ Consumed(q, keep) -> {Expired(q)}
      [] q.op = "reuse"   -> Reused(q)
      [] q.op = "renewal" -> {Renewed(q)}
      [] q.op = "patch"   -> Patched(q)
      [] OTHER            -> {token[q.t]}

\* Once a secret spent its token, another one is handed out "again".
Handing(q, keep) ==
    IF q.op # "secret" THEN handed[q.t]
    ELSE IF handed[q.t] \in {"spent", "again"} THEN "again"
    ELSE IF Consumed(q, keep) THEN "spent" ELSE "kept"

\* The cleaner may have deleted the row meanwhile: saving chosen fields then
\* fails, and so does the request; saving the whole row inserts it again.
SavesRow(q) == q.op \in {"renewal", "patch"}

End(r, keep) ==
    LET q    == req[r]
        gone == db[q.t] # "stored"
    IN  /\ q.op # "idle"
        /\ \E row \in Written(q, keep) :
              token' = [token EXCEPT ![q.t] = IF gone /\ ~SavesRow(q) THEN @ ELSE row]
        /\ db' = [db EXCEPT ![q.t] = IF SavesRow(q) THEN "stored" ELSE @]
        /\ handed' = [handed EXCEPT ![q.t] =
                        IF gone /\ Consumed(q, keep) THEN @ ELSE Handing(q, keep)]
        /\ req' = [req EXCEPT ![r] = Idle]
        /\ UNCHANGED <<now, access, lastOk, ticket, face, bypassed, overruled>>

-----------------------------------------------------------------------------
(* Review, face verification, cleaning *)

\* Mutant of Activate: the token is not activated.
ActivateNone(t) == token

Activate(t) == [token EXCEPT ![t].active = TRUE]

\* The review of t approves: the token of the ticket is activated.  When the
\* token is deleted (RelatedObjectDoesNotExist) the request is rolled back.
Approve(t) ==
    /\ Turn
    /\ ticket[t] = "pending"
    /\ ticket' = [ticket EXCEPT ![t] = "approved"]
    /\ \E u \in Tokens : /\ db[u] = "stored" /\ token[u].from = t
                         /\ token' = Activate(u)
    /\ UNCHANGED <<now, access, lastOk, db, face, handed, req,
                   bypassed, overruled>>

\* The review rejects, or is closed; or it approves through the link of a mail
\* and its handler fails: the token stays inactive all the same (see Ticket,
\* LinkFails).
Refuse(t) ==
    /\ Turn
    /\ ticket[t] = "pending"
    /\ ticket' = [ticket EXCEPT ![t] = "refused"]
    /\ UNCHANGED <<now, access, lastOk, db, token, face, handed, req,
                   bypassed, overruled>>

\* FaceCallbackApi, after the face of the user was recognised.
FaceDone(t) ==
    /\ Turn
    /\ db[t] = "stored" /\ face[t] = "wait"
    /\ face' = [face EXCEPT ![t] = "none"]
    /\ token' = Activate(t)
    /\ UNCHANGED <<now, access, lastOk, db, ticket, handed, req,
                   bypassed, overruled>>

\* clean_expire_token
CleanExpired ==
    LET old == {t \in Tokens : db[t] = "stored" /\ token[t].expires + Keep < now}
    IN  /\ Turn
        /\ old # {}
        /\ db' = [t \in Tokens |-> IF t \in old THEN "deleted" ELSE db[t]]
        /\ token' = [t \in Tokens |-> IF t \in old THEN NoRow ELSE token[t]]
        /\ UNCHANGED <<now, access, lastOk, ticket, face, handed, req,
                       bypassed, overruled>>

-----------------------------------------------------------------------------
(* The administrator and the clock *)

SetAccess(a) ==
    /\ access' = a
    /\ lastOk' = IF access = "ok" \/ a = "ok" THEN now ELSE lastOk
    /\ UNCHANGED <<now, db, token, ticket, face, handed, req,
                   bypassed, overruled>>

Tick ==
    /\ now < MaxTime /\ Quiet
    /\ now' = now + 1
    /\ lastOk' = IF access = "ok" THEN now + 1 ELSE lastOk
    /\ UNCHANGED <<access, db, token, ticket, face, handed, req,
                   bypassed, overruled>>

Next ==
    \/ \E t \in Tokens, acl \in AclActions, b \in BOOLEAN, e \in Endpoints :
          Create(t, acl, b, e)
    \/ \E s, t \in Tokens, acl \in AclActions, e \in Endpoints : Exchange(s, t, acl, e)
    \/ \E r \in Requests, op \in Ops, t \in Tokens : Begin(r, op, t)
    \/ \E r \in Requests, keep \in BOOLEAN : End(r, keep)
    \/ \E t \in Tokens : Approve(t) \/ Refuse(t) \/ FaceDone(t)
    \/ CleanExpired
    \/ \E a \in {"ok", "revoked", "disabled"} : SetAccess(a)
    \/ Tick

Spec == Init /\ [][Next]_vars

-----------------------------------------------------------------------------
(* Safety.  What a superuser overruled at the admin endpoint is left out by    *)
(* name; without a superuser nothing is.                                       *)

\* No secret leaves with a token that waits for its review, was refused, or
\* waits for its face verification, whatever is exchanged, renewed or reused.
WithheldUntilDecided ==
    \A t \in Tokens \ overruled : handed[t] # "no" =>
       /\ token[t].from # None => ticket[token[t].from] = "approved"
       /\ face[t] # "wait"

\* The minute in which is_valid does not ask for the permission is the only
\* delay of a revocation: a secret is handed out only if the user had the
\* permission less than Fresh ticks ago, or with a token made without one.
RevocationDelayed ==
    [][\A t \in Tokens \ bypassed :
          handed'[t] # handed[t] => now - lastOk < Fresh]_vars

\* An approved ticket leaves the user with an active token, unless its handler
\* failed (activate_connection_token_if_need).
ApprovedIsActive ==
    \A t \in Tokens \ overruled :
       ticket[t] = "approved" /\ db[t] = "stored" => token[t].active

\* A token that is not reusable gives its secret once: with the setting off no
\* token is reusable ("Reusable connection token is not allowed, global
\* setting not enabled", reuse).
SpentOnce == \A t \in Tokens \ overruled : handed[t] # "again"

\* An expired token never becomes valid again: it was expired by its user, by
\* the fetch of its secret, or by time ("Token is expired at", renewal).
ExpiredIsFinal ==
    [][\A t \in Tokens \ overruled :
         db[t] = "stored" /\ is_expired(token[t]) => is_expired(token[t])']_vars

=============================================================================
