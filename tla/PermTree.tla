------------------------------ MODULE PermTree ------------------------------
(***************************************************************************)
(* The tree of permitted nodes and assets of one user (apps/perms): rows   *)
(* computed per organization from the permissions, and a Redis set of the  *)
(* organizations whose tree is built.  A change of a permission takes its  *)
(* organization out of the set when it commits; a request for the tree     *)
(* rebuilds what is missing, one rebuild per user at a time.               *)
(*                                                                         *)
(* small: the rebuild is a part of the request and of its transaction.     *)
(* Otherwise it is a delayed run without a transaction, which commits each *)
(* organization for itself.  Permissions are told apart by a version, the  *)
(* rows by the version they were computed from.                            *)
(***************************************************************************)
EXTENDS Naturals

CONSTANTS
    Orgs,         \* the organizations of the user
    Requests,     \* request slots: how many refreshes may overlap
    None,         \* the lock is free
    Orphan,       \* the lock is held by nobody who will release it
    MaxVersion,   \* bound on the changes
    MaxFaults     \* bound on processes that die and transactions that fail

ASSUME PermTreeAssumption ==
    /\ None \notin Requests /\ Orphan \notin Requests /\ None # Orphan
    /\ MaxVersion \in Nat \ {0} /\ MaxFaults \in Nat

VARIABLES
    small,       \* setting ASSET_SIZE is "small"; never changes
    perm,        \* the permissions of the user, and whether there are any
    hook,        \* organizations whose expiry waits for its commit hook
    tree,        \* the committed rows; 0 for rows that were never built
    built,       \* the Redis set of organizations that are built
    built_time,  \* whether the key built_time is set
    lock,        \* UserGrantedTreeRebuildLock
    req,         \* the refreshes under way
    disturbed,   \* organizations whose tree was overtaken, see BuiltIsCurrent
    faults       \* number of faults so far

vars == <<small, perm, hook, tree, built, built_time, lock, req, disturbed, faults>>

Versions == 0..MaxVersion
Refresh  == [pc: {"idle", "perform", "build", "marked"},
             orgs: SUBSET Orgs,               \* what it was asked to build
             todo: SUBSET Orgs,               \* not computed yet
             rows: [Orgs -> Versions]]        \* computed and not committed, or 0

NoRows == [o \in Orgs |-> 0]
Idle   == [pc |-> "idle", orgs |-> {}, todo |-> {}, rows |-> NoRows]

\* The types; the time of the last rebuild is only noted by delayed runs, and
\* only the request of a small installation can leave its lock to nobody.
TypeOK ==
    /\ small \in BOOLEAN
    /\ perm \in [Orgs -> [v: Versions, any: BOOLEAN]]
    /\ hook \subseteq Orgs
    /\ tree \in [Orgs -> Versions]
    /\ built \subseteq Orgs
    /\ built_time \in BOOLEAN /\ ~(small /\ built_time)
    /\ lock \in Requests \cup {None, Orphan} /\ (lock = Orphan => small)
    /\ req \in [Requests -> Refresh]
    /\ disturbed \subseteq Orgs
    /\ faults \in 0..MaxFaults

Init ==
    /\ small \in BOOLEAN
    /\ perm = [o \in Orgs |-> [v |-> 1, any |-> TRUE]]
    /\ hook = {}
    /\ tree = NoRows
    /\ built = {}
    /\ built_time = FALSE
    /\ lock = None
    /\ req = [r \in Requests |-> Idle]
    /\ disturbed = {}
    /\ faults = 0

\* The rows of o are computed by a refresh that has not marked it yet.
Computed(o) ==
    \E r \in Requests : req[r].pc = "build" /\ o \in req[r].orgs \ req[r].todo

-----------------------------------------------------------------------------
(* Permissions *)

\* A transaction changes permissions of the user in o and commits; the users it
\* concerns were computed before, the hook takes o out of the set.
Change(o, any) ==
    /\ perm[o].v < MaxVersion
    /\ perm' = [perm EXCEPT ![o] = [v |-> perm[o].v + 1, any |-> any]]
    /\ hook' = hook \cup {o}
    /\ disturbed' = IF Computed(o) THEN disturbed \cup {o} ELSE disturbed
    /\ UNCHANGED <<small, tree, built, built_time, lock, req, faults>>

\* A permission starts or ends by the clock.  No code runs.
Lapse(o) ==
    /\ perm[o].v < MaxVersion
    /\ perm' = [perm EXCEPT ![o].v = @ + 1]
    /\ disturbed' = disturbed \cup {o}
    /\ UNCHANGED <<small, hook, tree, built, built_time, lock, req, faults>>

\* Mutant of Expire: the key of the user keeps the organization.
ExpireNothing(o) ==
    /\ o \in hook
    /\ hook' = hook \ {o}
    /\ UNCHANGED <<small, perm, tree, built, built_time, lock, req, faults, disturbed>>

\* expire_perm_tree_for_users_orgs
Expire(o) ==
    /\ o \in hook
    /\ hook' = hook \ {o}
    /\ built' = built \ {o}
    /\ UNCHANGED <<small, perm, tree, built_time, lock, req, faults, disturbed>>

\* The process dies between its commit and the hook.
HookLost(o) ==
    /\ o \in hook
    /\ faults < MaxFaults /\ faults' = faults + 1
    /\ hook' = hook \ {o}
    /\ disturbed' = disturbed \cup {o}
    /\ UNCHANGED <<small, perm, tree, built, built_time, lock, req>>

\* Mutant of CheckExpired: only permissions that have ended are looked for.
CheckExpiredOnly ==
    /\ \E o \in Orgs : ~perm[o].any /\ o \in built
    /\ built' = {o \in built : perm[o].any}
    /\ UNCHANGED <<small, perm, hook, tree, built_time, lock, req, faults, disturbed>>

\* check_asset_permission_expired: get_expired_permissions selects every
\* permission, hence every organization in which the user still has one.
CheckExpired ==
    /\ built' = {o \in built : ~perm[o].any}
    /\ UNCHANGED <<small, perm, hook, tree, built_time, lock, req, faults, disturbed>>

-----------------------------------------------------------------------------
(* Refresh *)

\* refresh_if_need
Ask(r, force) ==
    LET orgs == IF force THEN Orgs ELSE Orgs \ built
    IN  /\ req[r].pc = "idle"
        /\ ~small => ~built_time
        /\ orgs # {}
        /\ req' = [req EXCEPT ![r] = [Idle EXCEPT !.pc = "perform", !.orgs = orgs]]
        /\ UNCHANGED <<small, perm, hook, tree, built, built_time, lock, faults, disturbed>>

\* Mutant of Acquire: the time is noted whatever the setting.
AcquireTimed(r) ==
    /\ req[r].pc = "perform"
    /\ built_time' = TRUE
    /\ IF lock = None /\ ~built_time
       THEN /\ lock' = r
            /\ req' = [req EXCEPT ![r].pc = "build", ![r].todo = req[r].orgs]
       ELSE /\ req' = [req EXCEPT ![r] = Idle]
            /\ UNCHANGED lock
    /\ UNCHANGED <<small, perm, hook, tree, built, faults, disturbed>>

\* perform_refresh_user_tree: the time is noted before the lock is tried, and
\* without the lock the refresh is given up.
Acquire(r) ==
    /\ req[r].pc = "perform"
    /\ built_time' = ~small
    /\ IF lock = None /\ ~built_time
       THEN /\ lock' = r
            /\ req' = [req EXCEPT ![r].pc = "build", ![r].todo = req[r].orgs]
       ELSE /\ req' = [req EXCEPT ![r] = Idle]
            /\ UNCHANGED lock
    /\ UNCHANGED <<small, perm, hook, tree, built, faults, disturbed>>

\* rebuild_user_perm_tree: the rows of o are deleted and computed anew.
Build(r, o) ==
    /\ req[r].pc = "build" /\ o \in req[r].todo
    /\ ~small => req[r].rows = NoRows
    /\ req' = [req EXCEPT ![r].todo = @ \ {o}, ![r].rows[o] = perm[o].v]
    /\ UNCHANGED <<small, perm, hook, tree, built, built_time, lock, faults, disturbed>>

Stored(rows) == [o \in Orgs |-> IF rows[o] = 0 THEN tree[o] ELSE rows[o]]

\* The delayed run commits the rows of one organization.
CommitOrg(r) ==
    /\ ~small
    /\ req[r].pc = "build" /\ req[r].rows # NoRows
    /\ tree' = Stored(req[r].rows)
    /\ req' = [req EXCEPT ![r].rows = NoRows]
    /\ UNCHANGED <<small, perm, hook, built, built_time, lock, faults, disturbed>>

\* Mutant of Mark: the lock is released before the transaction commits.
MarkRelease(r) ==
    /\ req[r].pc = "build" /\ req[r].todo = {}
    /\ built' = built \cup req[r].orgs
    /\ req' = [req EXCEPT ![r].pc = "marked"]
    /\ lock' = None
    /\ UNCHANGED <<small, perm, hook, tree, built_time, faults, disturbed>>

\* _mark_user_orgs_refresh_finished, then lock.release(), which waits for the
\* commit when there is a transaction.
Mark(r) ==
    /\ req[r].pc = "build" /\ req[r].todo = {}
    /\ ~small => req[r].rows = NoRows
    /\ built' = built \cup req[r].orgs
    /\ IF small
       THEN /\ req' = [req EXCEPT ![r].pc = "marked"]
            /\ UNCHANGED lock
       ELSE /\ req' = [req EXCEPT ![r] = Idle]
            /\ lock' = None
    /\ UNCHANGED <<small, perm, hook, tree, built_time, faults, disturbed>>

\* The request is answered: its transaction commits and frees the lock.
Commit(r) ==
    /\ req[r].pc = "marked"
    /\ tree' = Stored(req[r].rows)
    /\ req' = [req EXCEPT ![r] = Idle]
    /\ lock' = None
    /\ UNCHANGED <<small, perm, hook, built, built_time, faults, disturbed>>

\* The refresh raises, or the rest of its request does: rows that are not
\* committed are gone, Redis is not rolled back.  A delayed run frees its lock,
\* the commit hook that would free the lock of a request is dropped.
Fail(r) ==
    /\ req[r].pc # "idle"
    /\ faults < MaxFaults /\ faults' = faults + 1
    /\ req' = [req EXCEPT ![r] = Idle]
    /\ lock' = IF lock # r THEN lock ELSE IF small THEN Orphan ELSE None
    /\ disturbed' = IF req[r].pc = "marked" THEN disturbed \cup req[r].orgs
                    ELSE disturbed
    /\ UNCHANGED <<small, perm, hook, tree, built, built_time>>

\* A lock that nobody renews expires.
LockExpires ==
    /\ lock = Orphan
    /\ lock' = None
    /\ UNCHANGED <<small, perm, hook, tree, built, built_time, req, faults, disturbed>>

\* PERM_TREE_REGEN_INTERVAL is over.
TimeForgotten ==
    /\ built_time
    /\ built_time' = FALSE
    /\ UNCHANGED <<small, perm, hook, tree, built, lock, req, faults, disturbed>>

-----------------------------------------------------------------------------
Next ==
    \/ \E o \in Orgs, any \in BOOLEAN : Change(o, any)
    \/ \E o \in Orgs : Lapse(o) \/ Expire(o) \/ HookLost(o)
    \/ CheckExpired
    \/ \E r \in Requests, force \in BOOLEAN : Ask(r, force)
    \/ \E r \in Requests : \/ Acquire(r) \/ CommitOrg(r) \/ Mark(r)
                           \/ Commit(r) \/ Fail(r)
    \/ \E r \in Requests, o \in Orgs : Build(r, o)
    \/ LockExpires \/ TimeForgotten

Spec == Init /\ [][Next]_vars

\* Requests and runs complete, keys and locks expire, celery beat runs the
\* check, and the user keeps asking for the tree.
FairSpec ==
    /\ Spec
    /\ WF_vars(CheckExpired) /\ WF_vars(LockExpires) /\ WF_vars(TimeForgotten)
    /\ \A o \in Orgs : WF_vars(Expire(o))
    /\ \A r \in Requests :
         /\ WF_vars(Ask(r, FALSE))
         /\ WF_vars(Acquire(r)) /\ WF_vars(CommitOrg(r))
         /\ WF_vars(Mark(r)) /\ WF_vars(Commit(r))
         /\ \A o \in Orgs : WF_vars(Build(r, o))

-----------------------------------------------------------------------------
(* Properties *)

\* Rows never give way to rows computed from older permissions, whoever
\* rebuilds, fails or dies: the lock is held until the commit.
TreeNeverOlder == [][\A o \in Orgs : tree[o] <= tree'[o]]_vars

\* Why: who rebuilds holds the lock, and computes rows no older than those in
\* the database and no newer than the permissions.
HolderOnly ==
    \A r \in Requests : lock = r <=> req[r].pc \in {"build", "marked"}

RowsBetween ==
    \A o \in Orgs :
       /\ tree[o] <= perm[o].v
       /\ \A r \in Requests :
            req[r].rows[o] # 0 => /\ lock = r
                                  /\ tree[o] <= req[r].rows[o]
                                  /\ req[r].rows[o] <= perm[o].v

\* A tree that is marked as built, and whose expiry is not on its way, shows
\* the permissions of the user.  Four things overtake a tree, and nothing else:
\* a change after its rows were computed and before they are marked, a lapse by
\* the clock, a lost hook, and a request that fails after it marked its rows.
BuiltIsCurrent ==
    \A o \in built \ (hook \cup disturbed) :
       (\A r \in Requests : req[r].pc = "marked" => o \notin req[r].orgs)
         => tree[o] = perm[o].v

\* Why: the rows that are computed and not overtaken are those of the
\* permissions, before the mark and between the mark and the commit.
RowsCurrent ==
    \A o \in Orgs :
       /\ perm[o].v # 0
       /\ \A r \in Requests :
            /\ req[r].todo \subseteq req[r].orgs
            /\ req[r].rows[o] # 0 => o \in req[r].orgs \ req[r].todo
            /\ (req[r].pc = "build" /\ o \in req[r].orgs \ (req[r].todo \cup disturbed))
                 => \/ req[r].rows[o] = perm[o].v
                    \/ req[r].rows[o] = 0 /\ ~small /\ tree[o] = perm[o].v
            /\ (req[r].pc = "marked" /\ o \in (req[r].orgs \cap built) \ (hook \cup disturbed))
                 => req[r].rows[o] = perm[o].v

\* Also when a change overlaps a rebuild, its hook is lost, a request is rolled
\* back or a permission lapses: as long as the user has a permission in the
\* organization, the tree shows it again and again.
StaleRepaired ==
    \A o \in Orgs : []<>(perm[o].any => tree[o] = perm[o].v)

=============================================================================
