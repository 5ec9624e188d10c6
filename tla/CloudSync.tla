------------------------------ MODULE CloudSync ------------------------------
(***************************************************************************)
(* The synchronisation of one cloud account (cloud_sync): an execution is  *)
(* asked for through the API, with an idempotency key, or by the task that *)
(* visits all accounts; it lists the instances of the cloud and goes over  *)
(* the list, creating an asset and then its mapping for an instance that   *)
(* has none, and updating the asset of the others.  Executions of an       *)
(* account are not kept apart, every save is committed at once, and a      *)
(* worker may die between two of them.                                     *)
(***************************************************************************)
EXTENDS Integers

CONSTANTS
    Instances,
    Names,          \* names that instances have in the cloud
    Addrs,
    Suffixed(_, _), \* a name with the end of an instance's id
    Assets,         \* bound: the assets there may be
    Keyed, Tasks,   \* executions asked for with a key, and by the task
    None,
    MaxChanges,     \* bound: changes in the cloud and assets that users delete
    MaxFaults       \* bound: failures of the provider, lost messages, deaths

Executions == Keyed \cup Tasks
AllNames   == Names \cup {Suffixed(n, i) : n \in Names, i \in Instances}
Machines   == [name: Names, addr: Addrs \cup {None}]
Rows       == [name: AllNames, addr: Addrs, by: Executions]

ASSUME CloudAssumption ==
    /\ Keyed \cap Tasks = {}
    /\ None \notin Assets /\ None \notin Addrs
    /\ None \notin Machines
    /\ None \notin Rows
    /\ MaxChanges \in Nat /\ MaxFaults \in Nat

VARIABLES
    cloud,    \* per instance, what the provider would list, or None
    row,      \* per asset, its name and address and who made it, or None
    mapping,  \* CloudSyncedAsset: per instance its asset, or None
    status,   \* CloudSyncExecution.status
    sent,     \* executions whose message is in the queue
    worker,   \* per execution, where it is in _run_sync
    shared,   \* executions that ran while another one did
    dead,     \* executions whose worker died
    touched,  \* executions since whose begin the cloud or an asset was changed
    calm,     \* nothing has happened since an execution that succeeded
    changes, faults

tables == <<cloud, row, mapping>>
past   == <<shared, dead, touched, calm>>
counts == <<changes, faults>>
vars   == <<tables, status, sent, worker, past, counts>>

Idle == [at |-> "idle", seen |-> [i \in Instances |-> None], todo |-> {}, cur |-> None,
         name |-> None, asset |-> None, fields |-> {}, good |-> FALSE, bad |-> FALSE]

Workers == [at: {"idle", "list", "loop", "save", "pick", "insert", "map"},
            seen: [Instances -> Machines \cup {None}], todo: SUBSET Instances,
            cur: Instances \cup {None}, name: AllNames \cup {None},
            asset: Assets \cup {None}, fields: SUBSET {"name", "addr"},
            good: BOOLEAN, bad: BOOLEAN]

TypeOK ==
    /\ cloud \in [Instances -> Machines \cup {None}]
    /\ row \in [Assets -> Rows \cup {None}]
    /\ mapping \in [Instances -> Assets \cup {None}]
    /\ status \in [Executions -> {"none", "pending", "running", "success", "partial",
                                  "failed"}]
    /\ sent \in SUBSET Keyed
    /\ worker \in [Executions -> Workers]
    /\ shared \in SUBSET Executions /\ dead \in SUBSET Executions
    /\ touched \in SUBSET Executions /\ calm \in BOOLEAN
    /\ changes \in 0..MaxChanges /\ faults \in 0..MaxFaults

Init ==
    /\ cloud \in [Instances -> Machines \cup {None}]
    /\ row = [a \in Assets |-> None] /\ mapping = [i \in Instances |-> None]
    /\ status = [e \in Executions |-> "none"] /\ sent = {}
    /\ worker = [e \in Executions |-> Idle]
    /\ shared = {} /\ dead = {} /\ touched = {} /\ calm = FALSE
    /\ changes = 0 /\ faults = 0

Active == {e \in Executions: worker[e].at # "idle"}

Change ==
    /\ changes < MaxChanges /\ changes' = changes + 1 /\ UNCHANGED faults
    /\ touched' = Executions /\ calm' = FALSE

Fault ==
    /\ faults < MaxFaults /\ faults' = faults + 1 /\ UNCHANGED changes
    /\ calm' = FALSE

-----------------------------------------------------------------------------
(* Around the executions *)

\* An instance is started, ended, renamed, or gets another address.
CloudChanges(i) ==
    /\ \E m \in Machines \cup {None}: cloud' = [cloud EXCEPT ![i] = m]
    /\ Change
    /\ UNCHANGED <<row, mapping, status, sent, worker, shared, dead>>

\* A user deletes an asset; its mapping goes with it.
Delete(a) ==
    /\ row[a] # None
    /\ row' = [row EXCEPT ![a] = None]
    /\ mapping' = [i \in Instances |-> IF mapping[i] = a THEN None ELSE mapping[i]]
    /\ Change
    /\ UNCHANGED <<cloud, status, sent, worker, shared, dead>>

\* queue_sync: a key that is known has its execution returned, whatever became
\* of it; for a new one the message is sent when the row is committed.
Request(k) ==
    /\ status[k] = "none"
    /\ status' = [status EXCEPT ![k] = "pending"]
    /\ \/ sent' = sent \cup {k} /\ UNCHANGED <<calm, counts>>
       \/ UNCHANGED sent /\ Fault
    /\ UNCHANGED <<tables, worker, shared, dead, touched>>

Begin(e) ==
    /\ worker' = [worker EXCEPT ![e].at = "list"]
    /\ status' = [status EXCEPT ![e] = "running"]
    /\ shared' = IF Active = {} THEN shared ELSE shared \cup Active \cup {e}
    /\ touched' = touched \ {e}
    /\ UNCHANGED <<tables, dead, calm, counts>>

\* The message is acknowledged before the task runs.
StartKeyed(k) == k \in sent /\ sent' = sent \ {k} /\ Begin(k)

StartTask(t) == status[t] = "none" /\ Begin(t) /\ UNCHANGED sent

\* What the worker had in memory is lost; the execution stays "running".
Die(e) ==
    /\ worker[e].at # "idle"
    /\ worker' = [worker EXCEPT ![e] = Idle]
    /\ dead' = dead \cup {e}
    /\ Fault
    /\ UNCHANGED <<tables, status, sent, shared, touched>>

-----------------------------------------------------------------------------
(* _run_sync *)

List(e) ==
    /\ worker[e].at = "list"
    /\ worker' = [worker EXCEPT ![e].at = "loop", ![e].seen = cloud,
                                ![e].todo = {i \in Instances: cloud[i] # None}]
    /\ UNCHANGED <<tables, status, sent, past, counts>>

ListFails(e) ==
    /\ worker[e].at = "list"
    /\ worker' = [worker EXCEPT ![e] = Idle]
    /\ status' = [status EXCEPT ![e] = "failed"]
    /\ Fault
    /\ UNCHANGED <<tables, sent, shared, dead, touched>>

\* The instance is counted as created or updated, or as failed, and then it is
\* in quarantine; the loop goes on.
Done(e)   == worker' = [worker EXCEPT ![e].at = "loop", ![e].good = TRUE]
Failed(e) == worker' = [worker EXCEPT ![e].at = "loop", ![e].bad = TRUE]

\* What a step at an instance leaves alone.
Idem == UNCHANGED <<cloud, status, sent, past, counts>>

Seen(e) == worker[e].seen[worker[e].cur]

\* Mutant of Fields: the address is left as it is.
FieldsName(r, m) == {f \in {"name"}: r[f] # m[f]}

\* What is to be saved of a row that is not as the provider says.
Fields(r, m) == {f \in {"name", "addr"}: r[f] # m[f]}

\* Mutant of Look: an instance without an address is not left out.
LookNoAddress(e, i) ==
    /\ worker[e].at = "loop" /\ i \in worker[e].todo
    /\ worker' = [worker EXCEPT ![e].todo = @ \ {i}, ![e].cur = i, ![e].asset = mapping[i],
                                ![e].at = IF mapping[i] = None THEN "pick" ELSE "save"]
    /\ Idem /\ UNCHANGED <<row, mapping>>

\* Mutant of Look: the mapping is not asked for.
LookUnmapped(e, i) ==
    /\ worker[e].at = "loop" /\ i \in worker[e].todo
    /\ worker' = [worker EXCEPT ![e].todo = @ \ {i}, ![e].cur = i,
                                ![e].at = IF worker[e].seen[i].addr = None
                                          THEN "loop" ELSE "pick"]
    /\ Idem /\ UNCHANGED <<row, mapping>>

\* An instance without an address is a failure; else its mapping decides.
Look(e, i) ==
    /\ worker[e].at = "loop" /\ i \in worker[e].todo
    /\ LET w == [worker[e] EXCEPT !.todo = @ \ {i}, !.cur = i]
           a == mapping[i]
       IN worker' = [worker EXCEPT ![e] =
            IF w.seen[i].addr = None THEN [w EXCEPT !.bad = TRUE]
            ELSE IF a = None THEN [w EXCEPT !.at = "pick"]
            ELSE [w EXCEPT !.at = "save", !.asset = a,
                           !.fields = Fields(row[a], w.seen[i])]]
    /\ Idem /\ UNCHANGED <<row, mapping>>

\* An asset other than a has the name.
Taken(n, a) == \E b \in Assets \ {a}: row[b] # None /\ row[b].name = n

\* A save of fields is refused when the row is gone, or the name another's.
Refused(e, a) ==
    /\ worker[e].fields # {}
    /\ row[a] = None \/ ("name" \in worker[e].fields /\ Taken(Seen(e).name, a))

Saved(r, m, fs) == [r EXCEPT !.name = IF "name" \in fs THEN m.name ELSE @,
                             !.addr = IF "addr" \in fs THEN m.addr ELSE @]

\* The fields that were found to differ are saved, and only those.
Save(e) ==
    /\ worker[e].at = "save"
    /\ LET a == worker[e].asset IN
         \/ /\ worker[e].fields = {}
            /\ Done(e) /\ UNCHANGED row
         \/ /\ worker[e].fields # {} /\ ~Refused(e, a)
            /\ row' = [row EXCEPT ![a] = Saved(@, Seen(e), worker[e].fields)]
            /\ Done(e)
         \/ /\ Refused(e, a)
            /\ Failed(e) /\ UNCHANGED row
    /\ Idem /\ UNCHANGED mapping

\* The serializer is valid with the name, or with the suffix after it.
Pick(e) ==
    /\ worker[e].at = "pick"
    /\ LET n == Seen(e).name  s == Suffixed(n, worker[e].cur) IN
         \/ /\ ~Taken(n, None)
            /\ worker' = [worker EXCEPT ![e].at = "insert", ![e].name = n]
         \/ /\ Taken(n, None) /\ ~Taken(s, None)
            /\ worker' = [worker EXCEPT ![e].at = "insert", ![e].name = s]
         \/ /\ Taken(n, None) /\ Taken(s, None)
            /\ Failed(e)
    /\ Idem /\ UNCHANGED <<row, mapping>>

\* Another execution may have taken the name since.
Insert(e) ==
    /\ worker[e].at = "insert"
    /\ \/ \E a \in Assets:
            /\ row[a] = None /\ \A f \in Executions: worker[f].asset # a
            /\ ~Taken(worker[e].name, None)
            /\ row' = [row EXCEPT ![a] = [name |-> worker[e].name, addr |-> Seen(e).addr,
                                          by |-> e]]
            /\ worker' = [worker EXCEPT ![e].at = "map", ![e].asset = a]
       \/ /\ Taken(worker[e].name, None)
          /\ Failed(e) /\ UNCHANGED row
    /\ Idem /\ UNCHANGED mapping

\* There may be a mapping by now, or no asset any more; the asset that was
\* created is not taken back.
Map(e) ==
    /\ worker[e].at = "map"
    /\ LET a == worker[e].asset  i == worker[e].cur IN
         \/ /\ row[a] # None /\ mapping[i] = None
            /\ mapping' = [mapping EXCEPT ![i] = a]
            /\ Done(e)
         \/ /\ row[a] = None \/ mapping[i] # None
            /\ Failed(e) /\ UNCHANGED mapping
    /\ Idem /\ UNCHANGED row

Outcome(e) == IF ~worker[e].bad THEN "success"
              ELSE IF worker[e].good THEN "partial" ELSE "failed"

Finish(e) ==
    /\ worker[e].at = "loop" /\ worker[e].todo = {}
    /\ worker' = [worker EXCEPT ![e] = Idle]
    /\ status' = [status EXCEPT ![e] = Outcome(e)]
    /\ calm' = (Outcome(e) = "success" /\ e \notin shared \cup touched)
    /\ UNCHANGED <<tables, sent, shared, dead, touched, counts>>

-----------------------------------------------------------------------------
Run(e) == \/ List(e) \/ ListFails(e) \/ Save(e) \/ Pick(e) \/ Insert(e) \/ Map(e) \/ Finish(e)
          \/ \E i \in Instances: Look(e, i)

Next ==
    \/ \E i \in Instances: CloudChanges(i)
    \/ \E a \in Assets: Delete(a)
    \/ \E k \in Keyed: Request(k) \/ StartKeyed(k)
    \/ \E t \in Tasks: StartTask(t)
    \/ \E e \in Executions: Run(e) \/ Die(e)

Spec == Init /\ [][Next]_vars

-----------------------------------------------------------------------------
(* Properties *)

Mapped(a) == \E i \in Instances: mapping[i] = a

\* An asset that the synchronisation made and that no mapping names, which the
\* next execution will therefore make once more, was made by an execution that
\* ran beside another one or died, or its mapping is the next thing to be made.
LeftOver ==
    \A a \in Assets: row[a] # None /\ ~Mapped(a) =>
        \/ row[a].by \in shared \cup dead
        \/ worker[row[a].by].at = "map" /\ worker[row[a].by].asset = a

\* An execution that ends with success, beside no other and while nothing was
\* changed, leaves an asset with the address of every instance, and its name.
Succeeds(e) == status[e] # "success" /\ status'[e] = "success"

SuccessIsCurrent ==
    [][\A e \in Executions: Succeeds(e) /\ e \notin shared \cup touched =>
         \A i \in Instances: cloud[i] # None =>
           /\ mapping[i] # None
           /\ row[mapping[i]].addr = cloud[i].addr
           /\ row[mapping[i]].name \in {cloud[i].name, Suffixed(cloud[i].name, i)}]_vars

\* "tekrar senkronda duplicate olmaz (idempotent)" (cloud_sync/README.md): when
\* an execution succeeded and nothing was changed, the next one succeeds, unless
\* the provider fails.
RepeatSucceeds ==
    [][\A e \in Executions:
         /\ status[e] = "running" /\ status'[e] \in {"partial", "failed"}
         /\ faults' = faults
         => ~calm]_vars
=============================================================================
