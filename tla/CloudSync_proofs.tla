-------------------------- MODULE CloudSync_proofs --------------------------
(***************************************************************************)
(* Proofs about CloudSync, for any instances, names, assets, executions    *)
(* and bounds: the types, where an asset without a mapping may come from,  *)
(* that a success beside nothing else leaves the assets as the cloud, and  *)
(* when a repeated execution succeeds.                                     *)
(***************************************************************************)
EXTENDS CloudSync, TLAPS

USE CloudAssumption

\* What an execution that is at an instance knows of it.
PlacedAt(w) ==
    /\ \A i \in w.todo : w.seen[i] # None
    /\ w.at \in {"save", "pick", "insert", "map"} =>
         w.cur \in Instances /\ w.seen[w.cur] # None /\ w.seen[w.cur].addr # None
    /\ w.at \in {"save", "map"} => w.asset \in Assets
    /\ w.at \in {"insert", "map"} => w.name \in AllNames

Placed == \A e \in Executions : PlacedAt(worker[e])

\* An execution under way is "running", and its message is gone.
Started ==
    /\ \A e \in Executions : worker[e].at # "idle" => status[e] = "running"
    /\ \A k \in sent : status[k] = "pending"

\* Executions that are under way together have all noted it.
Apart ==
    \A e, f \in Executions :
        e # f /\ worker[e].at # "idle" /\ worker[f].at # "idle" => e \in shared

\* An execution alone that creates an asset does it for an instance that is
\* without one.
Fresh ==
    \A e \in Executions :
        worker[e].at \in {"pick", "insert", "map"} /\ e \notin shared
            => mapping[worker[e].cur] = None

\* A mapping has its asset, no other mapping has it, and none has that of
\* an execution about to make one.
OneEach ==
    /\ \A i \in Instances : mapping[i] # None => row[mapping[i]] # None
    /\ \A i, j \in Instances : i # j /\ mapping[i] # None => mapping[i] # mapping[j]
    /\ \A e \in Executions : worker[e].at = "map" => ~Mapped(worker[e].asset)
    /\ \A e, f \in Executions :
         e # f /\ worker[e].at = "map" /\ worker[f].at = "map"
             => worker[e].asset # worker[f].asset

Like(r, i) == /\ r # None /\ r.addr = cloud[i].addr
              /\ r.name \in {cloud[i].name, Suffixed(cloud[i].name, i)}

Current(i) == mapping[i] # None /\ Like(row[mapping[i]], i)

\* An execution beside which nothing happens has left behind it assets that
\* are as the cloud.
Going(e) ==
    LET w == worker[e] IN
      /\ w.seen = cloud
      /\ \A i \in Instances : cloud[i] # None =>
           \/ i \in w.todo \/ w.bad \/ Current(i)
           \/ w.at # "loop" /\ i = w.cur
      /\ w.at = "save" => /\ mapping[w.cur] = w.asset
                          /\ w.fields = Fields(row[w.asset], cloud[w.cur])
      /\ w.at = "insert" => w.name \in {cloud[w.cur].name, Suffixed(cloud[w.cur].name, w.cur)}
      /\ w.at = "map" => Like(row[w.asset], w.cur)

Follows ==
    \A e \in Executions :
        worker[e].at \notin {"idle", "list"} /\ e \notin shared \cup touched => Going(e)


-----------------------------------------------------------------------------

\* A property of every step is one of each action.
LEMMA StepCases ==
    ASSUME Next
    PROVE  \/ \E i \in Instances : CloudChanges(i)
           \/ \E a \in Assets : Delete(a)
           \/ \E k \in Keyed : Request(k) \/ StartKeyed(k)
           \/ \E t \in Tasks : StartTask(t)
           \/ \E e \in Executions : Die(e) \/ List(e) \/ ListFails(e) \/ Save(e) \/ Pick(e)
                                     \/ Insert(e) \/ Map(e) \/ Finish(e)
           \/ \E e \in Executions, i \in Instances : Look(e, i)
  BY DEF Next, Run

\* The types in three groups.
TablesOK == /\ cloud \in [Instances -> Machines \cup {None}]
            /\ row \in [Assets -> Rows \cup {None}]
            /\ mapping \in [Instances -> Assets \cup {None}]

WorkersOK == worker \in [Executions -> Workers] /\ Placed

RestOK == /\ status \in [Executions -> {"none", "pending", "running", "success", "partial",
                                         "failed"}]
          /\ sent \in SUBSET Keyed
          /\ shared \in SUBSET Executions /\ dead \in SUBSET Executions
          /\ touched \in SUBSET Executions /\ calm \in BOOLEAN
          /\ changes \in 0..MaxChanges /\ faults \in 0..MaxFaults

\* One worker is somewhere else.
LEMMA WorkerMoves ==
    ASSUME WorkersOK, NEW e \in Executions, NEW w \in Workers, PlacedAt(w),
           worker' = [worker EXCEPT ![e] = w]
    PROVE  WorkersOK'
  BY DEF WorkersOK, Placed, PlacedAt

\* The workers go where they should.
LEMMA WorkersStep ==
    ASSUME TablesOK, WorkersOK, [Next]_vars
    PROVE  WorkersOK'
  <1>0. CASE UNCHANGED worker
    BY <1>0 DEF WorkersOK, Placed, PlacedAt
  <1>1. ASSUME NEW e \in Executions, worker' = [worker EXCEPT ![e] = Idle] PROVE WorkersOK'
    <2>1. Idle \in Workers /\ PlacedAt(Idle)
      BY DEF Idle, Workers, PlacedAt
    <2> QED
      BY <1>1, <2>1, WorkerMoves
  <1>2. ASSUME NEW e \in Executions, worker' = [worker EXCEPT ![e].at = "list"] PROVE WorkersOK'
    <2> DEFINE w == [worker[e] EXCEPT !.at = "list"]
    <2>1. w \in Workers /\ PlacedAt(w)
      BY DEF WorkersOK, Workers, Placed, PlacedAt
    <2>2. worker' = [worker EXCEPT ![e] = w]
      BY <1>2 DEF WorkersOK
    <2> QED
      BY <2>1, <2>2, WorkerMoves
  <1>3. ASSUME NEW e \in Executions, List(e) PROVE WorkersOK'
    <2> DEFINE w == [worker[e] EXCEPT !.at = "loop", !.seen = cloud,
                                      !.todo = {i \in Instances: cloud[i] # None}]
    <2>0. worker[e] \in Workers /\ cloud \in [Instances -> Machines \cup {None}]
      BY DEF WorkersOK, TablesOK
    <2>1. w \in Workers /\ PlacedAt(w)
      BY <2>0 DEF Workers, PlacedAt
    <2>2. worker' = [worker EXCEPT ![e] = w]
      BY <1>3 DEF WorkersOK, List
    <2> QED
      BY <2>1, <2>2, WorkerMoves
  <1>4. ASSUME NEW e \in Executions, Done(e) \/ Failed(e) PROVE WorkersOK'
    <2>1. PICK w : /\ w \in {[worker[e] EXCEPT !.at = "loop", !.good = TRUE],
                            [worker[e] EXCEPT !.at = "loop", !.bad = TRUE]}
                   /\ worker' = [worker EXCEPT ![e] = w]
      BY <1>4 DEF Done, Failed, WorkersOK
    <2>2. w \in Workers /\ PlacedAt(w)
      BY <2>1 DEF WorkersOK, Workers, Placed, PlacedAt
    <2> QED
      BY <2>1, <2>2, WorkerMoves
  <1>5. ASSUME NEW e \in Executions, NEW i \in Instances, Look(e, i) PROVE WorkersOK'
    <2> DEFINE v == [worker[e] EXCEPT !.todo = @ \ {i}, !.cur = i]
               w == IF v.seen[i].addr = None THEN [v EXCEPT !.bad = TRUE]
                    ELSE IF mapping[i] = None THEN [v EXCEPT !.at = "pick"]
                    ELSE [v EXCEPT !.at = "save", !.asset = mapping[i],
                                   !.fields = Fields(row[mapping[i]], v.seen[i])]
    <2>0. worker[e] \in Workers /\ PlacedAt(worker[e]) /\ worker[e].at = "loop"
          /\ i \in worker[e].todo
      BY <1>5 DEF Look, WorkersOK, Placed
    <2>1. v \in Workers /\ v.cur = i /\ v.at = "loop" /\ v.seen[i] # None
          /\ \A j \in v.todo : v.seen[j] # None
      BY <2>0 DEF Workers, PlacedAt
    <2>2. mapping[i] \in Assets \cup {None}
          /\ Fields(row[mapping[i]], v.seen[i]) \in SUBSET {"name", "addr"}
      BY DEF TablesOK, Fields
    <2>3. w \in Workers /\ PlacedAt(w)
      <3> HIDE DEF v
      <3>1. CASE v.seen[i].addr = None
        BY <2>1, <3>1 DEF Workers, PlacedAt
      <3>2. CASE v.seen[i].addr # None /\ mapping[i] = None
        BY <2>1, <3>2 DEF Workers, PlacedAt
      <3>3. CASE v.seen[i].addr # None /\ mapping[i] # None
        BY <2>1, <2>2, <3>3 DEF Workers, PlacedAt
      <3> QED
        BY <3>1, <3>2, <3>3
    <2>4. worker' = [worker EXCEPT ![e] = w]
      BY <1>5 DEF Look
    <2> HIDE DEF w
    <2> QED
      BY <2>3, <2>4, WorkerMoves
  <1>6. ASSUME NEW e \in Executions, Pick(e) PROVE WorkersOK'
    <2>1. CASE Failed(e)
      BY <1>4, <2>1
    <2>2. CASE ~Failed(e)
      <3>1. PICK n \in {Seen(e).name, Suffixed(Seen(e).name, worker[e].cur)} :
              worker' = [worker EXCEPT ![e].at = "insert", ![e].name = n]
        BY <1>6, <2>2 DEF Pick
      <3> DEFINE w == [worker[e] EXCEPT !.at = "insert", !.name = n]
      <3>2. n \in AllNames
        BY <1>6 DEF Pick, Seen, WorkersOK, Workers, Placed, PlacedAt, Machines, AllNames
      <3>0. worker[e] \in Workers /\ PlacedAt(worker[e]) /\ worker[e].at = "pick"
        BY <1>6 DEF Pick, WorkersOK, Placed
      <3>3. w \in Workers /\ PlacedAt(w)
        BY <3>0, <3>2 DEF Workers, PlacedAt
      <3>4. worker' = [worker EXCEPT ![e] = w]
        BY <3>1 DEF WorkersOK
      <3> QED
        BY <3>3, <3>4, WorkerMoves
    <2> QED
      BY <2>1, <2>2
  <1>7. ASSUME NEW e \in Executions, Insert(e) PROVE WorkersOK'
    <2>1. CASE Failed(e)
      BY <1>4, <2>1
    <2>2. CASE ~Failed(e)
      <3>1. PICK a \in Assets : worker' = [worker EXCEPT ![e].at = "map", ![e].asset = a]
        BY <1>7, <2>2 DEF Insert
      <3> DEFINE w == [worker[e] EXCEPT !.at = "map", !.asset = a]
      <3>0. worker[e] \in Workers /\ PlacedAt(worker[e]) /\ worker[e].at = "insert"
        BY <1>7 DEF Insert, WorkersOK, Placed
      <3>2. w \in Workers /\ PlacedAt(w)
        BY <3>0 DEF Workers, PlacedAt
      <3>3. worker' = [worker EXCEPT ![e] = w]
        BY <3>1 DEF WorkersOK
      <3> QED
        BY <3>2, <3>3, WorkerMoves
    <2> QED
      BY <2>1, <2>2
  <1>8. ASSUME NEW e \in Executions, Save(e) \/ Map(e) PROVE WorkersOK'
    BY <1>8, <1>4 DEF Save, Map
  <1>9. ASSUME NEW e \in Executions, Die(e) \/ ListFails(e) \/ Finish(e) PROVE WorkersOK'
    BY <1>9, <1>1 DEF Die, ListFails, Finish
  <1>10. ASSUME NEW e \in Executions, Begin(e) PROVE WorkersOK'
    BY <1>10, <1>2 DEF Begin
  <1> QED
    BY StepCases, <1>0, <1>3, <1>5, <1>6, <1>7, <1>8, <1>9, <1>10
    DEF StartKeyed, StartTask, Executions, vars, CloudChanges, Delete, Request

\* What is saved of a row: whatever differed, and never who made it.
LEMMA SavedRow ==
    ASSUME NEW r \in Rows, NEW m \in Machines, m.addr # None, NEW fs \in SUBSET {"name", "addr"}
    PROVE  /\ Saved(r, m, fs) \in Rows
           /\ Saved(r, m, fs).by = r.by
           /\ fs = Fields(r, m) => Saved(r, m, fs).name = m.name /\ Saved(r, m, fs).addr = m.addr
  <1>1. m.name \in AllNames \cup Names /\ m.addr \in Addrs
    BY DEF Machines
  <1>2. m.name \in AllNames
    BY <1>1 DEF AllNames, Machines
  <1> QED
    BY <1>1, <1>2 DEF Saved, Rows, Fields

\* The tables hold rows of their types.
LEMMA TablesStep ==
    ASSUME TablesOK, WorkersOK, [Next]_vars
    PROVE  TablesOK'
  <1>0. CASE UNCHANGED tables
    BY <1>0 DEF TablesOK, tables
  <1>1. ASSUME NEW i \in Instances, CloudChanges(i) PROVE TablesOK'
    BY <1>1 DEF TablesOK, CloudChanges
  <1>2. ASSUME NEW a \in Assets, Delete(a) PROVE TablesOK'
    BY <1>2 DEF TablesOK, Delete
  <1>3. ASSUME NEW e \in Executions, Save(e) PROVE TablesOK'
    <2> DEFINE a == worker[e].asset
    <2>1. CASE UNCHANGED row
      BY <1>3, <2>1 DEF TablesOK, Save, Idem
    <2>2. CASE ~UNCHANGED row
      <3>1. a \in Assets /\ Seen(e) \in Machines /\ Seen(e).addr # None
        BY <1>3 DEF Save, WorkersOK, Placed, PlacedAt, Seen, Workers
      <3>2. row[a] \in Rows /\ row' = [row EXCEPT ![a] = Saved(row[a], Seen(e), worker[e].fields)]
        BY <1>3, <2>2, <3>1 DEF Save, Refused, TablesOK
      <3>3. Saved(row[a], Seen(e), worker[e].fields) \in Rows
        <4>1. worker[e].fields \in SUBSET {"name", "addr"}
          BY DEF WorkersOK, Workers
        <4> QED
          BY <3>1, <3>2, <4>1, SavedRow
      <3> QED
        BY <1>3, <3>1, <3>2, <3>3 DEF TablesOK, Save, Idem
    <2> QED
      BY <2>1, <2>2
  <1>4. ASSUME NEW e \in Executions, Insert(e) PROVE TablesOK'
    <2>1. /\ Seen(e) \in Machines /\ Seen(e).addr # None /\ worker[e].name \in AllNames
          /\ worker[e].at = "insert"
      BY <1>4 DEF Insert, WorkersOK, Placed, PlacedAt, Seen, Workers
    <2>2. [name |-> worker[e].name, addr |-> Seen(e).addr, by |-> e] \in Rows
      BY <2>1 DEF Rows, Machines
    <2> QED
      BY <1>4, <2>2 DEF Insert, TablesOK, Idem
  <1>5. ASSUME NEW e \in Executions, Map(e) PROVE TablesOK'
    <2>1. worker[e].asset \in Assets /\ worker[e].cur \in Instances
      BY <1>5 DEF Map, WorkersOK, Placed, PlacedAt
    <2> QED
      BY <1>5, <2>1 DEF Map, TablesOK, Idem
  <1> QED
    BY StepCases, <1>0, <1>1, <1>2, <1>3, <1>4, <1>5
    DEF StartKeyed, StartTask, Executions, vars, Request, Begin, Die, List, ListFails, Look, Pick,
        Finish, Idem, tables

\* The rest of the types.
LEMMA RestStep ==
    ASSUME RestOK, [Next]_vars
    PROVE  RestOK'
  <1>0. CASE UNCHANGED <<status, sent, past, counts>>
    BY <1>0 DEF RestOK, past, counts
  <1>1. Change => touched' = Executions /\ calm' \in BOOLEAN /\ changes' \in 0..MaxChanges
                  /\ faults' = faults
    <2>1. changes \in 0..MaxChanges /\ MaxChanges \in Nat
      BY DEF RestOK
    <2>2. changes < MaxChanges => changes + 1 \in 0..MaxChanges
      BY <2>1
    <2> QED
      BY <2>2 DEF Change
  <1>2. Fault => calm' \in BOOLEAN /\ faults' \in 0..MaxFaults /\ changes' = changes
    <2>1. faults \in 0..MaxFaults /\ MaxFaults \in Nat
      BY DEF RestOK
    <2>2. faults < MaxFaults => faults + 1 \in 0..MaxFaults
      BY <2>1
    <2> QED
      BY <2>2 DEF Fault
  <1>3. ASSUME \/ \E i \in Instances : CloudChanges(i)
               \/ \E a \in Assets : Delete(a)
        PROVE  RestOK'
    BY <1>1, <1>3 DEF RestOK, CloudChanges, Delete
  <1>4. ASSUME NEW e \in Executions, Begin(e), sent' \in SUBSET Keyed PROVE RestOK'
    BY <1>4 DEF RestOK, Begin, Active, counts
  <1>5. ASSUME NEW k \in Keyed, Request(k) PROVE RestOK'
    <2>1. status' \in [Executions -> {"none", "pending", "running", "success", "partial",
                                      "failed"}]
          /\ sent' \in SUBSET Keyed
      BY <1>5 DEF RestOK, Request
    <2> QED
      BY <1>2, <1>5, <2>1 DEF RestOK, Request, counts
  <1>6. ASSUME NEW e \in Executions, Die(e) \/ ListFails(e) PROVE RestOK'
    BY <1>2, <1>6 DEF RestOK, Die, ListFails
  <1>7. ASSUME NEW e \in Executions, Finish(e) PROVE RestOK'
    <2>1. Outcome(e) \in {"success", "partial", "failed"}
      BY DEF Outcome
    <2> QED
      BY <1>7, <2>1 DEF RestOK, Finish, counts
  <1>8. ASSUME NEW k \in Keyed, StartKeyed(k) PROVE RestOK'
    BY <1>8, <1>4 DEF RestOK, StartKeyed, Executions
  <1>9. ASSUME NEW t \in Tasks, StartTask(t) PROVE RestOK'
    BY <1>9, <1>4 DEF RestOK, StartTask, Executions
  <1> QED
    BY StepCases, <1>0, <1>3, <1>5, <1>6, <1>7, <1>8, <1>9
    DEF vars, List, Look, Save, Pick, Insert, Map, Idem

Typed == TablesOK /\ WorkersOK /\ RestOK

\* The types hold at first.
LEMMA TypesInit == Init => Typed
  <1> SUFFICES ASSUME Init PROVE Typed
    OBVIOUS
  <1>1. Idle \in Workers /\ PlacedAt(Idle)
    BY DEF Idle, Workers, PlacedAt
  <1>2. TablesOK
    BY DEF Init, TablesOK
  <1>3. WorkersOK
    BY <1>1 DEF Init, WorkersOK, Placed
  <1>4. RestOK
    <2>1. 0 \in 0..MaxChanges /\ 0 \in 0..MaxFaults
      BY MaxChanges \in Nat, MaxFaults \in Nat
    <2>2. [e \in Executions |-> "none"] \in [Executions -> {"none", "pending", "running",
                                             "success", "partial", "failed"}]
      OBVIOUS
    <2> QED
      BY <2>1, <2>2 DEF Init, RestOK
  <1> QED
    BY <1>2, <1>3, <1>4 DEF Typed

\* Types.
THEOREM Types == Spec => []TypeOK
  <1>1. Typed /\ [Next]_vars => Typed'
    BY TablesStep, WorkersStep, RestStep DEF Typed
  <1>2. Typed => TypeOK
    BY DEF Typed, TypeOK, TablesOK, WorkersOK, RestOK
  <1> QED
    BY <1>1, <1>2, TypesInit, PTL DEF Spec

-----------------------------------------------------------------------------

\* Executions under way are "running", and together only with a note of it.
LEMMA ApartStep ==
    ASSUME Typed, Started, Apart, [Next]_vars
    PROVE  Started' /\ Apart'
  <1> DEFINE P == Started /\ Apart
  <1>t. /\ worker \in [Executions -> Workers] /\ status \in [Executions -> {"none", "pending",
             "running", "success", "partial", "failed"}]
        /\ sent \in SUBSET Keyed /\ Keyed \subseteq Executions /\ Keyed \cap Tasks = {}
    BY DEF Typed, WorkersOK, RestOK, Executions
  <1>0. ASSUME UNCHANGED <<worker, status, sent, shared>> PROVE P'
    BY <1>0 DEF Started, Apart
  <1>1. ASSUME NEW k \in Keyed, Request(k) PROVE P'
    BY <1>1, <1>t DEF Started, Apart, Request
  <1>2. ASSUME NEW e \in Executions, Begin(e), sent' \subseteq sent, e \notin sent' PROVE P'
    <2>1. Started'
      BY <1>2, <1>t DEF Started, Begin
    <2>2. Apart'
      BY <1>2, <1>t DEF Apart, Begin, Active
    <2> QED
      BY <2>1, <2>2
  <1>3. ASSUME NEW e \in Executions, worker' = [worker EXCEPT ![e] = Idle], status[e] = "running",
               UNCHANGED <<sent, shared>>,
               \A f \in Executions : f # e => status'[f] = status[f]
        PROVE  P'
    BY <1>3, <1>t DEF Started, Apart, Idle
  <1>4. ASSUME NEW e \in Executions, worker[e].at # "idle", UNCHANGED <<status, sent, shared>>,
               \A f \in Executions : f # e => worker'[f] = worker[f]
        PROVE  P'
    BY <1>4, <1>t DEF Started, Apart
  <1>5. ASSUME NEW k \in Keyed, StartKeyed(k) PROVE P'
    BY <1>5, <1>2, <1>t DEF StartKeyed
  <1>6. ASSUME NEW t \in Tasks, StartTask(t) PROVE P'
    BY <1>6, <1>2, <1>t DEF StartTask, Executions
  <1>7. ASSUME NEW e \in Executions, Die(e) \/ ListFails(e) \/ Finish(e) PROVE P'
    BY <1>7, <1>3, <1>t DEF Die, ListFails, Finish, Started
  <1>8. ASSUME NEW e \in Executions,
               \/ List(e) \/ Save(e) \/ Pick(e) \/ Insert(e) \/ Map(e)
               \/ \E i \in Instances : Look(e, i)
        PROVE  P'
    <2>1. worker[e].at # "idle" /\ UNCHANGED <<status, sent, shared>>
      BY <1>8 DEF List, Save, Pick, Insert, Map, Look, Idem, past
    <2>2. \A f \in Executions : f # e => worker'[f] = worker[f]
      BY <1>8, <1>t DEF List, Save, Pick, Insert, Map, Look, Done, Failed
    <2> QED
      BY <1>4, <2>1, <2>2
  <1> QED
    BY StepCases, <1>0, <1>1, <1>5, <1>6, <1>7, <1>8
    DEF vars, CloudChanges, Delete, past

\* A mapping has an asset of its own.
LEMMA OneEachStep ==
    ASSUME Typed, OneEach, [Next]_vars
    PROVE  OneEach'
  <1>t. /\ worker \in [Executions -> Workers] /\ Placed
        /\ row \in [Assets -> Rows \cup {None}] /\ None \notin Rows /\ None \notin Assets
        /\ mapping \in [Instances -> Assets \cup {None}]
    BY DEF Typed, WorkersOK, TablesOK
  <1>0. ASSUME UNCHANGED <<row, mapping>>,
               \A e \in Executions : worker'[e].at = "map" => worker'[e] = worker[e]
        PROVE  OneEach'
    BY <1>0 DEF OneEach, Mapped
  <1>1. ASSUME NEW a \in Assets, Delete(a) PROVE OneEach'
    <2>1. UNCHANGED worker /\ \A b \in Assets : b # a => row'[b] = row[b]
      BY <1>1, <1>t DEF Delete
    <2>2. \A i \in Instances :
            mapping'[i] # None
              => mapping'[i] = mapping[i] /\ mapping[i] # a /\ mapping[i] \in Assets
      BY <1>1, <1>t DEF Delete
    <2>3. \A b : Mapped(b)' /\ b # None => Mapped(b)
      BY <2>2 DEF Mapped
    <2>4. \A e \in Executions : worker[e].at = "map" => worker[e].asset # None
      BY <1>t DEF Placed, PlacedAt
    <2> QED
      BY <2>1, <2>2, <2>3, <2>4 DEF OneEach
  <1>2. ASSUME NEW e \in Executions, Save(e) PROVE OneEach'
    <2>1. UNCHANGED mapping /\ \A b \in Assets : row[b] # None => row'[b] # None
      <3>1. worker[e].asset \in Assets /\ worker[e].at = "save"
            /\ Seen(e) \in Machines /\ Seen(e).addr # None
            /\ worker[e].fields \in SUBSET {"name", "addr"}
        BY <1>2, <1>t DEF Save, Placed, PlacedAt, Seen, Workers
      <3>2. row[worker[e].asset] # None
            => Saved(row[worker[e].asset], Seen(e), worker[e].fields) \in Rows
        BY <3>1, <1>t, SavedRow
      <3> QED
        BY <1>2, <1>t, <3>1, <3>2 DEF Save, Refused
    <2>2. worker'[e].at = "loop" /\ \A f \in Executions : f # e => worker'[f] = worker[f]
      BY <1>2, <1>t DEF Save, Done, Failed, Workers
    <2> QED
      BY <1>t, <2>1, <2>2 DEF OneEach, Mapped
  <1>3. ASSUME NEW e \in Executions, Insert(e), NEW a \in Assets, row[a] = None,
               \A f \in Executions : worker[f].asset # a,
               row' = [row EXCEPT ![a] = [name |-> worker[e].name, addr |-> Seen(e).addr,
                                          by |-> e]],
               worker' = [worker EXCEPT ![e].at = "map", ![e].asset = a]
        PROVE  OneEach'
    <2>1. UNCHANGED mapping /\ \A b \in Assets : row[b] # None => row'[b] # None
      BY <1>3, <1>t DEF Insert
    <2>2. ~Mapped(a)
      BY <1>3 DEF OneEach, Mapped
    <2>3. worker'[e].asset = a /\ \A f \in Executions : f # e => worker'[f] = worker[f]
      BY <1>3, <1>t DEF Workers
    <2> QED
      BY <1>3, <1>t, <2>1, <2>2, <2>3 DEF OneEach, Mapped
  <1>4. ASSUME NEW e \in Executions, Map(e) PROVE OneEach'
    <2>1. worker'[e].at = "loop" /\ \A f \in Executions : f # e => worker'[f] = worker[f]
      BY <1>4, <1>t DEF Map, Done, Failed, Workers
    <2>2. CASE UNCHANGED mapping
      BY <1>4, <2>1, <2>2 DEF OneEach, Mapped, Map
    <2>3. CASE ~UNCHANGED mapping
      <3> DEFINE a == worker[e].asset  i == worker[e].cur
      <3>1. /\ a \in Assets /\ i \in Instances /\ row[a] # None /\ ~Mapped(a)
            /\ mapping' = [mapping EXCEPT ![i] = a] /\ UNCHANGED row /\ worker[e].at = "map"
        BY <1>4, <1>t, <2>3 DEF Map, Placed, PlacedAt, OneEach
      <3> HIDE DEF a, i
      <3>2. \A f \in Executions : worker'[f].at = "map" => f # e /\ worker[f].asset # a
        BY <2>1, <3>1 DEF OneEach, a
      <3> QED
        BY <1>t, <2>1, <3>1, <3>2 DEF OneEach, Mapped
    <2> QED
      BY <2>2, <2>3
  <1>5. ASSUME NEW e \in Executions, Insert(e) PROVE OneEach'
    <2>1. CASE Failed(e) /\ UNCHANGED row
      BY <1>5, <1>t, <1>0, <2>1 DEF Failed, Insert, Workers
    <2> QED
      BY <1>5, <1>3, <2>1 DEF Insert
  <1>6. ASSUME NEW e \in Executions,
               Begin(e) \/ Die(e) \/ List(e) \/ ListFails(e) \/ Finish(e) \/ Pick(e)
        PROVE  OneEach'
    <2>1. UNCHANGED <<row, mapping>>
      BY <1>6 DEF Begin, Die, List, ListFails, Finish, Pick, tables
    <2>2. worker'[e].at # "map" /\ \A f \in Executions : f # e => worker'[f] = worker[f]
      BY <1>6, <1>t DEF Begin, Die, List, ListFails, Finish, Pick, Failed, Idle, Workers
    <2> QED
      BY <1>0, <2>1, <2>2
  <1>7. ASSUME NEW e \in Executions, NEW i \in Instances, Look(e, i) PROVE OneEach'
    <2>1. worker'[e].at # "map" /\ \A f \in Executions : f # e => worker'[f] = worker[f]
      BY <1>7, <1>t DEF Look, Workers
    <2> QED
      BY <1>0, <1>7, <2>1 DEF Look
  <1> QED
    BY StepCases, <1>0, <1>1, <1>2, <1>4, <1>5, <1>6, <1>7
    DEF vars, tables, CloudChanges, Request, StartKeyed, StartTask, Executions

\* An execution alone finds no mapping where it found none.
LEMMA FreshStep ==
    ASSUME Typed, Apart, Fresh, [Next]_vars
    PROVE  Fresh'
  <1>t. /\ worker \in [Executions -> Workers] /\ Placed
        /\ mapping \in [Instances -> Assets \cup {None}]
    BY DEF Typed, WorkersOK, TablesOK
  <1> DEFINE New(e) == worker[e].at \in {"pick", "insert", "map"}
  <1>0. ASSUME \A i \in Instances : mapping[i] = None => mapping'[i] = None,
               shared \subseteq shared',
               \A e \in Executions : New(e)' => New(e) /\ worker'[e].cur = worker[e].cur
        PROVE  Fresh'
    BY <1>0, <1>t DEF Fresh, Placed, PlacedAt
  <1>1. ASSUME NEW a \in Assets, Delete(a) PROVE Fresh'
    <2>1. \A i \in Instances : mapping[i] = None => mapping'[i] = None
      BY <1>1, <1>t DEF Delete
    <2> QED
      BY <1>0, <1>1, <2>1 DEF Delete
  <1>2. ASSUME NEW e \in Executions, Map(e) PROVE Fresh'
    <2>1. worker'[e].at = "loop" /\ \A f \in Executions : f # e => worker'[f] = worker[f]
      BY <1>2, <1>t DEF Map, Done, Failed, Workers
    <2>2. \A f \in Executions : f # e /\ New(f) => f \in shared
      BY <1>2 DEF Apart, Map
    <2> QED
      BY <1>2, <2>1, <2>2 DEF Fresh, Map, Idem, past
  <1>3. ASSUME NEW e \in Executions,
               Die(e) \/ List(e) \/ ListFails(e) \/ Save(e) \/ Pick(e) \/ Insert(e) \/ Finish(e)
        PROVE  Fresh'
    <2>1. UNCHANGED <<mapping, shared>>
      BY <1>3 DEF Die, List, ListFails, Save, Pick, Insert, Finish, tables, past, Idem
    <2>2. /\ \A f \in Executions : f # e => worker'[f] = worker[f]
          /\ New(e)' => New(e) /\ worker'[e].cur = worker[e].cur
      BY <1>3, <1>t
      DEF Die, List, ListFails, Save, Pick, Insert, Finish, Done, Failed, Idle, Workers
    <2> QED
      BY <1>0, <2>1, <2>2
  <1>4. ASSUME NEW e \in Executions, Begin(e) PROVE Fresh'
    <2>1. UNCHANGED mapping /\ shared \subseteq shared'
      BY <1>4 DEF Begin, tables
    <2>2. ~New(e)' /\ \A f \in Executions : f # e => worker'[f] = worker[f]
      BY <1>4, <1>t DEF Begin, Workers
    <2> QED
      BY <1>0, <2>1, <2>2
  <1>5. ASSUME NEW e \in Executions, NEW i \in Instances, Look(e, i) PROVE Fresh'
    <2>1. /\ \A f \in Executions : f # e => worker'[f] = worker[f]
          /\ New(e)' => worker'[e].cur = i /\ mapping[i] = None
      BY <1>5, <1>t DEF Look, Workers
    <2> QED
      BY <1>5, <2>1 DEF Fresh, Look, Idem, past
  <1> QED
    BY StepCases, <1>0, <1>1, <1>2, <1>3, <1>4, <1>5
    DEF vars, tables, past, CloudChanges, Request, StartKeyed, StartTask, Executions

\* Every step leaves over only what LeftOver says.
LEMMA LeftOverStep ==
    ASSUME Typed, Started, Apart, Fresh, OneEach, LeftOver, [Next]_vars
    PROVE  LeftOver'
  <1>t. /\ worker \in [Executions -> Workers] /\ Placed
        /\ row \in [Assets -> Rows \cup {None}] /\ None \notin Rows /\ None \notin Assets
        /\ mapping \in [Instances -> Assets \cup {None}]
        /\ \A a \in Assets : row[a] # None => row[a].by \in Executions
    BY DEF Typed, WorkersOK, TablesOK, Rows
  <1>0. ASSUME UNCHANGED mapping, shared \subseteq shared', dead \subseteq dead',
               \A a \in Assets : row'[a] # None => row[a] # None /\ row'[a].by = row[a].by,
               \A e \in Executions : worker[e].at = "map" => worker'[e] = worker[e] \/ e \in dead'
        PROVE  LeftOver'
    <2>1. \A a : Mapped(a)' = Mapped(a)
      BY <1>0 DEF Mapped
    <2> QED
      BY <1>0, <1>t, <2>1 DEF LeftOver
  <1>1. ASSUME NEW a \in Assets, Delete(a) PROVE LeftOver'
    <2>1. row'[a] = None /\ \A b \in Assets : b # a => row'[b] = row[b]
      BY <1>1, <1>t DEF Delete
    <2>2. \A b \in Assets : b # a /\ Mapped(b) => Mapped(b)'
      BY <1>1, <1>t DEF Delete, Mapped
    <2> QED
      BY <1>1, <2>1, <2>2 DEF LeftOver, Delete
  <1>2. ASSUME NEW e \in Executions, Save(e) PROVE LeftOver'
    <2>1. \A b \in Assets : row'[b] # None => row[b] # None /\ row'[b].by = row[b].by
      <3>1. worker[e].asset \in Assets /\ worker[e].at = "save"
            /\ Seen(e) \in Machines /\ Seen(e).addr # None
            /\ worker[e].fields \in SUBSET {"name", "addr"}
        BY <1>2, <1>t DEF Save, Placed, PlacedAt, Seen, Workers
      <3>2. row[worker[e].asset] # None
            => Saved(row[worker[e].asset], Seen(e), worker[e].fields).by = row[worker[e].asset].by
        BY <3>1, <1>t, SavedRow
      <3> QED
        BY <1>2, <1>t, <3>1, <3>2 DEF Save, Refused
    <2>2. worker[e].at = "save" /\ \A f \in Executions : f # e => worker'[f] = worker[f]
      BY <1>2, <1>t DEF Save, Done, Failed
    <2> QED
      BY <1>0, <1>2, <2>1, <2>2 DEF Save, Idem, past
  <1>3. ASSUME NEW e \in Executions, Insert(e), NEW a \in Assets, row[a] = None,
               row' = [row EXCEPT ![a] = [name |-> worker[e].name, addr |-> Seen(e).addr,
                                          by |-> e]],
               worker' = [worker EXCEPT ![e].at = "map", ![e].asset = a]
        PROVE  LeftOver'
    <2>1. UNCHANGED <<mapping, shared, dead>> /\ worker[e].at = "insert"
      BY <1>3 DEF Insert, Idem, past
    <2>2. row'[a].by = e /\ \A b \in Assets : b # a => row'[b] = row[b]
      BY <1>3, <1>t
    <2>3. /\ worker'[e].at = "map" /\ worker'[e].asset = a
          /\ \A f \in Executions : f # e => worker'[f] = worker[f]
      BY <1>3, <1>t DEF Workers
    <2> QED
      BY <2>1, <2>2, <2>3, <1>t DEF LeftOver, Mapped
  <1>4. ASSUME NEW e \in Executions, Insert(e) PROVE LeftOver'
    <2>1. CASE Failed(e) /\ UNCHANGED row
      BY <1>4, <1>t, <1>0, <2>1 DEF Failed, Insert, Idem, past
    <2> QED
      BY <1>4, <1>3, <2>1 DEF Insert
  <1>5. ASSUME NEW e \in Executions, Map(e) PROVE LeftOver'
    <2>0. PICK a \in Assets, i \in Instances : a = worker[e].asset /\ i = worker[e].cur
      BY <1>5, <1>t DEF Map, Placed, PlacedAt
    <2>1. worker[e].at = "map" /\ UNCHANGED <<row, shared, dead>>
      BY <1>5 DEF Map, Idem, past
    <2>2. \A f \in Executions : f # e => worker'[f] = worker[f]
      BY <1>5, <1>t DEF Map, Done, Failed
    <2>3. \A b \in Assets : Mapped(b) => Mapped(b)'
      BY <1>5, <1>t, <2>0, <2>1 DEF Map, Mapped
    <2>4. \/ row[a] = None \/ Mapped(a)' \/ e \in shared
      <3>1. CASE row[a] # None /\ mapping[i] = None
        <4>1. mapping' = [mapping EXCEPT ![i] = a]
          BY <1>5, <2>0, <3>1 DEF Map
        <4> QED
          BY <1>t, <4>1 DEF Mapped
      <3>2. CASE mapping[i] # None
        BY <2>0, <2>1, <3>2 DEF Fresh
      <3> QED
        BY <3>1, <3>2
    <2>5. \A b \in Assets : b # a => ~(worker[e].at = "map" /\ worker[e].asset = b)
      BY <2>0
    <2> SUFFICES ASSUME NEW b \in Assets, row[b] # None, ~Mapped(b)'
                 PROVE  \/ row[b].by \in shared \cup dead
                        \/ worker'[row[b].by].at = "map" /\ worker'[row[b].by].asset = b
      BY <2>1 DEF LeftOver
    <2>6. \/ row[b].by \in shared \cup dead
          \/ worker[row[b].by].at = "map" /\ worker[row[b].by].asset = b
      BY <2>3 DEF LeftOver
    <2>7. row[b].by \in Executions
      BY <1>t
    <2>8. CASE row[b].by = e
      BY <2>4, <2>5, <2>6, <2>8
    <2>9. CASE row[b].by # e
      BY <2>2, <2>6, <2>7, <2>9
    <2> QED
      BY <2>8, <2>9
  <1>6. ASSUME NEW e \in Executions,
               Die(e) \/ List(e) \/ ListFails(e) \/ Pick(e) \/ Finish(e)
        PROVE  LeftOver'
    <2>1. UNCHANGED <<row, mapping, shared>> /\ dead \subseteq dead'
      BY <1>6 DEF Die, List, ListFails, Pick, Finish, tables, past, Idem
    <2>2. \A f \in Executions : worker[f].at = "map" => worker'[f] = worker[f] \/ f \in dead'
      BY <1>6, <1>t DEF Die, List, ListFails, Pick, Finish, Failed
    <2> QED
      BY <1>0, <2>1, <2>2
  <1>7. ASSUME NEW e \in Executions, NEW i \in Instances, Look(e, i) PROVE LeftOver'
    <2>1. worker[e].at = "loop" /\ \A f \in Executions : f # e => worker'[f] = worker[f]
      BY <1>7, <1>t DEF Look
    <2> QED
      BY <1>0, <1>7, <2>1 DEF Look, Idem, past
  <1>8. ASSUME NEW e \in Executions, Begin(e), status[e] # "running" PROVE LeftOver'
    <2>1. UNCHANGED <<row, mapping, dead>> /\ shared \subseteq shared'
      BY <1>8 DEF Begin, tables
    <2>2. worker[e].at = "idle" /\ \A f \in Executions : f # e => worker'[f] = worker[f]
      BY <1>8, <1>t DEF Begin, Started
    <2> QED
      BY <1>0, <2>1, <2>2
  <1>9. ASSUME UNCHANGED <<row, mapping, worker, shared, dead>> PROVE LeftOver'
    BY <1>0, <1>9
  <1> QED
    <2>1. CASE UNCHANGED vars
      BY <1>9, <2>1 DEF vars, tables, past
    <2>2. ASSUME NEW i \in Instances, CloudChanges(i) PROVE LeftOver'
      BY <1>9, <2>2 DEF CloudChanges
    <2>3. ASSUME NEW k \in Keyed, Request(k) PROVE LeftOver'
      BY <1>9, <2>3 DEF Request, tables
    <2>4. ASSUME NEW k \in Keyed, StartKeyed(k) PROVE LeftOver'
      <3>1. k \in Executions /\ status[k] # "running" /\ Begin(k)
        BY <2>4 DEF StartKeyed, Started, Executions
      <3> QED
        BY <1>8, <3>1
    <2>5. ASSUME NEW k \in Tasks, StartTask(k) PROVE LeftOver'
      <3>1. k \in Executions /\ status[k] # "running" /\ Begin(k)
        BY <2>5 DEF StartTask, Executions
      <3> QED
        BY <1>8, <3>1
    <2> QED
      BY StepCases, <1>1, <1>2, <1>4, <1>5, <1>6, <1>7, <2>1, <2>2, <2>3, <2>4, <2>5

\* An execution beside which nothing happens goes on as it should.
LEMMA FollowsStep ==
    ASSUME Typed, Apart, OneEach, Follows, [Next]_vars
    PROVE  Follows'
  <1>t. /\ worker \in [Executions -> Workers] /\ Placed
        /\ cloud \in [Instances -> Machines \cup {None}]
        /\ row \in [Assets -> Rows \cup {None}] /\ None \notin Rows /\ None \notin Assets
        /\ mapping \in [Instances -> Assets \cup {None}]
    BY DEF Typed, WorkersOK, TablesOK
  <1> DEFINE On(e) == worker[e].at \notin {"idle", "list"}
             Alone(e) == e \notin shared \cup touched
  <1>0. ASSUME UNCHANGED tables, shared \subseteq shared',
               \A e \in Executions :
                 On(e)' => worker'[e] = worker[e] /\ (e \in touched => e \in touched')
        PROVE  Follows'
    BY <1>0 DEF Follows, Going, Current, Like, tables
  <1>1. ASSUME touched' = Executions PROVE Follows'
    BY <1>1 DEF Follows
  <1>2. ASSUME NEW e \in Executions, worker[e].at # "idle", UNCHANGED <<shared, touched>>,
               On(e)' /\ Alone(e) => Going(e)',
               \A f \in Executions : f # e => worker'[f] = worker[f]
        PROVE  Follows'
    BY <1>2 DEF Follows, Apart
  <1>3. ASSUME NEW e \in Executions, List(e) PROVE Follows'
    <2>1. /\ worker'[e].seen = cloud /\ worker'[e].todo = {i \in Instances: cloud[i] # None}
          /\ worker'[e].at = "loop"
          /\ \A f \in Executions : f # e => worker'[f] = worker[f]
      BY <1>3, <1>t DEF List, Workers
    <2>2. Going(e)'
      BY <1>3, <2>1 DEF List, Going, tables
    <2> QED
      BY <1>2, <1>3, <2>1, <2>2 DEF List, past
  <1>4. ASSUME NEW e \in Executions, NEW i \in Instances, Look(e, i) PROVE Follows'
    <2>1. /\ worker[e].at = "loop" /\ UNCHANGED <<tables, shared, touched>>
          /\ \A f \in Executions : f # e => worker'[f] = worker[f]
      BY <1>4, <1>t DEF Look, Idem, past, tables
    <2>2. ASSUME Going(e) PROVE Going(e)'
      <3>1. /\ worker'[e].seen = cloud /\ worker'[e].todo = worker[e].todo \ {i}
            /\ worker'[e].cur = i /\ worker[e].seen = cloud
            /\ worker'[e].bad = (worker[e].bad \/ cloud[i].addr = None)
        BY <1>4, <1>t, <2>2 DEF Look, Going, Workers
      <3>2. \/ worker'[e].at = "loop" /\ worker'[e].bad
            \/ worker'[e].at = "pick"
            \/ /\ worker'[e].at = "save" /\ worker'[e].asset = mapping[i]
               /\ worker'[e].fields = Fields(row[mapping[i]], cloud[i])
        BY <1>4, <1>t, <3>1 DEF Look, Workers
      <3> QED
        BY <2>1, <2>2, <3>1, <3>2 DEF Going, Current, Like, tables
    <2> QED
      BY <1>2, <2>1, <2>2 DEF Follows
  <1>5. ASSUME NEW e \in Executions, Failed(e), UNCHANGED <<tables, shared, touched>>, On(e)
        PROVE  Follows'
    <2>1. /\ worker'[e] = [worker[e] EXCEPT !.at = "loop", !.bad = TRUE]
          /\ worker[e] \in Workers
          /\ \A f \in Executions : f # e => worker'[f] = worker[f]
      BY <1>5, <1>t DEF Failed
    <2>2. worker'[e].bad /\ worker'[e].at = "loop" /\ worker'[e].seen = worker[e].seen
      BY <2>1 DEF Workers
    <2>3. Going(e) => Going(e)'
      BY <1>5, <2>2 DEF Going, tables
    <2> QED
      BY <1>2, <1>5, <2>1, <2>3 DEF Follows
  <1>6. ASSUME NEW e \in Executions, Save(e) PROVE Follows'
    <2>0. PICK a \in Assets, c \in Instances : a = worker[e].asset /\ c = worker[e].cur
      BY <1>6, <1>t DEF Save, Placed, PlacedAt
    <2>1. /\ worker[e].at = "save" /\ UNCHANGED <<cloud, mapping, shared, touched>>
          /\ worker[e].fields \in SUBSET {"name", "addr"}
          /\ Seen(e) \in Machines /\ Seen(e).addr # None
      BY <1>6, <1>t DEF Save, Placed, PlacedAt, Seen, Idem, past, Workers
    <2>2. CASE Failed(e) /\ UNCHANGED row
      BY <1>5, <2>1, <2>2 DEF tables
    <2>3. CASE Done(e) /\ (\/ UNCHANGED row /\ worker[e].fields = {}
                          \/ /\ worker[e].fields # {} /\ row[a] # None
                             /\ row' = [row EXCEPT ![a] = Saved(row[a], Seen(e), worker[e].fields)])
      <3>1. /\ worker'[e] = [worker[e] EXCEPT !.at = "loop", !.good = TRUE]
            /\ worker[e] \in Workers
            /\ \A f \in Executions : f # e => worker'[f] = worker[f]
        BY <2>3, <1>t DEF Done
      <3>2. /\ worker'[e].at = "loop" /\ worker'[e].seen = worker[e].seen
            /\ worker'[e].todo = worker[e].todo /\ worker'[e].bad = worker[e].bad
        BY <3>1 DEF Workers
      <3>3. \A b \in Assets : b # a => row'[b] = row[b]
        BY <2>3, <1>t
      <3>4. ASSUME Going(e) PROVE Going(e)'
        <4>1. /\ mapping[c] = a /\ Seen(e) = cloud[c]
              /\ worker[e].fields = Fields(row[a], cloud[c]) /\ row[a] # None
          BY <3>4, <2>0, <2>1, <1>t DEF Going, Seen, OneEach
        <4>2. row[a] \in Rows
          BY <4>1, <2>1, <1>t
        <4>3. row'[a] # None /\ row'[a].addr = cloud[c].addr /\ row'[a].name = cloud[c].name
          <5>1. CASE worker[e].fields = {}
            BY <2>3, <4>1, <5>1 DEF Fields
          <5>2. CASE worker[e].fields # {}
            BY <2>1, <2>3, <4>1, <4>2, <5>2, <1>t, SavedRow
          <5> QED
            BY <5>1, <5>2
        <4>4. Current(c)'
          BY <4>1, <4>3, <2>1, <1>t DEF Current, Like
        <4>5. \A i \in Instances : i # c /\ Current(i) => Current(i)'
          BY <2>1, <3>3, <4>1, <1>t DEF Current, Like, OneEach
        <4> QED
          BY <2>0, <2>1, <3>2, <3>4, <4>4, <4>5 DEF Going
      <3> QED
        BY <1>2, <2>1, <3>1, <3>4 DEF Follows
    <2> QED
      BY <1>6, <2>0, <2>2, <2>3 DEF Save, Refused
  <1>7. ASSUME NEW e \in Executions, Pick(e) PROVE Follows'
    <2>1. /\ worker[e].at = "pick" /\ UNCHANGED <<tables, shared, touched>>
      BY <1>7 DEF Pick, Idem, past, tables
    <2>2. CASE Failed(e)
      BY <1>5, <2>1, <2>2
    <2>3. CASE ~Failed(e)
      <3>1. PICK n \in {Seen(e).name, Suffixed(Seen(e).name, worker[e].cur)} :
              worker' = [worker EXCEPT ![e].at = "insert", ![e].name = n]
        BY <1>7, <2>3 DEF Pick
      <3>2. /\ worker'[e] = [worker[e] EXCEPT !.at = "insert", !.name = n]
            /\ worker[e] \in Workers
            /\ \A f \in Executions : f # e => worker'[f] = worker[f]
        BY <3>1, <1>t
      <3>3. /\ worker'[e].at = "insert" /\ worker'[e].name = n /\ worker'[e].seen = worker[e].seen
            /\ worker'[e].todo = worker[e].todo /\ worker'[e].bad = worker[e].bad
            /\ worker'[e].cur = worker[e].cur
        BY <3>2 DEF Workers
      <3>4. Going(e) => Going(e)'
        BY <2>1, <3>1, <3>3 DEF Going, Current, Like, Seen, tables
      <3> QED
        BY <1>2, <2>1, <3>2, <3>4 DEF Follows
    <2> QED
      BY <2>2, <2>3
  <1>8. ASSUME NEW e \in Executions, Insert(e) PROVE Follows'
    <2>1. /\ worker[e].at = "insert" /\ UNCHANGED <<cloud, mapping, shared, touched>>
      BY <1>8 DEF Insert, Idem, past
    <2>2. CASE Failed(e) /\ UNCHANGED row
      BY <1>5, <2>1, <2>2 DEF tables
    <2>3. ASSUME NEW a \in Assets, row[a] = None,
                 row' = [row EXCEPT ![a] = [name |-> worker[e].name, addr |-> Seen(e).addr,
                                            by |-> e]],
                 worker' = [worker EXCEPT ![e].at = "map", ![e].asset = a]
          PROVE  Follows'
      <3>1. /\ worker'[e] = [worker[e] EXCEPT !.at = "map", !.asset = a]
            /\ worker[e] \in Workers
            /\ \A f \in Executions : f # e => worker'[f] = worker[f]
        BY <2>3, <1>t
      <3>2. /\ worker'[e].at = "map" /\ worker'[e].asset = a /\ worker'[e].seen = worker[e].seen
            /\ worker'[e].todo = worker[e].todo /\ worker'[e].bad = worker[e].bad
            /\ worker'[e].cur = worker[e].cur
        BY <3>1 DEF Workers
      <3>3. /\ row'[a] = [name |-> worker[e].name, addr |-> Seen(e).addr, by |-> e]
            /\ \A b \in Assets : b # a => row'[b] = row[b]
        BY <2>3, <1>t
      <3>4. row'[a] # None
        <4>1. Seen(e) \in Machines /\ Seen(e).addr # None /\ worker[e].name \in AllNames
          BY <2>1, <1>t DEF Placed, PlacedAt, Seen, Workers
        <4> QED
          BY <3>3, <4>1 DEF Rows, Machines
      <3>5. \A i \in Instances : Current(i) => Current(i)'
        BY <2>1, <2>3, <3>3, <1>t DEF Current, Like
      <3>6. Going(e) => Going(e)'
        BY <2>1, <3>2, <3>3, <3>4, <3>5 DEF Going, Like, Seen
      <3> QED
        BY <1>2, <2>1, <3>1, <3>6 DEF Follows
    <2> QED
      BY <1>8, <2>2, <2>3 DEF Insert
  <1>9. ASSUME NEW e \in Executions, Map(e) PROVE Follows'
    <2>0. PICK a \in Assets, c \in Instances : a = worker[e].asset /\ c = worker[e].cur
      BY <1>9, <1>t DEF Map, Placed, PlacedAt
    <2>1. worker[e].at = "map" /\ UNCHANGED <<cloud, row, shared, touched>>
      BY <1>9 DEF Map, Idem, past
    <2>2. CASE Failed(e) /\ UNCHANGED mapping
      BY <1>5, <2>1, <2>2 DEF tables
    <2>3. CASE Done(e) /\ mapping[c] = None /\ mapping' = [mapping EXCEPT ![c] = a]
      <3>1. /\ worker'[e] = [worker[e] EXCEPT !.at = "loop", !.good = TRUE]
            /\ worker[e] \in Workers
            /\ \A f \in Executions : f # e => worker'[f] = worker[f]
        BY <2>3, <1>t DEF Done
      <3>2. /\ worker'[e].at = "loop" /\ worker'[e].seen = worker[e].seen
            /\ worker'[e].todo = worker[e].todo /\ worker'[e].bad = worker[e].bad
        BY <3>1 DEF Workers
      <3>3. \A i \in Instances : Current(i) => Current(i)'
        BY <2>1, <2>3, <1>t DEF Current, Like
      <3>4. Going(e) => Current(c)'
        BY <2>0, <2>1, <2>3, <1>t DEF Going, Current, Like
      <3>5. Going(e) => Going(e)'
        BY <2>0, <2>1, <3>2, <3>3, <3>4 DEF Going
      <3> QED
        BY <1>2, <2>1, <3>1, <3>5 DEF Follows
    <2> QED
      BY <1>9, <2>0, <2>2, <2>3 DEF Map
  <1>10. ASSUME NEW e \in Executions, Die(e) \/ ListFails(e) \/ Finish(e) PROVE Follows'
    <2>1. ~On(e)' /\ UNCHANGED <<tables, shared, touched>>
          /\ \A f \in Executions : f # e => worker'[f] = worker[f]
      BY <1>10, <1>t DEF Die, ListFails, Finish, Idle, tables
    <2> QED
      BY <1>0, <2>1
  <1>11. ASSUME NEW e \in Executions, Begin(e) PROVE Follows'
    <2>1. ~On(e)' /\ UNCHANGED tables /\ shared \subseteq shared' /\ touched' = touched \ {e}
          /\ \A f \in Executions : f # e => worker'[f] = worker[f]
      BY <1>11, <1>t DEF Begin, tables, Workers
    <2> QED
      BY <1>0, <2>1
  <1>12. ASSUME UNCHANGED <<tables, worker, shared, touched>> PROVE Follows'
    BY <1>0, <1>12
  <1>13. ASSUME \/ \E i \in Instances : CloudChanges(i)
                \/ \E a \in Assets : Delete(a)
         PROVE  Follows'
    BY <1>1, <1>13 DEF CloudChanges, Delete, Change
  <1> QED
    BY StepCases, <1>3, <1>4, <1>6, <1>7, <1>8, <1>9, <1>10, <1>11, <1>12, <1>13
    DEF vars, past, Request, StartKeyed, StartTask, Executions

\* The invariant.
Inv == Typed /\ Started /\ Apart /\ Fresh /\ OneEach /\ LeftOver /\ Follows

LEMMA Invariance == Spec => []Inv
  <1>1. Init => Inv
    <2> SUFFICES ASSUME Init PROVE Inv
      OBVIOUS
    <2>1. Typed
      BY TypesInit DEF Typed
    <2>2. \A e \in Executions : worker[e].at = "idle"
      BY DEF Init, Idle
    <2>3. Started /\ Apart /\ Fresh /\ Follows
      BY <2>2 DEF Init, Started, Apart, Fresh, Follows
    <2>4. OneEach /\ LeftOver
      BY <2>2 DEF Init, OneEach, LeftOver, Mapped
    <2> QED
      BY <2>1, <2>3, <2>4 DEF Inv
  <1>2. Inv /\ [Next]_vars => Inv'
    <2> SUFFICES ASSUME Inv, [Next]_vars PROVE Inv'
      OBVIOUS
    <2>1. Typed'
      BY TablesStep, WorkersStep, RestStep DEF Inv, Typed
    <2> QED
      BY <2>1, ApartStep, FreshStep, OneEachStep, LeftOverStep, FollowsStep DEF Inv
  <1> QED
    BY <1>1, <1>2, PTL DEF Spec

\* An asset that has no mapping was made by an execution that ran beside
\* another or died, or gets its mapping next.
THEOREM LeftOvers == Spec => []LeftOver
  <1>1. Inv => LeftOver
    BY DEF Inv
  <1> QED
    BY <1>1, Invariance, PTL

\* A success beside no other execution and no change leaves the assets as the
\* cloud has the instances.
THEOREM SuccessIsTrue == Spec => SuccessIsCurrent
  <1> DEFINE Shown == \A i \in Instances: cloud[i] # None =>
               /\ mapping[i] # None
               /\ row[mapping[i]].addr = cloud[i].addr
               /\ row[mapping[i]].name \in {cloud[i].name, Suffixed(cloud[i].name, i)}
             Step == \A e \in Executions: Succeeds(e) /\ e \notin shared \cup touched => Shown
  <1>1. ASSUME Inv, Next PROVE Step
    <2> SUFFICES ASSUME NEW e \in Executions, Succeeds(e), e \notin shared \cup touched
                 PROVE  Shown
      OBVIOUS
    <2>1. status \in [Executions -> {"none", "pending", "running", "success", "partial", "failed"}]
      BY <1>1 DEF Inv, Typed, RestOK
    <2>2. Finish(e)
      <3>0. status' # status /\ e \in Executions /\ status[e] # "success" /\ status'[e] = "success"
        BY DEF Succeeds
      <3>1. ASSUME NEW f \in Executions, Begin(f) \/ ListFails(f) PROVE FALSE
        BY <2>1, <3>0, <3>1 DEF Begin, ListFails
      <3>2. ASSUME NEW k \in Keyed, Request(k) PROVE FALSE
        BY <2>1, <3>0, <3>2 DEF Request
      <3>3. ASSUME NEW f \in Executions, Finish(f) PROVE f = e
        BY <2>1, <3>0, <3>3 DEF Finish
      <3>4. ASSUME NEW k \in Keyed, StartKeyed(k) PROVE FALSE
        BY <3>1, <3>4 DEF StartKeyed, Executions
      <3>5. ASSUME NEW k \in Tasks, StartTask(k) PROVE FALSE
        BY <3>1, <3>5 DEF StartTask, Executions
      <3>6. ASSUME NEW i \in Instances, CloudChanges(i) PROVE FALSE
        BY <3>0, <3>6 DEF CloudChanges
      <3>7. ASSUME NEW a \in Assets, Delete(a) PROVE FALSE
        BY <3>0, <3>7 DEF Delete
      <3>8. ASSUME NEW f \in Executions,
                   \/ Die(f) \/ List(f) \/ Save(f) \/ Pick(f) \/ Insert(f) \/ Map(f)
                   \/ \E i \in Instances : Look(f, i)
            PROVE  FALSE
        BY <3>0, <3>8 DEF Die, List, Look, Save, Pick, Insert, Map, Idem
      <3> QED
        BY <1>1, <3>1, <3>2, <3>3, <3>4, <3>5, <3>6, <3>7, <3>8, StepCases
    <2>3. worker[e].at = "loop" /\ worker[e].todo = {} /\ ~worker[e].bad
      BY <2>1, <2>2 DEF Finish, Succeeds, Outcome
    <2>4. Going(e)
      BY <1>1, <2>3 DEF Inv, Follows
    <2> QED
      BY <2>3, <2>4 DEF Going, Current, Like
  <1>2. ASSUME Inv, [Next]_vars PROVE [Step]_vars
    BY <1>1, <1>2
  <1> QED
    BY <1>2, Invariance, PTL DEF SuccessIsCurrent, Spec

-----------------------------------------------------------------------------
(* Repeated executions *)

\* No asset carries the name in the cloud with a suffix after it.
NoSuffix ==
    \A i \in Instances : mapping[i] # None /\ cloud[i] # None =>
        row[mapping[i]].name # Suffixed(cloud[i].name, i)

\* The asset of i has exactly the address and the name in the cloud.
Exact(i) ==
    /\ mapping[i] # None
    /\ row[mapping[i]].addr = cloud[i].addr /\ row[mapping[i]].name = cloud[i].name

\* An execution that finds everything as it should be.
Smooth(w) ==
    /\ w.at \in {"idle", "list", "loop", "save"} /\ ~w.bad
    /\ w.at \in {"loop", "save"} => w.seen = cloud
    /\ w.at = "save" => w.fields = {}

\* When nothing has happened since a success, executions find nothing to do.
Settled ==
    /\ \A e \in Executions : worker[e].at \in {"idle", "list"} => ~worker[e].bad
    /\ calm => /\ \A i \in Instances : cloud[i] # None => Exact(i)
               /\ \A e \in Executions : Smooth(worker[e])

LEMMA SettledStep ==
    ASSUME Inv, NoSuffix, Settled, [Next]_vars
    PROVE  Settled'
  <1>t. /\ worker \in [Executions -> Workers] /\ Placed
        /\ cloud \in [Instances -> Machines \cup {None}] /\ None \notin Addrs
        /\ row \in [Assets -> Rows \cup {None}] /\ None \notin Rows
        /\ mapping \in [Instances -> Assets \cup {None}]
    BY DEF Inv, Typed, WorkersOK, TablesOK
  <1>1. ASSUME ~calm', \A e \in Executions : \/ worker'[e] \in {worker[e], Idle}
                                             \/ worker'[e].at \notin {"idle", "list"}
        PROVE  Settled'
    BY <1>1 DEF Settled, Idle
  \* A step of one worker.
  <1>2. ASSUME NEW e \in Executions, UNCHANGED <<tables, calm>>,
               \A f \in Executions : f # e => worker'[f] = worker[f],
               worker'[e].at \in {"idle", "list"} => ~worker'[e].bad,
               calm => Smooth(worker[e])'
        PROVE  Settled'
    BY <1>2 DEF Settled, Exact, Smooth, tables
  <1>3. ASSUME NEW e \in Executions, Begin(e), worker[e].at = "idle" PROVE Settled'
    <2>1. /\ worker'[e] = [worker[e] EXCEPT !.at = "list"] /\ UNCHANGED <<tables, calm>>
          /\ \A f \in Executions : f # e => worker'[f] = worker[f]
      BY <1>3, <1>t DEF Begin
    <2>2. worker'[e].at = "list" /\ ~worker'[e].bad
      BY <1>3, <1>t, <2>1 DEF Settled, Workers
    <2> QED
      BY <1>2, <2>1, <2>2 DEF Smooth
  <1>4. ASSUME NEW e \in Executions, List(e) PROVE Settled'
    <2>1. /\ worker'[e].at = "loop" /\ worker'[e].seen = cloud
          /\ worker'[e].bad = worker[e].bad
          /\ UNCHANGED <<tables, calm>>
          /\ \A f \in Executions : f # e => worker'[f] = worker[f]
      BY <1>4, <1>t DEF List, Workers, past
    <2> QED
      BY <1>2, <2>1 DEF Settled, Smooth, tables
  <1>5. ASSUME NEW e \in Executions, NEW i \in Instances, Look(e, i) PROVE Settled'
    <2>1. /\ worker[e].at = "loop" /\ UNCHANGED <<tables, calm>>
          /\ worker'[e].at \notin {"idle", "list"}
          /\ \A f \in Executions : f # e => worker'[f] = worker[f]
      BY <1>5, <1>t DEF Look, Idem, past, tables, Workers
    <2>2. ASSUME calm PROVE Smooth(worker[e])'
      <3>1. /\ worker[e].seen = cloud /\ ~worker[e].bad
            /\ i \in worker[e].todo /\ cloud[i] # None
        BY <1>5, <1>t, <2>1, <2>2 DEF Look, Settled, Smooth, Placed, PlacedAt
      <3>2. /\ mapping[i] # None /\ row[mapping[i]] # None
            /\ row[mapping[i]].addr = cloud[i].addr /\ row[mapping[i]].name = cloud[i].name
        BY <2>2, <3>1 DEF Settled, Exact, Inv, OneEach
      <3>3. cloud[i].addr # None /\ Fields(row[mapping[i]], cloud[i]) = {}
        BY <1>t, <3>2 DEF Rows, Fields
      <3>4. /\ worker'[e].at = "save" /\ worker'[e].seen = cloud /\ ~worker'[e].bad
            /\ worker'[e].fields = {}
        BY <1>5, <1>t, <3>1, <3>2, <3>3 DEF Look, Workers
      <3> QED
        BY <2>1, <3>4 DEF Smooth, tables
    <2> QED
      BY <1>2, <2>1, <2>2
  <1>6. ASSUME NEW e \in Executions, Save(e) PROVE Settled'
    <2>1. /\ \A f \in Executions : f # e => worker'[f] = worker[f]
          /\ worker'[e].at = "loop" /\ worker'[e].seen = worker[e].seen
          /\ calm' = calm /\ worker[e].at = "save"
      BY <1>6, <1>t DEF Save, Done, Failed, Idem, past, Workers
    <2>2. CASE calm
      <3>1. worker[e].fields = {} /\ worker[e].seen = cloud /\ ~worker[e].bad
        BY <2>1, <2>2 DEF Settled, Smooth
      <3>2. Done(e) /\ UNCHANGED tables
        BY <1>6, <3>1 DEF Save, Refused, Idem, tables
      <3>3. worker'[e].bad = worker[e].bad
        BY <1>t, <3>2 DEF Done, Workers
      <3> QED
        BY <1>2, <2>1, <3>1, <3>2, <3>3 DEF Smooth, tables
    <2>3. CASE ~calm
      BY <1>1, <2>1, <2>3
    <2> QED
      BY <2>2, <2>3
  <1>7. ASSUME NEW e \in Executions, Pick(e) \/ Insert(e) \/ Map(e) PROVE Settled'
    <2>1. ~calm
      BY <1>7 DEF Pick, Insert, Map, Settled, Smooth
    <2>2. /\ calm' = calm /\ worker'[e].at \notin {"idle", "list"}
          /\ \A f \in Executions : f # e => worker'[f] = worker[f]
      <3>1. CASE Pick(e)
        BY <1>t, <3>1 DEF Pick, Failed, Idem, past, Workers
      <3>2. CASE Insert(e)
        BY <1>t, <3>2 DEF Insert, Failed, Idem, past, Workers
      <3>3. CASE Map(e)
        BY <1>t, <3>3 DEF Map, Done, Failed, Idem, past, Workers
      <3> QED
        BY <1>7, <3>1, <3>2, <3>3
    <2> QED
      BY <1>1, <2>1, <2>2
  <1>8. ASSUME NEW e \in Executions, Finish(e) PROVE Settled'
    <2>1. /\ worker[e].at = "loop" /\ worker[e].todo = {} /\ UNCHANGED tables
          /\ worker' = [worker EXCEPT ![e] = Idle]
          /\ calm' = (Outcome(e) = "success" /\ e \notin shared \cup touched)
      BY <1>8 DEF Finish
    <2>2. CASE ~calm'
      BY <1>1, <1>t, <2>1, <2>2
    <2>3. CASE calm'
      <3>1. ~worker[e].bad /\ e \notin shared \cup touched
        BY <2>1, <2>3 DEF Outcome
      <3>2. Going(e)
        BY <2>1, <3>1 DEF Inv, Follows
      <3>3. \A i \in Instances : cloud[i] # None => Exact(i)
        BY <2>1, <3>1, <3>2 DEF Going, Current, Like, NoSuffix, Exact
      <3>4. \A f \in Executions : worker'[f].at = "idle" /\ ~worker'[f].bad
        <4>1. \A f \in Executions : f # e => worker[f].at = "idle"
          BY <2>1, <3>1 DEF Inv, Apart
        <4> QED
          BY <1>t, <2>1, <4>1 DEF Settled, Idle
      <3> QED
        BY <2>1, <3>3, <3>4 DEF Settled, Smooth, Exact, tables
    <2> QED
      BY <2>2, <2>3
  <1>9. ASSUME NEW e \in Executions, Die(e) \/ ListFails(e) PROVE Settled'
    <2>1. ~calm' /\ worker' = [worker EXCEPT ![e] = Idle]
      BY <1>9 DEF Die, ListFails, Fault
    <2> QED
      BY <1>1, <1>t, <2>1
  <1>10. ASSUME \/ \E i \in Instances : CloudChanges(i)
                \/ \E a \in Assets : Delete(a)
         PROVE  Settled'
    BY <1>1, <1>10 DEF CloudChanges, Delete, Change
  <1>11. ASSUME NEW k \in Keyed, Request(k) PROVE Settled'
    <2>1. UNCHANGED <<tables, worker>> /\ (calm' = calm \/ ~calm')
      BY <1>11 DEF Request, Fault
    <2>2. CASE ~calm'
      BY <1>1, <2>1, <2>2
    <2>3. CASE calm' = calm
      BY <2>1, <2>3 DEF Settled, Exact, Smooth, tables
    <2> QED
      BY <2>1, <2>2, <2>3
  <1>12. ASSUME NEW k \in Keyed, StartKeyed(k) PROVE Settled'
    <2>1. k \in Executions /\ worker[k].at = "idle"
      BY <1>12 DEF StartKeyed, Executions, Inv, Started
    <2> QED
      BY <1>3, <1>12, <2>1 DEF StartKeyed
  <1>13. ASSUME NEW t \in Tasks, StartTask(t) PROVE Settled'
    <2>1. t \in Executions /\ worker[t].at = "idle"
      BY <1>13 DEF StartTask, Executions, Inv, Started
    <2> QED
      BY <1>3, <1>13, <2>1 DEF StartTask
  <1>14. CASE UNCHANGED vars
    BY <1>14 DEF vars, past, tables, Settled, Exact, Smooth
  <1> QED
    BY StepCases, <1>4, <1>5, <1>6, <1>7, <1>8, <1>9, <1>10, <1>11, <1>12, <1>13, <1>14

\* A synchronisation that is repeated while nothing changes succeeds, however
\* executions overlap and die before, unless an earlier one had to put a suffix
\* after the name of an asset: the one way in which "idempotent" fails
\* (cloud_sync/sync.py, _create_asset and _run_sync).
THEOREM RepeatsSucceed == Spec /\ []NoSuffix => RepeatSucceeds
  <1>1. Init => Settled
    BY DEF Init, Settled, Idle
  <1> DEFINE Step == \A e \in Executions :
               /\ status[e] = "running" /\ status'[e] \in {"partial", "failed"}
               /\ faults' = faults
               => ~calm
  <1>2. ASSUME Inv, Settled, Next PROVE Step
    <2> SUFFICES ASSUME NEW e \in Executions, status[e] = "running",
                        status'[e] \in {"partial", "failed"}, faults' = faults
                 PROVE  ~calm
      OBVIOUS
    <2>0. /\ status \in [Executions -> {"none", "pending", "running", "success", "partial",
                                        "failed"}]
          /\ faults \in Nat
      BY <1>2 DEF Inv, Typed, RestOK
    <2>1. ~Fault
      BY <2>0 DEF Fault
    <2>2. Finish(e)
      <3>1. ASSUME NEW f \in Executions, Begin(f) PROVE FALSE
        BY <2>0, <3>1 DEF Begin
      <3>2. ASSUME NEW f \in Executions, Die(f) \/ ListFails(f) PROVE FALSE
        BY <2>1, <3>2 DEF Die, ListFails
      <3>3. ASSUME NEW k \in Keyed, Request(k) PROVE FALSE
        BY <2>0, <3>3 DEF Request
      <3>4. ASSUME NEW f \in Executions, Finish(f) PROVE f = e
        BY <2>0, <3>4 DEF Finish
      <3>5. status' # status
        OBVIOUS
      <3> QED
        BY <1>2, StepCases, <3>1, <3>2, <3>3, <3>4, <3>5
        DEF StartKeyed, StartTask, Executions, CloudChanges, Delete, List, Save, Pick, Insert,
            Map, Look, Idem
    <2>3. status'[e] = Outcome(e)
      BY <2>0, <2>2 DEF Finish
    <2> QED
      BY <1>2, <2>2, <2>3 DEF Finish, Outcome, Settled, Smooth
  <1>3. ASSUME Inv, Settled, [Next]_vars PROVE [Step]_vars
    BY <1>2, <1>3
  <1> QED
    BY <1>1, <1>3, SettledStep, Invariance, PTL DEF RepeatSucceeds, Spec
=============================================================================
