--------------------------- MODULE PermTree_proofs ---------------------------
(***************************************************************************)
(* Proofs about PermTree, for any number of organizations, requests,       *)
(* changes and faults, and for both settings of ASSET_SIZE.                *)
(***************************************************************************)
EXTENDS PermTree, TLAPS

IInv == TypeOK /\ HolderOnly /\ RowsBetween

USE DEF Versions, Refresh

LEMMA IdleFacts ==
    /\ NoRows \in [Orgs -> Versions] /\ \A o \in Orgs : NoRows[o] = 0
    /\ Idle \in Refresh /\ Idle.pc = "idle" /\ Idle.rows = NoRows
<1>1. NoRows \in [Orgs -> Versions] /\ \A o \in Orgs : NoRows[o] = 0
  BY PermTreeAssumption DEF NoRows
<1> QED
  BY <1>1 DEF Idle

LEMMA InitIInv == Init => IInv
<1> SUFFICES ASSUME Init PROVE IInv
  OBVIOUS
<1>1. TypeOK
  <2>1. perm \in [Orgs -> [v: Versions, any: BOOLEAN]]
    BY PermTreeAssumption DEF Init
  <2>2. faults \in 0..MaxFaults
    BY PermTreeAssumption DEF Init
  <2> QED
    BY <2>1, <2>2, IdleFacts, PermTreeAssumption DEF Init, TypeOK
<1>2. HolderOnly
  BY PermTreeAssumption, IdleFacts DEF Init, HolderOnly
<1>3. RowsBetween
  <2>1. \A r \in Requests, o \in Orgs : req[r].rows[o] = 0
    BY IdleFacts DEF Init
  <2>2. \A o \in Orgs : tree[o] = 0 /\ perm[o].v = 1
    BY IdleFacts DEF Init
  <2>3. \A o \in Orgs : tree[o] <= perm[o].v
    <3> TAKE o \in Orgs
    <3>1. tree[o] = 0 /\ perm[o].v = 1
      BY <2>2
    <3> QED
      BY <3>1
  <2> QED
    BY <2>1, <2>3 DEF RowsBetween
<1> QED
  BY <1>1, <1>2, <1>3 DEF IInv

\* What the rows of a committing holder do to the tree.
LEMMA StoredRows ==
    ASSUME IInv, NEW r \in Requests
    PROVE  /\ Stored(req[r].rows) \in [Orgs -> Versions]
           /\ \A o \in Orgs : /\ tree[o] <= Stored(req[r].rows)[o]
                              /\ Stored(req[r].rows)[o] <= perm[o].v
  BY DEF IInv, TypeOK, RowsBetween, Stored

LEMMA NextIInv == IInv /\ [Next]_vars => IInv'
<1> SUFFICES ASSUME IInv, [Next]_vars PROVE IInv'
  OBVIOUS
<1> USE PermTreeAssumption
<1>1. ASSUME NEW o \in Orgs, NEW any \in BOOLEAN, Change(o, any)
      PROVE  IInv'
  <2>1. TypeOK'
    BY <1>1 DEF IInv, TypeOK, Change
  <2>2. HolderOnly'
    BY <1>1 DEF IInv, HolderOnly, Change
  <2>3. RowsBetween'
    BY <1>1 DEF IInv, TypeOK, RowsBetween, Change
  <2> QED
    BY <2>1, <2>2, <2>3 DEF IInv
<1>2. ASSUME NEW o \in Orgs, Lapse(o)
      PROVE  IInv'
  <2>1. TypeOK'
    BY <1>2 DEF IInv, TypeOK, Lapse
  <2>2. HolderOnly'
    BY <1>2 DEF IInv, HolderOnly, Lapse
  <2>3. RowsBetween'
    BY <1>2 DEF IInv, TypeOK, RowsBetween, Lapse
  <2> QED
    BY <2>1, <2>2, <2>3 DEF IInv
<1>3. ASSUME NEW o \in Orgs, Expire(o) \/ HookLost(o)
      PROVE  IInv'
  BY <1>3 DEF IInv, TypeOK, HolderOnly, RowsBetween, Expire, HookLost
<1>4. CASE CheckExpired \/ TimeForgotten
  <2>1. CASE CheckExpired
    BY <2>1 DEF IInv, TypeOK, HolderOnly, RowsBetween, CheckExpired
  <2>2. CASE TimeForgotten
    <3>1. TypeOK'
      BY <2>2 DEF IInv, TypeOK, TimeForgotten
    <3> QED
      BY <2>2, <3>1 DEF IInv, HolderOnly, RowsBetween, TimeForgotten
  <2> QED
    BY <1>4, <2>1, <2>2
<1>5. ASSUME NEW r \in Requests, NEW force \in BOOLEAN, Ask(r, force)
      PROVE  IInv'
  <2>1. TypeOK'
    <3>1. [Idle EXCEPT !.pc = "perform",
                       !.orgs = IF force THEN Orgs ELSE Orgs \ built] \in Refresh
      BY IdleFacts
    <3> QED
      BY <1>5, <3>1 DEF IInv, TypeOK, Ask
  <2>2. HolderOnly'
    BY <1>5 DEF IInv, TypeOK, HolderOnly, Ask, Idle
  <2>3. RowsBetween'
    BY <1>5 DEF IInv, TypeOK, HolderOnly, RowsBetween, Ask, Idle, NoRows
  <2> QED
    BY <2>1, <2>2, <2>3 DEF IInv
<1>6. ASSUME NEW r \in Requests, Acquire(r)
      PROVE  IInv'
  <2>0. ~ lock = r
    BY <1>6, IdleFacts DEF IInv, HolderOnly, Acquire
  <2>1. TypeOK'
    <3>1. req[r] \in Refresh
      BY DEF IInv, TypeOK
    <3>2. [req[r] EXCEPT !.pc = "build", !.todo = req[r].orgs] \in Refresh
      BY <3>1
    <3>3. req' \in [Requests -> Refresh]
      BY <1>6, <3>2, IdleFacts DEF IInv, TypeOK, Acquire
    <3>4. built_time' \in BOOLEAN
      BY <1>6, Zenon DEF Acquire
    <3>5. lock' \in Requests \cup {None, Orphan}
      BY <1>6 DEF IInv, TypeOK, Acquire
    <3> QED
      BY <1>6, <3>3, <3>4, <3>5 DEF IInv, TypeOK, Acquire
  <2>2. HolderOnly'
    BY <1>6, <2>0, IdleFacts DEF IInv, TypeOK, HolderOnly, Acquire
  <2>3. RowsBetween'
    <3>1. ASSUME NEW q \in Requests, NEW o \in Orgs, req'[q].rows[o] # 0
          PROVE  req[q].rows[o] # 0 /\ req'[q].rows[o] = req[q].rows[o] /\ lock' = lock
      <4>1. req[q].rows[o] # 0 /\ req'[q].rows[o] = req[q].rows[o]
        <5>1. \/ req' = [req EXCEPT ![r].pc = "build", ![r].todo = req[r].orgs]
              \/ req' = [req EXCEPT ![r] = Idle]
          BY <1>6, Zenon DEF Acquire
        <5>2. req \in [Requests -> Refresh]
          BY DEF IInv, TypeOK
        <5>3. CASE req' = [req EXCEPT ![r].pc = "build", ![r].todo = req[r].orgs]
          <6>1. req'[q].rows = req[q].rows
            BY <5>2, <5>3
          <6> QED
            BY <3>1, <6>1
        <5>4. CASE req' = [req EXCEPT ![r] = Idle]
          <6>1. q # r
            BY <3>1, <5>2, <5>4, IdleFacts
          <6>2. req'[q] = req[q]
            BY <5>2, <5>4, <6>1
          <6> QED
            BY <3>1, <6>2
        <5> QED
          BY <5>1, <5>3, <5>4
      <4>2. lock = q
        BY <4>1 DEF IInv, RowsBetween
      <4>3. lock # None
        BY <4>2, PermTreeAssumption
      <4>4. lock' = lock
        BY <1>6, <4>3 DEF Acquire
      <4> QED
        BY <4>1, <4>4
    <3> QED
      BY <1>6, <3>1 DEF IInv, RowsBetween, Acquire
  <2> QED
    BY <2>1, <2>2, <2>3 DEF IInv
<1>7. ASSUME NEW r \in Requests, NEW o \in Orgs, Build(r, o)
      PROVE  IInv'
  <2>1. lock = r
    BY <1>7 DEF IInv, HolderOnly, Build
  <2>2. TypeOK'
    <3>1. req[r] \in Refresh /\ perm[o].v \in Versions
      BY DEF IInv, TypeOK
    <3>2. [req[r] EXCEPT !.todo = @ \ {o}, !.rows[o] = perm[o].v] \in Refresh
      BY <3>1
    <3> QED
      BY <1>7, <3>2 DEF IInv, TypeOK, Build
  <2>3. HolderOnly'
    BY <1>7 DEF IInv, TypeOK, HolderOnly, Build
  <2>4. RowsBetween'
    BY <1>7, <2>1 DEF IInv, TypeOK, RowsBetween, Build
  <2> QED
    BY <2>2, <2>3, <2>4 DEF IInv
<1>8. ASSUME NEW r \in Requests, CommitOrg(r)
      PROVE  IInv'
  <2>1. lock = r
    BY <1>8, IdleFacts DEF IInv, HolderOnly, CommitOrg
  <2>2. TypeOK'
    BY <1>8, StoredRows, IdleFacts DEF IInv, TypeOK, CommitOrg
  <2>3. HolderOnly'
    BY <1>8, IdleFacts DEF IInv, TypeOK, HolderOnly, CommitOrg
  <2>4. RowsBetween'
    BY <1>8, <2>1, StoredRows, IdleFacts DEF IInv, TypeOK, RowsBetween, CommitOrg
  <2> QED
    BY <2>2, <2>3, <2>4 DEF IInv
<1>9. ASSUME NEW r \in Requests, Mark(r)
      PROVE  IInv'
  <2>1. lock = r
    BY <1>9, IdleFacts DEF IInv, HolderOnly, Mark
  <2>2. TypeOK'
    <3>1. [req[r] EXCEPT !.pc = "marked"] \in Refresh
      BY DEF IInv, TypeOK
    <3>2. req[r].orgs \subseteq Orgs
      BY DEF IInv, TypeOK
    <3>3. req' = [req EXCEPT ![r].pc = "marked"] \/ req' = [req EXCEPT ![r] = Idle]
      BY <1>9, Zenon DEF Mark
    <3>4. req' \in [Requests -> Refresh]
      <4>1. req \in [Requests -> Refresh]
        BY DEF IInv, TypeOK
      <4>2. CASE req' = [req EXCEPT ![r].pc = "marked"]
        BY <4>1, <4>2, <3>1
      <4>3. CASE req' = [req EXCEPT ![r] = Idle]
        BY <4>1, <4>3, IdleFacts
      <4> QED
        BY <3>3, <4>2, <4>3
    <3>5. lock' = lock \/ lock' = None
      BY <1>9, Zenon DEF Mark
    <3> QED
      BY <1>9, <3>2, <3>4, <3>5 DEF IInv, TypeOK, Mark
  <2>3. HolderOnly'
    BY <1>9, <2>1, IdleFacts DEF IInv, TypeOK, HolderOnly, Mark
  <2>4. RowsBetween'
    <3>1. CASE small
      BY <1>9, <2>1, <3>1 DEF IInv, TypeOK, RowsBetween, Mark
    <3>2. CASE ~small
      <4>1. req' = [req EXCEPT ![r] = Idle] /\ UNCHANGED <<tree, perm>>
        BY <1>9, <3>2 DEF Mark
      <4>2. \A q \in Requests, o \in Orgs : req'[q].rows[o] = 0
        BY <2>1, <4>1, IdleFacts DEF IInv, TypeOK, RowsBetween
      <4> QED
        BY <4>1, <4>2 DEF IInv, RowsBetween
    <3> QED
      BY <3>1, <3>2
  <2> QED
    BY <2>2, <2>3, <2>4 DEF IInv
<1>10. ASSUME NEW r \in Requests, Commit(r)
       PROVE  IInv'
  <2>1. lock = r
    BY <1>10, IdleFacts DEF IInv, HolderOnly, Commit
  <2>2. TypeOK'
    BY <1>10, StoredRows, IdleFacts DEF IInv, TypeOK, Commit
  <2>3. HolderOnly'
    BY <1>10, <2>1, IdleFacts DEF IInv, TypeOK, HolderOnly, Commit
  <2>4. RowsBetween'
    BY <1>10, <2>1, StoredRows, IdleFacts DEF IInv, TypeOK, RowsBetween, Commit
  <2> QED
    BY <2>2, <2>3, <2>4 DEF IInv
<1>11. ASSUME NEW r \in Requests, Fail(r)
       PROVE  IInv'
  <2>2. TypeOK'
    BY <1>11, IdleFacts DEF IInv, TypeOK, Fail
  <2>3. HolderOnly'
    BY <1>11, IdleFacts DEF IInv, TypeOK, HolderOnly, Fail
  <2>4. RowsBetween'
    BY <1>11, IdleFacts DEF IInv, TypeOK, RowsBetween, Fail
  <2> QED
    BY <2>2, <2>3, <2>4 DEF IInv
<1>12. CASE LockExpires
  <2>1. TypeOK'
    BY <1>12 DEF IInv, TypeOK, LockExpires
  <2>2. HolderOnly'
    BY <1>12 DEF IInv, TypeOK, HolderOnly, LockExpires
  <2>3. RowsBetween'
    BY <1>12 DEF IInv, TypeOK, RowsBetween, LockExpires
  <2> QED
    BY <2>1, <2>2, <2>3 DEF IInv
<1>13. CASE UNCHANGED vars
  BY <1>13 DEF IInv, TypeOK, HolderOnly, RowsBetween, vars
<1> QED
  BY <1>1, <1>2, <1>3, <1>4, <1>5, <1>6, <1>7, <1>8, <1>9, <1>10, <1>11, <1>12, <1>13
  DEF Next

\* The inductive invariant: types, the lock, and the age of the rows.
THEOREM Inductive == Spec => []IInv
<1> QED
  BY InitIInv, NextIInv, PTL DEF Spec

\* Every state has the types of TypeOK.
THEOREM TypeCorrect == Spec => []TypeOK
<1>1. IInv => TypeOK
  BY DEF IInv
<1> QED
  BY <1>1, Inductive, PTL

\* Only two steps change the tree, and both store the rows of the holder.
LEMMA StepKeepsAge ==
    ASSUME IInv, [Next]_vars
    PROVE  \A o \in Orgs : tree[o] <= tree'[o]
<1>1. ASSUME NEW r \in Requests, CommitOrg(r) \/ Commit(r)
      PROVE  \A o \in Orgs : tree[o] <= tree'[o]
  <2>1. tree' = Stored(req[r].rows)
    BY <1>1 DEF CommitOrg, Commit
  <2> QED
    BY <2>1, StoredRows
<1>2. CASE UNCHANGED tree
  BY <1>2 DEF IInv, TypeOK
<1> QED
  BY <1>1, <1>2 DEF Next, vars, Change, Lapse, Expire, HookLost, CheckExpired, Ask,
     Acquire, Build, Mark, Fail, LockExpires, TimeForgotten

\* Rows are never replaced by older ones, for the lock excludes a second rebuild
\* from the computation of the rows to their commit.
THEOREM NeverOlder == Spec => TreeNeverOlder
<1>1. IInv /\ [Next]_vars => [\A o \in Orgs : tree[o] <= tree'[o]]_vars
  BY StepKeepsAge
<1> QED
  BY <1>1, Inductive, PTL DEF Spec, TreeNeverOlder

\* The stronger invariant behind BuiltIsCurrent.
CInv == RowsCurrent /\ BuiltIsCurrent

LEMMA InitCInv == Init => CInv
<1> SUFFICES ASSUME Init PROVE CInv
  OBVIOUS
<1>1. \A r \in Requests : req[r] = Idle
  BY DEF Init
<1>2. \A o \in Orgs : perm[o].v = 1
  BY DEF Init
<1>3. RowsCurrent
  <2>1. Idle.todo = {} /\ Idle.pc = "idle" /\ \A o \in Orgs : Idle.rows[o] = 0
    BY IdleFacts DEF Idle
  <2>2. \A r \in Requests : /\ req[r].todo = {} /\ req[r].pc = "idle"
                           /\ \A o \in Orgs : req[r].rows[o] = 0
    BY <1>1, <2>1
  <2>3. \A o \in Orgs : perm[o].v # 0
    <3> TAKE o \in Orgs
    <3>1. perm[o].v = 1
      BY <1>2
    <3> QED
      BY <3>1
  <2> QED
    BY <2>2, <2>3 DEF RowsCurrent
<1>4. BuiltIsCurrent
  BY DEF Init, BuiltIsCurrent
<1> QED
  BY <1>3, <1>4 DEF CInv

LEMMA NextCInv == IInv /\ CInv /\ IInv' /\ [Next]_vars => CInv'
<1> SUFFICES ASSUME IInv, CInv, IInv', [Next]_vars PROVE CInv'
  OBVIOUS
<1> USE PermTreeAssumption DEF CInv
<1>1. ASSUME NEW o \in Orgs, NEW any \in BOOLEAN, Change(o, any)
      PROVE  CInv'
  <2>1. RowsCurrent'
    BY <1>1 DEF IInv, TypeOK, RowsCurrent, Change, Computed
  <2>2. BuiltIsCurrent'
    BY <1>1 DEF IInv, TypeOK, BuiltIsCurrent, Change
  <2> QED
    BY <2>1, <2>2
<1>2. ASSUME NEW o \in Orgs, Lapse(o)
      PROVE  CInv'
  <2>1. RowsCurrent'
    BY <1>2 DEF IInv, TypeOK, RowsCurrent, Lapse
  <2>2. BuiltIsCurrent'
    BY <1>2 DEF IInv, TypeOK, BuiltIsCurrent, Lapse
  <2> QED
    BY <2>1, <2>2
<1>3. ASSUME NEW o \in Orgs, Expire(o) \/ HookLost(o)
      PROVE  CInv'
  <2>1. RowsCurrent'
    BY <1>3 DEF RowsCurrent, Expire, HookLost
  <2>2. BuiltIsCurrent'
    BY <1>3 DEF BuiltIsCurrent, Expire, HookLost
  <2> QED
    BY <2>1, <2>2
<1>4. CASE CheckExpired \/ TimeForgotten \/ LockExpires
  <2>1. RowsCurrent'
    BY <1>4 DEF RowsCurrent, CheckExpired, TimeForgotten, LockExpires
  <2>2. BuiltIsCurrent'
    BY <1>4 DEF BuiltIsCurrent, CheckExpired, TimeForgotten, LockExpires
  <2> QED
    BY <2>1, <2>2
<1>5. ASSUME NEW r \in Requests, NEW force \in BOOLEAN, Ask(r, force)
      PROVE  CInv'
  <2>1. RowsCurrent'
    BY <1>5, IdleFacts DEF IInv, TypeOK, RowsCurrent, Ask, Idle
  <2>2. BuiltIsCurrent'
    BY <1>5 DEF IInv, TypeOK, BuiltIsCurrent, Ask, Idle
  <2> QED
    BY <2>1, <2>2
<1>6. ASSUME NEW r \in Requests, Acquire(r)
      PROVE  CInv'
  <2>1. UNCHANGED <<small, perm, hook, tree, built, disturbed>> /\ req[r].pc = "perform"
    BY <1>6 DEF Acquire
  <2>2. Idle.todo = {} /\ Idle.pc = "idle" /\ \A o \in Orgs : Idle.rows[o] = 0
    BY IdleFacts DEF Idle
  <2>3. \/ req' = [req EXCEPT ![r].pc = "build", ![r].todo = req[r].orgs]
        \/ req' = [req EXCEPT ![r] = Idle]
    BY <1>6, Zenon DEF Acquire
  <2>4. req \in [Requests -> Refresh]
    BY DEF IInv, TypeOK
  <2>5. \A o \in Orgs : req[r].rows[o] = 0
    BY <2>1 DEF IInv, HolderOnly, RowsBetween
  <2>6. CASE req' = [req EXCEPT ![r].pc = "build", ![r].todo = req[r].orgs]
    <3>1. RowsCurrent'
      BY <2>1, <2>4, <2>5, <2>6 DEF RowsCurrent
    <3>2. BuiltIsCurrent'
      BY <2>1, <2>4, <2>6 DEF BuiltIsCurrent
    <3> QED
      BY <3>1, <3>2
  <2>7. CASE req' = [req EXCEPT ![r] = Idle]
    <3>1. RowsCurrent'
      BY <2>1, <2>2, <2>4, <2>7 DEF RowsCurrent
    <3>2. BuiltIsCurrent'
      BY <2>1, <2>2, <2>4, <2>7 DEF BuiltIsCurrent
    <3> QED
      BY <3>1, <3>2
  <2> QED
    BY <2>3, <2>6, <2>7
<1>7. ASSUME NEW r \in Requests, NEW o \in Orgs, Build(r, o)
      PROVE  CInv'
  <2>1. RowsCurrent'
    BY <1>7 DEF IInv, TypeOK, RowsCurrent, Build
  <2>2. BuiltIsCurrent'
    BY <1>7 DEF IInv, TypeOK, BuiltIsCurrent, Build
  <2> QED
    BY <2>1, <2>2
<1>8. ASSUME NEW r \in Requests, CommitOrg(r)
      PROVE  CInv'
  <2>1. RowsCurrent'
    BY <1>8, IdleFacts DEF IInv, TypeOK, HolderOnly, RowsCurrent, CommitOrg, Stored
  <2>2. BuiltIsCurrent'
    BY <1>8, IdleFacts
    DEF IInv, TypeOK, HolderOnly, RowsCurrent, BuiltIsCurrent, CommitOrg, Stored
  <2> QED
    BY <2>1, <2>2
<1>9. ASSUME NEW r \in Requests, Mark(r)
      PROVE  CInv'
  <2>1. /\ UNCHANGED <<small, perm, hook, tree, disturbed>>
        /\ built' = built \cup req[r].orgs
        /\ req[r].pc = "build" /\ req[r].todo = {}
        /\ ~small => req[r].rows = NoRows
    BY <1>9 DEF Mark
  <2>2. Idle.todo = {} /\ Idle.pc = "idle" /\ \A o \in Orgs : Idle.rows[o] = 0
    BY IdleFacts DEF Idle
  <2>3. req \in [Requests -> Refresh] /\ built \subseteq Orgs
    BY DEF IInv, TypeOK
  <2>4. \A q \in Requests : req[q].pc = "marked" => FALSE
    BY <2>1 DEF IInv, HolderOnly
  <2>5. CASE small
    <3>1. req' = [req EXCEPT ![r].pc = "marked"]
      BY <1>9, <2>5 DEF Mark
    <3>2. RowsCurrent'
      BY <2>1, <2>3, <2>4, <2>5, <3>1 DEF RowsCurrent
    <3>3. BuiltIsCurrent'
      BY <2>1, <2>3, <2>4, <3>1 DEF BuiltIsCurrent
    <3> QED
      BY <3>2, <3>3
  <2>6. CASE ~small
    <3>1. req' = [req EXCEPT ![r] = Idle]
      BY <1>9, <2>6 DEF Mark
    <3>2. RowsCurrent'
      BY <2>1, <2>2, <2>3, <2>4, <3>1 DEF RowsCurrent
    <3>3. \A o \in req[r].orgs \ disturbed : tree[o] = perm[o].v
      BY <2>1, <2>3, <2>6, IdleFacts DEF RowsCurrent
    <3>4. BuiltIsCurrent'
      BY <2>1, <2>2, <2>3, <2>4, <3>1, <3>3 DEF BuiltIsCurrent
    <3> QED
      BY <3>2, <3>4
  <2> QED
    BY <2>5, <2>6
<1>10. ASSUME NEW r \in Requests, Commit(r)
       PROVE  CInv'
  <2>1. RowsCurrent'
    BY <1>10, IdleFacts DEF IInv, TypeOK, HolderOnly, RowsCurrent, Commit, Stored, Idle
  <2>2. BuiltIsCurrent'
    BY <1>10, IdleFacts
    DEF IInv, TypeOK, HolderOnly, RowsCurrent, BuiltIsCurrent, Commit, Stored
  <2> QED
    BY <2>1, <2>2
<1>11. ASSUME NEW r \in Requests, Fail(r)
       PROVE  CInv'
  <2>1. RowsCurrent'
    BY <1>11, IdleFacts DEF IInv, TypeOK, RowsCurrent, Fail, Idle
  <2>2. BuiltIsCurrent'
    BY <1>11, IdleFacts DEF IInv, TypeOK, BuiltIsCurrent, Fail
  <2> QED
    BY <2>1, <2>2
<1>12. CASE UNCHANGED vars
  BY <1>12 DEF RowsCurrent, BuiltIsCurrent, vars
<1> QED
  BY <1>1, <1>2, <1>3, <1>4, <1>5, <1>6, <1>7, <1>8, <1>9, <1>10, <1>11, <1>12
  DEF Next

\* A tree marked as built shows the permissions of the user, the named cases
\* excepted: the mark of a refresh and the expiry of a change cannot miss one
\* another in any other way.
THEOREM MarkedIsCurrent == Spec => []BuiltIsCurrent
<1>1. CInv => BuiltIsCurrent
  BY DEF CInv
<1> QED
  BY <1>1, InitIInv, InitCInv, NextIInv, NextCInv, PTL DEF Spec

=============================================================================
