----------------------- MODULE TerminalSession_proofs -----------------------
(***************************************************************************)
(* Proofs about TerminalSession, for any sets of sessions and tasks and    *)
(* any bounds.                                                             *)
(***************************************************************************)
EXTENDS TerminalSession, TLAPS

USE SessionsAssumption

\* A saved row keeps the Session table and the lock keys well typed.
LEMMA SaveSessionType ==
    ASSUME TypeOK, NEW s \in Sessions, NEW row \in Row, SaveSession(s, row)
    PROVE  sess' \in [Sessions -> Row] /\ lockKey' \subseteq Sessions
  BY DEF TypeOK, SaveSession

\* The loop of the cleaner moves between legal states.
LEMMA NextSessionType ==
    ASSUME TypeOK, NextSession PROVE cleaner' \in CleanerState
  <1>1. NoPatch.snap \in Row
    BY DEF NoPatch, Row
  <1>2. CASE cleaner.todo = {}
    BY <1>1, <1>2 DEF NextSession, NotCleaning, CleanerState
  <1>3. CASE cleaner.todo # {}
    <2>1. PICK s \in cleaner.todo :
             cleaner' = [cleaner EXCEPT !.pc = "tasks", !.cur = s,
                                        !.todo = @ \ {s}]
      BY <1>3 DEF NextSession
    <2> QED
      BY <2>1 DEF TypeOK, CleanerState
  <1> QED
    BY <1>2, <1>3

\* A task that was inserted has a session, one that was not has none.
LEMMA HasSession ==
    ASSUME TypeOK, NEW t \in Tasks
    PROVE  /\ tasks[t].st # "none" => tasks[t].on \in Sessions
           /\ tasks[t].st = "none" => tasks[t].on = NoSession
  BY DEF TypeOK, TaskRow

\* Every step keeps the types; that a hook belongs to a task of a session is
\* what keeps the lock keys inside Sessions.
LEMMA TypeStep ==
    TypeOK /\ TasksNameSessions /\ CleanerOnSession /\ [Next]_vars => TypeOK'
  <1> SUFFICES ASSUME TypeOK, TasksNameSessions, CleanerOnSession, [Next]_vars
               PROVE  TypeOK'
    OBVIOUS
  <1> USE DEF TypeOK
  <1>0. NoPatch \in Patches /\ NoPatch.snap \in Row /\ NoRequest \in Requests
    BY DEF NoPatch, Patches, Row, NoRequest, Requests, TaskNames
  <1>1. ASSUME NEW s \in Sessions, CreateSession(s) PROVE TypeOK'
    BY <1>1 DEF CreateSession, Row
  <1>2. ASSUME NEW s \in Sessions, EndPatch(s) PROVE TypeOK'
    <2>1. patch[s].snap \in Row
      BY DEF Patches
    <2>2. /\ [patch[s].snap EXCEPT !.state = "finished"] \in Row
          /\ [patch[s].snap EXCEPT !.replay = TRUE] \in Row
      BY <2>1 DEF Row
    <2>3. sess' \in [Sessions -> Row] /\ lockKey' \subseteq Sessions
      BY <1>2, <2>2, SaveSessionType DEF EndPatch
    <2> QED
      BY <1>0, <1>2, <2>3 DEF EndPatch
  <1>3. ASSUME NEW s \in Sessions, CompClose(s) PROVE TypeOK'
    BY <1>3 DEF CompClose, dbVars, cacheVars
  <1>4. ASSUME NEW s \in Sessions, NEW what \in {"finish", "replay"},
               BeginPatch(s, what)
        PROVE TypeOK'
    BY <1>4 DEF BeginPatch, Patches, cacheVars, compVars
  <1>5. ASSUME NEW s \in Sessions, NEW name \in TaskNames, CheckSession(s, name)
        PROVE TypeOK'
    BY <1>5 DEF CheckSession, Requests, cacheVars, compVars
  <1>6. ASSUME NEW t \in Tasks, CreateTask(t) PROVE TypeOK'
    <2>1. [st |-> "open", name |-> admin.name, on |-> admin.on, age |-> 0]
            \in TaskRow
      BY <1>6 DEF CreateTask, TaskRow, Requests, TasksNameSessions
    <2> QED
      BY <1>0, <1>6, <2>1 DEF CreateTask, cacheVars, compVars
  <1>7. ASSUME NEW t \in Tasks, PublishTask(t) PROVE TypeOK'
    BY <1>7 DEF PublishTask, cacheVars
  <1>8. ASSUME NEW t \in Tasks, ApplyTask(t) PROVE TypeOK'
    <2>1. tasks[t].on \in Sessions
      BY <1>8, HasSession DEF ApplyTask, TasksNameSessions
    <2>2. lockKey' \subseteq Sessions
      BY <1>8, <2>1 DEF ApplyTask
    <2>3. hook' \in [Tasks -> SUBSET {"publish", "apply"}]
      BY <1>8 DEF ApplyTask
    <2> QED
      BY <1>8, <2>2, <2>3 DEF ApplyTask
  <1>9. ASSUME NEW t \in Tasks, CompExecute(t) PROVE TypeOK'
    <2>1. live' \subseteq Sessions /\ ended' \subseteq Sessions
      BY <1>9 DEF CompExecute
    <2>2. compLocked' \subseteq Sessions
      BY <1>9 DEF CompExecute
    <2> QED
      BY <1>9, <2>1, <2>2 DEF CompExecute, dbVars, cacheVars
  <1>10. ASSUME RestStatus \/ WsStatus \/ WsConnect PROVE TypeOK'
    <2>1. HandedOut \subseteq Tasks
      BY DEF HandedOut
    <2>2. ASSUME SetActive PROVE /\ idle' \in [Sessions -> 0..ActiveTTL]
                                 /\ beaten' \subseteq Sessions
      BY <2>2 DEF SetActive
    <2>3. CASE RestStatus
      BY <2>1, <2>2, <2>3 DEF RestStatus, dbVars
    <2>4. CASE WsStatus
      BY <2>2, <2>4 DEF WsStatus, dbVars, compVars
    <2>5. CASE WsConnect
      BY <2>1, <2>5 DEF WsConnect, dbVars, cacheVars
    <2> QED
      BY <1>10, <2>3, <2>4, <2>5
  <1>11. ASSUME WsSubscribe \/ CompCrash \/ LinkDown \/ LinkUp PROVE TypeOK'
    <2>1. CASE WsSubscribe \/ LinkUp
      BY <2>1 DEF WsSubscribe, LinkUp, dbVars, cacheVars
    <2>2. CASE CompCrash \/ LinkDown
      <3>1. faults' \in 0..MaxFaults
        BY <2>2 DEF CompCrash, LinkDown
      <3> QED
        BY <2>2, <3>1 DEF CompCrash, LinkDown, dbVars, cacheVars
    <2> QED
      BY <1>11, <2>1, <2>2
  <1>12. ASSUME CompReport PROVE TypeOK'
    <2>1. [tasks[busy] EXCEPT !.st = "done"] \in TaskRow
      BY <1>12 DEF CompReport, TaskRow, TasksNameSessions
    <2> QED
      BY <1>12, <2>1 DEF CompReport, TaskRow, cacheVars, compVars
  <1>13. ASSUME Tick PROVE TypeOK'
    <2>1. idle' \in [Sessions -> 0..ActiveTTL]
      BY <1>13 DEF Tick, Older
    <2>2. tasks' \in [Tasks -> TaskRow]
      <3>1. ASSUME NEW t \in Tasks, tasks[t].st = "open",
                   tasks[t].age < TaskWindow
            PROVE  [tasks[t] EXCEPT !.age = @ + 1] \in TaskRow
        BY <3>1 DEF TaskRow
      <3> QED
        BY <1>13, <3>1 DEF Tick
    <2> QED
      BY <1>13, <2>1, <2>2 DEF Tick, compVars
  <1>14. ASSUME CleanStart PROVE TypeOK'
    BY <1>14 DEF CleanStart, CleanerState, dbVars, cacheVars, compVars
  <1>15. ASSUME CleanTasks PROVE TypeOK'
    <2>1. tasks' \in [Tasks -> TaskRow]
      BY <1>15 DEF CleanTasks, TaskRow
    <2> QED
      BY <1>15, <2>1 DEF CleanTasks, CleanerState, cacheVars, compVars
  <1>16. ASSUME CleanJudge PROVE TypeOK'
    <2>1. cleaner' \in CleanerState
      <3>1. CASE is_active(cleaner.cur)
        BY <1>16, <3>1, NextSessionType DEF CleanJudge
      <3>2. CASE ~is_active(cleaner.cur)
        BY <1>16, <3>2 DEF CleanJudge, CleanerState
      <3> QED
        BY <3>1, <3>2
    <2> QED
      BY <1>16, <2>1 DEF CleanJudge, dbVars, cacheVars, compVars
  <1>17. ASSUME CleanSave PROVE TypeOK'
    <2>1. cleaner' \in CleanerState
      BY <1>17, NextSessionType DEF CleanSave
    <2>2. cleaner.cur \in Sessions
      BY <1>17 DEF CleanSave, CleanerOnSession
    <2>3. [cleaner.snap[cleaner.cur] EXCEPT !.state = "finished"] \in Row
      BY <2>2 DEF CleanerState, Row
    <2>4. sess' \in [Sessions -> Row] /\ lockKey' \subseteq Sessions
      BY <1>17, <2>2, <2>3, SaveSessionType DEF CleanSave
    <2> QED
      BY <1>17, <2>1, <2>4 DEF CleanSave, compVars
  <1>18. CASE UNCHANGED vars
    BY <1>18 DEF vars
  <1> QED
    BY <1>1, <1>2, <1>3, <1>4, <1>5, <1>6, <1>7, <1>8, <1>9, <1>10, <1>11,
       <1>12, <1>13, <1>14, <1>15, <1>16, <1>17, <1>18 DEF Next

\* Tasks come into being for a session, and only then are handed out.
LEMMA TasksStep ==
    TypeOK /\ TasksNameSessions /\ [Next]_vars => TasksNameSessions'
  <1> SUFFICES ASSUME TypeOK, TasksNameSessions, [Next]_vars
               PROVE  TasksNameSessions'
    OBVIOUS
  <1> USE DEF TasksNameSessions
  <1>1. ASSUME NEW s \in Sessions, CreateSession(s) \/ EndPatch(s) \/ CompClose(s)
        PROVE  TasksNameSessions'
    BY <1>1 DEF CreateSession, EndPatch, CompClose, dbVars
  <1>2. ASSUME NEW s \in Sessions, NEW what \in {"finish", "replay"},
               BeginPatch(s, what)
        PROVE TasksNameSessions'
    BY <1>2 DEF BeginPatch, compVars
  <1>3. ASSUME NEW s \in Sessions, NEW name \in TaskNames, CheckSession(s, name)
        PROVE TasksNameSessions'
    BY <1>3 DEF CheckSession, compVars
  <1>4. ASSUME NEW t \in Tasks, CreateTask(t) PROVE TasksNameSessions'
    BY <1>4 DEF CreateTask, compVars, TypeOK
  <1>5. ASSUME NEW t \in Tasks, PublishTask(t) PROVE TasksNameSessions'
    BY <1>5 DEF PublishTask, HandedOut, TypeOK
  <1>6. ASSUME NEW t \in Tasks, ApplyTask(t) PROVE TasksNameSessions'
    BY <1>6 DEF ApplyTask, TypeOK
  <1>7. ASSUME NEW t \in Tasks, CompExecute(t) PROVE TasksNameSessions'
    BY <1>7 DEF CompExecute, dbVars
  <1>8. ASSUME RestStatus \/ WsConnect PROVE TasksNameSessions'
    BY <1>8 DEF RestStatus, WsConnect, HandedOut, dbVars
  <1>9. ASSUME \/ WsStatus \/ WsSubscribe \/ CompCrash \/ LinkDown
               \/ LinkUp \/ CleanStart \/ CleanJudge
        PROVE  TasksNameSessions'
    BY <1>9 DEF WsStatus, WsSubscribe, CompCrash, LinkDown, LinkUp,
                CleanStart, CleanJudge, dbVars, compVars
  <1>10. ASSUME CompReport PROVE TasksNameSessions'
    BY <1>10 DEF CompReport, compVars, TypeOK, TaskRow
  <1>11. ASSUME Tick \/ CleanTasks PROVE TasksNameSessions'
    BY <1>11 DEF Tick, CleanTasks, compVars, TypeOK, TaskRow
  <1>12. ASSUME CleanSave PROVE TasksNameSessions'
    BY <1>12 DEF CleanSave, compVars
  <1>13. CASE UNCHANGED vars
    BY <1>13 DEF vars
  <1> QED
    BY <1>1, <1>2, <1>3, <1>4, <1>5, <1>6, <1>7, <1>8, <1>9, <1>10, <1>11,
       <1>12, <1>13 DEF Next

\* The cleaner leaves a session only for another one, or ends its run.
LEMMA CleanerStep ==
    TypeOK /\ CleanerOnSession /\ [Next]_vars => CleanerOnSession'
  <1> SUFFICES ASSUME TypeOK, CleanerOnSession, [Next]_vars
               PROVE  CleanerOnSession'
    OBVIOUS
  <1>1. CASE UNCHANGED cleaner
    BY <1>1 DEF CleanerOnSession
  <1>2. ASSUME NextSession PROVE CleanerOnSession'
    <2>1. cleaner.todo \subseteq Sessions
      BY DEF TypeOK, CleanerState
    <2> QED
      <3>1. CASE cleaner.todo = {}
        BY <1>2, <3>1 DEF NextSession, NotCleaning, CleanerOnSession
      <3>2. CASE cleaner.todo # {}
        <4>1. PICK s \in cleaner.todo :
                 cleaner' = [cleaner EXCEPT !.pc = "tasks", !.cur = s,
                                            !.todo = @ \ {s}]
          BY <1>2, <3>2 DEF NextSession
        <4>2. cleaner'.cur = s
          BY <4>1 DEF TypeOK, CleanerState
        <4> QED
          BY <2>1, <4>2 DEF CleanerOnSession
      <3> QED
        BY <3>1, <3>2
  <1>3. CASE CleanStart
    BY <1>3 DEF CleanStart, CleanerOnSession
  <1>4. CASE CleanTasks
    BY <1>4 DEF CleanTasks, CleanerOnSession, TypeOK, CleanerState
  <1>5. CASE CleanJudge
    BY <1>2, <1>5 DEF CleanJudge, CleanerOnSession, TypeOK, CleanerState
  <1>6. CASE CleanSave
    BY <1>2, <1>6 DEF CleanSave
  <1> QED
    BY <1>1, <1>3, <1>4, <1>5, <1>6
       DEF Next, vars, CreateSession, EndPatch, CompClose, BeginPatch,
           CheckSession, CreateTask, PublishTask, ApplyTask, CompExecute,
           RestStatus, WsStatus, WsConnect, WsSubscribe, CompReport, CompCrash,
           LinkDown, LinkUp, Tick

\* A row changes only in CreateSession, EndPatch and CleanSave; the first needs
\* an absent row, which no PATCH holds; the second releases the lock; the third
\* waits for it.
LEMMA FreshStep ==
    TypeOK /\ CleanerOnSession /\ LockedRowIsFresh /\ PatchOfExisting
      /\ [Next]_vars => LockedRowIsFresh' /\ PatchOfExisting'
  <1> SUFFICES ASSUME TypeOK, CleanerOnSession, LockedRowIsFresh,
                      PatchOfExisting, [Next]_vars
               PROVE  LockedRowIsFresh' /\ PatchOfExisting'
    OBVIOUS
  <1> USE DEF LockedRowIsFresh, PatchOfExisting, TypeOK
  <1>1. CASE UNCHANGED <<sess, patch>>
    BY <1>1
  <1>2. ASSUME NEW s \in Sessions, CreateSession(s)
        PROVE  LockedRowIsFresh' /\ PatchOfExisting'
    <2>1. patch[s] = NoPatch
      BY <1>2 DEF CreateSession
    <2>2. patch' = patch /\ \A x \in Sessions \ {s} : sess'[x] = sess[x]
      BY <1>2 DEF CreateSession
    <2> QED
      BY <2>1, <2>2
  <1>3. ASSUME NEW s \in Sessions, EndPatch(s)
        PROVE  LockedRowIsFresh' /\ PatchOfExisting'
    <2>1. patch'[s] = NoPatch
      BY <1>3 DEF EndPatch
    <2>2. \A x \in Sessions \ {s} : sess'[x] = sess[x] /\ patch'[x] = patch[x]
      BY <1>3 DEF EndPatch, SaveSession
    <2> QED
      BY <2>1, <2>2
  <1>4. ASSUME NEW s \in Sessions, NEW what \in {"finish", "replay"},
               BeginPatch(s, what)
        PROVE  LockedRowIsFresh' /\ PatchOfExisting'
    <2>1. sess' = sess /\ patch'[s].snap = sess[s] /\ sess[s].state # "absent"
      BY <1>4 DEF BeginPatch
    <2>2. \A x \in Sessions \ {s} : patch'[x] = patch[x]
      BY <1>4 DEF BeginPatch
    <2> QED
      BY <2>1, <2>2
  <1>5. ASSUME CleanSave
        PROVE  LockedRowIsFresh' /\ PatchOfExisting'
    <2>1. patch[cleaner.cur] = NoPatch /\ patch' = patch
      BY <1>5 DEF CleanSave
    <2>2. \A x \in Sessions \ {cleaner.cur} : sess'[x] = sess[x]
      BY <1>5 DEF CleanSave, SaveSession
    <2> QED
      BY <2>1, <2>2
  <1> QED
    BY <1>1, <1>2, <1>3, <1>4, <1>5
       DEF Next, vars, CompClose, CheckSession, CreateTask, PublishTask,
           ApplyTask, CompExecute, RestStatus, WsStatus, WsConnect,
           WsSubscribe, CompReport, CompCrash, LinkDown, LinkUp, Tick,
           CleanStart, CleanTasks, CleanJudge, dbVars

-----------------------------------------------------------------------------
IInv == /\ TypeOK /\ TasksNameSessions /\ CleanerOnSession
        /\ LockedRowIsFresh /\ PatchOfExisting

\* The conjunction of the invariants is inductive.
THEOREM Inductive == Spec => []IInv
  <1>1. Init => IInv
    BY DEF Init, IInv, TypeOK, TasksNameSessions, CleanerOnSession,
           LockedRowIsFresh, PatchOfExisting, NoPatch, Patches, Row, TaskRow,
           TaskNames, Requests, NoRequest, CleanerState, NotCleaning
  <1>2. IInv /\ [Next]_vars => IInv'
    BY TypeStep, TasksStep, CleanerStep, FreshStep DEF IInv
  <1> QED
    BY <1>1, <1>2, PTL DEF Spec

\* Every variable keeps its type.
THEOREM TypeCorrect == Spec => []TypeOK
  BY Inductive, PTL DEF IInv

\* select_for_update does its work: a PATCH always writes back the row as it
\* is in the database (SessionViewSet.get_queryset).
THEOREM RowLockKeepsFresh == Spec => []LockedRowIsFresh
  BY Inductive, PTL DEF IInv

\* No step of any of the three writers reopens a finished session.
THEOREM FinishedStaysFinished == Spec => FinishedIsFinal
  <1> DEFINE Kept == \A s \in Sessions : sess[s].state = "finished"
                                         => sess'[s].state = "finished"
  <1>1. IInv /\ [Next]_vars => Kept
    <2> SUFFICES ASSUME IInv, [Next]_vars, NEW s \in Sessions,
                        sess[s].state = "finished"
                 PROVE  sess'[s].state = "finished"
      OBVIOUS
    <2> USE DEF IInv, TypeOK
    <2>1. CASE UNCHANGED sess
      BY <2>1
    <2>2. CASE \E x \in Sessions : CreateSession(x)
      BY <2>2 DEF CreateSession
    <2>3. ASSUME NEW x \in Sessions, EndPatch(x)
          PROVE  sess'[s].state = "finished"
      <3>1. patch[x].snap = sess[x] /\ sess[x] \in Row
        BY <2>3 DEF EndPatch, LockedRowIsFresh
      <3> QED
        BY <2>3, <3>1 DEF EndPatch, SaveSession, Row
    <2>4. CASE CleanSave
      <3>1. cleaner.snap[cleaner.cur] \in Row
        BY <2>4 DEF CleanSave, CleanerOnSession, CleanerState
      <3> QED
        BY <2>4, <3>1 DEF CleanSave, SaveSession, Row
    <2> QED
      BY <2>1, <2>2, <2>3, <2>4
         DEF Next, vars, CompClose, BeginPatch, CheckSession, CreateTask,
             PublishTask, ApplyTask, CompExecute, RestStatus, WsStatus,
             WsConnect, WsSubscribe, CompReport, CompCrash, LinkDown, LinkUp,
             Tick, CleanStart, CleanTasks, CleanJudge, dbVars
  <1>2. [Next]_vars /\ Kept => [Kept]_vars
    OBVIOUS
  <1> QED
    BY <1>1, <1>2, Inductive, PTL DEF Spec, FinishedIsFinal

\* The recording flag of a session is dropped by the cleaner only: a PATCH
\* writes back the row as it is (clean_orphan_session saves a row it read
\* without a lock).
THEOREM ReplayKept == Spec => ReplayLostOnlyByCleaner
  <1> DEFINE Kept == \A s \in Sessions : sess[s].replay /\ ~sess'[s].replay
                        => cleaner.pc = "save" /\ cleaner.cur = s
  <1>1. IInv /\ [Next]_vars => Kept
    <2> SUFFICES ASSUME IInv, [Next]_vars, NEW s \in Sessions,
                        sess[s].replay, ~sess'[s].replay
                 PROVE  cleaner.pc = "save" /\ cleaner.cur = s
      OBVIOUS
    <2> USE DEF IInv, TypeOK
    <2>1. CASE UNCHANGED sess
      BY <2>1
    <2>2. CASE \E x \in Sessions : CreateSession(x)
      BY <2>2 DEF CreateSession, Row
    <2>3. ASSUME NEW x \in Sessions, EndPatch(x)
          PROVE  FALSE
      <3>1. patch[x].snap = sess[x] /\ sess[x] \in Row
        BY <2>3 DEF EndPatch, LockedRowIsFresh
      <3> QED
        BY <2>3, <3>1 DEF EndPatch, SaveSession, Row
    <2>4. CASE CleanSave
      BY <2>4 DEF CleanSave, SaveSession
    <2> QED
      BY <2>1, <2>2, <2>3, <2>4
         DEF Next, vars, CompClose, BeginPatch, CheckSession, CreateTask,
             PublishTask, ApplyTask, CompExecute, RestStatus, WsStatus,
             WsConnect, WsSubscribe, CompReport, CompCrash, LinkDown, LinkUp,
             Tick, CleanStart, CleanTasks, CleanJudge, dbVars
  <1>2. [Next]_vars /\ Kept => [Kept]_vars
    OBVIOUS
  <1> QED
    BY <1>1, <1>2, Inductive, PTL DEF Spec, ReplayLostOnlyByCleaner

-----------------------------------------------------------------------------
(* The lock of a session *)

Exists(s) == sess[s].state # "absent"

\* What is carried, locked or named by a task or a request is a row: a session
\* that is created later has neither a lock nor a task.
NamedExist ==
    /\ \A s \in live \cup lockKey : Exists(s)
    /\ compLocked \subseteq live
    /\ admin # NoRequest => Exists(admin.on)
    /\ \A t \in Tasks : tasks[t].st # "none" => Exists(tasks[t].on)

\* A hook that is late, because the component died before its report was
\* answered, is about a task that is never handed out again and a session that
\* died with the component.
LateHooks ==
    \A t \in Tasks : "apply" \in hook[t] =>
       /\ tasks[t].st = "done"
       /\ busy # t => t \notin inbox /\ tasks[t].on \notin live

\* The component is in the middle of such a task on s.
Under(s, name) ==
    busy # NoTask /\ tasks[busy].on = s /\ tasks[busy].name = name

\* Key and component agree, but for the task the component is at: it has done
\* what the key will say.
InStep ==
    \A s \in live : Online(s) =>
       /\ Under(s, "lock_session") => s \in compLocked
       /\ Under(s, "unlock_session") => s \notin compLocked
       /\ ~Under(s, "lock_session") /\ ~Under(s, "unlock_session")
            => (s \in lockKey <=> s \in compLocked)

LockInv == NamedExist /\ LateHooks /\ InStep

\* No step but its insertion changes what a task is about; rows of sessions do
\* not go away; and a row comes back online only by being created.
LEMMA RowsGrow ==
    ASSUME IInv, [Next]_vars
    PROVE  /\ \A t \in Tasks : tasks[t].st # "none" =>
                /\ tasks'[t].on = tasks[t].on /\ tasks'[t].name = tasks[t].name
                /\ tasks'[t].st \in {tasks[t].st, "done"}
           /\ \A s \in Sessions : Exists(s) =>
                /\ Exists(s)'
                /\ Online(s)' => Online(s)
  <1> USE DEF IInv, TypeOK
  <1>1. \A t \in Tasks : tasks[t].st # "none" =>
           /\ tasks'[t].on = tasks[t].on /\ tasks'[t].name = tasks[t].name
           /\ tasks'[t].st \in {tasks[t].st, "done"}
    <2>1. CASE UNCHANGED tasks
      BY <2>1
    <2>2. CASE \E t \in Tasks : CreateTask(t)
      BY <2>2 DEF CreateTask
    <2>3. CASE CompReport
      BY <2>3 DEF CompReport, TaskRow
    <2>4. CASE Tick
      BY <2>4 DEF Tick, TaskRow
    <2>5. CASE CleanTasks
      BY <2>5 DEF CleanTasks, TaskRow
    <2> QED
      BY <2>1, <2>2, <2>3, <2>4, <2>5
         DEF Next, vars, CreateSession, EndPatch, CompClose, BeginPatch,
             CheckSession, PublishTask, ApplyTask, CompExecute, RestStatus,
             WsStatus, WsConnect, WsSubscribe, CompCrash, LinkDown, LinkUp,
             CleanStart, CleanJudge, CleanSave, dbVars
  <1>2. \A s \in Sessions : Exists(s) => Exists(s)' /\ (Online(s)' => Online(s))
    <2> USE DEF Exists, Online
    <2>1. CASE UNCHANGED sess
      BY <2>1
    <2>2. CASE \E x \in Sessions : CreateSession(x)
      BY <2>2 DEF CreateSession
    <2>3. ASSUME NEW x \in Sessions, EndPatch(x)
          PROVE  \A s \in Sessions : Exists(s) => Exists(s)' /\ (Online(s)' => Online(s))
      <3>1. patch[x].snap = sess[x] /\ sess[x] \in Row
        BY <2>3 DEF EndPatch, LockedRowIsFresh
      <3> QED
        BY <2>3, <3>1 DEF EndPatch, SaveSession, Row
    <2>4. CASE CleanSave
      <3>1. cleaner.snap[cleaner.cur] \in Row
        BY <2>4 DEF CleanSave, CleanerOnSession, CleanerState
      <3> QED
        BY <2>4, <3>1 DEF CleanSave, SaveSession, Row
    <2> QED
      BY <2>1, <2>2, <2>3, <2>4
         DEF Next, vars, CompClose, BeginPatch, CheckSession, CreateTask,
             PublishTask, ApplyTask, CompExecute, RestStatus, WsStatus,
             WsConnect, WsSubscribe, CompReport, CompCrash, LinkDown, LinkUp,
             Tick, CleanStart, CleanTasks, CleanJudge, dbVars
  <1> QED
    BY <1>1, <1>2

\* Nothing is locked or carried before its row exists.
LEMMA NamedStep ==
    ASSUME IInv, LockInv, [Next]_vars
    PROVE  NamedExist'
  <1> USE DEF IInv, TypeOK
  <1>0. NamedExist
    BY DEF LockInv
  <1>1. ASSUME live' \subseteq live, lockKey' \subseteq lockKey,
               compLocked' \subseteq live', admin' = admin,
               \A t \in Tasks : tasks[t].st = "none" => tasks'[t].st = "none"
        PROVE  NamedExist'
    BY <1>0, <1>1, RowsGrow, HasSession DEF NamedExist, TasksNameSessions
  <1>2. ASSUME NEW s \in Sessions, CreateSession(s)
        PROVE  NamedExist'
    <2>1. Exists(s)'
      BY <1>2 DEF CreateSession, Exists, Row
    <2> QED
      BY <1>0, <1>2, <2>1, RowsGrow, HasSession
         DEF CreateSession, NamedExist, TasksNameSessions
  <1>3. ASSUME NEW s \in Sessions, NEW name \in TaskNames, CheckSession(s, name)
        PROVE  NamedExist'
    BY <1>0, <1>3 DEF CheckSession, NamedExist, Online, Exists, compVars, cacheVars
  <1>4. ASSUME NEW t \in Tasks, CreateTask(t)
        PROVE  NamedExist'
    BY <1>0, <1>4 DEF CreateTask, NamedExist, Exists, compVars, cacheVars
  <1>5. ASSUME NEW t \in Tasks, ApplyTask(t)
        PROVE  NamedExist'
    <2>1. Exists(tasks[t].on)
      BY <1>0, <1>5 DEF ApplyTask, NamedExist, TasksNameSessions
    <2>2. lockKey' \subseteq lockKey \cup {tasks[t].on}
      BY <1>5 DEF ApplyTask
    <2> QED
      BY <1>0, <1>5, <2>1, <2>2 DEF ApplyTask, NamedExist, Exists
  <1>6. ASSUME NEW t \in Tasks, CompExecute(t)
        PROVE  NamedExist'
    <2>1. live' \subseteq live /\ compLocked' \subseteq live'
      BY <1>0, <1>6 DEF CompExecute, NamedExist
    <2> QED
      BY <1>1, <1>6, <2>1 DEF CompExecute, dbVars, cacheVars
  <1>7. ASSUME NEW s \in Sessions, EndPatch(s) \/ CompClose(s)
        PROVE  NamedExist'
    <2>1. lockKey' \subseteq lockKey /\ live' \subseteq live /\ compLocked' \subseteq live'
      BY <1>0, <1>7 DEF EndPatch, CompClose, SaveSession, NamedExist, cacheVars
    <2> QED
      BY <1>1, <1>7, <2>1 DEF EndPatch, CompClose, dbVars
  <1>8. CASE CleanSave \/ CompCrash
    <2>1. lockKey' \subseteq lockKey /\ live' \subseteq live /\ compLocked' \subseteq live'
      BY <1>0, <1>8 DEF CleanSave, CompCrash, SaveSession, NamedExist, compVars, cacheVars
    <2> QED
      BY <1>1, <1>8, <2>1 DEF CleanSave, CompCrash, dbVars
  <1>9. CASE CompReport \/ Tick \/ CleanTasks
    <2>1. \A t \in Tasks : tasks[t].st = "none" => tasks'[t].st = "none"
      BY <1>9 DEF CompReport, Tick, CleanTasks, TasksNameSessions
    <2>2. UNCHANGED <<live, lockKey, compLocked, admin>>
      BY <1>9 DEF CompReport, Tick, CleanTasks, compVars, cacheVars
    <2> QED
      BY <1>0, <1>1, <2>1, <2>2 DEF NamedExist
  <1>10. ASSUME UNCHANGED <<live, lockKey, compLocked, admin, tasks>>
         PROVE  NamedExist'
    BY <1>0, <1>1, <1>10 DEF NamedExist
  <1> QED
    BY <1>2, <1>3, <1>4, <1>5, <1>6, <1>7, <1>8, <1>9, <1>10
       DEF Next, vars, BeginPatch, PublishTask, RestStatus, WsStatus,
           WsConnect, WsSubscribe, LinkDown, LinkUp, CleanStart, CleanJudge,
           SetActive, dbVars, cacheVars, compVars

\* A reported task is handed out no more, and the sessions of a dead component
\* do not come back.
LEMMA LateStep ==
    ASSUME IInv, LockInv, [Next]_vars
    PROVE  LateHooks'
  <1> USE DEF IInv, TypeOK
  <1>0. NamedExist /\ LateHooks
    BY DEF LockInv
  <1>1. ASSUME hook' = hook, busy' = busy, live' \subseteq live,
               inbox' \subseteq inbox \cup HandedOut
        PROVE  LateHooks'
    BY <1>0, <1>1, RowsGrow DEF LateHooks, HandedOut, TasksNameSessions
  <1>2. ASSUME NEW s \in Sessions, CreateSession(s)
        PROVE  LateHooks'
    <2>1. \A t \in Tasks : hook[t] # {} => tasks[t].on # s
      BY <1>0, <1>2 DEF CreateSession, NamedExist, Exists, TasksNameSessions
    <2> QED
      BY <1>0, <1>2, <2>1 DEF CreateSession, LateHooks
  <1>3. ASSUME NEW t \in Tasks, CreateTask(t)
        PROVE  LateHooks'
    <2>1. hook[t] = {}
      BY <1>3 DEF CreateTask, TasksNameSessions
    <2> QED
      BY <1>0, <1>3, <2>1 DEF CreateTask, LateHooks, compVars
  <1>4. ASSUME NEW t \in Tasks, PublishTask(t)
        PROVE  LateHooks'
    BY <1>0, <1>4 DEF PublishTask, LateHooks, HandedOut
  <1>5. ASSUME NEW t \in Tasks, ApplyTask(t)
        PROVE  LateHooks'
    BY <1>0, <1>5 DEF ApplyTask, LateHooks
  <1>6. ASSUME NEW t \in Tasks, CompExecute(t)
        PROVE  LateHooks'
    <2>1. live' \subseteq live
      BY <1>6 DEF CompExecute
    <2> QED
      BY <1>0, <1>6, <2>1 DEF CompExecute, LateHooks, dbVars
  <1>7. CASE CompReport
    BY <1>0, <1>7 DEF CompReport, LateHooks, TaskRow, compVars
  <1>8. CASE CompCrash
    BY <1>0, <1>8 DEF CompCrash, LateHooks, dbVars
  <1>9. ASSUME UNCHANGED <<hook, busy>>, live' \subseteq live,
               inbox' \subseteq inbox \cup HandedOut
        PROVE  LateHooks'
    BY <1>1, <1>9
  <1> QED
    BY <1>2, <1>3, <1>4, <1>5, <1>6, <1>7, <1>8, <1>9
       DEF Next, vars, EndPatch, CompClose, BeginPatch, CheckSession,
           RestStatus, WsStatus, WsConnect, WsSubscribe, LinkDown, LinkUp,
           Tick, CleanStart, CleanTasks, CleanJudge, CleanSave,
           dbVars, cacheVars, compVars

\* The component does what a task asks before the key says so, and at most one
\* task is between the two.
LEMMA InStepStep ==
    ASSUME IInv, LockInv, [Next]_vars
    PROVE  InStep'
  <1> USE DEF IInv, TypeOK
  <1>0. NamedExist /\ LateHooks /\ InStep
    BY DEF LockInv
  <1>1. busy # NoTask => busy \in Tasks /\ tasks[busy].st # "none"
    BY DEF TasksNameSessions
  <1>2. ASSUME live' \subseteq live, busy' = busy,
               \A s \in live' : s \in compLocked' <=> s \in compLocked,
               \A s \in live' : Online(s)' => (s \in lockKey' <=> s \in lockKey)
        PROVE  InStep'
    <2>1. \A s, name : Under(s, name)' <=> Under(s, name)
      BY <1>1, <1>2, RowsGrow DEF Under
    <2>2. \A s \in live' : Online(s)' => Online(s)
      BY <1>0, <1>2, RowsGrow DEF NamedExist
    <2> SUFFICES ASSUME NEW s \in live', Online(s)'
                 PROVE  /\ Under(s, "lock_session")' => s \in compLocked'
                        /\ Under(s, "unlock_session")' => s \notin compLocked'
                        /\ ~Under(s, "lock_session")' /\ ~Under(s, "unlock_session")'
                             => (s \in lockKey' <=> s \in compLocked')
      BY DEF InStep
    <2>3. s \in live /\ Online(s)
      BY <1>2, <2>2
    <2>4. (s \in lockKey' <=> s \in lockKey) /\ (s \in compLocked' <=> s \in compLocked)
      BY <1>2
    <2> QED
      BY <1>0, <2>1, <2>3, <2>4, Zenon DEF InStep
  <1>3. ASSUME NEW s \in Sessions, CreateSession(s)
        PROVE  InStep'
    <2>1. s \notin lockKey /\ s \notin live /\ s \notin compLocked
      BY <1>0, <1>3 DEF CreateSession, NamedExist, Exists
    <2>2. \A name : ~Under(s, name)'
      BY <1>0, <1>1, <1>3 DEF CreateSession, NamedExist, Exists, Under
    <2>3. \A x \in live : x # s => (Online(x)' <=> Online(x))
      BY <1>3 DEF CreateSession, Online
    <2>4. \A x, name : Under(x, name)' <=> Under(x, name)
      BY <1>3 DEF CreateSession, Under
    <2> QED
      BY <1>0, <1>3, <2>1, <2>2, <2>3, <2>4 DEF CreateSession, InStep
  <1>4. ASSUME NEW t \in Tasks, ApplyTask(t)
        PROVE  InStep'
    <2>1. UNCHANGED <<sess, tasks, live, compLocked>>
      BY <1>4 DEF ApplyTask
    <2>2. \A s \in live : s # tasks[t].on => (s \in lockKey' <=> s \in lockKey)
      BY <1>4 DEF ApplyTask
    <2>3. CASE busy # t
      <3>1. tasks[t].on \notin live /\ busy' = busy
        BY <1>0, <1>4, <2>3 DEF ApplyTask, LateHooks
      <3> QED
        BY <1>2, <2>1, <2>2, <3>1
    <2>4. CASE busy = t
      <3>1. busy' = NoTask /\ \A s, name : ~Under(s, name)'
        BY <1>4, <2>4 DEF ApplyTask, Under
      <3>2. \A s \in live : s # tasks[t].on => \A name : ~Under(s, name)
        BY <2>4 DEF Under
      <3>3. ASSUME NEW s \in live, Online(s), s = tasks[t].on
            PROVE  s \in lockKey' <=> s \in compLocked
        <4>0. t # NoTask
          OBVIOUS
        <4>1. CASE tasks[t].name = "lock_session"
          BY <1>0, <1>4, <2>4, <3>3, <4>0, <4>1 DEF ApplyTask, InStep, Under
        <4>2. CASE tasks[t].name = "unlock_session"
          BY <1>0, <1>4, <2>4, <3>3, <4>0, <4>2 DEF ApplyTask, InStep, Under
        <4>3. CASE tasks[t].name \notin {"lock_session", "unlock_session"}
          <5>1. lockKey' = lockKey
            BY <1>4, <4>3 DEF ApplyTask
          <5> QED
            BY <1>0, <2>4, <3>3, <4>3, <5>1 DEF InStep, Under
        <4> QED
          BY <4>1, <4>2, <4>3
      <3> QED
        BY <1>0, <2>1, <2>2, <3>1, <3>2, <3>3 DEF InStep, Online
    <2> QED
      BY <2>3, <2>4
  <1>5. ASSUME NEW t \in Tasks, CompExecute(t)
        PROVE  InStep'
    <2>1. /\ UNCHANGED <<sess, tasks, lockKey>> /\ busy = NoTask /\ busy' = t
          /\ tasks[t].name \in TaskNames /\ t # NoTask
      BY <1>5 DEF CompExecute, dbVars, cacheVars, TaskRow
    <2>2. \A s, name : Under(s, name)' <=> tasks[t].on = s /\ tasks[t].name = name
      BY <2>1 DEF Under
    <2>3. \A s \in live : Online(s) => (s \in lockKey <=> s \in compLocked)
      BY <1>0, <2>1 DEF InStep, Under
    <2>4. CASE tasks[t].name = "kill_session"
      BY <1>5, <2>1, <2>2, <2>3, <2>4 DEF CompExecute, InStep, Online
    <2>5. CASE tasks[t].name = "lock_session"
      BY <1>5, <2>1, <2>2, <2>3, <2>5 DEF CompExecute, InStep, Online
    <2>6. CASE tasks[t].name = "unlock_session"
      BY <1>5, <2>1, <2>2, <2>3, <2>6 DEF CompExecute, InStep, Online
    <2> QED
      BY <2>1, <2>4, <2>5, <2>6 DEF TaskNames
  <1>6. ASSUME NEW s \in Sessions, EndPatch(s)
        PROVE  InStep'
    <2>1. \A x \in live : Online(x)' => (x \in lockKey' <=> x \in lockKey)
      <3>1. patch[s].snap = sess[s] /\ sess[s] \in Row
        BY <1>6 DEF EndPatch, LockedRowIsFresh
      <3> QED
        BY <1>6, <3>1 DEF EndPatch, SaveSession, Online, Row
    <2> QED
      BY <1>2, <1>6, <2>1 DEF EndPatch
  <1>7. CASE CleanSave
    <2>1. \A x \in live : Online(x)' => (x \in lockKey' <=> x \in lockKey)
      <3>1. cleaner.cur \in Sessions /\ cleaner.snap[cleaner.cur] \in Row
        BY <1>7 DEF CleanSave, CleanerOnSession, CleanerState
      <3> QED
        BY <1>7, <3>1 DEF CleanSave, SaveSession, Online, Row
    <2> QED
      BY <1>2, <1>7, <2>1 DEF CleanSave, compVars
  <1>8. ASSUME NEW s \in Sessions, CompClose(s)
        PROVE  InStep'
    BY <1>2, <1>8 DEF CompClose, dbVars, cacheVars
  <1>9. CASE CompCrash
    BY <1>9 DEF CompCrash, InStep
  <1>10. ASSUME UNCHANGED <<live, busy, lockKey, compLocked>>
         PROVE  InStep'
    BY <1>2, <1>10
  <1> QED
    BY <1>3, <1>4, <1>5, <1>6, <1>7, <1>8, <1>9, <1>10
       DEF Next, vars, BeginPatch, CheckSession, CreateTask, PublishTask,
           RestStatus, WsStatus, WsConnect, WsSubscribe, CompReport, LinkDown,
           LinkUp, Tick, CleanStart, CleanTasks, CleanJudge, SetActive,
           dbVars, cacheVars, compVars

\* What the API shows as locked is what the component enforces, whenever it is
\* not in the middle of a task: for any number of sessions and tasks, with
\* tasks that are redelivered or swept, late hooks and crashes
\* (Session.is_locked, on_task_created, clean_orphan_session).
THEOREM LockKeyAgrees == Spec => []LockAgrees
  <1>1. Init => LockInv
    BY DEF Init, LockInv, NamedExist, LateHooks, InStep
  <1>2. IInv /\ LockInv /\ [Next]_vars => LockInv'
    BY NamedStep, LateStep, InStepStep DEF LockInv
  <1>3. LockInv => LockAgrees
    BY DEF LockInv, InStep, Under, LockAgrees, is_locked
  <1> QED
    BY <1>1, <1>2, <1>3, Inductive, PTL DEF Spec
=============================================================================
