-------------------------- MODULE TerminalSession --------------------------
(***************************************************************************)
(* The life of an asset session as the core keeps it: the Session and Task *)
(* rows of the database, the two cache keys of a session (active, locked), *)
(* the operator requests that create tasks, the terminal component that    *)
(* carries sessions and executes tasks, and the periodic task              *)
(* clean_orphan_session.                                                   *)
(*                                                                         *)
(* An HTTP request is one transaction (ATOMIC_REQUESTS).  A request whose  *)
(* reads and writes can be separated by another actor is two actions; the  *)
(* row lock of a session PATCH is modelled by `patch'.  The component is   *)
(* another program: its actions are what the API lets it do.               *)
(***************************************************************************)
EXTENDS Naturals, FiniteSets

CONSTANTS
    Sessions,      \* session ids
    Tasks,         \* task ids
    NoTask,        \* the component executes nothing
    NoSession,     \* the cleaner looks at nothing
    Transports,    \* how the component talks: subset of {"rest", "ws"}
    ActiveTTL,     \* lifetime of the ACTIVE cache key, in time units
    TaskWindow,    \* tasks older than this are not handed out
    MaxFaults      \* bound on crashes and link failures

ASSUME SessionsAssumption ==
    /\ NoTask \notin Tasks
    /\ NoSession \notin Sessions
    /\ Transports \subseteq {"rest", "ws"}
    /\ ActiveTTL \in Nat \ {0}
    /\ TaskWindow \in Nat \ {0}
    /\ MaxFaults \in Nat

VARIABLES
    sess,       \* Session rows
    patch,      \* the PATCH request that holds the row lock of a session
    tasks,      \* Task rows
    hook,       \* per task, the on_commit hooks that have not run yet
    admin,      \* the operator request between its check and its insert
    idle,       \* per session, time since its creation or last heartbeat
    beaten,     \* sessions for which a heartbeat was ever received
    lockKey,    \* sessions with a TOGGLE_LOCKED_SESSION key
    cleaner,    \* clean_orphan_session: its pc, queryset and current session
    ws,         \* the component's websocket: down, listed, subscribed
    link,       \* the network between component and core
    live,       \* sessions the component carries
    ended,      \* sessions the component has closed and not yet reported
    inbox,      \* tasks handed to the component
    busy,       \* the task the component executes and has not reported
    compLocked, \* sessions the component holds locked
    faults      \* number of faults so far

vars == <<sess, patch, tasks, hook, admin, idle, beaten, lockKey, cleaner,
          ws, link, live, ended, inbox, busy, compLocked, faults>>

dbVars     == <<sess, patch, tasks, hook, admin>>
cacheVars  == <<idle, beaten, lockKey>>
compVars   == <<ws, link, live, ended, inbox, busy, compLocked, faults>>

TaskNames == {"kill_session", "lock_session", "unlock_session"}
Row       == [state: {"absent", "online", "finished"}, replay: BOOLEAN]
TaskRow   == [st: {"none"}, name: TaskNames, on: {NoSession}, age: {0}]
               \cup [st: {"open", "done"}, name: TaskNames,
                     on: Sessions, age: 0..TaskWindow]
Patches   == [what: {"none", "finish", "replay"}, snap: Row]
NoPatch   == [what |-> "none", snap |-> [state |-> "absent", replay |-> FALSE]]
Requests  == [name: TaskNames, on: Sessions \cup {NoSession}]
NoRequest == [name |-> "kill_session", on |-> NoSession]

CleanerState ==
    [pc: {"idle", "tasks", "judge", "save"}, todo: SUBSET Sessions,
     cur: Sessions \cup {NoSession}, snap: [Sessions -> Row]]

NotCleaning == [pc |-> "idle", todo |-> {}, cur |-> NoSession,
                snap |-> [s \in Sessions |-> NoPatch.snap]]

TypeOK ==
    /\ sess \in [Sessions -> Row]
    /\ patch \in [Sessions -> Patches]
    /\ tasks \in [Tasks -> TaskRow]
    /\ hook \in [Tasks -> SUBSET {"publish", "apply"}]
    /\ admin \in Requests
    /\ idle \in [Sessions -> 0..ActiveTTL]
    /\ beaten \subseteq Sessions
    /\ lockKey \subseteq Sessions
    /\ cleaner \in CleanerState
    /\ ws \in {"down", "listed", "subscribed"}
    /\ link \in BOOLEAN
    /\ live \subseteq Sessions
    /\ ended \subseteq Sessions
    /\ inbox \subseteq Tasks
    /\ busy \in Tasks \cup {NoTask}
    /\ compLocked \subseteq Sessions
    /\ faults \in 0..MaxFaults

Init ==
    /\ sess = [s \in Sessions |-> NoPatch.snap]
    /\ patch = [s \in Sessions |-> NoPatch]
    /\ tasks = [t \in Tasks |-> [st |-> "none", name |-> "kill_session",
                                 on |-> NoSession, age |-> 0]]
    /\ hook = [t \in Tasks |-> {}]
    /\ admin = NoRequest
    /\ idle = [s \in Sessions |-> 0]
    /\ beaten = {}
    /\ lockKey = {}
    /\ cleaner = NotCleaning
    /\ ws = "down"
    /\ link = TRUE
    /\ live = {} /\ ended = {} /\ inbox = {} /\ compLocked = {}
    /\ busy = NoTask
    /\ faults = 0

-----------------------------------------------------------------------------
(* Session *)

Online(s) == sess[s].state = "online"

\* Mutant of is_active: the key is set without a timeout.
is_activeForever(s) == s \in beaten

\* Session.is_active: the ACTIVE key was set and has not expired.
is_active(s) == s \in beaten /\ idle[s] < ActiveTTL

\* Session.is_locked
is_locked(s) == Online(s) /\ s \in lockKey

\* Saving a row; post_save of a finished session drops its lock key.
SaveSession(s, row) ==
    /\ sess' = [sess EXCEPT ![s] = row]
    /\ lockKey' = IF row.state = "finished" THEN lockKey \ {s} ELSE lockKey

\* The component opens a connection and POSTs the session.
CreateSession(s) ==
    /\ link
    /\ sess[s].state = "absent"
    /\ sess' = [sess EXCEPT ![s].state = "online"]
    /\ idle' = [idle EXCEPT ![s] = 0]
    /\ live' = live \cup {s}
    /\ UNCHANGED <<patch, tasks, hook, admin, beaten, lockKey, cleaner, ws,
                   link, ended, inbox, busy, compLocked, faults>>

\* PATCH of a session: the queryset takes the row lock and reads the row.
BeginPatch(s, what) ==
    /\ link
    /\ patch[s] = NoPatch
    /\ sess[s].state # "absent"                     \* get_object, or 404
    /\ \/ what = "finish" /\ s \in ended
       \/ what = "replay" /\ s \notin live
    /\ patch' = [patch EXCEPT ![s] = [what |-> what, snap |-> sess[s]]]
    /\ UNCHANGED <<sess, tasks, hook, admin, cleaner>>
    /\ UNCHANGED cacheVars /\ UNCHANGED compVars

\* Mutant of EndPatch: the fields the request leaves out go back to defaults.
EndPatchDefaults(s) ==
    /\ patch[s] # NoPatch
    /\ SaveSession(s, IF patch[s].what = "finish"
                      THEN [state |-> "finished", replay |-> FALSE]
                      ELSE [patch[s].snap EXCEPT !.replay = TRUE])
    /\ ended' = IF patch[s].what = "finish" THEN ended \ {s} ELSE ended
    /\ patch' = [patch EXCEPT ![s] = NoPatch]
    /\ UNCHANGED <<tasks, hook, admin, idle, beaten, cleaner, ws, link, live,
                   inbox, busy, compLocked, faults>>

\* The serializer writes every field of the row it read, and commits.
EndPatch(s) ==
    /\ patch[s] # NoPatch
    /\ LET p == patch[s] IN
         SaveSession(s, IF p.what = "finish"
                        THEN [p.snap EXCEPT !.state = "finished"]
                        ELSE [p.snap EXCEPT !.replay = TRUE])
    /\ ended' = IF patch[s].what = "finish" THEN ended \ {s} ELSE ended
    /\ patch' = [patch EXCEPT ![s] = NoPatch]
    /\ UNCHANGED <<tasks, hook, admin, idle, beaten, cleaner, ws, link, live,
                   inbox, busy, compLocked, faults>>

-----------------------------------------------------------------------------
(* Tasks *)

\* create_sessions_tasks, first half: the session exists and is not finished.
CheckSession(s, name) ==
    /\ admin = NoRequest
    /\ Online(s)
    /\ \E t \in Tasks : tasks[t].st = "none"      \* bound on tasks
    /\ admin' = [name |-> name, on |-> s]
    /\ UNCHANGED <<sess, patch, tasks, hook, cleaner>>
    /\ UNCHANGED cacheVars /\ UNCHANGED compVars

\* Mutant of CreateTask: the task is inserted without its argument.
CreateTaskNoArgs(t) ==
    /\ admin # NoRequest
    /\ tasks[t].st = "none"
    /\ tasks' = [tasks EXCEPT ![t] = [st |-> "open", name |-> admin.name,
                                      on |-> NoSession, age |-> 0]]
    /\ hook' = [hook EXCEPT ![t] = @ \cup {"publish"}]
    /\ admin' = NoRequest
    /\ UNCHANGED <<sess, patch, cleaner>>
    /\ UNCHANGED cacheVars /\ UNCHANGED compVars

\* create_sessions_tasks, second half: the task is inserted and committed.
CreateTask(t) ==
    /\ admin # NoRequest
    /\ tasks[t].st = "none"
    /\ tasks' = [tasks EXCEPT ![t] = [st |-> "open", name |-> admin.name,
                                      on |-> admin.on, age |-> 0]]
    /\ hook' = [hook EXCEPT ![t] = @ \cup {"publish"}]
    /\ admin' = NoRequest
    /\ UNCHANGED <<sess, patch, cleaner>>
    /\ UNCHANGED cacheVars /\ UNCHANGED compVars

\* task_set.filter(is_finished=False, date_created__gte=critical_time)
HandedOut == {t \in Tasks : tasks[t].st = "open" /\ tasks[t].age < TaskWindow}

\* on_task_created after an insert: the event reaches a subscribed websocket,
\* whose handler reads the task again and sends it.
PublishTask(t) ==
    /\ "publish" \in hook[t]
    /\ hook' = [hook EXCEPT ![t] = @ \ {"publish"}]
    /\ inbox' = IF ws = "subscribed" /\ link /\ t \in HandedOut
                THEN inbox \cup {t} ELSE inbox
    /\ UNCHANGED <<sess, patch, tasks, admin, cleaner, ws, link, live, ended,
                   busy, compLocked, faults>>
    /\ UNCHANGED cacheVars

\* on_task_created after the component saved the task as finished.
ApplyTask(t) ==
    /\ "apply" \in hook[t]
    /\ hook' = [hook EXCEPT ![t] = @ \ {"apply"}]
    /\ lockKey' = CASE tasks[t].name = "lock_session" ->
                         lockKey \cup {tasks[t].on}
                    [] tasks[t].name = "unlock_session" ->
                         lockKey \ {tasks[t].on}
                    [] OTHER -> lockKey
    /\ busy' = IF busy = t THEN NoTask ELSE busy     \* the PATCH is answered
    /\ UNCHANGED <<sess, patch, tasks, admin, idle, beaten, cleaner, ws, link,
                   live, ended, inbox, compLocked, faults>>

-----------------------------------------------------------------------------
(* Heartbeats and the websocket of the component *)

\* Session.set_sessions_active, for the sessions the component lists.
SetActive ==
    /\ beaten' = beaten \cup live
    /\ idle' = [s \in Sessions |-> IF s \in live THEN 0 ELSE idle[s]]

\* Mutant of RestStatus: the answer lists no tasks.
RestStatusNoTasks ==
    /\ "rest" \in Transports /\ link
    /\ SetActive
    /\ UNCHANGED <<lockKey, cleaner>>
    /\ UNCHANGED dbVars /\ UNCHANGED compVars

\* StatusViewSet.create: the answer lists the terminal's open tasks.
RestStatus ==
    /\ "rest" \in Transports /\ link
    /\ SetActive
    /\ inbox' = inbox \cup HandedOut
    /\ UNCHANGED <<lockKey, cleaner, ws, link, live, ended, busy, compLocked,
                   faults>>
    /\ UNCHANGED dbVars

\* TerminalTaskWebsocket.handle_status: no tasks in return.
WsStatus ==
    /\ ws # "down" /\ link
    /\ SetActive
    /\ UNCHANGED <<lockKey, cleaner>>
    /\ UNCHANGED dbVars /\ UNCHANGED compVars

\* TerminalTaskWebsocket.connect: the open tasks are sent first ...
WsConnect ==
    /\ "ws" \in Transports /\ link
    /\ ws = "down"
    /\ ws' = "listed"
    /\ inbox' = inbox \cup HandedOut
    /\ UNCHANGED <<cleaner, link, live, ended, busy, compLocked, faults>>
    /\ UNCHANGED dbVars /\ UNCHANGED cacheVars

\* ... and the event channel is subscribed after that.
WsSubscribe ==
    /\ ws = "listed"
    /\ ws' = "subscribed"
    /\ UNCHANGED <<cleaner, link, live, ended, inbox, busy, compLocked, faults>>
    /\ UNCHANGED dbVars /\ UNCHANGED cacheVars

-----------------------------------------------------------------------------
(* The component (another program, seen through the API it calls) *)

\* It takes a task it was handed and carries it out on its own sessions.
CompExecute(t) ==
    /\ t \in inbox /\ busy = NoTask
    /\ busy' = t
    /\ inbox' = inbox \ {t}
    /\ LET s == tasks[t].on IN
         \/ /\ tasks[t].name = "kill_session"
            /\ live' = live \ {s}
            /\ ended' = ended \cup ({s} \cap live)
            /\ compLocked' = compLocked \ {s}
         \/ /\ tasks[t].name = "lock_session"
            /\ compLocked' = compLocked \cup ({s} \cap live)
            /\ UNCHANGED <<live, ended>>
         \/ /\ tasks[t].name = "unlock_session"
            /\ compLocked' = compLocked \ {s}
            /\ UNCHANGED <<live, ended>>
    /\ UNCHANGED <<cleaner, ws, link, faults>>
    /\ UNCHANGED dbVars /\ UNCHANGED cacheVars

\* PATCH of the task it executed: saved as finished, hook queued at commit.
\* The answer comes after the hook ran; the component waits for it.
CompReport ==
    /\ busy # NoTask /\ link
    /\ "apply" \notin hook[busy]
    /\ tasks' = [tasks EXCEPT ![busy].st = "done"]
    /\ hook' = [hook EXCEPT ![busy] = @ \cup {"apply"}]
    /\ UNCHANGED <<sess, patch, admin, cleaner>>
    /\ UNCHANGED cacheVars /\ UNCHANGED compVars

\* The user disconnects.
CompClose(s) ==
    /\ s \in live
    /\ live' = live \ {s}
    /\ ended' = ended \cup {s}
    /\ compLocked' = compLocked \ {s}
    /\ UNCHANGED <<cleaner, ws, link, inbox, busy, faults>>
    /\ UNCHANGED dbVars /\ UNCHANGED cacheVars

\* The component dies: its sessions, and what it had not reported, are gone.
CompCrash ==
    /\ faults < MaxFaults
    /\ faults' = faults + 1
    /\ ws' = "down" /\ busy' = NoTask
    /\ live' = {} /\ ended' = {} /\ inbox' = {} /\ compLocked' = {}
    /\ UNCHANGED <<cleaner, link>>
    /\ UNCHANGED dbVars /\ UNCHANGED cacheVars

LinkDown ==
    /\ faults < MaxFaults /\ link
    /\ faults' = faults + 1
    /\ link' = FALSE /\ ws' = "down"
    /\ UNCHANGED <<cleaner, live, ended, inbox, busy, compLocked>>
    /\ UNCHANGED dbVars /\ UNCHANGED cacheVars

LinkUp ==
    /\ ~link
    /\ link' = TRUE
    /\ UNCHANGED <<cleaner, ws, live, ended, inbox, busy, compLocked, faults>>
    /\ UNCHANGED dbVars /\ UNCHANGED cacheVars

\* The ACTIVE key one time unit later; its timeout is ActiveTTL.
Older(s) == IF Online(s) /\ idle[s] < ActiveTTL THEN idle[s] + 1 ELSE idle[s]

\* A connected component beats well within ActiveTTL (its own timer).
Tick ==
    /\ link => \A s \in live : idle[s] = 0
    /\ idle' = [s \in Sessions |-> Older(s)]
    /\ tasks' = [t \in Tasks |->
                  IF tasks[t].st = "open" /\ tasks[t].age < TaskWindow
                  THEN [tasks[t] EXCEPT !.age = @ + 1] ELSE tasks[t]]
    /\ UNCHANGED <<sess, patch, hook, admin, beaten, lockKey, cleaner>>
    /\ UNCHANGED compVars

-----------------------------------------------------------------------------
(* clean_orphan_session *)

\* The queryset of unfinished sessions is read once, rows included.
CleanStart ==
    /\ cleaner.pc = "idle"
    /\ \E s \in Sessions : Online(s)
    /\ \E s \in {x \in Sessions : Online(x)} :
         cleaner' = [pc |-> "tasks", cur |-> s, snap |-> sess,
                     todo |-> {x \in Sessions : Online(x)} \ {s}]
    /\ UNCHANGED dbVars /\ UNCHANGED cacheVars /\ UNCHANGED compVars

\* Mutant of CleanTasks: each task is saved, so that the signal fires.
CleanTasksBySave ==
    LET swept == {t \in Tasks : tasks[t].on = cleaner.cur
                                /\ tasks[t].st = "open"} IN
    /\ cleaner.pc = "tasks"
    /\ tasks' = [t \in Tasks |-> IF t \in swept
                                  THEN [tasks[t] EXCEPT !.st = "done"]
                                  ELSE tasks[t]]
    /\ hook' = [t \in Tasks |-> IF t \in swept THEN hook[t] \cup {"apply"}
                                                ELSE hook[t]]
    /\ cleaner' = [cleaner EXCEPT !.pc = "judge"]
    /\ UNCHANGED <<sess, patch, admin>>
    /\ UNCHANGED cacheVars /\ UNCHANGED compVars

\* Mutant of CleanTasks: only an inactive session has its tasks closed.
CleanTasksOfInactive ==
    /\ cleaner.pc = "tasks"
    /\ tasks' = [t \in Tasks |->
                   IF tasks[t].on = cleaner.cur /\ ~is_active(cleaner.cur)
                      /\ tasks[t].st = "open"
                   THEN [tasks[t] EXCEPT !.st = "done"] ELSE tasks[t]]
    /\ cleaner' = [cleaner EXCEPT !.pc = "judge"]
    /\ UNCHANGED <<sess, patch, hook, admin>>
    /\ UNCHANGED cacheVars /\ UNCHANGED compVars

\* All open tasks of the session are marked finished by a queryset update:
\* no post_save, hence no hook.
CleanTasks ==
    /\ cleaner.pc = "tasks"
    /\ tasks' = [t \in Tasks |->
                   IF tasks[t].on = cleaner.cur /\ tasks[t].st = "open"
                   THEN [tasks[t] EXCEPT !.st = "done"] ELSE tasks[t]]
    /\ cleaner' = [cleaner EXCEPT !.pc = "judge"]
    /\ UNCHANGED <<sess, patch, hook, admin>>
    /\ UNCHANGED cacheVars /\ UNCHANGED compVars

\* The loop goes on with another session of the queryset, or ends.
NextSession ==
    IF cleaner.todo = {}
    THEN cleaner' = NotCleaning
    ELSE \E s \in cleaner.todo :
           cleaner' = [cleaner EXCEPT !.pc = "tasks", !.cur = s,
                                      !.todo = @ \ {s}]

\* if session.is_active(): continue
CleanJudge ==
    /\ cleaner.pc = "judge"
    /\ IF is_active(cleaner.cur) THEN NextSession
       ELSE cleaner' = [cleaner EXCEPT !.pc = "save"]
    /\ UNCHANGED dbVars /\ UNCHANGED cacheVars /\ UNCHANGED compVars

\* Mutant of CleanSave: the PATCH queryset has no select_for_update.
CleanSaveUnlocked ==
    /\ cleaner.pc = "save"
    /\ SaveSession(cleaner.cur,
                   [cleaner.snap[cleaner.cur] EXCEPT !.state = "finished"])
    /\ NextSession
    /\ UNCHANGED <<patch, tasks, hook, admin, idle, beaten>>
    /\ UNCHANGED compVars

\* The row read at the start is written back as finished; a PATCH that
\* holds the row lock makes the write wait.
CleanSave ==
    /\ cleaner.pc = "save"
    /\ patch[cleaner.cur] = NoPatch
    /\ SaveSession(cleaner.cur,
                   [cleaner.snap[cleaner.cur] EXCEPT !.state = "finished"])
    /\ NextSession
    /\ UNCHANGED <<patch, tasks, hook, admin, idle, beaten>>
    /\ UNCHANGED compVars

-----------------------------------------------------------------------------
Next ==
    \/ \E s \in Sessions : CreateSession(s) \/ EndPatch(s) \/ CompClose(s)
    \/ \E s \in Sessions, what \in {"finish", "replay"} : BeginPatch(s, what)
    \/ \E s \in Sessions, name \in TaskNames : CheckSession(s, name)
    \/ \E t \in Tasks : \/ CreateTask(t) \/ PublishTask(t)
                         \/ ApplyTask(t) \/ CompExecute(t)
    \/ RestStatus \/ WsStatus \/ WsConnect \/ WsSubscribe
    \/ CompReport \/ CompCrash \/ LinkDown \/ LinkUp
    \/ Tick
    \/ CleanStart \/ CleanTasks \/ CleanJudge \/ CleanSave

Spec == Init /\ [][Next]_vars

\* Celery beat keeps the cleaner running, requests and hooks complete, time
\* passes; a write that waits for a row lock is granted it in turn, whoever
\* else asks for it (strong fairness of CleanSave).  Nothing is assumed of
\* operators, users or the component.
CoreFairness ==
    /\ WF_vars(CleanStart) /\ WF_vars(CleanTasks)
    /\ WF_vars(CleanJudge) /\ SF_vars(CleanSave)
    /\ WF_vars(Tick)
    /\ \A s \in Sessions : WF_vars(EndPatch(s))
    /\ \A t \in Tasks : WF_vars(PublishTask(t)) /\ WF_vars(ApplyTask(t))

\* In addition a connected component beats, executes, and reports.
CompFairness ==
    /\ WF_vars(RestStatus) /\ WF_vars(WsStatus) /\ WF_vars(CompReport)
    /\ WF_vars(WsConnect) /\ WF_vars(WsSubscribe)
    /\ \A t \in Tasks : WF_vars(CompExecute(t))
    /\ \A s \in Sessions : WF_vars(BeginPatch(s, "finish"))

FairSpec == Spec /\ CoreFairness
LiveSpec == FairSpec /\ CompFairness

\* The system between two runs of the cleaner.
UncleanedSpec ==
    Init /\ [][Next /\ UNCHANGED cleaner]_vars /\ CompFairness
    /\ \A s \in Sessions : WF_vars(EndPatch(s))
    /\ \A t \in Tasks : WF_vars(PublishTask(t)) /\ WF_vars(ApplyTask(t))

-----------------------------------------------------------------------------
(* Safety *)

\* The row lock does its work: while a PATCH is open, the row it read is the
\* row in the database, so that writing every field back loses nothing.
LockedRowIsFresh ==
    \A s \in Sessions : patch[s] # NoPatch => patch[s].snap = sess[s]

\* Only a row that exists is locked.
PatchOfExisting ==
    \A s \in Sessions : patch[s] # NoPatch => sess[s].state # "absent"

\* The operator's request is about a session, and a task that is handed out,
\* executed, or whose hook is queued is a row that was inserted.
TasksNameSessions ==
    /\ admin # NoRequest => admin.on \in Sessions
    /\ \A t \in Tasks : (hook[t] # {} \/ t \in inbox \/ t = busy)
                          => tasks[t].st # "none"

\* While the cleaner runs it looks at a session of its queryset.
CleanerOnSession == cleaner.pc # "idle" => cleaner.cur \in Sessions

\* A finished session never comes back to life, although three writers save
\* whole rows they read earlier (two PATCHes, the cleaner).
FinishedIsFinal ==
    [][\A s \in Sessions : sess[s].state = "finished"
                              => sess'[s].state = "finished"]_vars

\* The recording flag is lost only by the cleaner, which writes back a row
\* it read without a lock.
ReplayLostOnlyByCleaner ==
    [][\A s \in Sessions : sess[s].replay /\ ~sess'[s].replay
          => cleaner.pc = "save" /\ cleaner.cur = s]_vars

\* What the API shows as locked is what the component enforces, for every
\* session it carries and whenever it is not in the middle of a task: sweeping,
\* redelivery and crashes included.
LockAgrees ==
    \A s \in live :
       (Online(s) /\ busy = NoTask) => (is_locked(s) <=> s \in compLocked)

-----------------------------------------------------------------------------
(* Liveness *)

\* A session its component no longer carries is finished in the end, also
\* when the component died before it could report.
OrphanFinished ==
    \A s \in Sessions :
       (Online(s) /\ s \notin live) ~> (sess[s].state = "finished")

\* No task of an unfinished session stays open: executed or swept.
TaskSettles ==
    \A t \in Tasks, s \in Sessions :
       (tasks[t].st = "open" /\ tasks[t].on = s)
         ~> (tasks[t].st = "done" \/ ~Online(s))

\* Between two runs of the cleaner a kill request reaches a component that
\* polls, and the session it names is carried no longer.
KillTakesEffect ==
    \A t \in Tasks, s \in Sessions :
       (tasks[t].st = "open" /\ tasks[t].name = "kill_session"
          /\ tasks[t].on = s) ~> (s \notin live)

=============================================================================
