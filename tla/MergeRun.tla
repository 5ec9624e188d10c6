------------------------------ MODULE MergeRun ------------------------------
(***************************************************************************)
(* merge_delay_run (apps/common/decorators.py): calls of one function made *)
(* within a while are merged into one delayed run with the union of their  *)
(* arguments.  Three dictionaries of the process, shared by its threads,   *)
(* hold the merged arguments, the task that waits and the time of the      *)
(* first call; here are their entries for one function.  A request thread  *)
(* makes a call; the event loop lets its task sleep; a thread of the       *)
(* executor runs the function and then clears the entries.                 *)
(***************************************************************************)
EXTENDS FiniteSets

CONSTANTS
    Calls,      \* the calls; each brings itself as its argument
    None

ASSUME MergeAssumption == None \notin Calls

VARIABLES
    args_cache,   \* the dict with the merged arguments, named by its creator
    dict,         \* the contents of each dict
    task_cache,   \* the task that waits, named by the call that made it
    time_cache,   \* whether the time of the first call is noted
    pc,           \* where each call is
    mine,         \* the dict each call found or created and merges into
    kwargs,       \* the arguments each call has read, then those its task will bring
    job,          \* the task of each call
    cancelled,    \* the tasks that were cancelled before they were done
    ran,          \* the arguments the function has been run with
    torn          \* history: the arguments on their way while threads overlapped

caches == <<args_cache, dict, task_cache, time_cache>>
vars ==
    <<args_cache, dict, task_cache, time_cache, pc, mine, kwargs, job, cancelled, ran, torn>>

TypeOK ==
    /\ args_cache \in Calls \cup {None}
    /\ dict \in [Calls -> SUBSET Calls]
    /\ task_cache \in Calls \cup {None}
    /\ time_cache \in BOOLEAN
    /\ pc \in [Calls -> {"new", "got", "put", "remove", "schedule", "submit",
                        "wait", "done", "failed"}]
    /\ mine \in [Calls -> Calls \cup {None}]
    /\ kwargs \in [Calls -> SUBSET Calls]
    /\ \A c \in Calls : pc[c] \in {"got", "put"} => mine[c] \in Calls
    /\ job \in [Calls -> {"none", "sleep", "queued", "running",
                          "pop_args", "pop_time", "ended"}]
    /\ cancelled \in SUBSET Calls
    /\ ran \in SUBSET Calls
    /\ torn \in SUBSET Calls

Init ==
    /\ args_cache = None
    /\ dict = [c \in Calls |-> {}]
    /\ task_cache = None
    /\ time_cache = FALSE
    /\ pc = [c \in Calls |-> "new"]
    /\ mine = [c \in Calls |-> None]
    /\ kwargs = [c \in Calls |-> {}]
    /\ job = [c \in Calls |-> "none"]
    /\ cancelled = {}
    /\ ran = {}
    /\ torn = {}

\* Threads between two statements.
Calling(c) == pc[c] \in {"got", "put", "remove", "schedule", "submit", "wait"}
Popping(j) == job[j] \in {"pop_args", "pop_time"}

\* One thread at a time is between two statements: a call, or the thread of the
\* executor that clears the entries.
OneThread ==
    \A c, d \in Calls :
       /\ Calling(c) /\ Calling(d) => c = d
       /\ Popping(c) /\ Popping(d) => c = d
       /\ ~(Calling(c) /\ Popping(d))

-----------------------------------------------------------------------------
(* delay, cancel_or_remove_debouncer_task, run_debouncer_func *)

\* Mutant of Get: no new dict when the cache has none.
GetNoDefault(c) ==
    /\ pc[c] = "new"
    /\ mine' = [mine EXCEPT ![c] = args_cache]
    /\ kwargs' = [kwargs EXCEPT ![c] = IF args_cache = None THEN {} ELSE dict[args_cache]]
    /\ pc' = [pc EXCEPT ![c] = "got"]
    /\ UNCHANGED <<caches, job, cancelled, ran>>

\* The merged arguments so far: the dict in the cache, or a new one.
Get(c) ==
    /\ pc[c] = "new"
    /\ LET m == IF args_cache = None THEN c ELSE args_cache
       IN  /\ mine' = [mine EXCEPT ![c] = m]
           /\ kwargs' = [kwargs EXCEPT ![c] = dict[m]]
    /\ pc' = [pc EXCEPT ![c] = "got"]
    /\ UNCHANGED <<caches, job, cancelled, ran>>

\* Mutant of Merged: a call replaces the arguments of the earlier ones.
MergedLast(c) == {c}

\* The union of what the call has read and its own argument.
Merged(c) == kwargs[c] \cup {c}

Put(c) ==
    /\ pc[c] = "got"
    /\ dict' = [dict EXCEPT ![mine[c]] = Merged(c)]
    /\ args_cache' = mine[c]
    /\ pc' = [pc EXCEPT ![c] = "put"]
    /\ UNCHANGED <<task_cache, time_cache, mine, kwargs, job, cancelled, ran>>

Done(j) == j \in cancelled \/ job[j] = "ended"

\* run_debouncer_func is called with the arguments in the dict.  A task in the
\* cache that is done will be removed, another one is cancelled; that does not
\* stop its function when it runs already.
Cancel(c) ==
    /\ pc[c] = "put"
    /\ kwargs' = [kwargs EXCEPT ![c] = dict[mine[c]]]
    /\ IF task_cache \in Calls /\ Done(task_cache)
       THEN pc' = [pc EXCEPT ![c] = "remove"] /\ UNCHANGED cancelled
       ELSE /\ pc' = [pc EXCEPT ![c] = "schedule"]
            /\ cancelled' = cancelled \cup ({task_cache} \ {None})
    /\ mine' = [mine EXCEPT ![c] = None]
    /\ UNCHANGED <<caches, job, ran>>

\* del _loop_debouncer_func_task_cache[cache_key]: KeyError when another thread
\* removed the entry first, and the call fails.
Remove(c) ==
    /\ pc[c] = "remove"
    /\ task_cache' = None
    /\ pc' = [pc EXCEPT ![c] = IF task_cache = None THEN "failed" ELSE "schedule"]
    /\ UNCHANGED <<args_cache, dict, time_cache, mine, kwargs, job, cancelled, ran>>

\* The time of the first call is looked at, and noted if there is none.
Time(c) ==
    /\ pc[c] = "schedule"
    /\ \/ pc' = [pc EXCEPT ![c] = "wait"] /\ time_cache' = TRUE
       \/ pc' = [pc EXCEPT ![c] = "submit"] /\ time_cache /\ UNCHANGED time_cache
    /\ UNCHANGED <<args_cache, dict, task_cache, mine, kwargs, job, cancelled, ran>>

\* When it is more than ttl ago the merged arguments are dropped and the run is
\* handed to the executor at once.
Submit(c) ==
    /\ pc[c] = "submit"
    /\ args_cache' = None /\ time_cache' = FALSE
    /\ job' = [job EXCEPT ![c] = "queued"]
    /\ pc' = [pc EXCEPT ![c] = "done"]
    /\ UNCHANGED <<dict, task_cache, mine, kwargs, cancelled, ran>>

\* Otherwise a new task sleeps.
Wait(c) ==
    /\ pc[c] = "wait"
    /\ task_cache' = c
    /\ job' = [job EXCEPT ![c] = "sleep"]
    /\ pc' = [pc EXCEPT ![c] = "done"]
    /\ UNCHANGED <<args_cache, dict, time_cache, mine, kwargs, cancelled, ran>>

-----------------------------------------------------------------------------
(* Debouncer.__call__, _run_func_with_org *)

\* Mutant of Run: only the last argument reaches the function.
RunLast(j) ==
    /\ job[j] \in {"sleep", "queued"}
    /\ job' = [job EXCEPT ![j] = "running"]
    /\ ran' = ran \cup {j}
    /\ UNCHANGED <<caches, pc, mine, kwargs, cancelled>>

\* The delay is over and a thread of the executor runs the function, which the
\* loop also does with a cancelled task when it has not yet been told.
Run(j) ==
    /\ job[j] \in {"sleep", "queued"}
    /\ job' = [job EXCEPT ![j] = "running"]
    /\ ran' = ran \cup kwargs[j]
    /\ kwargs' = [kwargs EXCEPT ![j] = {}]
    /\ UNCHANGED <<caches, pc, mine, cancelled>>

\* The loop is told that a task is cancelled, which has not run.
Drop(j) ==
    /\ job[j] = "sleep" /\ j \in cancelled
    /\ job' = [job EXCEPT ![j] = "ended"]
    /\ kwargs' = [kwargs EXCEPT ![j] = {}]
    /\ UNCHANGED <<caches, pc, mine, cancelled, ran>>

\* The function has returned, or raised, and the entries are popped.
PopTask(j) ==
    /\ job[j] = "running"
    /\ task_cache' = None
    /\ job' = [job EXCEPT ![j] = "pop_args"]
    /\ UNCHANGED <<args_cache, dict, time_cache, pc, mine, kwargs, cancelled, ran>>

PopArgs(j) ==
    /\ job[j] = "pop_args"
    /\ args_cache' = None
    /\ job' = [job EXCEPT ![j] = "pop_time"]
    /\ UNCHANGED <<dict, task_cache, time_cache, pc, mine, kwargs, cancelled, ran>>

PopTime(j) ==
    /\ job[j] = "pop_time"
    /\ time_cache' = FALSE
    /\ job' = [job EXCEPT ![j] = "ended"]
    /\ UNCHANGED <<args_cache, dict, task_cache, pc, mine, kwargs, cancelled, ran>>

-----------------------------------------------------------------------------
\* The arguments that a task, or a call on its way, will bring to a run.
Carried ==
    UNION ( {kwargs[j] : j \in {x \in Calls \ cancelled : job[x] \in {"sleep", "queued"}}}
            \cup {dict[mine[c]] : c \in {x \in Calls : pc[x] = "put"}}
            \cup {Merged(c) : c \in {x \in Calls : pc[x] = "got"}}
            \cup {kwargs[c] : c \in {x \in Calls : pc[x] \in {"remove", "schedule", "submit", "wait"}}} )

\* Every step notes what is on its way while threads overlap.
Notes == torn' = IF OneThread' THEN torn ELSE torn \cup Carried'

CallStep(c) ==
    /\ \/ Get(c) \/ Put(c) \/ Cancel(c) \/ Remove(c)
       \/ Time(c) \/ Submit(c) \/ Wait(c)
    /\ Notes

JobStep(j) ==
    /\ Run(j) \/ Drop(j) \/ PopTask(j) \/ PopArgs(j) \/ PopTime(j)
    /\ Notes

Next == \E c \in Calls : CallStep(c) \/ JobStep(c)

Spec == Init /\ [][Next]_vars

\* A thread that has started goes on, the event loop and the executor too; no
\* call has to be made.
FairSpec ==
    /\ Spec
    /\ \A c \in Calls : WF_vars(pc[c] # "new" /\ CallStep(c)) /\ WF_vars(JobStep(c))

-----------------------------------------------------------------------------
(* Properties *)

\* No argument of a call that returned is lost: it was run with, or a task or a
\* call still carries it.  Only one that was on its way while two threads were
\* both in the bookkeeping may be: calls before and after that are safe, in
\* whatever state the overlap left the dictionaries (merge_delay_run).
NothingLost == \A c \in Calls : pc[c] = "done" => c \in ran \cup Carried \cup torn

Promise == INSTANCE MergedCalls WITH
    waiting <- (Carried \cup torn) \ ran,
    ran     <- ran

\* What is carried is what calls brought and the function has not been run with:
\* nothing else becomes of it, except by an overlap of threads while it is on
\* its way, and no run brings more, overlaps or not (MergedCalls;
\* merge_delay_run, run_debouncer_func).
KeepsPromise == Promise!Spec

\* The arguments of a call that returned are run with in the end, unless threads
\* overlapped while they were on their way.
EventuallyRun == \A c \in Calls : pc[c] = "done" ~> c \in ran \cup torn

=============================================================================
