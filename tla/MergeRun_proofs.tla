--------------------------- MODULE MergeRun_proofs ---------------------------
(***************************************************************************)
(* Proofs about MergeRun, for any number of calls and any interleaving of  *)
(* their threads: the types, that no argument is lost except one that was  *)
(* on its way during an overlap, and that MergedCalls is implemented.      *)
(***************************************************************************)
EXTENDS MergeRun, TLAPS

USE MergeAssumption

\* Every step keeps the types, also when threads overlap.
THEOREM Types == Spec => []TypeOK
  <1>1. Init => TypeOK
    BY DEF Init, TypeOK
  <1>2. TypeOK /\ [Next]_vars => TypeOK'
    <2> SUFFICES ASSUME TypeOK, [Next]_vars PROVE TypeOK'
      OBVIOUS
    <2> DEFINE Others == /\ args_cache \in Calls \cup {None}
                         /\ dict \in [Calls -> SUBSET Calls]
                         /\ task_cache \in Calls \cup {None} /\ time_cache \in BOOLEAN
                         /\ pc \in [Calls -> {"new", "got", "put", "remove", "schedule",
                                              "submit", "wait", "done", "failed"}]
                         /\ mine \in [Calls -> Calls \cup {None}]
                         /\ kwargs \in [Calls -> SUBSET Calls]
                         /\ \A c \in Calls : pc[c] \in {"got", "put"} => mine[c] \in Calls
                         /\ job \in [Calls -> {"none", "sleep", "queued", "running",
                                               "pop_args", "pop_time", "ended"}]
                         /\ cancelled \in SUBSET Calls /\ ran \in SUBSET Calls
    <2>1. Others'
      <3> USE DEF TypeOK, caches
      <3>1. ASSUME NEW c \in Calls, Get(c) PROVE Others'
        BY <3>1 DEF Get
      <3>2. ASSUME NEW c \in Calls, Put(c) PROVE Others'
        <4>1. mine[c] \in Calls /\ Merged(c) \in SUBSET Calls
          BY <3>2 DEF Put, Merged
        <4> QED
          BY <3>2, <4>1 DEF Put
      <3>3. ASSUME NEW c \in Calls, Cancel(c) PROVE Others'
        <4>1. dict[mine[c]] \in SUBSET Calls /\ cancelled' \in SUBSET Calls
          BY <3>3 DEF Cancel
        <4> QED
          BY <3>3, <4>1 DEF Cancel
      <3>4. ASSUME NEW c \in Calls, Remove(c) \/ Time(c) \/ Submit(c) \/ Wait(c) PROVE Others'
        <4>1. CASE Remove(c)
          BY <4>1 DEF Remove
        <4>2. CASE Time(c)
          BY <4>2 DEF Time
        <4>3. CASE Submit(c)
          BY <4>3 DEF Submit
        <4>4. CASE Wait(c)
          BY <4>4 DEF Wait
        <4> QED
          BY <3>4, <4>1, <4>2, <4>3, <4>4
      <3>5. ASSUME NEW c \in Calls, Run(c) \/ Drop(c) \/ PopTask(c) \/ PopArgs(c) \/ PopTime(c)
            PROVE  Others'
        BY <3>5 DEF Run, Drop, PopTask, PopArgs, PopTime
      <3>6. CASE UNCHANGED vars
        BY <3>6 DEF vars
      <3> QED
        BY <3>1, <3>2, <3>3, <3>4, <3>5, <3>6 DEF Next, CallStep, JobStep
    <2> HIDE DEF Others
    <2>2. Others' => Carried' \subseteq Calls
      BY DEF Others, Carried, Merged
    <2>3. torn' \in {torn, torn \cup Carried'}
      BY DEF Next, CallStep, JobStep, Notes, vars
    <2>4. torn' \in SUBSET Calls
      BY <2>1, <2>2, <2>3 DEF TypeOK
    <2> QED
      BY <2>1, <2>4 DEF Others, TypeOK
  <1> QED
    BY <1>1, <1>2, PTL DEF Spec

-----------------------------------------------------------------------------
(* The inductive invariant *)

\* What no property speaks of any more: run with, or on its way in an overlap.
Settled == ran \cup torn

\* The arguments that the next call will read.
Cached == IF args_cache = None THEN {} ELSE dict[args_cache]

\* A task is made by a call that returned; the cache never holds one that was
\* handed to the executor at once.
JobsOfDone ==
    /\ \A c \in Calls : job[c] # "none" => pc[c] = "done"
    /\ \A c \in cancelled : job[c] # "none"
    /\ task_cache # None => job[task_cache] \notin {"none", "queued"}

\* A task that waits and will not be told otherwise.
Waits(j) == j \in Calls /\ job[j] = "sleep" /\ j \notin cancelled

\* When the next call has cancelled the task, this many arguments are not lost.
Safe(args) == Waits(task_cache) => kwargs[task_cache] \subseteq Settled \cup args

\* What a waiting task in the cache will bring is in the dict in the cache: the
\* call that cancels it takes its arguments over.
Covered == Safe(Cached)

\* A call that has seen to the task in the cache.
Late(c) == pc[c] \in {"remove", "schedule", "submit", "wait"}

\* What a call has read is still so, until it has scheduled its task.
Reading ==
    \A c \in Calls :
       /\ pc[c] = "got" => Cached \subseteq kwargs[c] \cup Settled
       /\ pc[c] = "put" => /\ Cached \subseteq dict[mine[c]] \cup Settled
                           /\ dict[mine[c]] \subseteq Cached \cup Settled
       /\ Late(c) => kwargs[c] \subseteq Cached \cup Settled /\ Safe({})
       /\ pc[c] = "remove" /\ task_cache = None => kwargs[c] \subseteq Settled

\* A thread that clears the entries has removed the task from the cache.
Emptied == \A j \in Calls : Popping(j) => Safe({})

\* Who carries an argument.
CarriedBy(x) ==
    \/ \E j \in Calls \ cancelled : job[j] \in {"sleep", "queued"} /\ x \in kwargs[j]
    \/ \E c \in Calls : pc[c] = "put" /\ x \in dict[mine[c]]
    \/ \E c \in Calls : pc[c] = "got" /\ x \in Merged(c)
    \/ \E c \in Calls : Late(c) /\ x \in kwargs[c]

\* What a call brought is run with, torn or carried.
AllKept == \A c \in Calls : pc[c] # "new" => c \in Settled \/ CarriedBy(c)

\* While threads overlap, all that calls brought is run with or torn.
AllTorn == ~OneThread => \A c \in Calls : pc[c] # "new" => c \in Settled

\* No argument appears that no call brought.
OnlyBrought ==
    \A c, x \in Calls : x \in Settled \cup dict[c] \cup kwargs[c] => pc[x] # "new"

MergeInv ==
    JobsOfDone /\ OnlyBrought /\ AllKept /\ AllTorn /\ Covered /\ Reading /\ Emptied

CarriedIsBy == \A x \in Calls : x \in Carried <=> CarriedBy(x)

LEMMA CarriedMeans == CarriedIsBy
  BY DEF CarriedIsBy, Carried, CarriedBy, Late

-----------------------------------------------------------------------------
\* A step keeps what is settled, and only Get brings an argument.
LEMMA Progress ==
    ASSUME TypeOK, [Next]_vars
    PROVE  /\ Settled \subseteq Settled'
           /\ \A c \in Calls : pc'[c] # "new" => pc[c] # "new" \/ Get(c)
           /\ \A c \in Calls : pc[c] # "new" => pc'[c] # "new"
  <1>1. torn \subseteq torn'
    BY DEF Next, CallStep, JobStep, Notes, vars
  <1>2. ran \subseteq ran'
    BY DEF Next, CallStep, JobStep, Get, Put, Cancel, Remove, Time, Submit, Wait, Run, Drop,
           PopTask, PopArgs, PopTime, vars
  <1>3. \A c \in Calls : /\ pc'[c] # "new" => pc[c] # "new" \/ Get(c)
                         /\ pc[c] # "new" => pc'[c] # "new"
    BY DEF TypeOK, Next, CallStep, JobStep, Get, Put, Cancel, Remove, Time, Submit, Wait, Run,
           Drop, PopTask, PopArgs, PopTime, vars
  <1> QED
    BY <1>1, <1>2, <1>3 DEF Settled

\* A call that starts does not end an overlap.
LEMMA GetOverlaps ==
    ASSUME TypeOK, NEW c \in Calls, Get(c), OneThread' PROVE OneThread
  <1>1. /\ \A d \in Calls : Calling(d) => Calling(d)'
        /\ \A d \in Calls : Popping(d) <=> Popping(d)'
    BY DEF TypeOK, Get, Calling, Popping
  <1> QED
    BY <1>1 DEF OneThread

LEMMA JobsStep ==
    ASSUME TypeOK, JobsOfDone, [Next]_vars
    PROVE  JobsOfDone'
  <1> USE DEF TypeOK, JobsOfDone, caches
  <1>1. ASSUME NEW c \in Calls, Get(c) \/ Put(c) \/ Cancel(c) \/ Remove(c)
        PROVE  JobsOfDone'
    BY <1>1 DEF Get, Put, Cancel, Remove, Done
  <1>2. ASSUME NEW c \in Calls, Time(c) \/ Submit(c) \/ Wait(c) PROVE JobsOfDone'
    BY <1>2 DEF Time, Submit, Wait
  <1>3. ASSUME NEW j \in Calls, Run(j) \/ Drop(j) \/ PopTask(j) \/ PopArgs(j) \/ PopTime(j)
        PROVE  JobsOfDone'
    BY <1>3 DEF Run, Drop, PopTask, PopArgs, PopTime
  <1>4. CASE UNCHANGED vars
    BY <1>4 DEF vars
  <1> QED
    BY <1>1, <1>2, <1>3, <1>4 DEF Next, CallStep, JobStep

\* Arguments are copied, merged and run with, never made up.
LEMMA OnlyBroughtStep ==
    ASSUME TypeOK, TypeOK', OnlyBrought, [Next]_vars
    PROVE  OnlyBrought'
  <1> USE DEF TypeOK, caches
  <1>0. \A x \in Calls : pc[x] # "new" => pc'[x] # "new"
    BY Progress
  <1> DEFINE Known == \A c, x \in Calls :
                         x \in ran' \cup dict'[c] \cup kwargs'[c] => pc'[x] # "new"
  <1>1. ASSUME NEW c \in Calls, Get(c) PROVE Known
    <2>1. /\ pc'[c] = "got" /\ UNCHANGED <<dict, ran>>
          /\ \A d \in Calls : \/ kwargs'[d] = kwargs[d]
                              \/ \E m \in Calls : kwargs'[d] = dict[m]
      BY <1>1 DEF Get
    <2> QED
      BY <1>0, <2>1 DEF OnlyBrought, Settled
  <1>2. ASSUME NEW c \in Calls, Put(c) PROVE Known
    <2>1. /\ pc[c] # "new" /\ UNCHANGED <<kwargs, ran>>
          /\ \A d \in Calls : dict'[d] \in {dict[d], kwargs[c] \cup {c}}
      BY <1>2 DEF Put, Merged
    <2> QED
      BY <1>0, <2>1 DEF OnlyBrought, Settled
  <1>3. ASSUME NEW c \in Calls, Cancel(c) PROVE Known
    <2>1. /\ mine[c] \in Calls /\ UNCHANGED <<dict, ran>>
          /\ \A d \in Calls : kwargs'[d] \in {kwargs[d], dict[mine[c]]}
      BY <1>3 DEF Cancel
    <2> QED
      BY <1>0, <2>1 DEF OnlyBrought, Settled
  <1>4. ASSUME NEW c \in Calls, Run(c) \/ Drop(c) PROVE Known
    <2>1. /\ ran' \subseteq ran \cup kwargs[c] /\ UNCHANGED dict
          /\ \A d \in Calls : kwargs'[d] \in {kwargs[d], {}}
      BY <1>4 DEF Run, Drop
    <2> QED
      BY <1>0, <2>1 DEF OnlyBrought, Settled
  <1>5. ASSUME UNCHANGED <<dict, kwargs, ran>> PROVE Known
    BY <1>0, <1>5 DEF OnlyBrought, Settled
  <1>6. Known
    BY <1>1, <1>2, <1>3, <1>4, <1>5 DEF Next, CallStep, JobStep, Remove, Time, Submit, Wait,
       PopTask, PopArgs, PopTime, vars
  <1> HIDE DEF Known
  <1>7. \A x \in torn' : pc'[x] # "new"
    <2>1. \A x \in Carried' : pc'[x] # "new"
      BY <1>6 DEF Known, Carried, Merged
    <2>2. torn' \in {torn, torn \cup Carried'}
      BY DEF Next, CallStep, JobStep, Notes, vars
    <2> QED
      BY <1>0, <2>1, <2>2 DEF OnlyBrought, Settled
  <1> QED
    BY <1>6, <1>7 DEF Known, OnlyBrought, Settled

-----------------------------------------------------------------------------
(* One thread *)

\* What is carried goes on being carried, is run with or is torn, if one thread
\* at a time is in the bookkeeping until the step.
LEMMA KeptStep ==
    ASSUME TypeOK, OneThread, JobsOfDone, Covered, Reading, [Next]_vars
    PROVE  \A x \in Calls : x \in Settled \/ CarriedBy(x) => x \in Settled' \/ CarriedBy(x)'
  <1> USE DEF TypeOK, caches
  <1> SUFFICES ASSUME NEW x \in Calls, x \in Settled \/ CarriedBy(x)
               PROVE  x \in Settled' \/ CarriedBy(x)'
    OBVIOUS
  <1>0. Settled \subseteq Settled'
    BY Progress
  <1>1. ASSUME NEW c \in Calls, Get(c) PROVE x \in Settled' \/ CarriedBy(x)'
    <2>1. /\ \A d \in Calls : d # c => /\ pc'[d] = pc[d] /\ kwargs'[d] = kwargs[d]
                                       /\ mine'[d] = mine[d]
          /\ pc[c] = "new" /\ job[c] = "none" /\ UNCHANGED <<dict, job, cancelled>>
      BY <1>1 DEF Get, JobsOfDone
    <2> QED
      BY <1>0, <2>1 DEF CarriedBy, Merged, Late
  <1>2. ASSUME NEW c \in Calls, Put(c) PROVE x \in Settled' \/ CarriedBy(x)'
    <2>1. /\ \A d \in Calls : d # c => ~Calling(d) /\ pc'[d] = pc[d]
          /\ pc[c] = "got" /\ pc'[c] = "put" /\ mine[c] \in Calls
          /\ dict'[mine[c]] = Merged(c) /\ UNCHANGED <<mine, kwargs, job, cancelled>>
      BY <1>2 DEF Put, OneThread, Calling
    <2> QED
      BY <1>0, <2>1 DEF CarriedBy, Calling, Late
  <1>3. ASSUME NEW c \in Calls, Cancel(c) PROVE x \in Settled' \/ CarriedBy(x)'
    <2>1. /\ \A d \in Calls : d # c => /\ ~Calling(d) /\ pc'[d] = pc[d]
                                       /\ kwargs'[d] = kwargs[d]
          /\ pc[c] = "put" /\ pc'[c] \in {"remove", "schedule"}
          /\ kwargs'[c] = dict[mine[c]] /\ job[c] = "none" /\ job' = job
          /\ Cached \subseteq dict[mine[c]] \cup Settled
      BY <1>3 DEF Cancel, OneThread, Calling, Reading, JobsOfDone
    <2>2. cancelled' \in {cancelled, cancelled \cup ({task_cache} \ {None})}
      BY <1>3 DEF Cancel
    <2>3. CASE x \in dict[mine[c]]
      BY <2>1, <2>3 DEF CarriedBy, Late
    <2>4. ASSUME NEW j \in Calls \ cancelled, job[j] \in {"sleep", "queued"},
                 x \in kwargs[j]
          PROVE  x \in Settled' \/ CarriedBy(x)'
      <3>1. CASE j = task_cache
        <4>1. Waits(task_cache)
          BY <2>4, <3>1 DEF JobsOfDone, Waits
        <4> QED
          BY <1>0, <2>1, <2>3, <2>4, <3>1, <4>1 DEF Covered, Safe
      <3>2. CASE j # task_cache
        BY <2>1, <2>2, <2>4, <3>2 DEF CarriedBy
      <3> QED
        BY <3>1, <3>2
    <2> QED
      BY <1>0, <2>1, <2>3, <2>4 DEF CarriedBy, Calling, Late
  <1>4. ASSUME NEW c \in Calls, Remove(c) PROVE x \in Settled' \/ CarriedBy(x)'
    <2>1. /\ \A d \in Calls : d # c => pc'[d] = pc[d]
          /\ pc[c] = "remove" /\ UNCHANGED <<dict, mine, kwargs, job, cancelled>>
          /\ pc'[c] = "schedule" \/ kwargs[c] \subseteq Settled
      BY <1>4 DEF Remove, Reading
    <2> QED
      BY <1>0, <2>1 DEF CarriedBy, Merged, Late
  <1>5. ASSUME NEW c \in Calls, Time(c) PROVE x \in Settled' \/ CarriedBy(x)'
    <2>1. /\ \A d \in Calls : d # c => pc'[d] = pc[d]
          /\ pc[c] = "schedule" /\ pc'[c] \in {"submit", "wait"}
          /\ UNCHANGED <<dict, mine, kwargs, job, cancelled>>
      BY <1>5 DEF Time
    <2> QED
      BY <1>0, <2>1 DEF CarriedBy, Merged, Late
  <1>6. ASSUME NEW c \in Calls, Submit(c) \/ Wait(c) PROVE x \in Settled' \/ CarriedBy(x)'
    <2>1. /\ \A d \in Calls : d # c => pc'[d] = pc[d] /\ job'[d] = job[d]
          /\ pc[c] \in {"submit", "wait"} /\ job'[c] \in {"sleep", "queued"}
          /\ c \notin cancelled
          /\ job[c] = "none" /\ UNCHANGED <<dict, mine, kwargs, cancelled>>
      BY <1>6 DEF Submit, Wait, JobsOfDone
    <2> QED
      BY <1>0, <2>1 DEF CarriedBy, Merged, Late
  <1>7. ASSUME NEW j \in Calls, Run(j) \/ Drop(j) PROVE x \in Settled' \/ CarriedBy(x)'
    <2>1. /\ \A d \in Calls : d # j => job'[d] = job[d] /\ kwargs'[d] = kwargs[d]
          /\ pc[j] = "done" /\ UNCHANGED <<dict, pc, mine, cancelled>>
          /\ j \in cancelled \/ kwargs[j] \subseteq ran'
      BY <1>7 DEF Run, Drop, JobsOfDone
    <2> QED
      BY <1>0, <2>1 DEF CarriedBy, Merged, Late, Settled
  <1>8. ASSUME NEW j \in Calls, PopTask(j) \/ PopArgs(j) \/ PopTime(j)
        PROVE  x \in Settled' \/ CarriedBy(x)'
    <2>1. /\ \A d \in Calls : d # j => job'[d] = job[d]
          /\ job[j] \notin {"sleep", "queued"}
          /\ UNCHANGED <<dict, pc, mine, kwargs, cancelled>>
      BY <1>8 DEF PopTask, PopArgs, PopTime
    <2> QED
      BY <1>0, <2>1 DEF CarriedBy, Merged, Late
  <1>9. CASE UNCHANGED vars
    BY <1>0, <1>9 DEF vars, CarriedBy, Merged, Late
  <1> QED
    BY <1>1, <1>2, <1>3, <1>4, <1>5, <1>6, <1>7, <1>8, <1>9 DEF Next, CallStep, JobStep

\* A call in between finds what it left: only the loop, which drops a task that
\* is cancelled already, and functions that start come in between.
LEMMA AloneStep ==
    ASSUME TypeOK, OneThread, OneThread', JobsOfDone, Covered, Reading, Emptied, [Next]_vars
    PROVE  Covered' /\ Reading' /\ Emptied'
  <1> DEFINE Kept == Covered' /\ Reading' /\ Emptied'
  <1> USE DEF TypeOK, caches, Covered, Safe
  <1>0. Settled \subseteq Settled'
    BY Progress
  <1>1. ASSUME NEW c \in Calls, Get(c) PROVE Kept
    <2>1. /\ \A d \in Calls : d # c => pc'[d] = pc[d]
          /\ pc'[c] = "got" /\ Cached \subseteq kwargs'[c]
          /\ UNCHANGED <<caches, job, cancelled>> /\ Cached' = Cached
      BY <1>1 DEF Get, Cached
    <2>2. Waits(task_cache) => task_cache # c
      BY <1>1 DEF Get, Waits, JobsOfDone
    <2>3. Waits(task_cache)' => Waits(task_cache) /\ kwargs'[task_cache] = kwargs[task_cache]
      BY <1>1, <2>1, <2>2 DEF Get, Waits
    <2>4. \A d \in Calls : /\ d # c => ~Calling(d)'
                           /\ ~Popping(d)'
      BY <2>1 DEF OneThread, Calling
    <2>5. Covered'
      BY <1>0, <2>1, <2>3
    <2>6. Reading'
      BY <2>1, <2>4 DEF Reading, Calling, Late, Settled
    <2> QED
      BY <2>4, <2>5, <2>6 DEF Emptied
  <1>2. ASSUME NEW c \in Calls, Put(c) PROVE Kept
    <2>1. /\ \A d \in Calls : d # c => ~Calling(d) /\ pc'[d] = pc[d]
          /\ \A d \in Calls : ~Popping(d)
          /\ pc[c] = "got" /\ pc'[c] = "put" /\ mine[c] \in Calls
          /\ UNCHANGED <<task_cache, mine, kwargs, job, cancelled>>
      BY <1>2 DEF Put, OneThread, Calling
    <2>2. Cached' = dict'[mine[c]] /\ kwargs[c] \subseteq Cached'
      BY <1>2, <2>1 DEF Put, Cached, Merged
    <2>3. Cached \subseteq kwargs[c] \cup Settled
      BY <2>1 DEF Reading
    <2>4. Waits(task_cache)' => Waits(task_cache)
      BY <2>1 DEF Waits
    <2>5. Covered'
      BY <1>0, <2>1, <2>2, <2>3, <2>4
    <2>6. Reading'
      BY <2>1, <2>2 DEF Reading, Calling, Late
    <2> QED
      BY <2>1, <2>5, <2>6 DEF Emptied, Popping
  <1>3. ASSUME NEW c \in Calls, Cancel(c) PROVE Kept
    <2>1. /\ \A d \in Calls : d # c => ~Calling(d) /\ pc'[d] = pc[d]
          /\ \A d \in Calls : ~Popping(d)
          /\ pc[c] = "put" /\ mine[c] \in Calls /\ kwargs'[c] = dict[mine[c]]
          /\ pc'[c] \in {"remove", "schedule"} /\ (pc'[c] = "remove" => task_cache # None)
          /\ UNCHANGED <<caches, job>> /\ Cached' = Cached
      BY <1>3 DEF Cancel, OneThread, Calling, Cached
    <2>2. ~Waits(task_cache)'
      BY <1>3 DEF Cancel, Waits, Done
    <2>3. dict[mine[c]] \subseteq Cached \cup Settled
      BY <2>1 DEF Reading
    <2>4. Reading'
      BY <1>0, <2>1, <2>2, <2>3 DEF Reading, Calling, Late
    <2> QED
      BY <2>1, <2>2, <2>4 DEF Emptied, Popping
  <1>4. ASSUME NEW c \in Calls, Remove(c) \/ Time(c) PROVE Kept
    <2>1. /\ \A d \in Calls : d # c => ~Calling(d) /\ pc'[d] = pc[d]
          /\ \A d \in Calls : ~Popping(d)
          /\ Late(c) /\ pc'[c] \in {"schedule", "submit", "wait", "failed"}
          /\ task_cache' \in {task_cache, None}
          /\ UNCHANGED <<args_cache, dict, mine, kwargs, job, cancelled>> /\ Cached' = Cached
      BY <1>4 DEF Remove, Time, OneThread, Calling, Late, Cached
    <2>2. Waits(task_cache)' => Waits(task_cache) /\ task_cache' = task_cache
      BY <2>1 DEF Waits
    <2>3. Covered'
      BY <1>0, <2>1, <2>2
    <2>4. Reading'
      BY <1>0, <2>1, <2>2 DEF Reading, Calling, Late
    <2> QED
      BY <2>1, <2>3, <2>4 DEF Emptied, Popping
  <1>5. ASSUME NEW c \in Calls, Submit(c) \/ Wait(c) PROVE Kept
    <2>1. /\ \A d \in Calls : d # c => ~Calling(d) /\ pc'[d] = pc[d]
          /\ \A d \in Calls : ~Popping(d) /\ (Popping(d)' <=> Popping(d))
          /\ Late(c) /\ pc'[c] = "done" /\ UNCHANGED <<dict, mine, kwargs, cancelled>>
      BY <1>5 DEF Submit, Wait, OneThread, Calling, Late, Popping
    <2>2. Covered'
      <3>1. CASE Submit(c)
        <4>1. Waits(task_cache)' => Waits(task_cache) /\ task_cache' = task_cache
          BY <3>1 DEF Submit, Waits
        <4> QED
          BY <1>0, <2>1, <4>1 DEF Reading
      <3>2. CASE Wait(c)
        <4>1. task_cache' = c /\ Cached' = Cached
          BY <3>2 DEF Wait, Cached
        <4> QED
          BY <1>0, <2>1, <4>1 DEF Reading
      <3> QED
        BY <1>5, <3>1, <3>2
    <2>3. Reading'
      BY <2>1 DEF Reading, Calling, Late
    <2> QED
      BY <2>1, <2>2, <2>3 DEF Emptied
  <1>6. ASSUME NEW j \in Calls, Run(j) \/ Drop(j) PROVE Kept
    <2>1. /\ UNCHANGED <<caches, pc, mine, cancelled>> /\ Cached' = Cached
          /\ \A d \in Calls : d # j => kwargs'[d] = kwargs[d]
          /\ kwargs'[j] = {} /\ pc[j] = "done"
          /\ \A d \in Calls : Popping(d)' <=> Popping(d)
      BY <1>6 DEF Run, Drop, Cached, JobsOfDone, Popping
    <2>2. Waits(task_cache)' => Waits(task_cache)
      BY <1>6 DEF Run, Drop, Waits
    <2>3. \A args \in SUBSET Calls : Safe(args) => Safe(args)'
      BY <1>0, <2>1, <2>2 DEF Waits
    <2>4. Covered'
      BY <1>0, <2>1, <2>2 DEF Waits
    <2>5. Reading'
      BY <1>0, <2>1, <2>3 DEF Reading, Late
    <2>6. Emptied'
      BY <1>0, <2>1, <2>3 DEF Emptied
    <2> QED
      BY <2>4, <2>5, <2>6
  <1>7. ASSUME NEW j \in Calls, PopTask(j) \/ PopArgs(j) \/ PopTime(j) PROVE Kept
    <2>1. /\ Popping(j) \/ Popping(j)'
          /\ UNCHANGED <<dict, pc, mine, kwargs, cancelled>>
          /\ \A c \in Calls : Calling(c)' <=> Calling(c)
      BY <1>7 DEF PopTask, PopArgs, PopTime, Popping, Calling
    <2>2. \A c \in Calls : ~Calling(c)
      BY <2>1 DEF OneThread
    <2>3. /\ Waits(task_cache)' => Waits(task_cache) /\ task_cache' = task_cache
          /\ Waits(task_cache)' => Popping(j)
      BY <1>7 DEF PopTask, PopArgs, PopTime, Popping, Waits
    <2>4. Waits(task_cache)' => kwargs'[task_cache'] \subseteq Settled'
      BY <1>0, <2>1, <2>3 DEF Emptied
    <2>5. Reading'
      BY <2>1, <2>2 DEF Reading, Calling, Late
    <2> QED
      BY <2>4, <2>5 DEF Emptied
  <1>8. CASE UNCHANGED vars
    BY <1>8 DEF vars, Reading, Waits, Cached, Settled, Late, Emptied, Popping
  <1> QED
    BY <1>1, <1>2, <1>3, <1>4, <1>5, <1>6, <1>7, <1>8 DEF Next, CallStep, JobStep

-----------------------------------------------------------------------------
(* Any number of threads *)

\* A call carries its argument from its first statement on.
LEMMA AllKeptStep ==
    ASSUME TypeOK, MergeInv, [Next]_vars
    PROVE  AllKept'
  <1> USE DEF MergeInv
  <1>1. ASSUME NEW c \in Calls, pc'[c] # "new", pc[c] = "new"
        PROVE  CarriedBy(c)'
    <2>1. Get(c)
      BY <1>1, Progress
    <2>2. pc'[c] = "got" /\ c \in Merged(c)'
      BY <2>1 DEF Get, Merged, TypeOK
    <2> QED
      BY <2>2 DEF CarriedBy
  <1>2. CASE OneThread
    BY <1>1, <1>2, KeptStep DEF AllKept
  <1>3. CASE ~OneThread
    BY <1>1, <1>3, Progress DEF AllKept, AllTorn
  <1> QED
    BY <1>2, <1>3

\* A step in an overlap tears all that is on its way.
LEMMA AllTornStep ==
    ASSUME TypeOK, MergeInv, AllKept', CarriedIsBy', [Next]_vars
    PROVE  AllTorn'
  <1>1. CASE UNCHANGED vars
    BY <1>1 DEF vars, MergeInv, AllTorn, OneThread, Calling, Popping, Settled
  <1>2. CASE Next
    <2>1. ~OneThread' => Carried' \subseteq torn'
      BY <1>2 DEF Next, CallStep, JobStep, Notes
    <2> QED
      BY <2>1 DEF AllKept, CarriedIsBy, AllTorn, Settled
  <1> QED
    BY <1>1, <1>2

\* When all that was brought is settled, nothing can be lost any more.
LEMMA NothingToLose ==
    ASSUME TypeOK', OnlyBrought', \A c \in Calls : pc'[c] # "new" => c \in Settled'
    PROVE  Covered' /\ Reading' /\ Emptied'
  <1>1. \A c \in Calls : dict'[c] \subseteq Settled' /\ kwargs'[c] \subseteq Settled'
    BY DEF TypeOK, OnlyBrought
  <1>2. Cached' \subseteq Settled' /\ Safe({})' /\ Covered'
    BY <1>1 DEF TypeOK, Cached, Safe, Covered, Waits
  <1> QED
    BY <1>1, <1>2 DEF TypeOK, Reading, Emptied

LEMMA ReadingStep ==
    ASSUME TypeOK, TypeOK', MergeInv, OnlyBrought', AllTorn', [Next]_vars
    PROVE  Covered' /\ Reading' /\ Emptied'
  <1> USE DEF MergeInv
  <1>1. CASE OneThread /\ OneThread'
    BY <1>1, AloneStep
  <1>2. CASE ~OneThread'
    BY <1>2, NothingToLose DEF AllTorn
  <1>3. CASE ~OneThread /\ OneThread'
    <2>1. \A c \in Calls : pc'[c] # "new" => pc[c] # "new"
      BY <1>3, Progress, GetOverlaps
    <2>2. \A c \in Calls : pc'[c] # "new" => c \in Settled'
      BY <1>3, <2>1, Progress DEF AllTorn
    <2> QED
      BY <2>2, NothingToLose
  <1> QED
    BY <1>1, <1>2, <1>3

LEMMA MergeInductive == Spec => []MergeInv
  <1>1. Init => MergeInv
    BY DEF Init, MergeInv, OneThread, JobsOfDone, Covered, Safe, Cached, Reading, Late, Emptied,
           AllKept, AllTorn, OnlyBrought, Settled, Calling, Popping, Waits
  <1>2. TypeOK /\ TypeOK' /\ CarriedIsBy' /\ MergeInv /\ [Next]_vars => MergeInv'
    <2> SUFFICES ASSUME TypeOK, TypeOK', CarriedIsBy', MergeInv, [Next]_vars PROVE MergeInv'
      OBVIOUS
    <2>1. JobsOfDone' /\ OnlyBrought' /\ AllKept'
      BY JobsStep, OnlyBroughtStep, AllKeptStep DEF MergeInv
    <2>2. AllTorn'
      BY <2>1, AllTornStep
    <2>3. Covered' /\ Reading' /\ Emptied'
      BY <2>1, <2>2, ReadingStep
    <2> QED
      BY <2>1, <2>2, <2>3 DEF MergeInv
  <1> QED
    BY <1>1, <1>2, Types, CarriedMeans, PTL DEF Spec

\* NothingLost: however threads interleave, the argument of a call that returned
\* has been run with, or a task that nobody will cancel without taking it over
\* still carries it, or it was on its way during an overlap (merge_delay_run,
\* run_debouncer_func, Debouncer.__call__).
THEOREM LosesNothingElse == Spec => []NothingLost
  <1>1. MergeInv => NothingLost
    BY CarriedMeans DEF MergeInv, AllKept, CarriedIsBy, NothingLost, Settled
  <1> QED
    BY <1>1, MergeInductive, PTL

-----------------------------------------------------------------------------
(* MergedCalls *)

Brought == {c \in Calls : pc[c] # "new"}

\* What waits, seen from the calls: what they brought and has not been run with.
WaitingIsBrought ==
    (Carried \cup torn) \ ran = Brought \ ran /\ ran \subseteq Brought

LEMMA WaitingMeans == TypeOK /\ MergeInv => WaitingIsBrought
  <1> SUFFICES ASSUME TypeOK, MergeInv PROVE WaitingIsBrought
    OBVIOUS
  <1> USE DEF TypeOK, MergeInv
  <1>1. ran \subseteq Brought /\ torn \subseteq Brought
    BY DEF OnlyBrought, Settled, Brought
  <1>2. \A x \in Brought : x \in ran \/ x \in torn \/ x \in Carried
    BY CarriedMeans DEF AllKept, CarriedIsBy, Settled, Brought
  <1>3. Carried \subseteq Calls
    BY DEF Carried, Merged
  <1>4. ASSUME NEW x \in Carried PROVE x \in Brought
    <2>1. x \in Calls /\ CarriedBy(x)
      BY <1>3, <1>4, CarriedMeans DEF CarriedIsBy
    <2> QED
      BY <2>1 DEF CarriedBy, OnlyBrought, Merged, Late, Brought
  <1> QED
    BY <1>1, <1>2, <1>4 DEF WaitingIsBrought

\* KeepsPromise: however threads interleave, the debouncer implements MergedCalls
\* if what is torn goes on waiting: the first statement of a call brings its
\* argument, a run takes arguments, and all else it does with dictionaries and
\* tasks, overlaps included, leaves the rest as it is (merge_delay_run,
\* run_debouncer_func, _run_func_with_org).
THEOREM RefinesMergedCalls == Spec => KeepsPromise
  <1>1. Init => Promise!Init
    BY DEF Init, Promise!Init, Carried
  <1>2. WaitingIsBrought /\ WaitingIsBrought' /\ TypeOK /\ MergeInv /\ [Next]_vars
          => [Promise!Next]_(Promise!vars)
    <2> SUFFICES ASSUME WaitingIsBrought, WaitingIsBrought', TypeOK, MergeInv,
                        [Next]_vars
                 PROVE  [Promise!Next]_(Promise!vars)
      OBVIOUS
    <2> DEFINE w == (Carried \cup torn) \ ran
    <2>1. /\ w = Brought \ ran /\ w' = Brought' \ ran'
          /\ w \cup ran = Brought
      BY DEF WaitingIsBrought
    <2> HIDE DEF w
    <2>2. ASSUME NEW c \in Calls, Get(c) PROVE Promise!Next
      <3>1. /\ Brought' = Brought \cup {c} /\ c \notin Brought /\ ran' = ran
        BY <2>2 DEF Get, Brought, TypeOK
      <3>2. w' = w \cup {c} /\ c \notin w \cup ran
        BY <2>1, <3>1
      <3> QED
        BY <3>1, <3>2 DEF Promise!Next, Promise!Bring, w
    <2>3. ASSUME NEW j \in Calls, Run(j) PROVE Promise!Next
      <3>1. /\ Brought' = Brought /\ ran' = ran \cup kwargs[j]
            /\ kwargs[j] \in SUBSET Calls
        BY <2>3 DEF Run, Brought, TypeOK
      <3>2. kwargs[j] \subseteq Brought
        BY <3>1 DEF MergeInv, OnlyBrought, Brought
      <3>3. w' = w \ kwargs[j] /\ kwargs[j] \subseteq w \cup ran
        BY <2>1, <3>1, <3>2
      <3> QED
        BY <3>1, <3>3 DEF Promise!Next, Promise!RunWith, w
    <2>4. ASSUME Brought' = Brought, ran' = ran PROVE UNCHANGED Promise!vars
      <3>1. w' = w
        BY <2>1, <2>4
      <3> QED
        BY <2>4, <3>1 DEF Promise!vars, w
    <2>5. ASSUME NEW c \in Calls, Put(c) \/ Cancel(c) \/ Remove(c) \/ Time(c)
                             \/ Submit(c) \/ Wait(c)
          PROVE  Brought' = Brought /\ ran' = ran
      BY <2>5 DEF Put, Cancel, Remove, Time, Submit, Wait, Brought, TypeOK
    <2>6. ASSUME NEW c \in Calls, Drop(c) \/ PopTask(c) \/ PopArgs(c) \/ PopTime(c)
          PROVE  Brought' = Brought /\ ran' = ran
      BY <2>6 DEF Drop, PopTask, PopArgs, PopTime, Brought
    <2>7. CASE UNCHANGED vars
      BY <2>4, <2>7 DEF vars, Brought
    <2> QED
      BY <2>2, <2>3, <2>4, <2>5, <2>6, <2>7 DEF Next, CallStep, JobStep
  <1> QED
    BY <1>1, <1>2, Types, MergeInductive, WaitingMeans, PTL DEF Spec, Promise!Spec, KeepsPromise
=============================================================================
