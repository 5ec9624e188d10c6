-------------------------- MODULE HostUpdate_proofs --------------------------
(***************************************************************************)
(* Proofs about HostUpdate, for any releases, units, environment files and *)
(* numbers of runs and faults: the types, that the schema is never changed *)
(* without a backup, what a finished update leaves, and what a rollback    *)
(* gives back.                                                             *)
(***************************************************************************)
EXTENDS HostUpdate, TLAPS

LEMMA Constants ==
    /\ MaxVersion \in Nat /\ MaxAsks \in Nat /\ MaxRuns \in Nat /\ MaxFaults \in Nat
    /\ 1 \in Versions /\ Versions \subseteq Nat
    /\ Enabled0 \in Files /\ \A f \in Files: f \subseteq Units
    /\ None # "health" /\ None \notin Versions /\ Down \notin Versions /\ Empty \notin Versions
  BY UpdateAssumption DEF Versions, Steps

-----------------------------------------------------------------------------
(* The inductive invariants: what is true at each step of the updater *)

\* The lock is held at every step.
Locked == lock = None => at = "off"

\* From the backup to the migrations the schema is that of the backup.
Dumped ==
    at \in {"remember", "stop", "source", "venv", "pip", "tools", "migrate"} => schema \in dumps

\* What the installer has achieved when it is at a step.
Built ==
    /\ at \in {"venv", "pip", "tools", "migrate", "enable", "restore", "verify", "health"} =>
         code = target
    /\ at \in {"tools", "migrate", "enable", "restore", "verify", "health"} => venv = target
    /\ at \in {"enable", "restore", "verify", "health"} =>
         /\ schema >= target
         /\ \A u \in Units: \/ u \in todo
                            \/ (run[u] = Down /\ died[u] = None)
                            \/ (run[u] \in {target, Down} /\ u \in enabled)
    /\ at \in {"restore", "verify", "health"} => todo = {}
    /\ at \in {"verify", "health"} => env = prev.env

\* The one look at the units: a unit that is gone afterwards stopped by itself.
Seen == at = "health" => \A u \in prev.units: run[u] # Down \/ died[u] = "health"

\* What a reboot does not change: the units of before are enabled.
Whole ==
    at = "off" /\ ended = "updated" =>
        /\ code = target /\ venv = target /\ release = target
        /\ schema >= target
        /\ \A u \in prev.units: /\ u \in enabled
                                /\ run[u] = target \/ died[u] \in {"health", "off"}
        /\ prev.env = "host" => env = "host"

\* A rollback has the environment file, then the release and the services back.
Back ==
    /\ at \in {"rollback", "restart"} => env = prev.env
    /\ at = "restart" =>
         /\ release = prev.release
         /\ \A u \in prev.units: u \in todo \/ run[u] \in {code, Down}
    /\ at = "off" /\ ended \in {"rolled back", "rollback failed"} =>
         /\ release = prev.release
         /\ prev.env = "host" => env = "host"
    /\ at = "off" /\ ended = "rolled back" =>
         /\ code = prev.code /\ venv = prev.code
         /\ \A u \in prev.units: run[u] \in {prev.code, Down}

-----------------------------------------------------------------------------
\* The steps of the updater and of the runner, one by one.
LEMMA StepCases ==
    ASSUME Next
    PROVE  \/ \E a \in Actions, v \in Versions: Queue(a, v)
           \/ \E a \in Actions: Write(a) \/ Take(a) \/ Call(a) \/ Record(a)
           \/ \E v \in Versions: Shell(v)
           \/ Preflight \/ Backup \/ Remember \/ Stopped \/ GiveUp
           \/ \E u \in Units: Stop(u) \/ Enable(u) \/ Restart(u) \/ Dies(u) \/ Returns(u)
           \/ Source \/ Venv \/ Pip \/ Tools \/ Migrate \/ Installed \/ InstallFails
           \/ Restore \/ Undo \/ Verify \/ Health \/ Rollback \/ RolledBack
           \/ Kill \/ Reboot
  BY DEF Next, Runner, Updater, Installer

-----------------------------------------------------------------------------
LEMMA HostTypesStep ==
    ASSUME TypeOK, Next PROVE HostTypes'
  <1> USE DEF TypeOK, HostTypes, host, app, node
  <1>1. ASSUME NEW a \in Actions, NEW v \in Versions, Queue(a, v) PROVE HostTypes'
    BY <1>1 DEF Queue
  <1>2. ASSUME NEW a \in Actions, Write(a) PROVE HostTypes'
    BY <1>2 DEF Write
  <1>3. ASSUME NEW a \in Actions, Take(a) PROVE HostTypes'
    BY <1>3 DEF Take
  <1>4. ASSUME NEW a \in Actions, Call(a) PROVE HostTypes'
    BY <1>4 DEF Call, Start
  <1>5. ASSUME NEW a \in Actions, Record(a) PROVE HostTypes'
    BY <1>5 DEF Record
  <1>6. ASSUME NEW v \in Versions, Shell(v) PROVE HostTypes'
    BY <1>6 DEF Shell, Start
  <1>7. CASE Preflight
    BY <1>7 DEF Preflight
  <1>8. CASE Backup
    BY <1>8 DEF Backup
  <1>9. CASE Remember
    BY <1>9 DEF Remember
  <1>10. CASE Stopped
    BY <1>10 DEF Stopped
  <1>11. CASE GiveUp
    BY <1>11 DEF GiveUp
  <1>12. ASSUME NEW u \in Units, Stop(u) PROVE HostTypes'
    BY <1>12 DEF Stop, Becomes
  <1>13. ASSUME NEW u \in Units, Enable(u) PROVE HostTypes'
    BY <1>13 DEF Enable, Becomes
  <1>14. ASSUME NEW u \in Units, Restart(u) PROVE HostTypes'
    BY <1>14 DEF Restart, Becomes, Started
  <1>15. CASE Source
    BY <1>15 DEF UpdaterTypes, Source
  <1>16. CASE Venv
    BY <1>16 DEF Venv
  <1>17. CASE Pip
    BY <1>17 DEF Pip
  <1>18. CASE Tools
    BY <1>18 DEF Tools
  <1>19. CASE Migrate
    BY <1>19 DEF UpdaterTypes, Migrate, Newest
  <1>20. CASE Installed
    BY <1>20 DEF UpdaterTypes, Installed
  <1>21. CASE InstallFails
    BY <1>21 DEF InstallFails
  <1>22. CASE Restore
    BY <1>22 DEF UpdaterTypes, Restore, RestoreEnv
  <1>23. CASE Undo
    BY <1>23 DEF UpdaterTypes, Undo, RestoreEnv
  <1>24. CASE Verify
    BY <1>24 DEF UpdaterTypes, Verify
  <1>25. CASE Rollback
    BY <1>25 DEF UpdaterTypes, Rollback
  <1>26. CASE RolledBack
    BY <1>26 DEF RolledBack
  <1>27. CASE Kill
    BY <1>27 DEF Kill, Cut
  <1>28. CASE Reboot
    BY <1>28 DEF Reboot, Started, Cut
  <1>29. CASE Health
    BY <1>29 DEF Health, UpdaterTypes
  <1>30. ASSUME NEW u \in Units, Dies(u) PROVE HostTypes'
    BY <1>30 DEF Dies, UpdaterTypes
  <1>31. ASSUME NEW u \in Units, Returns(u) PROVE HostTypes'
    BY <1>31 DEF Returns, Becomes, Started
  <1> QED
    BY StepCases, <1>1, <1>2, <1>3, <1>4, <1>5, <1>6, <1>7, <1>8, <1>9, <1>10, <1>11, <1>12,
       <1>13,
       <1>14, <1>15, <1>16, <1>17, <1>18, <1>19, <1>20, <1>21, <1>22, <1>23, <1>24, <1>25,
       <1>26, <1>27, <1>28, <1>29, <1>30, <1>31

\* How the updater goes to another step, ends, or is left alone.
LEMMA GoTypes ==
    ASSUME UpdaterTypes, NEW x \in Steps, Go(x), todo' \in SUBSET Units PROVE UpdaterTypes'
  BY DEF UpdaterTypes, Go, goal

LEMMA ExitTypes ==
    ASSUME UpdaterTypes, Exit("planned") \/ Exit("updated") \/ Exit("rolled back")
             \/ Exit("rollback failed") \/ Exit("given up") \/ Exit("killed")
    PROVE  UpdaterTypes'
  BY DEF UpdaterTypes, Exit, Steps

LEMMA SameTypes ==
    ASSUME UpdaterTypes, UNCHANGED <<goal, at, prev, todo, ended>> PROVE UpdaterTypes'
  BY DEF UpdaterTypes, goal

LEMMA StartTypes ==
    ASSUME UpdaterTypes, NEW o \in Actions \cup {"shell"}, NEW v \in Versions,
           NEW f \in {"host", "copy", "gone"}, Start(o, v, f)
    PROVE  UpdaterTypes'
  BY DEF UpdaterTypes, Start, Steps

LEMMA UpdaterTypesStep ==
    ASSUME TypeOK, Next PROVE UpdaterTypes'
  <1> USE DEF TypeOK
  <1>1. ASSUME NEW a \in Actions, NEW v \in Versions, Queue(a, v) PROVE UpdaterTypes'
    BY <1>1, SameTypes DEF Queue
  <1>2. ASSUME NEW a \in Actions, Write(a) PROVE UpdaterTypes'
    BY <1>2, SameTypes DEF Write
  <1>3. ASSUME NEW a \in Actions, Take(a) PROVE UpdaterTypes'
    BY <1>3, SameTypes DEF Take
  <1>4. ASSUME NEW a \in Actions, Call(a) PROVE UpdaterTypes'
    BY <1>4, StartTypes, SameTypes DEF Call, HostTypes, RequestTypes
  <1>5. ASSUME NEW a \in Actions, Record(a) PROVE UpdaterTypes'
    BY <1>5, SameTypes DEF Record
  <1>6. ASSUME NEW v \in Versions, Shell(v) PROVE UpdaterTypes'
    BY <1>6, StartTypes DEF Shell, HostTypes
  <1>7. CASE Preflight
    BY <1>7, GoTypes, ExitTypes DEF Preflight, UpdaterTypes, Steps
  <1>8. CASE Backup
    BY <1>8, GoTypes DEF Backup, UpdaterTypes, Steps, InstallSteps
  <1>9. CASE Remember
    BY <1>9 DEF UpdaterTypes, HostTypes, Remember, goal, Steps
  <1>10. CASE Stopped
    BY <1>10, GoTypes DEF Stopped, UpdaterTypes, Steps, InstallSteps
  <1>11. CASE GiveUp
    BY <1>11, ExitTypes DEF GiveUp
  <1>12. ASSUME NEW u \in Units, Stop(u) PROVE UpdaterTypes'
    BY <1>12 DEF UpdaterTypes, Stop, Becomes, goal
  <1>13. ASSUME NEW u \in Units, Enable(u) PROVE UpdaterTypes'
    BY <1>13 DEF UpdaterTypes, Enable, Becomes, goal
  <1>14. ASSUME NEW u \in Units, Restart(u) PROVE UpdaterTypes'
    BY <1>14 DEF UpdaterTypes, Restart, Becomes, goal
  <1>15. CASE Source
    BY <1>15, GoTypes DEF Source, UpdaterTypes, Steps, InstallSteps
  <1>16. CASE Venv
    BY <1>16, GoTypes DEF Venv, UpdaterTypes, Steps, InstallSteps
  <1>17. CASE Pip
    BY <1>17, GoTypes DEF Pip, UpdaterTypes, Steps, InstallSteps
  <1>18. CASE Tools
    BY <1>18, GoTypes DEF Tools, UpdaterTypes, Steps, InstallSteps
  <1>19. CASE Migrate
    BY <1>19, GoTypes DEF Migrate, UpdaterTypes, Steps, InstallSteps
  <1>20. CASE Installed
    BY <1>20, GoTypes DEF Installed, UpdaterTypes, Steps, InstallSteps
  <1>21. CASE InstallFails
    BY <1>21, GoTypes DEF InstallFails, UpdaterTypes, Steps, InstallSteps
  <1>22. CASE Restore
    BY <1>22, GoTypes DEF Restore, RestoreEnv, UpdaterTypes, Steps
  <1>23. CASE Undo
    BY <1>23, GoTypes DEF Undo, RestoreEnv, UpdaterTypes, Steps
  <1>24. CASE Verify
    BY <1>24, GoTypes, ExitTypes DEF Verify, UpdaterTypes, Steps
  <1>25. CASE Rollback
    BY <1>25, GoTypes DEF Rollback, UpdaterTypes, Steps
  <1>26. CASE RolledBack
    BY <1>26, ExitTypes DEF RolledBack
  <1>27. CASE Kill
    BY <1>27, ExitTypes DEF Kill
  <1>28. CASE Reboot
    BY <1>28 DEF UpdaterTypes, Reboot, Steps
  <1>29. CASE Health
    BY <1>29, GoTypes, ExitTypes DEF Health, UpdaterTypes, Steps
  <1>30. ASSUME NEW u \in Units, Dies(u) PROVE UpdaterTypes'
    BY <1>30, SameTypes DEF Dies
  <1>31. ASSUME NEW u \in Units, Returns(u) PROVE UpdaterTypes'
    BY <1>31, SameTypes DEF Returns
  <1> QED
    BY StepCases, <1>1, <1>2, <1>3, <1>4, <1>5, <1>6, <1>7, <1>8, <1>9, <1>10, <1>11, <1>12,
       <1>13,
       <1>14, <1>15, <1>16, <1>17, <1>18, <1>19, <1>20, <1>21, <1>22, <1>23, <1>24, <1>25,
       <1>26, <1>27, <1>28, <1>29, <1>30, <1>31

LEMMA RequestTypesStep ==
    ASSUME TypeOK, Next PROVE RequestTypes'
  <1> USE DEF TypeOK, RequestTypes, requests
  <1>1. ASSUME NEW a \in Actions, NEW v \in Versions, Queue(a, v) PROVE RequestTypes'
    BY <1>1 DEF Queue
  <1>2. ASSUME NEW a \in Actions, Write(a) PROVE RequestTypes'
    BY <1>2 DEF Write
  <1>3. ASSUME NEW a \in Actions, Take(a) PROVE RequestTypes'
    BY <1>3 DEF Take
  <1>4. ASSUME NEW a \in Actions, Call(a) PROVE RequestTypes'
    BY <1>4 DEF Call
  <1>5. ASSUME NEW a \in Actions, Record(a) PROVE RequestTypes'
    BY <1>5 DEF Record
  <1>6. ASSUME NEW v \in Versions, Shell(v) PROVE RequestTypes'
    BY <1>6 DEF Shell
  <1>7. CASE Preflight
    BY <1>7 DEF Preflight, Exit, Go
  <1>8. CASE Backup
    BY <1>8 DEF Backup, Go
  <1>9. CASE Remember
    BY <1>9 DEF Remember
  <1>10. CASE Stopped
    BY <1>10 DEF Stopped, Go
  <1>11. CASE GiveUp
    BY <1>11 DEF GiveUp, Exit
  <1>12. ASSUME NEW u \in Units, Stop(u) PROVE RequestTypes'
    BY <1>12 DEF Stop, Becomes
  <1>13. ASSUME NEW u \in Units, Enable(u) PROVE RequestTypes'
    BY <1>13 DEF Enable, Becomes
  <1>14. ASSUME NEW u \in Units, Restart(u) PROVE RequestTypes'
    BY <1>14 DEF Restart, Becomes, Started
  <1>15. CASE Source
    BY <1>15 DEF Source, Go
  <1>16. CASE Venv
    BY <1>16 DEF Venv, Go
  <1>17. CASE Pip
    BY <1>17 DEF Pip, Go
  <1>18. CASE Tools
    BY <1>18 DEF Tools, Go
  <1>19. CASE Migrate
    BY <1>19 DEF Migrate, Newest, Go
  <1>20. CASE Installed
    BY <1>20 DEF Installed, Go
  <1>21. CASE InstallFails
    BY <1>21 DEF InstallFails, Go
  <1>22. CASE Restore
    BY <1>22 DEF Restore, RestoreEnv, Go
  <1>23. CASE Undo
    BY <1>23 DEF Undo, RestoreEnv, Go
  <1>24. CASE Verify
    BY <1>24 DEF Verify, Exit, Go
  <1>25. CASE Rollback
    BY <1>25 DEF Rollback, Go
  <1>26. CASE RolledBack
    BY <1>26 DEF RolledBack, Exit
  <1>27. CASE Kill
    BY <1>27 DEF Kill, Exit, Cut
  <1>28. CASE Reboot
    BY <1>28 DEF Reboot, Started, Cut
  <1>29. CASE Health
    BY <1>29 DEF Health, Exit, Go
  <1>30. ASSUME NEW u \in Units, Dies(u) PROVE RequestTypes'
    BY <1>30 DEF Dies
  <1>31. ASSUME NEW u \in Units, Returns(u) PROVE RequestTypes'
    BY <1>31 DEF Returns, Becomes
  <1> QED
    BY StepCases, <1>1, <1>2, <1>3, <1>4, <1>5, <1>6, <1>7, <1>8, <1>9, <1>10, <1>11, <1>12,
       <1>13,
       <1>14, <1>15, <1>16, <1>17, <1>18, <1>19, <1>20, <1>21, <1>22, <1>23, <1>24, <1>25,
       <1>26, <1>27, <1>28, <1>29, <1>30, <1>31

\* Each step is free, a fault, or counted by one of the other bounds.
LEMMA CountSteps ==
    ASSUME Next
    PROVE  \/ UNCHANGED counts
           \/ Fault
           \/ asks < MaxAsks /\ asks' = asks + 1 /\ UNCHANGED <<runs, faults, boots>>
           \/ runs < MaxRuns /\ runs' = runs + 1 /\ UNCHANGED <<asks, faults, boots>>
           \/ /\ faults < MaxFaults /\ faults' = faults + 1 /\ boots' = boots + 1
              /\ UNCHANGED <<asks, runs>>
  <1> DEFINE Counted == \/ UNCHANGED counts
                        \/ Fault
                        \/ asks < MaxAsks /\ asks' = asks + 1 /\ UNCHANGED <<runs, faults, boots>>
                        \/ runs < MaxRuns /\ runs' = runs + 1 /\ UNCHANGED <<asks, faults, boots>>
                        \/ /\ faults < MaxFaults /\ faults' = faults + 1 /\ boots' = boots + 1
                           /\ UNCHANGED <<asks, runs>>
  <1>1. ASSUME NEW a \in Actions, NEW v \in Versions, Queue(a, v) PROVE Counted
    BY <1>1 DEF Queue, NoFault
  <1>2. ASSUME NEW a \in Actions, Write(a) PROVE Counted
    BY <1>2 DEF Write, NoFault
  <1>3. ASSUME NEW a \in Actions, Take(a) PROVE Counted
    BY <1>3 DEF Take, NoFault
  <1>4. ASSUME NEW a \in Actions, Call(a) PROVE Counted
    BY <1>4 DEF Call, Start
  <1>5. ASSUME NEW a \in Actions, Record(a) PROVE Counted
    BY <1>5 DEF Record, NoFault
  <1>6. ASSUME NEW v \in Versions, Shell(v) PROVE Counted
    BY <1>6 DEF Shell, Start
  <1>7. CASE Preflight
    BY <1>7 DEF Preflight, NoFault
  <1>8. CASE Backup
    BY <1>8 DEF Backup, NoFault
  <1>9. CASE Remember
    BY <1>9 DEF Remember, NoFault
  <1>10. CASE Stopped
    BY <1>10 DEF Stopped, NoFault
  <1>11. CASE GiveUp
    BY <1>11 DEF GiveUp, NoFault
  <1>12. ASSUME NEW u \in Units, Stop(u) PROVE Counted
    BY <1>12 DEF Stop, Becomes, NoFault
  <1>13. ASSUME NEW u \in Units, Enable(u) PROVE Counted
    BY <1>13 DEF Enable, Becomes, NoFault
  <1>14. ASSUME NEW u \in Units, Restart(u) PROVE Counted
    BY <1>14 DEF Restart, Becomes, NoFault
  <1>15. CASE Source
    BY <1>15 DEF Source, NoFault
  <1>16. CASE Venv
    BY <1>16 DEF Venv, NoFault
  <1>17. CASE Pip
    BY <1>17 DEF Pip, NoFault
  <1>18. CASE Tools
    BY <1>18 DEF Tools, NoFault
  <1>19. CASE Migrate
    BY <1>19 DEF Migrate, NoFault
  <1>20. CASE Installed
    BY <1>20 DEF Installed, NoFault
  <1>21. CASE InstallFails
    BY <1>21 DEF InstallFails, NoFault
  <1>22. CASE Restore
    BY <1>22 DEF Restore, RestoreEnv, NoFault
  <1>23. CASE Undo
    BY <1>23 DEF Undo, RestoreEnv, NoFault
  <1>24. CASE Verify
    BY <1>24 DEF Verify, NoFault
  <1>25. CASE Rollback
    BY <1>25 DEF Rollback, NoFault
  <1>26. CASE RolledBack
    BY <1>26 DEF RolledBack, NoFault
  <1>27. CASE Kill
    BY <1>27 DEF Kill, NoFault
  <1>28. CASE Reboot
    BY <1>28 DEF Reboot, NoFault
  <1>29. CASE Health
    BY <1>29 DEF Health, NoFault
  <1>30. ASSUME NEW u \in Units, Dies(u) PROVE Counted
    BY <1>30 DEF Dies, NoFault
  <1>31. ASSUME NEW u \in Units, Returns(u) PROVE Counted
    BY <1>31 DEF Returns, NoFault
  <1> QED
    BY StepCases, <1>1, <1>2, <1>3, <1>4, <1>5, <1>6, <1>7, <1>8, <1>9, <1>10, <1>11, <1>12,
       <1>13,
       <1>14, <1>15, <1>16, <1>17, <1>18, <1>19, <1>20, <1>21, <1>22, <1>23, <1>24, <1>25,
       <1>26, <1>27, <1>28, <1>29, <1>30, <1>31

LEMMA CountTypesStep ==
    ASSUME TypeOK, Next PROVE CountTypes'
  <1>1. CASE UNCHANGED counts
    BY <1>1 DEF TypeOK, CountTypes, counts
  <1>2. CASE Fault
    BY <1>2, Constants DEF TypeOK, CountTypes, Fault
  <1>3. CASE ~(UNCHANGED counts \/ Fault)
    BY <1>3, CountSteps, Constants DEF TypeOK, CountTypes
  <1> QED
    BY <1>1, <1>2, <1>3

\* TypeOK: each group of variables keeps its types.
THEOREM Types == Spec => []TypeOK
  <1>1. Init => TypeOK
    BY Constants DEF Init, TypeOK, HostTypes, UpdaterTypes, RequestTypes, CountTypes, Steps
  <1>2. TypeOK /\ [Next]_vars => TypeOK'
    <2>1. ASSUME TypeOK, Next PROVE TypeOK'
      BY <2>1, HostTypesStep, UpdaterTypesStep, RequestTypesStep, CountTypesStep DEF TypeOK
    <2>2. ASSUME TypeOK, UNCHANGED vars PROVE TypeOK'
      BY <2>2 DEF TypeOK, HostTypes, UpdaterTypes, RequestTypes, CountTypes, vars, host, app,
                  node, goal, requests, counts
    <2> QED
      BY <2>1, <2>2
  <1> QED
    BY <1>1, <1>2, PTL DEF Spec

\* The schema is never changed without a backup of what it was.
LEMMA DumpedStep ==
    ASSUME Dumped, Next PROVE Dumped'
  <1> USE DEF Dumped, host
  <1>1. ASSUME NEW a \in Actions, NEW v \in Versions, Queue(a, v) PROVE Dumped'
    BY <1>1 DEF Queue
  <1>2. ASSUME NEW a \in Actions, Write(a) PROVE Dumped'
    BY <1>2 DEF Write
  <1>3. ASSUME NEW a \in Actions, Take(a) PROVE Dumped'
    BY <1>3 DEF Take
  <1>4. ASSUME NEW a \in Actions, Call(a) PROVE Dumped'
    BY <1>4 DEF Call, Start
  <1>5. ASSUME NEW a \in Actions, Record(a) PROVE Dumped'
    BY <1>5 DEF Record
  <1>6. ASSUME NEW v \in Versions, Shell(v) PROVE Dumped'
    BY <1>6 DEF Shell, Start
  <1>7. CASE Preflight
    BY <1>7 DEF Preflight, Exit, Go
  <1>8. CASE Backup
    BY <1>8 DEF Backup, Go
  <1>9. CASE Remember
    BY <1>9 DEF Remember
  <1>10. CASE Stopped
    BY <1>10 DEF Stopped, Go
  <1>11. CASE GiveUp
    BY <1>11 DEF GiveUp, Exit
  <1>12. ASSUME NEW u \in Units, Stop(u) PROVE Dumped'
    BY <1>12 DEF Stop, Becomes
  <1>13. ASSUME NEW u \in Units, Enable(u) PROVE Dumped'
    BY <1>13 DEF Enable, Becomes
  <1>14. ASSUME NEW u \in Units, Restart(u) PROVE Dumped'
    BY <1>14 DEF Restart, Becomes
  <1>15. CASE Source
    BY <1>15 DEF Source, Go
  <1>16. CASE Venv
    BY <1>16 DEF Venv, Go
  <1>17. CASE Pip
    BY <1>17 DEF Pip, Go
  <1>18. CASE Tools
    BY <1>18 DEF Tools, Go
  <1>19. CASE Migrate
    BY <1>19 DEF Migrate, Go
  <1>20. CASE Installed
    BY <1>20 DEF Installed, Go
  <1>21. CASE InstallFails
    BY <1>21 DEF InstallFails, Go, InstallSteps
  <1>22. CASE Restore
    BY <1>22 DEF Restore, RestoreEnv, Go
  <1>23. CASE Undo
    BY <1>23 DEF Undo, RestoreEnv, Go
  <1>24. CASE Verify
    BY <1>24 DEF Verify, Exit, Go
  <1>25. CASE Rollback
    BY <1>25 DEF Rollback, Go
  <1>26. CASE RolledBack
    BY <1>26 DEF RolledBack, Exit
  <1>27. CASE Kill
    BY <1>27 DEF Kill, Exit
  <1>28. CASE Reboot
    BY <1>28 DEF Reboot
  <1>29. CASE Health
    BY <1>29 DEF Health, Exit, Go
  <1>30. ASSUME NEW u \in Units, Dies(u) PROVE Dumped'
    BY <1>30 DEF Dies
  <1>31. ASSUME NEW u \in Units, Returns(u) PROVE Dumped'
    BY <1>31 DEF Returns, Becomes
  <1> QED
    BY StepCases, <1>1, <1>2, <1>3, <1>4, <1>5, <1>6, <1>7, <1>8, <1>9, <1>10, <1>11, <1>12,
       <1>13,
       <1>14, <1>15, <1>16, <1>17, <1>18, <1>19, <1>20, <1>21, <1>22, <1>23, <1>24, <1>25,
       <1>26, <1>27, <1>28, <1>29, <1>30, <1>31

LEMMA SchemaStep ==
    ASSUME Dumped, Next, schema' # schema PROVE schema \in dumps
  <1>1. CASE Migrate
    BY <1>1 DEF Dumped, Migrate
  <1>2. CASE ~Migrate
    <2> DEFINE Kept == schema' = schema
    <2> HIDE DEF Kept
    <2>1. Kept
      <3>1. ASSUME NEW a \in Actions, NEW v \in Versions, Queue(a, v) PROVE Kept
        BY <3>1 DEF Queue, Kept, host
      <3>2. ASSUME NEW a \in Actions, Write(a) PROVE Kept
        BY <3>2 DEF Write, Kept, host
      <3>3. ASSUME NEW a \in Actions, Take(a) PROVE Kept
        BY <3>3 DEF Take, Kept, host
      <3>4. ASSUME NEW a \in Actions, Call(a) PROVE Kept
        BY <3>4 DEF Call, Start, Kept, host
      <3>5. ASSUME NEW a \in Actions, Record(a) PROVE Kept
        BY <3>5 DEF Record, Kept, host
      <3>6. ASSUME NEW v \in Versions, Shell(v) PROVE Kept
        BY <3>6 DEF Shell, Start, Kept, host
      <3>7. CASE Preflight
        BY <3>7 DEF Preflight, Kept, host
      <3>8. CASE Backup
        BY <3>8 DEF Backup, Kept, host
      <3>9. CASE Remember
        BY <3>9 DEF Remember, Kept, host
      <3>10. CASE Stopped
        BY <3>10 DEF Stopped, Kept, host
      <3>11. CASE GiveUp
        BY <3>11 DEF GiveUp, Kept, host
      <3>12. ASSUME NEW u \in Units, Stop(u) PROVE Kept
        BY <3>12 DEF Stop, Becomes, Kept, host
      <3>13. ASSUME NEW u \in Units, Enable(u) PROVE Kept
        BY <3>13 DEF Enable, Becomes, Kept, host
      <3>14. ASSUME NEW u \in Units, Restart(u) PROVE Kept
        BY <3>14 DEF Restart, Becomes, Kept, host
      <3>15. CASE Source
        BY <3>15 DEF Source, Kept, host
      <3>16. CASE Venv
        BY <3>16 DEF Venv, Kept, host
      <3>17. CASE Pip
        BY <3>17 DEF Pip, Kept, host
      <3>18. CASE Tools
        BY <3>18 DEF Tools, Kept, host
      <3>19. CASE Migrate
        BY <3>19, <1>2
      <3>20. CASE Installed
        BY <3>20 DEF Installed, Kept, host
      <3>21. CASE InstallFails
        BY <3>21 DEF InstallFails, Kept, host
      <3>22. CASE Restore
        BY <3>22 DEF Restore, RestoreEnv, Kept
      <3>23. CASE Undo
        BY <3>23 DEF Undo, RestoreEnv, Kept
      <3>24. CASE Verify
        BY <3>24 DEF Verify, Kept, host
      <3>25. CASE Rollback
        BY <3>25 DEF Rollback, Kept, host
      <3>26. CASE RolledBack
        BY <3>26 DEF RolledBack, Kept, host
      <3>27. CASE Kill
        BY <3>27 DEF Kill, Kept, host
      <3>28. CASE Reboot
        BY <3>28 DEF Reboot, Kept, host
      <3>29. CASE Health
        BY <3>29 DEF Health, Kept, host
      <3>30. ASSUME NEW u \in Units, Dies(u) PROVE Kept
        BY <3>30 DEF Dies, Kept, host
      <3>31. ASSUME NEW u \in Units, Returns(u) PROVE Kept
        BY <3>31 DEF Returns, Kept, host
      <3> QED
        BY StepCases, <3>1, <3>2, <3>3, <3>4, <3>5, <3>6, <3>7, <3>8, <3>9, <3>10, <3>11,
       <3>12, <3>13, <3>14,
           <3>15, <3>16, <3>17, <3>18, <3>19, <3>20, <3>21, <3>22, <3>23, <3>24, <3>25, <3>26,
            <3>27, <3>28, <3>29, <3>30, <3>31
    <2> QED
      BY <2>1 DEF Kept
  <1> QED
    BY <1>1, <1>2

\* SchemaDumped: between a backup and the migrations nothing changes the schema.
THEOREM SchemaIsDumped == Spec => SchemaDumped
  <1>1. Init => Dumped
    BY DEF Init, Dumped
  <1>2. Dumped /\ [Next]_vars => Dumped'
    BY DumpedStep DEF Dumped, vars, host
  <1>3. Dumped /\ [Next]_vars => [schema' # schema => schema \in dumps]_vars
    BY SchemaStep
  <1> QED
    BY <1>1, <1>2, <1>3, PTL DEF Spec, SchemaDumped

\* The lock is held at every step.
LEMMA LockedStep ==
    ASSUME TypeOK, Locked, Next PROVE Locked'
  <1> USE DEF Locked, goal
  <1>1. ASSUME NEW a \in Actions, NEW v \in Versions, Queue(a, v) PROVE Locked'
    BY <1>1 DEF Queue
  <1>2. ASSUME NEW a \in Actions, Write(a) PROVE Locked'
    BY <1>2 DEF Write
  <1>3. ASSUME NEW a \in Actions, Take(a) PROVE Locked'
    BY <1>3 DEF Take
  <1>4. ASSUME NEW a \in Actions, Call(a) PROVE Locked'
    BY <1>4, UpdateAssumption DEF Call, Start, Actions
  <1>5. ASSUME NEW a \in Actions, Record(a) PROVE Locked'
    BY <1>5 DEF Record
  <1>6. ASSUME NEW v \in Versions, Shell(v) PROVE Locked'
    BY <1>6, UpdateAssumption DEF Shell, Start
  <1>7. CASE Preflight
    BY <1>7 DEF Preflight, Exit, Go
  <1>8. CASE Backup
    BY <1>8 DEF Backup, Go
  <1>9. CASE Remember
    BY <1>9 DEF Remember
  <1>10. CASE Stopped
    BY <1>10 DEF Stopped, Go
  <1>11. CASE GiveUp
    BY <1>11 DEF GiveUp, Exit
  <1>12. ASSUME NEW u \in Units, Stop(u) PROVE Locked'
    BY <1>12 DEF Stop, Becomes
  <1>13. ASSUME NEW u \in Units, Enable(u) PROVE Locked'
    BY <1>13 DEF Enable, Becomes
  <1>14. ASSUME NEW u \in Units, Restart(u) PROVE Locked'
    BY <1>14 DEF Restart, Becomes
  <1>15. CASE Source
    BY <1>15 DEF Source, Go
  <1>16. CASE Venv
    BY <1>16 DEF Venv, Go
  <1>17. CASE Pip
    BY <1>17 DEF Pip, Go
  <1>18. CASE Tools
    BY <1>18 DEF Tools, Go
  <1>19. CASE Migrate
    BY <1>19 DEF Migrate, Go
  <1>20. CASE Installed
    BY <1>20 DEF Installed, Go
  <1>21. CASE InstallFails
    BY <1>21 DEF InstallFails, Go, InstallSteps
  <1>22. CASE Restore
    BY <1>22 DEF Restore, RestoreEnv, Go
  <1>23. CASE Undo
    BY <1>23 DEF Undo, RestoreEnv, Go
  <1>24. CASE Verify
    BY <1>24 DEF Verify, Exit, Go
  <1>25. CASE Rollback
    BY <1>25 DEF Rollback, Go
  <1>26. CASE RolledBack
    BY <1>26 DEF RolledBack, Exit
  <1>27. CASE Kill
    BY <1>27 DEF Kill, Exit
  <1>28. CASE Reboot
    BY <1>28 DEF Reboot
  <1>29. CASE Health
    BY <1>29 DEF Health, Exit, Go
  <1>30. ASSUME NEW u \in Units, Dies(u) PROVE Locked'
    BY <1>30 DEF Dies
  <1>31. ASSUME NEW u \in Units, Returns(u) PROVE Locked'
    BY <1>31 DEF Returns, Becomes
  <1> QED
    BY StepCases, <1>1, <1>2, <1>3, <1>4, <1>5, <1>6, <1>7, <1>8, <1>9, <1>10, <1>11, <1>12,
       <1>13,
       <1>14, <1>15, <1>16, <1>17, <1>18, <1>19, <1>20, <1>21, <1>22, <1>23, <1>24, <1>25,
       <1>26, <1>27, <1>28, <1>29, <1>30, <1>31

\* What a finished update leaves.
LEMMA BuiltStep ==
    ASSUME TypeOK, Built, Next PROVE Built'
  <1> USE DEF Built, host, goal, app, node
  <1>1. ASSUME NEW a \in Actions, NEW v \in Versions, Queue(a, v) PROVE Built'
    BY <1>1 DEF Queue
  <1>2. ASSUME NEW a \in Actions, Write(a) PROVE Built'
    BY <1>2 DEF Write
  <1>3. ASSUME NEW a \in Actions, Take(a) PROVE Built'
    BY <1>3 DEF Take
  <1>4. ASSUME NEW a \in Actions, Call(a) PROVE Built'
    BY <1>4 DEF Call, Start
  <1>5. ASSUME NEW a \in Actions, Record(a) PROVE Built'
    BY <1>5 DEF Record
  <1>6. ASSUME NEW v \in Versions, Shell(v) PROVE Built'
    BY <1>6 DEF Shell, Start
  <1>7. CASE Preflight
    BY <1>7 DEF Preflight, Exit, Go
  <1>8. CASE Backup
    BY <1>8 DEF Backup, Go
  <1>9. CASE Remember
    BY <1>9 DEF Remember
  <1>10. CASE Stopped
    BY <1>10 DEF Stopped, Go
  <1>11. CASE GiveUp
    BY <1>11 DEF GiveUp, Exit
  <1>12. ASSUME NEW u \in Units, Stop(u) PROVE Built'
    BY <1>12 DEF Stop, Becomes, TypeOK, HostTypes
  <1>13. ASSUME NEW u \in Units, Enable(u) PROVE Built'
    <2>1. /\ at = "enable" /\ todo' = todo \ {u} /\ code = target
          /\ UNCHANGED <<code, venv, schema, target, at>>
          /\ run \in [Units -> Versions \cup {Down}] /\ died \in [Units -> Steps \cup {None}]
      BY <1>13 DEF Enable, TypeOK, HostTypes
    <2>2. \A w \in Units \ {u}: /\ run'[w] = run[w] /\ died'[w] = died[w]
                              /\ (w \in enabled') = (w \in enabled)
                              /\ (w \in todo') = (w \in todo)
      BY <1>13, <2>1 DEF Enable, Becomes
    <2>3. \/ u \in enabled' /\ run'[u] = target
          \/ run'[u] = Down /\ died'[u] = None
      BY <1>13, <2>1 DEF Enable, Becomes
    <2>4. \A w \in Units: \/ w \in todo'
                         \/ (run'[w] = Down /\ died'[w] = None)
                         \/ (run'[w] \in {target, Down} /\ w \in enabled')
      BY <2>1, <2>2, <2>3
    <2>5. venv' = target /\ schema' >= target
      BY <2>1
    <2> QED
      BY <2>1, <2>4, <2>5
  <1>14. ASSUME NEW u \in Units, Restart(u) PROVE Built'
    BY <1>14 DEF Restart, Becomes
  <1>15. CASE Source
    BY <1>15 DEF Source, Go
  <1>16. CASE Venv
    BY <1>16 DEF Venv, Go
  <1>17. CASE Pip
    BY <1>17 DEF Pip, Go
  <1>18. CASE Tools
    BY <1>18 DEF Tools, Go
  <1>19. CASE Migrate
    <2>1. schema' >= target
      <3>1. schema \in Nat /\ target \in Nat
        BY Constants DEF TypeOK, HostTypes, UpdaterTypes
      <3>2. schema' = IF schema > target THEN schema ELSE target
        BY <1>19 DEF Migrate, Newest
      <3> QED
        BY <3>1, <3>2
    <2>2. /\ at = "migrate" /\ UNCHANGED <<code, venv, target>>
          /\ at' = "undo" \/ (at' = "enable" /\ todo' = Units)
      BY <1>19 DEF Migrate, Go
    <2> QED
      BY <2>1, <2>2
  <1>20. CASE Installed
    BY <1>20 DEF Installed, Go
  <1>21. CASE InstallFails
    BY <1>21 DEF InstallFails, Go, InstallSteps
  <1>22. CASE Restore
    BY <1>22 DEF Restore, RestoreEnv, Go
  <1>23. CASE Undo
    BY <1>23 DEF Undo, RestoreEnv, Go
  <1>24. CASE Verify
    BY <1>24 DEF Verify, Exit, Go
  <1>25. CASE Rollback
    BY <1>25 DEF Rollback, Go
  <1>26. CASE RolledBack
    BY <1>26 DEF RolledBack, Exit
  <1>27. CASE Kill
    BY <1>27 DEF Kill, Exit
  <1>28. CASE Reboot
    BY <1>28 DEF Reboot
  <1>29. CASE Health
    BY <1>29 DEF Health, Exit, Go
  <1>30. ASSUME NEW u \in Units, Dies(u) PROVE Built'
    BY <1>30, Constants DEF Dies, TypeOK, HostTypes, UpdaterTypes
  <1>31. ASSUME NEW u \in Units, Returns(u) PROVE Built'
    BY <1>31, Constants DEF Returns, Becomes, TypeOK, HostTypes, UpdaterTypes, Started
  <1> QED
    BY StepCases, <1>1, <1>2, <1>3, <1>4, <1>5, <1>6, <1>7, <1>8, <1>9, <1>10, <1>11, <1>12,
       <1>13,
       <1>14, <1>15, <1>16, <1>17, <1>18, <1>19, <1>20, <1>21, <1>22, <1>23, <1>24, <1>25,
       <1>26, <1>27, <1>28, <1>29, <1>30, <1>31

LEMMA SeenStep ==
    ASSUME TypeOK, Built, Seen, Next PROVE Seen'
  <1> USE DEF Seen, host, goal, app, node
  <1>1. ASSUME NEW a \in Actions, NEW v \in Versions, Queue(a, v) PROVE Seen'
    BY <1>1 DEF Queue
  <1>2. ASSUME NEW a \in Actions, Write(a) PROVE Seen'
    BY <1>2 DEF Write
  <1>3. ASSUME NEW a \in Actions, Take(a) PROVE Seen'
    BY <1>3 DEF Take
  <1>4. ASSUME NEW a \in Actions, Call(a) PROVE Seen'
    BY <1>4 DEF Call, Start
  <1>5. ASSUME NEW a \in Actions, Record(a) PROVE Seen'
    BY <1>5 DEF Record
  <1>6. ASSUME NEW v \in Versions, Shell(v) PROVE Seen'
    BY <1>6 DEF Shell, Start
  <1>7. CASE Preflight
    BY <1>7 DEF Preflight, Exit, Go
  <1>8. CASE Backup
    BY <1>8 DEF Backup, Go
  <1>9. CASE Remember
    BY <1>9 DEF Remember
  <1>10. CASE Stopped
    BY <1>10 DEF Stopped, Go
  <1>11. CASE GiveUp
    BY <1>11 DEF GiveUp, Exit
  <1>12. ASSUME NEW u \in Units, Stop(u) PROVE Seen'
    BY <1>12 DEF Stop, Becomes
  <1>13. ASSUME NEW u \in Units, Enable(u) PROVE Seen'
    BY <1>13 DEF Enable, Becomes
  <1>14. ASSUME NEW u \in Units, Restart(u) PROVE Seen'
    BY <1>14 DEF Restart, Becomes
  <1>15. CASE Source
    BY <1>15 DEF Source, Go
  <1>16. CASE Venv
    BY <1>16 DEF Venv, Go
  <1>17. CASE Pip
    BY <1>17 DEF Pip, Go
  <1>18. CASE Tools
    BY <1>18 DEF Tools, Go
  <1>19. CASE Migrate
    BY <1>19 DEF Migrate, Go
  <1>20. CASE Installed
    BY <1>20 DEF Installed, Go
  <1>21. CASE InstallFails
    BY <1>21 DEF InstallFails, Go
  <1>22. CASE Restore
    BY <1>22 DEF Restore, RestoreEnv, Go
  <1>23. CASE Undo
    BY <1>23 DEF Undo, RestoreEnv, Go
  <1>24. CASE Verify
    BY <1>24 DEF Verify, Active, Go, TypeOK, HostTypes
  <1>25. CASE Rollback
    BY <1>25 DEF Rollback, Go
  <1>26. CASE RolledBack
    BY <1>26 DEF RolledBack, Exit
  <1>27. CASE Kill
    BY <1>27 DEF Kill, Exit
  <1>28. CASE Reboot
    BY <1>28 DEF Reboot
  <1>29. CASE Health
    BY <1>29 DEF Health, Exit, Go
  <1>30. ASSUME NEW u \in Units, Dies(u) PROVE Seen'
    BY <1>30 DEF Dies, TypeOK, HostTypes
  <1>31. ASSUME NEW u \in Units, Returns(u) PROVE Seen'
    BY <1>31, Constants DEF Returns, Becomes, Started, Built, TypeOK, HostTypes
  <1> QED
    BY StepCases, <1>1, <1>2, <1>3, <1>4, <1>5, <1>6, <1>7, <1>8, <1>9, <1>10, <1>11, <1>12,
       <1>13,
       <1>14, <1>15, <1>16, <1>17, <1>18, <1>19, <1>20, <1>21, <1>22, <1>23, <1>24, <1>25,
       <1>26, <1>27, <1>28, <1>29, <1>30, <1>31

LEMMA WholeStep ==
    ASSUME TypeOK, Locked, Built, Seen, Whole, Next PROVE Whole'
  <1> USE DEF Whole, host, goal, app, node
  <1>1. ASSUME NEW a \in Actions, NEW v \in Versions, Queue(a, v) PROVE Whole'
    BY <1>1 DEF Queue
  <1>2. ASSUME NEW a \in Actions, Write(a) PROVE Whole'
    BY <1>2 DEF Write
  <1>3. ASSUME NEW a \in Actions, Take(a) PROVE Whole'
    BY <1>3 DEF Take
  <1>4. ASSUME NEW a \in Actions, Call(a) PROVE Whole'
    BY <1>4 DEF Call, Start
  <1>5. ASSUME NEW a \in Actions, Record(a) PROVE Whole'
    BY <1>5 DEF Record
  <1>6. ASSUME NEW v \in Versions, Shell(v) PROVE Whole'
    BY <1>6 DEF Shell, Start
  <1>7. CASE Preflight
    BY <1>7 DEF Preflight, Exit, Go
  <1>8. CASE Backup
    BY <1>8 DEF Backup, Go
  <1>9. CASE Remember
    BY <1>9 DEF Remember
  <1>10. CASE Stopped
    BY <1>10 DEF Stopped, Go
  <1>11. CASE GiveUp
    BY <1>11 DEF GiveUp, Exit
  <1>12. ASSUME NEW u \in Units, Stop(u) PROVE Whole'
    BY <1>12 DEF Stop, Becomes
  <1>13. ASSUME NEW u \in Units, Enable(u) PROVE Whole'
    BY <1>13 DEF Enable, Becomes
  <1>14. ASSUME NEW u \in Units, Restart(u) PROVE Whole'
    BY <1>14 DEF Restart, Becomes
  <1>15. CASE Source
    BY <1>15 DEF Source, Go
  <1>16. CASE Venv
    BY <1>16 DEF Venv, Go
  <1>17. CASE Pip
    BY <1>17 DEF Pip, Go
  <1>18. CASE Tools
    BY <1>18 DEF Tools, Go
  <1>19. CASE Migrate
    BY <1>19 DEF Migrate, Go
  <1>20. CASE Installed
    BY <1>20 DEF Installed, Go
  <1>21. CASE InstallFails
    BY <1>21 DEF InstallFails, Go
  <1>22. CASE Restore
    BY <1>22 DEF Restore, RestoreEnv, Go
  <1>23. CASE Undo
    BY <1>23 DEF Undo, RestoreEnv, Go
  <1>24. CASE Verify
    BY <1>24, Constants DEF Verify, Active, Built, Exit, Go, TypeOK, HostTypes, UpdaterTypes
  <1>25. CASE Rollback
    BY <1>25 DEF Rollback, Go
  <1>26. CASE RolledBack
    BY <1>26 DEF RolledBack, Exit
  <1>27. CASE Kill
    BY <1>27 DEF Kill, Exit
  <1>28. CASE Reboot
    <2> SUFFICES ASSUME at' = "off", ended' = "updated" PROVE Whole'
      OBVIOUS
    <2>1. at = "off" /\ ended = "updated"
      BY <1>28 DEF Reboot, Locked
    <2>2. UNCHANGED <<code, venv, release, schema, target, prev, enabled>>
      BY <1>28 DEF Reboot
    <2>3. env = "host" => env' = "host"
      BY <1>28 DEF Reboot, Cut
    <2>4. \A u \in prev.units: u \in enabled /\ run'[u] = target
      <3>1. run' = [u \in Units |-> IF u \in enabled THEN code ELSE Down]
        BY <1>28, <2>1 DEF Reboot, Started
      <3> QED
        BY <3>1, <2>1 DEF TypeOK, UpdaterTypes
    <2> QED
      BY <2>1, <2>2, <2>3, <2>4
  <1>29. CASE Health
    <2> SUFFICES ASSUME at' = "off", ended' = "updated" PROVE Whole'
      OBVIOUS
    <2>1. /\ at = "health" /\ release' = target
          /\ UNCHANGED <<code, venv, schema, target, prev, env, enabled, run, died>>
      BY <1>29 DEF Health, Exit, Go
    <2>2. \A u \in prev.units: u \in enabled /\ (run[u] = target \/ died[u] = "health")
      BY <2>1, Constants DEF Built, Seen, TypeOK, UpdaterTypes
    <2> QED
      BY <2>1, <2>2 DEF Built
  <1>30. ASSUME NEW u \in Units, Dies(u) PROVE Whole'
    BY <1>30, Constants DEF Dies, TypeOK, HostTypes, UpdaterTypes
  <1>31. ASSUME NEW u \in Units, Returns(u) PROVE Whole'
    BY <1>31, Constants DEF Returns, Becomes, TypeOK, HostTypes, UpdaterTypes, Started
  <1> QED
    BY StepCases, <1>1, <1>2, <1>3, <1>4, <1>5, <1>6, <1>7, <1>8, <1>9, <1>10, <1>11, <1>12,
       <1>13,
       <1>14, <1>15, <1>16, <1>17, <1>18, <1>19, <1>20, <1>21, <1>22, <1>23, <1>24, <1>25,
       <1>26, <1>27, <1>28, <1>29, <1>30, <1>31

\* UpdatedIsWhole: what the installer achieved stays until the next update starts.
THEOREM Updated == Spec => []UpdatedIsWhole
  <1>1. Init => Locked /\ Built /\ Seen /\ Whole
    BY DEF Init, Locked, Built, Seen, Whole
  <1>2. TypeOK /\ Locked /\ Built /\ Seen /\ Whole /\ [Next]_vars
          => Locked' /\ Built' /\ Seen' /\ Whole'
    BY LockedStep, BuiltStep, SeenStep, WholeStep
       DEF Locked, Built, Seen, Whole, vars, host, goal, app, node
  <1>3. Whole => UpdatedIsWhole
    BY DEF Whole, UpdatedIsWhole
  <1> QED
    BY <1>1, <1>2, <1>3, Types, PTL DEF Spec

\* What a rollback gives back.
LEMMA BackStep ==
    ASSUME TypeOK, Locked, Built, Back, Next PROVE Back'
  <1> USE DEF Back, host, goal, app, node
  <1>1. ASSUME NEW a \in Actions, NEW v \in Versions, Queue(a, v) PROVE Back'
    BY <1>1 DEF Queue
  <1>2. ASSUME NEW a \in Actions, Write(a) PROVE Back'
    BY <1>2 DEF Write
  <1>3. ASSUME NEW a \in Actions, Take(a) PROVE Back'
    BY <1>3 DEF Take
  <1>4. ASSUME NEW a \in Actions, Call(a) PROVE Back'
    BY <1>4 DEF Call, Start
  <1>5. ASSUME NEW a \in Actions, Record(a) PROVE Back'
    BY <1>5 DEF Record
  <1>6. ASSUME NEW v \in Versions, Shell(v) PROVE Back'
    BY <1>6 DEF Shell, Start
  <1>7. CASE Preflight
    BY <1>7 DEF Preflight, Exit, Go
  <1>8. CASE Backup
    BY <1>8 DEF Backup, Go
  <1>9. CASE Remember
    BY <1>9 DEF Remember
  <1>10. CASE Stopped
    BY <1>10 DEF Stopped, Go
  <1>11. CASE GiveUp
    BY <1>11 DEF GiveUp, Exit
  <1>12. ASSUME NEW u \in Units, Stop(u) PROVE Back'
    BY <1>12 DEF Stop, Becomes
  <1>13. ASSUME NEW u \in Units, Enable(u) PROVE Back'
    BY <1>13 DEF Enable, Becomes
  <1>14. ASSUME NEW u \in Units, Restart(u) PROVE Back'
    BY <1>14, Constants DEF Restart, Becomes, Started, TypeOK, HostTypes, UpdaterTypes
  <1>15. CASE Source
    BY <1>15 DEF Source, Go
  <1>16. CASE Venv
    BY <1>16 DEF Venv, Go
  <1>17. CASE Pip
    BY <1>17 DEF Pip, Go
  <1>18. CASE Tools
    BY <1>18 DEF Tools, Go
  <1>19. CASE Migrate
    BY <1>19 DEF Migrate, Go
  <1>20. CASE Installed
    BY <1>20 DEF Installed, Go
  <1>21. CASE InstallFails
    BY <1>21 DEF InstallFails, Go, InstallSteps
  <1>22. CASE Restore
    BY <1>22 DEF Restore, RestoreEnv, Go
  <1>23. CASE Undo
    BY <1>23 DEF Undo, RestoreEnv, Go
  <1>24. CASE Verify
    BY <1>24 DEF Verify, Exit, Go, Built
  <1>25. CASE Rollback
    BY <1>25 DEF Rollback, Go
  <1>26. CASE RolledBack
    BY <1>26 DEF RolledBack, Exit
  <1>27. CASE Kill
    BY <1>27 DEF Kill, Exit
  <1>28. CASE Reboot
    <2>1. at' = "off" /\ UNCHANGED <<code, venv, release, prev, enabled>>
      BY <1>28 DEF Reboot
    <2>2. env = "host" => env' = "host"
      BY <1>28 DEF Reboot, Cut
    <2>3. ended' # "killed" => at = "off" /\ ended' = ended
      BY <1>28 DEF Reboot, Locked
    <2>4. ASSUME code = venv PROVE \A u \in prev.units: run'[u] \in {code, Down}
      <3>1. run' = [u \in Units |-> IF u \in enabled THEN code ELSE Down]
        BY <1>28, <2>4 DEF Reboot, Started
      <3> QED
        BY <3>1 DEF TypeOK, UpdaterTypes
    <2> QED
      BY <2>1, <2>2, <2>3, <2>4
  <1>29. CASE Health
    BY <1>29, Constants DEF Health, Exit, Go, TypeOK, HostTypes, UpdaterTypes, Built
  <1>30. ASSUME NEW u \in Units, Dies(u) PROVE Back'
    BY <1>30, Constants DEF Dies, TypeOK, HostTypes, UpdaterTypes
  <1>31. ASSUME NEW u \in Units, Returns(u) PROVE Back'
    BY <1>31, Constants DEF Returns, Becomes, TypeOK, HostTypes, UpdaterTypes, Started
  <1> QED
    BY StepCases, <1>1, <1>2, <1>3, <1>4, <1>5, <1>6, <1>7, <1>8, <1>9, <1>10, <1>11, <1>12,
       <1>13,
       <1>14, <1>15, <1>16, <1>17, <1>18, <1>19, <1>20, <1>21, <1>22, <1>23, <1>24, <1>25,
       <1>26, <1>27, <1>28, <1>29, <1>30, <1>31

\* RolledBackIsBack: from the steps of a rollback.
THEOREM RolledBackTo == Spec => []RolledBackIsBack
  <1>1. Init => Locked /\ Built /\ Back
    BY DEF Init, Locked, Built, Back
  <1>2. TypeOK /\ Locked /\ Built /\ Back /\ [Next]_vars => Locked' /\ Built' /\ Back'
    BY LockedStep, BuiltStep, BackStep DEF Locked, Built, Back, vars, host, goal, app, node
  <1>3. Back => RolledBackIsBack
    BY DEF Back, RolledBackIsBack
  <1> QED
    BY <1>1, <1>2, <1>3, Types, PTL DEF Spec
=============================================================================
