----------------------------- MODULE HostUpdate -----------------------------
(***************************************************************************)
(* The update of a Yetka host (deploy/): the web process queues a request  *)
(* as a file, a unit of systemd runs it through the request runner, or an  *)
(* operator calls yetka-update; the updater takes backups, stops the       *)
(* services, runs the installer of the release, verifies the node, and     *)
(* rolls the application back when that fails.  Code, packages, schema,    *)
(* configuration and services are changed in steps, and any step may fail  *)
(* or be the last one before a kill or a reboot.  The archives of Lina,    *)
(* Luna and Koko are left out: no step looks at what became of them.       *)
(***************************************************************************)
EXTENDS Integers

CONSTANTS
    MaxVersion,  \* releases are 1..MaxVersion; the host starts with release 1
    Units,       \* services: yetka-web, yetka-worker, ...
    Web,         \* yetka-web
    Files,       \* what the environment file may enable: sets of units
    Enabled0,    \* the units that are enabled at first
    None, Empty, Down,
    MaxAsks,     \* bound: how often the web process queues a request
    MaxRuns,     \* bound: how often the updater is started
    MaxFaults    \* bound: failed steps, kills, reboots

Versions == 1..MaxVersion

\* The steps of the installer, which yetka-update runs as one command.
InstallSteps == {"source", "venv", "pip", "tools", "migrate", "enable"}

Steps == {"off", "preflight", "backup", "remember", "stop", "restore", "verify",
          "health", "undo", "rollback", "restart"} \cup InstallSteps

ASSUME UpdateAssumption ==
    /\ {MaxVersion, MaxAsks, MaxRuns, MaxFaults} \subseteq Nat /\ MaxVersion # 0
    /\ Files \subseteq SUBSET Units /\ Enabled0 \in Files /\ Web \in Units
    /\ {None, Empty, Down} \cap Nat = {}
    /\ None \notin {Empty, "apply", "plan", "shell"} \cup Steps

VARIABLES
    code,      \* the release checked out in app/
    venv,      \* the release whose packages are installed; Empty: a new one; None: gone
    schema,    \* the newest release whose migrations the database has
    release,   \* what the file release-version names
    env,       \* what update.env.path names: the host's file, a copy in /tmp, one gone
    enabled,   \* the units systemd starts
    run,       \* per unit, the release it runs, or Down
    died,      \* per unit that stopped by itself, the step at which it did
    dumps,     \* the schemas of which there is a database backup
    lock,      \* who runs the updater
    at,        \* the step it is at
    target,    \* the release it installs
    wanted,    \* the units that its environment file enables
    prev,      \* what it remembers for the rollback
    todo,      \* the units that the step has not come to
    ended,     \* how the last update ended
    queue,     \* per action, the request file: None, Empty or a release
    writing,   \* per action, the release the web process is about to write into it
    runner,    \* per action, the request runner
    asked,     \* per action, the release the runner was asked for
    last,      \* last-result.json
    asks, runs, faults, boots

app  == <<code, venv>>
node == <<env, enabled, run, died>>
host == <<app, schema, release, node, dumps>>
goal == <<lock, target, wanted>>
requests == <<queue, writing, runner, asked, last>>
counts == <<asks, runs, faults, boots>>
vars == <<host, goal, at, prev, todo, ended, requests, counts>>

Actions == {"apply", "plan"}

HostTypes ==
    /\ code \in Versions /\ schema \in Versions /\ release \in Versions
    /\ venv \in Versions \cup {Empty, None}
    /\ env \in {"host", "copy", "gone"}
    /\ enabled \in SUBSET Units
    /\ run \in [Units -> Versions \cup {Down}]
    /\ died \in [Units -> Steps \cup {None}]
    /\ dumps \in SUBSET Versions

UpdaterTypes ==
    /\ lock \in Actions \cup {"shell", None}
    /\ at \in Steps
    /\ target \in Versions /\ wanted \in Files
    /\ prev \in [code: Versions, release: Versions, units: SUBSET Units,
                 env: {"host", "copy"}]
    /\ todo \in SUBSET Units
    /\ ended \in {"none", "planned", "updated", "rolled back", "rollback failed",
                  "given up", "killed"}

RequestTypes ==
    /\ queue \in [Actions -> Versions \cup {None, Empty}]
    /\ writing \in [Actions -> Versions \cup {None}]
    /\ runner \in [Actions -> {"idle", "called", "started", "ok", "error"}]
    /\ asked \in [Actions -> Versions]
    /\ last \in [action: Actions, version: Versions, ok: BOOLEAN] \cup {None}

CountTypes ==
    /\ asks \in 0..MaxAsks /\ runs \in 0..MaxRuns
    /\ faults \in 0..MaxFaults /\ boots \in 0..faults

\* The variables keep their types: the files and services of the host, the
\* updater, the requests, and the bounds; every reboot is a fault.
TypeOK == HostTypes /\ UpdaterTypes /\ RequestTypes /\ CountTypes

Init ==
    /\ code = 1 /\ venv = 1 /\ schema = 1 /\ release = 1
    /\ env = "host" /\ enabled = Enabled0
    /\ run = [u \in Units |-> IF u \in Enabled0 THEN 1 ELSE Down]
    /\ died = [u \in Units |-> None]
    /\ dumps = {}
    /\ lock = None /\ at = "off" /\ target = 1 /\ wanted = Enabled0
    /\ todo = {} /\ ended = "none"
    /\ prev = [code |-> 1, release |-> 1, units |-> {}, env |-> "host"]
    /\ queue = [a \in Actions |-> None] /\ writing = [a \in Actions |-> None]
    /\ runner = [a \in Actions |-> "idle"] /\ asked = [a \in Actions |-> 1]
    /\ last = None
    /\ asks = 0 /\ runs = 0 /\ faults = 0 /\ boots = 0

Fault == faults < MaxFaults /\ faults' = faults + 1 /\ UNCHANGED <<asks, runs, boots>>

NoFault == UNCHANGED counts

\* A unit is stopped, or started again in a release; a web process that ends
\* while it queues a request leaves an empty file.
Becomes(u, v) ==
    /\ run' = [run EXCEPT ![u] = v]
    /\ died' = [died EXCEPT ![u] = None]
    /\ writing' = IF u = Web THEN [a \in Actions |-> None] ELSE writing

-----------------------------------------------------------------------------
(* The queue: queue_action of the web process, then the request runner *)

\* open with O_EXCL: "A ... request is already pending" when there is a file.
Queue(a, v) ==
    /\ run[Web] # Down /\ asks < MaxAsks
    /\ queue[a] = None
    /\ queue' = [queue EXCEPT ![a] = Empty]
    /\ writing' = [writing EXCEPT ![a] = v]
    /\ asks' = asks + 1
    /\ UNCHANGED <<host, goal, at, prev, todo, ended, runner, asked, last, runs, faults,
                   boots>>

Write(a) ==
    /\ writing[a] # None
    /\ queue' = [queue EXCEPT ![a] = writing[a]]
    /\ writing' = [writing EXCEPT ![a] = None]
    /\ UNCHANGED <<host, goal, at, prev, todo, ended, runner, asked, last, counts>>

\* The path unit starts the runner, which removes the file before it goes on.
\* On an empty file the runner fails in read, and leaves it.
Take(a) ==
    /\ runner[a] = "idle" /\ queue[a] \in Versions
    /\ runner' = [runner EXCEPT ![a] = "called"]
    /\ asked' = [asked EXCEPT ![a] = queue[a]]
    /\ queue' = [queue EXCEPT ![a] = None]
    /\ UNCHANGED <<host, goal, at, prev, todo, ended, writing, last, counts>>

\* Mutant of Record: without set +e the runner ends with the updater's error.
RecordOk(a) ==
    /\ runner[a] \in {"ok", "error"}
    /\ last' = IF runner[a] = "ok"
               THEN [action |-> a, version |-> asked[a], ok |-> TRUE] ELSE last
    /\ runner' = [runner EXCEPT ![a] = "idle"]
    /\ UNCHANGED <<host, goal, at, prev, todo, ended, queue, writing, asked, counts>>

\* The result of one action replaces that of the other.
Record(a) ==
    /\ runner[a] \in {"ok", "error"}
    /\ last' = [action |-> a, version |-> asked[a], ok |-> runner[a] = "ok"]
    /\ runner' = [runner EXCEPT ![a] = "idle"]
    /\ UNCHANGED <<host, goal, at, prev, todo, ended, queue, writing, asked, counts>>

-----------------------------------------------------------------------------
(* yetka-update *)

\* flock -n, then the environment file f that update.env.path names.
Start(o, v, f) ==
    /\ lock = None /\ f # "gone" /\ runs < MaxRuns
    /\ lock' = o /\ at' = "preflight" /\ target' = v
    /\ wanted' \in Files
    /\ prev' = [prev EXCEPT !.env = f]
    /\ runs' = runs + 1
    /\ UNCHANGED <<host, todo, ended, asks, faults, boots>>

\* An operator may name the environment file with --env.
Shell(v) ==
    /\ \E f \in {env, "host"}: Start("shell", v, f)
    /\ UNCHANGED requests

Call(a) ==
    /\ runner[a] = "called"
    /\ \/ /\ Start(a, asked[a], env)
          /\ runner' = [runner EXCEPT ![a] = "started"]
       \/ /\ lock # None \/ env = "gone" \/ runs = MaxRuns
          /\ runner' = [runner EXCEPT ![a] = "error"]
          /\ UNCHANGED <<host, goal, at, prev, todo, ended, counts>>
    /\ UNCHANGED <<queue, writing, asked, last>>

\* The updater exits, which frees its lock; the runner has its exit code.
Exit(how) ==
    /\ at' = "off" /\ lock' = None /\ todo' = {} /\ ended' = how
    /\ runner' = [a \in Actions |->
                    IF a # lock THEN runner[a]
                    ELSE IF how \in {"planned", "updated"} THEN "ok" ELSE "error"]
    /\ UNCHANGED <<target, wanted, prev, queue, writing, asked, last>>

Go(step) == at' = step /\ UNCHANGED <<goal, prev, ended, requests>>

\* Downloads are verified and the installer makes a dry run; a plan ends here.
Preflight ==
    /\ at = "preflight"
    /\ IF lock = "plan" THEN Exit("planned") ELSE Go("backup") /\ UNCHANGED todo
    /\ NoFault /\ UNCHANGED host

\* Mutant of Backup: the database is left out.
BackupNoDump == at = "backup" /\ Go("remember") /\ NoFault /\ UNCHANGED <<host, todo>>

Backup ==
    /\ at = "backup"
    /\ dumps' = dumps \cup {schema}
    /\ Go("remember")
    /\ NoFault /\ UNCHANGED <<app, schema, release, node, todo>>

Remember ==
    /\ at = "remember"
    /\ prev' = [prev EXCEPT !.code = code, !.release = release, !.units = enabled]
    /\ todo' = enabled
    /\ at' = "stop"
    /\ NoFault /\ UNCHANGED <<host, goal, ended, requests>>

Stop(u) ==
    /\ at = "stop" /\ u \in todo
    /\ todo' = todo \ {u}
    /\ Becomes(u, Down)
    /\ NoFault
    /\ UNCHANGED <<app, schema, release, env, enabled, dumps, goal, at, prev, ended,
                   queue, runner, asked, last>>

Stopped ==
    /\ at = "stop" /\ todo = {}
    /\ Go("source")
    /\ NoFault /\ UNCHANGED <<host, todo>>

\* Before the installer an error ends the script; services that are stopped stay so.
GiveUp ==
    /\ at \in {"preflight", "backup", "remember", "stop"}
    /\ Exit("given up") /\ Fault
    /\ UNCHANGED host

-----------------------------------------------------------------------------
(* The installer of the target release *)

Source ==
    /\ at = "source"
    /\ code' = target
    /\ Go("venv")
    /\ NoFault /\ UNCHANGED <<venv, schema, release, node, dumps, todo>>

\* uv venv --clear removes the environment before it makes a new one.
Venv ==
    /\ at = "venv"
    /\ \/ venv' = Empty /\ Go("pip") /\ NoFault
       \/ venv' = None /\ Go("undo") /\ Fault
    /\ UNCHANGED <<code, schema, release, node, dumps, todo>>

Pip ==
    /\ at = "pip"
    /\ venv' = code
    /\ Go("tools")
    /\ NoFault /\ UNCHANGED <<code, schema, release, node, dumps, todo>>

\* The installer was called with a copy of the environment file, and records that.
Tools ==
    /\ at = "tools"
    /\ env' = "copy"
    /\ Go("migrate")
    /\ NoFault /\ UNCHANGED <<app, schema, release, enabled, run, died, dumps, todo>>

\* Mutant of Newest: the migrations after the release are applied too.
NewestNext(v, w) == IF v > w THEN v ELSE w + 1

Newest(v, w) == IF v > w THEN v ELSE w

\* A migration that fails may have changed the schema.
Migrate ==
    /\ at = "migrate"
    /\ \/ /\ schema' = Newest(schema, target)
          /\ todo' = Units
          /\ Go("enable") /\ NoFault
       \/ /\ schema' = Newest(schema, target)
          /\ Go("undo") /\ Fault /\ UNCHANGED todo
    /\ UNCHANGED <<app, release, node, dumps>>

\* systemctl does not wait to see whether a service that it starts stays up.
Enable(u) ==
    /\ at = "enable" /\ u \in todo
    /\ todo' = todo \ {u}
    /\ IF u \in wanted
       THEN enabled' = enabled \cup {u} /\ Becomes(u, code)
       ELSE enabled' = enabled \ {u} /\ Becomes(u, Down)
    /\ NoFault
    /\ UNCHANGED <<app, schema, release, env, dumps, goal, at, prev, ended, queue, runner,
                   asked, last>>

\* The installer writes the reference it installed.
Installed ==
    /\ at = "enable" /\ todo = {}
    /\ release' = target
    /\ Go("restore")
    /\ NoFault /\ UNCHANGED <<app, schema, node, dumps, todo>>

InstallFails ==
    /\ at \in InstallSteps
    /\ Go("undo") /\ todo' = {}
    /\ Fault /\ UNCHANGED host

-----------------------------------------------------------------------------
(* yetka-update after the installer *)

\* Mutant of RestoreEnv: the path of the copy stays.
RestoreEnvNot(next) == Go(next) /\ NoFault /\ UNCHANGED <<host, todo>>

RestoreEnv(next) ==
    /\ env' = prev.env
    /\ Go(next)
    /\ NoFault /\ UNCHANGED <<app, schema, release, enabled, run, died, dumps, todo>>

Restore == at = "restore" /\ RestoreEnv("verify")

Undo == at = "undo" /\ RestoreEnv("rollback")

\* Mutant of Active: only the web is looked at.
ActiveWeb == Web \in prev.units => run[Web] # Down

\* The units that were enabled are active, each at the moment it is asked.
Active == \A u \in prev.units: run[u] # Down

Verify ==
    /\ at = "verify"
    /\ IF Active THEN Go("health") ELSE Go("rollback")
    /\ NoFault /\ UNCHANGED <<host, todo>>

\* The web answers one of 24 requests, or none; no other unit is looked at again.
Health ==
    /\ at = "health"
    /\ \/ /\ Web \in wanted => run[Web] # Down
          /\ release' = target
          /\ Exit("updated") /\ NoFault
       \/ /\ Web \in wanted /\ run[Web] = Down
          /\ Go("rollback") /\ NoFault /\ UNCHANGED <<release, todo>>
       \/ /\ Web \in wanted
          /\ Go("rollback") /\ Fault /\ UNCHANGED <<release, todo>>
    /\ UNCHANGED <<app, schema, node, dumps>>

\* Each step may fail and the next is taken all the same; without an
\* environment the packages cannot be installed.
Rollback ==
    /\ at = "rollback"
    /\ \/ /\ code' = prev.code
          /\ venv' = IF venv = None THEN None ELSE prev.code
          /\ NoFault
       \/ /\ code' \in {code, prev.code}
          /\ venv' = venv
          /\ Fault
    /\ release' = prev.release
    /\ Go("restart") /\ todo' = prev.units
    /\ UNCHANGED <<schema, node, dumps>>

\* What a service is after a start: packages of another release may do or not.
Started == IF venv = code THEN {code}
           ELSE IF venv \in Versions THEN {code, Down} ELSE {Down}

Restart(u) ==
    /\ at = "restart" /\ u \in todo
    /\ todo' = todo \ {u}
    /\ \/ \E v \in Started: Becomes(u, v) /\ NoFault
       \/ Becomes(u, Down) /\ Fault
    /\ UNCHANGED <<app, schema, release, env, enabled, dumps, goal, at, prev, ended,
                   queue, runner, asked, last>>

\* The exit code is that of an error in both cases.
RolledBack ==
    /\ at = "restart" /\ todo = {}
    /\ Exit(IF /\ code = prev.code /\ venv = prev.code
               /\ \A u \in prev.units: run[u] # Down
            THEN "rolled back" ELSE "rollback failed")
    /\ NoFault /\ UNCHANGED host

-----------------------------------------------------------------------------
(* Services that stop by themselves, kills and reboots *)

\* Type=simple: a service may end at any time, its supervisor too when it finds
\* a child gone; what it was doing is lost.
Dies(u) ==
    /\ run[u] # Down
    /\ run' = [run EXCEPT ![u] = Down]
    /\ died' = [died EXCEPT ![u] = at]
    /\ writing' = IF u = Web THEN [a \in Actions |-> None] ELSE writing
    /\ Fault
    /\ UNCHANGED <<app, schema, release, env, enabled, dumps, goal, at, prev, todo, ended,
                   queue, runner, asked, last>>

\* Restart=on-failure: systemd starts it again, with the code of that moment.
Returns(u) ==
    /\ died[u] # None
    /\ \E v \in Started: Becomes(u, v)
    /\ NoFault
    /\ UNCHANGED <<app, schema, release, env, enabled, dumps, goal, at, prev, todo, ended,
                   queue, runner, asked, last>>

\* SIGTERM runs the trap that removes the copy, SIGKILL does not.
Cut == IF env = "copy" THEN {"copy", "gone"} ELSE {env}

Kill ==
    /\ lock # None
    /\ env' \in Cut
    /\ Exit("killed") /\ Fault
    /\ UNCHANGED <<app, schema, release, enabled, run, died, dumps>>

\* /run is empty after a reboot, /tmp may be; systemd starts the enabled units.
Reboot ==
    /\ env' \in Cut
    /\ \E alive \in Started:
         run' = [u \in Units |-> IF u \in enabled THEN alive ELSE Down]
    /\ died' = [u \in Units |-> None]
    /\ at' = "off" /\ lock' = None /\ todo' = {}
    /\ ended' = IF lock = None THEN ended ELSE "killed"
    /\ queue' = [a \in Actions |-> None] /\ writing' = [a \in Actions |-> None]
    /\ runner' = [a \in Actions |-> "idle"] /\ last' = None
    /\ faults < MaxFaults /\ faults' = faults + 1 /\ boots' = boots + 1
    /\ UNCHANGED <<app, schema, release, enabled, dumps, target, wanted, prev, asked, asks,
                   runs>>

-----------------------------------------------------------------------------
Runner(a) == Take(a) \/ Call(a) \/ Record(a)

Installer == \/ Source \/ Venv \/ Pip \/ Tools \/ Migrate
             \/ \E u \in Units: Enable(u)
             \/ Installed \/ InstallFails

Updater == \/ Preflight \/ Backup \/ Remember \/ Stopped \/ GiveUp
           \/ \E u \in Units: Stop(u) \/ Restart(u)
           \/ Installer \/ Restore \/ Undo \/ Verify \/ Health \/ Rollback \/ RolledBack

Next ==
    \/ \E a \in Actions: \/ \E v \in Versions: Queue(a, v)
                         \/ Write(a) \/ Runner(a)
    \/ \E v \in Versions: Shell(v)
    \/ \E u \in Units: Dies(u) \/ Returns(u)
    \/ Updater \/ Kill \/ Reboot

Spec == Init /\ [][Next]_vars

\* systemd runs the runner of a request file and the process it calls; nothing
\* is promised of the web process, the operator, kills and reboots.
FairSpec == Spec /\ WF_vars(Updater) /\ \A a \in Actions: WF_vars(Runner(a))

-----------------------------------------------------------------------------
(* Properties *)

\* "Update complete" is said of a node whose code, packages and release file
\* are those of the release, whose schema is not older, and whose next update
\* finds the environment file, whatever the updates before left behind; each
\* service of before runs the release, also after a reboot, unless it stopped
\* by itself after the one look at it: of a service that is gone before that
\* look, while the installer works for instance, the update is not complete.
UpdatedIsWhole ==
    at = "off" /\ ended = "updated" =>
        /\ code = target /\ venv = target /\ release = target
        /\ schema >= target
        /\ \A u \in prev.units: run[u] = target \/ died[u] \in {"health", "off"}
        /\ prev.env = "host" => env = "host"

\* After a rollback the release file and the environment file are those of
\* before, and when its steps succeeded the services of before run the release
\* of before, or are off; a reboot starts nothing else in their place.
RolledBackIsBack ==
    at = "off" /\ ended \in {"rolled back", "rollback failed"} =>
        /\ release = prev.release
        /\ prev.env = "host" => env = "host"
        /\ ended = "rolled back" => \A u \in prev.units: run[u] \in {prev.code, Down}

\* The schema is changed only when there is a backup of what it was: the
\* migrations that a rollback does not reverse can be undone by hand.
SchemaDumped == [][schema' # schema => schema \in dumps]_vars

\* A request that is in the queue gets a result, of whatever kind, unless the
\* host is rebooted.
RequestAnswered ==
    \A a \in Actions, v \in Versions, n \in 0..MaxFaults:
        queue[a] = v /\ boots = n
          ~> boots # n \/ (last # None /\ last.action = a /\ last.version = v)
=============================================================================
