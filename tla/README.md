# TLA+ verification of Yetka

Yetka is a privileged access manager: a Django core (`src/apps`) that stores
assets, accounts, permissions, sessions and tickets, and terminal components
(other programs) that carry the connections and talk to the core over REST and
websockets.  This directory holds TLA+ models of the parts of the core whose
behaviour is hard to test: state shared by concurrent requests, by Celery tasks,
by threads of one process and by components that crash; and of the scripts
(`deploy`) that update a host.

    tlc -workers 2 -config TerminalSession_safety.cfg MCTerminalSession.tla
    tlapm TerminalSession_proofs.tla

`PROJECT.json` lists components, runs, mutants, the map from definitions to
source lines, findings, hazards and theorems.

## 1. How the core runs

What every model rests on:

- **Requests.** Gunicorn with uvicorn workers, several processes; synchronous
  views run in threads.  `ATOMIC_REQUESTS` is on (`jumpserver/settings/base.py:279`):
  a request is one database transaction, at READ COMMITTED.  A row that is read
  without `select_for_update` may have changed when it is written.  A model
  therefore gives a request two actions, the read and the write at the commit,
  wherever another actor can come in between, and one action elsewhere.
- **`save()` writes every field** of the row as it was read, unless it is given
  `update_fields`; a queryset `update()` writes the named fields and sends no
  signal.
- **`on_commit` hooks** run after the commit, in no order with other requests,
  and not at all when the process dies or the transaction is rolled back.
- **Redis** (cache keys, sets, locks, channels) takes no part in a transaction:
  what is written there stays when the request fails.
- **Celery** tasks and beat run outside a request: each statement commits for
  itself.
- **The debouncer** runs delayed functions in an event loop and a thread pool of
  the same process.
- **Shell scripts** under `set -e` stop at the first command that fails, except in a
  function called before `||` or as the condition of an `if`; systemd starts enabled units at boot.

## 2. Inventory

| component | state | operations | why it is hard | what makes it correct | here |
|---|---|---|---|---|---|
| terminal sessions and tasks | `Session`, `Task` rows; ACTIVE and LOCK cache keys | create, PATCH, lock / unlock / kill, heartbeats (REST, websocket), `clean_orphan_session` | three writers of whole rows, redelivered and swept tasks, component crashes, commit hooks | ended stays ended; lock shown = lock enforced; orphans end; kills arrive | `TerminalSession` |
| ticket review | `Ticket`, `TicketStep`, `TicketAssignee` rows | approve, reject, close over API, bulk, mail link | stale reads of status and level by overlapping requests | every level approves, in order; closed is final; grant iff approved | `Ticket`, `TicketOutcome` |
| connection tokens | `ConnectionToken` rows, review ticket, face context | create, exchange, secret, expire, renew, reuse, PATCH by a superuser, clean | read-check-write without a lock, clock boundaries, revocation, an admin endpoint with rules of its own | spent once; withheld until decided; bounded grace after revocation | `ConnectionToken` |
| debouncer | three module dictionaries, asyncio tasks, a thread pool | call, schedule, cancel, run, clear | dictionaries shared by threads without a lock | no argument is lost but in an overlap of threads, each is run with | `MergeRun` |
| permitted tree | tree rows, Redis set of built organizations, `built_time`, a lock | refresh, rebuild, expire, hourly check | Redis and database commit at different times, lost hooks, refused refreshes | rows never go back; a built tree is current; a stale one is repaired | `PermTree` |
| secrets of accounts | hosts, rows and their history, records, a status key per account, a debounce key | change, retry, push, queue at the end of a session, save | the host is changed first and the database later, overlapping batches, status keys deleted and expired | the secret of a host can be found; one run per account; success means in step; a queued account has a task | `SecretChange` |
| deployment | code, packages, schema, configuration, services, request and result files | queue, run, back up, stop, install, verify, roll back | any step may fail or be the last before a kill or a reboot; a service may stop by itself at any time | what is said of the outcome is so; no schema change without a backup; a request is answered | `HostUpdate` |
| cloud sync | `CloudSyncExecution`, `CloudSyncedAsset`, `Asset` rows | request with a key, periodic task, list, create, update | overlapping executions of one account, a death between asset and mapping, names that clash | no asset without a mapping; success means current; a repeat changes nothing | `CloudSync` |
| session recordings | files, external storages, `has_replay` | upload, move, delete | deletion after an upload that raced another | a recording is in one place at least | planned: `ReplayUpload` |
| session sharing | links, verify codes, join records | create, join, leave | join is insert then check, in overlapping transactions | one join of a user per link; no join of an ended link | planned: `SessionSharing` |
| service signatures | nonce cache, clock | sign, verify | boundary of window and nonce lifetime | a request is accepted once | planned: `ServiceSignature` |
| organizations, tenants | current organization / tenant of a thread, caches | switch, query, enqueue | context carried into threads and Celery | rows of one are never seen by another | later |
| users and login, MFA | counters and blocks in the cache, sessions | login, verify, block | counters read and written apart | a blocked user stays out | later |
| assets and nodes; other account automations; jobs | node tree, files, executions | edit, count, run playbooks | mostly I/O; node amounts are recomputed | | later, or not |
| ACLs, roles, labels, reports, settings | configuration rows | lookup | nothing of their own | | not modelled: data |
| audits, notifications | logs, messages | append, send | I/O | | not modelled |
| templates, static files, translations | files | | | | not modelled |

Interactions: a ticket of type "login asset confirm" activates the connection
token it was created with (`ConnectionToken`, action `Approve`); an approved
"apply asset" ticket creates a permission, whose signal expires permitted trees
(`PermTree`, action `Change`) and triggers debounced recomputations (`MergeRun`
is the mechanism); components redeem connection tokens, create sessions, and are
handed the tasks of operators.  The end of a session may queue its account for
a change of secret (`SecretChange`, action `Enqueue`).  `HostUpdate` restarts
the processes in which all of this runs; its web process is the core itself.
`CloudSync` creates the assets that the others refer to.

## 3. Modules

| module | what it is |
|---|---|
| `TerminalSession` | sessions, tasks, cache keys, cleaner, component |
| `TerminalSession_proofs` | types, row lock, finality, recordings, lock key |
| `Ticket` | a ticket under review, with overlapping requests |
| `TicketOutcome` | what a ticket promises: the abstract specification `Ticket` implements |
| `Ticket_proofs` | types, levels, finality; approval, grant and refinement up to a request that wrote what it had made of a ticket that changed |
| `ConnectionToken` | connection tokens, review, face verification, cleaning |
| `ConnectionToken_proofs` | types, revocation bound, withholding; spent once, expired for good and active after approval, each up to the overlap, or the superuser, that breaks it |
| `MergeRun` | `merge_delay_run` statement by statement |
| `MergedCalls` | what the debouncer promises its callers: the abstract specification `MergeRun` implements |
| `MergeRun_proofs` | types, that nothing is lost but what overlapping threads tore, and the refinement |
| `PermTree` | refresh and rebuild of the permitted tree of a user |
| `PermTree_proofs` | types, monotonic rows, built means current |
| `SecretChange` | change and push of secrets by overlapping runs |
| `SecretChange_proofs` | types, secrets known, one run per account, success in step, queued has a task |
| `HostUpdate` | the update of a host: queue, runner, updater, installer, rollback |
| `HostUpdate_proofs` | types, outcome of an update, of a rollback, backup before schema |
| `CloudSync` | executions of the synchronisation of one cloud account |
| `CloudSync_proofs` | types, left-over assets, what a success means, what makes a repetition fail |
| `MC<module>` | symmetry sets and constants for TLC |

Operators written `...Forever`, `...Unlocked`, `...Lax` and so on, each preceded
by "Mutant of", are faulty versions of the definition that follows.  No action
uses them; putting one in place of its definition must break the property it is
listed with in `PROJECT.json`.

### 3.1 TerminalSession

State: `sess` are the `Session` rows (absent, online, finished; whether a replay
was recorded), `tasks` the `Task` rows with their age, `idle` and `beaten` stand
for the ACTIVE key (set by a heartbeat, gone after `ActiveTTL`), `lockKey` for
`TOGGLE_LOCKED_SESSION` keys.  `patch[s]` is the PATCH request that holds the
row lock of `s` together with the row it read: the queryset of
`SessionViewSet` uses `select_for_update`, so the guard of `BeginPatch` and of
`CleanSave` is the lock.  `hook[t]` holds the commit hooks of a task that have
not run: *publish* after its creation and *apply* after the component reported
it.  `admin` is an operator request between its look at the session and its
insert of the task.

Actions and code: `CreateSession`, `BeginPatch`/`EndPatch` are the requests of a
component; `CheckSession`/`CreateTask` are `create_sessions_tasks`;
`PublishTask`/`ApplyTask` are the two branches of `on_task_created`;
`RestStatus` is `StatusViewSet.create` and lists the open tasks again on every
heartbeat; `WsConnect`, `WsSubscribe` and `WsStatus` are the websocket, which
lists first and subscribes afterwards; `CleanStart`, `CleanTasks`, `CleanJudge`,
`CleanSave` are `clean_orphan_session`, one action per statement that reads or
writes shared state, with the rows as the queryset read them at the start.

The component is another program: `CompExecute`, `CompReport`, `CompClose`,
`CompCrash` are what the API lets it do, and are marked external.  It
answers one task after another, carries out kill, lock and unlock on its own
sessions, and may crash, or lose its link, `MaxFaults` times.

Not in the model: several terminals (a task belongs to one), command counts,
the `last_active` statistics, sharing.

### 3.2 Ticket and TicketOutcome

`ticket`, `steps`, `votes` are the rows.  `Begin` reads the ticket without a
lock, checks assignee and `AlreadyClosed` on what it read; `Finish` is
`_change_state` with `_finish_or_next`, over the rows as they are by the time
the request holds the row of the current step, which every other request on
that level writes first.  The single-ticket API saves the whole ticket as read
before it approves (`serializer.save`); bulk and mail link do not:
hence the two operations `approve_api` and `approve`.  `Abort` is a request
rolled back, permission included.  `LinkFails` is a failure of the handler
behind the link in a mail: that view catches every exception
(`tickets/views/approve.py:124`), so its transaction commits the step, and the
ticket if it was the last, without the permission or the active token.
`granted` is then "lost".  Requests overlap freely.  `overtaken` is a history variable: a request
wrote what it had made of a ticket that had changed since it was read (`Overtaken`).

`TicketOutcome` has three variables: the outcome, how many levels approved,
whether what was asked for was granted or lost.  `Ticket` maps its state, the number of
approved steps behind it (`Counted`), and `granted` to them.

### 3.3 ConnectionToken

All tokens of one user on one asset and account.  `Begin`/`End` are requests
that read a token without a lock and write it later: secret fetch (with and
without keeping the token), reuse on and off, RDP with reuse, expire, renewal, and the
PATCH of a superuser.
What each writes differs and matters: expire and reuse write their own fields,
renewal and PATCH write the whole row they read.  A superuser (`AdminIds` not empty) may work through
the admin endpoint, which makes tokens without asking for a permission, finds tokens that have
expired, and takes a PATCH of `is_active` and `is_reusable`.  `bypassed` and `overruled` are history variables: the
tokens made there, and those for which it did what the endpoint of the users refuses.
`Create` and `Exchange` validate permission
and ACL and insert a row, with a review ticket or a face verification when the
ACL asks for one; `from` is `from_ticket`, which is unique.  `Approve`,
`Refuse`, `FaceDone` decide (a review approved behind a link whose handler failed is a `Refuse` with
outcome "lost": the token stays inactive); `CleanExpired` is the Celery task.  `access` is what
`is_valid` asks of user, asset and permission, and `lastOk` when it was last
granted.  The clock ticks between requests, so a request does not span a tick.

### 3.4 MergeRun and MergedCalls

One entry of the three dictionaries (`_loop_debouncer_func_args_cache`,
`..._task_cache`, `..._task_time_cache`).  A call is read, store, cancel,
remove, schedule; a run is start, then three pops.  A dictionary of arguments
has an identity (`args_cache` names the call that created it) because a call may
go on writing into one that was popped.  Requests run in threads of one process, and a thread of the executor
ends a run: they interleave at every statement.  `torn` is a history variable: the
arguments that were on their way while two threads were within the bookkeeping (`OneThread` is false).

`MergedCalls` has two variables: the arguments that wait, and those the function was
run with.  `MergeRun` maps what is carried or torn less `ran`, and `ran`, to them: the first
statement of a call is `Bring`, `Run` is `RunWith`, everything else stutters.

### 3.5 PermTree

The permissions of the user in an organization are a version; rows carry the
version they were computed from.  `small` is the setting `ASSET_SIZE`, chosen in
the initial state: rebuild inside the request (`Build`, `Mark`, then `Commit`)
or in a delayed run that commits each organization (`CommitOrg`).  `built` is
the Redis set, `built_time` the interval key, `lock` the distributed lock whose
release is itself a commit hook when there is a transaction; `Orphan` is a lock
whose hook was dropped.  `Fail` rolls the rows back and leaves Redis as it is.
`disturbed` is a history variable: the organizations whose tree was overtaken
by one of the four events named at `BuiltIsCurrent`.

### 3.6 SecretChange

`host` is the secret each host accepts, `row` and `history` the row and its
versions, `record` the status of a `ChangeSecretRecord`.  A secret is named by
the change that generated it.  A run is `Prepare` (an asset: delete the status
of accounts that are not on it, as `host_callback` does, choose or generate the secrets: a push takes that of the row, and
for an account without one generates a `Stray` one that it stores nowhere),
`Check` and `Mark` (read the status key, set PROCESSING: two calls to the
cache), `Ansible` (the playbook sets the host, or not, and reports, or reports
an error after it did), `SaveOk`/`SaveError` per account (a change writes the row and its record, a push
writes neither secret nor record), `Finish`.  A fault is a save that raises, a
worker that is cut off, a mark that fails, a task the broker refuses, or a status an
operator deletes.  `Enqueue`, `Debounce`, `TakeQueued`, `TakeNothing` are the delayed change after a session.
`Guarded` is the setting without which no status is kept.  `unguarded`, `adrift` and `lost` are history
variables: accounts that the status did not guard (it was deleted while a run held them, or two runs found
it free before either set it), accounts of which a push set another secret than the row had when it took them, and the
results a fault kept from the database.

Not in the model: the playbooks, external vaults, edits of an account by hand.

### 3.7 HostUpdate

The host is `code`, `venv`, `schema`, `release`, `env` (what `update.env.path`
names), `enabled` and `run`.  `Queue` and `Write` are the two halves of
`queue_action` (the file is created, then written); `Take`, `Call` and `Record`
are the request runner; the updater is a sequence of steps named by `at`, from
`Preflight` and `Backup` to `Verify`, with `Undo`, `Rollback` and `Restart` for
a failure; `Source`, `Venv`, `Pip`, `Tools`, `Migrate`, `Enable` are the
installer, which the updater runs as one command.  Each step has an outcome in which it
fails, if it can; `Kill` stops the updater anywhere, with or without its trap, and
`Reboot` empties `/run`, perhaps `/tmp`, and starts what is enabled.  systemctl does not
wait to see whether a unit stays up: `Dies` lets any unit stop at any time, `Returns` is systemd starting it again, and
`died` remembers at which step it stopped.  `Verify` is the one `is-active` look of the updater, `Health` the loop after it,
which asks the web process only.

Not in the model: the first installation, the archives of the web clients and
of Koko (no later step looks at them), nginx, standalone databases, and a
`YETKA_GIT_REF_OVERRIDE`.

### 3.8 CloudSync

`cloud` is what the provider would list, `row` the assets, `mapping` the
`CloudSyncedAsset` rows.  An execution is a record `worker[e]`: `List` reads the
cloud once, then for each instance `Look` reads its mapping and the asset and
decides what differs, `Save` writes those fields (and is refused when the row is gone or the name
is taken: unique `(org_id, name)`), or `Pick` validates the name or the name with a
suffix, `Insert` saves the asset and `Map` the mapping; each is committed by itself.
`Finish` sets the status.  `Die` loses the worker, `Request` may lose its message.
`shared`, `dead`, `touched` and `calm` are history variables for the properties: which
executions ran beside another, died, or saw a change since they began; nothing happened since a success.
An asset is saved in one step, with its nodes and protocols.

## 4. Runs

| run | property | what it shows |
|---|---|---|
| `session_safety` | `LockedRowIsFresh`, `LockAgrees`, `FinishedIsFinal`, `ReplayLostOnlyByCleaner` | PATCHes, cleaner, redelivered and swept lock tasks, crashes; 1 session, 2 tasks (a lock and an unlock in any order), 1 fault; 5 million states |
| `session_live` | `OrphanFinished`, `TaskSettles` | under fairness, over the websocket, with one crash or link failure |
| `session_kill` | `KillTakesEffect` | a polling component ends the session named by a kill, with no help from the cleaner |
| `ticket_review` | `ApprovedUnlessOvertaken`, `NoLevelJumped`, `ClosedIsFinal`, `KeepsPromise` | two requests that overlap in any way, three levels, three users with one at two levels, an applicant who is the only assignee of one level |
| `ticket_levels` | `ApprovedByAllLevels` violated | finding 1 |
| `token_serial` | `SpentOnce`, `ApprovedIsActive`, `WithheldUntilDecided`, `ExpiredIsFinal`, `RevocationDelayed` | two tokens (a token and its copy), one of them possibly of a superuser at the admin endpoint, clock to 2, reuse on; 1.6 million states |
| `merge_pass` | `NothingLost`, `KeepsPromise`, `EventuallyRun` | three calls, threads interleaved at every statement; safety, and under fairness liveness |
| `tree_pass` | `BuiltIsCurrent`, `TreeNeverOlder`, `StaleRepaired` | both modes, two organizations, two overlapping refreshes, a fault |
| `secret_pass` | `HostSecretKnown`, `OneRunUnlessUnguarded`, `SuccessMeansInSync`, `QueuedHasTask` | two runs (change, retry or push, any batch), an account with and one without a secret, each on its own asset, two session ends, one fault; 1.7 million states |
| `host_pass` | `UpdatedIsWhole`, `RolledBackIsBack`, `SchemaDumped`, `RequestAnswered` | two runs of the updater from queue or shell, one request, two releases, two units, one failed step, kill, reboot or unit that stops by itself |
| `cloud_pass` | `LeftOver`, `SuccessIsCurrent` | two executions, two instances, two names, one change, one failure, lost message or death |
| `cloud_again` | `RepeatSucceeds` violated | finding 2, with a provider that does not fail |

Every passing run but `session_live` and `session_kill` also checks the type
invariant.

### Bounds

- *Sessions: one.* Sessions share only the cleaner's queryset and the sequence
  in which the component works; each property is about one session.  The proofs
  hold for any number.  *Tasks: two* in `session_safety`, the least for a lock to be
  overtaken by an unlock; *one* in the other runs, whose properties are
  about one task.
- *ActiveTTL, TaskWindow: 1* (2 in `session_kill`): "expired" and "not yet" are all the code
  distinguishes.  *MaxFaults: 1*: a crash, or a link failure.
- *Levels: 3*, the least for a first, a middle and a last level.  *Requests: 2*: two
  requests suffice for each overlap the code has.
- *Ticks*: `OneTime` 1 and `ReusableTTL` 2, so that the two lifetimes differ, `Fresh` 1, `Keep` 0;
  the clock runs to 2 (`MaxTime`), past the one-time expiry of the first token and past the
  creation of its copy.  *AdminIds*: one id, so that tokens of both endpoints exist side by side.
  `OverruledOnce`: no request is begun on a token after a superuser overruled it (it may still be copied, reviewed and
  cleaned); what is promised of a token leaves it out from then on.
- *Calls: 3*: two that overlap, and one that comes before, between or after them.  They are interchangeable and come in the
  order of their numbers (`InOrder`).
- *MaxVersion: 2*: one change or lapse in each organization, before, during or after a rebuild.
- *SecretChange: two runs, two accounts*, each on its own asset: with one asset the
  preparation of another one does not exist, and two runs are what an
  account has to be kept out of.  *Empty: one account*, for which a push generates a secret.  *Ends: 2*, one to hold the debounce key and one to find it; they
  come while a run is left (`EndsInTime`), as nothing could take their accounts later, and the second one meets changes
  only and no fault (`EndsApart`).  `QueuedHaveTask` is proved without these bounds.
- *HostUpdate: two releases, two runs of the updater*: a failed or killed update, and the one
  that meets what it left.  *Units: two*, the web process and one that may or may not be enabled, so that
  services are half restarted.
- *CloudSync: two instances and two names*, so that names clash or do not; three assets, one more than
  instances, for the one a second execution makes; one change, one fault.  `cloud_again` needs no change and
  no fault.
- Symmetry is used by runs without liveness properties only.
- `CHECK_DEADLOCK FALSE`: every model may stop: tickets close, tasks and tokens
  are used up, the bounded clock ends, all calls are made.

### Fairness

- `TerminalSession!CoreFairness`: beat keeps the cleaner running, open requests
  and hooks complete, time passes.  `CleanSave` is strongly fair: its write waits for
  a row lock that other requests take and free again, and the database grants
  locks in turn.  `CompFairness` adds a component that beats, executes,
  reports, reconnects and reports ends; `OrphanFinished` holds although it may crash,
  because nothing forces a dead one to report.  No fairness is
  assumed of operators, users, faults or the return of a link.
- `UncleanedSpec` lets the cleaner stand still: with it `KillTakesEffect` is not
  satisfied by the cleaner ending the session, and shows that the delivery of
  tasks alone suffices.
- `MergeRun!FairSpec`: a thread that has started a call goes on, so do the loop and the executor; nobody
  has to call.
- `PermTree!FairSpec`: requests complete, keys and locks expire, the
  hourly check runs, and the user asks for the tree again.  Changes and faults are not fair.

- `HostUpdate!FairSpec`: systemd starts the runner of a request file and the
  runner and updater go on; nothing is promised of the web process, the operator, kills
  and reboots.  `RequestAnswered` holds although the updater may be killed, because the
  runner records a result then too; it is stated up to the next reboot, which empties `/run`.
- `SecretChange` and `CloudSync` have safety properties only: a worker that dies is not
  replaced, so that nothing has to happen.

## 5. Findings

Each is a run that TLC ends with a counterexample, and a line of the repository
that says otherwise.

1. `ticket_levels`: two overlapping approvals of a level.  The second finds the
   next step already active, `next()` looks for a pending one and takes the
   level for the last; the ticket is approved without the levels that follow
   (`tickets/models/ticket/general.py:176`).
2. `cloud_again`: of two instances with one name the second gets an asset whose
   name has a suffix.  Every later synchronisation finds that this is not the name
   in the cloud, tries to save the latter, and is refused by the unique name
   (`cloud_sync/sync.py:124`): the instance fails and is put in quarantine although
   nothing has changed, and a changed address is not saved either.

Seen while modelling, and reachable in the models; no run asks for it:

- A hook that applies a lock task after the session finished sets its lock key,
  which has no timeout, again (`terminal/signal_handlers/terminal.py:30`).
- Two overlapping secret fetches both validate before either expires the token
  (`authentication/api/connection_token.py:847`; `SpentOnce` without `Serial`).
- The admin endpoint overrides the queryset that leaves expired tokens out (`authentication/api/connection_token.py:894`):
  a superuser's reuse gives an expired or spent token another date, with no overlap, and his PATCH activates one that
  waits for its review.  The token properties except these tokens by name (`overruled`), and `NoSuperuser` says that nobody
  else makes one.
- The merged arguments are read, extended and stored without a lock (`common/decorators.py:213`): of two request threads
  that both read the set, the second overwrites the argument of the first, whose task it or a later call cancels, although the
  docstring (`common/decorators.py:199`) says that arguments are merged.  `NothingLost` names exactly this overlap
  (`torn`); without the exception TLC finds the loss with two calls.
- A push of an account without a secret generates one, sends it to the host and stores it nowhere
  (`accounts/automations/push_account/manager.py:26`): the host accepts a secret nobody knows (`Stray`).
- A push saves no secret: one that read the row before a change ended takes the host back to the old secret and is noted
  as a success (`accounts/automations/base/manager.py:189`; `adrift`).
- A service is asked once whether it is active, a moment after its restart, and only the web process is looked at after
  that (`deploy/yetka-update.sh:254`): "Update complete" is said of a node whose worker or scheduler has stopped since (`died`).
- The mark of a built tree in Redis survives the rollback of its rows
  (`perms/utils/user_perm_tree.py:129`); `StaleRepaired` shows that the hourly check repairs it.
- An approval through the link in a mail whose handler fails ends the ticket as
  approved and grants nothing (`LinkFails`).  `GrantedIsApproved` and `KeepsPromise` say that this is
  the only way an approved ticket fails to grant.
- A batch over two assets takes its own accounts on the other asset for accounts that no longer exist
  and deletes their status (`accounts/automations/base/manager.py:130`): a second run then
  processes them too.  `OneRunUnlessUnguarded` names this among what it excepts.
- After a rollback, a unit the failed update enabled for the first time goes on with the new release
  (`deploy/yetka-update.sh:234` restarts those of before only); a service that
  cannot be stopped ends the update with the stopped ones down and no rollback.
- A signal between the tools step and the restore leaves `update.env.path` at a copy that
  is deleted, or in `/tmp`: updates are refused until `--env` names the file again.
- An empty request file, left by a web process that stopped between creation and
  text, blocks later requests until a reboot.  `pending_action` says "queued but
  not finished", but the file is removed before the updater runs.
- `install-baremetal.sh:333`: errexit is off inside a download called before `||` or in an `if`, so that
  a checksum that does not match does not stop the extraction (outside the model).
- A cloud execution whose message is lost stays pending, and one whose worker died stays
  running; the same key is answered with it for ever (`cloud_sync/services.py:22`).

Which overlap breaks a property:

- `ApprovedByAllLevels`, `GrantedIsApproved` and the refinement of `TicketOutcome` fail only when a request writes what
  it made of a ticket that has changed since it read it (`Overtaken`): the code takes no lock on the ticket, and the
  approve API writes back the row it read (`tickets/api/ticket.py:108`).  A closed ticket is changed by such a
  request only.  Requests that overlap and read what is still so are harmless: proved.
- `SpentOnce` and `ExpiredIsFinal` of a token fail only when two requests *on that
  token* overlap, `ApprovedIsActive` only when the review is decided while a renewal
  of the token is under way, which writes back the `is_active` it read
  (`connection_token.py:129`), or when a superuser overruled them.  Any other overlap is harmless: proved.
- An argument of the debouncer is lost only if it was on its way while two threads were within the bookkeeping.  Whatever
  such an overlap leaves in the dictionaries, later calls lose nothing by it: proved.
- `OneRunUnlessUnguarded` and `SuccessMeansInSync` fail, besides by a deleted status, only
  when two runs have both found one account free and neither has marked it
  (`accounts/automations/base/manager.py:147`), the latter also by a push that was stale (`adrift`).  Any other overlap is harmless: proved.
- `RepeatSucceeds` fails only where an asset has a name with a suffix: proved.
- `NoLevelJumped`, `WithheldUntilDecided`, `RevocationDelayed`, `HostSecretKnown` and
  `QueuedHasTask` are proved with any overlap.

## 6. Theorems

All are theorems of `Spec` for every value of the constants that the named `ASSUME`s
of the modules allow.  Some say more under a condition, which is then in the statement:

| condition | theorems | what it says |
|---|---|---|
| `ASSUME Serial` | `SerialIsApart` | the setting of the run `token_serial`, in which requests on tokens come one at a time |
| `ASSUME AdminIds = {}` | `NoSuperuser` | the user is no superuser |
| `ASSUME Guarded` | `OneRun`, `InSync` | the setting of the core without which no status of an account is kept |
| `[]OneEach` | `SpentUnlessOverlap`, `ExpiredUnlessOverlap` | no two requests on one token at a time |
| `[]RenewalsKnow` | `ApprovedUnlessRenewed` | no review is decided between the read and the write of a renewal of its token |
| `[]NoSuffix` | `RepeatsSucceed` | no mapped asset has the name of its instance with a suffix |

The conditions `[]...` are of the behaviour: they name the interleaving that breaks the property in the code, and the
theorem says that there is no other.  `SerialIsApart` shows that the setting of the run
satisfies those of the tokens.  The other theorems hold for any overlap; where the code loses something in one, the property itself names it, by a history
variable that says what happened (`overtaken`, `torn`, `overruled`, `unguarded`, `adrift`, `died`).  The theorem on types of each module comes first and is used by the rest.

- **TerminalSession.**  `LockedRowIsFresh` is not inductive: the cleaner writes
  rows as well, through an index that must be a session, and tasks must name
  sessions for the types to hold.  `IInv` therefore adds `PatchOfExisting` (no lock on
  an absent row, so that a create cannot slip under a PATCH),
  `TasksNameSessions` and `CleanerOnSession`.  `RowLockKeepsFresh` follows: every writer of
  `sess` is either the holder of the lock or excluded by it.
  `FinishedStaysFinished`: a PATCH writes a row that equals the current one, the cleaner
  writes "finished", and nothing else writes the state of a row that exists.
  `ReplayKept` is the same argument for the recording, with the one exception it names.
  `LockKeyAgrees` says what the key and the component may differ in: `InStep`, the lock or unlock the component is
  carrying out, nothing else.  A commit hook that comes late, because the component died before its report was
  answered, is harmless as its task is handed out no more and its session died with the
  component (`LateHooks`); and keys, tasks and components name rows that exist
  (`NamedExist`), so that a new session starts without any.
- **Ticket.**  `LevelsInOrder` holds with overlap, by the invariant `ReadLevelsClosed`: the
  steps below the level a request read are closed and stay so, and it closes the step of that
  level before it moves the ticket one further.  For the other theorems `ReviewInv` says that what a request
  read was open and its user an assignee of that level (`ReadChecked`), and, as long as no request was overtaken, that the steps
  below the current one are approved by an assignee, those above it are
  untouched, and the grant is decided iff the ticket is approved (`Progress`).  A request that overlaps others and
  finds the ticket as it read it preserves this (`EffectProgress`); one that does not sets `overtaken`.  From it
  `ApprovalUnlessOvertaken`, `GrantUnlessOvertaken` and `RefinesUnlessOvertaken`: each `Finish` is an `Approve` or
  an `EndEarly` of `TicketOutcome`, a `LinkFails` is one of these or stutters.  `ClosedUnlessStale` needs no such condition: a
  request read an open ticket, so that if the ticket is closed it has changed since.  The
  mapping counts approved steps, so the proof cites the cardinality theorems of
  finite sets.
- **ConnectionToken.**  `RevocationBound`: `is_valid` was true when the secret
  request began, the clock does not tick while a request is open, and a token
  younger than `Fresh` was created no later than the last moment of access
  (`Timed`).  `DecidedFirst`: what was
  handed out was read as an active row.  The invariant `GateInv` says of every row, stored or
  held by a request, that its ticket is the one created with it (a copy
  that would share a ticket violates the unique `from_ticket`) and that it is
  active only when ticket and face are decided; decisions are never taken back,
  so a stale row that a renewal writes satisfies it as well.
  `SpentUnlessOverlap` and `ExpiredUnlessOverlap`: the token a request works on cannot
  expire or be deleted under it (`LiveReads`), and a spent one is expired
  (`SpentExpired`), so that only a second request that had read it before could give
  its secret again or revive it.  `ApprovedUnlessRenewed`: a renewal of a token whose ticket is approved
  has read an active row (`RenewalsKeep`).  `NoSuperuser`: an id outside `AdminIds` never gets the mark of an admin token,
  which every exception asks for.
- **MergeRun.**  `MergeInv` holds for any number of threads.  While one thread is within the bookkeeping (`OneThread`),
  what a call read is still so when it writes (`Reading`) and
  the dictionary in the cache contains what the task in the cache will bring, so that the call which
  cancels that task takes its arguments over (`Covered`).  All three speak of arguments that are not yet run with or torn:
  while threads overlap every argument that was brought is (`AllTorn`), so that an overlap may do anything to the
  dictionaries and the invariant is true again when it ends (`NothingToLose`).  Then every argument of a call is run with,
  torn or carried (`AllKept`), which is `LosesNothingElse`.  `RefinesMergedCalls` needs in addition that no argument
  appears which nobody brought (`OnlyBrought`).
- **PermTree.**  `NeverOlder` from `HolderOnly` (who builds holds the lock) and
  `RowsBetween` (the rows of a builder lie between the committed rows and the
  permissions).  `MarkedIsCurrent` adds `RowsCurrent`: rows computed and not
  overtaken equal the permissions, before the mark and until the commit.

- **SecretChange.**  For all batches, faults and interleavings, `SecretsKnown`
  (an invariant that says which secrets a change may have put on a host: those of held accounts, of
  the records, or of results a fault kept) and `QueuedHaveTask`.  `OneRun` and `InSync` hold for runs that overlap in
  any way; the invariant `MarkedWhileHeld` says that a held account that is not unguarded is PROCESSING and that nobody
  else is about to mark it, `ResultsTrue` that a reported success is on the host, that a push under way sets what the row
  holds, and that the row follows the host unless a push was stale.
- **HostUpdate.**  `Updated` and `RolledBackTo` rest on invariants per step: `Built`
  says what the installer has achieved when it is at a step, `Seen` that a unit that is gone while the web is asked stopped by itself
  after the look of `Verify`, `Whole` that after an update the
  services of before are enabled, so that a reboot starts them, `Back` which parts a rollback
  has put back.  `SchemaIsDumped`: from the backup to the migrations the schema is one
  that was dumped (`Dumped`).
- **CloudSync.**  `LeftOvers` from `Fresh` (an execution alone that is creating an asset
  finds no mapping where it found none) and `Apart` (executions under way together have
  noted it).  `SuccessIsTrue` from `Follows`: an execution beside which nothing
  happens has left every instance it is done with as the cloud has it, or has a failure
  to report; for an update not to disturb another instance, no two mappings may share an asset (`OneEach`).
  `RepeatsSucceed` is what is left of the idempotence that finding 2 refutes: `Settled` says that while nothing
  happens after a success every mapped asset has the address and name of its instance, and that whoever runs finds nothing
  to write, unless a name has a suffix.

Model-checked only: the liveness properties (`OrphanFinished`, `TaskSettles`,
`KillTakesEffect`, `EventuallyRun`, `StaleRepaired`, `RequestAnswered`), since fairness and
ENABLED are out of the prover's reach.  Every safety property, action property and refinement that a passing
run checks has a theorem.  What the two runs with a violation show is a counterexample and needs
no proof.  Not proved, because the code does not do it: `ApprovedByAllLevels` without its exception.  No module uses a recursive operator.

## 7. Not covered, and known limits

- A task inserted after its session finished stays open: no cleaner visits it,
  and `TaskSettles` leaves it out.  It is harmless to a component that does
  not carry the session.
- A session without a first heartbeat counts as inactive at once
  (`terminal/tasks.py:64`); the models contain this and no property forbids it.
- `StaleRepaired` is about users that still have a permission in the
  organization: the hourly check does not find the others.
- Delayed runs of a process that exits are lost; the dictionaries are not
  persisted.
- `ConnectionToken` does not model a request that spans a tick.
- `ConnectionToken` checks the properties for requests one at a time (`Serial`); that other overlaps than those named are harmless is proved, not checked.
- `ConnectionToken`: a PATCH of fields other than `is_active` and `is_reusable` is not modelled.
- `HostUpdate`: the archives of Lina, Luna and Koko are not looked at by any step, so that no property of the outcome speaks of them.
- `HostUpdate`: what is written to the database between the backup, which is taken while
  services run, and their stop is not modelled.
- `CloudSync`: a user who renames an asset, several accounts in one organization,
  and a worker that dies between the parts of an asset are not modelled; the
  quarantine is the set of instances counted as failed, and its rows are not kept.
- The redis lock is modelled as mutual exclusion with expiry of an abandoned
  lock; the renewal of a held one is assumed to succeed.
- Not modelled at all: the components listed as `not_modelled` in
  `PROJECT.json`, each with its reason.

## 8. Plan

Written: sessions, tickets, tokens, debouncer, tree, secrets, host update, cloud
synchronisation (above).  Next, in order:

1. Proofs: an abstract specification of the tree (`PermTree`) and of a change of secret
   (`SecretChange`), and that they are implemented.
2. `SessionSharing`: link, verify code, joins, leaves; composed with the end of
   the session of `TerminalSession`.  `ReplayUpload`: local file, storage, flag.
3. `DistributedLock` (`common/utils/lock.py`) as an abstract lock and its
   implementation with ownership, renewal and release on commit; `PermTree`
   uses the abstract one.
4. `ServiceSignature`: nonce lifetime against the clock window.
5. Tenant and organization context across threads and Celery.

Runs stay one per question: a new component takes the place of a run
whose question a theorem has settled for every instance.
