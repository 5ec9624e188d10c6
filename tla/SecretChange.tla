---------------------------- MODULE SecretChange ----------------------------
(***************************************************************************)
(* Changing and pushing the secrets of accounts (apps/accounts).  A run    *)
(* takes a batch of accounts, prepares them asset by asset, lets Ansible   *)
(* set the secret on each host and then saves, account by account, what    *)
(* became of it.  A change generates its secrets, a retry takes those of   *)
(* the records of an earlier change, a push takes what the rows hold; for  *)
(* an account without a secret it generates one that it stores nowhere.    *)
(* Runs are started by a user, by a schedule, or some time after sessions  *)
(* ended; they are tasks of several workers.  A key of the cache per       *)
(* account, its status, is to keep an account out of two runs.             *)
(*                                                                         *)
(* The secrets that a change generates are named by the change.            *)
(***************************************************************************)
EXTENDS Integers

CONSTANTS
    Accounts, Assets,
    AssetOf,    \* the asset of each account
    Runs,       \* ids of runs; one is used at most once
    Ends,       \* the ends of sessions whose ACL asks for a change
    Initial,    \* the secret that the host of every account accepts at first
    None,       \* no secret, no run, no account, no session end
    Empty,      \* the accounts whose rows have no secret at first
    Guarded,    \* setting CHANGE_SECRET_AFTER_SESSION_END: without it no status is kept
    MaxFaults   \* bound: failures, crashes and status keys an operator deletes

ASSUME SecretAssumption ==
    /\ AssetOf \in [Accounts -> Assets]
    /\ Empty \subseteq Accounts
    /\ Initial \notin Runs /\ None \notin Runs \cup Ends \cup Accounts \cup {Initial}
    /\ \A e \in Runs : <<"push", e>> \notin Runs \cup {Initial, None}
    /\ Guarded \in BOOLEAN
    /\ MaxFaults \in Nat

VARIABLES
    host,       \* per account, the secret its host accepts
    row,        \* per account, the secret in the database
    history,    \* per account, the secrets the row has held: its versions
    outcome,    \* per account, change_secret_status
    record,     \* per change and account, the status of the saved record
    status,     \* per account, the status key in the cache
    debounce,   \* the session end that holds the debounce key
    end,        \* where each session end is, and then its delayed task
    pc,         \* where each run is
    source,     \* the change whose secrets the run sets; None: a push
    batch,      \* the accounts of each run
    todo,       \* the assets the run has not prepared
    admit,      \* the accounts of the asset it is at that it has not come to
    busy,       \* the account it has checked and not yet marked
    held,       \* the accounts it has marked and not saved
    secret,     \* per run and account, the secret it sets
    result,     \* per run and account, what Ansible reported
    lost,       \* per account, the secrets whose result a fault kept from the database
    unguarded,  \* history: the accounts that the status did not guard: it was
                \* deleted while a run held them, or two runs had found it free
                \* before either set it
    adrift,     \* history: the accounts of which a push set another secret than
                \* the one of the row
    faults

hosts == <<host, row, history, outcome, record, lost, adrift>>
queue == <<debounce, end>>
plan  == <<source, batch>>
prep  == <<todo, admit, busy, held, secret>>
vars  == <<hosts, status, queue, pc, plan, prep, result, unguarded, faults>>

\* What push e generates for an account without a secret.
Stray(e) == <<"push", e>>

Secrets == Runs \cup {Stray(e) : e \in Runs} \cup {Initial}

TypeOK ==
    /\ host \in [Accounts -> Secrets]
    /\ row \in [Accounts -> Secrets \cup {None}]
    /\ history \in [Accounts -> SUBSET Secrets]
    /\ outcome \in [Accounts -> {"unset", "success", "failed"}]
    /\ record \in [Runs -> [Accounts -> {"none", "success", "failed"}]]
    /\ status \in [Accounts -> {"none", "queued", "ready", "processing"}]
    /\ debounce \in Ends \cup {None}
    /\ end \in [Ends -> {"new", "marked", "delayed", "lost", "over"}]
    /\ pc \in [Runs -> {"new", "live", "done"}]
    /\ source \in [Runs -> Runs \cup {None}]
    /\ batch \in [Runs -> SUBSET Accounts]
    /\ todo \in [Runs -> SUBSET Assets]
    /\ admit \in [Runs -> SUBSET Accounts]
    /\ busy \in [Runs -> Accounts \cup {None}]
    /\ held \in [Runs -> SUBSET Accounts]
    /\ secret \in [Runs -> [Accounts -> Secrets]]
    /\ result \in [Runs -> [Accounts -> {"none", "ok", "error"}]]
    /\ lost \in [Accounts -> SUBSET Secrets]
    /\ unguarded \subseteq Accounts /\ adrift \subseteq Accounts
    /\ faults \in 0..MaxFaults

Init ==
    /\ host = [a \in Accounts |-> Initial]
    /\ row = [a \in Accounts |-> IF a \in Empty THEN None ELSE Initial]
    /\ history = [a \in Accounts |-> IF a \in Empty THEN {} ELSE {Initial}]
    /\ outcome = [a \in Accounts |-> "unset"]
    /\ record = [e \in Runs |-> [a \in Accounts |-> "none"]]
    /\ status = [a \in Accounts |-> "none"]
    /\ debounce = None /\ end = [s \in Ends |-> "new"]
    /\ pc = [e \in Runs |-> "new"]
    /\ source = [e \in Runs |-> None] /\ batch = [e \in Runs |-> {}]
    /\ todo = [e \in Runs |-> {}] /\ admit = [e \in Runs |-> {}]
    /\ busy = [e \in Runs |-> None] /\ held = [e \in Runs |-> {}]
    /\ secret = [e \in Runs |-> [a \in Accounts |-> Initial]]
    /\ result = [e \in Runs |-> [a \in Accounts |-> "none"]]
    /\ lost = [a \in Accounts |-> {}]
    /\ unguarded = {} /\ adrift = {} /\ faults = 0

Live(e)  == pc[e] = "live"
Held(a)  == {e \in Runs : Live(e) /\ a \in held[e]}

\* A run is between two steps of the preparation of an asset.
Preparing(e) == admit[e] # {} \/ busy[e] # None

\* One more fault, within the bound.
Fault == faults < MaxFaults /\ faults' = faults + 1

\* The status keys of the accounts in gone are deleted.
Forget(gone) ==
    /\ status' = [a \in Accounts |-> IF a \in gone THEN "none" ELSE status[a]]
    /\ unguarded' = unguarded \cup {a \in gone : Guarded /\ Held(a) # {}}

-----------------------------------------------------------------------------
(* A session ends: enqueue_change_secret_task *)

\* set_status(QUEUED, use_add): only where there is no status.
Enqueue(s, a) ==
    /\ Guarded
    /\ end[s] = "new"
    /\ end' = [end EXCEPT ![s] = "marked"]
    /\ status' = [status EXCEPT ![a] = IF @ = "none" THEN "queued" ELSE @]
    /\ UNCHANGED <<hosts, debounce, pc, plan, prep, result, unguarded, faults>>

\* is_debounced adds the key; whoever does hands the broker a task with a
\* countdown, which the broker may refuse.
Debounce(s) ==
    /\ end[s] = "marked"
    /\ \/ /\ debounce # None
          /\ end' = [end EXCEPT ![s] = "over"]
          /\ UNCHANGED <<debounce, faults>>
       \/ /\ debounce = None
          /\ debounce' = s
          /\ \/ end' = [end EXCEPT ![s] = "delayed"] /\ UNCHANGED faults
             \/ end' = [end EXCEPT ![s] = "lost"] /\ Fault
    /\ UNCHANGED <<hosts, status, pc, plan, prep, result, unguarded>>

DebounceExpire ==
    /\ debounce # None
    /\ debounce' = None
    /\ UNCHANGED <<hosts, status, end, pc, plan, prep, result, unguarded, faults>>

-----------------------------------------------------------------------------
(* A run starts *)

Launch(e, src, B) ==
    /\ pc[e] = "new" /\ B # {}
    /\ pc' = [pc EXCEPT ![e] = "live"]
    /\ source' = [source EXCEPT ![e] = src]
    /\ batch' = [batch EXCEPT ![e] = B]
    /\ todo' = [todo EXCEPT ![e] = {AssetOf[a] : a \in B}]

Queued == {a \in Accounts : status[a] = "queued"}

\* Mutant of Due: a countdown shorter than the debounce key lives.
DueEarly(s) == end[s] = "delayed"

\* The countdown of a delayed task is longer than its debounce key lives.
Due(s) == end[s] = "delayed" /\ debounce # s

\* change_secret_accounts_to_assets_task with trigger "delay"
TakeQueued(s, e) ==
    /\ Due(s)
    /\ end' = [end EXCEPT ![s] = "over"]
    /\ Launch(e, e, Queued)
    /\ status' = [a \in Accounts |-> IF a \in Queued THEN "ready" ELSE status[a]]
    /\ UNCHANGED <<hosts, debounce, admit, busy, held, secret, result, unguarded, faults>>

TakeNothing(s) ==
    /\ Due(s)
    /\ Queued = {}
    /\ end' = [end EXCEPT ![s] = "over"]
    /\ UNCHANGED <<hosts, debounce, status, pc, plan, prep, result, unguarded, faults>>

\* A change or a push of any accounts, by a user or a schedule.
Start(e, B) ==
    /\ Launch(e, e, B) \/ Launch(e, None, B)
    /\ UNCHANGED <<hosts, status, queue, admit, busy, held, secret, result, unguarded, faults>>

\* execute_automation_record_task: saved records of one change, of any status.
Retry(e, r, B) ==
    /\ \A a \in B : record[r][a] # "none"
    /\ Launch(e, r, B)
    /\ UNCHANGED <<hosts, status, queue, admit, busy, held, secret, result, unguarded, faults>>

-----------------------------------------------------------------------------
(* Preparation of the inventory: host_callback, asset by asset *)

\* Mutant of PushSecret: an empty secret is pushed as it is.
PushSecretEmpty(e, a) == row[a]

\* get_secret of the push.
PushSecret(e, a) == IF row[a] = None THEN Stray(e) ELSE row[a]

\* new_secret of the record, which is the first one's when the run is a retry.
NewSecret(e, a) == IF source[e] = None THEN PushSecret(e, a) ELSE source[e]

\* The accounts of the run on asset x are read.  The others are taken for
\* accounts that no longer exist, and their status is deleted.
Prepare(e, x) ==
    /\ Live(e) /\ x \in todo[e] /\ ~Preparing(e)
    /\ todo' = [todo EXCEPT ![e] = @ \ {x}]
    /\ admit' = [admit EXCEPT ![e] = {a \in batch[e] : AssetOf[a] = x}]
    /\ secret' = [secret EXCEPT ![e] =
                    [a \in Accounts |-> IF a \in batch[e] /\ AssetOf[a] = x
                                        THEN NewSecret(e, a) ELSE @[a]]]
    /\ Forget({a \in batch[e] : AssetOf[a] # x})
    /\ UNCHANGED <<hosts, queue, pc, plan, busy, held, result, faults>>

\* Mutant of Admissible: the status is not asked for.
AdmissibleAny(a) == a \in Accounts

\* "Account is already being processed, skipping"
Admissible(a) == ~Guarded \/ status[a] # "processing"

Check(e, a) ==
    /\ a \in admit[e] /\ busy[e] = None
    /\ admit' = [admit EXCEPT ![e] = @ \ {a}]
    /\ busy' = [busy EXCEPT ![e] = IF Admissible(a) THEN a ELSE None]
    /\ unguarded' = IF Admissible(a) /\ \E d \in Runs : busy[d] = a
                    THEN unguarded \cup {a} ELSE unguarded
    /\ UNCHANGED <<hosts, status, queue, pc, plan, todo, held, secret, result, faults>>

\* The inventory has the account and its status is PROCESSING.
Mark(e) ==
    /\ busy[e] # None
    /\ busy' = [busy EXCEPT ![e] = None]
    /\ held' = [held EXCEPT ![e] = @ \cup {busy[e]}]
    /\ status' = [status EXCEPT ![busy[e]] = IF Guarded THEN "processing" ELSE @]
    /\ adrift' = IF source[e] = None /\ secret[e][busy[e]] # row[busy[e]]
                 THEN adrift \cup {busy[e]} ELSE adrift
    /\ UNCHANGED <<host, row, history, outcome, record, lost, queue, pc, plan, todo, admit,
                   secret, result, unguarded, faults>>

\* The preparation of the account raises: it is left out, its status deleted.
MarkFails(e) ==
    /\ busy[e] # None
    /\ busy' = [busy EXCEPT ![e] = None]
    /\ Forget({busy[e]})
    /\ Fault
    /\ UNCHANGED <<hosts, queue, pc, plan, todo, admit, held, secret, result>>

-----------------------------------------------------------------------------
(* Ansible, then the results: on_runner_success *)

\* The inventory is complete and Ansible runs.
Playing(e) == Live(e) /\ todo[e] = {} /\ ~Preparing(e)

\* A host accepts the new secret and is verified; or it fails, before the new
\* secret is set or after.
Ansible(e, a) ==
    /\ Playing(e) /\ a \in held[e] /\ result[e][a] = "none"
    /\ \E res \in {"ok", "error"} :
         /\ result' = [result EXCEPT ![e][a] = res]
         /\ \/ host' = [host EXCEPT ![a] = secret[e][a]]
            \/ res = "error" /\ UNCHANGED host
    /\ UNCHANGED <<row, history, outcome, record, lost, adrift, status, queue, pc, plan, prep,
                   unguarded, faults>>

\* A result is saved once Ansible is through with all hosts.
Saving(e, a, res) ==
    /\ Playing(e) /\ \A b \in held[e] : result[e][b] # "none"
    /\ a \in held[e] /\ result[e][a] = res

\* save of the record, which is the first one unless the run is a retry.
SaveRecord(e, a, res) ==
    record' = IF source[e] = None THEN record ELSE [record EXCEPT ![source[e]][a] = res]

\* save of the account: the secret of the record, which a push has not.
SaveRow(e, a) ==
    /\ outcome' = [outcome EXCEPT ![a] = "success"]
    /\ IF source[e] = None
       THEN UNCHANGED <<row, history, adrift>>
       ELSE /\ row' = [row EXCEPT ![a] = secret[e][a]]
            /\ history' = [history EXCEPT ![a] = @ \cup {secret[e][a]}]
            /\ adrift' = adrift \ {a}

Release(e, a) ==
    /\ held' = [held EXCEPT ![e] = @ \ {a}]
    /\ status' = [status EXCEPT ![a] = "none"]
    /\ unguarded' = IF Guarded /\ Held(a) # {e} THEN unguarded \cup {a} ELSE unguarded

\* on_host_success: the row, then the record; an exception is logged.
SaveOk(e, a) ==
    /\ Saving(e, a, "ok")
    /\ \/ /\ SaveRow(e, a) /\ SaveRecord(e, a, "success")
          /\ UNCHANGED <<lost, faults>>
       \/ /\ SaveRow(e, a) /\ UNCHANGED record
          /\ Fault /\ UNCHANGED lost
       \/ /\ UNCHANGED <<row, history, outcome, record, adrift>>
          /\ Fault /\ lost' = [lost EXCEPT ![a] = @ \cup {secret[e][a]}]
    /\ Release(e, a)
    /\ UNCHANGED <<host, queue, pc, plan, todo, admit, busy, secret, result>>

\* Mutant of SaveError: the record of a failed change is not kept.
SaveErrorNoRecord(e, a) ==
    /\ Saving(e, a, "error") /\ \A b \in held[e] : result[e][b] # "ok"
    /\ outcome' = [outcome EXCEPT ![a] = "failed"]
    /\ Release(e, a)
    /\ UNCHANGED <<host, row, history, record, lost, adrift, queue, pc, plan, todo, admit, busy,
                   secret, result, faults>>

\* Mutant of SaveError: the account is not marked as failed.
SaveErrorKeepsOutcome(e, a) ==
    /\ Saving(e, a, "error") /\ \A b \in held[e] : result[e][b] # "ok"
    /\ SaveRecord(e, a, "failed")
    /\ Release(e, a)
    /\ UNCHANGED <<host, row, history, outcome, lost, adrift, queue, pc, plan, todo, admit, busy,
                   secret, result, faults>>

\* on_host_error, after the hosts that are ok.
SaveError(e, a) ==
    /\ Saving(e, a, "error") /\ \A b \in held[e] : result[e][b] # "ok"
    /\ outcome' = [outcome EXCEPT ![a] = "failed"]
    /\ SaveRecord(e, a, "failed")
    /\ Release(e, a)
    /\ UNCHANGED <<host, row, history, lost, adrift, queue, pc, plan, todo, admit, busy, secret,
                   result, faults>>

\* A run that is over keeps nothing.
Over(e) ==
    /\ pc' = [pc EXCEPT ![e] = "done"]
    /\ source' = [source EXCEPT ![e] = None] /\ batch' = [batch EXCEPT ![e] = {}]
    /\ todo' = [todo EXCEPT ![e] = {}] /\ admit' = [admit EXCEPT ![e] = {}]
    /\ busy' = [busy EXCEPT ![e] = None] /\ held' = [held EXCEPT ![e] = {}]
    /\ secret' = [secret EXCEPT ![e] = [a \in Accounts |-> Initial]]
    /\ result' = [result EXCEPT ![e] = [a \in Accounts |-> "none"]]

Finish(e) ==
    /\ Playing(e) /\ held[e] = {}
    /\ Over(e)
    /\ UNCHANGED <<hosts, status, queue, unguarded, faults>>

-----------------------------------------------------------------------------
(* Faults, expiry, the operator *)

\* The worker dies, the runner raises (on_runner_failed saves nothing), or
\* on_host_error does, after one account has its outcome or before: the results
\* not saved are gone, and the status keys stay.
Cut(e) ==
    /\ Live(e) /\ Fault
    /\ lost' = [a \in Accounts |->
                  IF a \in held[e] /\ host[a] = secret[e][a] THEN lost[a] \cup {host[a]}
                  ELSE lost[a]]
    /\ \/ UNCHANGED outcome
       \/ \E a \in held[e] : /\ Saving(e, a, "error")
                             /\ outcome' = [outcome EXCEPT ![a] = "failed"]
    /\ Over(e)
    /\ UNCHANGED <<host, row, history, record, adrift, status, queue, unguarded>>

\* QUEUED lives a minute.  READY and PROCESSING live an hour, and the run that has
\* the account is over by then.
Expire(a) ==
    /\ status[a] # "none"
    /\ status[a] # "queued" => \A e \in Runs : Live(e) => a \notin batch[e]
    /\ status' = [status EXCEPT ![a] = "none"]
    /\ UNCHANGED <<hosts, queue, pc, plan, prep, result, unguarded, faults>>

\* ChangeSecretStatusViewSet.bulk_destroy
Clear(a) ==
    /\ status[a] # "none"
    /\ Forget({a}) /\ Fault
    /\ UNCHANGED <<hosts, queue, pc, plan, prep, result>>

RunStep(e) ==
    \/ \E x \in Assets : Prepare(e, x)
    \/ \E a \in Accounts : \/ Check(e, a) \/ Ansible(e, a)
                           \/ SaveOk(e, a) \/ SaveError(e, a)
    \/ Mark(e) \/ MarkFails(e) \/ Finish(e) \/ Cut(e)

Next ==
    \/ \E s \in Ends : \/ \E a \in Accounts : Enqueue(s, a)
                       \/ Debounce(s) \/ TakeNothing(s)
                       \/ \E e \in Runs : TakeQueued(s, e)
    \/ DebounceExpire
    \/ \E e \in Runs, B \in SUBSET Accounts : \/ Start(e, B)
                                              \/ \E r \in Runs : Retry(e, r, B)
    \/ \E e \in Runs : RunStep(e)
    \/ \E a \in Accounts : Expire(a) \/ Clear(a)

Spec == Init /\ [][Next]_vars

-----------------------------------------------------------------------------
(* Properties *)

\* The secrets that live runs may have set or may still set on the host of a.
InFlight(a) == {secret[e][a] : e \in Held(a)}

Recorded(a) == {r \in Runs : record[r][a] # "none"}

\* The secret of a change that a host accepts can be found: in a version of the
\* row, in a record, or it is that of a run that has not yet saved its result,
\* unless a fault kept a result from being saved.  In particular a failed change
\* that has changed the host leaves a record with the secret.
HostSecretKnown ==
    \A a \in Accounts : host[a] \in Runs =>
        host[a] \in history[a] \cup Recorded(a) \cup InFlight(a) \cup lost[a]

\* Two runs that set the secret of one account at a time got it because the
\* status was deleted under the first one (by the operator, by the preparation of
\* another asset, or by the end of another such run), or because both asked for
\* the status before either set it.  (With Guarded.)
OneRunUnlessUnguarded ==
    \A a \in Accounts \ unguarded : \A d, e \in Held(a) : d = e

\* An account whose last change or push is a success has the secret of its host
\* in the row when no run is at it, unless a fault kept a result from being saved,
\* the status did not guard the account, or a push set a secret that the row did
\* not hold when it took the account.  (With Guarded.)
SuccessMeansInSync ==
    \A a \in Accounts \ (unguarded \cup adrift) :
        outcome[a] = "success" /\ Held(a) = {} /\ lost[a] = {} => host[a] = row[a]

\* An account that waits for its change is not forgotten: a delayed task that
\* will find it exists, or a session end is about to ask for one, unless the broker
\* refused one.
QueuedHasTask ==
    Queued # {} => \E s \in Ends : end[s] \in {"marked", "delayed", "lost"}

=============================================================================
