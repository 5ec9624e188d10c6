------------------------- MODULE SecretChange_proofs -------------------------
(***************************************************************************)
(* Proofs about SecretChange, for any accounts, assets, runs, session ends *)
(* and faults, and any overlap of runs: the types, that the secret of a    *)
(* change which a host accepts can be found, that an account is in two     *)
(* runs only where its status did not guard it, that a success then leaves *)
(* host and row in step unless a push was stale, and that a queued account *)
(* has a task.                                                             *)
(***************************************************************************)
EXTENDS SecretChange, TLAPS

USE SecretAssumption

\* A property of every step is one of each action.
LEMMA StepCases ==
    ASSUME Next
    PROVE  \/ \E s \in Ends, a \in Accounts : Enqueue(s, a)
           \/ \E s \in Ends : Debounce(s) \/ TakeNothing(s)
           \/ \E s \in Ends, e \in Runs : TakeQueued(s, e)
           \/ DebounceExpire
           \/ \E e \in Runs, B \in SUBSET Accounts : Start(e, B)
           \/ \E e, r \in Runs, B \in SUBSET Accounts : Retry(e, r, B)
           \/ \E e \in Runs, x \in Assets : Prepare(e, x)
           \/ \E e \in Runs, a \in Accounts :
                 Check(e, a) \/ Ansible(e, a) \/ SaveOk(e, a) \/ SaveError(e, a)
           \/ \E e \in Runs : Mark(e) \/ MarkFails(e) \/ Finish(e) \/ Cut(e)
           \/ \E a \in Accounts : Expire(a) \/ Clear(a)
  BY DEF Next, RunStep

-----------------------------------------------------------------------------

\* Types.
THEOREM Types == Spec => []TypeOK
  <1>1. Init => TypeOK
    BY DEF Init, TypeOK, Secrets
  <1>2. TypeOK /\ [Next]_vars => TypeOK'
    <2> SUFFICES ASSUME TypeOK, Next PROVE TypeOK'
      BY DEF TypeOK, vars, hosts, queue, plan, prep
    <2> USE DEF hosts, queue, plan, prep, Secrets
    <2>1. ASSUME NEW s \in Ends, NEW a \in Accounts, Enqueue(s, a) PROVE TypeOK'
      BY <2>1 DEF TypeOK, Enqueue
    <2>2. ASSUME NEW s \in Ends, Debounce(s) PROVE TypeOK'
      <3>1. CASE debounce # None
        BY <2>2, <3>1 DEF TypeOK, Debounce
      <3>2. CASE debounce = None
        <4>1. debounce' \in Ends \cup {None} /\ faults' \in 0..MaxFaults
          BY <2>2, <3>2 DEF TypeOK, Debounce, Fault
        <4>2. end' \in [Ends -> {"new", "marked", "delayed", "lost", "over"}]
          BY <2>2, <3>2 DEF TypeOK, Debounce
        <4> QED
          BY <2>2, <4>1, <4>2 DEF TypeOK, Debounce
      <3> QED
        BY <3>1, <3>2
    <2>3. ASSUME NEW s \in Ends, TakeNothing(s) PROVE TypeOK'
      BY <2>3 DEF TypeOK, TakeNothing
    <2>4. ASSUME NEW s \in Ends, NEW e \in Runs, TakeQueued(s, e) PROVE TypeOK'
      BY <2>4 DEF TypeOK, TakeQueued, Launch, Queued
    <2>5. CASE DebounceExpire
      BY <2>5 DEF TypeOK, DebounceExpire
    <2>6. ASSUME NEW e \in Runs, NEW B \in SUBSET Accounts, Start(e, B) PROVE TypeOK'
      <3>1. CASE Launch(e, e, B)
        BY <2>6, <3>1 DEF TypeOK, Start, Launch
      <3>2. CASE Launch(e, None, B)
        BY <2>6, <3>2 DEF TypeOK, Start, Launch
      <3> QED
        BY <2>6, <3>1, <3>2 DEF Start
    <2>7. ASSUME NEW e \in Runs, NEW r \in Runs, NEW B \in SUBSET Accounts, Retry(e, r, B)
          PROVE  TypeOK'
      BY <2>7 DEF TypeOK, Retry, Launch
    <2>8. ASSUME NEW e \in Runs, NEW x \in Assets, Prepare(e, x) PROVE TypeOK'
      <3>1. \A a \in Accounts : NewSecret(e, a) \in Secrets
        BY DEF TypeOK, NewSecret, PushSecret
      <3>2. secret' \in [Runs -> [Accounts -> Secrets]]
        BY <2>8, <3>1 DEF TypeOK, Prepare
      <3>3. status' \in [Accounts -> {"none", "queued", "ready", "processing"}]
            /\ unguarded' \in SUBSET Accounts
        BY <2>8 DEF TypeOK, Prepare, Forget
      <3> QED
        BY <2>8, <3>2, <3>3 DEF TypeOK, Prepare
    <2>9. ASSUME NEW e \in Runs, NEW a \in Accounts, Check(e, a) PROVE TypeOK'
      BY <2>9 DEF TypeOK, Check
    <2>10. ASSUME NEW e \in Runs, Mark(e) PROVE TypeOK'
      BY <2>10 DEF TypeOK, Mark
    <2>11. ASSUME NEW e \in Runs, MarkFails(e) PROVE TypeOK'
      BY <2>11 DEF TypeOK, MarkFails, Forget, Fault
    <2>12. ASSUME NEW e \in Runs, NEW a \in Accounts, Ansible(e, a) PROVE TypeOK'
      <3>1. PICK res \in {"ok", "error"} :
              /\ result' = [result EXCEPT ![e][a] = res]
              /\ host' = [host EXCEPT ![a] = secret[e][a]] \/ host' = host
        BY <2>12 DEF Ansible
      <3>2. result' \in [Runs -> [Accounts -> {"none", "ok", "error"}]]
        BY <3>1 DEF TypeOK
      <3>3. host' \in [Accounts -> Secrets]
        <4>1. host \in [Accounts -> Secrets] /\ secret[e][a] \in Secrets
          BY DEF TypeOK
        <4> QED
          BY <3>1, <4>1
      <3> QED
        BY <2>12, <3>2, <3>3 DEF TypeOK, Ansible
    <2>13. ASSUME NEW e \in Runs, NEW a \in Accounts, SaveOk(e, a) PROVE TypeOK'
      <3>1. /\ row' \in [Accounts -> Secrets \cup {None}]
            /\ history' \in [Accounts -> SUBSET Secrets]
            /\ outcome' \in [Accounts -> {"unset", "success", "failed"}]
            /\ adrift' \subseteq Accounts
        <4>1. /\ row \in [Accounts -> Secrets \cup {None}]
              /\ history \in [Accounts -> SUBSET Secrets]
              /\ outcome \in [Accounts -> {"unset", "success", "failed"}]
              /\ secret[e][a] \in Secrets /\ adrift \subseteq Accounts
          BY DEF TypeOK
        <4>2. SaveRow(e, a) \/ UNCHANGED <<row, history, outcome, adrift>>
          BY <2>13 DEF SaveOk
        <4> HIDE DEF Secrets
        <4> QED
          BY <4>1, <4>2 DEF SaveRow
      <3>2. record' \in [Runs -> [Accounts -> {"none", "success", "failed"}]]
        <4>1. record \in [Runs -> [Accounts -> {"none", "success", "failed"}]]
              /\ source[e] \in Runs \cup {None}
          BY DEF TypeOK
        <4>2. SaveRecord(e, a, "success") \/ record' = record
          BY <2>13 DEF SaveOk
        <4> QED
          BY <4>1, <4>2 DEF SaveRecord
      <3>3. lost' \in [Accounts -> SUBSET Secrets] /\ faults' \in 0..MaxFaults
        <4>1. /\ lost \in [Accounts -> SUBSET Secrets] /\ faults \in 0..MaxFaults
              /\ secret[e][a] \in Secrets
          BY DEF TypeOK
        <4>2. /\ lost' = lost \/ lost' = [lost EXCEPT ![a] = @ \cup {secret[e][a]}]
              /\ faults' = faults \/ (faults < MaxFaults /\ faults' = faults + 1)
          BY <2>13 DEF SaveOk, Fault
        <4> HIDE DEF Secrets
        <4> QED
          BY <4>1, <4>2
      <3>4. /\ status' \in [Accounts -> {"none", "queued", "ready", "processing"}]
            /\ held' \in [Runs -> SUBSET Accounts] /\ unguarded' \in SUBSET Accounts
        BY <2>13 DEF TypeOK, SaveOk, Release
      <3> QED
        BY <2>13, <3>1, <3>2, <3>3, <3>4 DEF TypeOK, SaveOk
    <2>14. ASSUME NEW e \in Runs, NEW a \in Accounts, SaveError(e, a) PROVE TypeOK'
      BY <2>14 DEF TypeOK, SaveError, SaveRecord, Release
    <2>15. ASSUME NEW e \in Runs, Finish(e) PROVE TypeOK'
      BY <2>15 DEF TypeOK, Finish, Over
    <2>16. ASSUME NEW e \in Runs, Cut(e) PROVE TypeOK'
      BY <2>16 DEF TypeOK, Cut, Over, Fault
    <2>17. ASSUME NEW a \in Accounts, Expire(a) PROVE TypeOK'
      BY <2>17 DEF TypeOK, Expire
    <2>18. ASSUME NEW a \in Accounts, Clear(a) PROVE TypeOK'
      BY <2>18 DEF TypeOK, Clear, Forget, Fault
    <2> QED
      BY StepCases, <2>1, <2>2, <2>3, <2>4, <2>5, <2>6, <2>7, <2>8, <2>9, <2>10, <2>11, <2>12,
         <2>13, <2>14, <2>15, <2>16, <2>17, <2>18
  <1> QED
    BY <1>1, <1>2, PTL DEF Spec

-----------------------------------------------------------------------------

\* What is under way is of a live run, and of its batch; what it sets is the
\* secret of its change once the account is read; Ansible reports after the
\* preparation.
RunsInOrder ==
    \A e \in Runs :
        /\ pc[e] # "live" => /\ source[e] = None /\ todo[e] = {} /\ admit[e] = {}
                             /\ busy[e] = None /\ held[e] = {}
                             /\ \A a \in Accounts : /\ secret[e][a] = Initial
                                                    /\ result[e][a] = "none"
        /\ admit[e] \cup held[e] \subseteq batch[e] /\ busy[e] \in batch[e] \cup {None}
        /\ source[e] # None =>
             \A a \in Accounts : a \in admit[e] \cup held[e] \/ busy[e] = a
                                    => secret[e][a] = source[e]
        /\ \A a \in Accounts : result[e][a] # "none" => todo[e] = {} /\ ~Preparing(e)

\* The runs are in order at the start and after every step.
LEMMA RunsInOrderStep ==
    /\ Init => RunsInOrder
    /\ TypeOK /\ RunsInOrder /\ Next => RunsInOrder'
  <1>1. Init => RunsInOrder
    BY DEF Init, RunsInOrder, Preparing
  <1>2. ASSUME TypeOK, RunsInOrder, Next PROVE RunsInOrder'
    <2> USE <1>2
    <2> USE DEF hosts, queue, plan, prep, Secrets, Preparing, Live
    <2>1. ASSUME UNCHANGED <<pc, plan, prep, result>> PROVE RunsInOrder'
      BY <2>1 DEF RunsInOrder
    <2>2. ASSUME NEW e \in Runs, NEW src \in Runs \cup {None}, NEW B \in SUBSET Accounts,
                 Launch(e, src, B), UNCHANGED <<admit, busy, held, secret, result>>
          PROVE  RunsInOrder'
      BY <2>2 DEF RunsInOrder, Launch, TypeOK
    <2>3. ASSUME NEW e \in Runs, NEW x \in Assets, Prepare(e, x) PROVE RunsInOrder'
      <3>1. ASSUME NEW a \in Accounts, source[e] # None, a \in held[e] \/ a \in admit'[e]
            PROVE  secret'[e][a] = source[e]
        BY <2>3, <3>1 DEF RunsInOrder, Prepare, NewSecret, TypeOK
      <3>2. \A d \in Runs \ {e} :
              secret'[d] = secret[d] /\ admit'[d] = admit[d] /\ todo'[d] = todo[d]
        BY <2>3 DEF Prepare, TypeOK
      <3>3. admit'[e] \subseteq batch[e] /\ busy[e] = None /\ pc[e] = "live" /\ todo[e] # {}
        BY <2>3 DEF Prepare, TypeOK
      <3> QED
        BY <2>3, <3>1, <3>2, <3>3 DEF RunsInOrder, Prepare
    <2>4. ASSUME NEW e \in Runs, NEW a \in Accounts, Check(e, a) PROVE RunsInOrder'
      BY <2>4 DEF RunsInOrder, Check, TypeOK
    <2>5. ASSUME NEW e \in Runs, Mark(e) PROVE RunsInOrder'
      BY <2>5 DEF RunsInOrder, Mark, TypeOK
    <2>6. ASSUME NEW e \in Runs, MarkFails(e) PROVE RunsInOrder'
      BY <2>6 DEF RunsInOrder, MarkFails, TypeOK
    <2>7. ASSUME NEW e \in Runs, NEW a \in Accounts, Ansible(e, a) PROVE RunsInOrder'
      <3>1. PICK res \in {"ok", "error"} : result' = [result EXCEPT ![e][a] = res]
        BY <2>7 DEF Ansible
      <3> QED
        BY <2>7, <3>1 DEF RunsInOrder, Ansible, TypeOK, Playing
    <2>8. ASSUME NEW e \in Runs, NEW a \in Accounts, held' = [held EXCEPT ![e] = @ \ {a}],
                 UNCHANGED <<pc, plan, todo, admit, busy, secret, result>>
          PROVE  RunsInOrder'
      BY <2>8 DEF RunsInOrder, TypeOK
    <2>9. ASSUME NEW e \in Runs, Over(e) PROVE RunsInOrder'
      BY <2>9 DEF RunsInOrder, Over, TypeOK
    <2> QED
      BY StepCases, <2>1, <2>2, <2>3, <2>4, <2>5, <2>6, <2>7, <2>8, <2>9
         DEF Enqueue, Debounce, TakeNothing, TakeQueued, DebounceExpire, Start, Retry, Queued,
             SaveOk, SaveError, Release, Finish, Cut, Expire, Clear
  <1> QED
    BY <1>1, <1>2

\* Types and order of the runs, together.
RInv == TypeOK /\ RunsInOrder

LEMMA RunsAreInOrder == Spec => []RInv
  <1>1. Init => RunsInOrder
    BY RunsInOrderStep
  <1>2. TypeOK /\ TypeOK' /\ RunsInOrder /\ [Next]_vars => RunsInOrder'
    <2>1. ASSUME TypeOK, RunsInOrder, Next PROVE RunsInOrder'
      BY <2>1, RunsInOrderStep
    <2>2. ASSUME RunsInOrder, UNCHANGED vars PROVE RunsInOrder'
      BY <2>2 DEF RunsInOrder, vars, plan, prep, Preparing
    <2> QED
      BY <2>1, <2>2
  <1> QED
    BY <1>1, <1>2, Types, PTL DEF Spec, RInv

-----------------------------------------------------------------------------

\* The holder of the debounce key has scheduled a task, or the broker refused it.
DebounceInUse == debounce # None => end[debounce] \in {"delayed", "lost"}

\* A queued account has a task, now or soon, that will find it: no account is
\* queued by a session end that relies on a task which has already looked.
THEOREM QueuedHaveTask == Spec => []QueuedHasTask
  <1> DEFINE QInv == QueuedHasTask /\ DebounceInUse
  <1>1. Init => QInv
    BY DEF Init, QueuedHasTask, DebounceInUse, Queued
  <1>2. TypeOK /\ QInv /\ [Next]_vars => QInv'
    <2> SUFFICES ASSUME TypeOK, QInv, [Next]_vars PROVE QInv'
      OBVIOUS
    <2> USE DEF QueuedHasTask, DebounceInUse, Queued, queue
    <2>1. ASSUME queue' = queue, Queued' \subseteq Queued PROVE QInv'
      BY <2>1
    <2>2. ASSUME NEW s \in Ends, NEW a \in Accounts, Enqueue(s, a) PROVE QInv'
      <3>1. end' = [end EXCEPT ![s] = "marked"] /\ end[s] = "new" /\ debounce' = debounce
        BY <2>2 DEF Enqueue
      <3> QED
        BY <3>1 DEF TypeOK
    <2>3. ASSUME NEW s \in Ends, Debounce(s) PROVE QInv'
      <3>1. CASE debounce # None
        <4>1. end' = [end EXCEPT ![s] = "over"] /\ end[s] = "marked" /\ debounce' = debounce
          BY <2>3, <3>1 DEF Debounce
        <4> QED
          BY <3>1, <4>1 DEF TypeOK
      <3>2. CASE debounce = None
        <4>1. /\ \E w \in {"delayed", "lost"} : end' = [end EXCEPT ![s] = w]
              /\ debounce' = s
          BY <2>3, <3>2 DEF Debounce
        <4> QED
          BY <4>1 DEF TypeOK
      <3> QED
        BY <3>1, <3>2
    <2>4. ASSUME NEW s \in Ends, TakeNothing(s) \/ \E e \in Runs : TakeQueued(s, e) PROVE QInv'
      <3>1. /\ Queued' = {} /\ debounce' = debounce /\ debounce # s
            /\ end' = [end EXCEPT ![s] = "over"]
        <4>1. CASE TakeNothing(s)
          BY <4>1 DEF TakeNothing, Due
        <4>2. ASSUME NEW e \in Runs, TakeQueued(s, e) PROVE Queued' = {}
          BY <4>2 DEF TakeQueued, TypeOK
        <4> QED
          BY <2>4, <4>1, <4>2 DEF TakeQueued, Due
      <3> QED
        BY <3>1 DEF TypeOK
    <2>5. CASE DebounceExpire
      BY <2>5 DEF DebounceExpire
    <2>6. ASSUME queue' = queue, status' = status PROVE QInv'
      BY <2>6
    <2>7. ASSUME NEW gone, Forget(gone), queue' = queue PROVE QInv'
      BY <2>7 DEF Forget
    <2>8. ASSUME NEW e \in Runs, Mark(e) PROVE QInv'
      BY <2>8 DEF Mark, TypeOK
    <2>9. ASSUME NEW e \in Runs, NEW a \in Accounts, Release(e, a), queue' = queue PROVE QInv'
      BY <2>9 DEF Release, TypeOK
    <2>10. ASSUME NEW a \in Accounts, Expire(a) PROVE QInv'
      BY <2>10 DEF Expire, TypeOK
    <2>11. CASE UNCHANGED vars
      BY <2>6, <2>11 DEF vars
    <2> QED
      BY StepCases, <2>2, <2>3, <2>4, <2>5, <2>6, <2>7, <2>8, <2>9, <2>10, <2>11
         DEF Start, Retry, Prepare, Check, MarkFails, Ansible, SaveOk, SaveError, Finish, Cut, Clear
  <1> QED
    BY <1>1, <1>2, Types, PTL DEF Spec

-----------------------------------------------------------------------------

\* The secret of a change that a row or a push holds is a version of the row.
VersionsKept ==
    \A a \in Accounts :
        /\ row[a] \in Runs => row[a] \in history[a]
        /\ \A e \in Runs : source[e] = None /\ secret[e][a] \in Runs
                          => secret[e][a] \in history[a]

\* The inductive invariant behind HostSecretKnown.
KInv == VersionsKept /\ HostSecretKnown

\* What a step may do to the places where the secret of a host is found: none
\* loses one that the host accepts.
LEMMA KnownStep ==
    ASSUME RInv, RInv', KInv, Next
    PROVE  KInv'
  <1> USE DEF RInv, KInv, hosts, queue, plan, prep
  <1>1. ASSUME UNCHANGED <<hosts, pc, plan, prep>> PROVE KInv'
    BY <1>1 DEF VersionsKept, HostSecretKnown, Recorded, InFlight, Held, Live
  <1>2. ASSUME NEW e \in Runs, NEW src \in Runs \cup {None}, NEW B \in SUBSET Accounts,
               Launch(e, src, B), UNCHANGED <<hosts, admit, busy, held, secret>>
        PROVE  KInv'
    <2>1. \A a \in Accounts : Held(a)' = Held(a)
      BY <1>2 DEF Launch, Held, Live, TypeOK, RunsInOrder
    <2>2. VersionsKept'
      BY <1>2 DEF Launch, VersionsKept, TypeOK, RunsInOrder
    <2> QED
      BY <1>2, <2>1, <2>2 DEF HostSecretKnown, Recorded, InFlight
  <1>3. ASSUME NEW e \in Runs, NEW x \in Assets, Prepare(e, x) PROVE KInv'
    <2>1. \A a \in Accounts : Held(a)' = Held(a)
      BY <1>3 DEF Prepare, Held, Live
    <2>2. VersionsKept'
      BY <1>3 DEF Prepare, NewSecret, PushSecret, Stray, VersionsKept, TypeOK
    <2>3. ASSUME NEW a \in Accounts, NEW d \in Held(a)
          PROVE  secret'[d][a] = secret[d][a] \/ (secret[d][a] \in Runs
                                                   => secret[d][a] \in history[a])
      <3>1. CASE source[d] = None
        BY <3>1 DEF VersionsKept, Held
      <3>2. CASE source[d] # None
        <4>1. secret[d][a] = source[d] /\ secret'[d][a] = source[d]
          BY <1>3, <2>1, <2>3, <3>2 DEF RunsInOrder, Held, Prepare, Live
        <4> QED
          BY <4>1
      <3> QED
        BY <3>1, <3>2
    <2> QED
      BY <1>3, <2>1, <2>2, <2>3 DEF HostSecretKnown, Recorded, InFlight, Prepare
  <1>4. ASSUME UNCHANGED <<host, row, history, record, lost, pc, source, secret>>,
               \A d \in Runs : held[d] \subseteq held'[d]
        PROVE  KInv'
    BY <1>4 DEF VersionsKept, HostSecretKnown, Recorded, InFlight, Held, Live
  <1>5. ASSUME NEW e \in Runs, NEW a \in Accounts, Ansible(e, a) PROVE KInv'
    <2>1. \A b \in Accounts : Held(b)' = Held(b) /\ InFlight(b)' = InFlight(b)
      BY <1>5 DEF Ansible, Held, Live, InFlight
    <2>2. secret[e][a] \in InFlight(a)
      BY <1>5 DEF Ansible, Held, InFlight, Playing
    <2>3. \A b \in Accounts : host'[b] = host[b] \/ (b = a /\ host'[b] = secret[e][a])
      BY <1>5 DEF Ansible, TypeOK
    <2> QED
      BY <1>5, <2>1, <2>2, <2>3 DEF Ansible, VersionsKept, HostSecretKnown, Recorded
  <1>6. ASSUME NEW e \in Runs, NEW a \in Accounts, SaveOk(e, a) \/ SaveError(e, a) PROVE KInv'
    <2>1. \A b \in Accounts : history[b] \subseteq history'[b] /\ lost[b] \subseteq lost'[b]
      <3>1. /\ history \in [Accounts -> SUBSET Secrets] /\ lost \in [Accounts -> SUBSET Secrets]
        BY DEF TypeOK
      <3>2. history' = history \/ history' = [history EXCEPT ![a] = @ \cup {secret[e][a]}]
        BY <1>6 DEF SaveOk, SaveError, SaveRow
      <3>3. lost' = lost \/ lost' = [lost EXCEPT ![a] = @ \cup {secret[e][a]}]
        BY <1>6 DEF SaveOk, SaveError
      <3> QED
        BY <3>1, <3>2, <3>3
    <2>2. \A b \in Accounts : Recorded(b) \subseteq Recorded(b)'
      <3>1. record \in [Runs -> [Accounts -> {"none", "success", "failed"}]]
        BY DEF TypeOK
      <3>2. \/ record' = record
            \/ \E r \in Runs \cup {None}, res \in {"success", "failed"} :
                  record' = [record EXCEPT ![r][a] = res]
        <4>1. record' = record \/ \E res \in {"success", "failed"} : SaveRecord(e, a, res)
          BY <1>6 DEF SaveOk, SaveError
        <4>2. source[e] \in Runs \cup {None}
          BY DEF TypeOK
        <4> QED
          BY <4>1, <4>2 DEF SaveRecord
      <3> QED
        BY <3>1, <3>2 DEF Recorded
    <2>3. \A b \in Accounts : \A d \in Held(b) : d \in Held(b)' \/ (d = e /\ b = a)
      BY <1>6 DEF SaveOk, SaveError, Release, Held, Live, TypeOK
    <2>4. secret[e][a] \in Runs => secret[e][a] \in history'[a] \cup Recorded(a)' \cup lost'[a]
      <3>1. CASE SaveOk(e, a) /\ source[e] # None
        BY <3>1 DEF SaveOk, SaveRow, TypeOK
      <3>2. CASE source[e] = None
        BY <2>1, <3>2 DEF VersionsKept
      <3>3. CASE SaveError(e, a) /\ source[e] # None
        <4>1. secret[e][a] = source[e] /\ source[e] \in Runs
          BY <3>3 DEF SaveError, Saving, RunsInOrder, TypeOK
        <4>2. record'[source[e]][a] = "failed"
          BY <3>3, <4>1 DEF SaveError, SaveRecord, TypeOK
        <4> QED
          BY <4>1, <4>2 DEF Recorded
      <3> QED
        BY <1>6, <3>1, <3>2, <3>3
    <2>5. VersionsKept'
      <3>1. \A b \in Accounts : row'[b] = row[b] \/ row'[b] \in history'[b]
        BY <1>6 DEF SaveOk, SaveError, SaveRow, TypeOK
      <3>2. UNCHANGED <<source, secret>>
        BY <1>6 DEF SaveOk, SaveError
      <3> QED
        BY <2>1, <3>1, <3>2 DEF VersionsKept
    <2>6. UNCHANGED <<host, secret>>
      BY <1>6 DEF SaveOk, SaveError
    <2> QED
      BY <2>1, <2>2, <2>3, <2>4, <2>5, <2>6 DEF HostSecretKnown, InFlight
  <1>7. ASSUME NEW e \in Runs, Finish(e) \/ Cut(e) PROVE KInv'
    <2>1. \A b \in Accounts : /\ lost[b] \subseteq lost'[b]
                              /\ b \in held[e] /\ host[b] = secret[e][b] => host[b] \in lost'[b]
      BY <1>7 DEF Finish, Cut, TypeOK
    <2>2. \A b \in Accounts : \A d \in Held(b) : \/ d = e
                                                 \/ d \in Held(b)' /\ secret'[d][b] = secret[d][b]
      BY <1>7 DEF Finish, Cut, Over, Held, Live, TypeOK
    <2>3. UNCHANGED <<host, row, history, record>>
      BY <1>7 DEF Finish, Cut
    <2>4. VersionsKept'
      <3>1. Over(e)
        BY <1>7 DEF Finish, Cut
      <3>2. \A d \in Runs, b \in Accounts :
               secret'[d][b] = Initial \/ (source'[d] = source[d] /\ secret'[d][b] = secret[d][b])
        BY <3>1 DEF Over, TypeOK
      <3> QED
        BY <2>3, <3>2 DEF VersionsKept
    <2>5. \A b \in Accounts : e \in Held(b) => b \in held[e]
      BY DEF Held
    <2> QED
      BY <2>1, <2>2, <2>3, <2>4, <2>5 DEF HostSecretKnown, InFlight, Recorded
  <1>8. ASSUME NEW e \in Runs, Mark(e) PROVE KInv'
    BY <1>4, <1>8 DEF Mark, TypeOK
  <1> QED
    BY StepCases, <1>1, <1>2, <1>3, <1>4, <1>5, <1>6, <1>7, <1>8
       DEF Enqueue, Debounce, TakeNothing, TakeQueued, DebounceExpire, Start, Retry, Queued,
           Check, MarkFails, Expire, Clear

\* The secret a host accepts is never unknown, whatever the runs do, with or
\* without status keys.
THEOREM SecretsKnown == Spec => []HostSecretKnown
  <1>1. Init => KInv
    BY DEF Init, KInv, VersionsKept, HostSecretKnown
  <1>2. RInv /\ RInv' /\ KInv /\ [Next]_vars => KInv'
    <2>1. ASSUME KInv, UNCHANGED vars PROVE KInv'
      BY <2>1 DEF KInv, vars, hosts, plan, prep, VersionsKept, HostSecretKnown, Recorded,
                  InFlight, Held, Live
    <2> QED
      BY <2>1, KnownStep
  <1> QED
    BY <1>1, <1>2, RunsAreInOrder, PTL DEF Spec, KInv

-----------------------------------------------------------------------------

\* An account that a run holds keeps its status, and no run is about to mark an
\* account that another one holds or is about to mark, where the status guards it.
MarkedWhileHeld ==
    \A a \in Accounts \ unguarded, e \in Runs :
        /\ a \in held[e] => status[a] = "processing"
        /\ busy[e] = a => \A d \in Runs : a \notin held[d] /\ (busy[d] = a => d = e)
        /\ \A d \in Runs : a \in held[e] /\ a \in held[d] => d = e

\* The result of a run is in step with the host.  Where no push was stale, a push
\* under way sets what the row holds, and the row of a change that ended well is
\* in step with the host, or a run that has set another secret is still to save it.
ResultsTrue ==
    \A a \in Accounts \ unguarded :
        /\ \A e \in Runs : a \in held[e] /\ result[e][a] = "ok" => host[a] = secret[e][a]
        /\ a \notin adrift =>
             /\ \A e \in Runs : a \in held[e] /\ source[e] = None => secret[e][a] = row[a]
             /\ outcome[a] = "success" /\ lost[a] = {} =>
                   \/ host[a] = row[a]
                   \/ \E e \in Runs : /\ a \in held[e] /\ result[e][a] # "none"
                                      /\ host[a] = secret[e][a]

\* With status keys in use.
LEMMA MarksStep ==
    ASSUME RInv, Guarded, MarkedWhileHeld, Next
    PROVE  MarkedWhileHeld'
  <1> USE DEF RInv, hosts, queue, plan, prep
  <1>1. ASSUME UNCHANGED <<busy, held, unguarded>>,
               \A a \in Accounts : status[a] = "processing" => status'[a] = "processing"
        PROVE  MarkedWhileHeld'
    BY <1>1 DEF MarkedWhileHeld
  <1>2. ASSUME NEW gone \in SUBSET Accounts, Forget(gone), held' = held,
               \A e \in Runs : busy'[e] \in {busy[e], None}
        PROVE  MarkedWhileHeld'
    <2>1. \A a \in gone, e \in Runs : a \in held[e] => a \in unguarded'
      BY <1>2 DEF Forget, Held, Live, RunsInOrder
    <2>2. unguarded \subseteq unguarded' /\ \A a \in Accounts \ gone : status'[a] = status[a]
      BY <1>2 DEF Forget, TypeOK
    <2> QED
      BY <1>2, <2>1, <2>2 DEF MarkedWhileHeld
  <1>3. ASSUME NEW e \in Runs, NEW a \in Accounts, Check(e, a) PROVE MarkedWhileHeld'
    <2>1. /\ \A d \in Runs : d # e => busy'[d] = busy[d]
          /\ \/ busy'[e] = None
             \/ /\ busy'[e] = a /\ status[a] # "processing"
                /\ a \notin unguarded' => \A d \in Runs : busy[d] # a
          /\ unguarded \subseteq unguarded' /\ UNCHANGED <<held, status>>
      BY <1>3 DEF Check, Admissible, TypeOK
    <2> QED
      BY <2>1 DEF MarkedWhileHeld
  <1>4. ASSUME NEW e \in Runs, Mark(e) PROVE MarkedWhileHeld'
    <2> DEFINE a == busy[e]
    <2>1. /\ a \in Accounts /\ busy' = [busy EXCEPT ![e] = None]
          /\ held' = [held EXCEPT ![e] = @ \cup {a}]
          /\ status' = [status EXCEPT ![a] = "processing"] /\ unguarded' = unguarded
      BY <1>4 DEF Mark, TypeOK
    <2>2. \A d \in Runs : a \notin unguarded => busy'[d] # a
      BY <2>1 DEF MarkedWhileHeld, TypeOK
    <2> QED
      BY <2>1, <2>2 DEF MarkedWhileHeld, TypeOK
  <1>5. ASSUME NEW e \in Runs, NEW a \in Accounts, Release(e, a), busy' = busy
        PROVE  MarkedWhileHeld'
    <2>1. /\ \A d \in Runs : held'[d] \subseteq held[d]
          /\ a \notin held'[e] /\ \A b \in Accounts \ {a} : status'[b] = status[b]
          /\ unguarded \subseteq unguarded'
      BY <1>5 DEF Release, TypeOK
    <2>2. a \notin unguarded' => \A d \in Runs : a \notin held'[d]
      BY <1>5, <2>1 DEF Release, Held, Live, RunsInOrder
    <2> QED
      BY <1>5, <2>1, <2>2 DEF MarkedWhileHeld
  <1>6. ASSUME NEW e \in Runs, Over(e), UNCHANGED <<status, unguarded>> PROVE MarkedWhileHeld'
    <2>1. \A d \in Runs : held'[d] \subseteq held[d] /\ busy'[d] \in {busy[d], None}
      BY <1>6 DEF Over, TypeOK
    <2> QED
      BY <1>6, <2>1 DEF MarkedWhileHeld
  <1>7. ASSUME NEW a \in Accounts, Expire(a) PROVE MarkedWhileHeld'
    <2>1. \A e \in Runs : a \notin held[e] \/ status[a] # "processing"
      BY <1>7 DEF Expire, RunsInOrder, Live
    <2>2. \A b \in Accounts \ {a} : status'[b] = status[b]
      BY <1>7 DEF Expire, TypeOK
    <2> QED
      BY <1>7, <2>1, <2>2 DEF Expire, MarkedWhileHeld
  <1>8. ASSUME NEW s \in Ends, NEW a \in Accounts, Enqueue(s, a) PROVE MarkedWhileHeld'
    BY <1>1, <1>8 DEF Enqueue, TypeOK
  <1>9. ASSUME NEW s \in Ends, NEW e \in Runs, TakeQueued(s, e) PROVE MarkedWhileHeld'
    BY <1>1, <1>9 DEF TakeQueued, Queued
  <1>10. ASSUME NEW e \in Runs, NEW x \in Assets, Prepare(e, x) PROVE MarkedWhileHeld'
    BY <1>2, <1>10 DEF Prepare, TypeOK
  <1>11. ASSUME NEW e \in Runs, MarkFails(e) PROVE MarkedWhileHeld'
    BY <1>2, <1>11 DEF MarkFails, TypeOK
  <1> QED
    BY StepCases, <1>1, <1>2, <1>3, <1>4, <1>5, <1>6, <1>7, <1>8, <1>9, <1>10, <1>11
       DEF Debounce, TakeNothing, DebounceExpire, Start, Retry, Ansible, SaveOk, SaveError,
           Finish, Cut, Clear

LEMMA ResultsStep ==
    ASSUME RInv, RInv', MarkedWhileHeld, MarkedWhileHeld', ResultsTrue, Next
    PROVE  ResultsTrue'
  <1> USE DEF RInv, hosts, queue, plan, prep
  <1>1. ASSUME UNCHANGED <<hosts, result, secret, held>>, unguarded \subseteq unguarded',
               \A e \in Runs : held[e] # {} => source'[e] = source[e]
        PROVE  ResultsTrue'
    BY <1>1 DEF ResultsTrue
  <1>2. ASSUME NEW e \in Runs, NEW x \in Assets, Prepare(e, x) PROVE ResultsTrue'
    <2>1. \A a \in Accounts : result[e][a] = "none"
      BY <1>2 DEF Prepare, RunsInOrder
    <2>2. \A d \in Runs \ {e} : secret'[d] = secret[d]
      BY <1>2 DEF Prepare, TypeOK
    <2>3. \A a \in held[e] : a \notin admit'[e] => secret'[e][a] = secret[e][a]
      BY <1>2 DEF Prepare, RunsInOrder, TypeOK
    <2>4. ASSUME NEW a \in held[e] \cap admit'[e], source[e] = None, row[a] # None
          PROVE  secret'[e][a] = row[a]
      BY <1>2, <2>4 DEF Prepare, NewSecret, PushSecret, TypeOK
    <2>5. unguarded \subseteq unguarded'
      BY <1>2 DEF Prepare, Forget
    <2>6. ASSUME NEW a \in held[e], a \notin unguarded \cup adrift, source[e] = None
          PROVE  row[a] # None
      <3>1. a \in Accounts /\ secret[e][a] \in Secrets
        BY <2>6 DEF TypeOK
      <3>2. None \notin Secrets
        <4>1. \A d \in Runs : Stray(d) # None
          BY Zenon DEF Stray
        <4> QED
          BY <4>1, Zenon DEF Secrets
      <3> QED
        BY <2>6, <3>1, <3>2 DEF ResultsTrue
    <2>7. ASSUME NEW a \in held[e], a \notin unguarded \cup adrift, source[e] = None
          PROVE  secret'[e][a] = row[a]
      BY <2>3, <2>4, <2>6, <2>7 DEF ResultsTrue, TypeOK
    <2>8. UNCHANGED <<hosts, source, held, result>>
      BY <1>2 DEF Prepare
    <2> QED
      BY <2>1, <2>2, <2>5, <2>7, <2>8 DEF ResultsTrue, RunsInOrder
  <1>3. ASSUME NEW e \in Runs, Mark(e) PROVE ResultsTrue'
    <2>1. \A a \in Accounts : result[e][a] = "none"
      BY <1>3 DEF Mark, RunsInOrder, Preparing, TypeOK
    <2>2. /\ \A d \in Runs \ {e} : held'[d] = held[d]
          /\ held'[e] = held[e] \cup {busy[e]} /\ busy[e] \in Accounts
          /\ adrift \subseteq adrift'
          /\ source[e] = None /\ busy[e] \notin adrift' => secret[e][busy[e]] = row[busy[e]]
      BY <1>3 DEF Mark, TypeOK
    <2> QED
      BY <1>3, <2>1, <2>2 DEF Mark, ResultsTrue
  <1>4. ASSUME NEW e \in Runs, NEW a \in Accounts, Ansible(e, a) PROVE ResultsTrue'
    <2>1. PICK res \in {"ok", "error"} :
            /\ result' = [result EXCEPT ![e][a] = res]
            /\ host' = [host EXCEPT ![a] = secret[e][a]] \/ (res = "error" /\ host' = host)
      BY <1>4 DEF Ansible
    <2>2. /\ a \in held[e] /\ result'[e][a] = res
          /\ \A d \in Runs, b \in Accounts : d # e \/ b # a => result'[d][b] = result[d][b]
      BY <1>4, <2>1 DEF Ansible, TypeOK
    <2>3. UNCHANGED <<row, outcome, lost, held, secret, source, unguarded, adrift>>
      BY <1>4 DEF Ansible
    <2>4. CASE host' = [host EXCEPT ![a] = secret[e][a]]
      <3>1. host'[a] = secret[e][a] /\ \A b \in Accounts \ {a} : host'[b] = host[b]
        BY <2>4 DEF TypeOK
      <3> QED
        BY <2>2, <2>3, <3>1 DEF ResultsTrue, MarkedWhileHeld
    <2>5. CASE res = "error" /\ host' = host
      BY <2>2, <2>3, <2>5 DEF ResultsTrue
    <2> QED
      BY <2>1, <2>4, <2>5
  <1>5. ASSUME NEW e \in Runs, NEW a \in Accounts, SaveOk(e, a) \/ SaveError(e, a)
        PROVE  ResultsTrue'
    <2>1. /\ UNCHANGED <<host, secret, source, result>> /\ unguarded \subseteq unguarded'
          /\ a \in held[e] /\ held' = [held EXCEPT ![e] = @ \ {a}]
      BY <1>5 DEF SaveOk, SaveError, Saving, Release
    <2>2. /\ \A b \in Accounts \ {a} : /\ row'[b] = row[b] /\ outcome'[b] = outcome[b]
                                       /\ lost'[b] = lost[b]
                                       /\ b \in adrift' <=> b \in adrift
      BY <1>5 DEF SaveOk, SaveError, SaveRow, TypeOK
    <2>3. \/ /\ row'[a] = secret[e][a] /\ result[e][a] = "ok"
          \/ /\ source[e] = None /\ result[e][a] = "ok"
             /\ row' = row /\ adrift' = adrift
          \/ lost'[a] # {}
          \/ outcome'[a] = "failed"
      <3>1. CASE SaveError(e, a)
        BY <3>1 DEF SaveError, TypeOK
      <3>2. CASE SaveOk(e, a)
        <4>1. result[e][a] = "ok"
          BY <3>2 DEF SaveOk, Saving
        <4>2. SaveRow(e, a) \/ lost' = [lost EXCEPT ![a] = @ \cup {secret[e][a]}]
          BY <3>2 DEF SaveOk
        <4>3. /\ lost \in [Accounts -> SUBSET Secrets]
              /\ row \in [Accounts -> Secrets \cup {None}] /\ secret[e][a] \in Secrets
          BY DEF TypeOK
        <4> QED
          BY <4>1, <4>2, <4>3 DEF SaveRow
      <3> QED
        BY <1>5, <3>1, <3>2
    <2>4. \A d \in Runs, b \in Accounts : /\ b \in held'[d] => b \in held[d]
                                          /\ b # a => (b \in held[d] => b \in held'[d])
      BY <2>1 DEF TypeOK
    <2>5. a \notin unguarded' => \A d \in Runs : a \notin held'[d]
      BY <2>1 DEF MarkedWhileHeld, TypeOK
    <2>6. ASSUME a \notin unguarded' \cup adrift', outcome'[a] = "success", lost'[a] = {}
          PROVE  host'[a] = row'[a]
      BY <2>1, <2>3, <2>6 DEF ResultsTrue
    <2> QED
      BY <2>1, <2>2, <2>4, <2>5, <2>6 DEF ResultsTrue
  <1>6. ASSUME NEW e \in Runs, Over(e), UNCHANGED <<host, row, unguarded, adrift>>,
               \A a \in Accounts : /\ outcome'[a] \in {outcome[a], "failed"}
                                   /\ lost[a] \subseteq lost'[a]
                                   /\ a \in held[e] /\ host[a] = secret[e][a] => lost'[a] # {}
        PROVE  ResultsTrue'
    <2>1. \A d \in Runs \ {e} : /\ held'[d] = held[d] /\ result'[d] = result[d]
                                /\ secret'[d] = secret[d] /\ source'[d] = source[d]
      BY <1>6 DEF Over, TypeOK
    <2>2. held'[e] = {}
      BY <1>6 DEF Over, TypeOK
    <2> QED
      BY <1>6, <2>1, <2>2 DEF ResultsTrue
  <1>7. ASSUME NEW e \in Runs, Finish(e) PROVE ResultsTrue'
    BY <1>6, <1>7 DEF Finish
  <1>8. ASSUME NEW e \in Runs, Cut(e) PROVE ResultsTrue'
    <2>1. \A a \in Accounts : outcome'[a] \in {outcome[a], "failed"}
      BY <1>8 DEF Cut, TypeOK
    <2>2. \A a \in Accounts : /\ lost[a] \subseteq lost'[a]
                              /\ a \in held[e] /\ host[a] = secret[e][a] => lost'[a] # {}
      BY <1>8 DEF Cut, TypeOK
    <2> QED
      BY <1>6, <1>8, <2>1, <2>2 DEF Cut
  <1>9. ASSUME NEW gone, Forget(gone) PROVE unguarded \subseteq unguarded'
    BY <1>9 DEF Forget
  <1>10. ASSUME NEW e \in Runs, NEW src \in Runs \cup {None}, NEW B, Launch(e, src, B)
         PROVE  \A d \in Runs : held[d] # {} => source'[d] = source[d]
    BY <1>10 DEF Launch, RunsInOrder, TypeOK
  <1>11. ASSUME NEW e \in Runs, NEW a \in Accounts, Check(e, a)
         PROVE  unguarded \subseteq unguarded'
    BY <1>11 DEF Check
  <1> QED
    BY StepCases, <1>1, <1>2, <1>3, <1>4, <1>5, <1>7, <1>8, <1>9, <1>10, <1>11
       DEF Enqueue, Debounce, TakeNothing, TakeQueued, DebounceExpire, Start, Retry, Check,
           MarkFails, Expire, Clear

MInv == MarkedWhileHeld /\ ResultsTrue

LEMMA MarksHold ==
    ASSUME Guarded PROVE Spec => []MInv
  <1>1. Init => MInv
    BY DEF Init, MInv, MarkedWhileHeld, ResultsTrue
  <1>2. RInv /\ RInv' /\ MInv /\ [Next]_vars => MInv'
    <2>1. ASSUME MInv, UNCHANGED vars PROVE MInv'
      BY <2>1 DEF MInv, vars, hosts, plan, prep, MarkedWhileHeld, ResultsTrue
    <2>2. ASSUME RInv, RInv', MInv, Next PROVE MInv'
      BY <2>2, MarksStep, ResultsStep DEF MInv
    <2> QED
      BY <2>1, <2>2
  <1> QED
    BY <1>1, <1>2, RunsAreInOrder, PTL DEF Spec

\* With the status keys, an account comes into two runs only after its status was
\* deleted under the first one, or because both had checked it before either
\* marked it (host_callback, get_status and set_status).
THEOREM OneRun ==
    ASSUME Guarded PROVE Spec => []OneRunUnlessUnguarded
  <1>1. MInv => OneRunUnlessUnguarded
    BY DEF MInv, MarkedWhileHeld, OneRunUnlessUnguarded, Held
  <1> QED
    BY <1>1, MarksHold, PTL

\* And then a change or push that is noted as a success has left the host and the
\* row with the same secret, unless a push set a secret that the row did not hold
\* when it took the account (on_host_success, PushAccountManager.get_secret).
THEOREM InSync ==
    ASSUME Guarded PROVE Spec => []SuccessMeansInSync
  <1>1. RInv /\ MInv => SuccessMeansInSync
    BY DEF RInv, RunsInOrder, MInv, ResultsTrue, SuccessMeansInSync, Held, Live
  <1> QED
    BY <1>1, MarksHold, RunsAreInOrder, PTL
=============================================================================
