---------------------------- MODULE Ticket_proofs ----------------------------
(***************************************************************************)
(* Proofs about Ticket, for any flow, any users and any number of levels   *)
(* and request slots.  Requests overlap as they like.  What a ticket       *)
(* promises is proved up to the first write of a request whose ticket had  *)
(* changed since it read it (overtaken).                                   *)
(***************************************************************************)
EXTENDS Ticket, FiniteSetTheorems, TLAPS

USE TicketAssumption DEF Levels

\* Every step keeps the types, whether requests overlap or not.
THEOREM TypeCorrect == Spec => []TypeOK
  <1>1. Init => TypeOK
    <2>1. NewTicket \in TicketRow
      BY DEF NewTicket, TicketRow, States
    <2>2. Idle \in Request
      BY <2>1 DEF Idle, Request, Ops, LinkOps
    <2>3. [state |-> "pending", status |-> "pending"] \in StepRow
      BY DEF StepRow, States
    <2>4. [l \in Levels |-> [u \in Users |-> "pending"]]
            \in [Levels -> [Users -> States]]
      <3>1. [u \in Users |-> "pending"] \in [Users -> States]
        BY DEF States
      <3> QED
        BY <3>1, Zenon
    <2> QED
      BY <2>1, <2>2, <2>3, <2>4 DEF Init, TypeOK
  <1>2. TypeOK /\ [Next]_vars => TypeOK'
    <2> SUFFICES ASSUME TypeOK, [Next]_vars PROVE TypeOK'
      OBVIOUS
    <2> USE DEF TypeOK
    <2>0. Idle \in Request
      BY DEF Idle, NewTicket, Request, Ops, TicketRow, States
    <2>1. ASSUME NEW r \in Requests, NEW op \in Ops, NEW u \in Users,
                 Begin(r, op, u)
          PROVE  TypeOK'
      BY <2>1 DEF Begin, Request
    <2>2. ASSUME NEW r \in Requests, Finish(r) PROVE TypeOK'
      <3> DEFINE op == req[r].op
                 l == req[r].seen.step
                 new == StateOf(op)
      <3>1. /\ l \in Levels /\ new \in States /\ req[r].seen \in TicketRow
            /\ req[r].user \in Users
        BY DEF Request, TicketRow, StateOf, States, Ops, LinkOps
      <3>2. votes' \in [Levels -> [Users -> States]]
        BY <2>2, <3>1 DEF Finish
      <3>3. ASSUME NEW x \in Levels, NEW c \in {"active"}
            PROVE  [steps[x] EXCEPT !.status = c] \in StepRow
        BY DEF StepRow
      <3>4. steps' \in [Levels -> StepRow]
        <4>1. [state |-> new, status |-> "closed"] \in StepRow
          BY <3>1 DEF StepRow
        <4> QED
          BY <2>2, <3>1, <3>3, <4>1 DEF Finish
      <3>5. ticket' \in TicketRow
        <4>1. ASSUME NEW base \in TicketRow
              PROVE  [base EXCEPT !.state = new, !.status = "closed"] \in TicketRow
          BY <3>1 DEF TicketRow
        <4>2. ASSUME NEW base \in TicketRow, HasNext(l)
              PROVE  [base EXCEPT !.step = l + 1] \in TicketRow
          BY <4>2 DEF TicketRow, HasNext
        <4>3. (IF op = "approve_api" THEN req[r].seen ELSE ticket) \in TicketRow
          BY <3>1
        <4> QED
          BY <2>2, <4>1, <4>2, <4>3 DEF Finish
      <3> QED
        BY <2>0, <2>2, <3>2, <3>4, <3>5 DEF Finish
    <2>3. ASSUME NEW r \in Requests, Abort(r) PROVE TypeOK'
      BY <2>0, <2>3 DEF Abort
    <2>4. ASSUME NEW r \in Requests, LinkFails(r) PROVE TypeOK'
      <3> DEFINE l   == req[r].seen.step
                 new == StateOf(req[r].op)
      <3>1. l \in Levels /\ new \in States /\ req[r].user \in Users
        BY DEF Request, TicketRow, StateOf, States, Ops, LinkOps
      <3>2. /\ [state |-> new, status |-> "closed"] \in StepRow
            /\ [ticket EXCEPT !.state = new, !.status = "closed"] \in TicketRow
        BY <3>1 DEF StepRow, TicketRow
      <3> QED
        BY <2>0, <2>4, <3>1, <3>2 DEF LinkFails
    <2>5. CASE UNCHANGED vars
      BY <2>5 DEF vars
    <2> QED
      BY <2>1, <2>2, <2>3, <2>4, <2>5 DEF Next
  <1> QED
    BY <1>1, <1>2, PTL DEF Spec

-----------------------------------------------------------------------------
(* Overlapping requests *)

\* A request keeps the level it read, and the steps below it are closed.
ReadLevelsClosed ==
    \A r \in Requests : req[r].pc = "read" =>
       \A l \in Levels : l < req[r].seen.step => steps[l].status = "closed"

\* No step below the level of the ticket is open, however requests overlap: a
\* step is closed before the level moves on (_finish_or_next), and only a
\* pending step is made active (TicketStep.next, set_active).
THEOREM LevelsInOrder == Spec => []NoLevelJumped
  <1> DEFINE Inv == NoLevelJumped /\ ReadLevelsClosed
  <1>1. Init => Inv
    BY DEF Init, NoLevelJumped, ReadLevelsClosed, NewTicket, Idle
  <1>2. TypeOK /\ Inv /\ [Next]_vars => Inv'
    <2> SUFFICES ASSUME TypeOK, NoLevelJumped, ReadLevelsClosed, [Next]_vars
                 PROVE  NoLevelJumped' /\ ReadLevelsClosed'
      OBVIOUS
    <2> USE DEF TypeOK, NoLevelJumped, ReadLevelsClosed
    <2>1. ASSUME NEW r \in Requests, NEW op \in Ops, NEW u \in Users,
                 Begin(r, op, u)
          PROVE  NoLevelJumped' /\ ReadLevelsClosed'
      BY <2>1 DEF Begin
    <2>2. ASSUME NEW r \in Requests, Finish(r)
          PROVE  NoLevelJumped' /\ ReadLevelsClosed'
      <3> DEFINE l == req[r].seen.step
      <3>1. l \in Levels
        BY DEF Request, TicketRow
      <3>2. steps'[l].status = "closed"
        BY <2>2, <3>1 DEF Finish
      <3>3. ASSUME NEW x \in Levels, steps[x].status = "closed"
            PROVE  steps'[x].status = "closed"
        BY <2>2, <3>1, <3>3 DEF Finish, HasNext
      <3>4. ticket'.step \in {ticket.step, l, l + 1}
        BY <2>2, <3>1 DEF Finish, TicketRow, Request
      <3>5. NoLevelJumped'
        <4> SUFFICES ASSUME NEW x \in Levels, x < ticket'.step
                     PROVE  steps'[x].status = "closed"
          OBVIOUS
        <4>1. req[r].pc = "read" /\ l \in Int /\ ticket.step \in Int
          BY <2>2, <3>1 DEF Finish, TicketRow
        <4>2. x < ticket.step \/ x < l \/ x = l
          BY <3>4, <4>1
        <4> QED
          BY <3>2, <3>3, <4>1, <4>2
      <3>6. ReadLevelsClosed'
        BY <2>2, <3>3 DEF Finish, Idle
      <3> QED
        BY <3>5, <3>6
    <2>3. ASSUME NEW r \in Requests, Abort(r)
          PROVE  NoLevelJumped' /\ ReadLevelsClosed'
      BY <2>3 DEF Abort, Idle
    <2>4. ASSUME NEW r \in Requests, LinkFails(r)
          PROVE  NoLevelJumped' /\ ReadLevelsClosed'
      <3>1. ticket'.step = ticket.step
        BY <2>4 DEF LinkFails, TicketRow
      <3>2. \A x \in Levels : steps[x].status = "closed"
                               => steps'[x].status = "closed"
        BY <2>4 DEF LinkFails
      <3> QED
        BY <2>4, <3>1, <3>2 DEF LinkFails, Idle
    <2>5. CASE UNCHANGED vars
      BY <2>5 DEF vars
    <2> QED
      BY <2>1, <2>2, <2>3, <2>4, <2>5 DEF Next
  <1>3. Inv => NoLevelJumped
    OBVIOUS
  <1> QED
    BY <1>1, <1>2, <1>3, TypeCorrect, PTL DEF Spec

-----------------------------------------------------------------------------
(* Up to a request that was overtaken *)

\* What a request read was open, and its user an assignee of the level it read.
ReadChecked ==
    \A r \in Requests : req[r].pc = "read" =>
       /\ req[r].seen.status = "open"
       /\ req[r].op # "close" => req[r].user \in Assignees[req[r].seen.step]

\* How far the review is: approved below the current level, untouched above
\* it, and at the current level what the ticket says, or approved behind a link
\* whose handler failed.
Progress ==
    /\ \A l \in Levels : l < ticket.step => Approved(l)
    /\ \A l \in Levels : l > ticket.step =>
                          steps[l].state = "pending" /\ steps[l].status = "pending"
    /\ ticket.state = "approved" =>
          ticket.step = Last /\ Approved(ticket.step)
    /\ ticket.status = "open" <=> ticket.state = "pending"
    /\ granted # "no" <=> ticket.state = "approved"

ReviewInv == TypeOK /\ ReadChecked /\ (~overtaken => Progress)

\* The ticket is still what the request read, and the review is in order.
Fresh(r) == TypeOK /\ ReadChecked /\ Progress /\ req[r].seen = ticket

\* What a request does to the ticket it read: one level further, or the end.
FreshEffect(r) ==
    LET l == ticket.step  new == StateOf(req[r].op) IN
    /\ ticket.status = "open" /\ ticket.state = "pending" /\ granted = "no"
    /\ l \in Levels /\ new \in {"approved", "rejected", "closed"}
    /\ steps'[l].state = new
    /\ \A x \in Levels \ {l} : /\ steps'[x].state = steps[x].state
                               /\ votes'[x] = votes[x]
    /\ \A x \in Levels : x > l + 1 => steps'[x] = steps[x]
    /\ \A x \in Levels : x = l /\ new = "approved" => Approved(x)'
    /\ new = "approved" /\ l # Last =>
          /\ ticket' = [ticket EXCEPT !.step = l + 1]
          /\ l + 1 \in Levels /\ granted' = granted
    /\ ~(new = "approved" /\ l # Last) =>
          /\ ticket' = [ticket EXCEPT !.state = new, !.status = "closed"]
          /\ steps' = [steps EXCEPT ![l] = steps'[l]]
          /\ granted' \in IF new = "approved" THEN {"yes", "lost"} ELSE {granted}

\* What a failure behind the link leaves of an approval that is not the last.
Paused(r) ==
    /\ UNCHANGED <<ticket, granted>>
    /\ ticket.state = "pending" /\ ticket.step \in Levels
    /\ steps' = [steps EXCEPT ![ticket.step] = [state |-> "approved", status |-> "closed"]]
    /\ \A x \in Levels \ {ticket.step} : votes'[x] = votes[x]

LEMMA FinishFresh ==
    ASSUME NEW r \in Requests, Fresh(r), Finish(r)
    PROVE  FreshEffect(r)
  <1> DEFINE l   == ticket.step
             new == StateOf(req[r].op)
  <1> USE DEF Fresh, TypeOK
  <1>1. /\ req[r].seen = ticket /\ ticket.status = "open"
        /\ req[r].op # "close" => req[r].user \in Assignees[l]
        /\ req[r].op \in Ops /\ req[r].user \in Users
    BY DEF Finish, ReadChecked, Request
  <1>2. ticket.state = "pending" /\ granted = "no"
    BY <1>1 DEF Progress
  <1>3. l \in Levels /\ new \in {"approved", "rejected", "closed"}
    BY <1>1 DEF TicketRow, StateOf, Ops, LinkOps
  <1>4. HasNext(l) <=> l # Last
    BY <1>3 DEF HasNext, Progress
  <1>5. steps'[l].state = new
    BY <1>1, <1>3 DEF Finish
  <1>6. \A x \in Levels \ {l} : steps'[x].state = steps[x].state
                              /\ votes'[x] = votes[x]
    BY <1>1, <1>3 DEF Finish, StepRow
  <1>7. \A x \in Levels : x > l + 1 => steps'[x] = steps[x]
    BY <1>1, <1>3 DEF Finish
  <1>8. \A x \in Levels : x = l /\ new = "approved" => Approved(x)'
    <2> SUFFICES ASSUME NEW x \in Levels, x = l, new = "approved"
                 PROVE  Approved(x)'
      OBVIOUS
    <2>1. req[r].op # "close"
      BY DEF StateOf
    <2>2. votes'[x][req[r].user] = "approved" /\ req[r].user \in Assignees[x]
      BY <1>1, <1>3, <2>1 DEF Finish
    <2> QED
      BY <1>5, <2>2 DEF Approved
  <1>9. ASSUME new = "approved", l # Last
        PROVE  /\ ticket' = [ticket EXCEPT !.step = l + 1]
               /\ l + 1 \in Levels /\ granted' = granted
    BY <1>1, <1>3, <1>4, <1>9 DEF Finish, HasNext, Grants
  <1>10. ASSUME ~(new = "approved" /\ l # Last)
         PROVE  /\ ticket' = [ticket EXCEPT !.state = new, !.status = "closed"]
                /\ steps' = [steps EXCEPT ![l] = steps'[l]]
                /\ granted' = IF new = "approved" THEN "yes" ELSE granted
    <2>1. ticket' = [ticket EXCEPT !.state = new, !.status = "closed"]
      BY <1>1, <1>3, <1>4, <1>10 DEF Finish
    <2>2. granted' = IF new = "approved" THEN "yes" ELSE granted
      BY <1>1, <1>2, <1>3, <1>4, <1>10 DEF Finish, Grants
    <2>3. \A x \in Levels : steps'[x] = [steps EXCEPT ![l] = steps'[l]][x]
      BY <1>1, <1>3, <1>4, <1>10 DEF Finish
    <2>4. steps' = [x \in Levels |-> steps'[x]]
      BY <1>1 DEF Finish
    <2> QED
      BY <1>3, <2>1, <2>2, <2>3, <2>4
  <1> QED
    BY <1>1, <1>2, <1>3, <1>5, <1>6, <1>7, <1>8, <1>9, <1>10 DEF FreshEffect

LEMMA LinkFresh ==
    ASSUME NEW r \in Requests, Fresh(r), LinkFails(r)
    PROVE  FreshEffect(r) \/ Paused(r)
  <1> DEFINE l   == ticket.step
             new == StateOf(req[r].op)
  <1> USE DEF Fresh, TypeOK
  <1>1. /\ req[r].seen = ticket /\ ticket.status = "open"
        /\ req[r].user \in Assignees[l] /\ req[r].user \in Users
        /\ req[r].op \in LinkOps
    BY DEF LinkFails, ReadChecked, Request, LinkOps
  <1>2. ticket.state = "pending" /\ granted = "no"
    BY <1>1 DEF Progress
  <1>3. l \in Levels /\ new \in {"approved", "rejected"}
    BY <1>1 DEF TicketRow, StateOf, LinkOps
  <1>4. HasNext(l) <=> l # Last
    BY <1>3 DEF HasNext, Progress
  <1>5. /\ steps' = [steps EXCEPT ![l] = [state |-> new, status |-> "closed"]]
        /\ votes' = [votes EXCEPT ![l][req[r].user] = new]
    BY <1>1 DEF LinkFails
  <1>6. /\ steps'[l] = [state |-> new, status |-> "closed"]
        /\ \A x \in Levels \ {l} : steps'[x] = steps[x] /\ votes'[x] = votes[x]
        /\ votes'[l][req[r].user] = new
    BY <1>1, <1>3, <1>5
  <1>7. CASE new = "approved" /\ l # Last
    BY <1>1, <1>2, <1>3, <1>4, <1>5, <1>6, <1>7 DEF LinkFails, Paused, Grants
  <1>8. CASE ~(new = "approved" /\ l # Last)
    <2>1. ticket' = [ticket EXCEPT !.state = new, !.status = "closed"]
      BY <1>1, <1>3, <1>4, <1>8 DEF LinkFails
    <2>2. granted' = IF new = "approved" THEN "lost" ELSE granted
      BY <1>1, <1>2, <1>3, <1>4, <1>8 DEF LinkFails, Grants
    <2>3. \A x \in Levels : x = l /\ new = "approved" => Approved(x)'
      BY <1>1, <1>6 DEF Approved
    <2>4. steps' = [steps EXCEPT ![l] = steps'[l]] /\ steps'[l].state = new
      <3>1. steps'[l].state = new
        BY <1>6
      <3>2. steps' = [steps EXCEPT ![l] = steps'[l]]
        BY <1>5, <1>6, Zenon
      <3> QED
        BY <3>1, <3>2
    <2>5. \A x \in Levels : x > l + 1 => steps'[x] = steps[x]
      BY <1>3, <1>6
    <2>6. \A x \in Levels \ {l} : steps'[x].state = steps[x].state
                                  /\ votes'[x] = votes[x]
      BY <1>6
    <2>7. FreshEffect(r)
      BY <1>1, <1>2, <1>3, <1>8, <2>1, <2>2, <2>3, <2>4, <2>5, <2>6
         DEF FreshEffect
    <2> QED
      BY <2>7
  <1> QED
    BY <1>7, <1>8

\* One level further, or the end: how far the review is stays known.
LEMMA EffectProgress ==
    ASSUME TypeOK, Progress, NEW r \in Requests, FreshEffect(r)
    PROVE  Progress'
  <1> DEFINE l   == ticket.step
             new == StateOf(req[r].op)
  <1>0. TypeOK /\ Progress
    OBVIOUS
  <1>1. CASE new = "approved" /\ l # Last
    <2>1. /\ ticket'.step = l + 1 /\ ticket'.state = "pending"
          /\ ticket'.status = "open" /\ granted' = "no" /\ l + 1 \in Levels
          /\ l \in Int
      BY <1>0, <1>1 DEF FreshEffect, TypeOK, TicketRow
    <2>2. \A x \in Levels : x < l + 1 => Approved(x)'
      BY <1>0, <1>1, <2>1 DEF FreshEffect, Progress, Approved
    <2>3. \A x \in Levels : x > l + 1 => /\ steps'[x].state = "pending"
                                         /\ steps'[x].status = "pending"
      BY <1>0, <2>1 DEF FreshEffect, Progress
    <2> QED
      BY <2>1, <2>2, <2>3 DEF Progress
  <1>2. CASE ~(new = "approved" /\ l # Last)
    <2>1. /\ ticket'.step = l /\ ticket'.state = new
          /\ ticket'.status = "closed"
          /\ granted' # "no" <=> new = "approved"
          /\ l \in Int /\ l \in Levels
          /\ new \in {"approved", "rejected", "closed"}
      <3>1. /\ ticket' = [ticket EXCEPT !.state = new, !.status = "closed"]
            /\ granted' # "no" <=> new = "approved"
            /\ l \in Levels
            /\ new \in {"approved", "rejected", "closed"}
        BY <1>2, Zenon DEF FreshEffect
      <3>2. /\ ticket'.step = l /\ ticket'.state = new
            /\ ticket'.status = "closed" /\ l \in Int
        BY <3>1 DEF TypeOK, TicketRow
      <3> QED
        BY <3>1, <3>2
    <2>2. \A x \in Levels : x < l => Approved(x)'
      BY <1>0, <2>1 DEF FreshEffect, Progress, Approved
    <2>3. \A x \in Levels : x > l => /\ steps'[x].state = "pending"
                                     /\ steps'[x].status = "pending"
      BY <1>0, <1>2, <2>1 DEF FreshEffect, Progress, TypeOK
    <2>4. new = "approved" => l = Last /\ Approved(Last)'
      BY <1>0, <1>2, <2>1 DEF FreshEffect
    <2> QED
      BY <2>1, <2>2, <2>3, <2>4 DEF Progress
  <1> QED
    BY <1>1, <1>2

\* A request that writes and leaves overtaken as it was read the ticket as it
\* still is.
LEMMA NotOvertaken ==
    ASSUME ReviewInv, NEW r \in Requests, Finish(r) \/ LinkFails(r), ~overtaken'
    PROVE  Fresh(r)
  <1>1. ~overtaken /\ ~Overtaken(r) /\ req[r].pc = "read"
    BY DEF ReviewInv, TypeOK, Finish, LinkFails
  <1> QED
    BY <1>1 DEF ReviewInv, Fresh, Overtaken

\* What a failure behind the link leaves is in order too.
LEMMA PausedProgress ==
    ASSUME TypeOK, Progress, NEW r \in Requests, Paused(r)
    PROVE  Progress'
  <1>1. \A x \in Levels : x # ticket.step => /\ steps'[x] = steps[x]
                                            /\ votes'[x] = votes[x]
    BY DEF Paused, TypeOK
  <1>2. ticket.step \in Int
    BY DEF TypeOK, TicketRow
  <1>3. \A x \in Levels : x < ticket.step => Approved(x)'
    BY <1>1, <1>2 DEF Progress, Approved
  <1> QED
    BY <1>1, <1>2, <1>3 DEF Paused, Progress

LEMMA ReviewStep ==
    ASSUME ReviewInv, [Next]_vars, TypeOK'
    PROVE  ReviewInv'
  <1>0. TypeOK /\ ReadChecked /\ (~overtaken => Progress)
    BY DEF ReviewInv
  <1>1. ASSUME NEW r \in Requests, NEW op \in Ops, NEW u \in Users,
               Begin(r, op, u)
        PROVE  ReadChecked' /\ (~overtaken' => Progress')
    <2>1. /\ ticket.status = "open"
          /\ UNCHANGED <<ticket, steps, votes, granted, overtaken>>
          /\ op # "close" => u \in Assignees[ticket.step]
      BY <1>1 DEF Begin, has_current_assignee
    <2>2. \A q \in Requests : q # r => req'[q] = req[q]
      BY <1>0, <1>1 DEF Begin, TypeOK
    <2>3. /\ req'[r].seen = ticket /\ req'[r].op = op /\ req'[r].user = u
      BY <1>0, <1>1 DEF Begin, TypeOK
    <2>4. ReadChecked'
      BY <1>0, <2>1, <2>2, <2>3 DEF ReadChecked
    <2>5. ~overtaken' => Progress'
      BY <1>0, <2>1, Zenon DEF Progress, Approved
    <2> QED
      BY <2>4, <2>5
  <1>2. ASSUME NEW r \in Requests, Finish(r)
        PROVE  ReadChecked' /\ (~overtaken' => Progress')
    <2>1. ReadChecked'
      BY <1>0, <1>2 DEF Finish, Idle, ReadChecked, TypeOK
    <2>2. ASSUME ~overtaken' PROVE Progress'
      <3>1. Fresh(r)
        BY <1>2, <2>2, NotOvertaken
      <3>2. FreshEffect(r) /\ TypeOK /\ Progress
        BY <1>2, <3>1, FinishFresh DEF Fresh
      <3> QED
        BY <3>2, EffectProgress
    <2> QED
      BY <2>1, <2>2
  <1>3. ASSUME NEW r \in Requests, Abort(r)
        PROVE  ReadChecked' /\ (~overtaken' => Progress')
    <2>1. ReadChecked'
      BY <1>0, <1>3 DEF Abort, Idle, ReadChecked, TypeOK
    <2>2. UNCHANGED <<ticket, steps, votes, granted, overtaken>>
      BY <1>3 DEF Abort
    <2> QED
      BY <1>0, <2>1, <2>2, Zenon DEF Progress, Approved
  <1>4. ASSUME NEW r \in Requests, LinkFails(r)
        PROVE  ReadChecked' /\ (~overtaken' => Progress')
    <2>1. ReadChecked'
      BY <1>0, <1>4 DEF LinkFails, Idle, ReadChecked, TypeOK
    <2>2. ASSUME ~overtaken' PROVE Progress'
      <3>1. Fresh(r)
        BY <1>4, <2>2, NotOvertaken
      <3>2. (FreshEffect(r) \/ Paused(r)) /\ TypeOK /\ Progress
        BY <1>4, <3>1, LinkFresh DEF Fresh
      <3> QED
        BY <3>2, EffectProgress, PausedProgress
    <2> QED
      BY <2>1, <2>2
  <1>5. ASSUME UNCHANGED vars
        PROVE  ReadChecked' /\ (~overtaken' => Progress')
    <2>1. UNCHANGED <<ticket, steps, votes, granted, req, overtaken>>
      BY <1>5 DEF vars
    <2>2. ReadChecked'
      BY <1>0, <2>1 DEF ReadChecked
    <2> QED
      BY <1>0, <2>1, <2>2, Zenon DEF Progress, Approved
  <1>6. ReadChecked' /\ (~overtaken' => Progress')
    BY <1>1, <1>2, <1>3, <1>4, <1>5, Zenon DEF Next
  <1> QED
    BY <1>6 DEF ReviewInv

\* However requests overlap, until one of them was overtaken the review goes up
\* level by level: below the current level all approved, above it nothing
\* happened yet.
THEOREM ReviewInductive == Spec => []ReviewInv
  <1>1. Init => ReadChecked /\ Progress
    BY DEF Init, ReadChecked, Progress, NewTicket, Idle
  <1>2. Init /\ TypeOK => ReviewInv
    BY <1>1 DEF ReviewInv
  <1>3. ReviewInv /\ [Next]_vars /\ TypeOK' => ReviewInv'
    BY ReviewStep
  <1> QED
    BY <1>2, <1>3, TypeCorrect, PTL DEF Spec

\* A ticket is approved only by all of its levels, each by an assignee of its
\* own (_finish_or_next), unless a request was overtaken.
THEOREM ApprovalUnlessOvertaken == Spec => []ApprovedUnlessOvertaken
  <1>1. ReviewInv => ApprovedUnlessOvertaken
    BY DEF ReviewInv, TypeOK, TicketRow, Progress, ApprovedByAllLevels,
           ApprovedUnlessOvertaken
  <1> QED
    BY <1>1, ReviewInductive, PTL

\* What was asked for is granted only by a ticket that is approved
\* (handlers, _on_step_approved), unless a request was overtaken.
THEOREM GrantUnlessOvertaken == Spec => [](~overtaken => GrantedIsApproved)
  <1>1. ReviewInv => (~overtaken => GrantedIsApproved)
    BY DEF ReviewInv, Progress, GrantedIsApproved
  <1> QED
    BY <1>1, ReviewInductive, PTL

\* A closed ticket is changed only by a request that read it while it was open
\* (AlreadyClosed).
THEOREM ClosedUnlessStale == Spec => ClosedIsFinal
  <1>1. ReviewInv /\ [Next]_vars
        => (ticket.status = "closed" =>
              \/ UNCHANGED <<ticket, steps, granted>>
              \/ \E r \in Requests : Overtaken(r) /\ req'[r] = Idle)
    <2> SUFFICES ASSUME ReviewInv, [Next]_vars, ticket.status = "closed"
                 PROVE  \/ UNCHANGED <<ticket, steps, granted>>
                        \/ \E r \in Requests : Overtaken(r) /\ req'[r] = Idle
      OBVIOUS
    <2>1. ASSUME NEW r \in Requests, Finish(r) \/ LinkFails(r)
          PROVE  Overtaken(r) /\ req'[r] = Idle
      BY <2>1 DEF ReviewInv, TypeOK, ReadChecked, Overtaken, Finish, LinkFails
    <2> QED
      BY <2>1 DEF Next, Begin, Abort, vars
  <1> QED
    BY <1>1, ReviewInductive, PTL DEF Spec, ClosedIsFinal

-----------------------------------------------------------------------------
(* The refinement *)

CountIsProgress ==
    Cardinality(Counted)
      = IF ticket.state = "approved" THEN Last ELSE ticket.step - 1

LEMMA CountApproved == TypeOK /\ Progress => CountIsProgress
  <1> SUFFICES ASSUME TypeOK, Progress PROVE CountIsProgress
    OBVIOUS
  <1>1. ticket.step \in Int /\ ticket.step \in Levels
    BY DEF TypeOK, TicketRow
  <1>2. Counted
          = 1..(IF ticket.state = "approved" THEN Last ELSE ticket.step - 1)
    BY <1>1 DEF Counted, Progress, Approved
  <1> QED
    BY <1>1, <1>2, FS_Interval DEF CountIsProgress

\* A ticket keeps the promise TicketOutcome states: every step of overlapping
\* requests is an abstract one, or a stutter, until a request is overtaken.
THEOREM RefinesUnlessOvertaken == Spec => KeepsPromise
  <1>1. Init => Outcome!Init
    <2> SUFFICES ASSUME Init PROVE Outcome!Init
      OBVIOUS
    <2>1. Counted = {}
      BY DEF Init, Counted
    <2>2. Cardinality(Counted) = 0
      BY <2>1, FS_EmptySet
    <2>3. ticket.state = "pending" /\ granted = "no"
      BY DEF Init, NewTicket
    <2> QED
      BY <2>2, <2>3 DEF Outcome!Init
  <1>2. ReviewInv /\ ReviewInv' /\ [Next]_vars
        => [Outcome!Next \/ overtaken']_(Outcome!vars)
    <2> SUFFICES ASSUME ReviewInv, ReviewInv', [Next]_vars, ~overtaken'
                 PROVE  [Outcome!Next]_(Outcome!vars)
      OBVIOUS
    <2>0. TypeOK /\ Progress /\ TypeOK' /\ Progress'
      <3>1. ~overtaken
        BY DEF ReviewInv, TypeOK, Next, Begin, Finish, LinkFails, Abort, vars
      <3> QED
        BY <3>1 DEF ReviewInv
    <2> DEFINE n == Cardinality(Counted)
    <2>1. /\ n = IF ticket.state = "approved" THEN Last ELSE ticket.step - 1
          /\ n' = IF ticket'.state = "approved" THEN Last ELSE ticket'.step - 1
      <3>1. CountIsProgress /\ CountIsProgress'
        BY <2>0, CountApproved, PTL
      <3> QED
        BY <3>1 DEF CountIsProgress
    <2>2. ASSUME NEW r \in Requests, FreshEffect(r)
          PROVE  Outcome!Next
      <3> DEFINE l   == ticket.step
                 new == StateOf(req[r].op)
      <3>0. FreshEffect(r) /\ TypeOK
        BY <2>0, <2>2
      <3>1. /\ ticket.state = "pending" /\ l \in Levels /\ l \in Int
            /\ new \in {"approved", "rejected", "closed"}
        BY <3>0 DEF FreshEffect
      <3>2. CASE new = "approved" /\ l # Last
        <4>1. /\ ticket'.step = l + 1 /\ ticket'.state = "pending"
              /\ granted' = granted
          BY <3>0, <3>1, <3>2 DEF FreshEffect, TypeOK, TicketRow
        <4> QED
          BY <2>1, <3>1, <3>2, <4>1 DEF Outcome!Next, Outcome!Approve
      <3>3. CASE ~(new = "approved" /\ l # Last)
        <4>1. /\ ticket'.step = l /\ ticket'.state = new
              /\ granted' \in IF new = "approved" THEN {"yes", "lost"}
                                                  ELSE {granted}
          BY <3>0, <3>1, <3>3 DEF FreshEffect, TypeOK, TicketRow
        <4>2. CASE new = "approved"
          <5>1. l = Last /\ granted' \in {"yes", "lost"}
            BY <3>3, <4>1, <4>2, Zenon
          <5>2. n = Last - 1 /\ n' = Last
            BY <2>1, <3>1, <4>1, <4>2, <5>1
          <5> QED
            BY <3>1, <4>1, <4>2, <5>1, <5>2 DEF Outcome!Next, Outcome!Approve
        <4>3. CASE new # "approved"
          <5>1. n' = n /\ granted' = granted
            BY <2>1, <3>0, <3>1, <4>1, <4>3 DEF TypeOK
          <5> QED
            BY <3>1, <4>1, <4>3, <5>1 DEF Outcome!Next, Outcome!EndEarly
        <4> QED
          BY <4>2, <4>3
      <3> QED
        BY <3>2, <3>3
    <2>3. ASSUME NEW r \in Requests, NEW op \in Ops, NEW u \in Users,
                 Begin(r, op, u)
          PROVE  UNCHANGED Outcome!vars
      BY <2>3 DEF Begin, Outcome!vars, Counted
    <2>4. ASSUME NEW r \in Requests, Abort(r)
          PROVE  UNCHANGED Outcome!vars
      BY <2>4 DEF Abort, Outcome!vars, Counted
    <2>5. CASE UNCHANGED vars
      BY <2>5 DEF vars, Outcome!vars, Counted
    <2>6. ASSUME NEW r \in Requests, Finish(r)
          PROVE  Outcome!Next
      BY <2>2, <2>6, NotOvertaken, FinishFresh
    <2>7. ASSUME NEW r \in Requests, LinkFails(r)
          PROVE  Outcome!Next \/ UNCHANGED Outcome!vars
      <3>1. ASSUME Paused(r) PROVE UNCHANGED Outcome!vars
        <4>1. n' = n
          BY <2>1, <3>1 DEF Paused
        <4> QED
          BY <3>1, <4>1 DEF Paused, Outcome!vars
      <3> QED
        BY <2>2, <2>7, <3>1, NotOvertaken, LinkFresh
    <2> QED
      BY <2>3, <2>4, <2>5, <2>6, <2>7 DEF Next
  <1> QED
    BY <1>1, <1>2, ReviewInductive, PTL DEF Spec, KeepsPromise
=============================================================================
