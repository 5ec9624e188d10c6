------------------------------- MODULE Ticket -------------------------------
(***************************************************************************)
(* A ticket under review: the Ticket row, its TicketStep rows, one per     *)
(* approval level, and its TicketAssignee rows (apps/tickets).  Assignees  *)
(* approve or reject through the API, in bulk or through the link in a     *)
(* mail; the applicant, an assignee or a component closes.                 *)
(*                                                                         *)
(* A request is one transaction at READ COMMITTED.  It reads the ticket    *)
(* without a lock (Begin) and processes what it read (Finish).  From its   *)
(* first write to its commit it holds the row of the current step, which   *)
(* every other request on that level has to write too: the rest is one     *)
(* atomic step, over the rows as they are by then.                         *)
(*                                                                         *)
(* What raises in an API request rolls it back.  The view behind the link  *)
(* catches every exception: its transaction commits what was written.      *)
(***************************************************************************)
EXTENDS Naturals, FiniteSets

CONSTANTS
    Users,
    Applicant,
    Last,        \* number of approval levels of the flow
    Rules,       \* per level, the users the rule of the flow names
    Requests     \* request slots: how many requests may overlap

Levels == 1..Last

ASSUME TicketAssumption ==
    /\ Applicant \in Users
    /\ Last \in Nat \ {0}
    /\ Rules \in [Levels -> SUBSET Users]

VARIABLES
    ticket,    \* the Ticket row: state, status, approval_step
    steps,     \* TicketStep rows
    votes,     \* TicketAssignee.state
    granted,   \* whether the handler did what the ticket asks for; "lost" when
               \* it failed behind the link
    req,       \* the requests under way, with the row each one read
    overtaken  \* history: a request wrote although the ticket had changed
               \* since it read it

vars == <<ticket, steps, votes, granted, req, overtaken>>

States    == {"pending", "closed", "approved", "rejected"}
TicketRow == [state: States, status: {"open", "closed"}, step: Levels]
StepRow   == [state: States, status: {"pending", "active", "closed"}]
LinkOps   == {"approve_link", "reject_link"}
Ops       == {"approve_api", "approve", "reject", "close"} \cup LinkOps
Request   == [pc: {"idle", "read"}, op: Ops, user: Users, seen: TicketRow]

NewTicket == [state |-> "pending", status |-> "open", step |-> 1]
Idle      == [pc |-> "idle", op |-> "close", user |-> Applicant,
              seen |-> NewTicket]

TypeOK ==
    /\ ticket \in TicketRow
    /\ steps \in [Levels -> StepRow]
    /\ votes \in [Levels -> [Users -> States]]
    /\ granted \in {"no", "yes", "lost"}
    /\ req \in [Requests -> Request]
    /\ overtaken \in BOOLEAN

\* StatusMixin.exclude_applicant: no one reviews their own ticket, unless the
\* rule names nobody else.
exclude_applicant(assignees) ==
    IF Cardinality(assignees) # 1 THEN assignees \ {Applicant} ELSE assignees

Assignees == [l \in Levels |-> exclude_applicant(Rules[l])]

\* The ticket has just been opened.
Init ==
    /\ ticket = NewTicket
    /\ steps = [l \in Levels |-> [state |-> "pending", status |-> "pending"]]
    /\ votes = [l \in Levels |-> [u \in Users |-> "pending"]]
    /\ granted = "no"
    /\ req = [r \in Requests |-> Idle]
    /\ overtaken = FALSE

\* The ticket changed between the request's read and its writes: no lock keeps
\* the row, and nothing reads it again.
Overtaken(r) == req[r].pc = "read" /\ req[r].seen # ticket

has_current_assignee(u) == u \in Assignees[ticket.step]

\* Mutant of Begin: AlreadyClosed is not raised.
BeginUnchecked(r, op, u) ==
    /\ req[r].pc = "idle"
    /\ op # "close" => has_current_assignee(u)
    /\ req' = [req EXCEPT ![r] = [pc |-> "read", op |-> op, user |-> u,
                                  seen |-> ticket]]
    /\ UNCHANGED <<ticket, steps, votes, granted, overtaken>>

\* A request reads the ticket, checks that it may act on it, and that the
\* ticket it read is not closed (AlreadyClosed otherwise).
Begin(r, op, u) ==
    /\ req[r].pc = "idle"
    /\ op # "close" => has_current_assignee(u)
    /\ ticket.status = "open"
    /\ req' = [req EXCEPT ![r] = [pc |-> "read", op |-> op, user |-> u,
                                  seen |-> ticket]]
    /\ UNCHANGED <<ticket, steps, votes, granted, overtaken>>

\* Mutant of StateOf: closing counts as approving.
StateOfLax(op) ==
    IF op \in {"reject", "reject_link"} THEN "rejected" ELSE "approved"

StateOf(op) == CASE op \in {"reject", "reject_link"} -> "rejected"
                 [] op = "close" -> "closed"
                 [] OTHER -> "approved"

\* Mutant of HasNext: there is always a next step.
HasNextAlways(l) == TRUE

\* TicketStep.next: the step of the next level, if it is pending.
HasNext(l) == l + 1 \in Levels /\ steps[l + 1].status = "pending"

\* Mutant of Grants: each level that approves grants.
GrantsEarly(op, l) == StateOf(op) = "approved"

\* Handler._on_step_approved: the approval that finds no next step creates the
\* permission, or activates the connection token.
Grants(op, l) == StateOf(op) = "approved" /\ ~HasNext(l)

\* Mutant of Finish: the level goes up without closing the step behind it.
FinishOpenStep(r) ==
    LET l   == req[r].seen.step
        new == StateOf(req[r].op)
        final == new # "approved" \/ ~HasNext(l)
    IN  /\ req[r].pc = "read"
        /\ steps' = [steps EXCEPT ![l].state = new]
        /\ ticket' = IF final
                     THEN [ticket EXCEPT !.state = new, !.status = "closed"]
                     ELSE [ticket EXCEPT !.step = l + 1]
        /\ req' = [req EXCEPT ![r] = Idle]
        /\ UNCHANGED <<votes, granted, overtaken>>

\* _change_state and _finish_or_next.  The approve API saves the whole ticket
\* as it was read (serializer.save) before it approves; the others write only
\* the fields they set.
Finish(r) ==
    LET op    == req[r].op
        l     == req[r].seen.step
        new   == StateOf(op)
        base  == IF op = "approve_api" THEN req[r].seen ELSE ticket
        final == new # "approved" \/ ~HasNext(l)
    IN  /\ req[r].pc = "read"
        /\ votes' = IF op = "close" THEN votes
                    ELSE [votes EXCEPT ![l][req[r].user] = new]
        /\ steps' = [x \in Levels |->
                       IF x = l THEN [state |-> new, status |-> "closed"]
                       ELSE IF x = l + 1 /\ ~final
                            THEN [steps[x] EXCEPT !.status = "active"]
                       ELSE steps[x]]
        /\ ticket' = IF final
                     THEN [base EXCEPT !.state = new, !.status = "closed"]
                     ELSE [base EXCEPT !.step = l + 1]
        /\ granted' = IF Grants(op, l) THEN "yes" ELSE granted
        /\ req' = [req EXCEPT ![r] = Idle]
        /\ overtaken' = (overtaken \/ Overtaken(r))

\* The handler of the ticket raises behind the link (a broker that is down, a
\* connection token that is gone), and what was written before is committed:
\* the end of the ticket, but not what it grants; an approved step, but not the
\* activation of the next one.
LinkFails(r) ==
    LET l     == req[r].seen.step
        new   == StateOf(req[r].op)
        final == new # "approved" \/ ~HasNext(l)
    IN  /\ req[r].pc = "read" /\ req[r].op \in LinkOps
        /\ votes' = [votes EXCEPT ![l][req[r].user] = new]
        /\ steps' = [steps EXCEPT ![l] = [state |-> new, status |-> "closed"]]
        /\ ticket' = IF final
                     THEN [ticket EXCEPT !.state = new, !.status = "closed"]
                     ELSE ticket
        /\ granted' = IF Grants(req[r].op, l) /\ granted = "no"
                      THEN "lost" ELSE granted
        /\ req' = [req EXCEPT ![r] = Idle]
        /\ overtaken' = (overtaken \/ Overtaken(r))

\* The request dies before its commit: its transaction is rolled back.
Abort(r) ==
    /\ req[r].pc = "read"
    /\ req' = [req EXCEPT ![r] = Idle]
    /\ UNCHANGED <<ticket, steps, votes, granted, overtaken>>

Next ==
    \E r \in Requests :
       \/ \E op \in Ops, u \in Users : Begin(r, op, u)
       \/ Finish(r)
       \/ LinkFails(r)
       \/ Abort(r)

Spec == Init /\ [][Next]_vars

-----------------------------------------------------------------------------
(* Safety *)

Approved(l) == /\ steps[l].state = "approved"
               /\ \E u \in Assignees[l] : votes[l][u] = "approved"

\* A ticket is approved only when every level of its flow approved, each by
\* one of its own assignees ("early end, or the last step", _finish_or_next).
ApprovedByAllLevels ==
    ticket.state = "approved" => \A l \in Levels : Approved(l)

\* Requests overlap freely, and a ticket is approved by all of its levels
\* unless one of them wrote what it made of a ticket that had changed since.
\* ApprovedByAllLevels alone does not hold (_finish_or_next, TicketStep.next).
ApprovedUnlessOvertaken == ~overtaken => ApprovedByAllLevels

\* The permission or the connection token of a ticket is granted by a ticket
\* that is, and stays, approved; and an approved ticket granted it, unless its
\* handler failed behind the link (Handler._on_step_approved).  KeepsPromise,
\* below, contains this up to an overtaken request.
GrantedIsApproved == granted # "no" <=> ticket.state = "approved"

\* A closed ticket is changed only by a request that read it while it was open
\* (AlreadyClosed looks at the ticket the request read).
ClosedIsFinal ==
    [][ticket.status = "closed" =>
          \/ UNCHANGED <<ticket, steps, granted>>
          \/ \E r \in Requests : Overtaken(r) /\ req'[r] = Idle]_vars

\* However requests overlap, the review never advances past a level whose
\* step is not closed, and a closed step is never opened again.
NoLevelJumped ==
    \A l \in Levels : l < ticket.step => steps[l].status = "closed"

\* The approvals that count: of the levels behind the ticket, and of all of
\* them in the end.  A level that approved behind the link does not count until
\* the ticket moves on: it can be reviewed again.
Counted ==
    {l \in Levels : /\ steps[l].state = "approved"
                    /\ l < ticket.step \/ ticket.state = "approved"}

Outcome == INSTANCE TicketOutcome WITH
    outcome   <- ticket.state,
    approvals <- Cardinality(Counted),
    granted   <- granted

\* The review goes up level after level, one outcome ends it for good, and the
\* last approval decides on the grant (TicketOutcome; _finish_or_next): every
\* step of overlapping requests is one of TicketOutcome, until one writes what
\* it made of a ticket that had changed since it was read.
KeepsPromise ==
    Outcome!Init /\ [][Outcome!Next \/ overtaken']_(Outcome!vars)

=============================================================================
