---------------------------- MODULE TicketOutcome ----------------------------
(***************************************************************************)
(* What a ticket promises its applicant and its assignees: it is approved  *)
(* level by level, in order; one rejection, or a closing, ends it; what it *)
(* asks for is granted by the last approval, or lost then and there; and   *)
(* an ended ticket stays as it is.  Ticket implements this.                *)
(***************************************************************************)
EXTENDS Naturals

CONSTANT Last    \* the number of approval levels

VARIABLES
    outcome,     \* pending, approved, rejected, closed
    approvals,   \* number of levels that approved
    granted      \* whether what the ticket asks for was given: no, yes, lost

vars == <<outcome, approvals, granted>>

TypeOK ==
    /\ outcome \in {"pending", "approved", "rejected", "closed"}
    /\ approvals \in 0..Last
    /\ granted \in {"no", "yes", "lost"}

Init == outcome = "pending" /\ approvals = 0 /\ granted = "no"

Approve ==
    /\ outcome = "pending"
    /\ approvals' = approvals + 1
    /\ IF approvals' = Last
       THEN outcome' = "approved" /\ granted' \in {"yes", "lost"}
       ELSE UNCHANGED <<outcome, granted>>

EndEarly(how) ==
    /\ outcome = "pending"
    /\ outcome' = how
    /\ UNCHANGED <<approvals, granted>>

Next == Approve \/ EndEarly("rejected") \/ EndEarly("closed")

Spec == Init /\ [][Next]_vars
=============================================================================
