------------------------------ MODULE MCTicket ------------------------------
EXTENDS Ticket

CONSTANTS ann, bob, cid    \* ann applies

\* Two levels; bob reviews at both, ann is excluded from the second.
TwoLevels == [l \in 1..2 |-> IF l = 1 THEN {bob, cid} ELSE {ann, bob, cid}]

\* Three levels, the last with one assignee, who is the applicant.
ThreeLevels == [l \in 1..3 |-> IF l = 1 THEN {bob, cid}
                               ELSE IF l = 2 THEN {ann, bob, cid} ELSE {ann}]
=============================================================================
