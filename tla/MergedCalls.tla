----------------------------- MODULE MergedCalls -----------------------------
(***************************************************************************)
(* What merge_delay_run promises those who call a function through it: the *)
(* argument of each call waits until the function is run with it, runs may *)
(* bring several arguments at once, and bring one again; nothing that      *)
(* waits is forgotten, and nothing is run with that nobody brought.        *)
(* MergeRun implements this for arguments no overlap of threads has torn.  *)
(***************************************************************************)

CONSTANT Calls    \* the calls; each brings itself as its argument

VARIABLES
    waiting,    \* arguments the function has not been run with
    ran         \* arguments it has been run with

vars == <<waiting, ran>>

Init == waiting = {} /\ ran = {}

Bring(c) ==
    /\ c \notin waiting \cup ran
    /\ waiting' = waiting \cup {c}
    /\ UNCHANGED ran

RunWith(args) ==
    /\ args \subseteq waiting \cup ran
    /\ waiting' = waiting \ args
    /\ ran' = ran \cup args

Next ==
    \/ \E c \in Calls : Bring(c)
    \/ \E args \in SUBSET Calls : RunWith(args)

Spec == Init /\ [][Next]_vars
=============================================================================
