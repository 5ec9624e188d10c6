----------------------------- MODULE MCMergeRun -----------------------------
EXTENDS MergeRun, Naturals

\* Calls are interchangeable: they are numbered in the order in which they come.
\* (A symmetry set would not do for EventuallyRun.)
InOrder ==
    \A c, d \in Calls : c < d /\ pc[c] = "new" => pc'[d] = "new"
=============================================================================
