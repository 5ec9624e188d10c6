----------------------------- MODULE MCPermTree -----------------------------
EXTENDS PermTree, TLC

\* Organizations are interchangeable, and so are request slots.
Symmetry == Permutations(Orgs) \cup Permutations(Requests)
=============================================================================
