------------------------- MODULE MCTerminalSession -------------------------
EXTENDS TerminalSession, TLC

\* Tasks are interchangeable; used by runs that check invariants only.
Symmetry == Permutations(Tasks)

=============================================================================
