-------------------------- MODULE MCConnectionToken --------------------------
EXTENDS ConnectionToken

CONSTANTS t1, t2    \* t1 may be made at the admin endpoint, t2 is never

\* Bound: no request is begun on a token a superuser overruled before; it may
\* still be copied, reviewed and cleaned.  What is promised of a token leaves
\* it out from then on.
OverruledOnce ==
    \A r \in Requests :
       req[r] = Idle /\ req'[r] # Idle => req'[r].t \notin overruled
=============================================================================
