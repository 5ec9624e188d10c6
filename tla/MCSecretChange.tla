--------------------------- MODULE MCSecretChange ---------------------------
EXTENDS SecretChange, TLC

\* Each account has an asset of its own, which is called like the account.
OwnAsset == [a \in Accounts |-> a]

\* Runs are interchangeable, and so are session ends.
Symmetry == Permutations(Runs) \cup Permutations(Ends)

\* Bound: sessions end as long as a run is left that could take the account.
EndsInTime ==
    (\A s \in Ends : end'[s] = end[s] \/ end[s] # "new") \/ \E e \in Runs : pc[e] = "new"

\* Bound: the second session end meets changes only, and no fault.
EndsApart ==
    (\A s \in Ends : end'[s] # "new") =>
       /\ faults' = 0
       /\ \A e \in Runs : pc'[e] # "new" => source'[e] = e
=============================================================================
