---------------------------- MODULE MCCloudSync ----------------------------
EXTENDS CloudSync, TLC

MCSuffixed(n, i) == <<n, i>>

\* Instances, names, addresses and assets are interchangeable.
Symmetry == Permutations(Instances) \cup Permutations(Addrs) \cup Permutations(Assets)
            \cup Permutations(Names)
=============================================================================
