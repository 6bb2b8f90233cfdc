------------------------------ MODULE MCVideoJobs ------------------------------
\* Constants of the model-checking runs of VideoJobs.
EXTENDS VideoJobs, TLC

CONSTANTS j1, j2, u1, w1, w2, c1, c2

\* All jobs belong to one account, so their settlements compete for it.
OneOwner == [j \in Jobs |-> u1]

\* Watchers and client requests are interchangeable.
Symmetry == Permutations(Watchers) \cup Permutations(Calls)
================================================================================
