------------------------------ MODULE MCAutoTopup ------------------------------
\* Constants of the model-checking runs of AutoTopup.
EXTENDS AutoTopup, TLC

CONSTANTS r1, r2, u1

\* Goroutines are interchangeable.
Symmetry == Permutations(Runs)
================================================================================
