------------------------------ MODULE MCSleep ------------------------------
\* Sleep for TLC: the processes of the safety run are interchangeable.
EXTENDS Sleep, TLC

Symmetry == Permutations(Procs)
=============================================================================
