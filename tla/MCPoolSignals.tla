---------------------------- MODULE MCPoolSignals ----------------------------
EXTENDS PoolSignals, TLC

MCIDOf == [s \in Sandbox |-> 1]

Symmetry == Permutations(Request)
=============================================================================
