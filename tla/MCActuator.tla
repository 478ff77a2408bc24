----------------------------- MODULE MCActuator -----------------------------
EXTENDS Actuator, TLC

Symmetry == Permutations(Instance)
=============================================================================
