--------------------------- MODULE MCPoolLiveness ---------------------------
(* An instance of PoolLiveness for TLC *)
EXTENDS PoolLiveness

\* Both objects carry the same instance ID
MCIDOf == [s \in Sandbox |-> 1]
=============================================================================
