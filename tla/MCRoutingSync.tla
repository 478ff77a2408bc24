---------------------------- MODULE MCRoutingSync ----------------------------
(* RoutingSync for TLC: leaves and functions are interchangeable.            *)
EXTENDS RoutingSync, TLC

Symmetry == Permutations(Function) \cup Permutations(Leaf)

\* Bound: a leaf changes more than once only under the first configuration and
\* while no leaf has restarted.
MCNext ==
    /\ Next
    /\ (version' > 1 \/ restarts' > 0) => \A l \in Leaf : changes'[l] <= 1

MCSpec == Init /\ [][MCNext]_vars
=============================================================================
