----------------------------- MODULE MCRuntimes -----------------------------
(***************************************************************************)
(* Runtimes for TLC.  Of firecracker's configurations with a network pool  *)
(* and snapshots only the one that tears down asynchronously is explored,  *)
(* which has the more interleavings; the synchronous one is explored       *)
(* without snapshots.                                                      *)
(***************************************************************************)
EXTENDS Runtimes

MCInit == Init /\ (useSnapshots /\ usePool => asyncTeardown)

MCSpec == MCInit /\ [][Next]_vars /\ Fairness
=============================================================================
