---------------------------- MODULE MCInvocation ----------------------------
(***************************************************************************)
(* The stations of an invocation for TLC: the path of the requests, the    *)
(* pool they wait in with the signals it gives the autoscaler, and the     *)
(* worker that creates and stops the sandboxes they are sent to.  The      *)
(* three share no state: a behaviour follows one of them, its subject, and *)
(* the others stay in one initial state.                                   *)
(***************************************************************************)
EXTENDS Invocation, PoolSignals, WorkerSandbox, TLC

VARIABLE subject

MCIDOf == [s \in Sandbox |-> 1]

poolVars == <<vars, signalVars>>

MCInit ==
    /\ subject \in {"requests", "pool", "worker"}
    /\ InvocationInit
    /\ subject # "requests" => protocol = [c \in Call |-> "http"]
    /\ SignalInit
    /\ WorkerInit

MCNext ==
    \/ subject = "requests" /\ InvocationNext /\ UNCHANGED <<subject, poolVars, workerVars>>
    \/ subject = "pool" /\ SignalNext /\ UNCHANGED <<subject, invocationVars, workerVars>>
    \/ subject = "worker" /\ WorkerNext /\ UNCHANGED <<subject, invocationVars, poolVars>>

MCSpec == MCInit /\ [][MCNext]_<<subject, invocationVars, poolVars, workerVars>>

Symmetry == Permutations(Call)
=============================================================================
