------------------------------- MODULE MCSync -------------------------------
(***************************************************************************)
(* The two subscriptions of a leaf for TLC: the functions it learns of     *)
(* from the control plane, and the state the ingress learns of from it.    *)
(* They share no state: a behaviour follows one of them, its subject, and  *)
(* the other stays in its initial state.                                   *)
(***************************************************************************)
EXTENDS FunctionSync, TLC

CONSTANTS
    u1, f1, f2,
    Capacity, Absent, MaxVersion, RoutingBreaks, RoutingChanges, MaxRestarts, MaxIdleBeats, ChanSize

VARIABLES
    subject,
    source, workers, revision, beats, leafChanges, sub, frames, pc, baseline, version, serving,
    lastRevision, healthy, view, table, picker, streamBreaks, restarts

routingVars == <<source, workers, revision, beats, leafChanges, sub, frames, pc, baseline, version,
                 serving, lastRevision, healthy, view, table, picker, streamBreaks, restarts>>

\* Both functions belong to one user.
ownerOf == (f1 :> u1) @@ (f2 :> u1)

Routing == INSTANCE RoutingSync WITH
    MaxBreaks <- RoutingBreaks, MaxChanges <- RoutingChanges,
    changes <- leafChanges, breaks <- streamBreaks

MCInit ==
    /\ subject \in {"functions", "routing"}
    /\ Init
    /\ subject # "functions" => backend = "etcd"
    /\ Routing!Init

MCNext ==
    \/ subject = "functions" /\ Next /\ UNCHANGED <<subject, routingVars>>
    \/ subject = "routing" /\ Routing!Next /\ UNCHANGED <<subject, vars>>

MCSpec == MCInit /\ [][MCNext]_<<subject, vars, routingVars>>

\* The steps of the other machine are not taken, so its fairness is not asked.
MCFairness ==
    /\ subject = "functions" => Fairness
    /\ subject = "routing" => Routing!Fairness

MCLiveSpec == MCSpec /\ MCFairness

\* See RoutingSync: the picker settles on what the leaves report.
Converges == Routing!Converges

=============================================================================
