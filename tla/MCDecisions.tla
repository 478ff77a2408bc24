----------------------------- MODULE MCDecisions -----------------------------
(***************************************************************************)
(* The decisions of leaf and ingress for TLC: five machines that share no  *)
(* state.  A behaviour follows one of them, its subject, and the others    *)
(* stay in one initial state.                                              *)
(***************************************************************************)
EXTENDS Placement, Schedulers, RoutingPolicies, ScalePolicy, StrictScale, TLC

VARIABLE subject

\* Settings that reach every branch of the scale policy.
Defaults ==
    [maxConcurrency |-> 1, targetConcurrency |-> 0, unlimitedTarget |-> 0, utilization |-> 0,
     minInstances |-> 0, maxInstances |-> 0, stableWindow |-> 6, panicWindow |-> 2,
     panicThresholdRatio |-> 2, maxScaleUpRate |-> 1000, maxScaleDownRate |-> 2,
     dirigentAdmission |-> FALSE, coldStartPanicScaling |-> FALSE]

ColdStartPanic == [Defaults EXCEPT !.coldStartPanicScaling = TRUE, !.utilization = 70]

MCScaleConfig ==
    {Defaults,
     ColdStartPanic,
     [Defaults EXCEPT !.dirigentAdmission = TRUE, !.maxScaleUpRate = 1, !.minInstances = 1],
     [Defaults EXCEPT !.maxConcurrency = 2, !.utilization = 7000, !.maxInstances = 2, !.panicWindow = 4],
     [Defaults EXCEPT !.maxConcurrency = 0, !.unlimitedTarget = 2, !.utilization = 70, !.stableWindow = 1]}

MCInit ==
    /\ subject \in {"placement", "schedulers", "routing", "scale", "strict"}
    /\ Init
    /\ SchedulerInit
    /\ subject # "schedulers" => scheduler = "balanced_round_robin"
    /\ RoutingInit
    /\ subject # "routing" => policy = "random"
    /\ ScaleInit
    /\ subject # "scale" => settings = ColdStartPanic
    /\ StrictInit

MCNext ==
    /\ UNCHANGED subject
    /\ \/ subject = "placement" /\ Next /\ UNCHANGED <<schedulerVars, routingVars, scaleVars, strictVars>>
       \/ subject = "schedulers" /\ SchedulerNext /\ UNCHANGED <<vars, routingVars, scaleVars, strictVars>>
       \/ subject = "routing" /\ RoutingNext /\ UNCHANGED <<vars, schedulerVars, scaleVars, strictVars>>
       \/ subject = "scale" /\ ScaleNext /\ UNCHANGED <<vars, schedulerVars, routingVars, strictVars>>
       \/ subject = "strict" /\ StrictNext /\ UNCHANGED <<vars, schedulerVars, routingVars, scaleVars>>

allVars == <<subject, vars, schedulerVars, routingVars, scaleVars, strictVars>>

MCSpec == MCInit /\ [][MCNext]_allVars

Symmetry == Permutations(Starter)
=============================================================================
