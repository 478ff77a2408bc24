----------------------------- MODULE StrictScale -----------------------------
(***************************************************************************)
(* One function's SandboxActuator (leaf/autoscaling/actuator.go) with      *)
(* DirigentStrictAdmission: ApplyScale hands every decision to a batch of  *)
(* its own, one at a time, and keeps an optimistic scale that the policy   *)
(* reads (LogicalScale) and that nothing but decisions and failed starts   *)
(* of a batch ever changes.                                                *)
(*                                                                         *)
(* Sandboxes are interchangeable here and are counted.  Actuator.tla       *)
(* models what one start or stop does; here it succeeds or fails.  The     *)
(* deletion of the function, after which nothing is decided, is there too. *)
(***************************************************************************)
EXTENDS Integers

CONSTANTS
    MaxDesired,  \* bound: desired instances
    MaxStopping, \* bound: instances being stopped when a decision is applied
    MaxMishaps   \* bound: starts, exits and failed stops that no batch accounts for

ASSUME StrictAssumption == MaxDesired \in Nat /\ MaxStopping \in Nat /\ MaxMishaps \in Nat

VARIABLES
    optimistic,     \* strictOptimisticScale
    phase,          \* of the batch: "off" (not strictBatchActive), "dispatch", "starts" or "release"
    previous,       \* of the batch: parameter of runStrictBatch, the desired scale is still optimistic
    startJobs,      \* goroutines of the batch that have not ended
    kept,           \* tracked instances not marked as stopping
    stopJobs,       \* instances marked as stopping, with their goroutines
    unaccounted,    \* history: instances gained less those lost behind the batches' back
    mishaps         \* (bound only)

strictVars == <<optimistic, phase, previous, startJobs, kept, stopJobs, unaccounted, mishaps>>

StrictInit ==
    /\ optimistic = 0
    /\ phase = "off"
    /\ previous = 0
    /\ startJobs = 0
    /\ kept = 0
    /\ stopJobs = 0
    /\ unaccounted = 0
    /\ mishaps = 0

----------------------------------------------------------------------------
\* A caller that finds a batch active waits until it is done.
StrictApplyScale(d) ==
    /\ phase = "off" /\ stopJobs <= MaxStopping
    /\ phase' = "dispatch"
    /\ previous' = optimistic
    /\ optimistic' = d
    /\ UNCHANGED <<startJobs, kept, stopJobs, unaccounted, mishaps>>

BatchStarts ==
    /\ phase = "dispatch"
    /\ optimistic > previous
    /\ phase' = "starts"
    /\ startJobs' = optimistic - previous
    /\ UNCHANGED <<optimistic, previous, kept, stopJobs, unaccounted, mishaps>>

\* instancesForStop marks as many victims as there are; stopInstances runs on
\* without the batch.
BatchStops ==
    /\ phase = "dispatch"
    /\ optimistic <= previous
    /\ phase' = "release"
    /\ LET wanted == previous - optimistic
           victims == IF wanted < kept THEN wanted ELSE kept
       IN  /\ kept' = kept - victims
           /\ stopJobs' = stopJobs + victims
           /\ unaccounted' = unaccounted + (wanted - victims)
    /\ UNCHANGED <<optimistic, previous, startJobs, mishaps>>

BatchReleases ==
    /\ phase = "release" \/ (phase = "starts" /\ startJobs = 0)
    /\ phase' = "off"
    /\ UNCHANGED <<optimistic, previous, startJobs, kept, stopJobs, unaccounted, mishaps>>

StrictStarted ==
    /\ startJobs > 0
    /\ startJobs' = startJobs - 1
    /\ kept' = kept + 1
    /\ UNCHANGED <<optimistic, phase, previous, stopJobs, unaccounted, mishaps>>

\* Mutant: the failure of a start is only logged.
StrictStartFailedUncounted ==
    /\ startJobs > 0
    /\ startJobs' = startJobs - 1
    /\ UNCHANGED <<optimistic, phase, previous, kept, stopJobs, unaccounted, mishaps>>

\* planStart finds no worker or runStart fails: strictBatchFailed.
StrictStartFailed ==
    /\ startJobs > 0
    /\ startJobs' = startJobs - 1
    /\ optimistic' = IF optimistic > 0 THEN optimistic - 1 ELSE optimistic
    /\ UNCHANGED <<phase, previous, kept, stopJobs, unaccounted, mishaps>>

\* The sandbox is stopped, or evicted because it exited first.
StrictStopped ==
    /\ stopJobs > 0
    /\ stopJobs' = stopJobs - 1
    /\ UNCHANGED <<optimistic, phase, previous, startJobs, kept, unaccounted, mishaps>>

----------------------------------------------------------------------------
(* What happens behind the batches' back.                                  *)

Mishap(gain) ==
    /\ mishaps < MaxMishaps
    /\ mishaps' = mishaps + 1
    /\ kept' = kept + gain
    /\ unaccounted' = unaccounted + gain
    /\ UNCHANGED <<optimistic, phase, previous, startJobs>>

\* The drain or the stop fails: cancelStop.
StrictStopFailed == stopJobs > 0 /\ stopJobs' = stopJobs - 1 /\ Mishap(1)

\* A sandbox exits and is evicted.
StrictEvicted == kept > 0 /\ Mishap(-1) /\ UNCHANGED stopJobs

\* EnsureCapacity starts one.
StrictStartOne == Mishap(1) /\ UNCHANGED stopJobs

StrictNext ==
    \/ \E d \in 0..MaxDesired : StrictApplyScale(d)
    \/ BatchStarts \/ BatchStops \/ BatchReleases
    \/ StrictStarted \/ StrictStartFailed \/ StrictStopped
    \/ StrictStopFailed \/ StrictEvicted \/ StrictStartOne

StrictSpec == StrictInit /\ [][StrictNext]_strictVars

----------------------------------------------------------------------------
\* Sandboxes the batch under way still has to start, or to take away.
Owed == IF phase = "dispatch" THEN optimistic - previous ELSE startJobs

\* The optimistic scale is exact: it is what is kept and what the batch under
\* way still owes, but for the sandboxes that came or went behind the batches'
\* back, whatever starts fail and however slow the stops are.  strictBatchFailed
\* and the victims reserved before the release (actuator.go:361) are what it
\* rests on.  The policy scales from this number.
LogicalScaleExact == optimistic + unaccounted = kept + Owed
=============================================================================
