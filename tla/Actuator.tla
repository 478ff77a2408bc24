------------------------------ MODULE Actuator ------------------------------
(***************************************************************************)
(* One function's SandboxActuator (leaf/autoscaling/actuator.go) in its    *)
(* normal mode, with the worker it drives (WorkerContract), the removal    *)
(* events and state snapshots the worker sends back, and the deletion of   *)
(* the function (leaf/runtime).                                            *)
(*                                                                         *)
(* Every locked section of the actuator is one step, together with the     *)
(* non-blocking wake-up that follows it.  The goroutine that starts        *)
(* sandbox i is `job[i]`, the one that stops it `stopper[i]`.  The scale   *)
(* pump and StopAll share scaleDownParallel; `pc` is where each of them    *)
(* is.  Placement.tla models where a sandbox is placed: here the choice    *)
(* succeeds or fails.  SandboxPool.tla models the pool: here a sandbox is  *)
(* in it, draining or out of it, and a drain succeeds or times out.        *)
(***************************************************************************)
EXTENDS WorkerContract

CONSTANTS
    MaxTarget,      \* bound: desired instances
    MaxDeletions,   \* bound: is the function deleted, 0 or 1
    maxInstances,   \* ScaleSpec.max_instances, 0: no limit
    scaleDownDelay  \* is DataplaneConfig.ScaleDownDelay positive

ASSUME ActuatorAssumption ==
    MaxTarget \in Nat /\ MaxDeletions \in 0..1 /\ maxInstances \in Nat /\ scaleDownDelay \in BOOLEAN

Owner == {"pump", "stopAll"}
Path == {"event", "relist"}

VARIABLES
    tracked,         \* instances in workerInstances
    stopping,        \* tracked instances marked as stopping
    totalInstances, pendingStarts, pendingStops,
    targetInstances,
    targetSet,       \* targetReason # ""
    wake,            \* the scaleUpWake channel
    job, stopper,    \* instance: the goroutines of runStart and stopInstances
    pc,              \* owner: step of scalePump, of DeleteFunction
    count,           \* owner: parameter of scaleDownParallel
    changed,         \* owner: in its delay, has targetRevision changed
    waitFor,         \* owner: instances whose stoppers it waits for
    closed,          \* the function is being deleted
    late,            \* calls that were under way when the deletion began
    pool,            \* instance: "out", "in" or "draining" in the SandboxPool
    poolClosed,
    store,           \* instances in the dataplane store
    evicting,        \* path: instances untracked whose side effects are due
    frames           \* the snapshot queued on the WatchState stream

countVars == <<tracked, stopping, totalInstances, pendingStarts, pendingStops>>
targetVars == <<targetInstances, targetSet, changed>>
ownerVars == <<pc, count, waitFor>>
servingVars == <<pool, poolClosed, store>>
taskVars == <<job, stopper, evicting>>
lifeVars == <<closed, late>>
leafVars == <<countVars, targetVars, ownerVars, servingVars, taskVars, lifeVars, wake, frames>>
vars == <<workerVars, leafVars>>

Init ==
    /\ WorkerInit
    /\ tracked = {} /\ stopping = {}
    /\ totalInstances = 0 /\ pendingStarts = 0 /\ pendingStops = 0
    /\ targetInstances = 0 /\ targetSet = FALSE
    /\ wake = FALSE
    /\ job = [i \in Instance |-> "none"]
    /\ stopper = [i \in Instance |-> "none"]
    /\ pc = [o \in Owner |-> "off"]
    /\ count = [o \in Owner |-> 0]
    /\ changed = [o \in Owner |-> FALSE]
    /\ waitFor = [o \in Owner |-> {}]
    /\ closed = FALSE /\ late = {}
    /\ pool = [i \in Instance |-> "out"]
    /\ poolClosed = FALSE
    /\ store = {}
    /\ evicting = [p \in Path |-> {}]
    /\ frames = <<>>

----------------------------------------------------------------------------
Future == totalInstances + pendingStarts - pendingStops
Excess == Future - targetInstances

SetTarget(d, reason) ==
    /\ changed' = [o \in Owner |-> changed[o] \/ (pc[o] = "delay" /\ targetInstances # d)]
    /\ targetInstances' = d
    /\ targetSet' = reason

ApplyScale(d) ==
    /\ SetTarget(d, TRUE)
    /\ wake' = TRUE
    /\ pc' = IF d # Future /\ pc["pump"] = "off" THEN [pc EXCEPT !["pump"] = "top"] ELSE pc
    /\ UNCHANGED <<workerVars, countVars, count, waitFor, servingVars, taskVars, frames>>

\* The reconcile loop applies the policy's answer; one reconciliation may have
\* begun before the controller was closed.
Reconcile(d) ==
    /\ ~closed \/ "reconcile" \in late
    /\ ApplyScale(d)
    /\ late' = late \ {"reconcile"}
    /\ UNCHANGED closed

----------------------------------------------------------------------------
(* scalePump, and the part of it that StopAll shares.                      *)

Step(o, from, to) == pc[o] = from /\ pc' = [pc EXCEPT ![o] = to]

AfterDown(o) == IF o = "pump" THEN "up" ELSE "close"

BeginDown(o, n) ==
    /\ pc' = [pc EXCEPT ![o] = IF n <= 0 THEN AfterDown(o)
                               ELSE IF scaleDownDelay THEN "rev" ELSE "victims"]
    /\ count' = [count EXCEPT ![o] = IF n > 0 THEN n ELSE 0]

OnlyOwner ==
    UNCHANGED <<workerVars, countVars, targetInstances, targetSet, servingVars, taskVars, lifeVars, frames>>

\* Mutant: only starts are considered.
PumpTopUpOnly ==
    /\ Step("pump", "top", "up")
    /\ UNCHANGED <<count, changed, waitFor, wake>>
    /\ OnlyOwner

PumpTop ==
    /\ pc["pump"] = "top"
    /\ BeginDown("pump", Excess)
    /\ UNCHANGED <<changed, waitFor, wake>>
    /\ OnlyOwner

DelayBegins(o) ==
    /\ Step(o, "rev", "delay")
    /\ UNCHANGED <<count, changed, waitFor, wake>>
    /\ OnlyOwner

DelayElapses(o) ==
    /\ Step(o, "delay", "victims")
    /\ changed' = [changed EXCEPT ![o] = FALSE]
    /\ UNCHANGED <<count, waitFor, wake>>
    /\ OnlyOwner

\* A wake-up during the delay: give up if the target has changed.
DelayWoken(o) ==
    /\ pc[o] = "delay" /\ wake
    /\ wake' = FALSE
    /\ pc' = IF changed[o] THEN [pc EXCEPT ![o] = AfterDown(o)] ELSE pc
    /\ changed' = [changed EXCEPT ![o] = FALSE]
    /\ count' = IF changed[o] THEN [count EXCEPT ![o] = 0] ELSE count
    /\ UNCHANGED waitFor
    /\ OnlyOwner

\* Only the pump's context ends with the controller.
DelayCancelled ==
    /\ closed
    /\ Step("pump", "delay", "up")
    /\ changed' = [changed EXCEPT !["pump"] = FALSE]
    /\ count' = [count EXCEPT !["pump"] = 0]
    /\ UNCHANGED <<waitFor, wake>>
    /\ OnlyOwner

Lesser(a, b) == IF a < b THEN a ELSE b

\* Mutant: the number decided before the delay is stopped, whatever has
\* happened since.
VictimsOfOldTarget(o) ==
    LET free == tracked \ stopping
    IN  {S \in SUBSET free : Cardinality(S) = Lesser(count[o], Cardinality(free))}

\* instancesForStopWithinTarget: at most the excess of this moment, as far as
\* there are instances not yet being stopped.
Victims(o) ==
    LET n == Lesser(count[o], Excess)
        free == tracked \ stopping
    IN  IF n <= 0 THEN {{}}
        ELSE {S \in SUBSET free : Cardinality(S) = Lesser(n, Cardinality(free))}

ChooseVictims(o) ==
    /\ Step(o, "victims", "stopwait")
    /\ \E S \in Victims(o) :
         /\ stopping' = stopping \cup S
         /\ pendingStops' = pendingStops + Cardinality(S)
         /\ stopper' = [i \in Instance |-> IF i \in S THEN "drain" ELSE stopper[i]]
         /\ waitFor' = [waitFor EXCEPT ![o] = S]
    /\ count' = [count EXCEPT ![o] = 0]
    /\ UNCHANGED <<workerVars, tracked, totalInstances, pendingStarts, targetVars, lifeVars,
                   servingVars, wake, job, evicting, frames>>

StopsDone(o) ==
    /\ Step(o, "stopwait", AfterDown(o))
    /\ waitFor[o] = {}
    /\ UNCHANGED <<count, changed, waitFor, wake>>
    /\ OnlyOwner

\* Nothing to start, or Schedule finds no worker.
PumpIdle ==
    /\ Step("pump", "up", "wait")
    /\ UNCHANGED <<count, changed, waitFor, wake>>
    /\ OnlyOwner

PumpWoken ==
    /\ wake /\ wake' = FALSE
    /\ Step("pump", "wait", "top")
    /\ UNCHANGED <<count, changed, waitFor>>
    /\ OnlyOwner

\* Another function has given up a start slot: startCapacityChanged.
PumpRetries ==
    /\ Step("pump", "wait", "top")
    /\ UNCHANGED <<count, changed, waitFor, wake>>
    /\ OnlyOwner

PumpEnds ==
    /\ closed
    /\ Step("pump", "wait", "off")
    /\ UNCHANGED <<count, changed, waitFor, wake>>
    /\ OnlyOwner

----------------------------------------------------------------------------
(* planStart and runStart.                                                 *)

\* When reserveLocalStart refuses.
NotNeeded(enforceTarget, reason) ==
    \/ enforceTarget /\ Future >= targetInstances
    \/ reason = "cold-start" /\ Future >= 1
    \/ maxInstances > 0 /\ Future >= maxInstances

\* A start is reserved for a new ID and its goroutine calls the worker;
\* PrepareImage is taken as part of the call.
Reserve(enforceTarget, reason) ==
    /\ ~NotNeeded(enforceTarget, reason)
    /\ pendingStarts' = pendingStarts + 1
    /\ \E i \in Instance : CreateCall(i) /\ job' = [job EXCEPT ![i] = "create"]
    /\ UNCHANGED <<tracked, stopping, totalInstances, pendingStops, targetVars, ownerVars, servingVars,
                   stopper, evicting, closed, wake, frames>>

PumpStart ==
    /\ pc["pump"] = "up" /\ targetSet
    /\ Reserve(TRUE, "scale")
    /\ UNCHANGED late

\* EnsureCapacity starts sandboxes without regard to the target.
EnsureCapacity(reason) ==
    /\ ~closed \/ "ensure" \in late
    /\ Reserve(FALSE, reason)
    /\ late' = late \ {"ensure"}

JobAt(i, from, to) == job[i] = from /\ job' = [job EXCEPT ![i] = to]

OnlyJob == UNCHANGED <<workerVars, targetVars, ownerVars, lifeVars, stopper, evicting, frames>>

JobAnswered(i) ==
    /\ create[i] \in {"created", "failed"}
    /\ JobAt(i, "create", IF create[i] = "created" THEN "created" ELSE "fail")
    /\ UNCHANGED <<countVars, servingVars, wake>>
    /\ OnlyJob

\* The call times out, its answer is lost or its context ends.
JobTimeout(i) ==
    /\ JobAt(i, "create", "fail")
    /\ UNCHANGED <<countVars, servingVars, wake>>
    /\ OnlyJob

\* store.PutInstance and pool.Add.
JobServe(i) ==
    /\ JobAt(i, "created", "served")
    /\ store' = store \cup {i}
    /\ pool' = IF poolClosed THEN pool ELSE [pool EXCEPT ![i] = "in"]
    /\ UNCHANGED <<countVars, poolClosed, wake>>
    /\ OnlyJob

JobTrack(i) ==
    /\ JobAt(i, "served", "done")
    /\ tracked' = tracked \cup {i}
    /\ totalInstances' = totalInstances + 1
    /\ pendingStarts' = pendingStarts - 1
    /\ wake' = TRUE
    /\ UNCHANGED <<stopping, pendingStops, servingVars>>
    /\ OnlyJob

JobFail(i) ==
    /\ JobAt(i, "fail", "done")
    /\ pendingStarts' = pendingStarts - 1
    /\ wake' = TRUE
    /\ UNCHANGED <<tracked, stopping, totalInstances, pendingStops, servingVars>>
    /\ OnlyJob

----------------------------------------------------------------------------
(* stopInstances.                                                          *)

StopperAt(i, from, to) == stopper[i] = from /\ stopper' = [stopper EXCEPT ![i] = to]

\* Mutant: the owner is not told.
StopperEndsUnseen(i, from) == StopperAt(i, from, "none") /\ UNCHANGED waitFor

\* The goroutine ends and its owner no longer waits for it.
StopperEnds(i, from) ==
    /\ StopperAt(i, from, "none")
    /\ waitFor' = [o \in Owner |-> waitFor[o] \ {i}]

OnlyStopper == UNCHANGED <<targetVars, pc, count, lifeVars, job, evicting, frames>>

StopDrain(i) ==
    /\ pool[i] = "in" /\ ~poolClosed
    /\ StopperAt(i, "drain", "draining")
    /\ pool' = [pool EXCEPT ![i] = "draining"]
    /\ UNCHANGED <<workerVars, countVars, waitFor, poolClosed, store, wake>>
    /\ OnlyStopper

\* ErrPoolClosed or ErrNoSandbox.
StopDrainRefused(i) ==
    /\ pool[i] # "in" \/ poolClosed
    /\ StopperAt(i, "drain", "cancel")
    /\ UNCHANGED <<workerVars, countVars, waitFor, servingVars, wake>>
    /\ OnlyStopper

Restored(i) == IF pool[i] = "draining" THEN [pool EXCEPT ![i] = "in"] ELSE pool

StopDrainTimeout(i) ==
    /\ StopperAt(i, "draining", "cancel")
    /\ pool' = Restored(i)
    /\ UNCHANGED <<workerVars, countVars, waitFor, poolClosed, store, wake>>
    /\ OnlyStopper

StopDrained(i) ==
    /\ StopperAt(i, "draining", "call")
    /\ StopCall(i)
    /\ UNCHANGED <<countVars, waitFor, servingVars, wake>>
    /\ OnlyStopper

\* Stopped or already gone: finishDrain(true).
StopAnswered(i) ==
    /\ stop[i] \in {"ok", "gone"}
    /\ StopperAt(i, "call", "remove")
    /\ pool' = IF pool[i] = "draining" THEN [pool EXCEPT ![i] = "out"] ELSE pool
    /\ UNCHANGED <<workerVars, countVars, waitFor, poolClosed, store, wake>>
    /\ OnlyStopper

\* An error, a timeout or a lost answer: finishDrain(false).
StopFails(i) ==
    /\ StopperAt(i, "call", "cancel")
    /\ pool' = Restored(i)
    /\ UNCHANGED <<workerVars, countVars, waitFor, poolClosed, store, wake>>
    /\ OnlyStopper

cancelStop(i) ==
    /\ StopperEnds(i, "cancel")
    /\ stopping' = stopping \ {i}
    /\ pendingStops' = IF i \in stopping THEN pendingStops - 1 ELSE pendingStops
    /\ UNCHANGED <<workerVars, tracked, totalInstances, pendingStarts, servingVars, wake>>
    /\ OnlyStopper

\* Instances leave workerInstances, with their marks.
Untrack(S) ==
    /\ tracked' = tracked \ S
    /\ stopping' = stopping \ S
    /\ totalInstances' = totalInstances - Cardinality(S \cap tracked)
    /\ pendingStops' = pendingStops - Cardinality(S \cap stopping)
    /\ UNCHANGED pendingStarts

\* removeInstance: nothing more happens if an eviction came first.
StopRemove(i) ==
    /\ i \in tracked
    /\ StopperAt(i, "remove", "effects")
    /\ Untrack({i})
    /\ UNCHANGED <<workerVars, waitFor, servingVars, wake>>
    /\ OnlyStopper

StopOvertaken(i) ==
    /\ i \notin tracked
    /\ StopperEnds(i, "remove")
    /\ UNCHANGED <<workerVars, countVars, servingVars, wake>>
    /\ OnlyStopper

StopEffects(i) ==
    /\ StopperEnds(i, "effects")
    /\ store' = store \ {i}
    /\ pool' = [pool EXCEPT ![i] = "out"]
    /\ wake' = TRUE
    /\ UNCHANGED <<workerVars, countVars, poolClosed>>
    /\ OnlyStopper

----------------------------------------------------------------------------
(* What the worker reports.  A stream that breaks loses what was under way *)
(* and the next session goes on from there; a snapshot lost is no          *)
(* different from one that a newer one replaced.                           *)

\* sendState replaces a snapshot that is still queued by the newest one.  A
\* controller that has been removed no longer hears of its worker.
SampleState ==
    /\ ~closed
    /\ frames' = <<Snapshot>>
    /\ frames' # frames
    /\ UNCHANGED <<workerVars, countVars, targetVars, ownerVars, servingVars, taskVars, lifeVars, wake>>

EventStreamBreaks ==
    /\ Received /\ removals' = <<>>
    /\ UNCHANGED leafVars

HandleSandboxRemoved(e) ==
    LET gone == IF e.id \in tracked /\ ~(e.rev < createRev[e.id]) THEN {e.id} ELSE {}
    IN  Untrack(gone) /\ evicting' = [evicting EXCEPT !["event"] = gone]

\* One goroutine per stream handles what it receives, side effects included.
handleSandboxRemoved ==
    /\ evicting["event"] = {} /\ ~closed
    /\ Received /\ removals' = Tail(removals)
    /\ HandleSandboxRemoved(Head(removals))
    /\ UNCHANGED <<targetVars, ownerVars, servingVars, job, stopper, lifeVars, wake, frames>>

\* Mutant: a snapshot is believed whenever it was taken.
MissingAtAnyRevision(f) == {i \in tracked \ f.ids : f.rev # 0}

\* Mutant: the revisions are compared the wrong way round.
MissingBeforeCreation(f) == {i \in tracked \ f.ids : f.rev # 0 /\ createRev[i] # 0 /\ f.rev <= createRev[i]}

\* Tracked instances a snapshot shows to be gone.
Missing(f) == {i \in tracked \ f.ids : f.rev # 0 /\ createRev[i] # 0 /\ f.rev >= createRev[i]}

ReconcileWorkerState(f) ==
    Untrack(Missing(f)) /\ evicting' = [evicting EXCEPT !["relist"] = Missing(f)]

setWorkerState ==
    /\ frames # <<>> /\ evicting["relist"] = {}
    /\ ReconcileWorkerState(Head(frames))
    /\ frames' = Tail(frames)
    /\ UNCHANGED <<workerVars, targetVars, ownerVars, servingVars, job, stopper, lifeVars, wake>>

\* Mutant: the pool is not told.
EvictFromStoreOnly(p) ==
    /\ evicting[p] # {}
    /\ evicting' = [evicting EXCEPT ![p] = {}]
    /\ store' = store \ evicting[p]
    /\ wake' = TRUE
    /\ UNCHANGED <<workerVars, countVars, targetVars, ownerVars, pool, poolClosed, job, stopper, lifeVars, frames>>

evictTracked(p) ==
    /\ evicting[p] # {}
    /\ evicting' = [evicting EXCEPT ![p] = {}]
    /\ store' = store \ evicting[p]
    /\ pool' = [i \in Instance |-> IF i \in evicting[p] THEN "out" ELSE pool[i]]
    /\ wake' = TRUE
    /\ UNCHANGED <<workerVars, countVars, targetVars, ownerVars, poolClosed, job, stopper, lifeVars, frames>>

----------------------------------------------------------------------------
(* DeleteFunction: StopAll, then the pool and the store.                   *)

DeleteFunction ==
    /\ ~closed /\ MaxDeletions > 0
    /\ closed' = TRUE
    /\ late' \in SUBSET {"reconcile", "ensure"}
    /\ pc' = [pc EXCEPT !["stopAll"] = "begin"]
    /\ frames' = <<>>
    /\ UNCHANGED <<workerVars, countVars, targetVars, count, waitFor, servingVars, taskVars, wake>>

StopAll ==
    /\ pc["stopAll"] = "begin"
    /\ SetTarget(0, FALSE)
    /\ BeginDown("stopAll", totalInstances)
    /\ wake' = TRUE
    /\ UNCHANGED <<workerVars, countVars, waitFor, servingVars, taskVars, lifeVars, frames>>

Close ==
    /\ Step("stopAll", "close", "off")
    /\ poolClosed' = TRUE
    /\ store' = {}
    /\ UNCHANGED <<workerVars, countVars, targetVars, count, waitFor, pool, taskVars, lifeVars, wake, frames>>

----------------------------------------------------------------------------
Job(i) == JobAnswered(i) \/ JobServe(i) \/ JobTrack(i) \/ JobFail(i)

Stopper(i) ==
    \/ StopDrain(i) \/ StopDrainRefused(i) \/ StopDrained(i) \/ StopAnswered(i)
    \/ cancelStop(i) \/ StopRemove(i) \/ StopOvertaken(i) \/ StopEffects(i)

ScaleDown(o) ==
    \/ DelayBegins(o) \/ DelayElapses(o) \/ DelayWoken(o) \/ ChooseVictims(o) \/ StopsDone(o)

Pump == PumpTop \/ PumpStart \/ PumpIdle \/ PumpWoken \/ PumpEnds \/ DelayCancelled

Deletion == StopAll \/ Close

Reports == SampleState \/ handleSandboxRemoved \/ setWorkerState \/ \E p \in Path : evictTracked(p)

Next ==
    \/ \E i \in Instance : Worker(i) /\ UNCHANGED leafVars
    \/ \E i \in Instance : Job(i) \/ JobTimeout(i)
    \/ \E i \in Instance : Stopper(i) \/ StopDrainTimeout(i) \/ StopFails(i)
    \/ \E o \in Owner : ScaleDown(o)
    \/ Pump \/ PumpRetries
    \/ \E d \in 0..MaxTarget : Reconcile(d)
    \/ \E reason \in {"cold-start", "scale"} : EnsureCapacity(reason)
    \/ Reports \/ EventStreamBreaks
    \/ DeleteFunction \/ Deletion

Spec == Init /\ [][Next]_vars

----------------------------------------------------------------------------
Pending == {i \in Instance : job[i] \notin {"none", "done"}}

\* An event or a snapshot only evicts what the worker no longer has, however
\* late it arrives.
NoFalseEviction ==
    [][\A p \in Path : (evicting'[p] \ evicting[p]) \cap instances = {}]_vars

\* A sandbox that requests can be sent to is one the actuator tracks, is
\* about to track, or is about to take out of the pool.
ServedIsTracked ==
    \A i \in Instance : pool[i] # "out" =>
        \/ i \in tracked \cup evicting["event"] \cup evicting["relist"]
        \/ job[i] = "served"
        \/ stopper[i] = "effects"

\* Stops are chosen only down to the target of that moment, also after a
\* delay: a step that marks victims leaves as many sandboxes, tracked or being
\* started, as the target asks for, whatever failed starts, cancelled stops and
\* evictions have done to the counters it decides by.
StopsWithinTarget ==
    [][stopping' \subseteq stopping \/
         Cardinality(tracked' \ stopping') + Cardinality(Pending') >= targetInstances]_vars

----------------------------------------------------------------------------
(* Fairness.  Runnable goroutines run; the reconcile ticker, the worker's  *)
(* sampling ticker, the downscale delay and the stop timeout fire; worker  *)
(* calls that are retried for ever succeed at last.                        *)

Tick == \E d \in 0..MaxTarget : Reconcile(d)

Fairness ==
    /\ \A i \in Instance :
         /\ WF_vars(Job(i) \/ JobTimeout(i))
         /\ WF_vars(Stopper(i) \/ StopDrainTimeout(i) \/ StopFails(i))
         /\ SF_vars(StopDrained(i)) /\ SF_vars(StopAnswered(i))
         /\ WF_vars((StopOK(i) \/ StopGone(i)) /\ UNCHANGED leafVars)
    /\ \A o \in Owner : WF_vars(ScaleDown(o)) /\ WF_vars(DelayElapses(o))
    /\ WF_vars(Pump) /\ WF_vars(Deletion)
    /\ WF_vars(Tick)
    /\ WF_vars(SampleState) /\ WF_vars(setWorkerState)
    /\ \A p \in Path : WF_vars(evictTracked(p))

LiveSpec == Spec /\ Fairness

\* A sandbox that is gone from the worker leaves the pool, even if its removal
\* event is lost or comes before the leaf tracks it.
DeadLeavesPool ==
    \A i \in Instance :
      create[i] = "created" /\ i \notin instances ~> pool[i] = "out" \/ closed

\* More sandboxes than the target are stopped, through failed stops, which wake
\* nobody, and delays that a new target interrupts.
ExcessIsStopped == Excess > 0 ~> Excess <= 0 \/ closed

\* The deletion of a function ends, whatever stops fail.
DeletionEnds == closed ~> poolClosed
=============================================================================
