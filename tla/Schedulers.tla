----------------------------- MODULE Schedulers -----------------------------
(***************************************************************************)
(* The leaf's placement policies (leaf/scheduler) over the snapshot that   *)
(* PlacementState takes of the workers (leaf/runtime/placement.go), with   *)
(* the image bookkeeping of the image-aware policy.                        *)
(*                                                                         *)
(* Snapshot, choice and reservation are one step here; that they are not   *)
(* one step in the code is Placement's subject, and so is the instance     *)
(* count a worker reports.  All functions have the same image; a function  *)
(* is known by its position on the ring.                                   *)
(***************************************************************************)
EXTENDS Ring

CONSTANTS
    WorkerID,       \* worker IDs 1..n
    WorkerReplicas, \* virtual nodes per worker
    Signal,         \* values of a worker's load or host pressure, in halves
    LoadBound,      \* bound of the bounded-loads policy
    WorkerChainLen, \* successors it tries
    StartTokens,    \* starts in flight per worker, 0: no limit
    MaxInstances    \* instances per worker, 0: no limit

ASSUME SchedulersAssumption ==
    /\ IsFiniteSet(WorkerID) /\ WorkerID \subseteq Nat \ {None}
    /\ Signal \subseteq Nat /\ LoadBound \in Nat

Schedulers == {"balanced_round_robin", "resource_aware", "cold_start_aware", "reservation_aware",
               "image_aware", "bounded_loads"}

NoTelemetry == [known |-> FALSE, up |-> TRUE, signal |-> 0, cached |-> FALSE]

VARIABLES
    scheduler,     \* the configured policy
    workerRing,    \* BoundedLoads.ring
    cursor,        \* index at which the next scan starts
    report,        \* worker: last WorkerState: healthy and schedulable, signal, image cached
    starting,      \* worker: starts in flight
    running,       \* worker: committed instances
    pendingImages, \* worker: starts in flight counted for the image
    knownImages    \* workers where a start with the image was committed

schedulerVars == <<scheduler, workerRing, cursor, report, starting, running, pendingImages, knownImages>>

trackImages == scheduler = "image_aware"

WorkerRings == {r \in NewRings(WorkerID, WorkerReplicas) : r[1].id = Min(WorkerID)}

\* NewFromConfig makes a scheduler; its cursor is zero.
NewFromConfig(policy) == IF policy = "bounded_loads" THEN WorkerRings ELSE {<<>>}

SchedulerInit ==
    /\ scheduler \in Schedulers
    /\ workerRing \in NewFromConfig(scheduler)
    /\ cursor = 0
    /\ report = [w \in WorkerID |-> NoTelemetry]
    /\ starting = [w \in WorkerID |-> 0]
    /\ running = [w \in WorkerID |-> 0]
    /\ pendingImages = [w \in WorkerID |-> 0]
    /\ knownImages = {}

----------------------------------------------------------------------------
(* What snapshot() shows a scheduler.                                      *)

Instances(w) == running[w] + starting[w]

eligibleByInstanceCount(w) ==
    /\ report[w].up
    /\ StartTokens > 0 => starting[w] < StartTokens
    /\ MaxInstances > 0 => Instances(w) < MaxInstances

Eligible == {w \in WorkerID : eligibleByInstanceCount(w)}

\* The worker's report, and what the leaf knows of starts of its own.
WorkerHasCachedImage(w) ==
    report[w].cached \/ (trackImages /\ (pendingImages[w] > 0 \/ w \in knownImages))

\* The instance count stands in for the ratios of a worker that sent none.
observedPressure(w) == IF report[w].known THEN report[w].signal ELSE 2 * Instances(w)

coldStartLess(v, w) ==
    \/ starting[v] < starting[w]
    \/ starting[v] = starting[w] /\ observedPressure(v) < observedPressure(w)
    \/ /\ starting[v] = starting[w]
       /\ observedPressure(v) = observedPressure(w)
       /\ Instances(v) < Instances(w)

\* The first of a set of workers in a scan that starts at the cursor.
FirstFrom(S) ==
    LET distance(w) == (w - 1 - cursor + Cardinality(WorkerID)) % Cardinality(WorkerID)
    IN  CHOOSE w \in S : \A v \in S : distance(w) <= distance(v)

coldStartBest(S) == FirstFrom({w \in S : ~\E v \in S : coldStartLess(v, w)})

----------------------------------------------------------------------------
(* PickWorker of each policy, for a non-empty set of eligible workers.     *)

balancedPick == {FirstFrom(Eligible)}

resourcePick ==
    {FirstFrom({w \in Eligible : \A v \in Eligible : observedPressure(w) <= observedPressure(v)})}

coldStartPick == {coldStartBest(Eligible)}

imagePick ==
    LET hits == {w \in Eligible : WorkerHasCachedImage(w)}
    IN  {coldStartBest(IF hits # {} THEN hits ELSE Eligible)}

\* The better of two random eligible workers, the first drawn if they are equal.
reservationPick ==
    {w \in Eligible : Eligible = {w} \/ \E v \in Eligible \ {w} : ~coldStartLess(v, w)}

\* Mutant: the chain's choice is not checked again.
boundedPickUnchecked(position) ==
    LET loads == [w \in WorkerID |-> IF w \in Eligible THEN report[w].signal ELSE LoadBound + 1]
    IN  {Forward(workerRing, loads, LoadBound, WorkerChainLen, Home(workerRing, position))}

\* A worker that cannot take a start counts as just above the bound, which may
\* still be the lowest load of all.
boundedPick(position) ==
    LET loads == [w \in WorkerID |-> IF w \in Eligible THEN report[w].signal ELSE LoadBound + 1]
        w == Forward(workerRing, loads, LoadBound, WorkerChainLen, Home(workerRing, position))
    IN  {IF w \in Eligible THEN w ELSE LeastLoaded(Eligible, loads)}

PickWorker(position) ==
    IF Eligible = {} /\ scheduler # "bounded_loads" THEN {}
    ELSE CASE scheduler = "balanced_round_robin" -> balancedPick
           [] scheduler = "resource_aware" -> resourcePick
           [] scheduler = "cold_start_aware" -> coldStartPick
           [] scheduler = "reservation_aware" -> reservationPick
           [] scheduler = "image_aware" -> imagePick
           [] scheduler = "bounded_loads" -> boundedPick(position) \ {None}

\* The rotation moves past the chosen worker, or by one for every call.
CursorAfter(w) ==
    CASE scheduler = "balanced_round_robin" -> (cursor + 1) % Cardinality(WorkerID)
      [] scheduler \in {"resource_aware", "cold_start_aware", "image_aware"} -> w % Cardinality(WorkerID)
      [] OTHER -> 0

----------------------------------------------------------------------------
StartSandbox(position) ==
    \E w \in PickWorker(position) :
      /\ cursor' = CursorAfter(w)
      /\ starting' = [starting EXCEPT ![w] = @ + 1]
      /\ pendingImages' = IF trackImages THEN [pendingImages EXCEPT ![w] = @ + 1] ELSE pendingImages
      /\ UNCHANGED <<scheduler, workerRing, report, running, knownImages>>

finishImage(w, committed) ==
    /\ pendingImages' = [pendingImages EXCEPT ![w] = IF @ > 0 THEN @ - 1 ELSE 0]
    /\ knownImages' = IF committed /\ trackImages THEN knownImages \cup {w} ELSE knownImages

\* CommitReservation and CancelReservation.
Finish(w, committed) ==
    /\ starting[w] > 0
    /\ starting' = [starting EXCEPT ![w] = @ - 1]
    /\ running' = IF committed THEN [running EXCEPT ![w] = @ + 1] ELSE running
    /\ finishImage(w, committed)
    /\ UNCHANGED <<scheduler, workerRing, cursor, report>>

Stop(w) ==
    /\ running[w] > 0
    /\ running' = [running EXCEPT ![w] = @ - 1]
    /\ UNCHANGED <<scheduler, workerRing, cursor, report, starting, pendingImages, knownImages>>

\* A worker's report carries the signals the policy asked for (NeedsFor).
Report(w, up, signal, cached) ==
    /\ scheduler = "balanced_round_robin" => signal = 0
    /\ cached => scheduler = "image_aware"
    /\ report' = [report EXCEPT ![w] = [known |-> TRUE, up |-> up, signal |-> signal, cached |-> cached]]
    /\ UNCHANGED <<scheduler, workerRing, cursor, starting, running, pendingImages, knownImages>>

\* A reload drops reports and images; starts in flight go on.
Reload(policy) ==
    /\ scheduler' = policy
    /\ workerRing' \in NewFromConfig(policy)
    /\ cursor' = 0
    /\ report' = [w \in WorkerID |-> NoTelemetry]
    /\ pendingImages' = [w \in WorkerID |-> 0]
    /\ knownImages' = {}
    /\ UNCHANGED <<starting, running>>

WorkerPosition == 1..(Len(workerRing) + 1)

SchedulerNext ==
    \/ \E position \in WorkerPosition : StartSandbox(position)
    \/ \E w \in WorkerID, committed \in BOOLEAN : Finish(w, committed)
    \/ \E w \in WorkerID : Stop(w)
    \/ \E w \in WorkerID, up, cached \in BOOLEAN, signal \in Signal : Report(w, up, signal, cached)
    \/ \E policy \in Schedulers : Reload(policy)

SchedulerSpec == SchedulerInit /\ [][SchedulerNext]_schedulerVars

----------------------------------------------------------------------------
\* Every policy chooses a worker that can take a start, and finds one whenever
\* there is one, although scores, chains and penalties rank also the others
\* (PickWorker, Forward, leastLoadedEligible).
PickEligible ==
    \A position \in WorkerPosition :
      LET chosen == PickWorker(position)
      IN  chosen \subseteq Eligible /\ (chosen = {} <=> Eligible = {})

=============================================================================
