--------------------------- MODULE ActuatorProofs ---------------------------
(***************************************************************************)
(* The actuator of Actuator.tla for any set of instances, any limits and   *)
(* any target: it uses the worker as WorkerContract allows, its counters   *)
(* are the sizes of what they count, it evicts only what the worker no     *)
(* longer has, it stops only down to the target, and what it serves it     *)
(* tracks.                                                                 *)
(***************************************************************************)
EXTENDS Actuator, FiniteSetTheorems, TLAPS

----------------------------------------------------------------------------
(* The worker's side                                                       *)

RemovalEvent == [id : Instance, rev : Nat]

ContractTypes ==
    /\ instances \subseteq Instance /\ stateRevision \in Nat
    /\ createRev \in [Instance -> Nat]
    /\ create \in [Instance -> {"none", "begun", "recorded", "created", "failed"}]
    /\ removals \in Seq(RemovalEvent)

\* Neither an instance of the record nor one whose removal was reported can
\* enter the record again.
OnlyOnce ==
    /\ \A i \in instances : create[i] \notin {"none", "begun"}
    /\ \A k \in 1..Len(removals) :
         create[removals[k].id] \notin {"none", "begun"} /\ removals[k].id \notin instances

ContractInv == ContractTypes /\ OnlyOnce

\* The events on their way are about instances.
LEMMA RemovalTyped ==
    ASSUME ContractTypes, NEW k \in 1..Len(removals)
    PROVE  removals[k].id \in Instance /\ removals[k].rev \in Nat
<1>1. removals[k] \in RemovalEvent
  BY DEF ContractTypes
<1> QED
  BY <1>1, Zenon DEF RemovalEvent

\* What a step of the worker, or a call of the leaf, does to the record keeps
\* the types.
LEMMA ContractTyped ==
    ASSUME ContractTypes, [ContractNext]_workerVars
    PROVE  ContractTypes'
<1> USE DEF ContractTypes
<1>1. CASE Received
  <2>1. PICK n \in 1..Len(removals) : removals' = SubSeq(removals, n + 1, Len(removals))
    BY <1>1, Zenon DEF Received
  <2>2. removals' \in Seq(RemovalEvent)
    BY <2>1
  <2> QED
    BY <1>1, <2>2, Zenon DEF Received
<1>2. ASSUME NEW i \in Instance, CreateCall(i) \/ StopCall(i) PROVE ContractTypes'
  BY <1>2, Zenon DEF CreateCall, StopCall
<1>3. ASSUME NEW i \in Instance, Record(i) \/ Created(i) \/ CreateFails(i) PROVE ContractTypes'
  BY <1>3, SMTT(60) DEF Record, Created, CreateFails, Forget
<1>4. ASSUME NEW i \in Instance, StopOK(i) \/ StopGone(i) PROVE ContractTypes'
  BY <1>4 DEF StopOK, StopGone, Forget
<1>5. ASSUME NEW i \in Instance, Exited(i) PROVE ContractTypes'
  <2>1. instances' \subseteq Instance /\ stateRevision' \in Nat /\ createRev' = createRev /\ create' = create
    BY <1>5 DEF Exited, Forget
  <2>2. [id |-> i, rev |-> stateRevision'] \in RemovalEvent
    BY <2>1, Zenon DEF RemovalEvent
  <2>3. removals' \in Seq(RemovalEvent)
    BY <1>5, <2>2 DEF Exited
  <2> QED
    BY <2>1, <2>3, Zenon
<1>6. CASE UNCHANGED workerVars
  BY <1>6, Zenon DEF workerVars
<1> QED
  BY <1>1, <1>2, <1>3, <1>4, <1>5, <1>6, Zenon DEF ContractNext, Worker

\* An instance ID is recorded once: only an ID whose creation has just begun
\* enters the record.
LEMMA ContractStep ==
    ASSUME ContractInv, [ContractNext]_workerVars
    PROVE  ContractInv'
<1>0. ContractTypes /\ ContractTypes' /\ OnlyOnce
  BY ContractTyped, Zenon DEF ContractInv
<1> USE DEF OnlyOnce
<1>1. CASE Received
  <2>1. UNCHANGED <<instances, create>>
    BY <1>1, Zenon DEF Received
  <2>2. PICK n \in 1..Len(removals) : removals' = SubSeq(removals, n + 1, Len(removals))
    BY <1>1, Zenon DEF Received
  <2>3. \A k \in 1..Len(removals') : k + n \in 1..Len(removals) /\ removals'[k] = removals[k + n]
    BY <1>0, <2>2, SMTT(60) DEF ContractTypes
  <2> QED
    BY <1>0, <2>1, <2>3, Zenon DEF ContractInv
<1>2. ASSUME NEW i \in Instance, \/ CreateCall(i) \/ StopCall(i) \/ Record(i) \/ Created(i)
                                 \/ CreateFails(i) \/ StopOK(i) \/ StopGone(i)
      PROVE  ContractInv'
  <2>1. \A k \in 1..Len(removals) : removals[k].id \in Instance
    BY <1>0, RemovalTyped, Zenon
  <2>2. removals' = removals
    BY <1>2, Zenon DEF CreateCall, StopCall, Record, Created, CreateFails, StopOK, StopGone
  <2>3. \A j \in Instance : create[j] \notin {"none", "begun"} => create'[j] \notin {"none", "begun"}
    BY <1>0, <1>2, Zenon
       DEF ContractTypes, CreateCall, StopCall, Record, Created, CreateFails, StopOK, StopGone
  <2>4. \A j \in Instance : j \in instances' =>
           \/ j \in instances
           \/ create[j] \in {"none", "begun"} /\ create'[j] \notin {"none", "begun"}
    BY <1>0, <1>2, ZenonT(60)
       DEF ContractTypes, CreateCall, StopCall, Record, Created, CreateFails, StopOK, StopGone, Forget
  <2> QED
    BY <1>0, <2>1, <2>2, <2>3, <2>4, Zenon DEF ContractInv, ContractTypes
<1>3. ASSUME NEW i \in Instance, Exited(i) PROVE ContractInv'
  <2>1. i \in instances /\ instances' = instances \ {i} /\ create' = create
    BY <1>3, Zenon DEF Exited, Forget
  <2>2. \A k \in 1..Len(removals') :
          removals'[k].id = i \/ (k \in 1..Len(removals) /\ removals'[k] = removals[k])
    BY <1>0, <1>3 DEF Exited, ContractTypes
  <2> QED
    BY <1>0, <2>1, <2>2, Zenon DEF ContractInv
<1>4. CASE UNCHANGED workerVars
  BY <1>0, <1>4, Zenon DEF workerVars, ContractInv
<1> QED
  BY <1>1, <1>2, <1>3, <1>4, ZenonT(60) DEF ContractNext, Worker

\* Every step of the actuator is a step the contract allows, or leaves the
\* worker alone.
LEMMA UsesContract ==
    ASSUME [Next]_vars
    PROVE  [ContractNext]_workerVars
<1>1. ASSUME NEW i \in Instance, Worker(i) PROVE ContractNext
  BY <1>1, Zenon DEF ContractNext
<1>2. ASSUME NEW i \in Instance, Job(i) \/ JobTimeout(i) PROVE UNCHANGED workerVars
  BY <1>2, Zenon DEF Job, JobAnswered, JobServe, JobTrack, JobFail, JobTimeout, OnlyJob
<1>3. ASSUME NEW i \in Instance, Stopper(i) \/ StopDrainTimeout(i) \/ StopFails(i)
      PROVE  ContractNext \/ UNCHANGED workerVars
  BY <1>3, Zenon
     DEF Stopper, StopDrain, StopDrainRefused, StopDrained, StopAnswered, cancelStop, StopRemove,
         StopOvertaken, StopEffects, StopDrainTimeout, StopFails, ContractNext
<1>4. ASSUME NEW o \in Owner, ScaleDown(o) PROVE UNCHANGED workerVars
  BY <1>4, Zenon DEF ScaleDown, DelayBegins, DelayElapses, DelayWoken, ChooseVictims, StopsDone, OnlyOwner
<1>5. ASSUME NEW enforceTarget, NEW reason, Reserve(enforceTarget, reason) PROVE ContractNext
  BY <1>5, Zenon DEF Reserve, ContractNext
<1>6. CASE Pump \/ PumpRetries \/ \E reason \in {"cold-start", "scale"} : EnsureCapacity(reason)
  BY <1>5, <1>6, Zenon
     DEF Pump, PumpTop, PumpStart, PumpIdle, PumpWoken, PumpEnds, DelayCancelled, PumpRetries,
         EnsureCapacity, OnlyOwner
<1>7. CASE Reports \/ EventStreamBreaks
  BY <1>7, Zenon
     DEF Reports, SampleState, handleSandboxRemoved, setWorkerState, evictTracked, EventStreamBreaks,
         ContractNext
<1>8. CASE DeleteFunction \/ Deletion \/ \E d \in 0..MaxTarget : Reconcile(d)
  BY <1>8, Zenon DEF DeleteFunction, Deletion, StopAll, Close, Reconcile, ApplyScale
<1>9. CASE UNCHANGED vars
  BY <1>9, Zenon DEF vars
<1> QED
  BY <1>1, <1>2, <1>3, <1>4, <1>6, <1>7, <1>8, <1>9, ZenonT(60) DEF Next

\* The actuator drives its worker by the contract: one creation per ID, stops
\* only of what was created for it.
THEOREM DrivesByContract == Spec => Contract
<1>1. Init => WorkerInit
  BY Zenon DEF Init
<1>2. [Next]_vars => [ContractNext]_workerVars
  BY UsesContract, Zenon
<1> QED
  BY <1>1, <1>2, PTL DEF Spec, Contract

----------------------------------------------------------------------------
(* The counters                                                            *)

\* The starts under way, given where each goroutine is.
PendingIn(j) == {i \in Instance : j[i] \notin {"none", "done"}}

\* The actuator's counters are the sizes of what they count.
CountersExact ==
    /\ totalInstances = Cardinality(tracked)
    /\ pendingStarts = Cardinality(Pending)
    /\ pendingStops = Cardinality(stopping)

JobPlace == {"none", "create", "created", "served", "fail", "done"}

\* An ID is started once and tracked when its start is done; only what is
\* tracked is being stopped.
TaskInv ==
    /\ tracked \subseteq Instance /\ stopping \subseteq tracked
    /\ job \in [Instance -> JobPlace]
    /\ \A i \in Instance : create[i] = "none" => job[i] = "none"
    /\ \A i \in tracked : job[i] = "done"

CountInv == TaskInv /\ CountersExact

----------------------------------------------------------------------------
(* What is served                                                          *)

ServeTypes ==
    /\ pool \in [Instance -> {"out", "in", "draining"}]
    /\ stopper \in [Instance -> {"none", "drain", "draining", "call", "cancel", "remove", "effects"}]
    /\ evicting \in [Path -> SUBSET Instance]

ServeInv == ServeTypes /\ ServedIsTracked

----------------------------------------------------------------------------
(* The snapshots on their way                                              *)

SnapshotFrame == [ids : SUBSET Instance, rev : Nat]

\* A snapshot may be old, but what it leaves out of the record was recorded
\* after it or is gone.
FramesTrue ==
    /\ frames \in Seq(SnapshotFrame)
    /\ \A k \in 1..Len(frames) :
         /\ frames[k].rev <= stateRevision
         /\ \A i \in instances : createRev[i] <= frames[k].rev => i \in frames[k].ids

TargetTypes == targetInstances \in Nat /\ count \in [Owner -> Int]

ActuatorInv == ContractInv /\ CountInv /\ ServeInv /\ FramesTrue /\ TargetTypes

----------------------------------------------------------------------------
\* The finite sets that are counted.
LEMMA CountedFinite ==
    ASSUME TaskInv
    PROVE  /\ IsFiniteSet(tracked) /\ Cardinality(tracked) \in Nat
           /\ IsFiniteSet(stopping) /\ Cardinality(stopping) \in Nat
           /\ IsFiniteSet(PendingIn(job)) /\ Cardinality(PendingIn(job)) \in Nat
           /\ Pending = PendingIn(job)
<1>1. tracked \in SUBSET Instance /\ stopping \in SUBSET Instance /\ PendingIn(job) \in SUBSET Instance
  BY Zenon DEF TaskInv, PendingIn
<1>2. IsFiniteSet(tracked) /\ IsFiniteSet(stopping) /\ IsFiniteSet(PendingIn(job))
  BY <1>1, FS_Subset, WorkerAssumption, Zenon
<1>3. Pending = PendingIn(job)
  BY Zenon DEF Pending, PendingIn
<1> QED
  BY <1>2, <1>3, FS_CardinalityType, Zenon

\* Of a set, S goes and the rest stays.
LEMMA CountWithout ==
    ASSUME NEW T, IsFiniteSet(T), NEW S
    PROVE  Cardinality(T \ S) = Cardinality(T) - Cardinality(S \cap T)
<1>1. S \cap T = T \cap S
  BY Zenon
<1>2. Cardinality(T \ S) = Cardinality(T) - Cardinality(T \cap S)
  BY FS_Difference, Zenon
<1> QED
  BY <1>1, <1>2, Zenon

\* Sandboxes leave the actuator's record: the counters follow.
LEMMA UntrackCounts ==
    ASSUME CountInv, NEW S, Untrack(S), job' = job,
           \A i \in Instance : create'[i] = "none" => create[i] = "none"
    PROVE  CountInv'
<1>1. TaskInv'
  BY Zenon DEF CountInv, TaskInv, Untrack
<1>2. Cardinality(tracked \ S) = Cardinality(tracked) - Cardinality(S \cap tracked)
  BY CountedFinite, CountWithout, Zenon DEF CountInv
<1>3. Cardinality(stopping \ S) = Cardinality(stopping) - Cardinality(S \cap stopping)
  BY CountedFinite, CountWithout, Zenon DEF CountInv
<1>4. Pending' = Pending
  BY Zenon DEF Pending
<1> QED
  BY <1>1, <1>2, <1>3, <1>4, Zenon DEF CountInv, CountersExact, Untrack

\* A start is reserved for an ID that never had one.
LEMMA ReserveCounts ==
    ASSUME CountInv, ContractTypes, NEW enforceTarget, NEW reason, Reserve(enforceTarget, reason)
    PROVE  CountInv'
<1>1. PICK i \in Instance : CreateCall(i) /\ job' = [job EXCEPT ![i] = "create"]
  BY Zenon DEF Reserve
<1>2. create[i] = "none" /\ create' = [create EXCEPT ![i] = "begun"]
  BY <1>1, Zenon DEF CreateCall
<1>3. UNCHANGED <<tracked, stopping, totalInstances, pendingStops>> /\ pendingStarts' = pendingStarts + 1
  BY Zenon DEF Reserve
<1>4. job[i] = "none" /\ TaskInv'
  BY <1>1, <1>2, <1>3, Zenon DEF CountInv, TaskInv, ContractTypes, JobPlace
<1>5. PendingIn(job') = PendingIn(job) \cup {i} /\ i \notin PendingIn(job)
  BY <1>1, <1>4 DEF PendingIn, CountInv, TaskInv
<1>6. Cardinality(PendingIn(job')) = Cardinality(PendingIn(job)) + 1
  BY <1>5, FS_AddElement, CountedFinite, ZenonT(60) DEF CountInv
<1>7. Pending = PendingIn(job) /\ Pending' = PendingIn(job')
  BY Zenon DEF Pending, PendingIn
<1> QED
  BY <1>3, <1>4, <1>6, <1>7, Zenon DEF CountInv, CountersExact

\* A start that goes on is still pending; one that ends is counted out, and
\* tracked if it succeeded.
LEMMA JobCounts ==
    ASSUME CountInv, NEW i \in Instance, Job(i) \/ JobTimeout(i)
    PROVE  CountInv'
<1>0. TaskInv /\ CountersExact /\ job \in [Instance -> JobPlace]
  BY Zenon DEF CountInv, TaskInv
<1>1. /\ UNCHANGED <<create, stopping, pendingStops>>
      /\ \E to \in JobPlace \ {"none"} : job' = [job EXCEPT ![i] = to]
      /\ job[i] \notin {"none", "done"}
  BY <1>0, Zenon
     DEF Job, JobAnswered, JobServe, JobTrack, JobFail, JobTimeout, JobAt, OnlyJob, workerVars, countVars,
         JobPlace
<1>2. /\ tracked \subseteq tracked' /\ tracked' \subseteq tracked \cup {i}
      /\ i \in tracked' => job'[i] = "done" \/ i \in tracked
  BY <1>0, Zenon DEF Job, JobAnswered, JobServe, JobTrack, JobFail, JobTimeout, JobAt, OnlyJob, countVars
<1>3. TaskInv'
  BY <1>0, <1>1, <1>2 DEF TaskInv
<1>4. i \notin tracked /\ i \in PendingIn(job)
  BY <1>0, <1>1, Zenon DEF TaskInv, PendingIn
<1>5. Pending = PendingIn(job) /\ Pending' = PendingIn(job')
  BY Zenon DEF Pending, PendingIn
<1>6. ASSUME job'[i] # "done" PROVE PendingIn(job') = PendingIn(job)
  BY <1>0, <1>1, <1>4, <1>6, ZenonT(60) DEF PendingIn
<1>7. ASSUME job'[i] = "done" PROVE Cardinality(PendingIn(job')) = Cardinality(PendingIn(job)) - 1
  <2>1. PendingIn(job') = PendingIn(job) \ {i}
    BY <1>0, <1>1, <1>7, Zenon DEF PendingIn
  <2> QED
    BY <1>0, <1>4, <2>1, FS_RemoveElement, CountedFinite, ZenonT(60)
<1>8. CASE JobAnswered(i) \/ JobServe(i) \/ JobTimeout(i)
  <2>1. UNCHANGED <<tracked, totalInstances, pendingStarts>> /\ job'[i] # "done"
    BY <1>0, <1>8, Zenon DEF JobAnswered, JobServe, JobTimeout, JobAt, countVars
  <2> QED
    BY <1>0, <1>1, <1>3, <1>5, <1>6, <2>1, ZenonT(60) DEF CountInv, CountersExact
<1>9. CASE JobFail(i)
  <2>1. UNCHANGED <<tracked, totalInstances>> /\ pendingStarts' = pendingStarts - 1 /\ job'[i] = "done"
    BY <1>0, <1>9, Zenon DEF JobFail, JobAt
  <2> QED
    BY <1>0, <1>1, <1>3, <1>5, <1>7, <2>1, Zenon DEF CountInv, CountersExact
<1>10. CASE JobTrack(i)
  <2>1. /\ tracked' = tracked \cup {i} /\ totalInstances' = totalInstances + 1
        /\ pendingStarts' = pendingStarts - 1 /\ job'[i] = "done"
    BY <1>0, <1>10, Zenon DEF JobTrack, JobAt
  <2>2. Cardinality(tracked') = Cardinality(tracked) + 1
    BY <1>0, <1>4, <2>1, FS_AddElement, CountedFinite, Zenon
  <2> QED
    BY <1>0, <1>1, <1>3, <1>5, <1>7, <2>1, <2>2, ZenonT(60) DEF CountInv, CountersExact
<1> QED
  BY <1>8, <1>9, <1>10, Zenon DEF Job

\* Victims are tracked and not yet marked.
LEMMA VictimCounts ==
    ASSUME CountInv, NEW S \in SUBSET (tracked \ stopping),
           stopping' = stopping \cup S, pendingStops' = pendingStops + Cardinality(S),
           UNCHANGED <<create, job, tracked, totalInstances, pendingStarts>>
    PROVE  /\ CountInv' /\ Cardinality(S) \in Nat
           /\ Cardinality(stopping') = Cardinality(stopping) + Cardinality(S)
<1>1. S \in SUBSET Instance /\ S \cap stopping = {}
  BY Zenon DEF CountInv, TaskInv
<1>2. IsFiniteSet(S) /\ Cardinality(S) \in Nat
  BY <1>1, FS_Subset, FS_CardinalityType, WorkerAssumption, Zenon
<1>3. Cardinality(stopping') = Cardinality(stopping) + Cardinality(S)
  <2>1. stopping \cap S = {}
    BY <1>1, Zenon
  <2>2. IsFiniteSet(stopping) /\ Cardinality(stopping) \in Nat
    BY CountedFinite, Zenon DEF CountInv
  <2>3. Cardinality(stopping \cup S) = Cardinality(stopping) + Cardinality(S) - Cardinality({})
    BY <1>2, <2>1, <2>2, FS_Union, Zenon
  <2> QED
    BY <1>2, <2>2, <2>3, FS_EmptySet
<1>4. TaskInv' /\ Pending' = Pending
  BY Zenon DEF CountInv, TaskInv, Pending
<1> QED
  BY <1>2, <1>3, <1>4, Zenon DEF CountInv, CountersExact

\* Only an eviction is believed that the record confirms, and every counter
\* keeps counting: one step for each group of actions.
LEMMA CountStep ==
    ASSUME ContractInv, CountInv, [Next]_vars
    PROVE  CountInv'
<1>0. ContractTypes /\ TaskInv /\ CountersExact
  BY Zenon DEF ContractInv, CountInv
<1> DEFINE Same == UNCHANGED <<countVars, job>>
<1>1. \A i \in Instance : create'[i] = "none" => create[i] = "none"
  BY <1>0, UsesContract, Zenon
     DEF ContractTypes, ContractNext, CreateCall, StopCall, Worker, Record, Created, CreateFails, StopOK,
         StopGone, Exited, Received, workerVars
<1>2. ASSUME Same PROVE CountInv'
  BY <1>0, <1>1, <1>2, Zenon DEF CountInv, TaskInv, CountersExact, Pending, countVars
<1>3. ASSUME NEW i \in Instance, Worker(i) /\ UNCHANGED leafVars PROVE Same
  BY <1>3, Zenon DEF leafVars, taskVars
<1>4. ASSUME NEW i \in Instance, \/ StopDrain(i) \/ StopDrainRefused(i) \/ StopDrained(i) \/ StopAnswered(i)
                                 \/ StopOvertaken(i) \/ StopEffects(i) \/ StopDrainTimeout(i) \/ StopFails(i)
      PROVE  Same
  BY <1>4, Zenon
     DEF StopDrain, StopDrainRefused, StopDrained, StopAnswered, StopOvertaken, StopEffects,
         StopDrainTimeout, StopFails, OnlyStopper
<1>5. ASSUME NEW i \in Instance, cancelStop(i) PROVE CountInv'
  <2>1. /\ stopping' = stopping \ {i} /\ pendingStops' = IF i \in stopping THEN pendingStops - 1 ELSE pendingStops
        /\ UNCHANGED <<tracked, totalInstances, pendingStarts, job>>
    BY <1>5, Zenon DEF cancelStop, OnlyStopper
  <2>2. Cardinality(stopping') = pendingStops'
    BY <1>0, <2>1, FS_RemoveElement, CountedFinite, Zenon DEF CountersExact
  <2>3. TaskInv' /\ Pending' = Pending
    BY <1>0, <1>1, <2>1, Zenon DEF TaskInv, Pending
  <2> QED
    BY <1>0, <2>1, <2>2, <2>3, ZenonT(60) DEF CountInv, CountersExact
<1>6. ASSUME NEW i \in Instance, StopRemove(i) PROVE CountInv'
  BY <1>1, <1>6, UntrackCounts, ZenonT(60) DEF StopRemove, OnlyStopper
<1>7. ASSUME NEW o \in Owner, ChooseVictims(o) PROVE CountInv'
  <2>1. PICK S \in Victims(o) : stopping' = stopping \cup S /\ pendingStops' = pendingStops + Cardinality(S)
    BY <1>7, Zenon DEF ChooseVictims
  <2>2. S \in SUBSET (tracked \ stopping)
    BY <2>1, Zenon DEF Victims
  <2>3. UNCHANGED <<create, job, tracked, totalInstances, pendingStarts>>
    BY <1>7, Zenon DEF ChooseVictims, workerVars
  <2> QED
    BY <2>1, <2>2, <2>3, VictimCounts, ZenonT(60)
<1>8. ASSUME NEW o \in Owner, DelayBegins(o) \/ DelayElapses(o) \/ DelayWoken(o) \/ StopsDone(o) PROVE Same
  BY <1>8, Zenon DEF DelayBegins, DelayElapses, DelayWoken, StopsDone, OnlyOwner, taskVars
<1>9. CASE PumpStart \/ \E reason \in {"cold-start", "scale"} : EnsureCapacity(reason)
  BY <1>0, <1>9, ReserveCounts, Zenon DEF PumpStart, EnsureCapacity
<1>10. CASE PumpTop \/ PumpIdle \/ PumpWoken \/ PumpEnds \/ DelayCancelled \/ PumpRetries
  <2>1. Same
    BY <1>10, Zenon DEF PumpTop, PumpIdle, PumpWoken, PumpEnds, DelayCancelled, PumpRetries, OnlyOwner, taskVars
  <2> QED
    BY <1>2, <2>1, Zenon
<1>11. CASE handleSandboxRemoved
  BY <1>1, <1>11, UntrackCounts, ZenonT(60) DEF handleSandboxRemoved, HandleSandboxRemoved
<1>12. CASE setWorkerState
  BY <1>1, <1>12, UntrackCounts, Zenon DEF setWorkerState, ReconcileWorkerState
<1>13. CASE \/ SampleState \/ EventStreamBreaks \/ DeleteFunction \/ Deletion
            \/ (\E p \in Path : evictTracked(p)) \/ \E d \in 0..MaxTarget : Reconcile(d)
  <2>1. Same
    BY <1>13, Zenon
       DEF SampleState, EventStreamBreaks, DeleteFunction, Deletion, StopAll, Close, evictTracked,
           Reconcile, ApplyScale, leafVars, taskVars
  <2> QED
    BY <1>2, <2>1, Zenon
<1>14. CASE UNCHANGED vars
  BY <1>2, <1>14, Zenon DEF vars, leafVars, taskVars
<1>15. ASSUME NEW i \in Instance, Job(i) \/ JobTimeout(i) PROVE CountInv'
  BY <1>15, JobCounts, Zenon
<1> HIDE DEF Same
<1>16. ASSUME NEW i \in Instance, Stopper(i) \/ StopDrainTimeout(i) \/ StopFails(i) PROVE CountInv'
  BY <1>2, <1>4, <1>5, <1>6, <1>16, Zenon DEF Stopper
<1>17. ASSUME NEW o \in Owner, ScaleDown(o) PROVE CountInv'
  BY <1>2, <1>7, <1>8, <1>17, Zenon DEF ScaleDown
<1> QED
  BY <1>2, <1>3, <1>9, <1>10, <1>11, <1>12, <1>13, <1>14, <1>15, <1>16, <1>17, ZenonT(60)
     DEF Next, Pump, Reports

----------------------------------------------------------------------------
\* Whatever takes a sandbox out of the record has put it where its removal
\* from the pool is due.
LEMMA ServeStep ==
    ASSUME ServeInv, TaskInv, [Next]_vars
    PROVE  ServeInv'
<1> USE DEF ServeInv, ServeTypes, ServedIsTracked, Path
<1>0. job \in [Instance -> JobPlace]
  BY Zenon DEF TaskInv
<1> DEFINE Same == UNCHANGED <<pool, stopper, evicting>>
<1>1. ASSUME Same, tracked' = tracked, job' = job PROVE ServeInv'
  BY <1>1, Zenon
<1>2. ASSUME NEW i \in Instance, Job(i) \/ JobTimeout(i) PROVE ServeInv'
  BY <1>0, <1>2, SMTT(60)
     DEF Job, JobAnswered, JobServe, JobTrack, JobFail, JobTimeout, JobAt, OnlyJob, countVars, servingVars
<1>3. ASSUME NEW i \in Instance, \/ StopDrain(i) \/ StopDrainRefused(i) \/ StopDrained(i) \/ StopDrainTimeout(i)
                                 \/ StopFails(i) \/ cancelStop(i) \/ StopOvertaken(i)
      PROVE  ServeInv'
  BY <1>3, SMTT(60)
     DEF StopDrain, StopDrainRefused, StopDrained, StopDrainTimeout, StopFails, cancelStop, StopOvertaken,
         StopperAt, StopperEnds, Restored, OnlyStopper, countVars, servingVars
<1>4. ASSUME NEW i \in Instance, StopAnswered(i) \/ StopRemove(i) \/ StopEffects(i) PROVE ServeInv'
  BY <1>4, SMTT(60)
     DEF StopAnswered, StopRemove, StopEffects, StopperAt, StopperEnds, Untrack, OnlyStopper, countVars,
         servingVars
<1>5. ASSUME NEW o \in Owner, ChooseVictims(o) PROVE ServeInv'
  <2>1. PICK S : stopper' = [i \in Instance |-> IF i \in S THEN "drain" ELSE stopper[i]] /\ S \subseteq tracked
    BY <1>5, Zenon DEF ChooseVictims, Victims
  <2>2. UNCHANGED <<pool, evicting, job, tracked>>
    BY <1>5, Zenon DEF ChooseVictims, servingVars
  <2> QED
    BY <2>1, <2>2, Zenon
<1>6. ASSUME NEW o \in Owner, DelayBegins(o) \/ DelayElapses(o) \/ DelayWoken(o) \/ StopsDone(o) PROVE ServeInv'
  BY <1>1, <1>6, Zenon
     DEF DelayBegins, DelayElapses, DelayWoken, StopsDone, OnlyOwner, taskVars, servingVars, countVars
<1>7. ASSUME NEW enforceTarget, NEW reason, Reserve(enforceTarget, reason) PROVE ServeInv'
  <2>1. PICK i \in Instance : create[i] = "none" /\ job' = [job EXCEPT ![i] = "create"]
    BY <1>7, Zenon DEF Reserve, CreateCall
  <2>2. UNCHANGED <<pool, evicting, stopper, tracked>>
    BY <1>7, Zenon DEF Reserve, servingVars
  <2>3. job[i] = "none"
    BY <2>1, Zenon DEF TaskInv
  <2> QED
    BY <1>0, <2>1, <2>2, <2>3, ZenonT(60)
<1>8. CASE PumpStart \/ \E reason \in {"cold-start", "scale"} : EnsureCapacity(reason)
  BY <1>7, <1>8, ZenonT(60) DEF PumpStart, EnsureCapacity
<1>9. CASE PumpTop \/ PumpIdle \/ PumpWoken \/ PumpEnds \/ DelayCancelled \/ PumpRetries
  BY <1>1, <1>9, Zenon
     DEF PumpTop, PumpIdle, PumpWoken, PumpEnds, DelayCancelled, PumpRetries, OnlyOwner, taskVars,
         servingVars, countVars
<1>10. ASSUME NEW p \in Path, NEW gone \in SUBSET tracked, evicting[p] = {},
              evicting' = [evicting EXCEPT ![p] = gone], tracked' = tracked \ gone,
              UNCHANGED <<pool, stopper, job>>
       PROVE  ServeInv'
  BY <1>10, Zenon DEF TaskInv
<1>11. CASE handleSandboxRemoved
  <2> DEFINE e == Head(removals)
             gone == IF e.id \in tracked /\ ~(e.rev < createRev[e.id]) THEN {e.id} ELSE {}
  <2>1. /\ evicting["event"] = {} /\ evicting' = [evicting EXCEPT !["event"] = gone]
        /\ tracked' = tracked \ gone /\ UNCHANGED <<pool, stopper, job>>
    BY <1>11, Zenon DEF handleSandboxRemoved, HandleSandboxRemoved, Untrack, servingVars
  <2>2. gone \in SUBSET tracked
    BY Zenon
  <2> QED
    BY <1>10, <2>1, <2>2, Zenon
<1>12. CASE setWorkerState
  <2>1. /\ evicting["relist"] = {} /\ evicting' = [evicting EXCEPT !["relist"] = Missing(Head(frames))]
        /\ tracked' = tracked \ Missing(Head(frames)) /\ UNCHANGED <<pool, stopper, job>>
    BY <1>12, Zenon DEF setWorkerState, ReconcileWorkerState, Untrack, servingVars
  <2>2. Missing(Head(frames)) \in SUBSET tracked
    BY Zenon DEF Missing
  <2> QED
    BY <1>10, <2>1, <2>2, ZenonT(60)
<1>13. ASSUME NEW p \in Path, evictTracked(p) PROVE ServeInv'
  BY <1>13, Zenon DEF evictTracked, countVars
<1>14. CASE SampleState \/ EventStreamBreaks \/ DeleteFunction \/ Deletion \/ \E d \in 0..MaxTarget : Reconcile(d)
  BY <1>1, <1>14, Zenon
     DEF SampleState, EventStreamBreaks, DeleteFunction, Deletion, StopAll, Close, Reconcile, ApplyScale,
         leafVars, taskVars, servingVars, countVars
<1>15. CASE UNCHANGED vars
  BY <1>1, <1>15, Zenon DEF vars, leafVars, taskVars, servingVars, countVars
<1>16. ASSUME NEW i \in Instance, Worker(i) /\ UNCHANGED leafVars PROVE ServeInv'
  BY <1>1, <1>16, Zenon DEF leafVars, taskVars, servingVars, countVars
<1>17. ASSUME NEW i \in Instance, Stopper(i) \/ StopDrainTimeout(i) \/ StopFails(i) PROVE ServeInv'
  BY <1>3, <1>4, <1>17, Zenon DEF Stopper
<1>18. ASSUME NEW o \in Owner, ScaleDown(o) PROVE ServeInv'
  BY <1>5, <1>6, <1>18, Zenon DEF ScaleDown
<1> QED
  BY <1>2, <1>8, <1>9, <1>11, <1>12, <1>13, <1>14, <1>15, <1>16, <1>17, <1>18, Zenon DEF Next, Pump, Reports

----------------------------------------------------------------------------
\* What can happen to the snapshots on their way.
LEMMA FrameMoves ==
    ASSUME [Next]_vars
    PROVE  \/ frames' = frames
           \/ UNCHANGED workerVars /\ frames' \in {<<>>, <<Snapshot>>}
           \/ UNCHANGED workerVars /\ frames # <<>> /\ frames' = Tail(frames)
<1>1. ASSUME NEW i \in Instance, Job(i) \/ JobTimeout(i) PROVE frames' = frames
  BY <1>1, Zenon DEF Job, JobAnswered, JobServe, JobTrack, JobFail, JobTimeout, OnlyJob
<1>2. ASSUME NEW i \in Instance, Stopper(i) \/ StopDrainTimeout(i) \/ StopFails(i) PROVE frames' = frames
  BY <1>2, Zenon
     DEF Stopper, StopDrain, StopDrainRefused, StopDrained, StopAnswered, cancelStop, StopRemove,
         StopOvertaken, StopEffects, StopDrainTimeout, StopFails, OnlyStopper
<1>3. ASSUME NEW o \in Owner, ScaleDown(o) PROVE frames' = frames
  BY <1>3, ZenonT(60) DEF ScaleDown, DelayBegins, DelayElapses, DelayWoken, ChooseVictims, StopsDone, OnlyOwner
<1>4. CASE Pump \/ PumpRetries \/ \E reason \in {"cold-start", "scale"} : EnsureCapacity(reason)
  BY <1>4, Zenon
     DEF Pump, PumpTop, PumpStart, PumpIdle, PumpWoken, PumpEnds, DelayCancelled, PumpRetries,
         EnsureCapacity, Reserve, OnlyOwner
<1>5. CASE Reports \/ EventStreamBreaks
  BY <1>5, Zenon
     DEF Reports, SampleState, handleSandboxRemoved, setWorkerState, evictTracked, EventStreamBreaks,
         leafVars
<1>6. CASE DeleteFunction \/ Deletion \/ \E d \in 0..MaxTarget : Reconcile(d)
  BY <1>6, Zenon DEF DeleteFunction, Deletion, StopAll, Close, Reconcile, ApplyScale
<1>7. CASE UNCHANGED vars
  BY <1>7, Zenon DEF vars, leafVars
<1>8. ASSUME NEW i \in Instance, Worker(i) /\ UNCHANGED leafVars PROVE frames' = frames
  BY <1>8, Zenon DEF leafVars
<1> QED
  BY <1>1, <1>2, <1>3, <1>4, <1>5, <1>6, <1>7, <1>8, ZenonT(60) DEF Next

\* A snapshot on its way stays true: what enters the record later has a later
\* revision.
LEMMA FrameStep ==
    ASSUME ContractInv, FramesTrue, [Next]_vars
    PROVE  FramesTrue'
<1>0. ContractTypes /\ ContractTypes' /\ [ContractNext]_workerVars
  BY ContractTyped, UsesContract, Zenon DEF ContractInv
<1> DEFINE True(f, record, revision, born) ==
             f.rev <= revision /\ \A i \in record : born[i] <= f.rev => i \in f.ids
<1>1. \A k \in 1..Len(frames) : frames[k] \in SnapshotFrame /\ True(frames[k], instances, stateRevision, createRev)
  BY SMTT(60) DEF FramesTrue
<1>2. CASE frames' = frames
  <2> DEFINE Later == /\ stateRevision' >= stateRevision
                      /\ \A i \in instances' : \/ i \in instances /\ createRev'[i] = createRev[i]
                                               \/ createRev'[i] > stateRevision
  <2>1. Later
    <3>1. ASSUME NEW j \in Instance, Record(j)
          PROVE  /\ stateRevision' = stateRevision + 1 /\ instances' = instances \cup {j}
                 /\ createRev' = [createRev EXCEPT ![j] = stateRevision + 1]
      BY <3>1, Zenon DEF Record
    <3>2. ASSUME NEW j \in Instance, Created(j) \/ CreateFails(j) \/ StopOK(j) \/ StopGone(j) \/ Exited(j)
                                     \/ CreateCall(j) \/ StopCall(j)
          PROVE  /\ stateRevision' >= stateRevision /\ instances' \subseteq instances /\ createRev' = createRev
      BY <1>0, <3>2
         DEF Created, CreateFails, StopOK, StopGone, Exited, CreateCall, StopCall, Forget, ContractTypes
    <3>3. ASSUME stateRevision' >= stateRevision, instances' \subseteq instances, createRev' = createRev
          PROVE  Later
      BY <3>3, Zenon
    <3>5. CASE Received \/ UNCHANGED workerVars
      BY <1>0, <3>5, SMTT(60) DEF Received, workerVars, ContractTypes
    <3>4. ASSUME NEW j \in Instance, Record(j) PROVE Later
      BY <1>0, <3>1, <3>4, SMTT(60) DEF ContractTypes
    <3> QED
      <4> HIDE DEF Later
      <4> QED
        BY <1>0, <3>2, <3>3, <3>4, <3>5, ZenonT(60) DEF ContractNext, Worker
  <2>2. ASSUME NEW f \in SnapshotFrame, True(f, instances, stateRevision, createRev)
        PROVE  True(f, instances', stateRevision', createRev')
    <3>1. f.rev \in Nat
      BY Zenon DEF SnapshotFrame
    <3>2. stateRevision \in Nat /\ stateRevision' \in Nat /\ \A i \in instances' : createRev'[i] \in Nat
      BY <1>0, Zenon DEF ContractTypes
    <3> QED
      BY <2>1, <2>2, <3>1, <3>2
  <2> HIDE DEF True
  <2>3. \A k \in 1..Len(frames') : True(frames'[k], instances', stateRevision', createRev')
    BY <1>1, <1>2, <2>2, Zenon
  <2> QED
    BY <1>2, <2>3, Zenon DEF FramesTrue, True
<1>3. CASE UNCHANGED workerVars /\ frames' \in {<<>>, <<Snapshot>>}
  <2>1. Snapshot \in SnapshotFrame /\ True(Snapshot, instances', stateRevision', createRev')
    BY <1>0, <1>3 DEF Snapshot, SnapshotFrame, workerVars, ContractTypes
  <2> HIDE DEF True
  <2>2. frames' \in Seq(SnapshotFrame) /\ \A k \in 1..Len(frames') : frames'[k] = Snapshot
    <3>1. CASE frames' = <<>>
      BY <3>1
    <3>2. CASE frames' = <<Snapshot>>
      BY <2>1, <3>2, SMTT(60)
    <3> QED
      BY <1>3, <3>1, <3>2, Zenon
  <2> QED
    BY <2>1, <2>2, Zenon DEF FramesTrue, True
<1>4. CASE UNCHANGED workerVars /\ frames # <<>> /\ frames' = Tail(frames)
  <2>1. frames' \in Seq(SnapshotFrame) /\ \A k \in 1..Len(frames') : k + 1 \in 1..Len(frames) /\ frames'[k] = frames[k + 1]
    BY <1>4 DEF FramesTrue
  <2>2. UNCHANGED <<instances, stateRevision, createRev>>
    BY <1>4, Zenon DEF workerVars
  <2> QED
    BY <1>1, <2>1, <2>2, Zenon DEF FramesTrue
<1> QED
  BY <1>2, <1>3, <1>4, FrameMoves, Zenon

----------------------------------------------------------------------------
\* Targets are numbers, and so is what an owner has decided to stop.
LEMMA TargetStep ==
    ASSUME TargetTypes, TaskInv, CountersExact, [Next]_vars
    PROVE  TargetTypes'
<1> USE DEF TargetTypes
<1>0. totalInstances \in Int /\ Excess \in Int
  BY CountedFinite, SMTT(60) DEF CountersExact, Excess, Future
<1> DEFINE Same == UNCHANGED <<targetInstances, count>>
<1>1. ASSUME NEW i \in Instance, Job(i) \/ JobTimeout(i) PROVE Same
  BY <1>1, Zenon
     DEF Job, JobAnswered, JobServe, JobTrack, JobFail, JobTimeout, OnlyJob, targetVars, ownerVars
<1>2. ASSUME NEW i \in Instance, Stopper(i) \/ StopDrainTimeout(i) \/ StopFails(i) PROVE Same
  BY <1>2, ZenonT(60)
     DEF Stopper, StopDrain, StopDrainRefused, StopDrained, StopAnswered, cancelStop, StopRemove,
         StopOvertaken, StopEffects, StopDrainTimeout, StopFails, OnlyStopper, targetVars
<1>3. ASSUME NEW o \in Owner, ScaleDown(o) PROVE TargetTypes'
  <2>1. targetInstances' = targetInstances
    BY <1>3, ZenonT(60)
       DEF ScaleDown, DelayBegins, DelayElapses, DelayWoken, ChooseVictims, StopsDone, OnlyOwner, targetVars
  <2>2. count' = count \/ count' = [count EXCEPT ![o] = 0]
    BY <1>3, ZenonT(60) DEF ScaleDown, DelayBegins, DelayElapses, DelayWoken, ChooseVictims, StopsDone
  <2> QED
    BY <2>1, <2>2
<1>4. CASE Pump \/ PumpRetries
  <2>1. CASE PumpTop
    <3>1. targetInstances' = targetInstances
      BY <2>1, Zenon DEF PumpTop, OnlyOwner
    <3>2. count' = [count EXCEPT !["pump"] = IF Excess > 0 THEN Excess ELSE 0]
      BY <2>1, Zenon DEF PumpTop, BeginDown
    <3> QED
      BY <1>0, <3>1, <3>2 DEF Owner
  <2>2. CASE DelayCancelled
    <3>1. targetInstances' = targetInstances
      BY <2>2, Zenon DEF DelayCancelled, OnlyOwner
    <3>2. count' = [count EXCEPT !["pump"] = 0]
      BY <2>2, Zenon DEF DelayCancelled
    <3> QED
      BY <3>1, <3>2 DEF Owner
  <2>3. CASE PumpStart \/ PumpIdle \/ PumpWoken \/ PumpEnds \/ PumpRetries
    BY <2>3, Zenon
       DEF PumpStart, PumpIdle, PumpWoken, PumpEnds, PumpRetries, Reserve, OnlyOwner, targetVars, ownerVars
  <2> QED
    BY <1>4, <2>1, <2>2, <2>3, ZenonT(60) DEF Pump
<1>5. CASE Reports \/ EventStreamBreaks \/ \E reason \in {"cold-start", "scale"} : EnsureCapacity(reason)
  BY <1>5, ZenonT(60)
     DEF Reports, SampleState, handleSandboxRemoved, setWorkerState, evictTracked, EventStreamBreaks,
         leafVars, EnsureCapacity, Reserve, targetVars, ownerVars
<1>6. CASE DeleteFunction \/ Close \/ \E d \in 0..MaxTarget : Reconcile(d)
  BY <1>6, ActuatorAssumption DEF DeleteFunction, Close, Reconcile, ApplyScale, SetTarget, targetVars
<1>7. CASE StopAll
  BY <1>0, <1>7 DEF StopAll, SetTarget, BeginDown, Owner
<1>8. CASE UNCHANGED vars \/ \E i \in Instance : Worker(i) /\ UNCHANGED leafVars
  BY <1>8, Zenon DEF vars, leafVars, targetVars, ownerVars
<1> QED
  BY <1>1, <1>2, <1>3, <1>4, <1>5, <1>6, <1>7, <1>8, ZenonT(60) DEF Next, Deletion

----------------------------------------------------------------------------
\* ActuatorInv holds of every state of every behaviour.
LEMMA ActuatorInvariant == Spec => []ActuatorInv
<1>1. Init => ActuatorInv
  <2> SUFFICES ASSUME Init PROVE ActuatorInv
    BY Zenon
  <2>1. ContractInv
    BY SMTT(60) DEF Init, WorkerInit, ContractInv, ContractTypes, OnlyOnce
  <2>2. TaskInv
    BY Zenon DEF Init, TaskInv, JobPlace
  <2>3. CountersExact
    <3>1. Pending = {}
      BY Zenon DEF Init, Pending
    <3> QED
      BY <3>1, FS_EmptySet, Zenon DEF Init, CountersExact
  <2>4. ServeInv
    BY Zenon DEF Init, ServeInv, ServeTypes, ServedIsTracked
  <2>5. FramesTrue /\ TargetTypes
    BY SMTT(60) DEF Init, FramesTrue, TargetTypes
  <2> QED
    BY <2>1, <2>2, <2>3, <2>4, <2>5, Zenon DEF ActuatorInv, CountInv
<1>2. ActuatorInv /\ [Next]_vars => ActuatorInv'
  BY UsesContract, ContractStep, CountStep, ServeStep, FrameStep, TargetStep, ZenonT(60)
     DEF ActuatorInv, CountInv
<1> QED
  BY <1>1, <1>2, PTL DEF Spec

\* The counters of the actuator, on which every decision to start or to stop
\* rests, are exact in every state: what is tracked, what is being started and
\* what is being stopped, through failed starts, cancelled stops, evictions and
\* the deletion of the function.
THEOREM ActuatorCounts == Spec => []CountersExact
<1>1. ActuatorInv => CountersExact
  BY Zenon DEF ActuatorInv, CountInv
<1> QED
  BY <1>1, ActuatorInvariant, PTL

\* Whatever requests can be sent to is tracked, about to be tracked, or about to
\* leave the pool (runStart, removeInstance, evictTracked).
THEOREM ServesWhatItTracks == Spec => []ServedIsTracked
<1>1. ActuatorInv => ServedIsTracked
  BY Zenon DEF ActuatorInv, ServeInv
<1> QED
  BY <1>1, ActuatorInvariant, PTL

\* Removal events and snapshots evict only what the worker no longer has,
\* however late they are handled (HandleSandboxRemoved, ReconcileWorkerState).
THEOREM EvictsOnlyTheGone == Spec => NoFalseEviction
<1> DEFINE True == \A p \in Path : (evicting'[p] \ evicting[p]) \cap instances = {}
<1>1. ASSUME ActuatorInv, [Next]_vars PROVE [True]_vars
  <2>0. ContractInv /\ FramesTrue /\ ServeTypes /\ TaskInv
    BY <1>1, Zenon DEF ActuatorInv, ServeInv, CountInv
  <2>1. CASE handleSandboxRemoved
    <3> DEFINE e == Head(removals)
               gone == IF e.id \in tracked /\ ~(e.rev < createRev[e.id]) THEN {e.id} ELSE {}
    <3>1. evicting' = [evicting EXCEPT !["event"] = gone] /\ removals # <<>>
      BY <2>1, Zenon DEF handleSandboxRemoved, HandleSandboxRemoved, Received
    <3>2. e = removals[1] /\ 1 \in 1..Len(removals)
      BY <2>0, <3>1, SMTT(60) DEF ContractInv, ContractTypes
    <3>3. e.id \notin instances
      BY <2>0, <3>2, Zenon DEF ContractInv, OnlyOnce
    <3>4. gone \cap instances = {}
      BY <3>3, Zenon
    <3> HIDE DEF gone
    <3> QED
      BY <2>0, <3>1, <3>4, Zenon DEF ServeTypes, Path
  <2>2. CASE setWorkerState
    <3> DEFINE f == Head(frames)
    <3>1. evicting' = [evicting EXCEPT !["relist"] = Missing(f)] /\ frames # <<>>
      BY <2>2, Zenon DEF setWorkerState, ReconcileWorkerState
    <3>2. f = frames[1] /\ 1 \in 1..Len(frames)
      BY <2>0, <3>1, SMTT(60) DEF FramesTrue
    <3>3. \A i \in instances : createRev[i] <= f.rev => i \in f.ids
      BY <2>0, <3>2, Zenon DEF FramesTrue
    <3>4. f \in SnapshotFrame
      BY <2>0, <3>2, SMTT(60) DEF FramesTrue
    <3>5. Missing(f) \cap instances = {}
      BY <2>0, <3>3, <3>4, Zenon DEF Missing, ContractInv, ContractTypes, SnapshotFrame
    <3> QED
      BY <2>0, <3>1, <3>5, Zenon DEF ServeTypes, Path
  <2>3. CASE \E p \in Path : evictTracked(p)
    BY <2>0, <2>3, ZenonT(60) DEF evictTracked, ServeTypes
  <2>4. ASSUME UNCHANGED evicting PROVE True
    BY <2>4, Zenon
  <2>5. ASSUME NEW i \in Instance, Job(i) \/ JobTimeout(i) PROVE UNCHANGED evicting
    BY <2>5, Zenon DEF Job, JobAnswered, JobServe, JobTrack, JobFail, JobTimeout, OnlyJob
  <2>6. ASSUME NEW i \in Instance, Stopper(i) \/ StopDrainTimeout(i) \/ StopFails(i) PROVE UNCHANGED evicting
    BY <2>6, ZenonT(60)
       DEF Stopper, StopDrain, StopDrainRefused, StopDrained, StopAnswered, cancelStop, StopRemove,
           StopOvertaken, StopEffects, StopDrainTimeout, StopFails, OnlyStopper
  <2>7. ASSUME NEW o \in Owner, ScaleDown(o) PROVE UNCHANGED evicting
    BY <2>7, ZenonT(60)
       DEF ScaleDown, DelayBegins, DelayElapses, DelayWoken, ChooseVictims, StopsDone, OnlyOwner, taskVars
  <2>8. CASE Pump \/ PumpRetries \/ \E reason \in {"cold-start", "scale"} : EnsureCapacity(reason)
    BY <2>4, <2>8, ZenonT(60)
       DEF Pump, PumpTop, PumpStart, PumpIdle, PumpWoken, PumpEnds, DelayCancelled, PumpRetries,
           EnsureCapacity, Reserve, OnlyOwner, taskVars
  <2>9. CASE \/ SampleState \/ EventStreamBreaks \/ DeleteFunction \/ Deletion \/ UNCHANGED vars
             \/ (\E d \in 0..MaxTarget : Reconcile(d)) \/ \E i \in Instance : Worker(i) /\ UNCHANGED leafVars
    BY <2>4, <2>9, ZenonT(60)
       DEF SampleState, EventStreamBreaks, DeleteFunction, Deletion, StopAll, Close, Reconcile, ApplyScale,
           leafVars, taskVars, vars
  <2> HIDE DEF True
  <2> QED
    BY <1>1, <2>1, <2>2, <2>3, <2>4, <2>5, <2>6, <2>7, <2>8, <2>9, ZenonT(60) DEF Next, Reports
<1> QED
  BY <1>1, ActuatorInvariant, PTL DEF Spec, NoFalseEviction

\* No step but the choice of victims marks a sandbox as stopping.
LEMMA OnlyVictimsMarked ==
    ASSUME [Next]_vars
    PROVE  stopping' \subseteq stopping \/ \E o \in Owner : ChooseVictims(o)
<1>1. ASSUME NEW i \in Instance, Job(i) \/ JobTimeout(i) PROVE UNCHANGED stopping
  BY <1>1, Zenon DEF Job, JobAnswered, JobServe, JobTrack, JobFail, JobTimeout, OnlyJob, countVars
<1>2. ASSUME NEW i \in Instance, Stopper(i) \/ StopDrainTimeout(i) \/ StopFails(i) PROVE stopping' \subseteq stopping
  BY <1>2, ZenonT(60)
     DEF Stopper, StopDrain, StopDrainRefused, StopDrained, StopAnswered, cancelStop, StopRemove,
         StopOvertaken, StopEffects, StopDrainTimeout, StopFails, Untrack, OnlyStopper, countVars
<1>3. ASSUME NEW o \in Owner, ScaleDown(o) PROVE UNCHANGED stopping \/ ChooseVictims(o)
  BY <1>3, ZenonT(60) DEF ScaleDown, DelayBegins, DelayElapses, DelayWoken, StopsDone, OnlyOwner, countVars
<1>4. CASE Pump \/ PumpRetries \/ \E reason \in {"cold-start", "scale"} : EnsureCapacity(reason)
  BY <1>4, ZenonT(60)
     DEF Pump, PumpTop, PumpStart, PumpIdle, PumpWoken, PumpEnds, DelayCancelled, PumpRetries,
         EnsureCapacity, Reserve, OnlyOwner, countVars
<1>5. CASE Reports \/ EventStreamBreaks
  BY <1>5, ZenonT(60)
     DEF Reports, SampleState, handleSandboxRemoved, HandleSandboxRemoved, setWorkerState,
         ReconcileWorkerState, evictTracked, EventStreamBreaks, Untrack, leafVars, countVars
<1>6. CASE \/ DeleteFunction \/ Deletion \/ UNCHANGED vars \/ (\E d \in 0..MaxTarget : Reconcile(d))
           \/ \E i \in Instance : Worker(i) /\ UNCHANGED leafVars
  BY <1>6, Zenon DEF DeleteFunction, Deletion, StopAll, Close, Reconcile, ApplyScale, leafVars, countVars, vars
<1> QED
  BY <1>1, <1>2, <1>3, <1>4, <1>5, <1>6, Zenon DEF Next

\* A step that marks victims leaves as many sandboxes, tracked or being started,
\* as the target of that moment asks for (instancesForStopWithinTarget).
THEOREM StopsDownToTarget == Spec => StopsWithinTarget
<1> DEFINE Enough == stopping' \subseteq stopping \/
                     Cardinality(tracked' \ stopping') + Cardinality(Pending') >= targetInstances
<1>1. ASSUME ActuatorInv, NEW o \in Owner, ChooseVictims(o) PROVE Enough
  <2>0. CountInv /\ TaskInv /\ CountersExact /\ TargetTypes
    BY <1>1, Zenon DEF ActuatorInv, CountInv
  <2> DEFINE n == Lesser(count[o], Excess)
             free == tracked \ stopping
  <2>1. PICK S \in Victims(o) : stopping' = stopping \cup S /\ pendingStops' = pendingStops + Cardinality(S)
    BY <1>1, Zenon DEF ChooseVictims
  <2>2. UNCHANGED <<create, job, tracked, totalInstances, pendingStarts>>
    BY <1>1, Zenon DEF ChooseVictims, workerVars
  <2>3. CASE n <= 0
    BY <2>1, <2>3, Zenon DEF Victims
  <2>4. CASE ~(n <= 0)
    <3>1. S \in SUBSET free /\ Cardinality(S) = Lesser(n, Cardinality(free))
      BY <2>1, <2>4, Zenon DEF Victims
    <3>2. /\ Cardinality(S) \in Nat /\ TaskInv'
          /\ Cardinality(stopping') = Cardinality(stopping) + Cardinality(S)
      <4>1. S \in SUBSET (tracked \ stopping)
        BY <3>1, Zenon
      <4>2. /\ CountInv' /\ Cardinality(S) \in Nat
            /\ Cardinality(stopping') = Cardinality(stopping) + Cardinality(S)
        BY <2>0, <2>1, <2>2, <4>1, VictimCounts, Zenon
      <4> QED
        BY <4>2, Zenon DEF CountInv
    <3>3. /\ Cardinality(tracked) \in Nat /\ Cardinality(stopping) \in Nat /\ Cardinality(Pending) \in Nat
          /\ IsFiniteSet(tracked)
      BY <2>0, CountedFinite, Zenon
    <3>4. Cardinality(tracked' \ stopping') = Cardinality(tracked) - Cardinality(stopping')
      <4>1. tracked' = tracked /\ stopping' \cap tracked' = stopping'
        BY <2>2, <3>2, Zenon DEF TaskInv
      <4>2. Cardinality(tracked' \ stopping') = Cardinality(tracked') - Cardinality(stopping' \cap tracked')
        BY <3>3, <4>1, CountWithout, Zenon
      <4> QED
        BY <4>1, <4>2, Zenon
    <3>5. Excess = Cardinality(tracked) + Cardinality(Pending) - Cardinality(stopping) - targetInstances
      BY <2>0, <3>3 DEF CountersExact, Excess, Future, TargetTypes
    <3>6. Cardinality(S) <= Excess
      <4>1. Excess \in Int /\ count[o] \in Int
        BY <2>0, <3>3, <3>5 DEF TargetTypes
      <4>2. Cardinality(free) \in Nat
        BY <3>3, FS_Difference, FS_CardinalityType, Zenon
      <4> HIDE DEF free
      <4> QED
        BY <3>1, <4>1, <4>2 DEF Lesser
    <3>7. Pending' = Pending
      BY <2>2, Zenon DEF Pending
    <3>8. targetInstances \in Nat
      BY <2>0, Zenon DEF TargetTypes
    <3> QED
      BY <3>2, <3>3, <3>4, <3>5, <3>6, <3>7, <3>8, SMTT(60)
  <2> QED
    BY <2>3, <2>4, Zenon
<1>2. ActuatorInv /\ [Next]_vars => [Enough]_vars
  BY <1>1, OnlyVictimsMarked, Zenon
<1> QED
  BY <1>2, ActuatorInvariant, PTL DEF Spec, StopsWithinTarget

=============================================================================
