--------------------------- MODULE WorkerContract ---------------------------
(***************************************************************************)
(* What a worker promises the leaf: its record of sandboxes, the revision  *)
(* that orders the record's changes, the answers to CreateSandbox and      *)
(* StopSandbox, and the stream of removal events.  WorkerSandbox models    *)
(* how worker/sandbox.go keeps it.  An instance ID is drawn by the leaf    *)
(* for one CreateSandbox call and never reused.                            *)
(***************************************************************************)
EXTENDS Integers, Sequences, FiniteSets

CONSTANTS
    Instance,     \* instance IDs
    EventBuffer   \* capacity of a removal subscriber's channel

ASSUME WorkerAssumption == IsFiniteSet(Instance) /\ EventBuffer \in Nat \ {0}

VARIABLES
    instances,     \* keys of Sandbox.instances
    stateRevision,
    createRev,     \* WorkerStateRevision of each record, 0 before it exists
    create,        \* the CreateSandbox call for each ID
    stop,          \* the StopSandbox call for each ID
    removals       \* removal events the leaf has not received

workerVars == <<instances, stateRevision, createRev, create, stop, removals>>

WorkerInit ==
    /\ instances = {}
    /\ stateRevision = 0
    /\ createRev = [i \in Instance |-> 0]
    /\ create = [i \in Instance |-> "none"]
    /\ stop = [i \in Instance |-> "none"]
    /\ removals = <<>>

----------------------------------------------------------------------------
Forget(i) ==
    /\ instances' = instances \ {i}
    /\ stateRevision' = IF i \in instances THEN stateRevision + 1 ELSE stateRevision

\* The leaf's calls; it stops what was created for it.
CreateCall(i) ==
    /\ create[i] = "none"
    /\ create' = [create EXCEPT ![i] = "begun"]
    /\ UNCHANGED <<instances, stateRevision, createRev, stop, removals>>

StopCall(i) ==
    /\ create[i] = "created"
    /\ stop' = [stop EXCEPT ![i] = "begun"]
    /\ UNCHANGED <<instances, stateRevision, createRev, create, removals>>

\* An ID enters the record once, under a revision of its own.
Record(i) ==
    /\ create[i] = "begun"
    /\ create' = [create EXCEPT ![i] = "recorded"]
    /\ instances' = instances \cup {i}
    /\ stateRevision' = stateRevision + 1
    /\ createRev' = [createRev EXCEPT ![i] = stateRevision']
    /\ UNCHANGED <<stop, removals>>

Created(i) ==
    /\ create[i] = "recorded"
    /\ create' = [create EXCEPT ![i] = "created"]
    /\ UNCHANGED <<instances, stateRevision, createRev, stop, removals>>

\* A failed creation usually takes its record back; a cancelled one leaves it.
CreateFails(i) ==
    /\ create[i] \in {"begun", "recorded"}
    /\ create' = [create EXCEPT ![i] = "failed"]
    /\ Forget(i) \/ UNCHANGED <<instances, stateRevision>>
    /\ UNCHANGED <<createRev, stop, removals>>

StopOK(i) ==
    /\ stop[i] = "begun"
    /\ stop' = [stop EXCEPT ![i] = "ok"]
    /\ Forget(i)
    /\ UNCHANGED <<createRev, create, removals>>

\* An error other than this one is no different from a lost answer.
StopGone(i) ==
    /\ stop[i] = "begun"
    /\ stop' = [stop EXCEPT ![i] = "gone"]
    /\ UNCHANGED <<instances, stateRevision, createRev, create, removals>>

\* A sandbox exits by itself; the event is lost when the channel is full.
Exited(i) ==
    /\ i \in instances
    /\ Forget(i)
    /\ removals' = IF Len(removals) < EventBuffer
                   THEN Append(removals, [id |-> i, rev |-> stateRevision']) ELSE removals
    /\ UNCHANGED <<createRev, create, stop>>

\* SandboxStateSnapshot.
Snapshot == [ids |-> instances, rev |-> stateRevision]

Worker(i) ==
    \/ Record(i) \/ Created(i) \/ CreateFails(i)
    \/ StopOK(i) \/ StopGone(i) \/ Exited(i)

\* The leaf reads or loses events.
Received == 
    /\ removals # <<>>
    /\ \E n \in 1..Len(removals) : removals' = SubSeq(removals, n + 1, Len(removals))
    /\ UNCHANGED <<instances, stateRevision, createRev, create, stop>>

ContractNext ==
    \/ \E i \in Instance : CreateCall(i) \/ StopCall(i) \/ Worker(i)
    \/ Received

Contract == WorkerInit /\ [][ContractNext]_workerVars

=============================================================================
