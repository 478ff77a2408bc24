---------------------------- MODULE WorkerSandbox ----------------------------
(***************************************************************************)
(* The worker's Sandbox service (worker/sandbox.go, ready_signals.go).     *)
(*                                                                         *)
(* Instance IDs are drawn at random by the leaf, one per CreateSandbox     *)
(* call, so `create[i]` is the handler of the only call for i, and         *)
(* `stop[i]` the handler of a StopSandbox call.  What the runtime runs is  *)
(* `running`; a sandbox leaves it when it is stopped, exits or crashes.    *)
(* The removal of a record and the broadcast that follows it are one step: *)
(* no reader compares removals of different sandboxes.                     *)
(* The leaf is abstracted to the calls it may make.                        *)
(***************************************************************************)
EXTENDS Integers, Sequences, FiniteSets

CONSTANTS
    Instance,     \* instance IDs
    EventBuffer   \* capacity of a removal subscriber's channel

ASSUME WorkerAssumption == IsFiniteSet(Instance) /\ EventBuffer \in Nat \ {0}

VARIABLES
    running,       \* sandboxes the runtime runs
    instances,     \* keys of Sandbox.instances
    stateRevision,
    createRev,     \* WorkerStateRevision of each record, 0 before it exists
    signal,        \* ReadySignals.states: "none", "open" channel, "early" signal
    announced,     \* sandboxes that have called SignalReady (history)
    create,        \* where each CreateSandbox handler is
    cancelled,     \* CreateSandbox calls whose context has ended
    stop,          \* where each StopSandbox handler is
    watching,      \* sandboxes with a watchLifecycle goroutine
    removals       \* the leaf's removal subscription: events not yet received

workerVars == <<running, instances, stateRevision, createRev, signal, announced,
                create, cancelled, stop, watching, removals>>

WorkerInit ==
    /\ running = {}
    /\ instances = {}
    /\ stateRevision = 0
    /\ createRev = [i \in Instance |-> 0]
    /\ signal = [i \in Instance |-> "none"]
    /\ announced = {}
    /\ create = [i \in Instance |-> "none"]
    /\ cancelled = {}
    /\ stop = [i \in Instance |-> "none"]
    /\ watching = {}
    /\ removals = <<>>

----------------------------------------------------------------------------
\* removeInstanceInternal.
removeInstance(i, notify) ==
    /\ instances' = instances \ {i}
    /\ stateRevision' = IF i \in instances THEN stateRevision + 1 ELSE stateRevision
    /\ removals' = IF i \in instances /\ notify /\ Len(removals) < EventBuffer
                   THEN Append(removals, [id |-> i, rev |-> stateRevision'])
                   ELSE removals

At(i, from, to) == create[i] = from /\ create' = [create EXCEPT ![i] = to]

----------------------------------------------------------------------------
(* CreateSandbox.                                                          *)

AddInstance(i) == signal' = [signal EXCEPT ![i] = IF @ = "early" THEN "none" ELSE "open"]

CreateSandbox(i) ==
    /\ At(i, "none", "start")
    /\ AddInstance(i)
    /\ UNCHANGED <<running, instances, stateRevision, createRev, announced, cancelled, stop, watching, removals>>

\* runtime.Start returns an error; the readiness entry stays behind.
RuntimeStartFails(i) ==
    /\ At(i, "start", "failed")
    /\ UNCHANGED <<running, instances, stateRevision, createRev, signal, announced, cancelled, stop, watching, removals>>

RuntimeStart(i) ==
    /\ At(i, "start", "insert")
    /\ running' = running \cup {i}
    /\ UNCHANGED <<instances, stateRevision, createRev, signal, announced, cancelled, stop, watching, removals>>

\* Mutant: the instance is recorded under the revision before its own.
InsertUnderOldRevision(i) ==
    /\ create[i] = "insert"
    /\ \E next \in {"wait", "signal"} : create' = [create EXCEPT ![i] = next]
    /\ stateRevision' = stateRevision + 1
    /\ createRev' = [createRev EXCEPT ![i] = stateRevision]
    /\ instances' = instances \cup {i}
    /\ watching' = watching \cup {i}
    /\ UNCHANGED <<running, signal, announced, cancelled, stop, removals>>

\* The record is inserted under the lock and the lifecycle watch starts.  The
\* runtime has returned a sandbox that serves already, or one to wait for.
InsertInstance(i) ==
    /\ create[i] = "insert"
    /\ \E next \in {"wait", "signal"} : create' = [create EXCEPT ![i] = next]
    /\ stateRevision' = stateRevision + 1
    /\ createRev' = [createRev EXCEPT ![i] = stateRevision']
    /\ instances' = instances \cup {i}
    /\ watching' = watching \cup {i}
    /\ UNCHANGED <<running, signal, announced, cancelled, stop, removals>>

\* Mutant: a signal that finds no channel is dropped, and one that finds a
\* channel leaves it to be found again.
SignalledInPlace(i) ==
    /\ announced' = announced \cup {i}
    /\ UNCHANGED signal

Signalled(i) ==
    /\ announced' = announced \cup {i}
    /\ signal' = [signal EXCEPT ![i] = IF @ = "open" THEN "none" ELSE "early"]

\* Called by the sandbox once it serves; it may repeat the call.
SignalReady(i) ==
    /\ i \in running
    /\ Signalled(i)
    /\ UNCHANGED <<running, instances, stateRevision, createRev, create, cancelled, stop, watching, removals>>

\* The handler signals for a sandbox that serves when runtime.Start returns.
SignalServing(i) ==
    /\ At(i, "signal", "ping")
    /\ Signalled(i)
    /\ UNCHANGED <<running, instances, stateRevision, createRev, cancelled, stop, watching, removals>>

\* WaitReady returns unless it finds an open channel.
WaitReady(i) ==
    /\ At(i, "wait", "ping")
    /\ signal[i] # "open"
    /\ signal' = [signal EXCEPT ![i] = "none"]
    /\ UNCHANGED <<running, instances, stateRevision, createRev, announced, cancelled, stop, watching, removals>>

PingSucceeds(i) ==
    /\ At(i, "ping", "created")
    /\ i \in running
    /\ UNCHANGED <<running, instances, stateRevision, createRev, signal, announced, cancelled, stop, watching, removals>>

\* An unreachable port, and the readiness timeout: both stop the sandbox.
PingFails(i) ==
    /\ At(i, "ping", "undo")
    /\ UNCHANGED <<running, instances, stateRevision, createRev, signal, announced, cancelled, stop, watching, removals>>

ReadyTimeout(i) ==
    /\ At(i, "wait", "undo")
    /\ UNCHANGED <<running, instances, stateRevision, createRev, signal, announced, cancelled, stop, watching, removals>>

\* An error of this runtime.Stop is ignored.
UndoStop(i) ==
    /\ At(i, "undo", "forget")
    /\ running' = running \ {i} \/ UNCHANGED running
    /\ UNCHANGED <<instances, stateRevision, createRev, signal, announced, cancelled, stop, watching, removals>>

UndoForget(i) ==
    /\ At(i, "forget", "failed")
    /\ removeInstance(i, FALSE)
    /\ UNCHANGED <<running, createRev, signal, announced, cancelled, stop, watching>>

\* The caller's context ended: the handler leaves the sandbox as it is.  The
\* same end also makes startCtx done, so ReadyTimeout may win instead.
CreateCancelled(i) ==
    /\ At(i, "wait", "failed")
    /\ i \in cancelled
    /\ UNCHANGED <<running, instances, stateRevision, createRev, signal, announced, cancelled, stop, watching, removals>>

----------------------------------------------------------------------------
(* StopSandbox, exits and the lifecycle watch.                             *)

StopAt(i, from, to) == stop[i] = from /\ stop' = [stop EXCEPT ![i] = to]

\* The leaf stops what was created for it.  A call may repeat one whose answer
\* it did not wait for.
StopSandbox(i) ==
    /\ create[i] = "created"
    /\ stop[i] # "stopped"
    /\ stop' = [stop EXCEPT ![i] = "begun"]
    /\ UNCHANGED <<running, instances, stateRevision, createRev, signal, announced, create, cancelled, watching, removals>>

\* runtime.Stop: it stops the sandbox, does not find it, or fails.  The fake
\* runtime reports success for a sandbox it does not know.
RuntimeStop(i) ==
    /\ StopAt(i, "begun", "stopped")
    /\ running' = running \ {i}
    /\ UNCHANGED <<instances, stateRevision, createRev, signal, announced, create, cancelled, watching, removals>>

RuntimeStopGone(i) ==
    /\ StopAt(i, "begun", "gone")
    /\ i \notin running
    /\ UNCHANGED <<running, instances, stateRevision, createRev, signal, announced, create, cancelled, watching, removals>>

\* Mutant: the record goes even though the runtime could not stop the sandbox.
FailedStopForgets(i) ==
    /\ StopAt(i, "begun", "failed")
    /\ removeInstance(i, FALSE)
    /\ UNCHANGED <<running, createRev, signal, announced, create, cancelled, watching>>

RuntimeStopFails(i) ==
    /\ StopAt(i, "begun", "failed")
    /\ UNCHANGED <<running, instances, stateRevision, createRev, signal, announced, create, cancelled, watching, removals>>

StopForget(i) ==
    /\ StopAt(i, "stopped", "ok")
    /\ removeInstance(i, FALSE)
    /\ UNCHANGED <<running, createRev, signal, announced, create, cancelled, watching>>

Exit(i) ==
    /\ i \in running
    /\ running' = running \ {i}
    /\ UNCHANGED <<instances, stateRevision, createRev, signal, announced, create, cancelled, stop, watching, removals>>

watchLifecycle(i) ==
    /\ i \in watching /\ i \notin running
    /\ watching' = watching \ {i}
    /\ removeInstance(i, TRUE)
    /\ UNCHANGED <<running, createRev, signal, announced, create, cancelled, stop>>

\* WatchLifecycle fails, or its channel closes without an event.
WatchLost(i) ==
    /\ i \in watching
    /\ watching' = watching \ {i}
    /\ UNCHANGED <<running, instances, stateRevision, createRev, signal, announced, create, cancelled, stop, removals>>

----------------------------------------------------------------------------
(* The leaf: it cancels calls, and receives or loses removal events.       *)

Cancel(i) ==
    /\ create[i] # "none"
    /\ cancelled' = cancelled \cup {i}
    /\ UNCHANGED <<running, instances, stateRevision, createRev, signal, announced, create, stop, watching, removals>>

Received ==
    /\ removals # <<>>
    /\ \E n \in 1..Len(removals) : removals' = SubSeq(removals, n + 1, Len(removals))
    /\ UNCHANGED <<running, instances, stateRevision, createRev, signal, announced, create, cancelled, stop, watching>>

\* What the worker does by itself.
Handler(i) ==
    \/ RuntimeStart(i)
    \/ RuntimeStartFails(i)
    \/ InsertInstance(i)
    \/ SignalReady(i)
    \/ SignalServing(i)
    \/ WaitReady(i)
    \/ PingSucceeds(i)
    \/ PingFails(i)
    \/ ReadyTimeout(i)
    \/ UndoStop(i)
    \/ UndoForget(i)
    \/ CreateCancelled(i)
    \/ RuntimeStop(i)
    \/ RuntimeStopGone(i)
    \/ RuntimeStopFails(i)
    \/ StopForget(i)
    \/ Exit(i)
    \/ watchLifecycle(i)
    \/ WatchLost(i)

WorkerNext ==
    \/ \E i \in Instance : CreateSandbox(i) \/ Cancel(i) \/ StopSandbox(i) \/ Handler(i)
    \/ Received

WorkerSpec == WorkerInit /\ [][WorkerNext]_workerVars

----------------------------------------------------------------------------
\* CreateSandbox answers for a sandbox exactly when it has called SignalReady,
\* before or after the handler set out to wait: no answer without a signal, and
\* no handler left waiting on a channel whose signal has come.
NoLostSignal ==
    \A i \in Instance :
      /\ create[i] = "created" => i \in announced
      /\ create[i] = "wait" /\ signal[i] = "open" => i \notin announced

\* A sandbox that was handed to the leaf and runs is in the record, and so in
\* every snapshot: no stop that fails and no exit of another one drops it.
HandedOutIsRecorded ==
    \A i \in running : create[i] = "created" => i \in instances

\* How the handlers keep the contract: the phases of a call that the leaf can
\* tell apart.
CreatePhase(at) ==
    CASE at \in {"start", "insert"} -> "begun"
      [] at \in {"signal", "wait", "ping", "undo", "forget"} -> "recorded"
      [] OTHER -> at

StopPhase(at) == IF at \in {"stopped", "failed"} THEN "begun" ELSE at

Creating == [i \in Instance |-> CreatePhase(create[i])]

Stopping == [i \in Instance |-> StopPhase(stop[i])]

C == INSTANCE WorkerContract WITH create <- Creating, stop <- Stopping

\* The handlers implement the contract the leaf relies on.
KeepsContract == C!Contract
=============================================================================
