----------------------------- MODULE SandboxPool -----------------------------
(***************************************************************************)
(* The admission pool of one function on a leaf                            *)
(* (pkg/leaf/dataplane/pool.go): ready sandboxes with a concurrency limit, *)
(* a bounded FIFO queue of waiting requests, draining and shutdown.  The   *)
(* telemetry the same methods maintain, which never decides admission, is  *)
(* added by PoolSignals.                                                   *)
(*                                                                         *)
(* Every method body runs under p.mu.  Straight-line bodies are one action *)
(* guarded by mu = "free".  The three loops (Configure over the map, Sync  *)
(* over the map and the targets, dispatchLocked over the queue) take one   *)
(* step per iteration while mu holds the name of the loop: no other        *)
(* locked body can start until the loop has run to its end, but a request  *)
(* context can expire between two iterations, as it can in the code, and a *)
(* map is visited in any order.                                            *)
(***************************************************************************)
EXTENDS Integers, FiniteSets, Lists

CONSTANTS
    ID,                         \* instance IDs
    Sandbox,                    \* pooledSandbox objects that can be allocated
    IDOf,                       \* target.InstanceID of each object
    NoSandbox,                  \* nil
    Request,                    \* Acquire calls
    Drainer,                    \* Drain calls
    Limits,                     \* limits a function spec may ask for
    Depths,                     \* queue depths a function spec may ask for
    SyncTargets,                \* target sets Sync may be given
    DefaultSandboxConcurrency,
    DefaultQueueDepth

ASSUME PoolAssumption ==
    /\ IsFiniteSet(Request)
    /\ IsFiniteSet(Sandbox)
    /\ IDOf \in [Sandbox -> ID]
    /\ NoSandbox \notin Sandbox
    /\ Limits \subseteq Nat /\ Depths \subseteq Nat
    /\ SyncTargets \subseteq SUBSET ID
    /\ DefaultSandboxConcurrency \in Nat \ {0}
    /\ DefaultQueueDepth \in Nat \ {0}

VARIABLES
    mu,         \* "free", or the loop that runs under the lock
    todo,       \* what Configure (sandboxes) or Sync (IDs) has still to visit
    limit,      \* p.limit
    queueDepth, \* p.queueDepth
    closed,     \* p.closed
    sandboxes,  \* p.sandboxes: instance ID -> object or nil
    allocated,  \* objects created so far
    active,     \* p.active
    executing,  \* p.executing
    ready,      \* p.ready, front first
    pending,    \* p.pending, front first
    inFlight,   \* sandbox.inFlight
    onReady,    \* sandbox.ready # nil
    draining,   \* sandbox.draining
    drained,    \* sandbox.drained: "nil", or an "open" or "closed" channel
    call,       \* control state of each Acquire call
    slot,       \* sandbox granted to the call and not yet given back
    expired,    \* the call's context is done
    drain,      \* control state of each Drain call
    victim      \* the object a Drain call works on

lockVars == <<mu, todo>>
confVars == <<limit, queueDepth, closed>>
mapVars == <<sandboxes, allocated, active>>
listVars == <<ready, onReady>>
slotVars == <<executing, inFlight, slot>>
drainVars == <<draining, drained, drain, victim>>
callVars == <<pending, call, expired>>

vars == <<mu, todo, limit, queueDepth, closed, sandboxes, allocated, active,
          executing, ready, pending, inFlight, onReady, draining, drained,
          call, slot, expired, drain, victim>>

-----------------------------------------------------------------------------
NormalizeLimit(l) == IF l <= 0 THEN DefaultSandboxConcurrency ELSE l

NormalizeDepth(d) == IF d <= 0 THEN DefaultQueueDepth ELSE d

Init ==
    /\ mu = "free" /\ todo = {}
    /\ limit \in {NormalizeLimit(l) : l \in Limits}
    /\ queueDepth \in {NormalizeDepth(d) : d \in Depths}
    /\ closed = FALSE
    /\ sandboxes = [i \in ID |-> NoSandbox] /\ allocated = {}
    /\ active = 0 /\ executing = 0
    /\ ready = <<>> /\ pending = <<>>
    /\ inFlight = [s \in Sandbox |-> 0]
    /\ onReady = [s \in Sandbox |-> FALSE]
    /\ draining = [s \in Sandbox |-> FALSE]
    /\ drained = [s \in Sandbox |-> "nil"]
    /\ call = [r \in Request |-> "idle"]
    /\ slot = [r \in Request |-> NoSandbox]
    /\ expired = [r \in Request |-> FALSE]
    /\ drain = [d \in Drainer |-> "idle"]
    /\ victim = [d \in Drainer |-> NoSandbox]

Pooled(s) == sandboxes[IDOf[s]] = s

RemoveReady(s) ==
    IF onReady[s]
    THEN /\ ready' = Unlink(ready, s)
         /\ onReady' = [onReady EXCEPT ![s] = FALSE]
    ELSE UNCHANGED listVars

\* refreshReadyLocked; the caller says whether the sandbox is available, with
\* the values its fields have at the call
RefreshReady(s, available) ==
    IF available
    THEN /\ ready' = IF onReady[s] THEN ready ELSE Append(ready, s)
         /\ onReady' = [onReady EXCEPT ![s] = TRUE]
    ELSE RemoveReady(s)

Available(s) == ~draining[s] /\ inFlight[s] < limit

\* Entry of dispatchLocked; its loop does nothing on an empty queue
EnterDispatch(queue) ==
    /\ mu' = IF queue = <<>> THEN "free" ELSE "dispatch"
    /\ UNCHANGED todo

-----------------------------------------------------------------------------
(* Acquire and Release *)

\* acquireLocked: the front sandbox of the ready list takes one more request
\* and moves to the back, or leaves the list at the limit
AcquireLocked(r) ==
    LET s == Head(ready)
        n == inFlight[s] + 1
    IN  /\ inFlight' = [inFlight EXCEPT ![s] = n]
        /\ slot' = [slot EXCEPT ![r] = s]
        /\ executing' = executing + 1
        /\ ready' = IF n >= limit THEN Tail(ready) ELSE Append(Tail(ready), s)
        /\ onReady' = [onReady EXCEPT ![s] = n < limit]

\* ctx.Err() is set, the pool is closed, or the queue is full
AcquireRefused(r) ==
    /\ call[r] = "idle"
    /\ \/ expired[r]
       \/ mu = "free" /\ closed
       \/ /\ mu = "free" /\ (pending # <<>> \/ ready = <<>>)
          /\ Len(pending) >= queueDepth
    /\ call' = [call EXCEPT ![r] = "returned"]
    /\ UNCHANGED <<lockVars, confVars, mapVars, listVars, slotVars, drainVars,
                   pending, expired>>

AcquireDirect(r) ==
    /\ mu = "free" /\ call[r] = "idle"
    /\ ~closed /\ pending = <<>> /\ ready # <<>>
    /\ AcquireLocked(r)
    /\ call' = [call EXCEPT ![r] = "held"]
    /\ UNCHANGED <<lockVars, confVars, mapVars, drainVars, pending, expired>>

AcquireQueued(r) ==
    /\ mu = "free" /\ call[r] = "idle"
    /\ ~closed /\ (pending # <<>> \/ ready = <<>>)
    /\ Len(pending) < queueDepth
    /\ pending' = Append(pending, r)
    /\ call' = [call EXCEPT ![r] = "queued"]
    /\ UNCHANGED <<lockVars, confVars, mapVars, listVars, slotVars, drainVars,
                   expired>>

\* The request is cancelled or its deadline passes
Expire(r) ==
    /\ ~expired[r] /\ call[r] \in {"idle", "queued", "answered"}
    /\ expired' = [expired EXCEPT ![r] = TRUE]
    /\ UNCHANGED <<lockVars, confVars, mapVars, listVars, slotVars, drainVars,
                   pending, call>>

\* Mutants of ReleaseSlot: the map is looked up before the drain is; room is
\* not dispatched
ReleasePooledOnly(r) ==
    LET s == slot[r]
        n == inFlight[s] - 1
    IN  /\ slot' = [slot EXCEPT ![r] = NoSandbox]
        /\ inFlight' = [inFlight EXCEPT ![s] = n]
        /\ executing' = executing - 1
        /\ drained' = IF ~closed /\ Pooled(s) /\ draining[s] /\ n = 0
                      THEN [drained EXCEPT ![s] = "closed"]
                      ELSE drained
        /\ IF ~closed /\ ~draining[s] /\ Pooled(s)
           THEN RefreshReady(s, n < limit) /\ EnterDispatch(pending)
           ELSE UNCHANGED <<listVars, lockVars>>
ReleaseWithoutDispatch(r) ==
    LET s == slot[r]
        n == inFlight[s] - 1
    IN  /\ slot' = [slot EXCEPT ![r] = NoSandbox]
        /\ inFlight' = [inFlight EXCEPT ![s] = n]
        /\ executing' = executing - 1
        /\ drained' = IF ~closed /\ draining[s] /\ n = 0 /\ drained[s] # "nil"
                      THEN [drained EXCEPT ![s] = "closed"]
                      ELSE drained
        /\ IF ~closed /\ ~draining[s] /\ Pooled(s)
           THEN RefreshReady(s, n < limit) /\ UNCHANGED lockVars
           ELSE UNCHANGED <<listVars, lockVars>>

\* release: the sandbox of r gets its slot back
ReleaseSlot(r) ==
    LET s == slot[r]
        n == inFlight[s] - 1
    IN  /\ slot' = [slot EXCEPT ![r] = NoSandbox]
        /\ inFlight' = [inFlight EXCEPT ![s] = n]
        /\ executing' = executing - 1
        /\ drained' = IF ~closed /\ draining[s] /\ n = 0 /\ drained[s] # "nil"
                      THEN [drained EXCEPT ![s] = "closed"]
                      ELSE drained
        /\ IF ~closed /\ ~draining[s] /\ Pooled(s)
           THEN RefreshReady(s, n < limit) /\ EnterDispatch(pending)
           ELSE UNCHANGED <<listVars, lockVars>>

\* Lease.Release (the compare-and-swap makes every later call a no-op), or
\* Acquire gives back a sandbox granted to a request whose context is done
Release(r) ==
    /\ mu = "free"
    /\ \/ call[r] = "held"
       \/ call[r] = "answered" /\ slot[r] # NoSandbox /\ expired[r]
    /\ ReleaseSlot(r)
    /\ call' = [call EXCEPT ![r] = "returned"]
    /\ UNCHANGED <<confVars, mapVars, draining, drain, victim, pending,
                   expired>>

\* The select of Acquire takes its answer: an error, or a lease in time
ReceiveResult(r) ==
    /\ call[r] = "answered"
    /\ slot[r] = NoSandbox \/ ~expired[r]
    /\ call' = [call EXCEPT ![r] = IF slot[r] = NoSandbox THEN "returned" ELSE "held"]
    /\ UNCHANGED <<lockVars, confVars, mapVars, listVars, slotVars, drainVars,
                   pending, expired>>

\* Mutant of CancelQueued: the waiter returns and stays in the queue
CancelLeavesWaiter(r) ==
    /\ mu = "free" /\ call[r] = "queued" /\ expired[r]
    /\ call' = [call EXCEPT ![r] = "returned"]
    /\ UNCHANGED <<lockVars, confVars, mapVars, listVars, slotVars, drainVars,
                   pending, expired>>

\* The context is done while the waiter is still queued
CancelQueued(r) ==
    /\ mu = "free" /\ call[r] = "queued" /\ expired[r]
    /\ pending' = Unlink(pending, r)
    /\ call' = [call EXCEPT ![r] = "returned"]
    /\ UNCHANGED <<lockVars, confVars, mapVars, listVars, slotVars, drainVars,
                   expired>>

-----------------------------------------------------------------------------
(* dispatchLocked, one iteration of its loop per step *)

\* Mutant of DispatchExpired: the waiter is unlinked and never answered
DispatchExpiredSilently ==
    /\ mu = "dispatch" /\ expired[Head(pending)]
    /\ pending' = Tail(pending)
    /\ call' = [call EXCEPT ![Head(pending)] = "unanswered"]
    /\ EnterDispatch(Tail(pending))
    /\ UNCHANGED <<confVars, mapVars, listVars, slotVars, drainVars, expired>>

\* A waiter whose context is done is answered with its error
DispatchExpired ==
    /\ mu = "dispatch" /\ expired[Head(pending)]
    /\ pending' = Tail(pending)
    /\ call' = [call EXCEPT ![Head(pending)] = "answered"]
    /\ EnterDispatch(Tail(pending))
    /\ UNCHANGED <<confVars, mapVars, listVars, slotVars, drainVars, expired>>

DispatchGrant ==
    /\ mu = "dispatch" /\ ~expired[Head(pending)] /\ ready # <<>>
    /\ AcquireLocked(Head(pending))
    /\ pending' = Tail(pending)
    /\ call' = [call EXCEPT ![Head(pending)] = "answered"]
    /\ EnterDispatch(Tail(pending))
    /\ UNCHANGED <<confVars, mapVars, drainVars, expired>>

\* No sandbox has room
DispatchDone ==
    /\ mu = "dispatch" /\ ~expired[Head(pending)] /\ ready = <<>>
    /\ mu' = "free"
    /\ UNCHANGED <<todo, confVars, mapVars, listVars, slotVars, drainVars,
                   callVars>>

-----------------------------------------------------------------------------
(* Configure, Add, Sync and Remove *)

ConfigureBegin(l, d) ==
    /\ mu = "free"
    /\ limit' = NormalizeLimit(l) /\ queueDepth' = NormalizeDepth(d)
    /\ mu' = "configure" /\ todo' = {s \in Sandbox : Pooled(s)}
    /\ UNCHANGED <<closed, mapVars, listVars, slotVars, drainVars, callVars>>

ConfigureStep(s) ==
    /\ mu = "configure" /\ s \in todo
    /\ RefreshReady(s, Available(s))
    /\ todo' = todo \ {s}
    /\ UNCHANGED <<mu, confVars, mapVars, slotVars, drainVars, callVars>>

ConfigureEnd ==
    /\ mu = "configure" /\ todo = {}
    /\ EnterDispatch(pending)
    /\ UNCHANGED <<confVars, mapVars, listVars, slotVars, drainVars, callVars>>

\* A new pooledSandbox enters the map
Insert(s) ==
    /\ s \notin allocated
    /\ sandboxes' = [sandboxes EXCEPT ![IDOf[s]] = s]
    /\ allocated' = allocated \cup {s}
    /\ active' = active + 1

AddNew(s) ==
    /\ mu = "free" /\ ~closed /\ sandboxes[IDOf[s]] = NoSandbox
    /\ Insert(s)
    /\ RefreshReady(s, Available(s))
    /\ EnterDispatch(pending)
    /\ UNCHANGED <<confVars, slotVars, drainVars, callVars>>

\* The target is replaced; the queue is not dispatched
AddExisting(s) ==
    /\ mu = "free" /\ ~closed /\ Pooled(s)
    /\ RefreshReady(s, Available(s))
    /\ UNCHANGED <<lockVars, confVars, mapVars, slotVars, drainVars, callVars>>

\* Allocation bound: every target is in the map or has a fresh object left
SyncBegin(targets) ==
    /\ mu = "free" /\ ~closed
    /\ \A i \in targets : \/ sandboxes[i] # NoSandbox
                          \/ \E s \in Sandbox \ allocated : IDOf[s] = i
    /\ mu' = "drop" /\ todo' = targets
    /\ UNCHANGED <<confVars, mapVars, listVars, slotVars, drainVars, callVars>>

Unwanted(s) == Pooled(s) /\ ~draining[s] /\ IDOf[s] \notin todo

SyncDrop(s) ==
    /\ mu = "drop" /\ Unwanted(s)
    /\ RemoveReady(s)
    /\ sandboxes' = [sandboxes EXCEPT ![IDOf[s]] = NoSandbox]
    /\ active' = active - 1
    /\ UNCHANGED <<lockVars, confVars, allocated, slotVars, drainVars,
                   callVars>>

SyncDropped ==
    /\ mu = "drop" /\ \A s \in Sandbox : ~Unwanted(s)
    /\ mu' = "add"
    /\ UNCHANGED <<todo, confVars, mapVars, listVars, slotVars, drainVars,
                   callVars>>

\* One wanted target: refresh the sandbox of the map, or insert a new one
SyncAdd(s) ==
    /\ mu = "add" /\ IDOf[s] \in todo
    /\ \/ Pooled(s) /\ UNCHANGED mapVars
       \/ sandboxes[IDOf[s]] = NoSandbox /\ Insert(s)
    /\ RefreshReady(s, Available(s))
    /\ todo' = todo \ {IDOf[s]}
    /\ UNCHANGED <<mu, confVars, slotVars, drainVars, callVars>>

SyncEnd ==
    /\ mu = "add" /\ todo = {}
    /\ EnterDispatch(pending)
    /\ UNCHANGED <<confVars, mapVars, listVars, slotVars, drainVars, callVars>>

RemoveSandbox(s) ==
    /\ mu = "free" /\ Pooled(s)
    /\ RemoveReady(s)
    /\ active' = IF draining[s] THEN active ELSE active - 1
    /\ sandboxes' = [sandboxes EXCEPT ![IDOf[s]] = NoSandbox]
    /\ UNCHANGED <<lockVars, confVars, allocated, slotVars, drainVars,
                   callVars>>

-----------------------------------------------------------------------------
(* Drain with its finish function, and Close *)

\* ErrPoolClosed or ErrNoSandbox
DrainRefused(d, i) ==
    /\ mu = "free" /\ drain[d] = "idle"
    /\ \/ closed \/ sandboxes[i] = NoSandbox
       \/ \E s \in Sandbox : sandboxes[i] = s /\ draining[s]
    /\ drain' = [drain EXCEPT ![d] = "returned"]
    /\ UNCHANGED <<lockVars, confVars, mapVars, listVars, slotVars,
                   draining, drained, victim, callVars>>

\* Mutant of DrainBegin: the channel is closed with leases in flight
DrainBeginClosed(d, s) ==
    /\ mu = "free" /\ drain[d] = "idle"
    /\ ~closed /\ Pooled(s) /\ ~draining[s]
    /\ draining' = [draining EXCEPT ![s] = TRUE]
    /\ drained' = [drained EXCEPT ![s] = "closed"]
    /\ active' = active - 1
    /\ RemoveReady(s)
    /\ drain' = [drain EXCEPT ![d] = "waiting"]
    /\ victim' = [victim EXCEPT ![d] = s]
    /\ UNCHANGED <<lockVars, confVars, sandboxes, allocated, slotVars,
                   callVars>>

DrainBegin(d, s) ==
    /\ mu = "free" /\ drain[d] = "idle"
    /\ ~closed /\ Pooled(s) /\ ~draining[s]
    /\ draining' = [draining EXCEPT ![s] = TRUE]
    /\ drained' = [drained EXCEPT ![s] = IF inFlight[s] = 0 THEN "closed" ELSE "open"]
    /\ active' = active - 1
    /\ RemoveReady(s)
    /\ drain' = [drain EXCEPT ![d] = "waiting"]
    /\ victim' = [victim EXCEPT ![d] = s]
    /\ UNCHANGED <<lockVars, confVars, sandboxes, allocated, slotVars,
                   callVars>>

\* <-drained: the caller gets the finish function and stops the sandbox
DrainComplete(d) ==
    /\ drain[d] = "waiting" /\ drained[victim[d]] = "closed"
    /\ drain' = [drain EXCEPT ![d] = "stopping"]
    /\ UNCHANGED <<lockVars, confVars, mapVars, listVars, slotVars,
                   draining, drained, victim, callVars>>

\* restore after ctx.Done(), or finish(false) after the stop call failed: a
\* sandbox still in the map takes requests again
DrainUndo(d) ==
    LET s == victim[d]
    IN  /\ mu = "free" /\ drain[d] \in {"waiting", "stopping"}
        /\ IF Pooled(s) /\ draining[s]
           THEN /\ draining' = [draining EXCEPT ![s] = FALSE]
                /\ drained' = [drained EXCEPT ![s] = "nil"]
                /\ active' = active + 1
                /\ RefreshReady(s, inFlight[s] < limit)
                /\ EnterDispatch(pending)
           ELSE UNCHANGED <<draining, drained, active, listVars, lockVars>>
        /\ drain' = [drain EXCEPT ![d] = "returned"]
        /\ UNCHANGED <<confVars, sandboxes, allocated, slotVars, victim,
                       callVars>>

\* The sandbox was stopped: finish(true)
DrainFinish(d) ==
    LET s == victim[d]
    IN  /\ mu = "free" /\ drain[d] = "stopping"
        /\ sandboxes' = IF Pooled(s) /\ draining[s]
                        THEN [sandboxes EXCEPT ![IDOf[s]] = NoSandbox]
                        ELSE sandboxes
        /\ drain' = [drain EXCEPT ![d] = "returned"]
        /\ UNCHANGED <<lockVars, confVars, allocated, active, listVars,
                       slotVars, draining, drained, victim, callVars>>

\* Every waiter is answered with ErrPoolClosed.  The ready list is emptied in
\* place: sandbox.ready keeps its value, and nothing takes from the list again.
Close ==
    /\ mu = "free" /\ ~closed
    /\ closed' = TRUE
    /\ ready' = <<>> /\ pending' = <<>>
    /\ call' = [r \in Request |-> IF call[r] = "queued" THEN "answered" ELSE call[r]]
    /\ UNCHANGED <<lockVars, limit, queueDepth, mapVars, onReady, slotVars,
                   drainVars, expired>>

-----------------------------------------------------------------------------
Acquire(r) ==
    \/ AcquireRefused(r) \/ AcquireDirect(r) \/ AcquireQueued(r)
    \/ ReceiveResult(r) \/ CancelQueued(r)

Dispatch == DispatchExpired \/ DispatchGrant \/ DispatchDone

Configure ==
    \/ \E l \in Limits, d \in Depths : ConfigureBegin(l, d)
    \/ \E s \in Sandbox : ConfigureStep(s)
    \/ ConfigureEnd

Sync ==
    \/ \E targets \in SyncTargets : SyncBegin(targets)
    \/ \E s \in Sandbox : SyncDrop(s) \/ SyncAdd(s)
    \/ SyncDropped \/ SyncEnd

Drain(d) ==
    \/ \E i \in ID : DrainRefused(d, i)
    \/ \E s \in Sandbox : DrainBegin(d, s)
    \/ DrainComplete(d) \/ DrainUndo(d) \/ DrainFinish(d)

Next ==
    \/ \E r \in Request : Acquire(r) \/ Release(r) \/ Expire(r)
    \/ \E s \in Sandbox : AddNew(s) \/ AddExisting(s) \/ RemoveSandbox(s)
    \/ \E d \in Drainer : Drain(d)
    \/ Dispatch \/ Configure \/ Sync \/ Close

Spec == Init /\ [][Next]_vars

-----------------------------------------------------------------------------
(* Properties *)

\* The type of every variable of the pool, its calls and its drains.
TypeOK ==
    /\ mu \in {"free", "configure", "drop", "add", "dispatch"}
    /\ todo \subseteq Sandbox \cup ID
    /\ limit \in Nat \ {0} /\ queueDepth \in Nat \ {0} /\ closed \in BOOLEAN
    /\ sandboxes \in [ID -> Sandbox \cup {NoSandbox}]
    /\ allocated \subseteq Sandbox
    /\ active \in Int /\ executing \in Int
    /\ ready \in Seq(Sandbox) /\ pending \in Seq(Request)
    /\ inFlight \in [Sandbox -> Int]
    /\ onReady \in [Sandbox -> BOOLEAN]
    /\ draining \in [Sandbox -> BOOLEAN]
    /\ drained \in [Sandbox -> {"nil", "open", "closed"}]
    /\ call \in [Request -> {"idle", "queued", "answered", "held", "returned"}]
    /\ slot \in [Request -> Sandbox \cup {NoSandbox}]
    /\ expired \in [Request -> BOOLEAN]
    /\ drain \in [Drainer -> {"idle", "waiting", "stopping", "returned"}]
    /\ victim \in [Drainer -> Sandbox \cup {NoSandbox}]

\* Every slot in flight belongs to exactly one call: sandbox.inFlight counts
\* the calls that hold the sandbox or have it in their result channel, also
\* for sandboxes Remove or Sync dropped under them, and p.executing counts all.
SlotAccounting ==
    /\ \A s \in Sandbox : inFlight[s] = Cardinality({r \in Request : slot[r] = s})
    /\ executing = Cardinality({r \in Request : slot[r] # NoSandbox})

\* Snapshot's ReadyInstances: p.active counts the sandboxes of the map that are
\* not draining, through every mix of Add, Sync, Remove and Drain outcomes.
ActiveExact ==
    active = Cardinality({s \in Sandbox : Pooled(s) /\ ~draining[s]})

\* The ready list holds each sandbox at most once, and whenever the lock is
\* free exactly the sandboxes of the map that are not draining and have room
\* below the current limit.
ReadyExact ==
    /\ IsInjective(ready)
    /\ mu = "free" /\ ~closed =>
          Range(ready) = {s \in Sandbox : Pooled(s) /\ Available(s)}

\* Work conservation: no request waits while a sandbox that Snapshot counts as
\* available has room; every operation that can free room dispatches.
WorkConserving ==
    mu = "free" /\ pending # <<>> => \A s \in Sandbox : Pooled(s) => ~Available(s)

\* A drained sandbox stays idle until the drain is finished or undone, even if
\* Remove races with it: no request runs on a sandbox being stopped.
DrainedIsIdle ==
    \A d \in Drainer : drain[d] = "stopping" => inFlight[victim[d]] = 0

\* The last release of an open pool wakes the Drain that waits for it.
DrainSignalled ==
    \A d \in Drainer :
       drain[d] = "waiting" /\ ~closed /\ inFlight[victim[d]] = 0 =>
          drained[victim[d]] = "closed"

\* release cannot panic: whoever holds a slot finds something in flight on its
\* sandbox and, on a draining sandbox of an open pool, a drained channel that
\* nobody has closed.
NoPanic ==
    \A r \in Request : slot[r] # NoSandbox =>
       /\ inFlight[slot[r]] > 0
       /\ ~closed /\ draining[slot[r]] => drained[slot[r]] = "open"

\* The queue holds exactly the calls that wait, once each: an answered waiter
\* is never still queued, and a queued one has no answer yet.
QueueExact ==
    /\ IsInjective(pending)
    /\ Range(pending) = {r \in Request : call[r] = "queued"}
    /\ \A r \in Request : call[r] \in {"idle", "queued", "returned"} => slot[r] = NoSandbox

\* A request is granted only a sandbox that is in the map, takes requests and
\* is below the limit of that moment.
GrantWithinLimit ==
    [][\A s \in Sandbox : inFlight'[s] > inFlight[s] =>
          Pooled(s) /\ ~draining[s] /\ inFlight'[s] <= limit /\ ~closed]_vars

-----------------------------------------------------------------------------
(* The inductive invariant *)

\* The ready list and the sandbox.ready pointers agree; Close empties only the
\* list.
ListInv ==
    /\ IsInjective(ready)
    /\ \A s \in Range(ready) : onReady[s]
    /\ ~closed => \A s \in Sandbox : onReady[s] => s \in Range(ready)

\* Except for what Configure has still to refresh, a sandbox is linked in the
\* ready list exactly if it may take a request.
FlagInv ==
    ~closed => \A s \in Sandbox :
                  \/ mu = "configure" /\ s \in todo
                  \/ onReady[s] <=> (Pooled(s) /\ Available(s))

\* The map is keyed by instance ID, and a fresh object is blank.
MapInv ==
    /\ \A i \in ID : sandboxes[i] # NoSandbox =>
          sandboxes[i] \in allocated /\ IDOf[sandboxes[i]] = i
    /\ \A s \in Sandbox \ allocated : ~draining[s] /\ ~onReady[s] /\ inFlight[s] = 0

\* What the loops under the lock can rely on, and work conservation outside.
LoopInv ==
    /\ mu = "dispatch" => pending # <<>>
    /\ mu \in {"drop", "add"} => ~closed
    /\ mu = "configure" => \A s \in todo : s \in Sandbox /\ Pooled(s)
    /\ mu = "free" /\ pending # <<>> => \A s \in Sandbox : ~onReady[s]
    /\ closed => pending = <<>>

\* A Drain under way owns its draining sandbox, whose channel is closed once
\* nothing is in flight.
DrainInv ==
    /\ \A d \in Drainer : drain[d] \in {"waiting", "stopping"} =>
          victim[d] \in Sandbox /\ draining[victim[d]]
    /\ \A d, e \in Drainer :
          /\ drain[d] \in {"waiting", "stopping"}
          /\ drain[e] \in {"waiting", "stopping"}
          /\ victim[d] = victim[e]
          => d = e
    /\ \A d \in Drainer : drain[d] = "stopping" => drained[victim[d]] = "closed"
    /\ \A s \in Sandbox : draining[s] =>
          /\ inFlight[s] # 0 => drained[s] = "open"
          /\ inFlight[s] = 0 /\ ~closed => drained[s] = "closed"
          /\ drained[s] # "nil"

\* A lease always has its sandbox.
LeaseInv == \A r \in Request : call[r] = "held" => slot[r] # NoSandbox

IInv ==
    /\ TypeOK /\ MapInv /\ QueueExact /\ LeaseInv /\ SlotAccounting
    /\ ListInv /\ FlagInv /\ LoopInv /\ DrainInv /\ ActiveExact
=============================================================================
