----------------------------- MODULE PoolSignals -----------------------------
(***************************************************************************)
(* The signals the pool of SandboxPool gives the autoscaler                *)
(* (pkg/leaf/dataplane/pool.go read by pkg/leaf/runtime/function.go): the  *)
(* high-water mark of the demand, the wake-up of the reconcile loop, the   *)
(* age of the queue and the time of the last activity.  Each action of     *)
(* the pool is taken together with what the same method does to these      *)
(* fields; times are abstracted to whether they are set.                   *)
(***************************************************************************)
EXTENDS SandboxPool, FiniteSetsExt

VARIABLES
    accepted,     \* p.accepted (p.completed is its difference to p.executing)
    highWater,    \* p.highWater
    queueHead,    \* p.queueHead is not zero
    lastActivity, \* p.lastActivity is not zero
    demandWake,   \* p.demandWake is set
    notifying,    \* calls that left the lock and have yet to notify
    wake,         \* the buffered token of the demandWake channel
    peak,         \* history: highest demand since the last TakeHighWater
    seen          \* history: the loop was woken since the queue filled

signalVars == <<accepted, highWater, queueHead, lastActivity, demandWake,
                notifying, wake, peak, seen>>

\* p.executing + p.pending.Len()
Demand == executing + Len(pending)

NoteDemand(demand) == highWater' = Max({highWater, demand})

\* The highest demand, as it is each time the lock is free
TrackPeak == peak' = Max({peak, Demand'})

SignalInit ==
    /\ Init
    /\ accepted = 0 /\ highWater = 0 /\ peak = 0
    /\ queueHead = FALSE /\ lastActivity = FALSE
    /\ demandWake = FALSE /\ notifying = {} /\ wake = FALSE /\ seen = FALSE

-----------------------------------------------------------------------------
\* acquireLocked notes the demand with a waiter it serves still in the queue
AcquireSignals ==
    /\ accepted' = accepted + 1
    /\ NoteDemand(Demand + 1)
    /\ lastActivity' = (lastActivity \/ (executing = 0 /\ pending = <<>>))

SignalDirect(r) ==
    /\ AcquireDirect(r)
    /\ AcquireSignals /\ TrackPeak
    /\ UNCHANGED <<queueHead, demandWake, notifying, wake, seen>>

\* Mutant of MustNotify: only wasIdle
NotifyIfIdle == demandWake /\ pending = <<>> /\ executing = 0

\* wasIdle || firstQueued, with the channel read under the lock
MustNotify == demandWake /\ pending = <<>>

\* Mutant of SignalQueued: the demand is noted before the waiter is linked
SignalQueuedEarly(r) ==
    /\ AcquireQueued(r)
    /\ queueHead' = TRUE
    /\ NoteDemand(Demand) /\ TrackPeak
    /\ notifying' = IF MustNotify THEN notifying \cup {r} ELSE notifying
    /\ seen' = (seen /\ pending # <<>>)
    /\ UNCHANGED <<accepted, lastActivity, demandWake, wake>>

SignalQueued(r) ==
    /\ AcquireQueued(r)
    /\ queueHead' = TRUE
    /\ NoteDemand(Demand + 1) /\ TrackPeak
    /\ notifying' = IF MustNotify THEN notifying \cup {r} ELSE notifying
    /\ seen' = (seen /\ pending # <<>>)
    /\ UNCHANGED <<accepted, lastActivity, demandWake, wake>>

\* notify: a full channel keeps its token
Notify(n) ==
    /\ n \in notifying
    /\ notifying' = notifying \ {n}
    /\ wake' = TRUE
    /\ UNCHANGED <<vars, accepted, highWater, queueHead, lastActivity, demandWake,
                   peak, seen>>

\* A call selects on its result only after it has notified
SignalReceive(r) ==
    /\ r \notin notifying
    /\ ReceiveResult(r)
    /\ UNCHANGED signalVars

SignalCancel(r) ==
    /\ r \notin notifying
    /\ CancelQueued(r)
    /\ queueHead' = (queueHead /\ pending' # <<>>)
    /\ UNCHANGED <<accepted, highWater, lastActivity, demandWake, notifying, wake,
                   peak, seen>>

SignalRelease(r) ==
    /\ r \notin notifying
    /\ Release(r)
    /\ lastActivity' = (lastActivity \/ (executing = 1 /\ pending = <<>>))
    /\ UNCHANGED <<accepted, highWater, queueHead, demandWake, notifying, wake, peak,
                   seen>>

SignalGrant ==
    /\ DispatchGrant
    /\ AcquireSignals /\ TrackPeak
    /\ queueHead' = (queueHead /\ pending' # <<>>)
    /\ UNCHANGED <<demandWake, notifying, wake, seen>>

\* The methods that leave the signals alone
SignalRest ==
    /\ \/ \E r \in Request : AcquireRefused(r) \/ Expire(r)
       \/ DispatchExpired \/ DispatchDone
       \/ \E s \in Sandbox : AddNew(s) \/ AddExisting(s) \/ RemoveSandbox(s)
       \/ \E d \in Drainer : Drain(d)
       \/ Configure \/ Sync \/ Close
    /\ UNCHANGED signalVars

-----------------------------------------------------------------------------
(* The reconcile loop of the function controller *)

\* newFunctionController installs the channel once
SetDemandWake ==
    /\ mu = "free" /\ ~demandWake
    /\ demandWake' = TRUE
    /\ notifying' = IF Demand > 0 THEN notifying \cup {NoSandbox} ELSE notifying
    /\ UNCHANGED <<vars, accepted, highWater, queueHead, lastActivity, wake, peak, seen>>

TakeWake ==
    /\ wake
    /\ wake' = FALSE /\ seen' = TRUE
    /\ UNCHANGED <<vars, accepted, highWater, queueHead, lastActivity, demandWake,
                   notifying, peak>>

TakeHighWater ==
    /\ mu = "free"
    /\ highWater' = Demand /\ peak' = Demand
    /\ UNCHANGED <<vars, accepted, queueHead, lastActivity, demandWake, notifying,
                   wake, seen>>

SignalNext ==
    \/ \E r \in Request : \/ SignalDirect(r) \/ SignalQueued(r) \/ SignalReceive(r)
                          \/ SignalCancel(r) \/ SignalRelease(r)
    \/ \E n \in notifying : Notify(n)
    \/ SignalGrant \/ SignalRest
    \/ SetDemandWake \/ TakeWake \/ TakeHighWater

SignalSpec == SignalInit /\ [][SignalNext]_<<vars, signalVars>>

-----------------------------------------------------------------------------
(* Properties *)

\* The types of the signals.
SignalTypeOK ==
    /\ accepted \in Nat /\ highWater \in Nat /\ peak \in Nat
    /\ queueHead \in BOOLEAN /\ lastActivity \in BOOLEAN
    /\ demandWake \in BOOLEAN /\ wake \in BOOLEAN /\ seen \in BOOLEAN
    /\ notifying \subseteq Request \cup {NoSandbox}

\* TakeHighWater never under-reports: the mark covers the highest demand since
\* it was last taken, however admissions, dispatches and reads interleave.
HighWaterCovers == highWater >= peak

\* No lost wake-up: while requests wait, the reconcile loop has been woken since
\* the queue filled, or a token or a notify call is on its way.
WakeNotLost ==
    pending # <<>> /\ demandWake => seen \/ wake \/ notifying # {}

\* What "Idle functions scale to zero" needs: once a function that has run
\* requests is idle, Snapshot has a time of last activity to measure from.
IdleStamped ==
    mu = "free" /\ accepted > 0 /\ Demand = 0 => lastActivity
=============================================================================
