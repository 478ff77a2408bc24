---------------------------- MODULE PoolLiveness ----------------------------
(***************************************************************************)
(* What the pool of SandboxPool must eventually do.  The fairness is what  *)
(* Go's scheduler and sync.Mutex give the goroutines: a loop under the     *)
(* lock runs on, a goroutine whose channel is ready proceeds, and one that *)
(* waits for the lock gets it in the end (a waiter starved for 1 ms is     *)
(* handed the mutex), however often others take it in between.  Leases end *)
(* because the proxied request they belong to does.  Nothing is assumed of *)
(* new calls, expiring contexts or drains that are given up.               *)
(***************************************************************************)
EXTENDS SandboxPool

\* The loops under the lock
LoopStep ==
    \/ Dispatch
    \/ \E s \in Sandbox : ConfigureStep(s) \/ SyncDrop(s) \/ SyncAdd(s)
    \/ ConfigureEnd \/ SyncDropped \/ SyncEnd

Fairness ==
    /\ WF_vars(LoopStep)
    /\ \A r \in Request : /\ WF_vars(ReceiveResult(r))
                          /\ SF_vars(Release(r)) /\ SF_vars(CancelQueued(r))
    /\ \A d \in Drainer : WF_vars(DrainComplete(d))

LiveSpec == Spec /\ Fairness

\* No Acquire outlives its context for ever: a call that waits in the queue or
\* for its answer when its context ends returns, whatever the other calls do.
ExpiredReturns ==
    \A r \in Request :
       expired[r] /\ call[r] \in {"queued", "answered"} ~> call[r] = "returned"

\* A pool that keeps a sandbox which takes requests serves or rejects every
\* request it has queued: nobody starves in the queue.
QueueProgress ==
    <>[](active > 0) => \A r \in Request : call[r] = "queued" ~> call[r] # "queued"

\* A Drain of an open pool does not wait for ever: existing leases end, none is
\* added, and the last release signals it.
DrainProgress ==
    \A d \in Drainer : drain[d] = "waiting" ~> drain[d] # "waiting" \/ closed
=============================================================================
