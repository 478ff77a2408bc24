------------------------------ MODULE Placement ------------------------------
(***************************************************************************)
(* The leaf's placement state (leaf/runtime/placement.go).                 *)
(*                                                                         *)
(* Every function's pump starts sandboxes through it.  A start holds three *)
(* things until it is committed or cancelled: a leaf-wide start token, a   *)
(* start token of its worker and a reservation slot.  All of them are      *)
(* atomic counters without a common lock, so every load, compare-and-swap  *)
(* and add below is a step of its own.                                     *)
(*                                                                         *)
(* A Starter is one goroutine that plans and runs starts.  Its sandbox is  *)
(* tracked by the actuator just before the reservation is committed        *)
(* (actuator.go, runStart); tracked sandboxes are stopped or evicted at    *)
(* any time after that and then reported with RecordStop.                  *)
(***************************************************************************)
EXTENDS Integers, FiniteSets

CONSTANTS
    Starter,               \* goroutines that start sandboxes
    Worker,                \* indices of PlacementState.workers
    Slot,                  \* indices of PlacementState.reservations
    startTokensPerWorker,  \* 0: no limit
    startTokensTotal,      \* 0: no limit
    maxInstancesPerWorker, \* 0: no limit
    MaxStarts              \* bound: reservations made over a behaviour

ASSUME PlacementAssumption ==
    /\ IsFiniteSet(Starter)
    /\ Worker # {} /\ Slot # {}
    /\ startTokensPerWorker \in Nat
    /\ startTokensTotal \in Nat
    /\ maxInstancesPerWorker \in Nat
    /\ MaxStarts \in Nat

VARIABLES
    pendingStarts, \* leaf-wide start tokens in use
    workerPending, \* worker: start tokens in use
    instances,     \* worker: committed instances not yet recorded as stopped
    slots,         \* slot: generation, odd while reserved
    telemetry,     \* worker: last WorkerState, eligible and its instance count
    pc,            \* starter: next step
    at,            \* starter: worker being tried or reserved
    tried,         \* starter: workers reserveWorker refused
    seen,          \* starter: workerPending as loaded by reserveWorker
    token,         \* starter: its last PlacementReservation
    tracked,       \* worker: sandboxes the actuator tracks
    unrecorded,    \* worker: sandboxes dropped whose RecordStop is due
    starts         \* reservations made so far (bound only)

counters == <<pendingStarts, workerPending, instances, slots>>
locals == <<pc, at, tried, seen, token>>
actuator == <<tracked, unrecorded>>
vars == <<counters, locals, actuator, telemetry, starts>>

NoToken == [slot |-> CHOOSE s \in Slot : TRUE, generation |-> 0]

Init ==
    /\ pendingStarts = 0
    /\ workerPending = [w \in Worker |-> 0]
    /\ instances = [w \in Worker |-> 0]
    /\ slots = [s \in Slot |-> 0]
    /\ telemetry = [w \in Worker |-> [eligible |-> TRUE, instances |-> 0]]
    /\ pc = [p \in Starter |-> "idle"]
    /\ at \in [Starter -> {CHOOSE w \in Worker : TRUE}]
    /\ tried = [p \in Starter |-> {}]
    /\ seen = [p \in Starter |-> 0]
    /\ token = [p \in Starter |-> NoToken]
    /\ tracked = [w \in Worker |-> 0]
    /\ unrecorded = [w \in Worker |-> 0]
    /\ starts = 0

----------------------------------------------------------------------------
Decremented(n) == IF n > 0 THEN n - 1 ELSE 0

Larger(m, n) == IF m > n THEN m ELSE n

\* No telemetry counts as eligible with no instances.
observedInstances(w) == Larger(instances[w], telemetry[w].instances)

WorkerFull(w, pending) ==
    maxInstancesPerWorker > 0 /\ observedInstances(w) + pending >= maxInstancesPerWorker

Goto(p, from, to) == pc[p] = from /\ pc' = [pc EXCEPT ![p] = to]

\* Steps of scheduleBalanced and scheduleSnapshot.
ReserveGlobalStart(p) ==
    /\ Goto(p, "idle", "pick")
    /\ starts < MaxStarts
    /\ startTokensTotal > 0 => pendingStarts < startTokensTotal
    /\ starts' = starts + 1
    /\ pendingStarts' = pendingStarts + 1
    /\ tried' = [tried EXCEPT ![p] = {}]
    /\ UNCHANGED <<workerPending, instances, slots, telemetry, at, seen, token, actuator>>

\* The balanced path tries every worker, the snapshot path the one its
\* scheduler picked from a copy of the state that may be out of date.
TryWorker(p, w) ==
    /\ Goto(p, "pick", "load")
    /\ w \notin tried[p]
    /\ at' = [at EXCEPT ![p] = w]
    /\ UNCHANGED <<counters, telemetry, tried, seen, token, actuator, starts>>

NoWorker(p) ==
    /\ Goto(p, "pick", "release")
    /\ UNCHANGED <<counters, telemetry, at, tried, seen, token, actuator, starts>>

Refused(p) ==
    /\ pc' = [pc EXCEPT ![p] = "pick"]
    /\ tried' = [tried EXCEPT ![p] = @ \cup {at[p]}]

\* reserveWorker: eligibility and load of the pending starts,
ReserveLoad(p) ==
    /\ pc[p] = "load"
    /\ \/ /\ telemetry[at[p]].eligible
          /\ pc' = [pc EXCEPT ![p] = "check"]
          /\ seen' = [seen EXCEPT ![p] = workerPending[at[p]]]
          /\ UNCHANGED tried
       \/ /\ ~telemetry[at[p]].eligible
          /\ Refused(p)
          /\ UNCHANGED seen
    /\ UNCHANGED <<counters, telemetry, at, token, actuator, starts>>

\* the two limits,
ReserveCheck(p) ==
    LET full == \/ startTokensPerWorker > 0 /\ seen[p] >= startTokensPerWorker
                \/ WorkerFull(at[p], seen[p])
    IN  /\ pc[p] = "check"
        /\ \/ full /\ Refused(p)
           \/ ~full /\ pc' = [pc EXCEPT ![p] = "cas"] /\ UNCHANGED tried
        /\ UNCHANGED <<counters, telemetry, at, seen, token, actuator, starts>>

\* Mutant: an unconditional add in place of the compare-and-swap.
ReserveSwapBlindly(p) ==
    /\ Goto(p, "cas", "recheck")
    /\ workerPending' = [workerPending EXCEPT ![at[p]] = @ + 1]
    /\ UNCHANGED <<pendingStarts, instances, slots, telemetry, at, tried, seen, token, actuator, starts>>

\* the compare-and-swap, with a retry,
ReserveSwap(p) ==
    LET swapped == workerPending[at[p]] = seen[p]
    IN  /\ Goto(p, "cas", IF swapped THEN "recheck" ELSE "load")
        /\ workerPending' = IF swapped THEN [workerPending EXCEPT ![at[p]] = @ + 1] ELSE workerPending
        /\ UNCHANGED <<pendingStarts, instances, slots, telemetry, at, tried, seen, token, actuator, starts>>

\* and the second look after it.
ReserveRecheck(p) ==
    LET ok == telemetry[at[p]].eligible /\ ~WorkerFull(at[p], seen[p])
    IN  /\ pc[p] = "recheck"
        /\ \/ /\ ok
              /\ pc' = [pc EXCEPT ![p] = "claim"]
              /\ UNCHANGED <<tried, workerPending>>
           \/ /\ ~ok
              /\ Refused(p)
              /\ workerPending' = [workerPending EXCEPT ![at[p]] = Decremented(@)]
        /\ UNCHANGED <<pendingStarts, instances, slots, telemetry, at, seen, token, actuator, starts>>

\* claimReservationSlot scans the slots; any free one may be found first.
ClaimSlot(p, s) ==
    /\ Goto(p, "claim", "start")
    /\ slots[s] % 2 = 0
    /\ slots' = [slots EXCEPT ![s] = @ + 1]
    /\ token' = [token EXCEPT ![p] = [slot |-> s, generation |-> slots[s] + 1]]
    /\ UNCHANGED <<pendingStarts, workerPending, instances, telemetry, at, tried, seen, actuator, starts>>

\* Mutant: the worker's token is not returned.
ClaimFailsLeaking(p) ==
    /\ Goto(p, "claim", "release")
    /\ \E s \in Slot : slots[s] % 2 = 1
    /\ UNCHANGED <<counters, telemetry, at, tried, seen, token, actuator, starts>>

\* The scan sees every slot reserved, though not all at the same moment.
ClaimFails(p) ==
    /\ Goto(p, "claim", "release")
    /\ \E s \in Slot : slots[s] % 2 = 1
    /\ workerPending' = [workerPending EXCEPT ![at[p]] = Decremented(@)]
    /\ UNCHANGED <<pendingStarts, instances, slots, telemetry, at, tried, seen, token, actuator, starts>>

releaseGlobalStart(p) ==
    /\ Goto(p, "release", "idle")
    /\ pendingStarts' = Decremented(pendingStarts)
    /\ tried' = [tried EXCEPT ![p] = {}]
    /\ seen' = [seen EXCEPT ![p] = 0]
    /\ UNCHANGED <<workerPending, instances, slots, telemetry, at, token, actuator, starts>>

----------------------------------------------------------------------------
(* runStart: the sandbox starts, is tracked and committed; or it fails.    *)

Track(p) ==
    /\ Goto(p, "start", "commit")
    /\ tracked' = [tracked EXCEPT ![at[p]] = @ + 1]
    /\ UNCHANGED <<counters, telemetry, at, tried, seen, token, unrecorded, starts>>

StartFails(p) ==
    /\ Goto(p, "start", "cancel")
    /\ UNCHANGED <<counters, telemetry, at, tried, seen, token, actuator, starts>>

Completes(p) == slots[token[p].slot] = token[p].generation

\* completeReservation: only the holder of the current generation succeeds.
completeReservation(p, from, to) ==
    /\ pc[p] = from
    /\ pc' = [pc EXCEPT ![p] = IF Completes(p) THEN to ELSE "idle"]
    /\ slots' = IF Completes(p) THEN [slots EXCEPT ![token[p].slot] = @ + 1] ELSE slots
    /\ UNCHANGED <<pendingStarts, workerPending, instances, telemetry, at, tried, seen, token, actuator, starts>>

CommitReservation(p) == completeReservation(p, "commit", "commitPending")

CancelReservation(p) == completeReservation(p, "cancel", "cancelPending")

\* A second call with a token that was already completed.
RepeatCancel(p) ==
    /\ token[p].generation > 0
    /\ completeReservation(p, "idle", "cancelPending")

ReleaseWorker(p) ==
    /\ pc[p] \in {"commitPending", "cancelPending"}
    /\ pc' = [pc EXCEPT ![p] = IF pc[p] = "commitPending" THEN "commitInstance" ELSE "release"]
    /\ workerPending' = [workerPending EXCEPT ![at[p]] = Decremented(@)]
    /\ UNCHANGED <<pendingStarts, instances, slots, telemetry, at, tried, seen, token, actuator, starts>>

AddInstance(p) ==
    /\ Goto(p, "commitInstance", "release")
    /\ instances' = [instances EXCEPT ![at[p]] = @ + 1]
    /\ UNCHANGED <<pendingStarts, workerPending, slots, telemetry, at, tried, seen, token, actuator, starts>>

----------------------------------------------------------------------------
(* The actuator drops a tracked sandbox, then records the stop.            *)

Drop(w) ==
    /\ tracked[w] > 0
    /\ tracked' = [tracked EXCEPT ![w] = @ - 1]
    /\ unrecorded' = [unrecorded EXCEPT ![w] = @ + 1]
    /\ UNCHANGED <<counters, locals, telemetry, starts>>

RecordStop(w) ==
    /\ unrecorded[w] > 0
    /\ unrecorded' = [unrecorded EXCEPT ![w] = @ - 1]
    /\ instances' = [instances EXCEPT ![w] = Decremented(@)]
    /\ UNCHANGED <<pendingStarts, workerPending, slots, locals, telemetry, tracked, starts>>

\* A worker reports its state: it may refuse new sandboxes, and it counts the
\* tracked ones and some of those being started.
UpdateWorker(w, eligible) ==
    /\ \E n \in tracked[w] .. tracked[w] + Cardinality({p \in Starter : at[p] = w /\ pc[p] = "start"}) :
         telemetry' = [telemetry EXCEPT ![w] = [eligible |-> eligible, instances |-> n]]
    /\ telemetry' # telemetry
    /\ UNCHANGED <<counters, locals, actuator, starts>>

Schedule(p) ==
    \/ ReserveGlobalStart(p)
    \/ \E w \in Worker : TryWorker(p, w)
    \/ NoWorker(p)
    \/ ReserveLoad(p)
    \/ ReserveCheck(p)
    \/ ReserveSwap(p)
    \/ ReserveRecheck(p)
    \/ \E s \in Slot : ClaimSlot(p, s)
    \/ ClaimFails(p)
    \/ releaseGlobalStart(p)

Run(p) ==
    \/ Track(p)
    \/ StartFails(p)
    \/ CommitReservation(p)
    \/ CancelReservation(p)
    \/ RepeatCancel(p)
    \/ ReleaseWorker(p)
    \/ AddInstance(p)

Next ==
    \/ \E p \in Starter : Schedule(p)
    \/ \E p \in Starter : Run(p)
    \/ \E w \in Worker : Drop(w)
    \/ \E w \in Worker : RecordStop(w)
    \/ \E w \in Worker, eligible \in BOOLEAN : UpdateWorker(w, eligible)

Spec == Init /\ [][Next]_vars

----------------------------------------------------------------------------
Steps == {"idle", "pick", "load", "check", "cas", "recheck", "claim", "release", "start",
          "commit", "cancel", "commitPending", "cancelPending", "commitInstance"}

\* The types of the placement state.
TypeOK ==
    /\ pendingStarts \in Nat
    /\ workerPending \in [Worker -> Nat]
    /\ instances \in [Worker -> Nat]
    /\ slots \in [Slot -> Nat]
    /\ telemetry \in [Worker -> [eligible : BOOLEAN, instances : Nat]]
    /\ pc \in [Starter -> Steps]
    /\ at \in [Starter -> Worker]
    /\ tried \in [Starter -> SUBSET Worker]
    /\ seen \in [Starter -> Nat]
    /\ token \in [Starter -> [slot : Slot, generation : Nat]]
    /\ tracked \in [Worker -> Nat]
    /\ unrecorded \in [Worker -> Nat]
    /\ starts \in 0..MaxStarts

\* The starters that hold a token of each kind.
GlobalHolders == {p \in Starter : pc[p] # "idle"}

WorkerHolders(w) ==
    {p \in Starter : /\ at[p] = w
                     /\ pc[p] \in {"recheck", "claim", "start", "commit", "cancel",
                                   "commitPending", "cancelPending"}}

SlotHolders(s) ==
    {p \in Starter : token[p].slot = s /\ pc[p] \in {"start", "commit", "cancel"}}

Committing(w) ==
    {p \in Starter : at[p] = w /\ pc[p] \in {"commit", "commitPending", "commitInstance"}}

\* Start tokens are conserved: every counter equals the number of starts that
\* hold one, whatever path they take and however often a completed token is
\* presented again, so no token is lost and none is returned twice; and a
\* worker is never believed to have fewer instances than the actuator tracks,
\* except those whose commit has not added them yet (reserveGlobalStart,
\* reserveWorker, completeReservation, decrement, RecordStop).
TokensConserved ==
    /\ pendingStarts = Cardinality(GlobalHolders)
    /\ \A w \in Worker : workerPending[w] = Cardinality(WorkerHolders(w))
    /\ \A s \in Slot : slots[s] % 2 = Cardinality(SlotHolders(s))
    /\ \A w \in Worker : tracked[w] <= instances[w] + Cardinality(Committing(w))

\* The limits on starts in flight hold at every moment, also between the
\* compare-and-swap of reserveWorker and the check that follows it.
StartLimits ==
    /\ startTokensTotal > 0 => pendingStarts <= startTokensTotal
    /\ startTokensPerWorker > 0 =>
         \A w \in Worker : workerPending[w] <= startTokensPerWorker

\* The leaf does not place more sandboxes on a worker than the configuration
\* allows.
InstanceCap ==
    maxInstancesPerWorker > 0 => \A w \in Worker : tracked[w] <= maxInstancesPerWorker

=============================================================================
