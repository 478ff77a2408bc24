--------------------------- MODULE DecisionProofs ---------------------------
(***************************************************************************)
(* The leaf's decisions about instances, for any limits and numbers:       *)
(* start tokens and limits of a placement (Placement), the scale decided   *)
(* on (ScalePolicy) and the optimistic scale kept of it (StrictScale).     *)
(***************************************************************************)
EXTENDS Placement, ScalePolicy, StrictScale, Counting, TLAPS

----------------------------------------------------------------------------
(* Placement.                                                              *)

\* What is seen between the check and the compare-and-swap is below the limit.
SeenBelow ==
    startTokensPerWorker > 0 => \A p \in Starter : pc[p] = "cas" => seen[p] < startTokensPerWorker

LimitInv == TypeOK /\ SeenBelow /\ StartLimits

----------------------------------------------------------------------------
\* The types are kept by every step.
LEMMA TypeStep ==
    ASSUME TypeOK, [Next]_vars PROVE TypeOK'
<1> USE PlacementAssumption DEF TypeOK, Steps, counters, locals, actuator
<1>a. ASSUME NEW p \in Starter, Refused(p)
      PROVE  pc' \in [Starter -> Steps] /\ tried' \in [Starter -> SUBSET Worker]
  <2>1. tried[p] \cup {at[p]} \in SUBSET Worker
    BY ZenonT(60)
  <2> QED
    BY <1>a, <2>1, Zenon DEF Refused
<1>1. ASSUME NEW p \in Starter, ReserveGlobalStart(p) PROVE TypeOK'
  BY <1>1 DEF ReserveGlobalStart, Goto
<1>2. ASSUME NEW p \in Starter, NEW w \in Worker, TryWorker(p, w) PROVE TypeOK'
  BY <1>2, Zenon DEF TryWorker, Goto
<1>3. ASSUME NEW p \in Starter, NoWorker(p) PROVE TypeOK'
  BY <1>3, Zenon DEF NoWorker, Goto
<1>4. ASSUME NEW p \in Starter, ReserveLoad(p) PROVE TypeOK'
  <2>1. CASE telemetry[at[p]].eligible
    BY <1>4, <2>1, ZenonT(60) DEF ReserveLoad
  <2>2. CASE ~telemetry[at[p]].eligible
    BY <1>4, <1>a, <2>2, Zenon DEF ReserveLoad
  <2> QED
    BY <2>1, <2>2, Zenon
<1>5. ASSUME NEW p \in Starter, ReserveCheck(p) PROVE TypeOK'
  <2>1. CASE Refused(p)
    BY <1>5, <1>a, <2>1, Zenon DEF ReserveCheck
  <2>2. CASE ~Refused(p)
    BY <1>5, <2>2, Zenon DEF ReserveCheck
  <2> QED
    BY <2>1, <2>2, Zenon
<1>6. ASSUME NEW p \in Starter, ReserveSwap(p) PROVE TypeOK'
  BY <1>6 DEF ReserveSwap, Goto
<1>7. ASSUME NEW p \in Starter, ReserveRecheck(p) PROVE TypeOK'
  <2>1. workerPending' \in [Worker -> Nat]
    BY <1>7 DEF ReserveRecheck, Decremented
  <2>2. CASE Refused(p)
    BY <1>7, <1>a, <2>1, <2>2, Zenon DEF ReserveRecheck
  <2>3. CASE ~Refused(p)
    BY <1>7, <2>1, <2>3, Zenon DEF ReserveRecheck
  <2> QED
    BY <2>2, <2>3, Zenon
<1>8. ASSUME NEW p \in Starter, NEW s \in Slot, ClaimSlot(p, s) PROVE TypeOK'
  BY <1>8 DEF ClaimSlot, Goto
<1>9. ASSUME NEW p \in Starter, ClaimFails(p) PROVE TypeOK'
  BY <1>9 DEF ClaimFails, Goto, Decremented
<1>10. ASSUME NEW p \in Starter, releaseGlobalStart(p) PROVE TypeOK'
  BY <1>10 DEF releaseGlobalStart, Goto, Decremented
<1>11. ASSUME NEW p \in Starter, Track(p) PROVE TypeOK'
  BY <1>11 DEF Track, Goto
<1>12. ASSUME NEW p \in Starter, StartFails(p) PROVE TypeOK'
  BY <1>12, Zenon DEF StartFails, Goto
<1>13. ASSUME NEW p \in Starter, CommitReservation(p) \/ CancelReservation(p) \/ RepeatCancel(p)
       PROVE  TypeOK'
  <2>1. PICK from \in Steps, to \in Steps : completeReservation(p, from, to)
    BY <1>13, Zenon DEF CommitReservation, CancelReservation, RepeatCancel
  <2>2. pc' \in [Starter -> Steps] /\ slots' \in [Slot -> Nat]
    BY <2>1 DEF completeReservation
  <2> QED
    BY <2>1, <2>2, Zenon DEF completeReservation
<1>14. ASSUME NEW p \in Starter, ReleaseWorker(p) PROVE TypeOK'
  BY <1>14 DEF ReleaseWorker, Decremented
<1>15. ASSUME NEW p \in Starter, AddInstance(p) PROVE TypeOK'
  BY <1>15 DEF AddInstance, Goto
<1>16. ASSUME NEW w \in Worker, Drop(w) PROVE TypeOK'
  BY <1>16 DEF Drop
<1>17. ASSUME NEW w \in Worker, RecordStop(w) PROVE TypeOK'
  BY <1>17 DEF RecordStop, Decremented
<1>18. ASSUME NEW w \in Worker, NEW eligible \in BOOLEAN, UpdateWorker(w, eligible) PROVE TypeOK'
  BY <1>18 DEF UpdateWorker
<1>19. CASE UNCHANGED vars
  BY <1>19, Zenon DEF vars
<1> QED
  BY <1>1, <1>2, <1>3, <1>4, <1>5, <1>6, <1>7, <1>8, <1>9, <1>10, <1>11, <1>12, <1>13, <1>14,
     <1>15, <1>16, <1>17, <1>18, <1>19, ZenonT(60)
     DEF Next, Schedule, Run

\* The initial values have their types.
LEMMA InitTypes == Init => TypeOK
<1> SUFFICES ASSUME Init PROVE TypeOK
  BY Zenon
<1>1. (CHOOSE w \in Worker : TRUE) \in Worker /\ (CHOOSE s \in Slot : TRUE) \in Slot
  BY PlacementAssumption, Zenon
<1>2. NoToken \in [slot : Slot, generation : Nat]
  BY <1>1, Zenon DEF NoToken
<1>3. token \in [Starter -> [slot : Slot, generation : Nat]]
  BY <1>2, Zenon DEF Init
<1>4. at \in [Starter -> Worker]
  BY <1>1, Zenon DEF Init
<1> QED
  BY <1>3, <1>4, PlacementAssumption DEF Init, TypeOK, Steps

\* Only reserveGlobalStart and the compare-and-swap of reserveWorker take a
\* token, each below its limit: the value swapped is the value checked.
LEMMA LimitStep ==
    ASSUME LimitInv, [Next]_vars PROVE (SeenBelow /\ StartLimits)'
<1>0. TypeOK /\ SeenBelow /\ StartLimits /\ PlacementAssumption
  BY PlacementAssumption, Zenon DEF LimitInv, PlacementAssumption
<1> USE <1>0 DEF TypeOK, SeenBelow, StartLimits, PlacementAssumption, counters
<1>1. ASSUME NEW p \in Starter, ReserveGlobalStart(p) PROVE (SeenBelow /\ StartLimits)'
  BY <1>1 DEF ReserveGlobalStart, Goto
<1>2. ASSUME NEW p \in Starter, NEW w \in Worker, TryWorker(p, w) PROVE (SeenBelow /\ StartLimits)'
  BY <1>2, Zenon DEF TryWorker, Goto
<1>3. ASSUME NEW p \in Starter, NoWorker(p) \/ Track(p) \/ StartFails(p) \/ AddInstance(p)
      PROVE  (SeenBelow /\ StartLimits)'
  BY <1>3, ZenonT(60) DEF NoWorker, Track, StartFails, AddInstance, Goto
<1>4. ASSUME NEW p \in Starter, ReserveLoad(p) PROVE (SeenBelow /\ StartLimits)'
  BY <1>4, Zenon DEF ReserveLoad, Refused
<1>5. ASSUME NEW p \in Starter, ReserveCheck(p) PROVE (SeenBelow /\ StartLimits)'
  BY <1>5 DEF ReserveCheck, Refused
<1>6. ASSUME NEW p \in Starter, ReserveSwap(p) PROVE (SeenBelow /\ StartLimits)'
  BY <1>6 DEF ReserveSwap, Goto
<1>7. ASSUME NEW p \in Starter, ReserveRecheck(p) PROVE (SeenBelow /\ StartLimits)'
  BY <1>7, SMTT(60) DEF ReserveRecheck, Refused, Decremented
<1>8. ASSUME NEW p \in Starter, NEW s \in Slot, ClaimSlot(p, s) PROVE (SeenBelow /\ StartLimits)'
  BY <1>8, Zenon DEF ClaimSlot, Goto
<1>9. ASSUME NEW p \in Starter, ClaimFails(p) PROVE (SeenBelow /\ StartLimits)'
  BY <1>9 DEF ClaimFails, Goto, Decremented
<1>10. ASSUME NEW p \in Starter, releaseGlobalStart(p) PROVE (SeenBelow /\ StartLimits)'
  BY <1>10, SMTT(60) DEF releaseGlobalStart, Goto, Decremented
<1>11. ASSUME NEW p \in Starter, NEW from, NEW to, to # "cas", completeReservation(p, from, to)
       PROVE  (SeenBelow /\ StartLimits)'
  BY <1>11, Zenon DEF completeReservation
<1>12. ASSUME NEW p \in Starter, CommitReservation(p) \/ CancelReservation(p) \/ RepeatCancel(p)
       PROVE  (SeenBelow /\ StartLimits)'
  BY <1>11, <1>12, Zenon DEF CommitReservation, CancelReservation, RepeatCancel
<1>13. ASSUME NEW p \in Starter, ReleaseWorker(p) PROVE (SeenBelow /\ StartLimits)'
  BY <1>13, SMTT(60) DEF ReleaseWorker, Decremented
<1>14. CASE \/ \E w \in Worker : Drop(w) \/ RecordStop(w)
            \/ \E w \in Worker, eligible \in BOOLEAN : UpdateWorker(w, eligible)
            \/ UNCHANGED vars
  BY <1>14, Zenon DEF Drop, RecordStop, UpdateWorker, vars, locals
<1> QED
  BY <1>1, <1>2, <1>3, <1>4, <1>5, <1>6, <1>7, <1>8, <1>9, <1>10, <1>12, <1>13, <1>14, ZenonT(60)
     DEF Next, Schedule, Run

\* The limits on starts in flight hold at every moment, for any number of
\* starters that race for the tokens.
THEOREM LimitsHold == Spec => []StartLimits
<1>1. Init => LimitInv
  BY InitTypes, PlacementAssumption DEF Init, LimitInv, SeenBelow, StartLimits
<1>2. LimitInv /\ [Next]_vars => LimitInv'
  BY TypeStep, LimitStep, Zenon DEF LimitInv
<1>3. LimitInv => StartLimits
  BY Zenon DEF LimitInv
<1> QED
  BY <1>1, <1>2, <1>3, PTL DEF Spec

----------------------------------------------------------------------------
Holding == {"start", "commit", "cancel"}

\* A starter that holds a slot has its current generation, and a token that was
\* completed is behind it: this is what makes completeReservation idempotent.
SlotOwn ==
    \A p \in Starter :
       IF pc[p] \in Holding
       THEN slots[token[p].slot] = token[p].generation /\ token[p].generation % 2 = 1
       ELSE token[p].generation > 0 => token[p].generation < slots[token[p].slot]

\* No two starters hold the same slot.
SlotDistinct ==
    \A p, q \in Starter :
       pc[p] \in Holding /\ pc[q] \in Holding /\ token[p].slot = token[q].slot => p = q

\* A stop recorded before its start is committed is lost at zero, in favour of
\* the worker: the instances counted and being committed cover those tracked
\* and those whose stop is due.
StopsCovered ==
    \A w \in Worker : tracked[w] + unrecorded[w] <= instances[w] + Cardinality(Committing(w))

GlobalExact == pendingStarts = Cardinality(GlobalHolders)
WorkerExact == \A w \in Worker : workerPending[w] = Cardinality(WorkerHolders(w))
SlotExact == \A s \in Slot : slots[s] % 2 = Cardinality(SlotHolders(s))

TokenInv ==
    /\ TypeOK /\ SlotOwn /\ SlotDistinct
    /\ GlobalExact /\ WorkerExact /\ SlotExact /\ StopsCovered

\* Two sets of starters that differ at most in p differ in size by p.
LEMMA CountOne ==
    ASSUME CountingLaws, NEW A \in SUBSET Starter, NEW B \in SUBSET Starter, NEW p \in Starter,
           \A q \in Starter \ {p} : q \in A <=> q \in B
    PROVE  /\ Cardinality(A) \in Nat /\ Cardinality(B) \in Nat
           /\ p \in A /\ p \in B => Cardinality(B) = Cardinality(A)
           /\ p \notin A /\ p \notin B => Cardinality(B) = Cardinality(A)
           /\ p \notin A /\ p \in B => Cardinality(B) = Cardinality(A) + 1
           /\ p \in A /\ p \notin B => Cardinality(A) = Cardinality(B) + 1
<1>0. IsFiniteSet(A) /\ IsFiniteSet(B)
  BY PlacementAssumption, Zenon DEF CountingLaws
<1>1. Cardinality(A) \in Nat /\ Cardinality(B) \in Nat
  BY <1>0, Zenon DEF CountingLaws
<1>2. (p \in A <=> p \in B) => A = B
  OBVIOUS
<1>3. ASSUME p \notin A, p \in B PROVE Cardinality(B) = Cardinality(A) + 1
  <2>1. B = A \cup {p}
    BY <1>3, Zenon
  <2> QED
    BY <1>0, <1>3, <2>1, Zenon DEF CountingLaws
<1>4. ASSUME p \in A, p \notin B PROVE Cardinality(A) = Cardinality(B) + 1
  <2>1. A = B \cup {p}
    BY <1>4, Zenon
  <2> QED
    BY <1>0, <1>4, <2>1, Zenon DEF CountingLaws
<1> QED
  BY <1>1, <1>2, <1>3, <1>4, Zenon

\* The token a starter presents is current if and only if it holds the slot, so
\* that commits and cancellations succeed and repeated ones do nothing.
LEMMA CompletionExact ==
    ASSUME TokenInv, NEW p \in Starter
    PROVE  /\ pc[p] \in Holding => Completes(p)
           /\ RepeatCancel(p) => ~Completes(p) /\ UNCHANGED vars
<1>1. pc[p] \in Holding => Completes(p)
  BY Zenon DEF TokenInv, SlotOwn, Completes
<1>2. ASSUME RepeatCancel(p) PROVE ~Completes(p) /\ UNCHANGED vars
  <2>1. pc[p] = "idle" /\ token[p].generation > 0
    BY <1>2, Zenon DEF RepeatCancel, completeReservation
  <2>2. ~Completes(p)
    <3>1. token[p].generation \in Nat /\ slots[token[p].slot] \in Nat
      BY Zenon DEF TokenInv, TypeOK
    <3>2. token[p].generation < slots[token[p].slot]
      BY <2>1, Zenon DEF TokenInv, SlotOwn, Holding
    <3> QED
      BY <3>1, <3>2 DEF Completes
  <2>3. pc' = [pc EXCEPT ![p] = "idle"] /\ slots' = slots
    BY <1>2, <2>2, Zenon DEF RepeatCancel, completeReservation
  <2>4. pc' = pc
    BY <2>1, <2>3, Zenon DEF TokenInv, TypeOK
  <2> QED
    BY <1>2, <2>2, <2>3, <2>4, Zenon DEF RepeatCancel, completeReservation, vars, counters, locals, actuator
<1> QED
  BY <1>1, <1>2, Zenon

\* A completion is a commit or a cancellation by the holder of the slot.
CompletedBy(p, from, to) ==
    /\ pc[p] = from
    /\ pc' = [pc EXCEPT ![p] = to]
    /\ slots' = [slots EXCEPT ![token[p].slot] = @ + 1]
    /\ UNCHANGED <<pendingStarts, workerPending, instances, telemetry, at, tried, seen, token, actuator, starts>>

\* Every commit and every cancellation of a start that is under way succeeds.
LEMMA CompletionSucceeds ==
    ASSUME TokenInv, NEW p \in Starter
    PROVE  /\ CommitReservation(p) => CompletedBy(p, "commit", "commitPending")
           /\ CancelReservation(p) => CompletedBy(p, "cancel", "cancelPending")
<1>1. pc[p] \in {"commit", "cancel"} => Completes(p)
  BY CompletionExact, Zenon DEF Holding
<1> QED
  BY <1>1, Zenon DEF CommitReservation, CancelReservation, completeReservation, CompletedBy

----------------------------------------------------------------------------
\* pendingStarts: taken by reserveGlobalStart, returned once by every path.
LEMMA GlobalStep ==
    ASSUME CountingLaws, TokenInv, [Next]_vars PROVE GlobalExact'
<1>0. TypeOK /\ GlobalExact /\ pendingStarts \in Nat /\ pc \in [Starter -> Steps]
  BY Zenon DEF TokenInv, TypeOK
<1>1. ASSUME NEW p \in Starter, NEW to, pc' = [pc EXCEPT ![p] = to]
      PROVE  /\ Cardinality(GlobalHolders) \in Nat /\ Cardinality(GlobalHolders') \in Nat
             /\ (pc[p] # "idle" <=> to # "idle") => Cardinality(GlobalHolders') = Cardinality(GlobalHolders)
             /\ pc[p] = "idle" /\ to # "idle" => Cardinality(GlobalHolders') = Cardinality(GlobalHolders) + 1
             /\ pc[p] # "idle" /\ to = "idle" => Cardinality(GlobalHolders) = Cardinality(GlobalHolders') + 1
  <2>1. /\ GlobalHolders \in SUBSET Starter /\ GlobalHolders' \in SUBSET Starter
        /\ \A q \in Starter \ {p} : q \in GlobalHolders <=> q \in GlobalHolders'
        /\ p \in GlobalHolders <=> pc[p] # "idle"
        /\ p \in GlobalHolders' <=> to # "idle"
    BY <1>0, <1>1, Zenon DEF GlobalHolders
  <2> DEFINE A == GlobalHolders
             B == GlobalHolders'
  <2> HIDE DEF A, B
  <2>2. /\ A \in SUBSET Starter /\ B \in SUBSET Starter
        /\ \A q \in Starter \ {p} : q \in A <=> q \in B
        /\ p \in A <=> pc[p] # "idle"
        /\ p \in B <=> to # "idle"
    BY <2>1, Zenon DEF A, B
  <2>3. /\ Cardinality(A) \in Nat /\ Cardinality(B) \in Nat
        /\ (p \in A <=> p \in B) => Cardinality(B) = Cardinality(A)
        /\ p \notin A /\ p \in B => Cardinality(B) = Cardinality(A) + 1
        /\ p \in A /\ p \notin B => Cardinality(A) = Cardinality(B) + 1
    BY <2>2, CountOne, Zenon
  <2> QED
    BY <2>2, <2>3, Zenon DEF A, B
<1>2. ASSUME NEW p \in Starter, NEW to, pc[p] # "idle", to # "idle", pc' = [pc EXCEPT ![p] = to],
             pendingStarts' = pendingStarts
      PROVE  GlobalExact'
  BY <1>0, <1>1, <1>2, Zenon DEF GlobalExact
<1>3. ASSUME NEW p \in Starter, ReserveGlobalStart(p) PROVE GlobalExact'
  <2>1. pc[p] = "idle" /\ pc' = [pc EXCEPT ![p] = "pick"] /\ pendingStarts' = pendingStarts + 1
    BY <1>3, Zenon DEF ReserveGlobalStart, Goto
  <2>2. "pick" # "idle"
    BY Zenon
  <2>3. Cardinality(GlobalHolders') = Cardinality(GlobalHolders) + 1
    BY <1>1, <2>1, <2>2, Zenon
  <2> QED
    BY <1>0, <2>1, <2>3, Zenon DEF GlobalExact
<1>4. ASSUME NEW p \in Starter, releaseGlobalStart(p) PROVE GlobalExact'
  <2>1. pc[p] = "release" /\ pc' = [pc EXCEPT ![p] = "idle"]
        /\ pendingStarts' = Decremented(pendingStarts)
    BY <1>4, Zenon DEF releaseGlobalStart, Goto
  <2>2. Cardinality(GlobalHolders) = Cardinality(GlobalHolders') + 1 /\ Cardinality(GlobalHolders') \in Nat
    BY <1>1, <2>1, Zenon
  <2> QED
    BY <1>0, <2>1, <2>2 DEF GlobalExact, Decremented
<1>5. ASSUME NEW p \in Starter, \/ NoWorker(p) \/ ReserveSwap(p) \/ ClaimFails(p) \/ Track(p)
                                \/ StartFails(p) \/ AddInstance(p)
                                \/ \E w \in Worker : TryWorker(p, w)
                                \/ \E s \in Slot : ClaimSlot(p, s)
      PROVE  GlobalExact'
  BY <1>2, <1>5, ZenonT(60)
     DEF NoWorker, ReserveSwap, ClaimFails, Track, StartFails, AddInstance, TryWorker, ClaimSlot, Goto,
         counters
<1>6. ASSUME NEW p \in Starter, ReserveLoad(p) \/ ReserveCheck(p) \/ ReserveRecheck(p) PROVE GlobalExact'
  BY <1>2, <1>6, Zenon DEF ReserveLoad, ReserveCheck, ReserveRecheck, Refused, counters
<1>7. ASSUME NEW p \in Starter, CommitReservation(p) \/ CancelReservation(p) PROVE GlobalExact'
  BY <1>2, <1>7, CompletionSucceeds, Zenon DEF CompletedBy
<1>8. ASSUME NEW p \in Starter, ReleaseWorker(p) PROVE GlobalExact'
  BY <1>2, <1>8, ZenonT(60) DEF ReleaseWorker
<1>9. CASE pc' = pc /\ pendingStarts' = pendingStarts
  BY <1>0, <1>9, Zenon DEF GlobalExact, GlobalHolders
<1>10. ASSUME NEW p \in Starter, RepeatCancel(p) PROVE GlobalExact'
  BY <1>9, <1>10, CompletionExact, Zenon DEF vars, counters, locals
<1>11. CASE \/ \E w \in Worker : Drop(w) \/ RecordStop(w)
            \/ \E w \in Worker, eligible \in BOOLEAN : UpdateWorker(w, eligible)
            \/ UNCHANGED vars
  BY <1>9, <1>11, Zenon DEF Drop, RecordStop, UpdateWorker, vars, counters, locals
<1> QED
  BY <1>3, <1>4, <1>5, <1>6, <1>7, <1>8, <1>10, <1>11, Zenon DEF Next, Schedule, Run

Reserving == {"recheck", "claim", "start", "commit", "cancel", "commitPending", "cancelPending"}
Committed == {"commit", "commitPending", "commitInstance"}

\* WorkerHolders and Committing as functions of pc and at.
HoldersAt(pcs, ats, w) == {q \in Starter : ats[q] = w /\ pcs[q] \in Reserving}
CommittingAt(pcs, ats, w) == {q \in Starter : ats[q] = w /\ pcs[q] \in Committed}

\* Starter p goes to another step and to worker v.
Moves(p, to, v) == pc' = [pc EXCEPT ![p] = to] /\ at' = [at EXCEPT ![p] = v]

\* One starter moves to another step and, if it holds nothing yet, maybe to
\* another worker: what this does to the number that hold a worker's tokens.
LEMMA HoldersMove ==
    ASSUME CountingLaws, TypeOK, NEW p \in Starter, NEW to \in Steps, NEW v \in Worker, Moves(p, to, v),
           NEW w \in Worker
    PROVE  /\ Cardinality(HoldersAt(pc, at, w)) \in Nat /\ Cardinality(HoldersAt(pc', at', w)) \in Nat
           /\ (at[p] = w /\ pc[p] \in Reserving <=> v = w /\ to \in Reserving)
                => Cardinality(HoldersAt(pc', at', w)) = Cardinality(HoldersAt(pc, at, w))
           /\ ~(at[p] = w /\ pc[p] \in Reserving) /\ (v = w /\ to \in Reserving)
                => Cardinality(HoldersAt(pc', at', w)) = Cardinality(HoldersAt(pc, at, w)) + 1
           /\ (at[p] = w /\ pc[p] \in Reserving) /\ ~(v = w /\ to \in Reserving)
                => Cardinality(HoldersAt(pc, at, w)) = Cardinality(HoldersAt(pc', at', w)) + 1
<1> DEFINE A == HoldersAt(pc, at, w)
           B == HoldersAt(pc', at', w)
<1>1. /\ A \in SUBSET Starter /\ B \in SUBSET Starter
      /\ \A q \in Starter \ {p} : q \in A <=> q \in B
      /\ p \in A <=> at[p] = w /\ pc[p] \in Reserving
      /\ p \in B <=> v = w /\ to \in Reserving
  BY Zenon DEF Moves, TypeOK, HoldersAt
<1> HIDE DEF A, B
<1>2. /\ Cardinality(A) \in Nat /\ Cardinality(B) \in Nat
      /\ (p \in A <=> p \in B) => Cardinality(B) = Cardinality(A)
      /\ p \notin A /\ p \in B => Cardinality(B) = Cardinality(A) + 1
      /\ p \in A /\ p \notin B => Cardinality(A) = Cardinality(B) + 1
  BY <1>1, CountOne, Zenon
<1> QED
  BY <1>1, <1>2, Zenon DEF A, B

\* The same for the number whose instance has yet to be added.
LEMMA CommittingMove ==
    ASSUME CountingLaws, TypeOK, NEW p \in Starter, NEW to \in Steps, NEW v \in Worker, Moves(p, to, v),
           NEW w \in Worker
    PROVE  /\ Cardinality(CommittingAt(pc, at, w)) \in Nat /\ Cardinality(CommittingAt(pc', at', w)) \in Nat
           /\ (at[p] = w /\ pc[p] \in Committed <=> v = w /\ to \in Committed)
                => Cardinality(CommittingAt(pc', at', w)) = Cardinality(CommittingAt(pc, at, w))
           /\ ~(at[p] = w /\ pc[p] \in Committed) /\ (v = w /\ to \in Committed)
                => Cardinality(CommittingAt(pc', at', w)) = Cardinality(CommittingAt(pc, at, w)) + 1
           /\ (at[p] = w /\ pc[p] \in Committed) /\ ~(v = w /\ to \in Committed)
                => Cardinality(CommittingAt(pc, at, w)) = Cardinality(CommittingAt(pc', at', w)) + 1
<1> DEFINE A == CommittingAt(pc, at, w)
           B == CommittingAt(pc', at', w)
<1>1. /\ A \in SUBSET Starter /\ B \in SUBSET Starter
      /\ \A q \in Starter \ {p} : q \in A <=> q \in B
      /\ p \in A <=> at[p] = w /\ pc[p] \in Committed
      /\ p \in B <=> v = w /\ to \in Committed
  BY Zenon DEF Moves, TypeOK, CommittingAt
<1> HIDE DEF A, B
<1>2. /\ Cardinality(A) \in Nat /\ Cardinality(B) \in Nat
      /\ (p \in A <=> p \in B) => Cardinality(B) = Cardinality(A)
      /\ p \notin A /\ p \in B => Cardinality(B) = Cardinality(A) + 1
      /\ p \in A /\ p \notin B => Cardinality(A) = Cardinality(B) + 1
  BY <1>1, CountOne, Zenon
<1> QED
  BY <1>1, <1>2, Zenon DEF A, B

\* workerPending: taken by the compare-and-swap of reserveWorker, returned by
\* its second look, by a failed claim, or when the reservation is completed.
LEMMA WorkerStep ==
    ASSUME CountingLaws, TokenInv, [Next]_vars PROVE WorkerExact'
<1>0. /\ TypeOK /\ WorkerExact /\ workerPending \in [Worker -> Nat]
      /\ pc \in [Starter -> Steps] /\ at \in [Starter -> Worker]
  BY Zenon DEF TokenInv, TypeOK
<1>b. \A w \in Worker : workerPending[w] = Cardinality(HoldersAt(pc, at, w))
  BY <1>0, Zenon DEF WorkerExact, WorkerHolders, HoldersAt, Reserving
<1>c. ASSUME \A w \in Worker : workerPending'[w] = Cardinality(HoldersAt(pc', at', w))
      PROVE  WorkerExact'
  BY <1>c, Zenon DEF WorkerExact, WorkerHolders, HoldersAt, Reserving
<1>1. ASSUME NEW p \in Starter, NEW to \in Steps, NEW v \in Worker, Moves(p, to, v),
             workerPending' = workerPending,
             pc[p] \in Reserving <=> to \in Reserving, pc[p] \in Reserving => v = at[p]
      PROVE  WorkerExact'
  <2>1. \A w \in Worker : Cardinality(HoldersAt(pc', at', w)) = Cardinality(HoldersAt(pc, at, w))
    BY <1>0, <1>1, HoldersMove
  <2> QED
    BY <1>0, <1>1, <1>b, <1>c, <2>1, Zenon
<1>2. ASSUME NEW p \in Starter, NEW to \in Steps, pc' = [pc EXCEPT ![p] = to], at' = at,
             pc[p] \notin Reserving, to \in Reserving,
             workerPending' = [workerPending EXCEPT ![at[p]] = @ + 1]
      PROVE  WorkerExact'
  <2>1. Moves(p, to, at[p]) /\ at[p] \in Worker
    BY <1>0, <1>2, Zenon DEF Moves
  <2>2. \A w \in Worker : Cardinality(HoldersAt(pc', at', w))
                            = Cardinality(HoldersAt(pc, at, w)) + (IF w = at[p] THEN 1 ELSE 0)
    <3> TAKE w \in Worker
    <3>0. Cardinality(HoldersAt(pc', at', w)) \in Nat /\ Cardinality(HoldersAt(pc, at, w)) \in Nat
      BY <1>0, <2>1, HoldersMove, Zenon
    <3>1. CASE w = at[p]
      BY <1>0, <1>2, <2>1, <3>1, HoldersMove, ZenonT(60)
    <3>2. CASE w # at[p]
      <4>1. Cardinality(HoldersAt(pc', at', w)) = Cardinality(HoldersAt(pc, at, w))
        BY <1>0, <2>1, <3>2, HoldersMove
      <4> QED
        BY <3>0, <3>2, <4>1
    <3> QED
      BY <3>1, <3>2, Zenon
  <2>3. \A w \in Worker : workerPending'[w] = workerPending[w] + (IF w = at[p] THEN 1 ELSE 0)
    BY <1>0, <1>2, <2>1
  <2> QED
    BY <1>0, <1>b, <1>c, <2>2, <2>3
<1>3. ASSUME NEW p \in Starter, NEW to \in Steps, pc' = [pc EXCEPT ![p] = to], at' = at,
             pc[p] \in Reserving, to \notin Reserving,
             workerPending' = [workerPending EXCEPT ![at[p]] = Decremented(@)]
      PROVE  WorkerExact'
  <2>1. Moves(p, to, at[p]) /\ at[p] \in Worker
    BY <1>0, <1>3, Zenon DEF Moves
  <2>2. \A w \in Worker : /\ Cardinality(HoldersAt(pc', at', w)) \in Nat
                          /\ Cardinality(HoldersAt(pc, at, w))
                               = Cardinality(HoldersAt(pc', at', w)) + (IF w = at[p] THEN 1 ELSE 0)
    <3> TAKE w \in Worker
    <3>0. Cardinality(HoldersAt(pc', at', w)) \in Nat /\ Cardinality(HoldersAt(pc, at, w)) \in Nat
      BY <1>0, <2>1, HoldersMove, Zenon
    <3>1. CASE w = at[p]
      BY <1>0, <1>3, <2>1, <3>0, <3>1, HoldersMove, ZenonT(60)
    <3>2. CASE w # at[p]
      <4>1. Cardinality(HoldersAt(pc', at', w)) = Cardinality(HoldersAt(pc, at, w))
        BY <1>0, <2>1, <3>2, HoldersMove, SMTT(60)
      <4> QED
        BY <3>0, <3>2, <4>1
    <3> QED
      BY <3>0, <3>1, <3>2, Zenon
  <2>3. \A w \in Worker : workerPending'[w] = IF w = at[p] THEN Decremented(workerPending[w])
                                              ELSE workerPending[w]
    BY <1>0, <1>3, <2>1, Zenon
  <2> QED
    BY <1>0, <1>b, <1>c, <2>2, <2>3 DEF Decremented
<1>a. \A p \in Starter : at[p] \in Worker /\ at = [at EXCEPT ![p] = at[p]]
  BY <1>0, Zenon
<1>s. ASSUME NEW p \in Starter, NEW from \in Steps, NEW to \in Steps, Goto(p, from, to), at' = at,
             workerPending' = workerPending, from \in Reserving <=> to \in Reserving
      PROVE  WorkerExact'
  <2>1. Moves(p, to, at[p]) /\ at[p] \in Worker /\ pc[p] = from
    BY <1>a, <1>s, Zenon DEF Moves, Goto
  <2> QED
    BY <1>1, <1>s, <2>1, Zenon
<1>4. ASSUME NEW p \in Starter, \/ ReserveGlobalStart(p) \/ NoWorker(p) \/ releaseGlobalStart(p)
                                \/ Track(p) \/ StartFails(p) \/ AddInstance(p)
                                \/ \E s \in Slot : ClaimSlot(p, s)
      PROVE  WorkerExact'
  <2>1. CASE ReserveGlobalStart(p)
    BY <1>s, <2>1, Zenon DEF ReserveGlobalStart, counters, Steps, Reserving
  <2>2. CASE NoWorker(p)
    BY <1>s, <2>2, Zenon DEF NoWorker, counters, Steps, Reserving
  <2>3. CASE releaseGlobalStart(p)
    BY <1>s, <2>3, Zenon DEF releaseGlobalStart, counters, Steps, Reserving
  <2>4. CASE Track(p)
    BY <1>s, <2>4, Zenon DEF Track, counters, Steps, Reserving
  <2>5. CASE StartFails(p)
    BY <1>s, <2>5, Zenon DEF StartFails, counters, Steps, Reserving
  <2>6. CASE AddInstance(p)
    BY <1>s, <2>6, Zenon DEF AddInstance, counters, Steps, Reserving
  <2>7. CASE \E s \in Slot : ClaimSlot(p, s)
    BY <1>s, <2>7, Zenon DEF ClaimSlot, counters, Steps, Reserving
  <2> QED
    BY <1>4, <2>1, <2>2, <2>3, <2>4, <2>5, <2>6, <2>7, Zenon
<1>5. ASSUME NEW p \in Starter, NEW w \in Worker, TryWorker(p, w) PROVE WorkerExact'
  BY <1>1, <1>5, Zenon DEF Moves, TryWorker, Goto, counters, Steps, Reserving
<1>6. ASSUME NEW p \in Starter, ReserveLoad(p) \/ ReserveCheck(p) PROVE WorkerExact'
  BY <1>1, <1>6, <1>a, ZenonT(60) DEF Moves, ReserveLoad, ReserveCheck, Refused, counters, Steps, Reserving
<1>7. ASSUME NEW p \in Starter, ReserveSwap(p) PROVE WorkerExact'
  <2>1. CASE workerPending[at[p]] = seen[p]
    BY <1>2, <1>7, <2>1, ZenonT(60) DEF ReserveSwap, Goto, Steps, Reserving
  <2>2. CASE workerPending[at[p]] # seen[p]
    BY <1>1, <1>7, <1>a, <2>2, ZenonT(60) DEF Moves, ReserveSwap, Goto, Steps, Reserving
  <2> QED
    BY <2>1, <2>2, Zenon
<1>8. ASSUME NEW p \in Starter, ReserveRecheck(p) PROVE WorkerExact'
  <2>1. CASE Refused(p) /\ workerPending' = [workerPending EXCEPT ![at[p]] = Decremented(@)]
    BY <1>3, <1>8, <2>1, ZenonT(60) DEF ReserveRecheck, Refused, Steps, Reserving
  <2>2. CASE pc' = [pc EXCEPT ![p] = "claim"] /\ workerPending' = workerPending
    BY <1>1, <1>8, <1>a, <2>2, ZenonT(60) DEF Moves, ReserveRecheck, Steps, Reserving
  <2> QED
    BY <1>8, <2>1, <2>2, Zenon DEF ReserveRecheck
<1>9. ASSUME NEW p \in Starter, ClaimFails(p) PROVE WorkerExact'
  BY <1>3, <1>9, ZenonT(60) DEF ClaimFails, Goto, Steps, Reserving
<1>10. ASSUME NEW p \in Starter, ReleaseWorker(p) PROVE WorkerExact'
  BY <1>3, <1>10, ZenonT(60) DEF ReleaseWorker, Steps, Reserving
<1>11. ASSUME NEW p \in Starter, CommitReservation(p) \/ CancelReservation(p) PROVE WorkerExact'
  BY <1>1, <1>11, <1>a, CompletionSucceeds, SMTT(60) DEF Moves, CompletedBy, Steps, Reserving
<1>12. CASE pc' = pc /\ at' = at /\ workerPending' = workerPending
  BY <1>b, <1>c, <1>12, Zenon
<1>13. ASSUME NEW p \in Starter, RepeatCancel(p) PROVE WorkerExact'
  BY <1>12, <1>13, CompletionExact, Zenon DEF vars, counters, locals
<1>14. CASE \/ \E w \in Worker : Drop(w) \/ RecordStop(w)
            \/ \E w \in Worker, eligible \in BOOLEAN : UpdateWorker(w, eligible)
            \/ UNCHANGED vars
  BY <1>12, <1>14, ZenonT(60) DEF Drop, RecordStop, UpdateWorker, vars, counters, locals
<1> QED
  BY <1>4, <1>5, <1>6, <1>7, <1>8, <1>9, <1>10, <1>11, <1>13, <1>14, ZenonT(60) DEF Next, Schedule, Run

\* instances: added by a commit after the sandbox is tracked, taken away when
\* its stop is recorded.
LEMMA StopsStep ==
    ASSUME CountingLaws, TokenInv, [Next]_vars PROVE StopsCovered'
<1>0. /\ TypeOK /\ pc \in [Starter -> Steps] /\ at \in [Starter -> Worker]
      /\ instances \in [Worker -> Nat] /\ tracked \in [Worker -> Nat] /\ unrecorded \in [Worker -> Nat]
  BY Zenon DEF TokenInv, TypeOK
<1>a. \A p \in Starter : at[p] \in Worker /\ at = [at EXCEPT ![p] = at[p]]
  BY <1>0, Zenon
<1>b. \A w \in Worker : tracked[w] + unrecorded[w] <= instances[w] + Cardinality(CommittingAt(pc, at, w))
  BY Zenon DEF TokenInv, StopsCovered, Committing, CommittingAt, Committed
<1>c. ASSUME \A w \in Worker :
                tracked'[w] + unrecorded'[w] <= instances'[w] + Cardinality(CommittingAt(pc', at', w))
      PROVE  StopsCovered'
  BY <1>c, Zenon DEF StopsCovered, Committing, CommittingAt, Committed
<1>1. ASSUME NEW p \in Starter, NEW to \in Steps, NEW v \in Worker, Moves(p, to, v),
             pc[p] \in Committed <=> to \in Committed, pc[p] \in Committed => v = at[p],
             instances' = instances, tracked' = tracked, unrecorded' = unrecorded
      PROVE  StopsCovered'
  <2>1. \A w \in Worker : Cardinality(CommittingAt(pc', at', w)) = Cardinality(CommittingAt(pc, at, w))
    BY <1>0, <1>1, CommittingMove, SMTT(60)
  <2> QED
    BY <1>1, <1>b, <1>c, <2>1, ZenonT(60)
<1>2. ASSUME NEW p \in Starter, Track(p) PROVE StopsCovered'
  <2>1. /\ Moves(p, "commit", at[p]) /\ at[p] \in Worker /\ "commit" \in Steps
        /\ pc[p] \notin Committed /\ "commit" \in Committed
    BY <1>2, <1>a, Zenon DEF Track, Goto, Moves, Steps, Committed
  <2>2. /\ tracked' = [tracked EXCEPT ![at[p]] = @ + 1]
        /\ instances' = instances /\ unrecorded' = unrecorded
    BY <1>2, Zenon DEF Track, counters
  <2>3. ASSUME NEW w \in Worker
        PROVE  tracked'[w] + unrecorded'[w] <= instances'[w] + Cardinality(CommittingAt(pc', at', w))
    <3>0. Cardinality(CommittingAt(pc', at', w)) \in Nat /\ Cardinality(CommittingAt(pc, at, w)) \in Nat
      BY <1>0, <2>1, CommittingMove, Zenon
    <3>1. CASE w = at[p]
      <4>1. Cardinality(CommittingAt(pc', at', w)) = Cardinality(CommittingAt(pc, at, w)) + 1
        BY <1>0, <2>1, <3>1, CommittingMove, SMTT(60)
      <4> QED
        BY <1>0, <1>b, <2>2, <3>0, <3>1, <4>1, SMTT(60)
    <3>2. CASE w # at[p]
      <4>1. Cardinality(CommittingAt(pc', at', w)) = Cardinality(CommittingAt(pc, at, w))
        BY <1>0, <2>1, <3>2, CommittingMove, SMTT(60)
      <4> QED
        BY <1>0, <1>b, <2>2, <3>0, <3>2, <4>1, ZenonT(60)
    <3> QED
      BY <3>1, <3>2, Zenon
  <2> QED
    BY <1>c, <2>3, ZenonT(60)
<1>3. ASSUME NEW p \in Starter, AddInstance(p) PROVE StopsCovered'
  <2>1. /\ Moves(p, "release", at[p]) /\ at[p] \in Worker /\ "release" \in Steps
        /\ pc[p] \in Committed /\ "release" \notin Committed
    BY <1>3, <1>a, Zenon DEF AddInstance, Goto, Moves, Steps, Committed
  <2>2. /\ instances' = [instances EXCEPT ![at[p]] = @ + 1]
        /\ tracked' = tracked /\ unrecorded' = unrecorded
    BY <1>3, Zenon DEF AddInstance, actuator
  <2>3. ASSUME NEW w \in Worker
        PROVE  tracked'[w] + unrecorded'[w] <= instances'[w] + Cardinality(CommittingAt(pc', at', w))
    <3>0. Cardinality(CommittingAt(pc', at', w)) \in Nat /\ Cardinality(CommittingAt(pc, at, w)) \in Nat
      BY <1>0, <2>1, CommittingMove, Zenon
    <3>1. CASE w = at[p]
      <4>1. Cardinality(CommittingAt(pc, at, w)) = Cardinality(CommittingAt(pc', at', w)) + 1
        BY <1>0, <2>1, <3>1, CommittingMove, Zenon
      <4> QED
        BY <1>0, <1>b, <2>2, <3>0, <3>1, <4>1, SMTT(60)
    <3>2. CASE w # at[p]
      <4>1. Cardinality(CommittingAt(pc', at', w)) = Cardinality(CommittingAt(pc, at, w))
        BY <1>0, <2>1, <3>2, CommittingMove, ZenonT(60)
      <4> QED
        BY <1>0, <1>b, <2>2, <3>0, <3>2, <4>1, Zenon
    <3> QED
      BY <3>1, <3>2, Zenon
  <2> QED
    BY <1>c, <2>3, Zenon
<1>s. ASSUME NEW p \in Starter, NEW from \in Steps, NEW to \in Steps, Goto(p, from, to), at' = at,
             instances' = instances, tracked' = tracked, unrecorded' = unrecorded,
             from \in Committed <=> to \in Committed
      PROVE  StopsCovered'
  <2>1. Moves(p, to, at[p]) /\ at[p] \in Worker /\ pc[p] = from
    BY <1>a, <1>s, Zenon DEF Moves, Goto
  <2> QED
    BY <1>1, <1>s, <2>1, Zenon
<1>4. ASSUME NEW p \in Starter, \/ ReserveGlobalStart(p) \/ NoWorker(p) \/ ReserveSwap(p) \/ ClaimFails(p)
                                \/ releaseGlobalStart(p) \/ StartFails(p)
                                \/ \E s \in Slot : ClaimSlot(p, s)
      PROVE  StopsCovered'
  <2>1. CASE ReserveGlobalStart(p)
    BY <1>s, <2>1, Zenon DEF ReserveGlobalStart, counters, actuator, Steps, Committed
  <2>2. CASE NoWorker(p)
    BY <1>s, <2>2, Zenon DEF NoWorker, counters, actuator, Steps, Committed
  <2>3. CASE ClaimFails(p)
    BY <1>s, <2>3, Zenon DEF ClaimFails, counters, actuator, Steps, Committed
  <2>4. CASE releaseGlobalStart(p)
    BY <1>s, <2>4, Zenon DEF releaseGlobalStart, counters, actuator, Steps, Committed
  <2>5. CASE StartFails(p)
    BY <1>s, <2>5, Zenon DEF StartFails, counters, actuator, Steps, Committed
  <2>6. CASE \E s \in Slot : ClaimSlot(p, s)
    BY <1>s, <2>6, Zenon DEF ClaimSlot, counters, actuator, Steps, Committed
  <2>7. CASE ReserveSwap(p)
    <3>1. CASE workerPending[at[p]] = seen[p]
      BY <1>s, <2>7, <3>1, ZenonT(60) DEF ReserveSwap, actuator, Steps, Committed
    <3>2. CASE workerPending[at[p]] # seen[p]
      BY <1>s, <2>7, <3>2, ZenonT(60) DEF ReserveSwap, actuator, Steps, Committed
    <3> QED
      BY <3>1, <3>2, Zenon
  <2> QED
    BY <1>4, <2>1, <2>2, <2>3, <2>4, <2>5, <2>6, <2>7, Zenon
<1>5. ASSUME NEW p \in Starter, NEW w \in Worker, TryWorker(p, w) PROVE StopsCovered'
  BY <1>1, <1>5, ZenonT(60) DEF TryWorker, Goto, Moves, counters, actuator, Steps, Committed
<1>6. ASSUME NEW p \in Starter, ReserveLoad(p) \/ ReserveCheck(p) \/ ReserveRecheck(p) PROVE StopsCovered'
  <2>1. /\ \E to \in {"check", "pick", "cas", "claim"} : Goto(p, pc[p], to)
        /\ pc[p] \in {"load", "check", "recheck"}
        /\ at' = at /\ instances' = instances /\ tracked' = tracked /\ unrecorded' = unrecorded
    BY <1>6, Zenon DEF ReserveLoad, ReserveCheck, ReserveRecheck, Refused, Goto, counters, actuator
  <2>2. {"check", "pick", "cas", "claim"} \cap Committed = {} /\ {"check", "pick", "cas", "claim"} \subseteq Steps
    BY Zenon DEF Committed, Steps
  <2>3. {"load", "check", "recheck"} \cap Committed = {} /\ {"load", "check", "recheck"} \subseteq Steps
    BY Zenon DEF Committed, Steps
  <2> QED
    BY <1>s, <2>1, <2>2, <2>3, Zenon
<1>7. ASSUME NEW p \in Starter, CommitReservation(p) \/ CancelReservation(p) PROVE StopsCovered'
  BY <1>1, <1>7, <1>a, CompletionSucceeds, SMTT(60) DEF CompletedBy, Moves, actuator, Steps, Committed
<1>8. ASSUME NEW p \in Starter, ReleaseWorker(p) PROVE StopsCovered'
  BY <1>1, <1>8, <1>a, ZenonT(60) DEF ReleaseWorker, Moves, actuator, Steps, Committed
<1>9. CASE UNCHANGED <<pc, at, instances, tracked, unrecorded>>
  BY <1>9, <1>b, <1>c, ZenonT(60)
<1>10. ASSUME NEW p \in Starter, RepeatCancel(p) PROVE StopsCovered'
  BY <1>9, <1>10, CompletionExact, Zenon DEF vars, counters, locals, actuator
<1>11. CASE (\E w \in Worker, eligible \in BOOLEAN : UpdateWorker(w, eligible)) \/ UNCHANGED vars
  BY <1>9, <1>11, ZenonT(60) DEF UpdateWorker, vars, counters, locals, actuator
<1>12. ASSUME NEW x \in Worker, Drop(x) \/ RecordStop(x) PROVE StopsCovered'
  <2>1. pc' = pc /\ at' = at
    BY <1>12, Zenon DEF Drop, RecordStop, locals
  <2>2. ASSUME NEW w \in Worker
        PROVE  tracked'[w] + unrecorded'[w] <= instances'[w] + Cardinality(CommittingAt(pc', at', w))
    <3>1. Cardinality(CommittingAt(pc, at, w)) \in Nat
      <4>1. CommittingAt(pc, at, w) \in SUBSET Starter
        BY Zenon DEF CommittingAt
      <4> QED
        BY <4>1, PlacementAssumption, Zenon DEF CountingLaws
    <3> QED
      BY <1>0, <1>12, <1>b, <2>1, <3>1, SMTT(60) DEF Drop, RecordStop, Decremented, counters
  <2> QED
    BY <1>c, <2>2, Zenon
<1> QED
  BY <1>2, <1>3, <1>4, <1>5, <1>6, <1>7, <1>8, <1>10, <1>11, <1>12, ZenonT(60) DEF Next, Schedule, Run

\* SlotHolders as a function of pc and token.
SlotHoldersAt(pcs, tokens, s) == {q \in Starter : tokens[q].slot = s /\ pcs[q] \in Holding}

SlotInv == SlotOwn /\ SlotDistinct /\ SlotExact

\* claimReservationSlot: a free slot becomes odd and belongs to its claimant.
LEMMA ClaimStep ==
    ASSUME CountingLaws, TokenInv, NEW p \in Starter, NEW s \in Slot, ClaimSlot(p, s) PROVE SlotInv'
<1>0. /\ pc \in [Starter -> Steps] /\ slots \in [Slot -> Nat]
      /\ token \in [Starter -> [slot : Slot, generation : Nat]]
      /\ SlotOwn /\ SlotDistinct /\ SlotExact
  BY Zenon DEF TokenInv, TypeOK
<1>1. /\ pc[p] = "claim" /\ pc' = [pc EXCEPT ![p] = "start"] /\ slots[s] % 2 = 0
      /\ slots' = [slots EXCEPT ![s] = slots[s] + 1]
      /\ token' = [token EXCEPT ![p] = [slot |-> s, generation |-> slots[s] + 1]]
  BY Zenon DEF ClaimSlot, Goto
<1>2. /\ pc'[p] \in Holding /\ pc[p] \notin Holding
      /\ token'[p].slot = s /\ token'[p].generation = slots[s] + 1
      /\ slots'[s] = slots[s] + 1 /\ (slots[s] + 1) % 2 = 1
  <2>1. pc'[p] \in Holding /\ pc[p] \notin Holding
    BY <1>0, <1>1, Zenon DEF Holding
  <2>2. token'[p].slot = s /\ token'[p].generation = slots[s] + 1 /\ slots'[s] = slots[s] + 1
    BY <1>0, <1>1, Zenon
  <2>3. ASSUME NEW n \in Nat, n % 2 = 0 PROVE (n + 1) % 2 = 1
    BY <2>3, SMTT(60)
  <2> QED
    BY <1>0, <1>1, <2>1, <2>2, <2>3, ZenonT(60)
<1>3. ASSUME NEW q \in Starter, q # p
      PROVE  /\ pc'[q] = pc[q] /\ token'[q] = token[q]
             /\ token[q].generation \in Nat /\ token[q].slot \in Slot
             /\ pc[q] \in Holding => token[q].slot # s /\ slots'[token[q].slot] = slots[token[q].slot]
             /\ slots[token[q].slot] \in Nat /\ slots'[token[q].slot] \in Nat
             /\ slots'[token[q].slot] >= slots[token[q].slot]
  <2>1. pc'[q] = pc[q] /\ token'[q] = token[q] /\ token[q].generation \in Nat /\ token[q].slot \in Slot
    BY <1>0, <1>1, <1>3, Zenon
  <2>2. pc[q] \in Holding => token[q].slot # s
    BY <1>0, <1>1, SMTT(60) DEF SlotOwn
  <2> QED
    BY <1>0, <1>1, <2>1, <2>2, SMTT(60)
<1>4. SlotOwn'
  <2> SUFFICES ASSUME NEW q \in Starter
               PROVE  IF pc'[q] \in Holding
                      THEN slots'[token'[q].slot] = token'[q].generation /\ token'[q].generation % 2 = 1
                      ELSE token'[q].generation > 0 => token'[q].generation < slots'[token'[q].slot]
    BY ZenonT(60) DEF SlotOwn
  <2>1. CASE q = p
    BY <1>2, <2>1, Zenon
  <2>2. CASE q # p
    BY <1>0, <1>3, <2>2, SMTT(60) DEF SlotOwn
  <2> QED
    BY <2>1, <2>2, ZenonT(60)
<1>5. SlotDistinct'
  <2> SUFFICES ASSUME NEW q \in Starter, NEW r \in Starter, pc'[q] \in Holding, pc'[r] \in Holding,
                      token'[q].slot = token'[r].slot
               PROVE  q = r
    BY Zenon DEF SlotDistinct
  <2>1. CASE q # p /\ r # p
    BY <1>0, <1>3, <2>1, Zenon DEF SlotDistinct
  <2>2. CASE q = p \/ r = p
    BY <1>2, <1>3, <2>2, Zenon
  <2> QED
    BY <2>1, <2>2, Zenon
<1>6. ASSUME NEW t \in Slot
      PROVE  slots'[t] % 2 = Cardinality(SlotHoldersAt(pc', token', t))
  <2> DEFINE A == SlotHoldersAt(pc, token, t)
             B == SlotHoldersAt(pc', token', t)
  <2>1. /\ A \in SUBSET Starter /\ B \in SUBSET Starter
        /\ \A q \in Starter \ {p} : q \in A <=> q \in B
        /\ p \notin A
        /\ p \in B <=> t = s
    BY <1>2, <1>3, Zenon DEF SlotHoldersAt
  <2>2. slots[t] % 2 = Cardinality(A)
    BY <1>0, Zenon DEF SlotExact, SlotHolders, SlotHoldersAt, Holding
  <2> HIDE DEF A, B
  <2>3. /\ Cardinality(A) \in Nat /\ Cardinality(B) \in Nat
        /\ p \notin A /\ p \notin B => Cardinality(B) = Cardinality(A)
        /\ p \notin A /\ p \in B => Cardinality(B) = Cardinality(A) + 1
    BY <2>1, CountOne, Zenon
  <2>4. CASE t = s
    <3>1. Cardinality(B) = 1
      BY <1>1, <2>1, <2>2, <2>3, <2>4, SMTT(60)
    <3> QED
      BY <1>2, <2>4, <3>1, SMTT(60), ZenonT(60) DEF B
  <2>5. CASE t # s
    <3>1. Cardinality(B) = Cardinality(A) /\ slots'[t] = slots[t]
      BY <1>0, <1>1, <2>1, <2>3, <2>5, Zenon
    <3> QED
      BY <2>2, <3>1, ZenonT(60) DEF B
  <2> QED
    BY <2>4, <2>5, ZenonT(60)
<1>7. SlotExact'
  BY <1>6, Zenon DEF SlotExact, SlotHolders, SlotHoldersAt, Holding
<1> QED
  BY <1>4, <1>5, <1>7, Zenon DEF SlotInv

\* A completion frees the slot, and the token it was presented with is spent.
LEMMA CompleteStep ==
    ASSUME CountingLaws, TokenInv, NEW p \in Starter, NEW from \in {"commit", "cancel"},
           NEW to \in {"commitPending", "cancelPending"}, CompletedBy(p, from, to)
    PROVE  SlotInv'
<1> DEFINE s == token[p].slot
<1>0. /\ pc \in [Starter -> Steps] /\ slots \in [Slot -> Nat]
      /\ token \in [Starter -> [slot : Slot, generation : Nat]]
      /\ SlotOwn /\ SlotDistinct /\ SlotExact
  BY Zenon DEF TokenInv, TypeOK
<1>1. /\ pc[p] = from /\ pc' = [pc EXCEPT ![p] = to] /\ token' = token
      /\ slots' = [slots EXCEPT ![s] = @ + 1]
  BY Zenon DEF CompletedBy
<1>2. pc[p] \in Holding /\ pc'[p] \notin Holding
  BY <1>0, <1>1, Zenon DEF Holding
<1>a. s \in Slot /\ slots[s] \in Nat /\ token[p].generation \in Nat
  BY <1>0, Zenon
<1> HIDE DEF s
<1>b. /\ slots[s] = token[p].generation /\ slots[s] % 2 = 1 /\ slots'[s] = slots[s] + 1
      /\ token[p].generation < slots'[s]
  BY <1>0, <1>1, <1>2, <1>a, SMTT(60) DEF SlotOwn, s
<1>c. (slots[s] + 1) % 2 = 0
  <2>1. ASSUME NEW n \in Nat, n % 2 = 1 PROVE (n + 1) % 2 = 0
    BY <2>1, SMTT(60)
  <2> QED
    BY <1>a, <1>b, <2>1, Zenon
<1>3. ASSUME NEW q \in Starter, q # p
      PROVE  /\ pc'[q] = pc[q] /\ token[q].generation \in Nat /\ token[q].slot \in Slot
             /\ pc[q] \in Holding => token[q].slot # s /\ slots'[token[q].slot] = slots[token[q].slot]
             /\ slots[token[q].slot] \in Nat /\ slots'[token[q].slot] \in Nat
             /\ slots'[token[q].slot] >= slots[token[q].slot]
  <2>1. pc'[q] = pc[q] /\ token[q].generation \in Nat /\ token[q].slot \in Slot
    BY <1>0, <1>1, <1>3, Zenon
  <2>2. pc[q] \in Holding => token[q].slot # s
    BY <1>0, <1>2, <1>3, Zenon DEF SlotDistinct, s
  <2> QED
    BY <1>0, <1>1, <1>a, <2>1, <2>2, SMTT(60)
<1>4. SlotOwn'
  <2> SUFFICES ASSUME NEW q \in Starter
               PROVE  IF pc'[q] \in Holding
                      THEN slots'[token[q].slot] = token[q].generation /\ token[q].generation % 2 = 1
                      ELSE token[q].generation > 0 => token[q].generation < slots'[token[q].slot]
    BY <1>1, Zenon DEF SlotOwn
  <2>1. CASE q = p
    BY <1>2, <1>b, <2>1, ZenonT(60) DEF s
  <2>2. CASE q # p
    BY <1>0, <1>3, <2>2, SMTT(60) DEF SlotOwn
  <2> QED
    BY <2>1, <2>2, ZenonT(60)
<1>5. SlotDistinct'
  <2> SUFFICES ASSUME NEW q \in Starter, NEW r \in Starter, pc'[q] \in Holding, pc'[r] \in Holding,
                      token[q].slot = token[r].slot
               PROVE  q = r
    BY <1>1, Zenon DEF SlotDistinct
  <2>1. q # p /\ r # p
    BY <1>2, Zenon
  <2> QED
    BY <1>0, <1>3, <2>1, Zenon DEF SlotDistinct
<1>6. ASSUME NEW t \in Slot
      PROVE  slots'[t] % 2 = Cardinality(SlotHoldersAt(pc', token', t))
  <2> DEFINE A == SlotHoldersAt(pc, token, t)
             B == SlotHoldersAt(pc', token', t)
  <2>1. /\ A \in SUBSET Starter /\ B \in SUBSET Starter
        /\ \A q \in Starter \ {p} : q \in A <=> q \in B
        /\ p \notin B
        /\ p \in A <=> t = s
    BY <1>1, <1>2, <1>3, ZenonT(60) DEF SlotHoldersAt, s
  <2>2. slots[t] % 2 = Cardinality(A)
    BY <1>0, Zenon DEF SlotExact, SlotHolders, SlotHoldersAt, Holding
  <2> HIDE DEF A, B
  <2>3. /\ Cardinality(A) \in Nat /\ Cardinality(B) \in Nat
        /\ p \notin A /\ p \notin B => Cardinality(B) = Cardinality(A)
        /\ p \in A /\ p \notin B => Cardinality(A) = Cardinality(B) + 1
    BY <2>1, CountOne, Zenon
  <2>4. CASE t = s
    <3>1. Cardinality(B) = 0
      <4>1. Cardinality(A) = Cardinality(B) + 1
        BY <2>1, <2>3, <2>4, Zenon
      <4>2. slots[t] % 2 = 1
        BY <1>b, <2>4, Zenon
      <4> QED
        BY <2>2, <2>3, <4>1, <4>2
    <3> QED
      BY <1>b, <1>c, <2>4, <3>1, ZenonT(60) DEF B
  <2>5. CASE t # s
    <3>1. Cardinality(B) = Cardinality(A) /\ slots'[t] = slots[t]
      BY <1>0, <1>1, <2>1, <2>3, <2>5, Zenon
    <3> QED
      BY <2>2, <3>1, ZenonT(60) DEF B
  <2> QED
    BY <2>4, <2>5, Zenon
<1>7. SlotExact'
  BY <1>6, ZenonT(60) DEF SlotExact, SlotHolders, SlotHoldersAt, Holding
<1> QED
  BY <1>4, <1>5, <1>7, Zenon DEF SlotInv

\* Only a claim and a completion change a slot or who holds it.
LEMMA SlotStep ==
    ASSUME CountingLaws, TokenInv, [Next]_vars PROVE SlotInv'
<1>0. /\ pc \in [Starter -> Steps] /\ SlotOwn /\ SlotDistinct /\ SlotExact
  BY Zenon DEF TokenInv, TypeOK
<1>1. ASSUME NEW p \in Starter, NEW to, pc' = [pc EXCEPT ![p] = to], pc[p] \in Holding <=> to \in Holding,
             slots' = slots, token' = token
      PROVE  SlotInv'
  <2>1. \A q \in Starter : pc'[q] \in Holding <=> pc[q] \in Holding
    BY <1>0, <1>1, Zenon
  <2>2. SlotOwn'
    BY <1>0, <1>1, <2>1, Zenon DEF SlotOwn
  <2>3. SlotDistinct'
    BY <1>0, <1>1, <2>1, Zenon DEF SlotDistinct
  <2>4. \A t \in Slot : SlotHoldersAt(pc', token', t) = SlotHoldersAt(pc, token, t)
    BY <1>1, <2>1, Zenon DEF SlotHoldersAt
  <2>5. \A t \in Slot : slots[t] % 2 = Cardinality(SlotHoldersAt(pc, token, t))
    BY <1>0, Zenon DEF SlotExact, SlotHolders, SlotHoldersAt, Holding
  <2>6. \A t \in Slot : slots'[t] % 2 = Cardinality(SlotHoldersAt(pc', token', t))
    BY <1>1, <2>4, <2>5, ZenonT(60)
  <2>7. SlotExact'
    BY <2>6, Zenon DEF SlotExact, SlotHolders, SlotHoldersAt, Holding
  <2> QED
    BY <2>2, <2>3, <2>7, Zenon DEF SlotInv
<1>2. CASE pc' = pc /\ slots' = slots /\ token' = token
  BY <1>0, <1>2, Zenon DEF SlotInv, SlotOwn, SlotDistinct, SlotExact, SlotHolders
<1>3. ASSUME NEW p \in Starter, \/ ReserveGlobalStart(p) \/ NoWorker(p) \/ releaseGlobalStart(p)
                                \/ Track(p) \/ StartFails(p) \/ AddInstance(p) \/ ClaimFails(p)
                                \/ \E w \in Worker : TryWorker(p, w)
      PROVE  SlotInv'
  BY <1>1, <1>3, ZenonT(60)
     DEF ReserveGlobalStart, NoWorker, releaseGlobalStart, Track, StartFails, AddInstance, ClaimFails,
         TryWorker, Goto, counters, Holding
<1>4. ASSUME NEW p \in Starter, \/ ReserveLoad(p) \/ ReserveCheck(p) \/ ReserveSwap(p) \/ ReserveRecheck(p)
                                \/ ReleaseWorker(p)
      PROVE  SlotInv'
  BY <1>1, <1>4, ZenonT(60)
     DEF ReserveLoad, ReserveCheck, ReserveSwap, ReserveRecheck, ReleaseWorker, Refused, Goto, counters,
         Holding
<1>5. ASSUME NEW p \in Starter, NEW s \in Slot, ClaimSlot(p, s) PROVE SlotInv'
  BY <1>5, ClaimStep, Zenon
<1>6. ASSUME NEW p \in Starter, CommitReservation(p) \/ CancelReservation(p) PROVE SlotInv'
  BY <1>6, CompletionSucceeds, CompleteStep, Zenon
<1>7. ASSUME NEW p \in Starter, RepeatCancel(p) PROVE SlotInv'
  BY <1>2, <1>7, CompletionExact, Zenon DEF vars, counters, locals
<1>8. CASE \/ \E w \in Worker : Drop(w) \/ RecordStop(w)
           \/ \E w \in Worker, eligible \in BOOLEAN : UpdateWorker(w, eligible)
           \/ UNCHANGED vars
  BY <1>2, <1>8, Zenon DEF Drop, RecordStop, UpdateWorker, vars, counters, locals
<1> QED
  BY <1>3, <1>4, <1>5, <1>6, <1>7, <1>8, Zenon DEF Next, Schedule, Run

----------------------------------------------------------------------------
\* With no start under way every counter is zero.
LEMMA InitTokens ==
    ASSUME CountingLaws, Init
    PROVE  TokenInv
<1>1. TypeOK
  BY InitTypes, Zenon
<1>2. \A p \in Starter : pc[p] = "idle" /\ token[p].generation = 0
  BY Zenon DEF Init, NoToken
<1>3. SlotOwn /\ SlotDistinct
  <2>1. \A p \in Starter : pc[p] \notin Holding
    BY <1>2, ZenonT(60) DEF Holding
  <2>2. \A p \in Starter : ~(token[p].generation > 0)
    BY <1>2, SMTT(60)
  <2> QED
    BY <2>1, <2>2, Zenon DEF SlotOwn, SlotDistinct
<1>4. /\ GlobalHolders = {}
      /\ \A w \in Worker : WorkerHolders(w) = {} /\ Committing(w) = {}
      /\ \A s \in Slot : SlotHolders(s) = {}
  BY <1>2, Zenon DEF GlobalHolders, WorkerHolders, Committing, SlotHolders
<1>5. Cardinality({}) = 0
  BY Zenon DEF CountingLaws
<1>6. GlobalExact /\ WorkerExact /\ SlotExact /\ StopsCovered
  <2>1. GlobalExact /\ WorkerExact
    BY <1>4, <1>5, Zenon DEF Init, GlobalExact, WorkerExact
  <2>2. 0 % 2 = 0
    OBVIOUS
  <2>3. \A s \in Slot : slots[s] = 0
    BY Zenon DEF Init
  <2>4. SlotExact
    BY <1>4, <1>5, <2>2, <2>3, Zenon DEF SlotExact
  <2>5. \A w \in Worker : tracked[w] = 0 /\ unrecorded[w] = 0 /\ instances[w] = 0
    BY Zenon DEF Init
  <2>6. ASSUME NEW w \in Worker
        PROVE  tracked[w] + unrecorded[w] <= instances[w] + Cardinality(Committing(w))
    <3>1. Cardinality(Committing(w)) = 0
      BY <1>4, <1>5, Zenon
    <3> QED
      BY <2>5, <3>1
  <2> QED
    BY <2>1, <2>4, <2>6, Zenon DEF StopsCovered
<1> QED
  BY <1>1, <1>3, <1>6, Zenon DEF TokenInv

\* Every step keeps the tokens' invariant.
LEMMA TokenStep ==
    ASSUME CountingLaws, TokenInv, [Next]_vars
    PROVE  TokenInv'
<1>1. TypeOK'
  BY TypeStep, Zenon DEF TokenInv
<1> QED
  BY <1>1, GlobalStep, WorkerStep, StopsStep, SlotStep, Zenon DEF TokenInv, SlotInv

\* The invariant says what the tokens of each kind add up to.
LEMMA TokensAddUp ==
    ASSUME CountingLaws, TokenInv
    PROVE  TokensConserved
<1>1. ASSUME NEW w \in Worker PROVE tracked[w] <= instances[w] + Cardinality(Committing(w))
  <3>1. tracked[w] \in Nat /\ unrecorded[w] \in Nat /\ instances[w] \in Nat
    BY Zenon DEF TokenInv, TypeOK
  <3>2. Cardinality(Committing(w)) \in Nat
    <4>1. IsFiniteSet(Committing(w))
      BY PlacementAssumption, Zenon DEF Committing, CountingLaws
    <4> QED
      BY <4>1, Zenon DEF CountingLaws
  <3> QED
    BY <3>1, <3>2, SMTT(60) DEF TokenInv, StopsCovered
<1> QED
  BY <1>1, Zenon DEF TokenInv, TokensConserved, GlobalExact, WorkerExact, SlotExact

----------------------------------------------------------------------------
(* The strict scale.                                                       *)

StrictTypes ==
    /\ optimistic \in Nat /\ previous \in Nat /\ startJobs \in Nat /\ kept \in Nat /\ stopJobs \in Nat
    /\ unaccounted \in Int /\ mishaps \in Nat
    /\ phase \in {"off", "dispatch", "starts", "release"}

\* Only a batch that starts sandboxes has jobs, and it has asked for each of
\* them: the lower bound in strictBatchFailed is never needed.
JobsAskedFor ==
    /\ phase # "starts" => startJobs = 0
    /\ startJobs <= optimistic

StrictInv == StrictTypes /\ JobsAskedFor /\ LogicalScaleExact

----------------------------------------------------------------------------
\* Every step keeps the invariant; one step for each action.
LEMMA StrictStep ==
    ASSUME StrictInv, [StrictNext]_strictVars PROVE StrictInv'
<1> USE StrictAssumption DEF StrictInv, StrictTypes, JobsAskedFor, LogicalScaleExact, Owed
<1>1. ASSUME NEW d \in 0..MaxDesired, StrictApplyScale(d) PROVE StrictInv'
    BY <1>1, SMTT(60) DEF StrictApplyScale
<1>2. CASE BatchStarts
    BY <1>2, SMTT(60) DEF BatchStarts
<1>3. CASE BatchStops
    BY <1>3, SMTT(60) DEF BatchStops
<1>4. CASE BatchReleases
    BY <1>4, Zenon DEF BatchReleases
<1>5. CASE StrictStarted
    BY <1>5, SMTT(60) DEF StrictStarted
<1>6. CASE StrictStartFailed
    BY <1>6, SMTT(60) DEF StrictStartFailed
<1>7. CASE StrictStopped
    BY <1>7, SMTT(60) DEF StrictStopped
<1>8. CASE StrictStopFailed
    BY <1>8, SMTT(60) DEF StrictStopFailed, Mishap
<1>9. CASE StrictEvicted
    BY <1>9, SMTT(60) DEF StrictEvicted, Mishap
<1>10. CASE StrictStartOne
    BY <1>10, SMTT(60) DEF StrictStartOne, Mishap
<1>11. CASE UNCHANGED strictVars
    BY <1>11, Zenon DEF strictVars
<1> QED
    BY <1>1, <1>2, <1>3, <1>4, <1>5, <1>6, <1>7, <1>8, <1>9, <1>10, <1>11, ZenonT(60) DEF StrictNext

\* LogicalScale is what is kept and owed, but for what happened behind the
\* batches' back, in every execution of the strict mode.
THEOREM StrictScaleExact == StrictSpec => []LogicalScaleExact
<1>1. StrictInit => StrictInv
    BY DEF StrictInit, StrictInv, StrictTypes, JobsAskedFor, LogicalScaleExact, Owed
<1>2. StrictInv /\ [StrictNext]_strictVars => StrictInv'
    BY StrictStep, Zenon
<1>3. StrictInv => LogicalScaleExact
    BY Zenon DEF StrictInv
<1> QED
    BY <1>1, <1>2, <1>3, PTL DEF StrictSpec

----------------------------------------------------------------------------
(* The scale policy.                                                       *)

\* Total has a value for every count, as its loop says.
LEMMA TotalRecursion ==
    ASSUME LeastLaw, NEW samples, NEW count \in Nat
    PROVE  \E sum : /\ Total(samples, count) = sum[count]
                    /\ sum[0] = 0
                    /\ \A i \in 1..count : sum[i] = sum[i - 1] + samples[i]
<1> DEFINE Body(g, k) == IF k = 0 THEN 0 ELSE g[k - 1] + samples[k]
           Solves(g, m) == g = [k \in 0..m |-> Body(g, k)]
           Bad == {m \in Nat : ~\E g : Solves(g, m)}
<1>1. Bad = {}
  <2> SUFFICES ASSUME Bad # {} PROVE FALSE
    BY Zenon
  <2>1. PICK m \in Bad : \A y \in Bad : m <= y
    <3>1. Bad \in SUBSET Nat
      BY Zenon
    <3> HIDE DEF Bad
    <3> QED
      BY <3>1, Zenon DEF LeastLaw
  <2>2. m # 0
    <3> DEFINE z == [k \in 0..0 |-> 0]
    <3>1. Solves(z, 0)
      OBVIOUS
    <3> QED
      BY <2>1, <3>1, ZenonT(60)
  <2>3. m \in Nat /\ m - 1 \in Nat /\ m - 1 \notin Bad
    <3>1. m \in Nat
      BY Zenon
    <3> HIDE DEF Bad
    <3> QED
      BY <2>1, <2>2, <3>1
  <2>4. PICK g : Solves(g, m - 1)
    BY <2>3, Zenon
  <2> DEFINE h == [k \in 0..m |-> IF k = m THEN Body(g, m) ELSE g[k]]
  <2>5. \A k \in 0..m : h[k] = Body(h, k)
    <3> SUFFICES ASSUME NEW k \in 0..m PROVE h[k] = Body(h, k)
      BY Zenon
    <3>1. k # 0 => k - 1 \in 0..m /\ k - 1 # m /\ h[k - 1] = g[k - 1]
      BY <2>3
    <3>2. Body(h, k) = Body(g, k)
      BY <3>1, Zenon
    <3>3. k # m => k \in 0..(m - 1)
      BY <2>3, SMTT(60)
    <3>4. k # m => g[k] = Body(g, k)
      <4> HIDE DEF Body
      <4> QED
        BY <2>4, <3>3, Zenon
    <3> HIDE DEF Body
    <3> QED
      BY <3>2, <3>4, Zenon
  <2>6. Solves(h, m)
    <3>1. h = [k \in 0..m |-> h[k]]
      BY Zenon
    <3> HIDE DEF h, Body
    <3> QED
      BY <2>5, <3>1, Zenon
  <2> QED
    BY <2>1, <2>6, Zenon
<1>2. \E g : Solves(g, count)
  BY <1>1, ZenonT(60)
<1> DEFINE sum == CHOOSE g : Solves(g, count)
<1>3. Total(samples, count) = sum[count]
  BY Zenon DEF Total
<1>4. Solves(sum, count)
  <2> HIDE DEF Solves
  <2> QED
    BY <1>2, Zenon
<1> HIDE DEF sum
<1>5. \A k \in 0..count : sum[k] = Body(sum, k)
  <2> HIDE DEF Body
  <2> QED
    BY <1>4, Zenon
<1> QED
  BY <1>3, <1>5, SMTT(60)

\* The total of natural numbers is one, and depends on the first count samples
\* only.
LEMMA TotalIsNat ==
    ASSUME LeastLaw, NEW samples, NEW count \in Nat, \A i \in 1..count : samples[i] \in Nat
    PROVE  Total(samples, count) \in Nat
<1>1. PICK sum : /\ Total(samples, count) = sum[count]
                 /\ sum[0] = 0
                 /\ \A i \in 1..count : sum[i] = sum[i - 1] + samples[i]
  BY TotalRecursion, Zenon
<1> DEFINE Bad == {k \in 0..count : sum[k] \notin Nat}
<1> SUFFICES ASSUME Bad # {} PROVE FALSE
  BY <1>1
<1>2. PICK m \in Bad : \A y \in Bad : m <= y
  <2>1. Bad \in SUBSET Nat
    OBVIOUS
  <2> HIDE DEF Bad
  <2> QED
    BY <2>1, Zenon DEF LeastLaw
<1>3. m \in 0..count /\ sum[m] \notin Nat
  BY Zenon
<1>4. m # 0
  BY <1>1, <1>3
<1>5. m \in 1..count /\ m - 1 \in 0..count /\ m - 1 \notin Bad
  <2> HIDE DEF Bad
  <2> QED
    BY <1>2, <1>3, <1>4, SMTT(60)
<1>6. sum[m - 1] \in Nat /\ samples[m] \in Nat
  BY <1>5, Zenon
<1> QED
  BY <1>1, <1>3, <1>5, <1>6

\* The sum depends only on the samples it counts.
LEMMA TotalOfSame ==
    ASSUME LeastLaw, NEW s, NEW t, NEW count \in Nat, \A i \in 1..count : s[i] = t[i]
    PROVE  Total(s, count) = Total(t, count)
<1>1. PICK f : /\ Total(s, count) = f[count]
               /\ f[0] = 0
               /\ \A i \in 1..count : f[i] = f[i - 1] + s[i]
  BY TotalRecursion, Zenon
<1>2. PICK g : /\ Total(t, count) = g[count]
               /\ g[0] = 0
               /\ \A i \in 1..count : g[i] = g[i - 1] + t[i]
  BY TotalRecursion, Zenon
<1> DEFINE Bad == {k \in 0..count : f[k] # g[k]}
<1> SUFFICES ASSUME Bad # {} PROVE FALSE
  BY <1>1, <1>2, SMTT(60)
<1>3. PICK m \in Bad : \A y \in Bad : m <= y
  <2>1. Bad \in SUBSET Nat
    OBVIOUS
  <2> HIDE DEF Bad
  <2> QED
    BY <2>1, Zenon DEF LeastLaw
<1>4. m \in 0..count /\ f[m] # g[m]
  BY Zenon
<1>5. m # 0
  BY <1>1, <1>2, <1>4, Zenon
<1>6. m \in 1..count /\ m - 1 \in 0..count /\ m - 1 \notin Bad
  <2> HIDE DEF Bad
  <2> QED
    BY <1>3, <1>4, <1>5, SMTT(60)
<1>7. f[m - 1] = g[m - 1] /\ s[m] = t[m]
  BY <1>6, Zenon
<1> QED
  BY <1>1, <1>2, <1>4, <1>6, <1>7, ZenonT(60)

\* The samples are kept in a ring that fills up before it wraps, and walking
\* back from the head meets the newest samples in order.
ScaleInv ==
    /\ settings \in ScaleConfig
    /\ buckets \in Seq(Nat) /\ latest \in Seq(Nat) /\ Len(latest) = Len(buckets)
    /\ windowHead \in Nat /\ maxPanicInstances \in Int
    /\ Len(buckets) <= Count(settings.stableWindow)
    /\ buckets # <<>> => windowHead \in 1..Len(buckets)
    /\ Len(buckets) < Count(settings.stableWindow) => windowHead = Len(buckets)
    /\ \A i \in 1..Len(buckets) : latest[i] = buckets[Back(windowHead, Len(buckets), i - 1)]

\* The settings are numbers, and a window spans at least one sample.
LEMMA SettingTypes ==
    ASSUME settings \in ScaleConfig
    PROVE  /\ settings.maxConcurrency \in Nat /\ settings.targetConcurrency \in Nat
           /\ settings.unlimitedTarget \in Nat /\ settings.utilization \in Nat
           /\ settings.minInstances \in Nat /\ settings.maxInstances \in Nat
           /\ settings.stableWindow \in Nat /\ settings.panicWindow \in Nat
           /\ settings.panicThresholdRatio \in Nat /\ settings.maxScaleUpRate \in Nat
           /\ settings.maxScaleDownRate \in Nat \ {0}
  BY ScaleAssumption, Zenon

\* A window covers at least one sample (average).
LEMMA CountType ==
    ASSUME NEW window \in Nat
    PROVE  Count(window) \in Nat \ {0}
  BY DEF Count, AtLeast, defaultScalingPeriod

\* A step of the head: to the next bucket, or back to the first one.
LEMMA HeadWraps ==
    ASSUME NEW size \in Nat \ {0}, NEW head \in 1..size
    PROVE  (head % size) + 1 = IF head = size THEN 1 ELSE head + 1
  OBVIOUS

\* The target per instance that demand is divided by is positive
\* (resolveScaleTarget).
LEMMA TargetType ==
    ASSUME settings \in ScaleConfig
    PROVE  resolveScaleTarget \in Nat \ {0}
<1>1. /\ settings.maxConcurrency \in Nat /\ settings.targetConcurrency \in Nat
      /\ settings.unlimitedTarget \in Nat /\ settings.utilization \in Nat
  BY SettingTypes, Zenon
<1>2. normalizeUtilization(settings.utilization) \in Nat
  BY <1>1, SMTT(60) DEF normalizeUtilization
<1> DEFINE breaker == settings.maxConcurrency
           soft == settings.targetConcurrency
           total == IF breaker = 0
                    THEN IF soft > 0 THEN soft ELSE AtLeast(1, settings.unlimitedTarget)
                    ELSE IF soft > 0 THEN AtMost(soft, breaker) ELSE breaker
<1>3. total \in Nat
  BY <1>1, Zenon DEF AtLeast, AtMost
<1>4. resolveScaleTarget = AtLeast(1, total * normalizeUtilization(settings.utilization))
  BY Zenon DEF resolveScaleTarget
<1> HIDE DEF total
<1>5. total * normalizeUtilization(settings.utilization) \in Nat
  BY <1>2, <1>3, SMTT(60)
<1> QED
  BY <1>4, <1>5 DEF AtLeast

\* The average of a ring of samples is over at least one of them.
LEMMA AverageType ==
    ASSUME LeastLaw, NEW s \in Seq(Nat), s # <<>>, NEW head \in 1..Len(s), NEW window \in Nat
    PROVE  LET avg == average(s, head, window)
           IN  avg.sum \in Nat /\ avg.count \in Nat \ {0} /\ avg.count <= Len(s)
<1> DEFINE count == AtMost(Len(s), Count(window))
           recent == [i \in 1..count |-> s[Back(head, Len(s), i - 1)]]
<1>1. Len(s) \in Nat \ {0} /\ Count(window) \in Nat \ {0}
  <2>1. Len(s) \in Nat \ {0}
    OBVIOUS
  <2> QED
    BY <2>1, CountType, Zenon
<1>2. count \in Nat \ {0} /\ count <= Len(s)
  BY <1>1 DEF AtMost
<1> HIDE DEF count
<1>3. \A i \in 1..count : recent[i] \in Nat
  <2> SUFFICES ASSUME NEW i \in 1..count PROVE s[Back(head, Len(s), i - 1)] \in Nat
    BY Zenon
  <2>1. Back(head, Len(s), i - 1) \in 1..Len(s)
    BY <1>1, <1>2, SMTT(60) DEF Back
  <2> QED
    BY <2>1
<1>4. Total(recent, count) \in Nat
  <2> HIDE DEF recent
  <2> QED
    BY <1>2, <1>3, TotalIsNat, Zenon
<1>5. average(s, head, window) = [sum |-> Total(recent, count), count |-> count]
  BY Zenon DEF average, count
<1> HIDE DEF recent
<1> QED
  BY <1>2, <1>4, <1>5, SMTT(60)

\* The instances wanted for an average are a number of them.
LEMMA WantedType ==
    ASSUME settings \in ScaleConfig, NEW avg, avg.sum \in Nat, avg.count \in Nat \ {0}
    PROVE  Wanted(avg) \in Int
<1> DEFINE n == 100 * avg.sum
           d == avg.count * resolveScaleTarget
<1>1. resolveScaleTarget \in Nat \ {0}
  BY TargetType, Zenon
<1>2. n \in Nat /\ d \in Nat
  BY <1>1
<1>3. Wanted(avg) = CeilDiv(n, d)
  BY Zenon DEF Wanted
<1> HIDE DEF n, d
<1> QED
  BY <1>2, <1>3 DEF CeilDiv

\* What a sample leaves behind.
LEMMA RecordType ==
    ASSUME ScaleInv, NEW v \in Nat
    PROVE  LET sampled == record(v)
           IN  /\ sampled.buckets \in Seq(Nat) /\ sampled.buckets # <<>>
               /\ sampled.head \in 1..Len(sampled.buckets)
<1> DEFINE size == Count(settings.stableWindow)
           due == sinceSample >= defaultScalingPeriod \/ buckets = <<>>
           grows == Len(buckets) < size
           head == IF ~due THEN windowHead ELSE IF grows THEN Len(buckets) + 1 ELSE (windowHead % size) + 1
           after == IF due /\ grows THEN Append(buckets, v) ELSE [buckets EXCEPT ![head] = v]
<1>1. record(v) = [buckets |-> after, head |-> head, due |-> due]
  BY Zenon DEF record
<1>2. /\ size \in Nat \ {0} /\ buckets \in Seq(Nat) /\ Len(buckets) \in Nat /\ Len(buckets) <= size
      /\ (buckets # <<>> => windowHead \in 1..Len(buckets))
  <2>1. settings.stableWindow \in Nat
    BY SettingTypes, Zenon DEF ScaleInv
  <2>2. size \in Nat \ {0}
    BY <2>1, CountType, Zenon
  <2> QED
    BY <2>2, SMTT(60) DEF ScaleInv
<1> HIDE DEF size
<1>3. CASE due /\ grows
  <2>1. head = Len(buckets) + 1 /\ after = Append(buckets, v)
    BY <1>3, Zenon
  <2>2. after \in Seq(Nat) /\ Len(after) = Len(buckets) + 1
    BY <1>2, <2>1, SMTT(60)
  <2> HIDE DEF after, head
  <2> QED
    BY <1>1, <1>2, <2>1, <2>2
<1>4. CASE ~(due /\ grows)
  <2>1. buckets # <<>> /\ Len(buckets) # 0
    BY <1>2, <1>4
  <2>2. head \in 1..Len(buckets)
    <3>1. CASE ~due
      BY <1>2, <2>1, <3>1, Zenon
    <3>2. CASE due
      <4>1. Len(buckets) = size /\ windowHead \in 1..size /\ head = (windowHead % size) + 1
        BY <1>2, <1>4, <2>1, <3>2, SMTT(60)
      <4>2. head = IF windowHead = size THEN 1 ELSE windowHead + 1
        <5> HIDE DEF head
        <5> QED
          BY <1>2, <4>1, HeadWraps, ZenonT(60)
      <4> HIDE DEF head
      <4> QED
        BY <1>2, <4>1, <4>2
    <3> QED
      BY <3>1, <3>2, Zenon
  <2>3. after = [buckets EXCEPT ![head] = v]
    BY <1>4, Zenon
  <2> HIDE DEF head, after
  <2>4. after \in Seq(Nat) /\ Len(after) = Len(buckets)
    BY <1>2, <2>2, <2>3
  <2>5. after # <<>>
    BY <2>1, <2>4, Zenon
  <2> QED
    BY <1>1, <2>2, <2>4, <2>5
<1> QED
  BY <1>3, <1>4, Zenon

\* The largest of a few numbers.
LEMMA MaxOfFew ==
    ASSUME NEW a \in Int, NEW b \in Int, NEW c \in Int, NEW d \in Int, NEW more \in BOOLEAN
    PROVE  LET S == {a, b} \cup IF more THEN {c, d} ELSE {}
           IN  Max(S) \in Int /\ Max(S) >= b
<1> DEFINE S == {a, b} \cup IF more THEN {c, d} ELSE {}
<1>1. \E x \in S : \A y \in S : x >= y
  <2> DEFINE p == IF a >= b THEN a ELSE b
             q == IF c >= d THEN c ELSE d
             r == IF more /\ q >= p THEN q ELSE p
  <2>1. r \in S /\ \A y \in S : r >= y
    OBVIOUS
  <2> QED
    BY <2>1, Zenon
<1>2. S \subseteq Int
  BY Zenon
<1> HIDE DEF S
<1>3. Max(S) \in S /\ \A x \in S : Max(S) >= x
  BY <1>1, Zenon DEF Max
<1> QED
  BY <1>2, <1>3, Zenon DEF S

\* The limits that the rates set are numbers.
LEMMA RateTypes ==
    ASSUME NEW up \in Nat, NEW ready \in Nat, NEW down \in Nat \ {0}
    PROVE  up * ready \in Int /\ ready \div down \in Int
  OBVIOUS

\* A decision that takes the averages into account is not below what the demand
\* it was shown calls for, up to the scale-up rate.
LEMMA InstantFloor ==
    ASSUME LeastLaw, ScaleInv, NEW current \in Nat, NEW inFlight \in Nat
    PROVE  LET outcome == dirigentDesired(current, inFlight)
               maxScaleUp == settings.maxScaleUpRate * AtLeast(1, current)
           IN  /\ outcome.desired \in Int /\ outcome.maxPanic \in Int
               /\ outcome.sampled = record(inFlight)
               /\ outcome.desired >= clampBetween(Wanted([sum |-> inFlight, count |-> 1]), 0, maxScaleUp)
<1> DEFINE sampled == record(inFlight)
           ready == AtLeast(1, current)
           maxScaleUp == settings.maxScaleUpRate * ready
           maxScaleDown == ready \div settings.maxScaleDownRate
           desiredFor(window) ==
             clampBetween(Wanted(average(sampled.buckets, sampled.head, window)), maxScaleDown, maxScaleUp)
           desiredStable == desiredFor(settings.stableWindow)
           desiredPanic == desiredFor(settings.panicWindow)
           desiredInstant == clampBetween(Wanted([sum |-> inFlight, count |-> 1]), 0, maxScaleUp)
           high == desiredPanic >= settings.panicThresholdRatio * ready
           panics == high \/ (inPanic /\ sincePanic <= settings.stableWindow)
           maxPanic == IF ~panics THEN 0
                       ELSE IF high THEN AtLeast(desiredPanic, maxPanicInstances)
                       ELSE maxPanicInstances
           choices == {desiredStable, desiredInstant} \cup IF panics THEN {desiredPanic, maxPanic} ELSE {}
<1>0. dirigentDesired(current, inFlight)
        = [sampled |-> sampled, desired |-> Max(choices), inPanic |-> panics,
           sincePanic |-> IF high \/ ~panics THEN 0 ELSE sincePanic, maxPanic |-> maxPanic]
  BY ZenonT(60) DEF dirigentDesired
<1>1. /\ settings.maxScaleUpRate \in Nat /\ settings.maxScaleDownRate \in Nat \ {0} /\ ready \in Nat
      /\ settings.stableWindow \in Nat /\ settings.panicWindow \in Nat
  BY SettingTypes, Zenon DEF ScaleInv, AtLeast
<1>2. maxScaleUp \in Int /\ maxScaleDown \in Int
  <2> HIDE DEF ready
  <2> QED
    BY <1>1, RateTypes, Zenon
<1>3. ASSUME NEW window \in Nat PROVE Wanted(average(sampled.buckets, sampled.head, window)) \in Int
  <2>1. /\ sampled.buckets \in Seq(Nat) /\ sampled.buckets # <<>>
        /\ sampled.head \in 1..Len(sampled.buckets)
    BY RecordType, Zenon
  <2> DEFINE avg == average(sampled.buckets, sampled.head, window)
  <2>2. avg.sum \in Nat /\ avg.count \in Nat \ {0}
    <3> HIDE DEF sampled
    <3> QED
      BY <2>1, AverageType, Zenon
  <2> HIDE DEF avg
  <2>3. Wanted(avg) \in Int
    BY <2>2, WantedType, Zenon DEF ScaleInv
  <2> QED
    BY <2>3, Zenon DEF avg
<1>4. Wanted([sum |-> inFlight, count |-> 1]) \in Int
  BY WantedType DEF ScaleInv
<1>5. ASSUME NEW n \in Int, NEW low \in Int, NEW top \in Int PROVE clampBetween(n, low, top) \in Int
  BY Zenon DEF clampBetween, AtLeast, AtMost
<1> HIDE DEF sampled, ready, maxScaleUp, maxScaleDown
<1>6. desiredStable \in Int /\ desiredPanic \in Int
  BY <1>1, <1>2, <1>3, <1>5, Zenon
<1>7. desiredInstant \in Int
  BY <1>2, <1>4, <1>5
<1> HIDE DEF desiredFor, desiredStable, desiredPanic, desiredInstant, high
<1>8. maxPanic \in Int
  BY <1>6 DEF AtLeast, ScaleInv
<1>9. panics \in BOOLEAN
  BY Zenon DEF high
<1> HIDE DEF panics, maxPanic
<1>10. Max(choices) \in Int /\ Max(choices) >= desiredInstant
  BY <1>6, <1>7, <1>8, <1>9, MaxOfFew, ZenonT(60)
<1> HIDE DEF choices
<1> QED
  BY <1>0, <1>8, <1>10, SMTT(60) DEF sampled, desiredInstant, maxScaleUp, ready

\* The outcome of a decision is a decision's record.
LEMMA ScaleDecision ==
    ASSUME LeastLaw, ScaleInv, NEW current \in Nat, NEW observed \in Nat, DesiredScale(current, observed, TRUE)
           \/ DesiredScale(current, observed, FALSE)
    PROVE  LET sampled == record(observed)
               older == IF sampled.due \/ latest = <<>> THEN latest ELSE Tail(latest)
           IN  /\ UNCHANGED settings /\ maxPanicInstances' \in Int
               /\ buckets' = sampled.buckets /\ windowHead' = sampled.head
               /\ latest' = SubSeq(<<observed>> \o older, 1, AtMost(Count(settings.stableWindow), Len(older) + 1))
<1> DEFINE outcome == dirigentDesired(current, observed)
<1>1. outcome.sampled = record(observed) /\ outcome.maxPanic \in Int
  BY InstantFloor, Zenon
<1> HIDE DEF outcome
<1> QED
  BY <1>1, Zenon DEF DesiredScale, outcome

\* The newest samples with one more in front, cut to the window.
LEMMA NewestFirst ==
    ASSUME NEW s \in Seq(Nat), NEW v \in Nat, NEW n \in Nat \ {0}, n <= Len(s) + 1
    PROVE  LET t == SubSeq(<<v>> \o s, 1, n)
           IN  /\ t \in Seq(Nat) /\ Len(t) = n /\ t[1] = v
               /\ \A i \in 2..n : t[i] = s[i - 1]
<1> DEFINE u == <<v>> \o s
           t == SubSeq(u, 1, n)
<1>1. u \in Seq(Nat) /\ Len(u) = Len(s) + 1 /\ u[1] = v /\ \A i \in 2..n : u[i] = s[i - 1]
  OBVIOUS
<1> HIDE DEF u
<1>2. t \in Seq(Nat) /\ Len(t) = n /\ \A i \in 1..n : t[i] = u[i]
  BY <1>1
<1> HIDE DEF t
<1>3. 1 \in 1..n /\ \A i \in 2..n : i \in 1..n
  OBVIOUS
<1>4. t \in Seq(Nat) /\ Len(t) = n /\ t[1] = v /\ \A i \in 2..n : t[i] = s[i - 1]
  BY <1>1, <1>2, <1>3, Zenon
<1> QED
  BY <1>4, Zenon DEF t, u

\* A sample replaced in its bucket.
LEMMA Replaced ==
    ASSUME NEW s \in Seq(Nat), NEW k \in 1..Len(s), NEW v \in Nat
    PROVE  LET t == [s EXCEPT ![k] = v]
           IN  /\ t \in Seq(Nat) /\ Len(t) = Len(s)
               /\ \A j \in 1..Len(s) : t[j] = IF j = k THEN v ELSE s[j]
  BY SMTT(60)

\* A decision keeps the invariant, with the Dirigent policy and without it.
LEMMA ScaleDecisionKeeps ==
    ASSUME LeastLaw, ScaleInv, NEW current \in Nat, NEW observed \in Nat, DesiredScale(current, observed, TRUE)
           \/ DesiredScale(current, observed, FALSE)
    PROVE  ScaleInv'
<1> DEFINE size == Count(settings.stableWindow)
           due == sinceSample >= defaultScalingPeriod \/ buckets = <<>>
           grows == Len(buckets) < size
           head == IF ~due THEN windowHead ELSE IF grows THEN Len(buckets) + 1 ELSE (windowHead % size) + 1
           after == IF due /\ grows THEN Append(buckets, observed) ELSE [buckets EXCEPT ![head] = observed]
           older == IF due \/ latest = <<>> THEN latest ELSE Tail(latest)
<1>1. /\ UNCHANGED settings /\ maxPanicInstances' \in Int
      /\ buckets' = after /\ windowHead' = head
      /\ latest' = SubSeq(<<observed>> \o older, 1, AtMost(size, Len(older) + 1))
  <2>1. record(observed) = [buckets |-> after, head |-> head, due |-> due]
    BY Zenon DEF record
  <2> HIDE DEF after, head, due
  <2>2. record(observed).due = due /\ record(observed).buckets = after /\ record(observed).head = head
    BY <2>1, SMTT(60)
  <2> QED
    BY <2>2, ScaleDecision, ZenonT(60)
<1>2. /\ settings \in ScaleConfig /\ buckets \in Seq(Nat) /\ Len(buckets) \in Nat /\ Len(buckets) <= size
      /\ latest \in Seq(Nat) /\ Len(latest) = Len(buckets)
      /\ (buckets # <<>> => windowHead \in 1..Len(buckets))
      /\ (Len(buckets) < size => windowHead = Len(buckets))
      /\ \A i \in 1..Len(buckets) : latest[i] = buckets[Back(windowHead, Len(buckets), i - 1)]
  BY DEF ScaleInv
<1>3. size \in Nat \ {0}
  <2>1. settings.stableWindow \in Nat
    BY SettingTypes, Zenon DEF ScaleInv
  <2> QED
    BY <2>1, CountType, Zenon
<1>4. size' = size
  BY <1>1, Zenon
<1> HIDE DEF size
<1> DEFINE n == Len(buckets)
<1>5. CASE due /\ grows
  <2>1. head = n + 1 /\ after = Append(buckets, observed) /\ older = latest /\ n < size
    BY <1>5, Zenon
  <2>2. buckets' \in Seq(Nat) /\ Len(buckets') = n + 1 /\ windowHead' = n + 1
    BY <1>1, <1>2, <2>1, SMTT(60)
  <2>3. buckets'[n + 1] = observed /\ \A i \in 1..n : buckets'[i] = buckets[i]
    BY <1>1, <1>2, <2>1, SMTT(60)
  <2>4. /\ latest' \in Seq(Nat) /\ Len(latest') = n + 1 /\ latest'[1] = observed
        /\ \A i \in 2..(n + 1) : latest'[i] = latest[i - 1]
    <3>1. AtMost(size, Len(older) + 1) = n + 1 /\ n + 1 \in Nat \ {0} /\ n + 1 <= Len(latest) + 1
      BY <1>2, <1>3, <2>1, SMTT(60) DEF AtMost
    <3>2. latest' = SubSeq(<<observed>> \o latest, 1, n + 1)
      BY <1>1, <2>1, <3>1, ZenonT(60)
    <3> HIDE DEF older
    <3> QED
      BY <1>2, <3>1, <3>2, NewestFirst, SMTT(60)
  <2>5. \A i \in 1..(n + 1) : latest'[i] = buckets'[Back(n + 1, n + 1, i - 1)]
    <3> SUFFICES ASSUME NEW i \in 1..(n + 1) PROVE latest'[i] = buckets'[Back(n + 1, n + 1, i - 1)]
      BY Zenon
    <3>1. CASE i = 1
      BY <1>2, <2>3, <2>4, <3>1, SMTT(60) DEF Back
    <3>2. CASE i # 1
      <4> DEFINE j == i - 1
      <4>1. j \in 1..n /\ i \in 2..(n + 1) /\ windowHead = n
        BY <1>2, <2>1, <3>2, SMTT(60)
      <4>2. Back(n + 1, n + 1, j) = Back(n, n, j - 1) /\ Back(n, n, j - 1) \in 1..n
        BY <1>2, <4>1, SMTT(60) DEF Back
      <4>3. latest'[i] = latest[j]
        BY <2>4, <4>1, Zenon
      <4> HIDE DEF j
      <4>4. latest[j] = buckets[Back(n, n, j - 1)]
        BY <1>2, <4>1, Zenon
      <4>5. buckets'[Back(n, n, j - 1)] = buckets[Back(n, n, j - 1)]
        BY <2>3, <4>2, Zenon
      <4> QED
        BY <4>2, <4>3, <4>4, <4>5, Zenon DEF j
    <3> QED
      BY <3>1, <3>2, Zenon
  <2> HIDE DEF head, after, older, due, grows
  <2>6. n + 1 <= size /\ n + 1 \in Nat /\ n + 1 \in 1..(n + 1)
    BY <1>2, <1>3, <2>1, SMTT(60)
  <2> QED
    BY <1>1, <1>2, <1>4, <2>2, <2>4, <2>5, <2>6, ZenonT(60) DEF ScaleInv, size
<1>6. CASE due /\ ~grows
  <2>1. n = size /\ n \in Nat \ {0} /\ buckets # <<>> /\ windowHead \in 1..n
    BY <1>2, <1>3, <1>6, SMTT(60)
  <2>2. older = latest /\ head = (windowHead % n) + 1 /\ after = [buckets EXCEPT ![head] = observed]
    BY <1>6, <2>1, Zenon
  <2>3. head = IF windowHead = n THEN 1 ELSE windowHead + 1
    <3> HIDE DEF head, n
    <3> QED
      BY <2>1, <2>2, HeadWraps, Zenon
  <2> HIDE DEF head, after, older, due, grows
  <2>4. head \in 1..n
    BY <2>1, <2>3
  <2>5. /\ buckets' \in Seq(Nat) /\ Len(buckets') = n
        /\ \A k \in 1..n : buckets'[k] = IF k = head THEN observed ELSE buckets[k]
    <3>1. buckets' = [buckets EXCEPT ![head] = observed]
      BY <1>1, <2>2, Zenon
    <3> QED
      BY <1>2, <2>4, <3>1, Replaced, SMTT(60)
  <2>6. /\ latest' \in Seq(Nat) /\ Len(latest') = n /\ latest'[1] = observed
        /\ \A i \in 2..n : latest'[i] = latest[i - 1]
    <3>1. AtMost(size, Len(older) + 1) = n /\ n <= Len(latest) + 1
      BY <1>2, <2>1, <2>2, SMTT(60) DEF AtMost
    <3>2. latest' = SubSeq(<<observed>> \o latest, 1, n)
      BY <1>1, <2>2, <3>1, Zenon
    <3>3. latest \in Seq(Nat) /\ n \in Nat \ {0}
      BY <1>2, <2>1, Zenon
    <3> HIDE DEF n
    <3> QED
      BY <3>1, <3>2, <3>3, NewestFirst, SMTT(60)
  <2>7. \A i \in 1..n : latest'[i] = buckets'[Back(head, n, i - 1)]
    <3> SUFFICES ASSUME NEW i \in 1..n PROVE latest'[i] = buckets'[Back(head, n, i - 1)]
      BY Zenon
    <3>1. CASE i = 1
      <4>1. Back(head, n, i - 1) = head
        BY <2>1, <2>4, <3>1, SMTT(60) DEF Back
      <4> QED
        BY <2>4, <2>5, <2>6, <3>1, <4>1, ZenonT(60)
    <3>2. CASE i # 1
      <4>1. i - 1 \in 1..n /\ i \in 2..n
        BY <2>1, <3>2
      <4>2. /\ Back(head, n, i - 1) = Back(windowHead, n, i - 2)
            /\ Back(head, n, i - 1) \in 1..n /\ Back(head, n, i - 1) # head
        BY <2>1, <2>3, <4>1, SMTT(60) DEF Back
      <4>3. latest[i - 1] = buckets[Back(windowHead, n, i - 2)]
        BY <1>2, <4>1, SMTT(60)
      <4> QED
        BY <2>5, <2>6, <4>1, <4>2, <4>3, Zenon
    <3> QED
      BY <3>1, <3>2, Zenon
  <2>8. settings' \in ScaleConfig /\ windowHead' = head /\ maxPanicInstances' \in Int
    BY <1>1, <1>2, Zenon
  <2>9. head \in Nat /\ n <= size' /\ ~(n < size')
    BY <1>4, <2>1, <2>4, SMTT(60)
  <2> QED
    BY <2>4, <2>5, <2>6, <2>7, <2>8, <2>9, Zenon DEF ScaleInv, size
<1>7. CASE ~due
  <2>1. n \in Nat \ {0} /\ buckets # <<>> /\ windowHead \in 1..n /\ latest # <<>>
    BY <1>2, <1>7, SMTT(60)
  <2>2. older = Tail(latest) /\ head = windowHead /\ after = [buckets EXCEPT ![windowHead] = observed]
    BY <1>7, <2>1, Zenon
  <2> HIDE DEF head, after, older, due, grows
  <2>3. /\ buckets' \in Seq(Nat) /\ Len(buckets') = n /\ windowHead' = windowHead
        /\ \A k \in 1..n : buckets'[k] = IF k = windowHead THEN observed ELSE buckets[k]
    <3>1. buckets' = [buckets EXCEPT ![windowHead] = observed] /\ windowHead' = windowHead
      BY <1>1, <2>2, Zenon
    <3> QED
      BY <1>2, <2>1, <3>1, Replaced, SMTT(60)
  <2>4. older \in Seq(Nat) /\ Len(older) = n - 1 /\ \A i \in 1..(n - 1) : older[i] = latest[i + 1]
    BY <1>2, <2>1, <2>2, SMTT(60)
  <2>5. /\ latest' \in Seq(Nat) /\ Len(latest') = n /\ latest'[1] = observed
        /\ \A i \in 2..n : latest'[i] = latest[i]
    <3>1. AtMost(size, Len(older) + 1) = n /\ n <= Len(older) + 1
      BY <1>2, <1>3, <2>1, <2>4, SMTT(60) DEF AtMost
    <3>2. latest' = SubSeq(<<observed>> \o older, 1, n)
      BY <1>1, <3>1, Zenon
    <3>3. /\ latest' \in Seq(Nat) /\ Len(latest') = n /\ latest'[1] = observed
          /\ \A i \in 2..n : latest'[i] = older[i - 1]
      BY <2>1, <2>4, <3>1, <3>2, NewestFirst, SMTT(60)
    <3>4. \A i \in 2..n : older[i - 1] = latest[i]
      BY <2>1, <2>4, SMTT(60)
    <3> QED
      BY <3>3, <3>4, Zenon
  <2>6. \A i \in 1..n : latest'[i] = buckets'[Back(windowHead, n, i - 1)]
    <3> SUFFICES ASSUME NEW i \in 1..n PROVE latest'[i] = buckets'[Back(windowHead, n, i - 1)]
      BY Zenon
    <3>1. CASE i = 1
      <4>1. Back(windowHead, n, i - 1) = windowHead
        BY <2>1, <3>1, SMTT(60) DEF Back
      <4> QED
        BY <2>1, <2>3, <2>5, <3>1, <4>1, Zenon
    <3>2. CASE i # 1
      <4>1. i \in 2..n
        BY <2>1, <3>2
      <4>2. Back(windowHead, n, i - 1) \in 1..n /\ Back(windowHead, n, i - 1) # windowHead
        BY <2>1, <4>1, SMTT(60) DEF Back
      <4>3. latest[i] = buckets[Back(windowHead, n, i - 1)]
        BY <1>2, Zenon
      <4> QED
        BY <2>3, <2>5, <4>1, <4>2, <4>3, Zenon
    <3> QED
      BY <3>1, <3>2, Zenon
  <2> QED
    BY <1>1, <1>2, <1>4, <2>1, <2>3, <2>5, <2>6, ZenonT(60) DEF ScaleInv, size
<1> QED
  BY <1>5, <1>6, <1>7, Zenon

\* Decisions and reconfigurations keep the invariant of the policy.
LEMMA ScaleStep ==
    ASSUME LeastLaw, ScaleInv, [ScaleNext]_scaleVars
    PROVE  ScaleInv'
<1>1. ASSUME NEW current \in 0..MaxScale, NEW observed \in 0..MaxDemand, NEW idle \in BOOLEAN,
             DesiredScale(current, observed, idle)
      PROVE  ScaleInv'
  <2>1. current \in Nat /\ observed \in Nat /\ (idle = TRUE \/ idle = FALSE)
    BY ScaleAssumption
  <2> QED
    BY <1>1, <2>1, ScaleDecisionKeeps, ZenonT(60)
<1>2. CASE Second
  BY <1>2, Zenon DEF Second, ScaleInv
<1>3. CASE UNCHANGED scaleVars
  BY <1>3, Zenon DEF scaleVars, dirigentState, ScaleInv
<1> QED
  BY <1>1, <1>2, <1>3, Zenon DEF ScaleNext

\* It holds of a policy that has seen nothing.
LEMMA ScaleInitHolds ==
    ScaleInit => ScaleInv
<1> SUFFICES ASSUME ScaleInit PROVE ScaleInv
  BY Zenon
<1>1. Count(settings.stableWindow) \in Nat \ {0}
  <2>1. settings.stableWindow \in Nat
    BY SettingTypes, Zenon DEF ScaleInit
  <2> QED
    BY <2>1, CountType, Zenon
<1> QED
  BY <1>1 DEF ScaleInit, ScaleInv

\* The ring's invariant gives the averages.
LEMMA NewestAveraged ==
    ASSUME LeastLaw, ScaleInv
    PROVE  WindowExact
<1> SUFFICES ASSUME buckets # <<>>, NEW window \in {settings.stableWindow, settings.panicWindow}
             PROVE  LET avg == average(buckets, windowHead, window)
                    IN  /\ avg.count = AtMost(Len(latest), Count(window))
                        /\ avg.sum = Total(latest, avg.count)
  BY ZenonT(60) DEF WindowExact
<1> DEFINE count == AtMost(Len(buckets), Count(window))
           recent == [i \in 1..count |-> buckets[Back(windowHead, Len(buckets), i - 1)]]
<1>1. average(buckets, windowHead, window) = [sum |-> Total(recent, count), count |-> count]
  BY ZenonT(60) DEF average
<1>2. Len(latest) = Len(buckets) /\ Len(buckets) \in Nat
  BY SMTT(60) DEF ScaleInv
<1>3. count \in Nat /\ count <= Len(buckets)
  <3>1. window \in Nat
    BY SettingTypes, ZenonT(60) DEF ScaleInv
  <3>2. Count(window) \in Nat
    BY <3>1, CountType, Zenon
  <3> QED
    BY <1>2, <3>2, SMTT(60) DEF AtMost
<1> HIDE DEF count
<1>4. \A i \in 1..count : recent[i] = latest[i]
  <3> SUFFICES ASSUME NEW i \in 1..count PROVE buckets[Back(windowHead, Len(buckets), i - 1)] = latest[i]
    BY Zenon
  <3>1. i \in 1..Len(buckets)
    BY <1>2, <1>3, SMTT(60)
  <3> QED
    BY <3>1, Zenon DEF ScaleInv
<1> HIDE DEF recent
<1>5. Total(recent, count) = Total(latest, count)
  BY <1>3, <1>4, TotalOfSame, Zenon
<1> QED
  <3>1. average(buckets, windowHead, window).count = count
    BY <1>1
  <3>2. average(buckets, windowHead, window).sum = Total(latest, count)
    BY <1>1, <1>5
  <3> QED
    BY <1>2, <3>1, <3>2, Zenon DEF count

\* The bounds a function sets do not take more away than its maximum.
LEMMA ClampKeeps ==
    ASSUME settings \in ScaleConfig, NEW n \in Int, NEW m \in Int, n >= m,
           settings.maxInstances > 0 => settings.maxInstances >= m
    PROVE  clampDesired(n) >= m
<1>1. settings.minInstances \in Nat /\ settings.maxInstances \in Nat
  BY SettingTypes, Zenon
<1> QED
  BY <1>1, SMTT(60) DEF clampDesired, clampBetween, AtLeast, AtMost

\* The least of three numbers.
LEMMA MinOfThree ==
    ASSUME NEW a \in Int, NEW b \in Int, NEW c \in Int
    PROVE  Min({a, b, c}) \in Int /\ Min({a, b, c}) <= a /\ Min({a, b, c}) <= b /\ Min({a, b, c}) <= c
<1> DEFINE S == {a, b, c}
<1>1. \E x \in S : \A y \in S : x <= y
  <2> DEFINE p == IF a <= b THEN a ELSE b
             q == IF p <= c THEN p ELSE c
  <2>1. q \in S /\ \A y \in S : q <= y
    OBVIOUS
  <2> QED
    BY <2>1, Zenon
<1>2. S \subseteq Int /\ a \in S /\ b \in S /\ c \in S
  BY Zenon
<1> HIDE DEF S
<1>3. Min(S) \in S /\ \A x \in S : Min(S) <= x
  BY <1>1, Zenon DEF Min
<1> QED
  BY <1>2, <1>3, Zenon DEF S

\* What a decision leaves of the demand.
LEMMA DemandKept ==
    ASSUME LeastLaw, ScaleInv
    PROVE  CoversDemand
<1> SUFFICES ASSUME NEW current \in 0..MaxScale, NEW observed \in 1..MaxDemand
             PROVE  LET needed == IF Smoothed(current, observed, FALSE) \/ settings.dirigentAdmission
                                  THEN CeilDiv(100 * observed, resolveScaleTarget)
                                  ELSE observed
                        ready == AtLeast(1, current)
                        allowed == IF settings.dirigentAdmission /\ current = 0 THEN 1
                                   ELSE settings.maxScaleUpRate * ready
                        cap == IF settings.maxInstances > 0 THEN settings.maxInstances ELSE needed
                    IN  Desired(current, observed, FALSE) >= Min({needed, allowed, cap})
  BY Zenon DEF CoversDemand
<1> DEFINE smoothed == Smoothed(current, observed, FALSE)
           wanted == CeilDiv(100 * observed, resolveScaleTarget)
           needed == IF smoothed \/ settings.dirigentAdmission THEN wanted ELSE observed
           ready == AtLeast(1, current)
           up == settings.maxScaleUpRate * ready
           allowed == IF settings.dirigentAdmission /\ current = 0 THEN 1 ELSE up
           cap == IF settings.maxInstances > 0 THEN settings.maxInstances ELSE needed
           least == Min({needed, allowed, cap})
           desired == IF smoothed THEN AtLeast(0, dirigentDesired(current, observed).desired)
                      ELSE IF settings.dirigentAdmission THEN 1 ELSE AtLeast(current, observed)
<1>1. current \in Nat /\ observed \in Nat /\ observed > 0 /\ settings \in ScaleConfig
  BY ScaleAssumption DEF ScaleInv
<1>2. wanted \in Int
  <3>1. resolveScaleTarget \in Nat \ {0}
    BY <1>1, TargetType, Zenon
  <3> QED
    BY <1>1, <3>1, SMTT(60) DEF CeilDiv
<1>3. settings.maxInstances \in Nat /\ settings.maxScaleUpRate \in Nat
  BY <1>1, SettingTypes, Zenon
<1>4. ready \in Nat /\ up \in Int
  <3>1. ready \in Nat
    BY <1>1, Zenon DEF AtLeast
  <3> HIDE DEF ready
  <3> QED
    BY <1>3, <3>1, SMTT(60)
<1>5. /\ dirigentDesired(current, observed).desired \in Int
      /\ dirigentDesired(current, observed).desired >= clampBetween(wanted, 0, up)
  <3>1. Wanted([sum |-> observed, count |-> 1]) = wanted
    <4>1. resolveScaleTarget \in Nat
      BY <1>1, TargetType, Zenon
    <4>2. 1 * resolveScaleTarget = resolveScaleTarget
      BY <4>1, SMTT(60)
    <4> QED
      BY <4>2, Zenon DEF Wanted
  <3> QED
    BY <1>1, <3>1, InstantFloor, Zenon
<1> HIDE DEF smoothed, wanted, up, ready
<1>6. needed \in Int /\ allowed \in Int /\ cap \in Int
  BY <1>1, <1>2, <1>3, <1>4, SMTT(60)
<1>7. least \in Int /\ least <= needed /\ least <= allowed /\ least <= cap
  <3> HIDE DEF needed, allowed, cap
  <3> QED
    BY <1>6, MinOfThree, Zenon
<1>8. Desired(current, observed, FALSE) = clampDesired(desired)
  <3>1. observed # 0 /\ observed > 0
    BY <1>1
  <3>2. CASE smoothed
    BY <3>1, <3>2, ZenonT(60) DEF Desired, smoothed
  <3>3. CASE ~smoothed
    BY <3>1, <3>3, Zenon DEF Desired, smoothed
  <3> QED
    BY <3>2, <3>3, Zenon
<1> HIDE DEF least
<1>9. desired \in Int /\ desired >= least
  <3>1. CASE smoothed
    <4>1. desired = AtLeast(0, dirigentDesired(current, observed).desired) /\ needed = wanted
      BY <3>1, Zenon
    <4>2. allowed = up
      BY <1>1, <3>1, SMTT(60) DEF smoothed, Smoothed
    <4>3. clampBetween(wanted, 0, up) >= least
      BY <1>2, <1>4, <1>7, <4>1, <4>2, SMTT(60) DEF clampBetween, AtLeast, AtMost
    <4>4. clampBetween(wanted, 0, up) \in Int
      BY <1>2, <1>4, SMTT(60) DEF clampBetween, AtLeast, AtMost
    <4> HIDE DEF desired
    <4> QED
      BY <1>5, <1>7, <4>1, <4>3, <4>4, SMTT(60) DEF AtLeast
  <3>2. CASE ~smoothed /\ settings.dirigentAdmission
    <4>1. desired = 1
      BY <3>2, Zenon
    <4>2. allowed = 1
      BY <1>1, <3>2, SMTT(60) DEF smoothed, Smoothed
    <4> QED
      BY <1>7, <4>1, <4>2, SMTT(60)
  <3>3. CASE ~smoothed /\ ~settings.dirigentAdmission
    <4>1. desired = AtLeast(current, observed) /\ needed = observed
      BY <3>3, Zenon
    <4>2. AtLeast(current, observed) \in Nat /\ AtLeast(current, observed) >= observed
      BY <1>1, SMTT(60) DEF AtLeast
    <4> HIDE DEF desired, needed
    <4> QED
      BY <1>1, <1>7, <4>1, <4>2, SMTT(60)
  <3> QED
    BY <3>1, <3>2, <3>3, Zenon
<1>10. settings.maxInstances > 0 => settings.maxInstances >= least
  BY <1>3, <1>7, Zenon
<1>11. clampDesired(desired) >= least
  <3> HIDE DEF desired
  <3> QED
    BY <1>1, <1>7, <1>9, <1>10, ClampKeeps, Zenon
<1> QED
  BY <1>8, <1>11, ZenonT(60) DEF least, smoothed, wanted, up, ready

----------------------------------------------------------------------------
(* The laws that the lemmas assume, and the theorems that rest on them.    *)

INSTANCE FiniteSetTheorems

\* The laws of counting that the lemmas assume.
LEMMA Counting == CountingLaws
<1>1. IsFiniteSet({}) /\ Cardinality({}) = 0
  BY FS_EmptySet, Zenon
<1>2. ASSUME NEW S, IsFiniteSet(S)
      PROVE  Cardinality(S) \in Nat /\ (Cardinality(S) = 0 <=> S = {})
  BY <1>2, FS_CardinalityType, FS_EmptySet, Zenon
<1>3. ASSUME NEW S, IsFiniteSet(S), NEW T \in SUBSET S
      PROVE  IsFiniteSet(T) /\ Cardinality(T) <= Cardinality(S)
  BY <1>3, FS_Subset, Zenon
<1>4. ASSUME NEW S, IsFiniteSet(S), NEW x, x \notin S
      PROVE  IsFiniteSet(S \cup {x}) /\ Cardinality(S \cup {x}) = Cardinality(S) + 1
  BY <1>4, FS_AddElement, Zenon
<1>5. ASSUME NEW S, IsFiniteSet(S), NEW x \in S
      PROVE  Cardinality(S \ {x}) = Cardinality(S) - 1
  BY <1>5, FS_RemoveElement, Zenon
<1> QED
  BY <1>1, <1>2, <1>3, <1>4, <1>5, Zenon DEF CountingLaws

\* Every non-empty set of natural numbers has a least element.
LEMMA Least == LeastLaw
<1> SUFFICES ASSUME NEW T \in SUBSET Nat, T # {}
             PROVE  \E x \in T : \A y \in T : x <= y
  BY Zenon DEF LeastLaw
<1>1. PICK x \in T : \A y \in T : ~(<<y, x>> \in OpToRel(<, Nat))
  BY NatLessThanWellFounded, WFMin, Zenon
<1>2. \A y \in T : ~(y < x)
  <2> SUFFICES ASSUME NEW y \in T, y < x PROVE FALSE
    BY Zenon
  <2>1. <<y, x>> \in Nat \X Nat
    BY Zenon
  <2>2. <<y, x>> \in OpToRel(<, Nat)
    BY <2>1, Zenon DEF OpToRel
  <2> QED
    BY <1>1, <2>2, Zenon
<1> QED
  BY <1>2

\* No start token of any kind is lost or returned twice, and no worker is
\* believed to have fewer instances than the actuator tracks, for any number of
\* starters, workers and slots (scheduleBalanced, scheduleSnapshot,
\* completeReservation, RecordStop).
THEOREM TokensKept == Spec => []TokensConserved
<1>1. Init => TokenInv
  BY InitTokens, Counting, Zenon
<1>2. TokenInv /\ [Next]_vars => TokenInv'
  BY TokenStep, Counting, Zenon
<1>3. TokenInv => TokensConserved
  BY TokensAddUp, Counting, Zenon
<1> QED
  BY <1>1, <1>2, <1>3, PTL DEF Spec

\* The averages of both windows are over exactly the newest samples, for every
\* configuration and every sequence of decisions: walking back from the head
\* through the wrapped buckets meets them newest first (record, average).
THEOREM AveragesNewest == ScaleSpec => []WindowExact
<1>1. ScaleInv => WindowExact
  BY NewestAveraged, Least, Zenon
<1>2. ScaleInv /\ [ScaleNext]_scaleVars => ScaleInv'
  BY ScaleStep, Least, ZenonT(60)
<1> QED
  BY ScaleInitHolds, <1>1, <1>2, PTL DEF ScaleSpec

\* No decision hides demand behind its averages, whatever the configuration and
\* whatever samples it has seen: the floor desiredInstant holds in panic and
\* out of it, and the bounds of the function come last (DesiredScale,
\* dirigentDesired).
THEOREM DemandIsCovered == ScaleSpec => []CoversDemand
<1>1. ScaleInv => CoversDemand
  BY DemandKept, Least, Zenon
<1>2. ScaleInv /\ [ScaleNext]_scaleVars => ScaleInv'
  BY ScaleStep, Least, Zenon
<1> QED
  BY ScaleInitHolds, <1>1, <1>2, PTL DEF ScaleSpec
=============================================================================
