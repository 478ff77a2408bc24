-------------------------- MODULE SandboxPoolProofs --------------------------
(***************************************************************************)
(* The safety properties of SandboxPool hold for every set of sandboxes,   *)
(* requests and drains and every limit and queue depth: IInv is inductive, *)
(* and every invariant follows from it.  Each part of IInv has a lemma     *)
(* with one step per action that can disturb it.  With it come the         *)
(* properties of the signals (PoolSignals): the high-water mark covers the *)
(* demand, and no wake-up of the reconcile loop is lost.                   *)
(***************************************************************************)
EXTENDS PoolSignals, Counting, TLAPS

----------------------------------------------------------------------------
(* Lists without repetitions, as the pool uses container/list: what        *)
(* appending, taking the front and unlinking do to the set of elements.    *)
(* The facts leave Range and IsInjective folded, so that the proofs that   *)
(* cite them reason about sets only.                                       *)

\* The elements of a sequence are the values at the positions 1 to Len.
LEMMA RangeByIndex ==
    ASSUME NEW S, NEW q \in Seq(S)
    PROVE  Range(q) = {q[i] : i \in 1 .. Len(q)}
BY DEF Range

\* The elements of a list over S are in S.
LEMMA RangeInSet ==
    ASSUME NEW S, NEW q \in Seq(S)
    PROVE  Range(q) \subseteq S
<1>1. \A i \in 1 .. Len(q) : q[i] \in S
  OBVIOUS
<1> QED
  BY <1>1, RangeByIndex

\* A sequence has no repetition iff equal values sit at equal positions.
LEMMA InjectiveByIndex ==
    ASSUME NEW S, NEW q \in Seq(S)
    PROVE  IsInjective(q) <=> \A i, j \in 1 .. Len(q) : q[i] = q[j] => i = j
BY DEF IsInjective

\* PushBack of an element that is not in the list.
LEMMA AppendList ==
    ASSUME NEW S, NEW q \in Seq(S), NEW e \in S,
           IsInjective(q), e \notin Range(q)
    PROVE  /\ Append(q, e) \in Seq(S)
           /\ Append(q, e) # <<>>
           /\ IsInjective(Append(q, e))
           /\ Range(Append(q, e)) = Range(q) \cup {e}
<1> DEFINE p == Append(q, e)
<1>1. p \in Seq(S) /\ Len(p) = Len(q) + 1 /\ p # <<>> /\ Len(q) \in Nat
  OBVIOUS
<1>2. \A i \in 1 .. Len(q) : p[i] = q[i]
  OBVIOUS
<1>3. p[Len(q) + 1] = e
  OBVIOUS
<1>4. \A i \in 1 .. Len(q) : q[i] # e
  BY RangeByIndex, Zenon
<1> HIDE DEF p
<1>5. IsInjective(p)
  BY <1>1, <1>2, <1>3, <1>4, InjectiveByIndex
<1>6. Range(p) = Range(q) \cup {e}
  BY <1>1, <1>2, <1>3, RangeByIndex
<1> QED
  BY <1>1, <1>5, <1>6, Zenon DEF p

\* Taking the front of a list.
LEMMA TailList ==
    ASSUME NEW S, NEW q \in Seq(S), q # <<>>, IsInjective(q)
    PROVE  /\ Head(q) \in S
           /\ Head(q) \in Range(q)
           /\ Tail(q) \in Seq(S)
           /\ IsInjective(Tail(q))
           /\ Range(Tail(q)) = Range(q) \ {Head(q)}
<1> DEFINE p == Tail(q)
<1>1. p \in Seq(S) /\ Len(p) = Len(q) - 1 /\ Len(q) \in Nat \ {0}
  OBVIOUS
<1>2. \A i \in 1 .. Len(p) : p[i] = q[i + 1]
  OBVIOUS
<1>3. Head(q) = q[1]
  OBVIOUS
<1> HIDE DEF p
<1>4. IsInjective(p)
  BY <1>1, <1>2, InjectiveByIndex
<1>5. \A x \in Range(p) : x \in Range(q) /\ x # q[1]
  <2> SUFFICES ASSUME NEW i \in 1 .. Len(p)
               PROVE  p[i] \in Range(q) /\ p[i] # q[1]
    BY <1>1, RangeByIndex
  <2>1. i + 1 \in 1 .. Len(q) /\ 1 \in 1 .. Len(q) /\ i + 1 # 1
    BY <1>1
  <2>2. q[i + 1] \in Range(q)
    BY <2>1, RangeByIndex, Zenon
  <2>3. q[i + 1] # q[1]
    BY <2>1, InjectiveByIndex, Zenon
  <2> QED
    BY <2>2, <2>3, <1>2, Zenon
<1>6. \A x \in Range(q) : x # q[1] => x \in Range(p)
  <2> SUFFICES ASSUME NEW i \in 1 .. Len(q), q[i] # q[1]
               PROVE  q[i] \in Range(p)
    BY RangeByIndex
  <2>1. i - 1 \in 1 .. Len(p) /\ (i - 1) + 1 = i
    BY <1>1
  <2>2. p[i - 1] = q[i]
    BY <2>1, <1>2, Zenon
  <2> QED
    BY <2>1, <2>2, <1>1, RangeByIndex, ZenonT(60)
<1>7. q[1] \in S /\ q[1] \in Range(q)
  BY <1>1, RangeByIndex
<1>8. Range(p) = Range(q) \ {q[1]}
  BY <1>5, <1>6, Zenon
<1> QED
  BY <1>1, <1>3, <1>4, <1>7, <1>8, Zenon DEF p

\* MoveToBack of the front element.
LEMMA MoveToBackList ==
    ASSUME NEW S, NEW q \in Seq(S), q # <<>>, IsInjective(q)
    PROVE  /\ Append(Tail(q), Head(q)) \in Seq(S)
           /\ IsInjective(Append(Tail(q), Head(q)))
           /\ Range(Append(Tail(q), Head(q))) = Range(q)
<1> DEFINE h == Head(q)
           t == Tail(q)
<1>1. /\ h \in S /\ h \in Range(q) /\ t \in Seq(S) /\ IsInjective(t)
      /\ Range(t) = Range(q) \ {h}
  BY TailList, Zenon
<1> HIDE DEF h, t
<1>2. h \notin Range(t)
  BY <1>1, Zenon
<1>3. /\ Append(t, h) \in Seq(S) /\ IsInjective(Append(t, h))
      /\ Range(Append(t, h)) = Range(t) \cup {h}
  BY <1>1, <1>2, AppendList
<1> QED
  BY <1>1, <1>3, Zenon DEF h, t

\* The empty list.
LEMMA EmptyList ==
    ASSUME NEW S
    PROVE  /\ <<>> \in Seq(S)
           /\ IsInjective(<<>>)
           /\ Range(<<>>) = {}
           /\ \A q \in Seq(S) : q # <<>> <=> Range(q) # {}
<1>1. <<>> \in Seq(S) /\ Len(<<>>) = 0
  OBVIOUS
<1>2. \A q \in Seq(S) : q # <<>> => Range(q) # {}
  <2> SUFFICES ASSUME NEW q \in Seq(S), q # <<>> PROVE Range(q) # {}
    BY Zenon
  <2>1. Len(q) \in Nat \ {0}
    OBVIOUS
  <2>2. q[1] \in Range(q)
    BY <2>1, RangeByIndex
  <2> QED
    BY <2>2, Zenon
<1>3. IsInjective(<<>>) /\ Range(<<>>) = {}
  BY DEF IsInjective, Range
<1> QED
  BY <1>1, <1>2, <1>3, Zenon

\* One sequence after another.
LEMMA ConcatList ==
    ASSUME NEW S, NEW a \in Seq(S), NEW b \in Seq(S)
    PROVE  /\ a \o b \in Seq(S) /\ Len(a \o b) = Len(a) + Len(b)
           /\ \A i \in 1 .. Len(a) + Len(b) :
                (a \o b)[i] = IF i <= Len(a) THEN a[i] ELSE b[i - Len(a)]
<1>1. a \o b \in Seq(S) /\ Len(a \o b) = Len(a) + Len(b)
  OBVIOUS
<1>2. ASSUME NEW i \in 1 .. Len(a) + Len(b)
      PROVE  (a \o b)[i] = IF i <= Len(a) THEN a[i] ELSE b[i - Len(a)]
  OBVIOUS
<1> QED
  BY <1>1, <1>2, Zenon

\* Unlinking an element: the others stay, in their order.
LEMMA UnlinkList ==
    ASSUME NEW S, NEW q \in Seq(S), NEW e, IsInjective(q)
    PROVE  /\ Unlink(q, e) \in Seq(S)
           /\ IsInjective(Unlink(q, e))
           /\ Range(Unlink(q, e)) = Range(q) \ {e}
<1>1. CASE e \notin Range(q)
  <2>1. Unlink(q, e) = q
    BY <1>1, Zenon DEF Unlink
  <2> QED
    BY <1>1, <2>1, Zenon
<1>2. CASE e \in Range(q)
  <2>1. Len(q) \in Nat /\ \A i \in 1 .. Len(q) : q[i] \in S
    OBVIOUS
  <2>2. PICK k \in 1 .. Len(q) : q[k] = e
    BY <1>2, RangeByIndex, Zenon
  <2>3. \A i \in 1 .. Len(q) : q[i] = e => i = k
    BY <2>2, InjectiveByIndex, Zenon
  <2>4. PositionOf(q, e) = k
    BY <2>2, <2>3, Zenon DEF PositionOf
  <2> DEFINE a == SubSeq(q, 1, k - 1)
             b == SubSeq(q, k + 1, Len(q))
             p == a \o b
  <2>6. /\ a \in Seq(S) /\ Len(a) = k - 1
        /\ \A i \in 1 .. k - 1 : a[i] = q[i]
    <3>1. k - 1 \in Int /\ \A i \in 1 .. k - 1 : q[i] \in S
      BY <2>1
    <3> QED
      BY <2>1, <3>1
  <2>7. /\ b \in Seq(S) /\ Len(b) = Len(q) - k
        /\ \A i \in 1 .. Len(q) - k : b[i] = q[k + i]
    <3>1. k + 1 \in Int /\ \A i \in k + 1 .. Len(q) : q[i] \in S
      BY <2>1
    <3>2. /\ b \in Seq(S)
          /\ Len(b) = IF k + 1 <= Len(q) THEN Len(q) - (k + 1) + 1 ELSE 0
          /\ \A i \in 1 .. Len(q) - (k + 1) + 1 : b[i] = q[(k + 1) + i - 1]
      BY <2>1, <3>1
    <3> QED
      BY <2>1, <3>2
  <2> HIDE DEF a, b
  <2>8. /\ p \in Seq(S) /\ Len(p) = Len(q) - 1
        /\ \A i \in 1 .. Len(q) - 1 : p[i] = IF i < k THEN q[i] ELSE q[i + 1]
    <3>1. /\ p \in Seq(S) /\ Len(p) = Len(a) + Len(b)
          /\ \A i \in 1 .. Len(a) + Len(b) :
                 p[i] = IF i <= Len(a) THEN a[i] ELSE b[i - Len(a)]
      BY <2>6, <2>7, ConcatList, Zenon
    <3>2. ASSUME NEW i \in 1 .. Len(q) - 1
          PROVE  p[i] = IF i < k THEN q[i] ELSE q[i + 1]
      <4>1. CASE i < k
        BY <2>1, <2>6, <2>7, <3>1, <4>1
      <4>2. CASE ~(i < k)
        <5>1. /\ i \in 1 .. Len(a) + Len(b) /\ ~(i <= Len(a))
              /\ i - (k - 1) \in 1 .. Len(q) - k
              /\ k + (i - (k - 1)) = i + 1
          BY <2>1, <2>6, <2>7, <4>2
        <5>2. p[i] = b[i - (k - 1)]
          BY <5>1, <3>1, <2>6, Zenon
        <5> QED
          BY <5>1, <5>2, <2>7, <4>2, Zenon
      <4> QED
        BY <4>1, <4>2, Zenon
    <3> QED
      BY <2>1, <2>6, <2>7, <3>1, <3>2
  <2>9. p = Unlink(q, e)
    BY <1>2, <2>4, Zenon DEF Unlink, WithoutPosition, a, b
  <2> HIDE DEF p
  <2>10. IsInjective(p)
    <3> SUFFICES ASSUME NEW i \in 1 .. Len(p), NEW j \in 1 .. Len(p), p[i] = p[j]
                 PROVE  i = j
      BY <2>8, InjectiveByIndex, Zenon
    <3> DEFINE f(x) == IF x < k THEN x ELSE x + 1
    <3>1. /\ f(i) \in 1 .. Len(q) /\ p[i] = q[f(i)]
          /\ f(j) \in 1 .. Len(q) /\ p[j] = q[f(j)]
      BY <2>1, <2>8
    <3>2. f(i) = f(j)
      BY <3>1, InjectiveByIndex, Zenon
    <3> QED
      BY <3>2, <2>1, <2>8
  <2>11. \A x \in Range(p) : x \in Range(q) /\ x # e
    <3> SUFFICES ASSUME NEW i \in 1 .. Len(p)
                 PROVE  p[i] \in Range(q) /\ p[i] # e
      BY <2>8, RangeByIndex
    <3> DEFINE j == IF i < k THEN i ELSE i + 1
    <3>1. j \in 1 .. Len(q) /\ p[i] = q[j] /\ j # k
      BY <2>1, <2>8
    <3> HIDE DEF j
    <3>2. q[j] # q[k]
      BY <3>1, InjectiveByIndex, Zenon
    <3> QED
      BY <3>1, <3>2, <2>2, RangeByIndex, Zenon
  <2>12. \A x \in Range(q) : x # e => x \in Range(p)
    <3> SUFFICES ASSUME NEW i \in 1 .. Len(q), q[i] # e
                 PROVE  q[i] \in Range(p)
      BY RangeByIndex
    <3> DEFINE j == IF i < k THEN i ELSE i - 1
    <3>1. i # k
      BY <2>2, Zenon
    <3>2. j \in 1 .. Len(p) /\ p[j] = q[i]
      BY <2>1, <2>8, <3>1
    <3> HIDE DEF j
    <3> QED
      BY <3>2, <2>8, RangeByIndex, Zenon
  <2> QED
    BY <2>8, <2>9, <2>10, <2>11, <2>12, Zenon
<1> QED
  BY <1>1, <1>2, Zenon

-----------------------------------------------------------------------------
(* What the operations on the ready list do *)

\* removeReadyLocked clears the sandbox's flag and keeps list and flags in step.
LEMMA RemoveReadyList ==
    ASSUME TypeOK, ListInv, NEW s \in Sandbox, RemoveReady(s), closed' = closed
    PROVE  /\ ready' \in Seq(Sandbox)
           /\ onReady' = [onReady EXCEPT ![s] = FALSE]
           /\ ListInv'
<1>1. CASE onReady[s]
  <2>1. /\ ready' \in Seq(Sandbox) /\ IsInjective(ready')
        /\ Range(ready') = Range(ready) \ {s}
    BY <1>1, UnlinkList DEF TypeOK, ListInv, RemoveReady
  <2>2. onReady' = [onReady EXCEPT ![s] = FALSE]
    BY <1>1, Zenon DEF RemoveReady
  <2>3. Range(ready) \subseteq Sandbox
    BY RangeInSet, Zenon DEF TypeOK
  <2> QED
    BY <2>1, <2>2, <2>3 DEF TypeOK, ListInv
<1>2. CASE ~onReady[s]
  BY <1>2 DEF TypeOK, ListInv, RemoveReady, listVars
<1> QED
  BY <1>1, <1>2, Zenon

\* refreshReadyLocked sets the sandbox's flag to its availability.
LEMMA RefreshReadyList ==
    ASSUME TypeOK, ListInv, NEW s \in Sandbox, NEW a \in BOOLEAN,
           RefreshReady(s, a), closed' = closed
    PROVE  /\ ready' \in Seq(Sandbox)
           /\ onReady' = [onReady EXCEPT ![s] = a]
           /\ ListInv'
<1>1. CASE a /\ onReady[s]
  <2>1. ready' = ready /\ onReady' = [onReady EXCEPT ![s] = TRUE]
    BY <1>1, Zenon DEF RefreshReady
  <2>2. onReady' = onReady /\ onReady' = [onReady EXCEPT ![s] = a]
    BY <1>1, <2>1, Zenon DEF TypeOK
  <2> QED
    BY <2>1, <2>2, Zenon DEF TypeOK, ListInv
<1>2. CASE a /\ ~onReady[s]
  <2>1. s \notin Range(ready)
    BY <1>2, Zenon DEF ListInv
  <2>a. ready' = Append(ready, s)
    BY <1>2, Zenon DEF RefreshReady
  <2>2. /\ ready' \in Seq(Sandbox) /\ IsInjective(ready')
        /\ Range(ready') = Range(ready) \cup {s}
    BY <2>1, <2>a, AppendList DEF TypeOK, ListInv
  <2>3. onReady' = [onReady EXCEPT ![s] = TRUE]
    BY <1>2, Zenon DEF RefreshReady
  <2>4. Range(ready) \subseteq Sandbox
    BY RangeInSet, Zenon DEF TypeOK
  <2> QED
    BY <1>2, <2>2, <2>3, <2>4 DEF TypeOK, ListInv
<1>3. CASE ~a
  <2>1. RemoveReady(s)
    BY <1>3, Zenon DEF RefreshReady
  <2> QED
    BY <1>3, <2>1, RemoveReadyList, Zenon
<1> QED
  BY <1>1, <1>2, <1>3, Zenon

\* acquireLocked takes the front sandbox, which keeps its flag if it has room.
LEMMA AcquireLockedList ==
    ASSUME TypeOK, ListInv, NEW r \in Request, ready # <<>>,
           AcquireLocked(r), closed' = closed
    PROVE  /\ Head(ready) \in Sandbox /\ onReady[Head(ready)]
           /\ ready' \in Seq(Sandbox)
           /\ onReady' = [onReady EXCEPT ![Head(ready)] = inFlight[Head(ready)] + 1 < limit]
           /\ ListInv'
<1> DEFINE s == Head(ready)
           n == inFlight[s] + 1
<1>1. /\ s \in Sandbox /\ s \in Range(ready)
      /\ Tail(ready) \in Seq(Sandbox) /\ IsInjective(Tail(ready))
      /\ Range(Tail(ready)) = Range(ready) \ {s}
  BY TailList, Zenon DEF TypeOK, ListInv
<1>2. onReady[s]
  BY <1>1, Zenon DEF ListInv
<1>3. onReady' = [onReady EXCEPT ![s] = n < limit]
  BY Zenon DEF AcquireLocked
<1>4. n \in Int /\ limit \in Int
  BY <1>1 DEF TypeOK
<1>5. Range(ready) \subseteq Sandbox
  BY RangeInSet, Zenon DEF TypeOK
<1>6. CASE n >= limit
  <2>1. ready' = Tail(ready)
    BY <1>6, Zenon DEF AcquireLocked
  <2>2. (n < limit) = FALSE
    BY <1>4, <1>6
  <2>3. onReady' = [onReady EXCEPT ![s] = FALSE]
    BY <1>3, <2>2, Zenon
  <2> QED
    BY <1>1, <1>2, <1>3, <1>5, <2>1, <2>3 DEF TypeOK, ListInv
<1>7. CASE ~(n >= limit)
  <2>1. ready' = Append(Tail(ready), s)
    BY <1>7, Zenon DEF AcquireLocked
  <2>2. (n < limit) = TRUE
    BY <1>4, <1>7
  <2>3. onReady' = [onReady EXCEPT ![s] = TRUE]
    BY <1>3, <2>2, Zenon
  <2>4. /\ ready' \in Seq(Sandbox) /\ IsInjective(ready')
        /\ Range(ready') = Range(ready)
    BY <2>1, MoveToBackList, Zenon DEF TypeOK, ListInv
  <2> QED
    BY <1>1, <1>2, <1>3, <1>5, <2>3, <2>4, ZenonT(60) DEF TypeOK, ListInv
<1> QED
  BY <1>6, <1>7, Zenon

-----------------------------------------------------------------------------
(* Facts the steps below share *)

\* The front of the queue, while dispatchLocked runs.
LEMMA QueueFront ==
    ASSUME IInv, mu = "dispatch"
    PROVE  /\ pending # <<>> /\ Head(pending) \in Request
           /\ call[Head(pending)] = "queued" /\ slot[Head(pending)] = NoSandbox
           /\ Tail(pending) \in Seq(Request) /\ IsInjective(Tail(pending))
           /\ Range(Tail(pending)) = Range(pending) \ {Head(pending)}
<1>1. pending # <<>> /\ pending \in Seq(Request) /\ IsInjective(pending)
  BY Zenon DEF IInv, LoopInv, TypeOK, QueueExact
<1>2. /\ Head(pending) \in Request /\ Head(pending) \in Range(pending)
      /\ Tail(pending) \in Seq(Request) /\ IsInjective(Tail(pending))
      /\ Range(Tail(pending)) = Range(pending) \ {Head(pending)}
  BY <1>1, TailList, Zenon
<1>3. call[Head(pending)] = "queued" /\ slot[Head(pending)] = NoSandbox
  BY <1>2, Zenon DEF IInv, QueueExact
<1> QED
  BY <1>1, <1>2, <1>3, Zenon

\* A call that releases has a sandbox.
LEMMA ReleaseHasSandbox ==
    ASSUME IInv, NEW r \in Request, Release(r)
    PROVE  slot[r] \in Sandbox
BY Zenon DEF IInv, TypeOK, LeaseInv, Release

\* A Drain that ends has a draining victim.
LEMMA DrainHasVictim ==
    ASSUME IInv, NEW d \in Drainer, drain[d] \in {"waiting", "stopping"}
    PROVE  victim[d] \in Sandbox /\ draining[victim[d]]
BY Zenon DEF IInv, DrainInv

\* Availability is a truth value.
LEMMA AvailableBoolean ==
    ASSUME TypeOK, NEW s \in Sandbox
    PROVE  Available(s) \in BOOLEAN
BY Zenon DEF Available

-----------------------------------------------------------------------------
(* The parts of the inductive invariant *)

\* The ready list stays a list of sandboxes that agrees with their flags.
LEMMA ListStep ==
    ASSUME IInv, [Next]_vars
    PROVE  /\ ready' \in Seq(Sandbox) /\ onReady' \in [Sandbox -> BOOLEAN]
           /\ ListInv'
<1> DEFINE Goal == /\ ready' \in Seq(Sandbox) /\ onReady' \in [Sandbox -> BOOLEAN]
                   /\ ListInv'
<1>0. TypeOK /\ ListInv /\ onReady \in [Sandbox -> BOOLEAN] /\ ready \in Seq(Sandbox)
  BY Zenon DEF IInv, TypeOK
<1>1. ASSUME UNCHANGED <<ready, onReady, closed>> PROVE Goal
  BY <1>0, <1>1, Zenon DEF ListInv
<1>2. ASSUME NEW r \in Request, ready # <<>>, AcquireLocked(r), closed' = closed
      PROVE  Goal
  <2>1. (inFlight[Head(ready)] + 1 < limit) \in BOOLEAN
    OBVIOUS
  <2> QED
    BY <1>0, <1>2, <2>1, AcquireLockedList, Zenon
<1>3. ASSUME NEW s \in Sandbox, NEW a \in BOOLEAN, RefreshReady(s, a), closed' = closed
      PROVE  Goal
  BY <1>0, <1>3, RefreshReadyList, Zenon
<1>4. ASSUME NEW s \in Sandbox, RemoveReady(s), closed' = closed
      PROVE  Goal
  BY <1>0, <1>4, RemoveReadyList, Zenon
<1> HIDE DEF Goal
<1>5. ASSUME NEW r \in Request, Release(r) PROVE Goal
  <2>1. slot[r] \in Sandbox
    BY <1>5, ReleaseHasSandbox, Zenon
  <2>2. CASE UNCHANGED listVars
    BY <1>1, <1>5, <2>2, Zenon DEF Release, listVars, confVars
  <2>3. CASE RefreshReady(slot[r], inFlight[slot[r]] - 1 < limit)
    <3> DEFINE a == inFlight[slot[r]] - 1 < limit
    <3>1. a \in BOOLEAN /\ RefreshReady(slot[r], a) /\ closed' = closed
      BY <1>5, <2>3 DEF Release, confVars
    <3> HIDE DEF a
    <3> QED
      BY <1>3, <2>1, <3>1, Zenon
  <2> QED
    BY <1>5, <2>2, <2>3, Zenon DEF Release, ReleaseSlot
<1>6. ASSUME DispatchGrant PROVE Goal
  BY <1>2, <1>6, QueueFront, Zenon DEF DispatchGrant, confVars
<1>7. ASSUME NEW r \in Request, AcquireDirect(r) PROVE Goal
  BY <1>2, <1>7, Zenon DEF AcquireDirect, confVars
<1>8. ASSUME NEW s \in Sandbox, ConfigureStep(s) \/ AddNew(s) \/ AddExisting(s) \/ SyncAdd(s)
      PROVE  Goal
  BY <1>0, <1>3, <1>8, AvailableBoolean, Zenon
     DEF ConfigureStep, AddNew, AddExisting, SyncAdd, confVars
<1>9. ASSUME NEW s \in Sandbox, SyncDrop(s) \/ RemoveSandbox(s) PROVE Goal
  BY <1>4, <1>9, Zenon DEF SyncDrop, RemoveSandbox, confVars
<1>10. ASSUME NEW d \in Drainer, NEW s \in Sandbox, DrainBegin(d, s) PROVE Goal
  BY <1>4, <1>10, Zenon DEF DrainBegin, confVars
<1>11. ASSUME NEW d \in Drainer, DrainUndo(d) PROVE Goal
  <2>1. victim[d] \in Sandbox
    BY <1>11, DrainHasVictim, Zenon DEF DrainUndo
  <2>2. CASE UNCHANGED listVars
    BY <1>1, <1>11, <2>2, Zenon DEF DrainUndo, listVars, confVars
  <2>3. CASE RefreshReady(victim[d], inFlight[victim[d]] < limit)
    <3> DEFINE a == inFlight[victim[d]] < limit
    <3>1. a \in BOOLEAN /\ RefreshReady(victim[d], a) /\ closed' = closed
      BY <1>11, <2>3 DEF DrainUndo, confVars
    <3> HIDE DEF a
    <3> QED
      BY <1>3, <2>1, <3>1, Zenon
  <2> QED
    BY <1>11, <2>2, <2>3, Zenon DEF DrainUndo
<1>12. ASSUME Close PROVE Goal
  BY <1>0, <1>12, EmptyList, Zenon DEF Close, ListInv, Goal
<1>13. ASSUME NEW r \in Request,
              AcquireRefused(r) \/ AcquireQueued(r) \/ ReceiveResult(r)
                \/ CancelQueued(r) \/ Expire(r)
       PROVE  Goal
  BY <1>1, <1>13, Zenon
     DEF AcquireRefused, AcquireQueued, ReceiveResult, CancelQueued, Expire, listVars, confVars
<1>14. ASSUME \/ DispatchExpired \/ DispatchDone \/ ConfigureEnd \/ SyncDropped \/ SyncEnd
              \/ \E l \in Limits, k \in Depths : ConfigureBegin(l, k)
              \/ \E targets \in SyncTargets : SyncBegin(targets)
       PROVE  Goal
  BY <1>1, <1>14, Zenon
     DEF DispatchExpired, DispatchDone, ConfigureEnd, SyncDropped, SyncEnd,
         ConfigureBegin, SyncBegin, listVars, confVars
<1>15. ASSUME NEW d \in Drainer,
              (\E i \in ID : DrainRefused(d, i)) \/ DrainComplete(d) \/ DrainFinish(d)
       PROVE  Goal
  BY <1>1, <1>15, Zenon DEF DrainRefused, DrainComplete, DrainFinish, listVars, confVars
<1>16. CASE UNCHANGED vars
  BY <1>0, <1>16, Zenon DEF vars, ListInv, Goal
<1> QED
  BY <1>5, <1>6, <1>7, <1>8, <1>9, <1>10, <1>11, <1>12, <1>13, <1>14, <1>15, <1>16, Zenon
     DEF Next, Acquire, Dispatch, Configure, Sync, Drain, Goal

\* An object stored under its own ID, or a deleted entry, keeps the map's type.
LEMMA MapTyped ==
    ASSUME TypeOK, NEW s \in Sandbox
    PROVE  /\ IDOf[s] \in ID
           /\ [sandboxes EXCEPT ![IDOf[s]] = s] \in [ID -> Sandbox \cup {NoSandbox}]
           /\ [sandboxes EXCEPT ![IDOf[s]] = NoSandbox] \in [ID -> Sandbox \cup {NoSandbox}]
<1>1. IDOf[s] \in ID
  BY PoolAssumption, Zenon
<1>2. sandboxes \in [ID -> Sandbox \cup {NoSandbox}]
  BY Zenon DEF TypeOK
<1> QED
  BY <1>1, <1>2, Zenon

\* Every step keeps the types; the ready list is ListStep's.
LEMMA TypeStep ==
    ASSUME IInv, [Next]_vars
    PROVE  TypeOK'
<1>0. TypeOK /\ ready' \in Seq(Sandbox) /\ onReady' \in [Sandbox -> BOOLEAN]
  BY ListStep, Zenon DEF IInv
<1>1. ASSUME NEW r \in Request,
             AcquireRefused(r) \/ ReceiveResult(r) \/ Expire(r)
      PROVE  TypeOK'
  BY <1>0, <1>1, ZenonT(60)
     DEF AcquireRefused, ReceiveResult, Expire, TypeOK, lockVars, confVars, mapVars,
         listVars, slotVars, drainVars
<1>2. ASSUME NEW r \in Request, AcquireDirect(r) PROVE TypeOK'
  <2>1. Head(ready) \in Sandbox
    BY <1>2, TailList, Zenon DEF IInv, TypeOK, ListInv, AcquireDirect
  <2> QED
    BY <1>0, <1>2, <2>1
       DEF AcquireDirect, AcquireLocked, TypeOK, lockVars, confVars, mapVars, drainVars
<1>3. ASSUME NEW r \in Request, AcquireQueued(r) PROVE TypeOK'
  <2>1. pending' \in Seq(Request)
    BY <1>0, <1>3 DEF AcquireQueued, TypeOK
  <2> QED
    BY <1>0, <1>3, <2>1, Zenon
       DEF AcquireQueued, TypeOK, lockVars, confVars, mapVars, listVars, slotVars, drainVars
<1>4. ASSUME NEW r \in Request, CancelQueued(r) PROVE TypeOK'
  <2>1. pending' \in Seq(Request)
    BY <1>4, UnlinkList, Zenon DEF CancelQueued, IInv, TypeOK, QueueExact
  <2> QED
    BY <1>0, <1>4, <2>1, Zenon
       DEF CancelQueued, TypeOK, lockVars, confVars, mapVars, listVars, slotVars, drainVars
<1>5. ASSUME NEW r \in Request, Release(r) PROVE TypeOK'
  <2>1. slot[r] \in Sandbox
    BY <1>5, ReleaseHasSandbox, Zenon
  <2>2. mu' \in {"free", "configure", "drop", "add", "dispatch"} /\ todo' = todo
    BY <1>0, <1>5, Zenon DEF Release, ReleaseSlot, EnterDispatch, TypeOK, lockVars
  <2>3. drained' \in [Sandbox -> {"nil", "open", "closed"}]
    BY <1>0, <1>5, <2>1, Zenon DEF Release, ReleaseSlot, TypeOK
  <2> QED
    BY <1>0, <1>5, <2>1, <2>2, <2>3
       DEF Release, ReleaseSlot, TypeOK, confVars, mapVars
<1>6. ASSUME Dispatch PROVE TypeOK'
  <2>1. mu = "dispatch"
    BY <1>6, Zenon DEF Dispatch, DispatchExpired, DispatchGrant, DispatchDone
  <2>2. Head(pending) \in Request /\ Tail(pending) \in Seq(Request)
    BY <2>1, QueueFront, Zenon
  <2>3. CASE DispatchExpired
    BY <1>0, <2>2, <2>3, Zenon
       DEF DispatchExpired, EnterDispatch, TypeOK, confVars, mapVars, listVars,
           slotVars, drainVars
  <2>4. CASE DispatchGrant
    <3>1. Head(ready) \in Sandbox
      BY <2>4, TailList, Zenon DEF IInv, TypeOK, ListInv, DispatchGrant
    <3> QED
      BY <1>0, <2>2, <2>4, <3>1, SMTT(60)
         DEF DispatchGrant, AcquireLocked, EnterDispatch, TypeOK, confVars, mapVars, drainVars
  <2>5. CASE DispatchDone
    BY <1>0, <2>5, Zenon
       DEF DispatchDone, TypeOK, confVars, mapVars, listVars, slotVars, drainVars, callVars
  <2> QED
    BY <1>6, <2>3, <2>4, <2>5, Zenon DEF Dispatch
<1>7. ASSUME Configure PROVE TypeOK'
  <2>1. ASSUME NEW l \in Limits, NEW k \in Depths, ConfigureBegin(l, k) PROVE TypeOK'
    <3>1. limit' \in Nat \ {0} /\ queueDepth' \in Nat \ {0}
      BY <2>1, PoolAssumption DEF ConfigureBegin, NormalizeLimit, NormalizeDepth
    <3> QED
      BY <1>0, <2>1, <3>1, Zenon
         DEF ConfigureBegin, TypeOK, mapVars, listVars, slotVars, drainVars, callVars
  <2>2. ASSUME NEW s \in Sandbox, ConfigureStep(s) PROVE TypeOK'
    BY <1>0, <2>2, Zenon
       DEF ConfigureStep, TypeOK, confVars, mapVars, slotVars, drainVars, callVars
  <2>3. CASE ConfigureEnd
    BY <1>0, <2>3, Zenon
       DEF ConfigureEnd, EnterDispatch, TypeOK, confVars, mapVars, listVars, slotVars,
           drainVars, callVars
  <2> QED
    BY <1>7, <2>1, <2>2, <2>3, Zenon DEF Configure
<1>8. ASSUME NEW s \in Sandbox, AddNew(s) \/ AddExisting(s) \/ RemoveSandbox(s)
      PROVE  TypeOK'
  <2>1. sandboxes' \in [ID -> Sandbox \cup {NoSandbox}]
    BY <1>0, <1>8, MapTyped, ZenonT(60)
       DEF AddNew, AddExisting, RemoveSandbox, Insert, TypeOK, mapVars
  <2>2. allocated' \subseteq Sandbox /\ active' \in Int
    BY <1>0, <1>8, SMTT(60)
       DEF AddNew, AddExisting, RemoveSandbox, Insert, TypeOK, mapVars
  <2>3. mu' \in {"free", "configure", "drop", "add", "dispatch"} /\ todo' = todo
    BY <1>0, <1>8, Zenon
       DEF AddNew, AddExisting, RemoveSandbox, EnterDispatch, TypeOK, lockVars
  <2> QED
    BY <1>0, <1>8, <2>1, <2>2, <2>3, Zenon
       DEF AddNew, AddExisting, RemoveSandbox, TypeOK, confVars, slotVars, drainVars, callVars
<1>9. ASSUME Sync PROVE TypeOK'
  <2>1. ASSUME NEW targets \in SyncTargets, SyncBegin(targets) PROVE TypeOK'
    BY <1>0, <2>1, PoolAssumption, Zenon
       DEF SyncBegin, TypeOK, confVars, mapVars, listVars, slotVars, drainVars, callVars
  <2>2. ASSUME NEW s \in Sandbox, SyncDrop(s) \/ SyncAdd(s) PROVE TypeOK'
    <3>1. sandboxes' \in [ID -> Sandbox \cup {NoSandbox}]
      BY <1>0, <2>2, MapTyped, ZenonT(60) DEF SyncDrop, SyncAdd, Insert, TypeOK, mapVars
    <3>2. allocated' \subseteq Sandbox /\ active' \in Int
      BY <1>0, <2>2, SMTT(60) DEF SyncDrop, SyncAdd, Insert, TypeOK, mapVars
    <3>3. mu' = mu /\ todo' \subseteq Sandbox \cup ID
      BY <1>0, <2>2, Zenon DEF SyncDrop, SyncAdd, TypeOK, lockVars
    <3> QED
      BY <1>0, <2>2, <3>1, <3>2, <3>3, Zenon
         DEF SyncDrop, SyncAdd, TypeOK, confVars, slotVars, drainVars, callVars
  <2>3. CASE SyncDropped \/ SyncEnd
    BY <1>0, <2>3, ZenonT(60)
       DEF SyncDropped, SyncEnd, EnterDispatch, TypeOK, confVars, mapVars, listVars,
           slotVars, drainVars, callVars
  <2> QED
    BY <1>9, <2>1, <2>2, <2>3, Zenon DEF Sync
<1>10. ASSUME NEW d \in Drainer, Drain(d) PROVE TypeOK'
  <2>1. ASSUME NEW i \in ID, DrainRefused(d, i) PROVE TypeOK'
    BY <1>0, <2>1, Zenon
       DEF DrainRefused, TypeOK, lockVars, confVars, mapVars, listVars, slotVars, callVars
  <2>2. ASSUME NEW s \in Sandbox, DrainBegin(d, s) PROVE TypeOK'
    BY <1>0, <2>2, SMTT(60)
       DEF DrainBegin, TypeOK, lockVars, confVars, slotVars, callVars
  <2>3. CASE DrainComplete(d) \/ DrainFinish(d)
    BY <1>0, <2>3, ZenonT(60)
       DEF DrainComplete, DrainFinish, TypeOK, lockVars, confVars, mapVars, listVars,
           slotVars, callVars
  <2>4. CASE DrainUndo(d)
    <3>1. victim[d] \in Sandbox
      BY <2>4, DrainHasVictim, Zenon DEF DrainUndo
    <3>2. /\ mu' \in {"free", "configure", "drop", "add", "dispatch"} /\ todo' = todo
          /\ active' \in Int
      BY <1>0, <2>4 DEF DrainUndo, EnterDispatch, TypeOK, lockVars
    <3>3. draining' \in [Sandbox -> BOOLEAN]
      BY <1>0, <2>4, <3>1, Zenon DEF DrainUndo, TypeOK
    <3>4. drained' \in [Sandbox -> {"nil", "open", "closed"}]
      BY <1>0, <2>4, <3>1, Zenon DEF DrainUndo, TypeOK
    <3> QED
      BY <1>0, <2>4, <3>2, <3>3, <3>4, ZenonT(60) DEF DrainUndo, TypeOK, confVars, slotVars, callVars
  <2> QED
    BY <1>10, <2>1, <2>2, <2>3, <2>4, Zenon DEF Drain
<1>11. ASSUME Close PROVE TypeOK'
  <2>1. pending' \in Seq(Request)
    BY <1>11, EmptyList, Zenon DEF Close
  <2> QED
    BY <1>0, <1>11, <2>1, Zenon
       DEF Close, TypeOK, lockVars, mapVars, slotVars, drainVars
<1>12. CASE UNCHANGED vars
  BY <1>0, <1>12, Zenon DEF vars, TypeOK
<1> QED
  BY <1>1, <1>2, <1>3, <1>4, <1>5, <1>6, <1>7, <1>8, <1>9, <1>10, <1>11, <1>12, ZenonT(60)
     DEF Next, Acquire

\* The queue holds the waiting calls, and only granted calls have a slot.
LEMMA QueueStep ==
    ASSUME IInv, [Next]_vars
    PROVE  QueueExact' /\ LeaseInv'
<1> DEFINE Goal == QueueExact' /\ LeaseInv'
<1>0. /\ QueueExact /\ LeaseInv /\ pending \in Seq(Request)
      /\ call \in [Request -> {"idle", "queued", "answered", "held", "returned"}]
      /\ slot \in [Request -> Sandbox \cup {NoSandbox}]
  BY Zenon DEF IInv, TypeOK
<1>1. ASSUME pending' = pending, call' = call, slot' = slot PROVE Goal
  BY <1>0, <1>1, Zenon DEF QueueExact, LeaseInv
<1>2. ASSUME NEW r \in Request, AcquireRefused(r) PROVE Goal
  BY <1>0, <1>2, Zenon DEF AcquireRefused, QueueExact, LeaseInv, slotVars
<1>3. ASSUME NEW r \in Request, AcquireDirect(r) PROVE Goal
  <2>1. Head(ready) \in Sandbox
    BY <1>3, TailList, Zenon DEF IInv, TypeOK, ListInv, AcquireDirect
  <2>2. Head(ready) # NoSandbox
    BY <2>1, PoolAssumption, Zenon
  <2> QED
    BY <1>0, <1>3, <2>2, Zenon DEF AcquireDirect, AcquireLocked, QueueExact, LeaseInv
<1>4. ASSUME NEW r \in Request, AcquireQueued(r) PROVE Goal
  <2>1. r \notin Range(pending)
    BY <1>0, <1>4, Zenon DEF AcquireQueued, QueueExact
  <2>2. IsInjective(pending') /\ Range(pending') = Range(pending) \cup {r}
    BY <1>0, <1>4, <2>1, AppendList DEF AcquireQueued, QueueExact
  <2>3. call' = [call EXCEPT ![r] = "queued"] /\ slot' = slot /\ slot[r] = NoSandbox
    BY <1>0, <1>4, Zenon DEF AcquireQueued, QueueExact, slotVars
  <2> QED
    BY <1>0, <2>2, <2>3 DEF QueueExact, LeaseInv
<1>5. ASSUME NEW r \in Request, ReceiveResult(r) PROVE Goal
  BY <1>0, <1>5, Zenon DEF ReceiveResult, QueueExact, LeaseInv, slotVars
<1>6. ASSUME NEW r \in Request, CancelQueued(r) PROVE Goal
  <2>1. IsInjective(pending') /\ Range(pending') = Range(pending) \ {r}
    BY <1>0, <1>6, UnlinkList, Zenon DEF CancelQueued, QueueExact
  <2>2. call' = [call EXCEPT ![r] = "returned"] /\ slot' = slot /\ slot[r] = NoSandbox
    BY <1>0, <1>6, Zenon DEF CancelQueued, QueueExact, slotVars
  <2> QED
    BY <1>0, <2>1, <2>2, Zenon DEF QueueExact, LeaseInv
<1>7. ASSUME NEW r \in Request, Release(r) PROVE Goal
  <2>1. slot' = [slot EXCEPT ![r] = NoSandbox] /\ call[r] # "queued"
    BY <1>7, Zenon DEF Release, ReleaseSlot
  <2>2. pending' = pending /\ call' = [call EXCEPT ![r] = "returned"]
    BY <1>7, Zenon DEF Release
  <2> QED
    BY <1>0, <2>1, <2>2, Zenon DEF QueueExact, LeaseInv
<1>8. ASSUME DispatchExpired \/ DispatchGrant PROVE Goal
  <2> DEFINE r == Head(pending)
  <2>1. /\ r \in Request /\ call[r] = "queued" /\ slot[r] = NoSandbox
        /\ IsInjective(Tail(pending)) /\ Range(Tail(pending)) = Range(pending) \ {r}
    BY <1>8, QueueFront, Zenon DEF DispatchExpired, DispatchGrant
  <2>2. pending' = Tail(pending) /\ call' = [call EXCEPT ![r] = "answered"]
    BY <1>8, Zenon DEF DispatchExpired, DispatchGrant
  <2>3. \A q \in Request : q # r => slot'[q] = slot[q]
    BY <1>0, <1>8, Zenon DEF DispatchExpired, DispatchGrant, AcquireLocked, slotVars
  <2> HIDE DEF r
  <2> QED
    BY <1>0, <2>1, <2>2, <2>3, Zenon DEF QueueExact, LeaseInv
<1>9. ASSUME Close PROVE Goal
  <2>1. IsInjective(pending') /\ Range(pending') = {}
    BY <1>9, EmptyList, Zenon DEF Close
  <2> QED
    BY <1>0, <1>9, <2>1, Zenon DEF Close, QueueExact, LeaseInv, slotVars
<1> HIDE DEF Goal
<1>10. ASSUME \/ DispatchDone \/ Configure \/ Sync
              \/ \E r \in Request : Expire(r)
              \/ \E s \in Sandbox : AddNew(s) \/ AddExisting(s) \/ RemoveSandbox(s)
              \/ \E d \in Drainer : Drain(d)
       PROVE  Goal
  <2>1. CASE Configure
    BY <1>1, <2>1, Zenon
       DEF Configure, ConfigureBegin, ConfigureStep, ConfigureEnd, slotVars, callVars
  <2>2. CASE Sync
    BY <1>1, <2>2, Zenon
       DEF Sync, SyncBegin, SyncDrop, SyncDropped, SyncAdd, SyncEnd, slotVars, callVars
  <2>3. CASE \E d \in Drainer : Drain(d)
    BY <1>1, <2>3, ZenonT(60)
       DEF Drain, DrainRefused, DrainBegin, DrainComplete, DrainUndo, DrainFinish,
           slotVars, callVars
  <2>4. CASE \/ DispatchDone
             \/ \E r \in Request : Expire(r)
             \/ \E s \in Sandbox : AddNew(s) \/ AddExisting(s) \/ RemoveSandbox(s)
    BY <1>1, <2>4, Zenon
       DEF DispatchDone, Expire, AddNew, AddExisting, RemoveSandbox, slotVars, callVars
  <2> QED
    BY <1>10, <2>1, <2>2, <2>3, <2>4, Zenon
<1>11. CASE UNCHANGED vars
  BY <1>0, <1>11, Zenon DEF vars, QueueExact, LeaseInv, Goal
<1> QED
  BY <1>2, <1>3, <1>4, <1>5, <1>6, <1>7, <1>8, <1>9, <1>10, <1>11, Zenon
     DEF Next, Acquire, Dispatch, Goal

-----------------------------------------------------------------------------
(* What each action does to the ready flags and the map *)

\* Whoever holds a slot is counted on its sandbox; SandboxPoolProofs derives it
\* from the counts of IInv.
SlotsCounted ==
    \A r \in Request : slot[r] \in Sandbox => inFlight[slot[r]] \in Nat \ {0}

\* The objects of the map have been allocated.
LEMMA PooledAllocated ==
    ASSUME IInv, NEW s \in Sandbox, Pooled(s)
    PROVE  s \in allocated
BY PoolAssumption, ZenonT(60) DEF IInv, MapInv, Pooled

\* An object stored under a free ID.
LEMMA InsertPooled ==
    ASSUME IInv, NEW s \in Sandbox, sandboxes[IDOf[s]] = NoSandbox,
           sandboxes' = [sandboxes EXCEPT ![IDOf[s]] = s]
    PROVE  \A t \in Sandbox : Pooled(t)' <=> (t = s \/ Pooled(t))
BY PoolAssumption DEF IInv, TypeOK, Pooled

\* An object deleted from the map.
LEMMA DeletePooled ==
    ASSUME IInv, NEW s \in Sandbox, Pooled(s),
           sandboxes' = [sandboxes EXCEPT ![IDOf[s]] = NoSandbox]
    PROVE  \A t \in Sandbox : Pooled(t)' <=> (t # s /\ Pooled(t))
BY PoolAssumption, Zenon DEF IInv, TypeOK, Pooled

\* refreshReadyLocked from Configure, Add or Sync.
LEMMA RefreshEffect ==
    ASSUME IInv, NEW s \in Sandbox,
           ConfigureStep(s) \/ AddNew(s) \/ AddExisting(s) \/ SyncAdd(s)
    PROVE  \A t \in Sandbox : onReady'[t] <=> IF t = s THEN Available(s) ELSE onReady[t]
<1> DEFINE a == Available(s)
<1>1. a \in BOOLEAN /\ RefreshReady(s, a) /\ closed' = closed
  BY AvailableBoolean, Zenon
     DEF IInv, ConfigureStep, AddNew, AddExisting, SyncAdd, confVars
<1> HIDE DEF a
<1>2. onReady' = [onReady EXCEPT ![s] = a]
  BY <1>1, RefreshReadyList, Zenon DEF IInv
<1>3. onReady \in [Sandbox -> BOOLEAN]
  BY Zenon DEF IInv, TypeOK
<1>4. \A t \in Sandbox : onReady'[t] <=> IF t = s THEN a ELSE onReady[t]
  BY <1>2, <1>3, Zenon
<1> QED
  BY <1>4, Zenon DEF a

\* removeReadyLocked from Sync, Remove or Drain.
LEMMA RemoveEffect ==
    ASSUME IInv, NEW s \in Sandbox,
           SyncDrop(s) \/ RemoveSandbox(s) \/ \E d \in Drainer : DrainBegin(d, s)
    PROVE  \A t \in Sandbox : onReady'[t] <=> (t # s /\ onReady[t])
<1>1. RemoveReady(s) /\ closed' = closed
  BY Zenon DEF SyncDrop, RemoveSandbox, DrainBegin, confVars
<1>2. onReady' = [onReady EXCEPT ![s] = FALSE]
  BY <1>1, RemoveReadyList, Zenon DEF IInv
<1>3. onReady \in [Sandbox -> BOOLEAN]
  BY Zenon DEF IInv, TypeOK
<1> QED
  BY <1>2, <1>3, Zenon

\* A grant goes to a sandbox of the map that is not draining and has room.
LEMMA GrantEffect ==
    ASSUME IInv, (\E r \in Request : AcquireDirect(r)) \/ DispatchGrant
    PROVE  /\ ~closed /\ Head(ready) \in Sandbox
           /\ onReady[Head(ready)] /\ Pooled(Head(ready)) /\ Available(Head(ready))
           /\ inFlight' = [inFlight EXCEPT ![Head(ready)] = inFlight[Head(ready)] + 1]
           /\ \A t \in Sandbox : onReady'[t] <=> IF t = Head(ready)
                                                 THEN inFlight[t] + 1 < limit
                                                 ELSE onReady[t]
<1>1. PICK r \in Request : AcquireLocked(r)
  BY QueueFront, Zenon DEF AcquireDirect, DispatchGrant
<1>2. ready # <<>> /\ mu # "configure" /\ closed' = closed /\ ~closed
  BY QueueFront, Zenon DEF AcquireDirect, DispatchGrant, IInv, LoopInv, confVars
<1> DEFINE s == Head(ready)
<1>3. /\ s \in Sandbox /\ onReady[s]
      /\ onReady' = [onReady EXCEPT ![s] = inFlight[s] + 1 < limit]
  BY <1>1, <1>2, AcquireLockedList, Zenon DEF IInv
<1>4. inFlight' = [inFlight EXCEPT ![s] = inFlight[s] + 1]
  BY <1>1, Zenon DEF AcquireLocked
<1> HIDE DEF s
<1>5. Pooled(s) /\ Available(s)
  BY <1>2, <1>3, Zenon DEF IInv, FlagInv
<1>6. onReady \in [Sandbox -> BOOLEAN]
  BY Zenon DEF IInv, TypeOK
<1>7. \A t \in Sandbox : onReady'[t] <=> IF t = s THEN inFlight[t] + 1 < limit ELSE onReady[t]
  BY <1>3, <1>6, ZenonT(60)
<1> QED
  BY <1>2, <1>3, <1>4, <1>5, <1>7, Zenon DEF s

\* A release refreshes its sandbox if it is in the map of an open pool and not
\* draining, and then dispatches.
LEMMA ReleaseEffect ==
    ASSUME IInv, SlotsCounted, NEW r \in Request, Release(r)
    PROVE  /\ slot[r] \in Sandbox /\ inFlight[slot[r]] \in Nat \ {0}
           /\ inFlight' = [inFlight EXCEPT ![slot[r]] = inFlight[slot[r]] - 1]
           /\ \/ /\ ~closed /\ ~draining[slot[r]] /\ Pooled(slot[r])
                 /\ \A t \in Sandbox : onReady'[t] <=> IF t = slot[r]
                                                       THEN inFlight[t] - 1 < limit
                                                       ELSE onReady[t]
                 /\ mu' = IF pending = <<>> THEN "free" ELSE "dispatch"
              \/ /\ closed \/ draining[slot[r]] \/ ~Pooled(slot[r])
                 /\ onReady' = onReady /\ mu' = mu
<1> DEFINE s == slot[r]
           a == inFlight[s] - 1 < limit
<1>1. s \in Sandbox /\ inFlight[s] \in Nat \ {0}
  BY ReleaseHasSandbox, Zenon DEF SlotsCounted
<1>2. inFlight' = [inFlight EXCEPT ![s] = inFlight[s] - 1]
  BY Zenon DEF Release, ReleaseSlot
<1>3. CASE ~closed /\ ~draining[s] /\ Pooled(s)
  <2>1. a \in BOOLEAN /\ RefreshReady(s, a) /\ closed' = closed
    BY <1>3, SMTT(60) DEF Release, ReleaseSlot, confVars
  <2>2. mu' = IF pending = <<>> THEN "free" ELSE "dispatch"
    BY <1>3, Zenon DEF Release, ReleaseSlot, EnterDispatch
  <2>3. onReady \in [Sandbox -> BOOLEAN]
    BY Zenon DEF IInv, TypeOK
  <2> HIDE DEF s, a
  <2>4. onReady' = [onReady EXCEPT ![s] = a]
    BY <1>1, <2>1, RefreshReadyList, Zenon DEF IInv
  <2>5. \A t \in Sandbox : onReady'[t] <=> IF t = s THEN a ELSE onReady[t]
    BY <2>3, <2>4, Zenon
  <2>6. \A t \in Sandbox : onReady'[t] <=> IF t = s THEN inFlight[t] - 1 < limit ELSE onReady[t]
    BY <2>5, Zenon DEF a
  <2> QED
    BY <1>1, <1>2, <1>3, <2>2, <2>6, ZenonT(60) DEF s
<1>4. CASE ~(~closed /\ ~draining[s] /\ Pooled(s))
  BY <1>1, <1>2, <1>4, Zenon DEF Release, ReleaseSlot, listVars, lockVars
<1> QED
  BY <1>3, <1>4, Zenon

\* A drain that is undone returns its sandbox, if it is still in the map.
LEMMA UndoEffect ==
    ASSUME IInv, NEW d \in Drainer, DrainUndo(d)
    PROVE  /\ victim[d] \in Sandbox /\ draining[victim[d]]
           /\ \/ /\ Pooled(victim[d])
                 /\ draining' = [draining EXCEPT ![victim[d]] = FALSE]
                 /\ drained' = [drained EXCEPT ![victim[d]] = "nil"]
                 /\ active' = active + 1
                 /\ \A t \in Sandbox : onReady'[t] <=> IF t = victim[d]
                                                       THEN inFlight[t] < limit
                                                       ELSE onReady[t]
                 /\ mu' = IF pending = <<>> THEN "free" ELSE "dispatch"
              \/ /\ ~Pooled(victim[d])
                 /\ UNCHANGED <<draining, drained, active, onReady, mu>>
<1> DEFINE s == victim[d]
           a == inFlight[s] < limit
<1>1. s \in Sandbox /\ draining[s]
  BY DrainHasVictim, Zenon DEF DrainUndo
<1>2. CASE Pooled(s)
  <2>1. a \in BOOLEAN /\ RefreshReady(s, a) /\ closed' = closed
    BY <1>1, <1>2, SMTT(60) DEF DrainUndo, confVars
  <2>2. /\ mu' = IF pending = <<>> THEN "free" ELSE "dispatch"
        /\ draining' = [draining EXCEPT ![s] = FALSE]
        /\ drained' = [drained EXCEPT ![s] = "nil"] /\ active' = active + 1
    BY <1>1, <1>2, Zenon DEF DrainUndo, EnterDispatch
  <2>3. onReady \in [Sandbox -> BOOLEAN]
    BY Zenon DEF IInv, TypeOK
  <2> HIDE DEF s, a
  <2>4. onReady' = [onReady EXCEPT ![s] = a]
    BY <1>1, <2>1, RefreshReadyList, Zenon DEF IInv
  <2>5. \A t \in Sandbox : onReady'[t] <=> IF t = s THEN a ELSE onReady[t]
    BY <2>3, <2>4, Zenon
  <2>6. \A t \in Sandbox : onReady'[t] <=> IF t = s THEN inFlight[t] < limit ELSE onReady[t]
    BY <2>5, Zenon DEF a
  <2> QED
    BY <1>1, <1>2, <2>2, <2>6, ZenonT(60) DEF s
<1>3. CASE ~Pooled(s)
  BY <1>1, <1>3, Zenon DEF DrainUndo, listVars, lockVars
<1> QED
  BY <1>2, <1>3, Zenon

-----------------------------------------------------------------------------
(* The remaining parts of the inductive invariant *)

\* The map holds allocated objects under their IDs, and fresh objects are blank.
LEMMA MapStep ==
    ASSUME IInv, SlotsCounted, [Next]_vars
    PROVE  MapInv'
<1>0. /\ MapInv /\ sandboxes \in [ID -> Sandbox \cup {NoSandbox}]
      /\ inFlight \in [Sandbox -> Int] /\ draining \in [Sandbox -> BOOLEAN]
      /\ onReady \in [Sandbox -> BOOLEAN] /\ IDOf \in [Sandbox -> ID]
  BY PoolAssumption, Zenon DEF IInv, TypeOK
<1>1. ASSUME UNCHANGED <<sandboxes, allocated, draining, onReady, inFlight>>
      PROVE  MapInv'
  BY <1>0, <1>1, Zenon DEF MapInv
<1>2. ASSUME (\E r \in Request : AcquireDirect(r)) \/ DispatchGrant PROVE MapInv'
  <2>1. Head(ready) \in allocated
    BY <1>2, GrantEffect, PooledAllocated, Zenon
  <2>2. UNCHANGED <<sandboxes, allocated, draining>>
    BY <1>2, Zenon DEF AcquireDirect, DispatchGrant, mapVars, drainVars
  <2> QED
    BY <1>0, <1>2, <2>1, <2>2, GrantEffect, Zenon DEF MapInv
<1>3. ASSUME NEW r \in Request, Release(r) PROVE MapInv'
  <2>1. slot[r] \in allocated
    BY <1>0, <1>3, ReleaseEffect, Zenon DEF MapInv
  <2>2. UNCHANGED <<sandboxes, allocated, draining>>
    BY <1>3, Zenon DEF Release, mapVars
  <2> QED
    BY <1>0, <1>3, <2>1, <2>2, ReleaseEffect, SMTT(60) DEF MapInv
<1>4. ASSUME NEW s \in Sandbox, ConfigureStep(s) \/ AddExisting(s) PROVE MapInv'
  <2>1. s \in allocated
    BY <1>4, PooledAllocated, Zenon DEF ConfigureStep, AddExisting, IInv, LoopInv
  <2>2. UNCHANGED <<sandboxes, allocated, draining, inFlight>>
    BY <1>4, Zenon DEF ConfigureStep, AddExisting, mapVars, slotVars, drainVars
  <2> QED
    BY <1>0, <1>4, <2>1, <2>2, RefreshEffect DEF MapInv
<1>5. ASSUME NEW s \in Sandbox, AddNew(s) \/ SyncAdd(s) PROVE MapInv'
  <2>1. UNCHANGED <<draining, inFlight>>
    BY <1>5, Zenon DEF AddNew, SyncAdd, slotVars, drainVars
  <2>2. \A t \in Sandbox : t # s => (onReady'[t] <=> onReady[t])
    BY <1>5, RefreshEffect, Zenon
  <2>3. CASE Insert(s)
    BY <1>0, <2>1, <2>2, <2>3, ZenonT(60) DEF Insert, MapInv
  <2>4. CASE Pooled(s) /\ UNCHANGED mapVars
    BY <1>0, <2>1, <2>2, <2>4, PooledAllocated, ZenonT(60) DEF mapVars, MapInv
  <2> QED
    BY <1>5, <2>3, <2>4, Zenon DEF AddNew, SyncAdd
<1>6. ASSUME NEW s \in Sandbox, SyncDrop(s) \/ RemoveSandbox(s) PROVE MapInv'
  <2>1. UNCHANGED <<allocated, draining, inFlight>>
    BY <1>6, Zenon DEF SyncDrop, RemoveSandbox, slotVars, drainVars
  <2>2. sandboxes' = [sandboxes EXCEPT ![IDOf[s]] = NoSandbox]
    BY <1>6, Zenon DEF SyncDrop, RemoveSandbox
  <2> QED
    BY <1>0, <1>6, <2>1, <2>2, RemoveEffect, ZenonT(60) DEF MapInv
<1>7. ASSUME NEW d \in Drainer, NEW s \in Sandbox, DrainBegin(d, s) PROVE MapInv'
  <2>1. s \in allocated
    BY <1>7, PooledAllocated, Zenon DEF DrainBegin
  <2>2. UNCHANGED <<sandboxes, allocated, inFlight>>
    BY <1>7, Zenon DEF DrainBegin, slotVars
  <2>3. draining' = [draining EXCEPT ![s] = TRUE]
    BY <1>7, Zenon DEF DrainBegin
  <2> QED
    BY <1>0, <1>7, <2>1, <2>2, <2>3, RemoveEffect DEF MapInv
<1>8. ASSUME NEW d \in Drainer, DrainUndo(d) PROVE MapInv'
  <2>1. UNCHANGED <<sandboxes, allocated, inFlight>>
    BY <1>8, Zenon DEF DrainUndo, slotVars
  <2>2. victim[d] \in allocated
    BY <1>0, <1>8, UndoEffect, Zenon DEF MapInv
  <2>3. \A t \in Sandbox : t # victim[d] =>
           draining'[t] = draining[t] /\ (onReady'[t] <=> onReady[t])
    BY <1>0, <1>8, UndoEffect, SMTT(60)
  <2> QED
    BY <1>0, <2>1, <2>2, <2>3, ZenonT(60) DEF MapInv
<1>9. ASSUME NEW d \in Drainer, DrainFinish(d) PROVE MapInv'
  BY <1>0, <1>9, Zenon DEF DrainFinish, MapInv, listVars, slotVars
<1>10. CASE \E r \in Request : \/ AcquireRefused(r) \/ AcquireQueued(r) \/ ReceiveResult(r)
                               \/ CancelQueued(r) \/ Expire(r)
  BY <1>1, <1>10, Zenon
     DEF AcquireRefused, AcquireQueued, ReceiveResult, CancelQueued, Expire, mapVars,
         listVars, slotVars, drainVars
<1>11. CASE \/ DispatchExpired \/ DispatchDone \/ ConfigureEnd \/ SyncDropped \/ SyncEnd
            \/ Close
            \/ \E l \in Limits, k \in Depths : ConfigureBegin(l, k)
            \/ \E targets \in SyncTargets : SyncBegin(targets)
            \/ \E d \in Drainer : (\E i \in ID : DrainRefused(d, i)) \/ DrainComplete(d)
  BY <1>1, <1>11, Zenon
     DEF DispatchExpired, DispatchDone, ConfigureEnd, SyncDropped, SyncEnd, Close,
         ConfigureBegin, SyncBegin, DrainRefused, DrainComplete, mapVars, listVars,
         slotVars, drainVars
<1>12. CASE UNCHANGED vars
  BY <1>0, <1>12, Zenon DEF vars, MapInv
<1> QED
  BY <1>2, <1>3, <1>4, <1>5, <1>6, <1>7, <1>8, <1>9, <1>10, <1>11, <1>12, Zenon
     DEF Next, Acquire, Dispatch, Configure, Sync, Drain

\* Every action leaves a sandbox linked in the ready list exactly if it may take
\* a request, or leaves the rest to Configure's loop.
LEMMA FlagStep ==
    ASSUME IInv, SlotsCounted, [Next]_vars
    PROVE  FlagInv'
<1>0. /\ FlagInv /\ sandboxes \in [ID -> Sandbox \cup {NoSandbox}] /\ limit \in Nat
      /\ inFlight \in [Sandbox -> Int] /\ draining \in [Sandbox -> BOOLEAN]
  BY Zenon DEF IInv, TypeOK
<1>1. ASSUME UNCHANGED <<sandboxes, draining, onReady, inFlight, limit, closed>>,
             \/ mu # "configure" \/ todo = {} \/ UNCHANGED <<mu, todo>>
      PROVE  FlagInv'
  BY <1>0, <1>1, Zenon DEF FlagInv, Pooled, Available
<1>2. ASSUME (\E r \in Request : AcquireDirect(r)) \/ DispatchGrant PROVE FlagInv'
  <2>1. UNCHANGED <<sandboxes, draining, limit, closed>> /\ mu # "configure"
    BY <1>2, Zenon DEF AcquireDirect, DispatchGrant, mapVars, drainVars, confVars
  <2> DEFINE s == Head(ready)
  <2>2. /\ s \in Sandbox /\ Pooled(s) /\ Available(s)
        /\ inFlight' = [inFlight EXCEPT ![s] = inFlight[s] + 1]
        /\ \A t \in Sandbox : onReady'[t] <=> IF t = s THEN inFlight[t] + 1 < limit
                                                       ELSE onReady[t]
    BY <1>2, GrantEffect, Zenon
  <2> HIDE DEF s
  <2> QED
    BY <1>0, <2>1, <2>2, ZenonT(60) DEF FlagInv, Pooled, Available
<1>3. ASSUME NEW r \in Request, Release(r) PROVE FlagInv'
  <2>1. UNCHANGED <<sandboxes, draining, limit, closed>> /\ mu = "free"
    BY <1>3, Zenon DEF Release, mapVars, confVars
  <2> DEFINE s == slot[r]
  <2>2. /\ s \in Sandbox /\ inFlight' = [inFlight EXCEPT ![s] = inFlight[s] - 1]
        /\ \/ /\ ~draining[s] /\ Pooled(s)
              /\ \A t \in Sandbox : onReady'[t] <=> IF t = s THEN inFlight[t] - 1 < limit
                                                             ELSE onReady[t]
           \/ /\ closed \/ draining[s] \/ ~Pooled(s)
              /\ onReady' = onReady
    BY <1>3, ReleaseEffect, Zenon
  <2> HIDE DEF s
  <2> QED
    BY <1>0, <2>1, <2>2 DEF FlagInv, Pooled, Available
<1>4. ASSUME NEW s \in Sandbox, ConfigureStep(s) PROVE FlagInv'
  <2>1. Pooled(s)
    BY <1>4, Zenon DEF ConfigureStep, IInv, LoopInv
  <2>2. UNCHANGED <<mu, sandboxes, draining, inFlight, limit, closed>> /\ todo' = todo \ {s}
    BY <1>4, Zenon DEF ConfigureStep, mapVars, drainVars, slotVars, confVars
  <2> QED
    BY <1>0, <1>4, <2>1, <2>2, RefreshEffect, ZenonT(60) DEF FlagInv, Pooled, Available
<1>5. ASSUME NEW s \in Sandbox, AddExisting(s) PROVE FlagInv'
  <2>1. UNCHANGED <<mu, todo, sandboxes, draining, inFlight, limit, closed>> /\ Pooled(s)
    BY <1>5, Zenon DEF AddExisting, lockVars, mapVars, drainVars, slotVars, confVars
  <2> QED
    BY <1>0, <1>5, <2>1, RefreshEffect, Zenon DEF FlagInv, Pooled, Available
<1>6. ASSUME NEW s \in Sandbox, AddNew(s) \/ SyncAdd(s) PROVE FlagInv'
  <2>1. UNCHANGED <<draining, inFlight, limit, closed>> /\ mu # "configure"
    BY <1>6, Zenon DEF AddNew, SyncAdd, drainVars, slotVars, confVars
  <2>2. \A t \in Sandbox : Pooled(t)' <=> (t = s \/ Pooled(t))
    <3>1. CASE sandboxes[IDOf[s]] = NoSandbox /\ Insert(s)
      BY <3>1, InsertPooled, Zenon DEF Insert
    <3>2. CASE Pooled(s) /\ UNCHANGED mapVars
      BY <3>2, Zenon DEF mapVars, Pooled
    <3> QED
      BY <1>6, <3>1, <3>2, Zenon DEF AddNew, SyncAdd
  <2>3. \A t \in Sandbox : Available(t)' <=> Available(t)
    BY <2>1, Zenon DEF Available
  <2> QED
    BY <1>0, <1>6, <2>1, <2>2, <2>3, RefreshEffect, Zenon DEF FlagInv
<1>7. ASSUME NEW s \in Sandbox, SyncDrop(s) \/ RemoveSandbox(s) PROVE FlagInv'
  <2>1. UNCHANGED <<draining, inFlight, limit, closed>> /\ mu # "configure"
    BY <1>7, Zenon DEF SyncDrop, RemoveSandbox, drainVars, slotVars, confVars
  <2>2. \A t \in Sandbox : Pooled(t)' <=> (t # s /\ Pooled(t))
    BY <1>7, DeletePooled, ZenonT(60) DEF SyncDrop, RemoveSandbox, Unwanted
  <2>3. \A t \in Sandbox : Available(t)' <=> Available(t)
    BY <2>1, Zenon DEF Available
  <2> QED
    BY <1>0, <1>7, <2>1, <2>2, <2>3, RemoveEffect, Zenon DEF FlagInv
<1>8. ASSUME NEW d \in Drainer, NEW s \in Sandbox, DrainBegin(d, s) PROVE FlagInv'
  <2>1. UNCHANGED <<sandboxes, inFlight, limit, closed>> /\ mu = "free"
    BY <1>8, Zenon DEF DrainBegin, slotVars, confVars
  <2>2. draining' = [draining EXCEPT ![s] = TRUE]
    BY <1>8, Zenon DEF DrainBegin
  <2>3. \A t \in Sandbox : Pooled(t)' /\ Available(t)' <=> t # s /\ Pooled(t) /\ Available(t)
    BY <1>0, <2>1, <2>2, Zenon DEF Pooled, Available
  <2>4. \A t \in Sandbox : onReady'[t] <=> (t # s /\ onReady[t])
    BY <1>8, RemoveEffect, Zenon
  <2> QED
    BY <1>0, <2>1, <2>3, <2>4, Zenon DEF FlagInv
<1>9. ASSUME NEW d \in Drainer, DrainUndo(d) PROVE FlagInv'
  <2>1. UNCHANGED <<sandboxes, inFlight, limit, closed>> /\ mu = "free"
    BY <1>9, ZenonT(60) DEF DrainUndo, slotVars, confVars
  <2>2. CASE Pooled(victim[d])
    <3>1. /\ victim[d] \in Sandbox /\ draining' = [draining EXCEPT ![victim[d]] = FALSE]
          /\ \A t \in Sandbox : onReady'[t] <=> IF t = victim[d] THEN inFlight[t] < limit
                                                               ELSE onReady[t]
      BY <1>9, <2>2, UndoEffect, Zenon
    <3>2. \A t \in Sandbox : Pooled(t)' <=> Pooled(t)
      BY <2>1, Zenon DEF Pooled
    <3>3. \A t \in Sandbox : Available(t)' <=> IF t = victim[d] THEN inFlight[t] < limit
                                                               ELSE Available(t)
      BY <1>0, <2>1, <3>1, Zenon DEF Available
    <3> QED
      BY <1>0, <2>1, <2>2, <3>1, <3>2, <3>3, Zenon DEF FlagInv
  <2>3. CASE ~Pooled(victim[d])
    <3>1. UNCHANGED <<draining, onReady>>
      BY <1>9, <2>3, UndoEffect, Zenon
    <3> QED
      BY <1>1, <2>1, <3>1, Zenon
  <2> QED
    BY <2>2, <2>3, Zenon
<1>10. ASSUME NEW d \in Drainer, DrainFinish(d) PROVE FlagInv'
  <2>1. UNCHANGED <<draining, onReady, inFlight, limit, closed>> /\ mu = "free"
    BY <1>10, Zenon DEF DrainFinish, listVars, slotVars, confVars
  <2>2. victim[d] \in Sandbox /\ draining[victim[d]]
    BY <1>10, DrainHasVictim, ZenonT(60) DEF DrainFinish
  <2>3. \A t \in Sandbox : ~draining[t] => (Pooled(t)' <=> Pooled(t))
    <3>1. CASE UNCHANGED sandboxes
      BY <3>1, Zenon DEF Pooled
    <3>2. CASE Pooled(victim[d]) /\ sandboxes' = [sandboxes EXCEPT ![IDOf[victim[d]]] = NoSandbox]
      BY <2>2, <3>2, DeletePooled, ZenonT(60)
    <3> QED
      BY <1>10, <3>1, <3>2, Zenon DEF DrainFinish
  <2> QED
    BY <1>0, <2>1, <2>3, Zenon DEF FlagInv, Available
<1>11. ASSUME NEW l \in Limits, NEW k \in Depths, ConfigureBegin(l, k) PROVE FlagInv'
  BY <1>0, <1>11, Zenon
     DEF ConfigureBegin, FlagInv, Pooled, mapVars, listVars, slotVars, drainVars
<1>12. CASE Close
  BY <1>12, Zenon DEF Close, FlagInv
<1>13. CASE \E r \in Request : \/ AcquireRefused(r) \/ AcquireQueued(r) \/ ReceiveResult(r)
                               \/ CancelQueued(r) \/ Expire(r)
  BY <1>1, <1>13, Zenon
     DEF AcquireRefused, AcquireQueued, ReceiveResult, CancelQueued, Expire, lockVars,
         confVars, mapVars, listVars, slotVars, drainVars
<1>14. CASE \/ DispatchExpired \/ DispatchDone \/ ConfigureEnd \/ SyncDropped \/ SyncEnd
            \/ \E targets \in SyncTargets : SyncBegin(targets)
  BY <1>1, <1>14, Zenon
     DEF DispatchExpired, DispatchDone, ConfigureEnd, SyncDropped, SyncEnd, SyncBegin,
         confVars, mapVars, listVars, slotVars, drainVars
<1>15. CASE \E d \in Drainer : (\E i \in ID : DrainRefused(d, i)) \/ DrainComplete(d)
  BY <1>1, <1>15, Zenon
     DEF DrainRefused, DrainComplete, lockVars, confVars, mapVars, listVars, slotVars
<1>16. CASE UNCHANGED vars
  BY <1>0, <1>16, Zenon DEF vars, FlagInv, Pooled, Available
<1> QED
  BY <1>2, <1>3, <1>4, <1>5, <1>6, <1>7, <1>8, <1>9, <1>10, <1>11, <1>12, <1>13, <1>14,
     <1>15, <1>16, ZenonT(60)
     DEF Next, Acquire, Dispatch, Configure, Sync, Drain

\* The loops under the lock keep their preconditions, and whenever the lock is
\* free and a request waits, no sandbox is linked in the ready list.
LEMMA LoopStep ==
    ASSUME IInv, SlotsCounted, [Next]_vars
    PROVE  LoopInv'
<1>0. /\ LoopInv /\ sandboxes \in [ID -> Sandbox \cup {NoSandbox}]
      /\ pending \in Seq(Request) /\ closed \in BOOLEAN
  BY Zenon DEF IInv, TypeOK
<1>a. ~closed /\ ready = <<>> => \A s \in Sandbox : ~onReady[s]
  BY EmptyList, Zenon DEF IInv, ListInv
<1>1. ASSUME UNCHANGED <<mu, todo, closed, sandboxes, pending, onReady>>
      PROVE  LoopInv'
  BY <1>0, <1>1, Zenon DEF LoopInv, Pooled
<1>2. ASSUME mu' = IF pending' = <<>> THEN "free" ELSE "dispatch",
             closed' => pending' = <<>>
      PROVE  LoopInv'
  BY <1>2, Zenon DEF LoopInv
<1>3. ASSUME NEW r \in Request, AcquireDirect(r) PROVE LoopInv'
  BY <1>2, <1>3, Zenon DEF AcquireDirect, lockVars, confVars
<1>4. ASSUME NEW r \in Request, AcquireQueued(r) PROVE LoopInv'
  <2>1. \A s \in Sandbox : ~onReady[s]
    BY <1>0, <1>a, <1>4, Zenon DEF AcquireQueued, LoopInv
  <2> QED
    BY <1>4, <2>1, Zenon DEF AcquireQueued, LoopInv, lockVars, confVars, listVars
<1>5. ASSUME NEW r \in Request, CancelQueued(r) PROVE LoopInv'
  <2>1. pending # <<>>
    <3>1. r \in Range(pending)
      BY <1>5, Zenon DEF CancelQueued, IInv, QueueExact
    <3> QED
      BY <1>0, <3>1, EmptyList, Zenon
  <2> QED
    BY <1>0, <1>5, <2>1, Zenon DEF CancelQueued, LoopInv, lockVars, confVars, listVars
<1>6. ASSUME NEW r \in Request, Release(r) PROVE LoopInv'
  <2>1. UNCHANGED <<pending, closed, sandboxes>> /\ mu = "free"
    BY <1>6, ZenonT(60) DEF Release, mapVars, confVars
  <2>2. CASE mu' = IF pending = <<>> THEN "free" ELSE "dispatch"
    BY <1>0, <1>2, <2>1, <2>2, Zenon DEF LoopInv
  <2>3. CASE UNCHANGED <<onReady, mu>>
    BY <1>0, <2>1, <2>3, Zenon DEF LoopInv
  <2> QED
    BY <1>6, <2>2, <2>3, ReleaseEffect, Zenon
<1>7. CASE DispatchExpired \/ DispatchGrant
  <2>1. mu' = IF pending' = <<>> THEN "free" ELSE "dispatch"
    BY <1>7, Zenon DEF DispatchExpired, DispatchGrant, EnterDispatch
  <2>2. closed' = closed /\ ~closed
    BY <1>0, <1>7, QueueFront, Zenon DEF DispatchExpired, DispatchGrant, LoopInv, confVars
  <2> QED
    BY <1>2, <2>1, <2>2, Zenon
<1>8. CASE DispatchDone
  <2>1. ~closed
    BY <1>0, <1>8, QueueFront, Zenon DEF DispatchDone, LoopInv
  <2> QED
    BY <1>0, <1>a, <1>8, <2>1, Zenon DEF DispatchDone, LoopInv, confVars, listVars, callVars
<1>9. ASSUME NEW l \in Limits, NEW k \in Depths, ConfigureBegin(l, k) PROVE LoopInv'
  BY <1>0, <1>9, Zenon DEF ConfigureBegin, LoopInv, Pooled, mapVars, callVars
<1>10. ASSUME NEW s \in Sandbox, ConfigureStep(s) PROVE LoopInv'
  BY <1>0, <1>10, Zenon DEF ConfigureStep, LoopInv, Pooled, mapVars, callVars, confVars
<1>11. ASSUME ConfigureEnd \/ SyncEnd \/ \E s \in Sandbox : AddNew(s) PROVE LoopInv'
  <2>1. /\ pending' = pending /\ closed' = closed
        /\ mu' = IF pending = <<>> THEN "free" ELSE "dispatch"
    BY <1>11, Zenon DEF ConfigureEnd, SyncEnd, AddNew, EnterDispatch, confVars, callVars
  <2> QED
    BY <1>0, <1>2, <2>1, Zenon DEF LoopInv
<1>12. ASSUME NEW s \in Sandbox, AddExisting(s) PROVE LoopInv'
  <2>1. UNCHANGED <<mu, todo, closed, sandboxes, pending>> /\ mu = "free" /\ ~closed /\ Pooled(s)
    BY <1>12, Zenon DEF AddExisting, lockVars, confVars, mapVars, callVars
  <2>2. onReady[s] <=> Available(s)
    BY <2>1, Zenon DEF IInv, FlagInv
  <2> QED
    BY <1>0, <1>12, <2>1, <2>2, RefreshEffect, Zenon DEF LoopInv
<1>13. ASSUME NEW targets \in SyncTargets, SyncBegin(targets) PROVE LoopInv'
  BY <1>0, <1>13, ZenonT(60) DEF SyncBegin, LoopInv, confVars, callVars
<1>14. ASSUME SyncDropped \/ \E s \in Sandbox : SyncDrop(s) \/ SyncAdd(s) PROVE LoopInv'
  <2>1. mu' \in {"drop", "add"} /\ ~closed' /\ pending' = pending
    <3>1. ~closed /\ UNCHANGED <<closed, pending>>
      BY <1>0, <1>14, Zenon DEF SyncDropped, SyncDrop, SyncAdd, LoopInv, confVars, callVars
    <3>2. mu' \in {"drop", "add"}
      BY <1>14, Zenon DEF SyncDropped, SyncDrop, SyncAdd, lockVars
    <3> QED
      BY <3>1, <3>2, Zenon
  <2> QED
    BY <2>1, Zenon DEF LoopInv
<1>15. ASSUME NEW s \in Sandbox, RemoveSandbox(s) \/ \E d \in Drainer : DrainBegin(d, s)
       PROVE  LoopInv'
  <2>1. UNCHANGED <<mu, closed, pending>> /\ mu = "free"
    BY <1>15, Zenon DEF RemoveSandbox, DrainBegin, lockVars, confVars, callVars
  <2> QED
    BY <1>0, <1>15, <2>1, RemoveEffect, Zenon DEF LoopInv
<1>16. ASSUME NEW d \in Drainer, DrainUndo(d) PROVE LoopInv'
  <2>1. UNCHANGED <<pending, closed>> /\ mu = "free"
    BY <1>16, Zenon DEF DrainUndo, callVars, confVars
  <2>2. CASE mu' = IF pending = <<>> THEN "free" ELSE "dispatch"
    BY <1>0, <1>2, <2>1, <2>2, Zenon DEF LoopInv
  <2>3. CASE UNCHANGED <<onReady, mu>>
    BY <1>0, <2>1, <2>3, Zenon DEF LoopInv
  <2> QED
    BY <1>16, <2>2, <2>3, UndoEffect, Zenon
<1>17. ASSUME NEW d \in Drainer, DrainFinish(d) PROVE LoopInv'
  BY <1>0, <1>17, Zenon DEF DrainFinish, LoopInv, lockVars, confVars, listVars, callVars
<1>18. CASE Close
  BY <1>2, <1>18, Zenon DEF Close, lockVars
<1>19. CASE \E r \in Request : AcquireRefused(r) \/ ReceiveResult(r) \/ Expire(r)
  BY <1>1, <1>19, Zenon
     DEF AcquireRefused, ReceiveResult, Expire, lockVars, confVars, mapVars, listVars
<1>20. CASE \E d \in Drainer : (\E i \in ID : DrainRefused(d, i)) \/ DrainComplete(d)
  BY <1>1, <1>20, Zenon
     DEF DrainRefused, DrainComplete, lockVars, confVars, mapVars, listVars, callVars
<1>21. CASE UNCHANGED vars
  BY <1>0, <1>21, Zenon DEF vars, LoopInv, Pooled
<1> QED
  BY <1>3, <1>4, <1>5, <1>6, <1>7, <1>8, <1>9, <1>10, <1>11, <1>12, <1>13, <1>14,
     <1>15, <1>16, <1>17, <1>18, <1>19, <1>20, <1>21, Zenon
     DEF Next, Acquire, Dispatch, Configure, Sync, Drain

\* Each draining sandbox has one Drain at most, and a channel that tells whether
\* anything is in flight.
LEMMA DrainStep ==
    ASSUME IInv, SlotsCounted, [Next]_vars
    PROVE  DrainInv'
<1>0. /\ DrainInv /\ inFlight \in [Sandbox -> Int] /\ draining \in [Sandbox -> BOOLEAN]
      /\ drained \in [Sandbox -> {"nil", "open", "closed"}]
      /\ drain \in [Drainer -> {"idle", "waiting", "stopping", "returned"}]
      /\ victim \in [Drainer -> Sandbox \cup {NoSandbox}]
  BY Zenon DEF IInv, TypeOK
<1>1. ASSUME UNCHANGED <<draining, drained, drain, victim, inFlight>>,
             closed' = closed \/ closed' = TRUE
      PROVE  DrainInv'
  BY <1>0, <1>1, SMTT(60) DEF DrainInv
<1>2. ASSUME (\E r \in Request : AcquireDirect(r)) \/ DispatchGrant PROVE DrainInv'
  <2>1. UNCHANGED <<draining, drained, drain, victim, closed>>
    BY <1>2, Zenon DEF AcquireDirect, DispatchGrant, drainVars, confVars
  <2> DEFINE s == Head(ready)
  <2>2. /\ s \in Sandbox /\ ~draining[s]
        /\ inFlight' = [inFlight EXCEPT ![s] = inFlight[s] + 1]
    BY <1>2, GrantEffect, Zenon DEF Available
  <2> HIDE DEF s
  <2> QED
    BY <1>0, <2>1, <2>2 DEF DrainInv
<1>3. ASSUME NEW r \in Request, Release(r) PROVE DrainInv'
  <2> DEFINE s == slot[r]
             n == inFlight[s] - 1
  <2>1. UNCHANGED <<draining, drain, victim, closed>>
    BY <1>3, ZenonT(60) DEF Release, confVars
  <2>2. /\ s \in Sandbox /\ inFlight[s] \in Nat \ {0} /\ n \in Nat
        /\ inFlight' = [inFlight EXCEPT ![s] = n]
    BY <1>3, ReleaseEffect, SMTT(60)
  <2>3. drained' = IF ~closed /\ draining[s] /\ n = 0 /\ drained[s] # "nil"
                   THEN [drained EXCEPT ![s] = "closed"] ELSE drained
    BY <1>3, Zenon DEF Release, ReleaseSlot
  <2>4. draining[s] => drained[s] = "open"
    BY <1>0, <2>2, Zenon DEF DrainInv
  <2> HIDE DEF s, n
  <2>5. \A t \in Sandbox : t # s => inFlight'[t] = inFlight[t] /\ drained'[t] = drained[t]
    BY <1>0, <2>2, <2>3, Zenon
  <2>6. draining[s] => drained'[s] = IF n = 0 /\ ~closed THEN "closed" ELSE "open"
    BY <1>0, <2>2, <2>3, <2>4, Zenon
  <2>7. inFlight'[s] = n
    BY <1>0, <2>2, Zenon
  <2>8. \A d \in Drainer : drain[d] = "stopping" => victim[d] # s
    BY <1>0, <2>4, SMTT(60) DEF DrainInv
  <2> QED
    BY <1>0, <2>1, <2>2, <2>5, <2>6, <2>7, <2>8, SMTT(60) DEF DrainInv
<1>4. ASSUME NEW d \in Drainer, NEW s \in Sandbox, DrainBegin(d, s) PROVE DrainInv'
  <2>1. /\ UNCHANGED <<inFlight, closed>> /\ ~draining[s] /\ ~closed
        /\ draining' = [draining EXCEPT ![s] = TRUE]
        /\ drained' = [drained EXCEPT ![s] = IF inFlight[s] = 0 THEN "closed" ELSE "open"]
        /\ drain' = [drain EXCEPT ![d] = "waiting"]
        /\ victim' = [victim EXCEPT ![d] = s]
    BY <1>4, Zenon DEF DrainBegin, slotVars, confVars
  <2>2. \A e \in Drainer : drain[e] \in {"waiting", "stopping"} => victim[e] # s
    BY <1>0, <2>1, SMTT(60) DEF DrainInv
  <2> QED
    BY <1>0, <2>1, <2>2, SMTT(60) DEF DrainInv
<1>5. ASSUME NEW d \in Drainer, DrainUndo(d) PROVE DrainInv'
  <2>1. /\ UNCHANGED <<inFlight, closed, victim>> /\ drain' = [drain EXCEPT ![d] = "returned"]
        /\ drain[d] \in {"waiting", "stopping"}
    BY <1>5, Zenon DEF DrainUndo, slotVars, confVars
  <2>2. \A e \in Drainer : e # d /\ drain[e] \in {"waiting", "stopping"} => victim[e] # victim[d]
    BY <1>0, <2>1, Zenon DEF DrainInv
  <2>3. CASE /\ draining' = [draining EXCEPT ![victim[d]] = FALSE]
             /\ drained' = [drained EXCEPT ![victim[d]] = "nil"]
    <3>1. victim[d] \in Sandbox
      BY <1>5, UndoEffect, Zenon
    <3> QED
      BY <1>0, <2>1, <2>2, <2>3, <3>1, ZenonT(60) DEF DrainInv
  <2>4. CASE UNCHANGED <<draining, drained>>
    BY <1>0, <2>1, <2>4, Zenon DEF DrainInv
  <2> QED
    BY <1>5, <2>3, <2>4, UndoEffect, ZenonT(60)
<1>6. ASSUME NEW d \in Drainer,
             DrainComplete(d) \/ DrainFinish(d) \/ \E i \in ID : DrainRefused(d, i)
      PROVE  DrainInv'
  <2>1. UNCHANGED <<inFlight, closed, victim, draining, drained>>
    BY <1>6, Zenon DEF DrainComplete, DrainFinish, DrainRefused, confVars, slotVars
  <2>2. \/ drain' = [drain EXCEPT ![d] = "returned"]
        \/ /\ drain[d] = "waiting" /\ drained[victim[d]] = "closed"
           /\ drain' = [drain EXCEPT ![d] = "stopping"]
    BY <1>6, Zenon DEF DrainComplete, DrainFinish, DrainRefused
  <2> QED
    BY <1>0, <2>1, <2>2 DEF DrainInv
<1>7. CASE Configure
  BY <1>1, <1>7, Zenon
     DEF Configure, ConfigureBegin, ConfigureStep, ConfigureEnd, confVars, slotVars, drainVars
<1>8. CASE Sync
  BY <1>1, <1>8, Zenon
     DEF Sync, SyncBegin, SyncDrop, SyncDropped, SyncAdd, SyncEnd, confVars, slotVars,
         drainVars
<1>9. CASE \/ DispatchExpired \/ DispatchDone \/ Close
           \/ \E s \in Sandbox : AddNew(s) \/ AddExisting(s) \/ RemoveSandbox(s)
  BY <1>1, <1>9, Zenon
     DEF DispatchExpired, DispatchDone, Close, AddNew, AddExisting, RemoveSandbox, confVars,
         slotVars, drainVars
<1>10. CASE \E r \in Request : \/ AcquireRefused(r) \/ AcquireQueued(r) \/ ReceiveResult(r)
                               \/ CancelQueued(r) \/ Expire(r)
  BY <1>1, <1>10, Zenon
     DEF AcquireRefused, AcquireQueued, ReceiveResult, CancelQueued, Expire, confVars,
         slotVars, drainVars
<1>11. CASE UNCHANGED vars
  BY <1>0, <1>11, ZenonT(60) DEF vars, DrainInv
<1> QED
  BY <1>2, <1>3, <1>4, <1>5, <1>6, <1>7, <1>8, <1>9, <1>10, <1>11, Zenon
     DEF Next, Acquire, Dispatch, Drain

----------------------------------------------------------------------------
(* The counts.                                                             *)

\* The calls that a slot assignment f gives sandbox t, and those with a sandbox.
Holders(f, t) == {q \in Request : f[q] = t}
AllHolders(f) == {q \in Request : f[q] # NoSandbox}

\* One more call with sandbox s: the counts of s and of all slots grow by one.
LEMMA GrantCount ==
    ASSUME CountingLaws,
           NEW f \in [Request -> Sandbox \cup {NoSandbox}], NEW r \in Request,
           NEW s \in Sandbox, f[r] = NoSandbox
    PROVE  /\ \A t \in Sandbox :
                 /\ Cardinality(Holders(f, t)) \in Nat
                 /\ Cardinality(Holders([f EXCEPT ![r] = s], t))
                      = Cardinality(Holders(f, t)) + (IF t = s THEN 1 ELSE 0)
           /\ Cardinality(AllHolders(f)) \in Nat
           /\ Cardinality(AllHolders([f EXCEPT ![r] = s])) = Cardinality(AllHolders(f)) + 1
<1> DEFINE g == [f EXCEPT ![r] = s]
<1>0. IsFiniteSet(Request) /\ NoSandbox \notin Sandbox
  BY PoolAssumption, Zenon
<1>1. ASSUME NEW A \in SUBSET Request, NEW B, r \notin A, B = A \cup {r}
      PROVE  Cardinality(A) \in Nat /\ Cardinality(B) = Cardinality(A) + 1
  BY <1>0, <1>1, ZenonT(60) DEF CountingLaws
<1>2. \A A \in SUBSET Request : Cardinality(A) \in Nat
  BY <1>0, Zenon DEF CountingLaws
<1>3. ASSUME NEW t \in Sandbox
      PROVE  /\ Cardinality(Holders(f, t)) \in Nat
             /\ Cardinality(Holders(g, t))
                  = Cardinality(Holders(f, t)) + (IF t = s THEN 1 ELSE 0)
  <2>1. Holders(f, t) \in SUBSET Request
    BY Zenon DEF Holders
  <2>2. CASE t = s
    <3>1. r \notin Holders(f, t) /\ Holders(g, t) = Holders(f, t) \cup {r}
      BY <1>0, <2>2, Zenon DEF Holders
    <3> QED
      BY <1>1, <2>1, <2>2, <3>1, ZenonT(60)
  <2>3. CASE t # s
    <3>1. Holders(g, t) = Holders(f, t)
      BY <1>0, <2>3, Zenon DEF Holders
    <3>2. Cardinality(Holders(f, t)) \in Nat
      BY <1>2, <2>1, Zenon
    <3> QED
      BY <2>3, <3>1, <3>2
  <2> QED
    BY <2>2, <2>3, Zenon
<1>4. /\ Cardinality(AllHolders(f)) \in Nat
      /\ Cardinality(AllHolders(g)) = Cardinality(AllHolders(f)) + 1
  <2>1. /\ AllHolders(f) \in SUBSET Request /\ r \notin AllHolders(f)
        /\ AllHolders(g) = AllHolders(f) \cup {r}
    BY <1>0, Zenon DEF AllHolders
  <2> QED
    BY <1>1, <2>1, ZenonT(60)
<1> QED
  BY <1>3, <1>4, ZenonT(60)

\* sandbox.inFlight and p.executing follow the slots through grant and release.
LEMMA SlotStep ==
    ASSUME CountingLaws, IInv, [Next]_vars
    PROVE  SlotAccounting'
<1>0. /\ SlotAccounting /\ executing \in Int /\ inFlight \in [Sandbox -> Int]
      /\ slot \in [Request -> Sandbox \cup {NoSandbox}]
  BY Zenon DEF IInv, TypeOK
<1>a. /\ \A t \in Sandbox : inFlight[t] = Cardinality(Holders(slot, t))
      /\ executing = Cardinality(AllHolders(slot))
  BY <1>0, Zenon DEF SlotAccounting, Holders, AllHolders
<1>b. ASSUME \A t \in Sandbox : inFlight'[t] = Cardinality(Holders(slot', t)),
             executing' = Cardinality(AllHolders(slot'))
      PROVE  SlotAccounting'
  BY <1>b, Zenon DEF SlotAccounting, Holders, AllHolders
<1>1. ASSUME inFlight' = inFlight, executing' = executing, slot' = slot
      PROVE  SlotAccounting'
  BY <1>a, <1>b, <1>1, Zenon
<1>2. ASSUME NEW r \in Request, slot[r] = NoSandbox, ready # <<>>, AcquireLocked(r)
      PROVE  SlotAccounting'
  <2> DEFINE s == Head(ready)
  <2>1. s \in Sandbox
    BY <1>2, TailList, Zenon DEF IInv, TypeOK, ListInv
  <2>2. /\ slot' = [slot EXCEPT ![r] = s] /\ executing' = executing + 1
        /\ inFlight' = [inFlight EXCEPT ![s] = inFlight[s] + 1]
    BY <1>2, Zenon DEF AcquireLocked
  <2> HIDE DEF s
  <2>3. /\ \A t \in Sandbox : Cardinality(Holders(slot', t))
             = Cardinality(Holders(slot, t)) + (IF t = s THEN 1 ELSE 0)
        /\ Cardinality(AllHolders(slot')) = Cardinality(AllHolders(slot)) + 1
    BY <1>0, <1>2, <2>1, <2>2, GrantCount, ZenonT(60)
  <2>4. \A t \in Sandbox : inFlight'[t] = inFlight[t] + (IF t = s THEN 1 ELSE 0)
    BY <1>0, <2>1, <2>2
  <2> QED
    BY <1>a, <1>b, <2>2, <2>3, <2>4, ZenonT(60)
<1>3. ASSUME NEW r \in Request, Release(r) PROVE SlotAccounting'
  <2> DEFINE s == slot[r]
  <2>1. s \in Sandbox
    BY <1>3, ReleaseHasSandbox, Zenon
  <2>2. /\ slot' = [slot EXCEPT ![r] = NoSandbox] /\ executing' = executing - 1
        /\ inFlight' = [inFlight EXCEPT ![s] = inFlight[s] - 1]
    BY <1>3, Zenon DEF Release, ReleaseSlot
  <2>3. /\ slot' \in [Request -> Sandbox \cup {NoSandbox}] /\ slot'[r] = NoSandbox
        /\ slot = [slot' EXCEPT ![r] = s]
    BY <1>0, <2>2, ZenonT(60)
  <2> HIDE DEF s
  <2>4. /\ \A t \in Sandbox :
             /\ Cardinality(Holders(slot', t)) \in Nat
             /\ Cardinality(Holders(slot, t))
                  = Cardinality(Holders(slot', t)) + (IF t = s THEN 1 ELSE 0)
        /\ Cardinality(AllHolders(slot')) \in Nat
        /\ Cardinality(AllHolders(slot)) = Cardinality(AllHolders(slot')) + 1
    BY <2>1, <2>3, GrantCount, ZenonT(60)
  <2>5. \A t \in Sandbox : inFlight'[t] = inFlight[t] - (IF t = s THEN 1 ELSE 0)
    BY <1>0, <2>1, <2>2
  <2> QED
    <3>1. ASSUME NEW t \in Sandbox
          PROVE  inFlight'[t] = Cardinality(Holders(slot', t))
      <4> DEFINE c == Cardinality(Holders(slot', t))
                 i == IF t = s THEN 1 ELSE 0
      <4>1. c \in Nat /\ inFlight[t] = c + i /\ inFlight'[t] = inFlight[t] - i
        BY <1>a, <2>4, <2>5, Zenon
      <4>2. i \in Int
        OBVIOUS
      <4> HIDE DEF c, i
      <4> QED
        BY <4>1, <4>2 DEF c
    <3>2. executing' = Cardinality(AllHolders(slot'))
      BY <1>a, <2>2, <2>4
    <3> QED
      BY <1>b, <3>1, <3>2, Zenon
<1>4. ASSUME NEW r \in Request, AcquireDirect(r) PROVE SlotAccounting'
  <2>1. slot[r] = NoSandbox
    BY <1>4, Zenon DEF AcquireDirect, IInv, QueueExact
  <2> QED
    BY <1>2, <1>4, <2>1, Zenon DEF AcquireDirect
<1>5. CASE DispatchGrant
  BY <1>2, <1>5, QueueFront, Zenon DEF DispatchGrant
<1>6. CASE Configure
  BY <1>1, <1>6, Zenon
     DEF Configure, ConfigureBegin, ConfigureStep, ConfigureEnd, slotVars
<1>7. CASE Sync
  BY <1>1, <1>7, Zenon
     DEF Sync, SyncBegin, SyncDrop, SyncDropped, SyncAdd, SyncEnd, slotVars
<1>8. CASE \E d \in Drainer : Drain(d)
  BY <1>1, <1>8, Zenon
     DEF Drain, DrainRefused, DrainBegin, DrainComplete, DrainUndo, DrainFinish, slotVars
<1>9. CASE \/ DispatchExpired \/ DispatchDone \/ Close
           \/ \E s \in Sandbox : AddNew(s) \/ AddExisting(s) \/ RemoveSandbox(s)
  BY <1>1, <1>9, Zenon
     DEF DispatchExpired, DispatchDone, Close, AddNew, AddExisting, RemoveSandbox, slotVars
<1>10. ASSUME NEW r \in Request, \/ AcquireRefused(r) \/ AcquireQueued(r) \/ ReceiveResult(r)
                                 \/ CancelQueued(r) \/ Expire(r)
       PROVE  SlotAccounting'
  BY <1>1, <1>10, Zenon
     DEF AcquireRefused, AcquireQueued, ReceiveResult, CancelQueued, Expire, slotVars
<1>11. CASE UNCHANGED vars
  BY <1>1, <1>11, Zenon DEF vars
<1> QED
  BY <1>3, <1>4, <1>5, <1>6, <1>7, <1>8, <1>9, <1>10, <1>11, ZenonT(60) DEF Next, Acquire, Dispatch

\* Whoever holds a slot is counted on its sandbox.
LEMMA SlotPositive ==
    ASSUME CountingLaws, IInv
    PROVE  SlotsCounted
<1> SUFFICES ASSUME NEW r \in Request, slot[r] \in Sandbox
             PROVE  inFlight[slot[r]] \in Nat \ {0}
  BY Zenon DEF SlotsCounted
<1> DEFINE H == {q \in Request : slot[q] = slot[r]}
<1>2. IsFiniteSet(H) /\ r \in H
  BY PoolAssumption, Zenon DEF CountingLaws
<1>3. inFlight[slot[r]] = Cardinality(H)
  BY Zenon DEF IInv, SlotAccounting
<1> HIDE DEF H
<1>4. Cardinality(H) \in Nat \ {0}
  BY <1>2, Zenon DEF CountingLaws
<1> QED
  BY <1>3, <1>4, Zenon

\* The sandboxes that p.active counts.
ActiveSet == {s \in Sandbox : Pooled(s) /\ ~draining[s]}

\* p.active follows the map and the drains.
LEMMA ActiveStep ==
    ASSUME CountingLaws, IInv, [Next]_vars
    PROVE  ActiveExact'
<1>0. /\ active = Cardinality(ActiveSet) /\ draining \in [Sandbox -> BOOLEAN]
      /\ ActiveSet \subseteq Sandbox /\ IsFiniteSet(ActiveSet)
  <2>1. ActiveSet \in SUBSET Sandbox
    BY Zenon DEF ActiveSet
  <2>2. IsFiniteSet(ActiveSet)
    BY <2>1, PoolAssumption, Zenon DEF CountingLaws
  <2> QED
    BY <2>1, <2>2, Zenon DEF IInv, TypeOK, ActiveExact, ActiveSet
<1>a. ASSUME active' = Cardinality(ActiveSet') PROVE ActiveExact'
  BY <1>a, Zenon DEF ActiveExact, ActiveSet
<1>b. ASSUME NEW s \in Sandbox, s \notin ActiveSet, ActiveSet' = ActiveSet \cup {s},
             active' = active + 1
      PROVE  ActiveExact'
  BY <1>0, <1>a, <1>b, ZenonT(60) DEF CountingLaws
<1>c. ASSUME NEW s \in Sandbox, s \in ActiveSet, ActiveSet' = ActiveSet \ {s},
             active' = active - 1
      PROVE  ActiveExact'
  BY <1>0, <1>a, <1>c, Zenon DEF CountingLaws
<1>d. ASSUME ActiveSet' = ActiveSet, active' = active PROVE ActiveExact'
  BY <1>0, <1>a, <1>d, Zenon
<1>1. ASSUME UNCHANGED <<sandboxes, draining, active>> PROVE ActiveExact'
  <2>1. ActiveSet' = ActiveSet
    BY <1>1, Zenon DEF ActiveSet, Pooled
  <2> QED
    BY <1>1, <1>d, <2>1, Zenon
<1>2. ASSUME NEW s \in Sandbox, AddNew(s) \/ SyncAdd(s) PROVE ActiveExact'
  <2>1. draining' = draining
    BY <1>2, Zenon DEF AddNew, SyncAdd, drainVars
  <2>2. CASE sandboxes[IDOf[s]] = NoSandbox /\ Insert(s)
    <3>1. \A t \in Sandbox : Pooled(t)' <=> (t = s \/ Pooled(t))
      BY <2>2, InsertPooled, ZenonT(60) DEF Insert
    <3>2. ~Pooled(s) /\ ~draining[s]
      BY <2>2, PoolAssumption, Zenon DEF Insert, Pooled, IInv, MapInv
    <3>3. s \notin ActiveSet /\ ActiveSet' = ActiveSet \cup {s}
      BY <2>1, <3>1, <3>2, Zenon DEF ActiveSet
    <3> QED
      BY <1>b, <2>2, <3>3, Zenon DEF Insert
  <2>3. CASE UNCHANGED mapVars
    BY <1>1, <2>1, <2>3, Zenon DEF mapVars
  <2> QED
    BY <1>2, <2>2, <2>3, Zenon DEF AddNew, SyncAdd
<1>3. ASSUME NEW s \in Sandbox, SyncDrop(s) \/ RemoveSandbox(s) PROVE ActiveExact'
  <2>1. draining' = draining /\ Pooled(s)
    BY <1>3, Zenon DEF SyncDrop, RemoveSandbox, Unwanted, drainVars
  <2>2. \A t \in Sandbox : Pooled(t)' <=> (t # s /\ Pooled(t))
    BY <1>3, <2>1, DeletePooled, Zenon DEF SyncDrop, RemoveSandbox
  <2>3. CASE draining[s]
    <3>1. ActiveSet' = ActiveSet
      BY <2>1, <2>2, <2>3, Zenon DEF ActiveSet
    <3>2. active' = active
      BY <1>3, <2>3, Zenon DEF SyncDrop, RemoveSandbox, Unwanted
    <3> QED
      BY <1>d, <3>1, <3>2, Zenon
  <2>4. CASE ~draining[s]
    <3>1. s \in ActiveSet /\ ActiveSet' = ActiveSet \ {s}
      BY <2>1, <2>2, <2>4, Zenon DEF ActiveSet
    <3>2. active' = active - 1
      BY <1>3, <2>4, Zenon DEF SyncDrop, RemoveSandbox
    <3> QED
      BY <1>c, <3>1, <3>2, Zenon
  <2> QED
    BY <2>3, <2>4, Zenon
<1>4. ASSUME NEW d \in Drainer, NEW s \in Sandbox, DrainBegin(d, s) PROVE ActiveExact'
  <2>1. /\ sandboxes' = sandboxes /\ Pooled(s) /\ ~draining[s] /\ active' = active - 1
        /\ draining' = [draining EXCEPT ![s] = TRUE]
    BY <1>4, Zenon DEF DrainBegin
  <2>2. \A t \in Sandbox : (Pooled(t)' <=> Pooled(t)) /\ (draining'[t] <=> (t = s \/ draining[t]))
    BY <1>0, <2>1, Zenon DEF Pooled
  <2>3. s \in ActiveSet /\ ActiveSet' = ActiveSet \ {s}
    BY <2>1, <2>2, Zenon DEF ActiveSet
  <2> QED
    BY <1>c, <2>1, <2>3, Zenon
<1>5. ASSUME NEW d \in Drainer, DrainUndo(d) PROVE ActiveExact'
  <2> DEFINE s == victim[d]
  <2>1. sandboxes' = sandboxes /\ s \in Sandbox /\ draining[s]
    BY <1>5, UndoEffect, ZenonT(60) DEF DrainUndo
  <2>2. CASE UNCHANGED <<draining, active>>
    BY <1>1, <2>1, <2>2, Zenon
  <2>3. CASE Pooled(s) /\ draining' = [draining EXCEPT ![s] = FALSE] /\ active' = active + 1
    <3>1. \A t \in Sandbox : (Pooled(t)' <=> Pooled(t)) /\ (draining'[t] <=> (t # s /\ draining[t]))
      BY <1>0, <2>1, <2>3, Zenon DEF Pooled
    <3>2. s \notin ActiveSet /\ ActiveSet' = ActiveSet \cup {s}
      BY <2>1, <2>3, <3>1, Zenon DEF ActiveSet
    <3> QED
      BY <1>b, <2>1, <2>3, <3>2, Zenon
  <2> QED
    BY <1>5, <2>2, <2>3, UndoEffect, Zenon
<1>6. ASSUME NEW d \in Drainer, DrainFinish(d) PROVE ActiveExact'
  <2>1. draining' = draining /\ active' = active
    BY <1>6, Zenon DEF DrainFinish
  <2>2. victim[d] \in Sandbox /\ draining[victim[d]]
    BY <1>6, DrainHasVictim, Zenon DEF DrainFinish
  <2>3. \A t \in Sandbox : ~draining[t] => (Pooled(t)' <=> Pooled(t))
    <3>1. CASE UNCHANGED sandboxes
      BY <3>1, Zenon DEF Pooled
    <3>2. CASE Pooled(victim[d]) /\ sandboxes' = [sandboxes EXCEPT ![IDOf[victim[d]]] = NoSandbox]
      BY <2>2, <3>2, DeletePooled, ZenonT(60)
    <3> QED
      BY <1>6, <3>1, <3>2, Zenon DEF DrainFinish
  <2>4. ActiveSet' = ActiveSet
    BY <2>1, <2>3, Zenon DEF ActiveSet
  <2> QED
    BY <1>d, <2>1, <2>4, Zenon
<1>7. CASE Configure
  BY <1>1, <1>7, Zenon
     DEF Configure, ConfigureBegin, ConfigureStep, ConfigureEnd, mapVars, drainVars
<1>8. CASE SyncDropped \/ SyncEnd \/ \E targets \in SyncTargets : SyncBegin(targets)
  BY <1>1, <1>8, Zenon DEF SyncDropped, SyncEnd, SyncBegin, mapVars, drainVars
<1>9. CASE Dispatch \/ Close \/ \E s \in Sandbox : AddExisting(s)
  BY <1>1, <1>9, Zenon
     DEF Dispatch, DispatchExpired, DispatchGrant, DispatchDone, Close, AddExisting, mapVars,
         drainVars
<1>10. CASE \E r \in Request : Acquire(r) \/ Release(r) \/ Expire(r)
  BY <1>1, <1>10, Zenon
     DEF Acquire, AcquireRefused, AcquireDirect, AcquireQueued, ReceiveResult, CancelQueued,
         Release, Expire, mapVars, drainVars
<1>11. CASE \E d \in Drainer : (\E i \in ID : DrainRefused(d, i)) \/ DrainComplete(d)
  BY <1>1, <1>11, Zenon DEF DrainRefused, DrainComplete, mapVars
<1>12. CASE UNCHANGED vars
  <2>1. sandboxes' = sandboxes /\ draining' = draining /\ active' = active
    BY <1>12, Zenon DEF vars
  <2> QED
    BY <1>1, <2>1, Zenon
<1> QED
  BY <1>2, <1>3, <1>4, <1>5, <1>6, <1>7, <1>8, <1>9, <1>10, <1>11, <1>12, ZenonT(60)
     DEF Next, Sync, Drain

\* A new pool satisfies every part.
LEMMA InitIInv ==
    ASSUME CountingLaws, Init
    PROVE  IInv
<1>1. TypeOK
  <2>1. limit \in Nat \ {0} /\ queueDepth \in Nat \ {0}
    BY PoolAssumption DEF Init, NormalizeLimit, NormalizeDepth
  <2>2. ready \in Seq(Sandbox) /\ pending \in Seq(Request)
    BY EmptyList, Zenon DEF Init
  <2>3. /\ sandboxes \in [ID -> Sandbox \cup {NoSandbox}]
        /\ slot \in [Request -> Sandbox \cup {NoSandbox}]
        /\ victim \in [Drainer -> Sandbox \cup {NoSandbox}]
    BY Zenon DEF Init
  <2>4. /\ inFlight \in [Sandbox -> Int] /\ onReady \in [Sandbox -> BOOLEAN]
        /\ draining \in [Sandbox -> BOOLEAN] /\ expired \in [Request -> BOOLEAN]
    BY DEF Init
  <2>5. /\ drained \in [Sandbox -> {"nil", "open", "closed"}]
        /\ call \in [Request -> {"idle", "queued", "answered", "held", "returned"}]
        /\ drain \in [Drainer -> {"idle", "waiting", "stopping", "returned"}]
    BY Zenon DEF Init
  <2>6. /\ mu \in {"free", "configure", "drop", "add", "dispatch"} /\ closed \in BOOLEAN
        /\ todo \subseteq Sandbox \cup ID /\ allocated \subseteq Sandbox
    BY Zenon DEF Init
  <2>7. active \in Int /\ executing \in Int
    BY DEF Init
  <2> QED
    BY <2>1, <2>2, <2>3, <2>4, <2>5, <2>6, <2>7, Zenon DEF TypeOK
<1>2. QueueExact /\ LeaseInv
  BY EmptyList, Zenon DEF Init, QueueExact, LeaseInv
<1>3. SlotAccounting
  <2>1. \A s \in Sandbox : {r \in Request : slot[r] = s} = {}
    BY PoolAssumption, Zenon DEF Init
  <2>2. {r \in Request : slot[r] # NoSandbox} = {}
    BY Zenon DEF Init
  <2> QED
    BY <2>1, <2>2, ZenonT(60) DEF Init, SlotAccounting, CountingLaws
<1>4. ListInv /\ FlagInv
  BY EmptyList, PoolAssumption, Zenon DEF Init, ListInv, FlagInv, Pooled
<1>5. MapInv /\ LoopInv /\ DrainInv
  BY Zenon DEF Init, MapInv, LoopInv, DrainInv
<1>6. ActiveExact
  <2>1. {s \in Sandbox : Pooled(s) /\ ~draining[s]} = {}
    BY PoolAssumption, Zenon DEF Init, Pooled
  <2> QED
    BY <2>1, ZenonT(60) DEF Init, ActiveExact, CountingLaws
<1> QED
  BY <1>1, <1>2, <1>3, <1>4, <1>5, <1>6, Zenon DEF IInv

\* Every step of the pool keeps IInv.
LEMMA PoolStep ==
    ASSUME CountingLaws, IInv, [Next]_vars
    PROVE  IInv'
  BY TypeStep, MapStep, QueueStep, SlotStep, ListStep, FlagStep, LoopStep, DrainStep,
     ActiveStep, SlotPositive DEF IInv

\* The grants of one step.
LEMMA GrantStep ==
    ASSUME CountingLaws, IInv, Next
    PROVE  \A s \in Sandbox : inFlight'[s] > inFlight[s] =>
             Pooled(s) /\ ~draining[s] /\ inFlight'[s] <= limit /\ ~closed
<1> DEFINE A == \A s \in Sandbox : inFlight'[s] > inFlight[s] =>
                   Pooled(s) /\ ~draining[s] /\ inFlight'[s] <= limit /\ ~closed
<1>0. inFlight \in [Sandbox -> Int] /\ limit \in Nat
  BY Zenon DEF IInv, TypeOK
<1>1. CASE inFlight' = inFlight
  BY <1>0, <1>1
<1>2. CASE (\E r \in Request : AcquireDirect(r)) \/ DispatchGrant
  BY <1>0, <1>2, GrantEffect DEF Available
<1>3. ASSUME NEW r \in Request, Release(r) PROVE A
  BY <1>0, <1>3, ReleaseEffect, SlotPositive, SMTT(60)
<1>4. ASSUME Configure \/ Sync PROVE A
  <2>1. Configure => inFlight' = inFlight
    BY ZenonT(60) DEF Configure, ConfigureBegin, ConfigureStep, ConfigureEnd, slotVars
  <2>2. Sync => inFlight' = inFlight
    BY ZenonT(60) DEF Sync, SyncBegin, SyncDrop, SyncDropped, SyncAdd, SyncEnd, slotVars
  <2> QED
    BY <1>1, <1>4, <2>1, <2>2, ZenonT(60)
<1>5. CASE \/ DispatchExpired \/ DispatchDone \/ Close \/ \E d \in Drainer : Drain(d)
           \/ \E s \in Sandbox : AddNew(s) \/ AddExisting(s) \/ RemoveSandbox(s)
  BY <1>1, <1>5, ZenonT(60)
     DEF DispatchExpired, DispatchDone, Close, Drain, DrainRefused, DrainBegin,
         DrainComplete, DrainUndo, DrainFinish, AddNew, AddExisting, RemoveSandbox, slotVars
<1>6. CASE \E r \in Request : \/ AcquireRefused(r) \/ AcquireQueued(r) \/ ReceiveResult(r)
                              \/ CancelQueued(r) \/ Expire(r)
  BY <1>1, <1>6, Zenon
     DEF AcquireRefused, AcquireQueued, ReceiveResult, CancelQueued, Expire, slotVars
<1> QED
  BY <1>2, <1>3, <1>4, <1>5, <1>6, ZenonT(60) DEF Next, Acquire, Dispatch

----------------------------------------------------------------------------
(* The signals of PoolSignals.tla *)

SignalInv == IInv /\ SignalTypeOK /\ HighWaterCovers /\ WakeNotLost

\* The larger of two numbers, as NoteDemand and TrackPeak take it.
LEMMA MaxOfTwo ==
    ASSUME NEW a \in Nat, NEW b \in Nat
    PROVE  Max({a, b}) \in Nat /\ Max({a, b}) = IF a >= b THEN a ELSE b
<1> DEFINE m == IF a >= b THEN a ELSE b
<1>1. m \in {a, b} /\ \A y \in {a, b} : m >= y
  OBVIOUS
<1>2. \A x \in {a, b} : (\A y \in {a, b} : x >= y) => x = m
  OBVIOUS
<1>3. Max({a, b}) = m
  BY <1>1, <1>2, Zenon DEF Max
<1> QED
  BY <1>3, Zenon

\* p.executing and the length of the queue are counts.
LEMMA DemandCounts ==
    ASSUME CountingLaws, IInv
    PROVE  executing \in Nat /\ Len(pending) \in Nat /\ Demand \in Nat
<1>1. {r \in Request : slot[r] # NoSandbox} \in SUBSET Request /\ IsFiniteSet(Request)
  BY PoolAssumption, Zenon
<1>2. executing \in Nat
  BY <1>1, Zenon DEF IInv, SlotAccounting, CountingLaws
<1>3. Len(pending) \in Nat
  BY DEF IInv, TypeOK
<1> QED
  BY <1>2, <1>3 DEF Demand

\* Each step of the signals is a step of the pool or leaves it alone.
LEMMA SignalStepIsPoolStep ==
    ASSUME [SignalNext]_<<vars, signalVars>>
    PROVE  [Next]_vars
<1>1. ASSUME NEW r \in Request, SignalDirect(r) \/ SignalQueued(r) \/ SignalReceive(r)
                                \/ SignalCancel(r) \/ SignalRelease(r)
      PROVE  Next
  BY <1>1, Zenon DEF SignalDirect, SignalQueued, SignalReceive, SignalCancel, SignalRelease, Next, Acquire
<1>2. CASE SignalGrant \/ SignalRest
  BY <1>2, Zenon DEF SignalGrant, SignalRest, Next, Acquire, Dispatch
<1>3. CASE (\E n \in notifying : Notify(n)) \/ SetDemandWake \/ TakeWake \/ TakeHighWater
  BY <1>3, Zenon DEF Notify, SetDemandWake, TakeWake, TakeHighWater
<1> QED
  BY <1>1, <1>2, <1>3, Zenon DEF SignalNext

\* Methods that leave the signals alone do not fill an empty queue.
LEMMA RestKeepsEmpty ==
    ASSUME IInv, SignalRest, pending' # <<>>
    PROVE  pending # <<>>
<1>1. CASE DispatchExpired
  BY <1>1, Zenon DEF DispatchExpired, IInv, LoopInv
<1>2. CASE Close
  BY <1>2, Zenon DEF Close
<1>3. CASE DispatchDone \/ Configure \/ Sync
  BY <1>3, Zenon
     DEF DispatchDone, Configure, ConfigureBegin, ConfigureStep, ConfigureEnd, Sync, SyncBegin, SyncDrop,
         SyncDropped, SyncAdd, SyncEnd, callVars
<1>4. CASE \/ \E r \in Request : AcquireRefused(r) \/ Expire(r)
           \/ \E s \in Sandbox : AddNew(s) \/ AddExisting(s) \/ RemoveSandbox(s)
           \/ \E d \in Drainer : Drain(d)
  BY <1>4, ZenonT(60)
     DEF AcquireRefused, Expire, AddNew, AddExisting, RemoveSandbox, Drain, DrainRefused, DrainBegin,
         DrainComplete, DrainUndo, DrainFinish, callVars
<1> QED
  BY <1>1, <1>2, <1>3, <1>4, Zenon DEF SignalRest

\* The demand after a step that admits a request, and after a grant.
LEMMA DemandStep ==
    ASSUME CountingLaws, SignalInv
    PROVE  /\ \A r \in Request : SignalDirect(r) => Demand' = Demand + 1
           /\ \A r \in Request : SignalQueued(r) => Demand' = Demand + 1
           /\ SignalGrant => Demand' = Demand
<1>0. IInv /\ executing \in Nat /\ pending \in Seq(Request)
  BY DemandCounts, Zenon DEF SignalInv, IInv, TypeOK
<1>1. ASSUME NEW r \in Request, SignalDirect(r) PROVE Demand' = Demand + 1
  <2>1. executing' = executing + 1 /\ pending' = pending
    BY <1>1, Zenon DEF SignalDirect, AcquireDirect, AcquireLocked
  <2> QED
    BY <1>0, <2>1 DEF Demand
<1>2. ASSUME NEW r \in Request, SignalQueued(r) PROVE Demand' = Demand + 1
  <2>1. executing' = executing /\ pending' = Append(pending, r)
    BY <1>2, Zenon DEF SignalQueued, AcquireQueued, slotVars
  <2> QED
    BY <1>0, <2>1 DEF Demand
<1>3. ASSUME SignalGrant PROVE Demand' = Demand
  <2>1. executing' = executing + 1 /\ pending' = Tail(pending) /\ pending # <<>>
    BY <1>0, <1>3, Zenon DEF SignalGrant, DispatchGrant, AcquireLocked, IInv, LoopInv
  <2> QED
    BY <1>0, <2>1 DEF Demand
<1> QED
  BY <1>1, <1>2, <1>3, Zenon

\* acquireLocked and the queueing branch of Acquire raise the mark at least to
\* the demand they leave behind.
LEMMA HighWaterStep ==
    ASSUME CountingLaws, SignalInv, [SignalNext]_<<vars, signalVars>>
    PROVE  (highWater \in Nat /\ peak \in Nat /\ HighWaterCovers)'
<1>0. highWater \in Nat /\ peak \in Nat /\ highWater >= peak /\ Demand \in Nat /\ Demand + 1 \in Nat
  BY DemandCounts DEF SignalInv, SignalTypeOK, HighWaterCovers
<1>1. ASSUME NoteDemand(Demand + 1), TrackPeak, Demand' = Demand + 1 \/ Demand' = Demand
      PROVE  (highWater \in Nat /\ peak \in Nat /\ HighWaterCovers)'
  <2>1. /\ highWater' = IF highWater >= Demand + 1 THEN highWater ELSE Demand + 1
        /\ peak' = IF peak >= Demand' THEN peak ELSE Demand'
    <3>1. Demand' \in Nat
      BY <1>0, <1>1, Zenon
    <3>2. highWater' = Max({highWater, Demand + 1}) /\ peak' = Max({peak, Demand'})
      BY <1>1, Zenon DEF NoteDemand, TrackPeak
    <3>3. Max({highWater, Demand + 1}) = IF highWater >= Demand + 1 THEN highWater ELSE Demand + 1
      BY <1>0, MaxOfTwo, Zenon
    <3>4. Max({peak, Demand'}) = IF peak >= Demand' THEN peak ELSE Demand'
      BY <1>0, <3>1, MaxOfTwo, Zenon
    <3> QED
      BY <3>2, <3>3, <3>4, Zenon
  <2>2. \A d, e, h, p \in Nat :
           LET m == IF h >= d + 1 THEN h ELSE d + 1
               n == IF p >= e THEN p ELSE e
           IN  (h >= p /\ (e = d + 1 \/ e = d)) => m \in Nat /\ n \in Nat /\ m >= n
    OBVIOUS
  <2>3. Demand' \in Nat
    BY <1>0, <1>1, Zenon
  <2> QED
    BY <1>0, <1>1, <2>1, <2>2, <2>3, Zenon DEF HighWaterCovers
<1>2. ASSUME NEW r \in Request, SignalDirect(r) \/ SignalQueued(r)
      PROVE  (highWater \in Nat /\ peak \in Nat /\ HighWaterCovers)'
  BY <1>1, <1>2, DemandStep, Zenon DEF SignalDirect, SignalQueued, AcquireSignals
<1>3. CASE SignalGrant
  BY <1>1, <1>3, DemandStep, Zenon DEF SignalGrant, AcquireSignals
<1>4. CASE TakeHighWater
  BY <1>0, <1>4 DEF TakeHighWater, HighWaterCovers
<1>5. CASE highWater' = highWater /\ peak' = peak
  BY <1>0, <1>5, Zenon DEF HighWaterCovers
<1>6. ASSUME NEW r \in Request, SignalReceive(r) \/ SignalCancel(r) \/ SignalRelease(r)
      PROVE  (highWater \in Nat /\ peak \in Nat /\ HighWaterCovers)'
  BY <1>5, <1>6, Zenon DEF SignalReceive, SignalCancel, SignalRelease, signalVars
<1>7. CASE SignalRest \/ (\E n \in notifying : Notify(n)) \/ SetDemandWake \/ TakeWake
           \/ UNCHANGED <<vars, signalVars>>
  BY <1>5, <1>7, Zenon DEF SignalRest, Notify, SetDemandWake, TakeWake, signalVars
<1> QED
  BY <1>2, <1>3, <1>4, <1>6, <1>7, Zenon DEF SignalNext

\* The other types.
LEMMA SignalTypeStep ==
    ASSUME CountingLaws, SignalInv, [SignalNext]_<<vars, signalVars>>
    PROVE  SignalTypeOK'
<1>0. SignalTypeOK /\ (highWater \in Nat /\ peak \in Nat)'
  BY HighWaterStep, Zenon DEF SignalInv
<1>a. ASSUME AcquireSignals PROVE accepted' \in Nat /\ lastActivity' \in BOOLEAN
  <2>1. accepted' \in Nat
    BY <1>0, <1>a DEF AcquireSignals, SignalTypeOK
  <2>2. lastActivity' \in BOOLEAN
    BY <1>a, Zenon DEF AcquireSignals
  <2> QED
    BY <2>1, <2>2, Zenon
<1>1. ASSUME NEW r \in Request, SignalDirect(r) \/ SignalQueued(r) PROVE SignalTypeOK'
  BY <1>0, <1>1, <1>a, ZenonT(60) DEF SignalTypeOK, SignalDirect, SignalQueued
<1>2. ASSUME NEW r \in Request, SignalReceive(r) \/ SignalCancel(r) \/ SignalRelease(r)
      PROVE  SignalTypeOK'
  BY <1>0, <1>2, Zenon DEF SignalTypeOK, SignalReceive, SignalCancel, SignalRelease, signalVars
<1>3. CASE SignalGrant \/ SignalRest
  BY <1>0, <1>3, <1>a, ZenonT(60) DEF SignalTypeOK, SignalGrant, SignalRest, signalVars
<1>4. CASE (\E n \in notifying : Notify(n)) \/ SetDemandWake \/ TakeWake \/ TakeHighWater
           \/ UNCHANGED <<vars, signalVars>>
  BY <1>0, <1>4, Zenon DEF SignalTypeOK, Notify, SetDemandWake, TakeWake, TakeHighWater, signalVars
<1> QED
  BY <1>1, <1>2, <1>3, <1>4, Zenon DEF SignalNext

\* The call that fills the queue is about to notify, a notify call leaves a
\* token, and a token taken wakes the loop.
LEMMA WakeStep ==
    ASSUME CountingLaws, SignalInv, [SignalNext]_<<vars, signalVars>>
    PROVE  WakeNotLost'
<1>0. IInv /\ SignalTypeOK /\ WakeNotLost
  BY Zenon DEF SignalInv
<1>1. ASSUME demandWake' = demandWake, seen' = seen, wake' = wake, notifying' = notifying,
             pending' # <<>> => pending # <<>>
      PROVE  WakeNotLost'
  BY <1>0, <1>1, Zenon DEF WakeNotLost
<1>2. ASSUME NEW r \in Request, SignalQueued(r) PROVE WakeNotLost'
  <2>1. CASE pending = <<>>
    BY <1>2, <2>1, Zenon DEF SignalQueued, MustNotify, WakeNotLost
  <2>2. CASE pending # <<>>
    <3>1. seen' = seen /\ wake' = wake /\ demandWake' = demandWake /\ notifying' = notifying
      BY <1>0, <1>2, <2>2, Zenon DEF SignalQueued, MustNotify, SignalTypeOK
    <3> QED
      BY <1>1, <2>2, <3>1, Zenon
  <2> QED
    BY <2>1, <2>2, Zenon
<1>3. ASSUME NEW r \in Request, SignalCancel(r) PROVE WakeNotLost'
  <2>1. r \in Range(pending)
    BY <1>0, <1>3, Zenon DEF SignalCancel, CancelQueued, IInv, QueueExact
  <2>2. pending # <<>>
    BY <2>1, EmptyList, Zenon
  <2> QED
    BY <1>1, <1>3, <2>2, Zenon DEF SignalCancel
<1>4. ASSUME NEW r \in Request, SignalDirect(r) \/ SignalReceive(r) \/ SignalRelease(r)
      PROVE  WakeNotLost'
  BY <1>1, <1>4, Zenon
     DEF SignalDirect, SignalReceive, SignalRelease, AcquireDirect, ReceiveResult, Release, signalVars
<1>5. CASE SignalGrant
  <2>1. pending # <<>>
    BY <1>0, <1>5, Zenon DEF SignalGrant, DispatchGrant, IInv, LoopInv
  <2> QED
    BY <1>1, <1>5, <2>1, Zenon DEF SignalGrant
<1>6. CASE SignalRest
  BY <1>0, <1>1, <1>6, RestKeepsEmpty, Zenon DEF SignalRest, signalVars
<1>7. CASE (\E n \in notifying : Notify(n)) \/ TakeWake
  BY <1>7, Zenon DEF Notify, TakeWake, WakeNotLost
<1>8. CASE SetDemandWake
  <2> SUFFICES ASSUME pending' # <<>> PROVE notifying' # {}
    BY Zenon DEF WakeNotLost
  <2>1. pending # <<>>
    BY <1>8, Zenon DEF SetDemandWake, vars, callVars
  <2>2. Demand > 0
    BY <1>0, <2>1, DemandCounts DEF Demand, IInv, TypeOK
  <2> QED
    BY <1>8, <2>2, Zenon DEF SetDemandWake
<1>9. CASE TakeHighWater \/ UNCHANGED <<vars, signalVars>>
  BY <1>1, <1>9, Zenon DEF TakeHighWater, vars, callVars, signalVars
<1> QED
  BY <1>2, <1>3, <1>4, <1>5, <1>6, <1>7, <1>8, <1>9, ZenonT(60) DEF SignalNext

-----------------------------------------------------------------------------
(* The theorems *)

INSTANCE FiniteSetTheorems

\* The laws of counting that the lemmas assume.
LEMMA Counting == CountingLaws
<1>1. IsFiniteSet({}) /\ Cardinality({}) = 0
  BY FS_EmptySet, Zenon
<1>2. ASSUME NEW S, IsFiniteSet(S)
      PROVE  Cardinality(S) \in Nat /\ (Cardinality(S) = 0 <=> S = {})
  BY <1>2, FS_CardinalityType, FS_EmptySet, ZenonT(60)
<1>3. ASSUME NEW S, IsFiniteSet(S), NEW T \in SUBSET S
      PROVE  IsFiniteSet(T) /\ Cardinality(T) <= Cardinality(S)
  BY <1>3, FS_Subset, ZenonT(60)
<1>4. ASSUME NEW S, IsFiniteSet(S), NEW x, x \notin S
      PROVE  IsFiniteSet(S \cup {x}) /\ Cardinality(S \cup {x}) = Cardinality(S) + 1
  BY <1>4, FS_AddElement, Zenon
<1>5. ASSUME NEW S, IsFiniteSet(S), NEW x \in S
      PROVE  Cardinality(S \ {x}) = Cardinality(S) - 1
  BY <1>5, FS_RemoveElement, ZenonT(60)
<1> QED
  BY <1>1, <1>2, <1>3, <1>4, <1>5, Zenon DEF CountingLaws

\* IInv is an invariant of every pool: what every method of pool.go relies on
\* under p.mu holds through every interleaving of calls.
THEOREM PoolInvariant == Spec => []IInv
<1>1. Init => IInv
  BY InitIInv, Counting, Zenon
<1>2. IInv /\ [Next]_vars => IInv'
  BY PoolStep, Counting, ZenonT(60)
<1> QED
  BY <1>1, <1>2, PTL DEF Spec

\* Type correctness, the exact slot and sandbox counts, and the queue that holds
\* exactly the waiting calls are parts of IInv.
THEOREM PoolCounts == Spec => [](TypeOK /\ SlotAccounting /\ ActiveExact /\ QueueExact)
<1>1. IInv => TypeOK /\ SlotAccounting /\ ActiveExact /\ QueueExact
  BY Zenon DEF IInv
<1> QED
  BY <1>1, PoolInvariant, PTL

\* Whenever p.mu is free the ready list of an open pool holds exactly the
\* sandboxes that may take a request.
THEOREM ReadyListExact == Spec => []ReadyExact
<1>1. IInv => ReadyExact
  <2> SUFFICES ASSUME IInv PROVE ReadyExact
    BY Zenon
  <2>1. IsInjective(ready) /\ Range(ready) \subseteq Sandbox
    BY RangeInSet, ZenonT(60) DEF IInv, ListInv, TypeOK
  <2>2. ASSUME mu = "free", ~closed
        PROVE  Range(ready) = {s \in Sandbox : Pooled(s) /\ Available(s)}
    <3>1. \A s \in Sandbox : s \in Range(ready) <=> onReady[s]
      BY <2>2, Zenon DEF IInv, ListInv
    <3>2. \A s \in Sandbox : onReady[s] <=> Pooled(s) /\ Available(s)
      BY <2>2, Zenon DEF IInv, FlagInv
    <3> QED
      BY <2>1, <3>1, <3>2, ZenonT(60)
  <2> QED
    BY <2>1, <2>2, Zenon DEF ReadyExact
<1> QED
  BY <1>1, PoolInvariant, PTL

\* No request waits while a sandbox has room, whatever the order of releases,
\* cancellations, drains, reconfigurations and synchronisations.
THEOREM PoolWorkConserving == Spec => []WorkConserving
<1>1. IInv => WorkConserving
  <2> SUFFICES ASSUME IInv, mu = "free", pending # <<>>, NEW s \in Sandbox, Pooled(s)
               PROVE  ~Available(s)
    BY Zenon DEF WorkConserving
  <2>1. ~closed /\ ~onReady[s]
    BY Zenon DEF IInv, LoopInv, TypeOK
  <2> QED
    BY <2>1, Zenon DEF IInv, FlagInv
<1> QED
  BY <1>1, PoolInvariant, PTL

\* A sandbox is stopped only when nothing runs on it, the release that empties
\* it wakes its Drain, and no release panics.
THEOREM DrainSafety == Spec => [](DrainedIsIdle /\ DrainSignalled /\ NoPanic)
<1>1. IInv => DrainedIsIdle /\ DrainSignalled
  BY Zenon DEF IInv, DrainInv, DrainedIsIdle, DrainSignalled
<1>2. IInv => NoPanic
  <2> SUFFICES ASSUME IInv, NEW r \in Request, slot[r] # NoSandbox
               PROVE  /\ inFlight[slot[r]] > 0
                      /\ ~closed /\ draining[slot[r]] => drained[slot[r]] = "open"
    BY Zenon DEF NoPanic
  <2>1. slot[r] \in Sandbox
    BY Zenon DEF IInv, TypeOK
  <2>2. inFlight[slot[r]] \in Nat \ {0}
    BY <2>1, SlotPositive, Counting, ZenonT(60) DEF SlotsCounted
  <2> QED
    BY <2>1, <2>2 DEF IInv, DrainInv
<1> QED
  BY <1>1, <1>2, PoolInvariant, PTL

\* Every grant is of a sandbox in the map that takes requests and is below the
\* limit of that moment.
THEOREM PoolGrantWithinLimit == Spec => GrantWithinLimit
<1>1. IInv /\ [Next]_vars =>
        [\A s \in Sandbox : inFlight'[s] > inFlight[s] =>
           Pooled(s) /\ ~draining[s] /\ inFlight'[s] <= limit /\ ~closed]_vars
  BY GrantStep, Counting, ZenonT(60)
<1> QED
  BY <1>1, PoolInvariant, PTL DEF Spec, GrantWithinLimit

\* The invariant of the pool and its signals.
LEMMA SignalInvariant == SignalSpec => []SignalInv
<1>1. SignalInit => SignalInv
  <2> SUFFICES ASSUME SignalInit PROVE SignalInv
    BY Zenon
  <2>1. IInv
    BY InitIInv, Counting, ZenonT(60) DEF SignalInit
  <2>2. highWater \in Nat /\ peak \in Nat /\ accepted \in Nat /\ HighWaterCovers
    BY DEF SignalInit, HighWaterCovers
  <2>3. SignalTypeOK
    BY <2>2, Zenon DEF SignalInit, SignalTypeOK
  <2>4. WakeNotLost
    BY Zenon DEF SignalInit, WakeNotLost
  <2> QED
    BY <2>1, <2>2, <2>3, <2>4, ZenonT(60) DEF SignalInv
<1>2. SignalInv /\ [SignalNext]_<<vars, signalVars>> => SignalInv'
  <2> SUFFICES ASSUME SignalInv, [SignalNext]_<<vars, signalVars>> PROVE SignalInv'
    BY Zenon
  <2>1. IInv'
    BY SignalStepIsPoolStep, PoolStep, Counting, ZenonT(60) DEF SignalInv
  <2> QED
    BY <2>1, SignalTypeStep, HighWaterStep, WakeStep, Counting, ZenonT(60) DEF SignalInv
<1> QED
  BY <1>1, <1>2, PTL DEF SignalSpec

\* TakeHighWater never under-reports the demand since it was last taken.
THEOREM HighWaterMark == SignalSpec => []HighWaterCovers
<1>1. SignalInv => HighWaterCovers
  BY Zenon DEF SignalInv
<1> QED
  BY <1>1, SignalInvariant, PTL

\* A request that waits has woken the reconcile loop, or is about to.
THEOREM WakeUps == SignalSpec => []WakeNotLost
<1>1. SignalInv => WakeNotLost
  BY Zenon DEF SignalInv
<1> QED
  BY <1>1, SignalInvariant, PTL

\* The pool keeps its invariant with its signals: they only observe it.
THEOREM SignalsKeepPool == SignalSpec => []IInv
<1>1. SignalInv => IInv
  BY Zenon DEF SignalInv
<1> QED
  BY <1>1, SignalInvariant, PTL
==============================================================================
