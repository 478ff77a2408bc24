---------------------------- MODULE RoutingProofs ----------------------------
(***************************************************************************)
(* Where requests and sandboxes are sent, for any number of leaves and     *)
(* workers, any ring, bound and chain length: the leaf's schedulers        *)
(* (Schedulers) and the ingress's routing policies (RoutingPolicies), both *)
(* built on the ring of chbl (Ring).                                       *)
(***************************************************************************)
EXTENDS Schedulers, RoutingPolicies, FiniteSetTheorems, WellFoundedInduction, TLAPS

----------------------------------------------------------------------------
(* Least elements.                                                         *)

\* Every non-empty set of natural numbers has a least element.
LEMMA NatMin ==
    ASSUME NEW T \in SUBSET Nat, T # {}
    PROVE  \E x \in T : \A y \in T : x <= y
<1>1. PICK x \in T : \A y \in T : ~(<<y, x>> \in OpToRel(<, Nat))
  BY NatLessThanWellFounded, WFMin, Zenon
<1>2. \A y \in T : ~(y < x)
  <2> SUFFICES ASSUME NEW y \in T, y < x PROVE FALSE
    BY Zenon
  <2>1. <<y, x>> \in Nat \X Nat
    BY Zenon
  <2>2. <<y, x>> \in OpToRel(<, Nat)
    BY <2>1, Zenon DEF OpToRel
  <2> QED
    BY <1>1, <2>2, Zenon
<1> QED
  BY <1>2

\* Min is that element.
LEMMA MinIsLeast ==
    ASSUME NEW T \in SUBSET Nat, T # {}
    PROVE  Min(T) \in T /\ \A y \in T : Min(T) <= y
<1>1. \E x \in T : \A y \in T : x <= y
  BY NatMin, Zenon
<1> QED
  BY <1>1, Zenon DEF Min

\* A function into the natural numbers takes its least value on every non-empty
\* set.
LEMMA LeastValue ==
    ASSUME NEW S, S # {}, NEW f \in [S -> Nat]
    PROVE  \E w \in S : \A v \in S : f[w] <= f[v]
<1> DEFINE T == {f[w] : w \in S}
<1>1. T \in SUBSET Nat /\ T # {}
  BY Zenon
<1>2. PICK x \in T : \A y \in T : x <= y
  BY <1>1, NatMin, Zenon
<1>3. PICK w \in S : x = f[w]
  BY <1>2, Zenon
<1> QED
  BY <1>2, <1>3, Zenon

\* LeastLoaded is one of its candidates, and none has a lower load.
LEMMA LeastLoadedIsLeast ==
    ASSUME NEW S \in SUBSET Nat, S # {}, NEW loads, \A id \in S : loads[id] \in Nat
    PROVE  LeastLoaded(S, loads) \in S /\ \A id \in S : loads[LeastLoaded(S, loads)] <= loads[id]
<1> DEFINE f == [id \in S |-> loads[id]]
           best == {id \in S : \A other \in S : loads[id] <= loads[other]}
<1>1. \E w \in S : \A v \in S : f[w] <= f[v]
  <2>1. f \in [S -> Nat]
    BY Zenon
  <2> HIDE DEF f
  <2> QED
    BY <2>1, LeastValue, Zenon
<1>2. best \in SUBSET Nat /\ best # {}
  BY <1>1, Zenon
<1>3. Min(best) \in best
  BY <1>2, MinIsLeast, Zenon
<1>4. LeastLoaded(S, loads) = Min(best)
  BY Zenon DEF LeastLoaded
<1> QED
  BY <1>3, <1>4, Zenon

----------------------------------------------------------------------------
(* The placement policies.                                                 *)

SchedulerTypes ==
    /\ scheduler \in Schedulers /\ cursor \in Nat
    /\ report \in [WorkerID -> [known : BOOLEAN, up : BOOLEAN, signal : Nat, cached : BOOLEAN]]
    /\ starting \in [WorkerID -> Nat] /\ running \in [WorkerID -> Nat]

\* The scan from the cursor stops at a member of the set.
LEMMA ScanFinds ==
    ASSUME SchedulerTypes, NEW S \in SUBSET WorkerID, S # {}
    PROVE  FirstFrom(S) \in S
<1> DEFINE n == Cardinality(WorkerID)
           distance == [w \in S |-> (w - 1 - cursor + n) % n]
<1>1. n \in Nat /\ n # 0
  BY SchedulersAssumption, FS_EmptySet, FS_CardinalityType, Zenon
<1>2. distance \in [S -> Nat]
  <2>1. \A w \in S : w - 1 - cursor + n \in Int
    BY <1>1, SchedulersAssumption DEF SchedulerTypes
  <2> HIDE DEF n
  <2> QED
    BY <1>1, <2>1
<1>3. \E w \in S : \A v \in S : distance[w] <= distance[v]
  <2> HIDE DEF distance
  <2> QED
    BY <1>2, LeastValue, Zenon
<1> QED
  BY <1>3, Zenon DEF FirstFrom

\* In a non-empty set of workers there is one that no other is better than.
LEMMA BestExists ==
    ASSUME SchedulerTypes, NEW S \in SUBSET WorkerID, S # {}
    PROVE  \E w \in S : ~\E v \in S : coldStartLess(v, w)
<1> DEFINE f1 == [w \in S |-> starting[w]]
<1>0. \A w \in S : starting[w] \in Nat /\ observedPressure(w) \in Nat /\ Instances(w) \in Nat
  BY DEF SchedulerTypes, observedPressure, Instances
<1>1. PICK a \in S : \A v \in S : starting[a] <= starting[v]
  <2>1. f1 \in [S -> Nat]
    BY <1>0, Zenon
  <2>2. \E w \in S : \A v \in S : f1[w] <= f1[v]
    <3> HIDE DEF f1
    <3> QED
      BY <2>1, LeastValue, Zenon
  <2> QED
    BY <2>2, Zenon
<1> DEFINE S2 == {w \in S : starting[w] = starting[a]}
           f2 == [w \in S2 |-> observedPressure(w)]
<1>2. PICK b \in S2 : \A v \in S2 : observedPressure(b) <= observedPressure(v)
  <2>1. f2 \in [S2 -> Nat] /\ S2 # {}
    BY <1>0, Zenon
  <2>2. \E w \in S2 : \A v \in S2 : f2[w] <= f2[v]
    <3> HIDE DEF f2, S2
    <3> QED
      BY <2>1, LeastValue, Zenon
  <2> QED
    BY <2>2, Zenon
<1> DEFINE S3 == {w \in S2 : observedPressure(w) = observedPressure(b)}
           f3 == [w \in S3 |-> Instances(w)]
<1>3. PICK c \in S3 : \A v \in S3 : Instances(c) <= Instances(v)
  <2>1. f3 \in [S3 -> Nat] /\ S3 # {}
    BY <1>0, <1>2, Zenon
  <2>2. \E w \in S3 : \A v \in S3 : f3[w] <= f3[v]
    <3> HIDE DEF f3, S3
    <3> QED
      BY <2>1, LeastValue, Zenon
  <2> QED
    BY <2>2, Zenon
<1>4. ASSUME NEW v \in S, coldStartLess(v, c) PROVE FALSE
  BY <1>0, <1>1, <1>2, <1>3, <1>4 DEF coldStartLess
<1> QED
  BY <1>3, <1>4, Zenon

\* The cold-start order has a best worker among any that there are.
LEMMA BestIsOne ==
    ASSUME SchedulerTypes, NEW S \in SUBSET WorkerID, S # {}
    PROVE  coldStartBest(S) \in S /\ ~\E v \in S : coldStartLess(v, coldStartBest(S))
<1> DEFINE T == {w \in S : ~\E v \in S : coldStartLess(v, w)}
<1>1. T \in SUBSET WorkerID /\ T # {}
  BY BestExists, Zenon
<1>2. FirstFrom(T) \in T
  <2> HIDE DEF T
  <2> QED
    BY <1>1, ScanFinds, Zenon
<1> QED
  BY <1>2, Zenon DEF coldStartBest

\* PickWorker, policy by policy.
LEMMA SchedulersPick ==
    ASSUME SchedulerTypes, NEW position
    PROVE  PickWorker(position) \subseteq Eligible /\ (PickWorker(position) = {} <=> Eligible = {})
<1> DEFINE chosen == PickWorker(position)
<1>0. Eligible \in SUBSET WorkerID
  BY Zenon DEF Eligible
<1>1. CASE Eligible = {} /\ scheduler # "bounded_loads"
  BY <1>1, Zenon DEF PickWorker
<1>2. CASE Eligible # {} /\ scheduler = "balanced_round_robin"
  <2>1. chosen = {FirstFrom(Eligible)}
    BY <1>2, Zenon DEF PickWorker, balancedPick
  <2> QED
    BY <1>0, <1>2, <2>1, ScanFinds, ZenonT(60)
<1>3. CASE Eligible # {} /\ scheduler = "resource_aware"
  <2> DEFINE best == {w \in Eligible : \A v \in Eligible : observedPressure(w) <= observedPressure(v)}
             f == [w \in Eligible |-> observedPressure(w)]
  <2>1. chosen = {FirstFrom(best)}
    BY <1>3, Zenon DEF PickWorker, resourcePick
  <2>2. f \in [Eligible -> Nat]
    BY <1>0 DEF SchedulerTypes, observedPressure, Instances
  <2>3. \E w \in Eligible : \A v \in Eligible : f[w] <= f[v]
    <3> HIDE DEF f
    <3> QED
      BY <1>3, <2>2, LeastValue, Zenon
  <2>4. best # {} /\ best \in SUBSET WorkerID
    BY <1>0, <2>3, Zenon
  <2>5. FirstFrom(best) \in best
    <3> HIDE DEF best
    <3> QED
      BY <2>4, ScanFinds, Zenon
  <2> QED
    BY <1>3, <2>1, <2>5, Zenon
<1>4. CASE Eligible # {} /\ scheduler = "cold_start_aware"
  <2>1. chosen = {coldStartBest(Eligible)}
    BY <1>4, Zenon DEF PickWorker, coldStartPick
  <2> QED
    BY <1>0, <1>4, <2>1, BestIsOne, ZenonT(60)
<1>5. CASE Eligible # {} /\ scheduler = "reservation_aware"
  <2>1. chosen = {w \in Eligible : Eligible = {w} \/ \E v \in Eligible \ {w} : ~coldStartLess(v, w)}
    BY <1>5, Zenon DEF PickWorker, reservationPick
  <2>2. PICK w \in Eligible : ~\E v \in Eligible : coldStartLess(v, w)
    BY <1>0, <1>5, BestExists, Zenon
  <2>3. w \in chosen
    BY <2>1, <2>2, Zenon
  <2> QED
    BY <1>5, <2>1, <2>3, Zenon
<1>6. CASE Eligible # {} /\ scheduler = "image_aware"
  <2> DEFINE hits == {w \in Eligible : WorkerHasCachedImage(w)}
             from == IF hits # {} THEN hits ELSE Eligible
  <2>1. chosen = {coldStartBest(from)}
    BY <1>6, Zenon DEF PickWorker, imagePick
  <2>2. from \in SUBSET WorkerID /\ from # {} /\ from \subseteq Eligible
    BY <1>0, <1>6, Zenon
  <2>3. coldStartBest(from) \in from
    <3> HIDE DEF from
    <3> QED
      BY <2>2, BestIsOne, Zenon
  <2> QED
    BY <1>6, <2>1, <2>2, <2>3, ZenonT(60)
<1>7. CASE scheduler = "bounded_loads"
  <2> DEFINE loads == [w \in WorkerID |-> IF w \in Eligible THEN report[w].signal ELSE LoadBound + 1]
             target == Forward(workerRing, loads, LoadBound, WorkerChainLen, Home(workerRing, position))
             least == LeastLoaded(Eligible, loads)
  <2>1. chosen = {IF target \in Eligible THEN target ELSE least} \ {None}
    BY <1>7, Zenon DEF PickWorker, boundedPick
  <2>2. Eligible = {} => least = None
    BY Zenon DEF LeastLoaded
  <2>3. Eligible # {} => least \in Eligible
    <3>1. \A id \in Eligible : loads[id] \in Nat
      BY <1>0, Zenon DEF SchedulerTypes
    <3>2. Eligible \in SUBSET Nat
      BY <1>0, SchedulersAssumption, Zenon
    <3> HIDE DEF loads
    <3> QED
      BY <3>1, <3>2, LeastLoadedIsLeast, Zenon
  <2>4. None \notin Eligible
    BY <1>0, SchedulersAssumption, Zenon
  <2> HIDE DEF target, least
  <2> QED
    BY <2>1, <2>2, <2>3, <2>4, Zenon
<1> QED
  BY <1>1, <1>2, <1>3, <1>4, <1>5, <1>6, <1>7, ZenonT(60) DEF SchedulerTypes, Schedulers

\* Every step keeps the types; the worker a start is counted for is one of those
\* a policy may pick.
LEMMA SchedulerStep ==
    ASSUME SchedulerTypes, [SchedulerNext]_schedulerVars
    PROVE  SchedulerTypes'
<1>1. ASSUME NEW position \in WorkerPosition, StartSandbox(position)
      PROVE  SchedulerTypes'
  <2>1. PICK w \in PickWorker(position) :
          /\ cursor' = CursorAfter(w)
          /\ starting' = [starting EXCEPT ![w] = @ + 1]
          /\ UNCHANGED <<scheduler, report, running>>
    BY <1>1, Zenon DEF StartSandbox
  <2>2. w \in WorkerID /\ w \in Nat
    BY SchedulersPick, SchedulersAssumption, Zenon DEF Eligible
  <2>3. Cardinality(WorkerID) \in Nat /\ Cardinality(WorkerID) # 0
    BY <2>2, SchedulersAssumption, FS_EmptySet, FS_CardinalityType, Zenon
  <2>4. cursor' \in Nat
    BY <2>1, <2>2, <2>3 DEF CursorAfter, SchedulerTypes, Schedulers
  <2> QED
    BY <2>1, <2>2, <2>4 DEF SchedulerTypes
<1>2. ASSUME NEW w \in WorkerID, NEW committed \in BOOLEAN, Finish(w, committed)
      PROVE  SchedulerTypes'
  BY <1>2 DEF Finish, SchedulerTypes
<1>3. ASSUME NEW w \in WorkerID, Stop(w)
      PROVE  SchedulerTypes'
  BY <1>3 DEF Stop, SchedulerTypes
<1>4. ASSUME NEW w \in WorkerID, NEW up \in BOOLEAN, NEW cached \in BOOLEAN, NEW signal \in Signal,
             Report(w, up, signal, cached)
      PROVE  SchedulerTypes'
  BY <1>4, SchedulersAssumption, Zenon DEF Report, SchedulerTypes
<1>5. ASSUME NEW policy_ \in Schedulers, Reload(policy_)
      PROVE  SchedulerTypes'
  BY <1>5, Zenon DEF Reload, NoTelemetry, SchedulerTypes
<1>6. CASE UNCHANGED schedulerVars
  BY <1>6, Zenon DEF schedulerVars, SchedulerTypes
<1> QED
  BY <1>1, <1>2, <1>3, <1>4, <1>5, <1>6, Zenon DEF SchedulerNext

\* Whatever the policy, the reports, the starts in flight and the reloads that
\* led to a state, the policy picks a worker that can take a start, and finds one
\* whenever there is one.
THEOREM SchedulersPickEligible ==
    SchedulerSpec => []PickEligible
<1>1. SchedulerInit => SchedulerTypes
  BY DEF SchedulerInit, SchedulerTypes, NoTelemetry
<1>2. SchedulerTypes /\ [SchedulerNext]_schedulerVars => SchedulerTypes'
  BY SchedulerStep, Zenon
<1>3. SchedulerTypes => PickEligible
  BY SchedulersPick, Zenon DEF PickEligible
<1> QED
  BY <1>1, <1>2, <1>3, PTL DEF SchedulerSpec

----------------------------------------------------------------------------
(* The ring.                                                               *)

\* The recursion of Kept has a solution, and Kept is one.
LEMMA KeptRecursion ==
    ASSUME NEW r, Len(r) \in Nat, NEW H
    PROVE  /\ Kept(r, H)[0] = <<>>
           /\ \A k \in 1..Len(r) :
                Kept(r, H)[k] = IF r[k].id \in H THEN Append(Kept(r, H)[k - 1], r[k]) ELSE Kept(r, H)[k - 1]
<1> DEFINE Body(g, k) ==
             IF k = 0 THEN <<>> ELSE IF r[k].id \in H THEN Append(g[k - 1], r[k]) ELSE g[k - 1]
           Solves(g, n) == g = [k \in 0..n |-> Body(g, k)]
           Bad == {n \in Nat : ~\E g : Solves(g, n)}
<1>1. Bad = {}
  <2> SUFFICES ASSUME Bad # {} PROVE FALSE
    BY Zenon
  <2>1. PICK m \in Bad : \A y \in Bad : m <= y
    <3>1. Bad \in SUBSET Nat
      BY Zenon
    <3> HIDE DEF Bad
    <3> QED
      BY <3>1, NatMin, Zenon
  <2>2. m # 0
    <3> DEFINE z == [k \in 0..0 |-> <<>>]
    <3>1. Solves(z, 0)
      OBVIOUS
    <3> QED
      BY <2>1, <3>1, Zenon
  <2>3. m \in Nat /\ m - 1 \in Nat /\ m - 1 \notin Bad
    <3>1. m \in Nat
      BY Zenon
    <3> HIDE DEF Bad
    <3> QED
      BY <2>1, <2>2, <3>1
  <2>4. PICK g : Solves(g, m - 1)
    BY <2>3, Zenon
  <2> DEFINE h == [k \in 0..m |-> IF k = m THEN Body(g, m) ELSE g[k]]
  <2>5. \A k \in 0..m : h[k] = Body(h, k)
    <3> SUFFICES ASSUME NEW k \in 0..m PROVE h[k] = Body(h, k)
      BY Zenon
    <3>1. k # 0 => k - 1 \in 0..m /\ k - 1 # m /\ h[k - 1] = g[k - 1]
      BY <2>3
    <3>2. Body(h, k) = Body(g, k)
      BY <3>1, Zenon
    <3>3. k # m => k \in 0..(m - 1)
      BY <2>3
    <3>4. k # m => g[k] = Body(g, k)
      <4> HIDE DEF Body
      <4> QED
        BY <2>4, <3>3, ZenonT(60)
    <3> HIDE DEF Body
    <3> QED
      BY <3>2, <3>4, Zenon
  <2>6. Solves(h, m)
    <3>1. h = [k \in 0..m |-> h[k]]
      BY Zenon
    <3> HIDE DEF h, Body
    <3> QED
      BY <2>5, <3>1, Zenon
  <2> QED
    BY <2>1, <2>6, Zenon
<1>2. \E g : Solves(g, Len(r))
  BY <1>1, Zenon
<1>3. Kept(r, H) = CHOOSE g : Solves(g, Len(r))
  BY Zenon DEF Kept
<1>4. Solves(Kept(r, H), Len(r))
  <2> HIDE DEF Solves
  <2> QED
    BY <1>2, <1>3, Zenon
<1>5. \A k \in 0..Len(r) : Kept(r, H)[k] = Body(Kept(r, H), k)
  <2> HIDE DEF Body
  <2> QED
    BY <1>4, Zenon
<1> QED
  BY <1>5

RingNode == [position : Nat, id : Leaf]

\* A ring as NewRings makes them: its nodes are at positions 1, 2, 3...
Numbered(t) == t \in Seq(RingNode) /\ \A k \in 1..Len(t) : t[k].position = k

\* The nodes of s are those of the first n of t whose ID is in H, in their order.
Filtered(s, t, H, n) ==
    /\ s \in Seq(RingNode)
    /\ \A a \in 1..Len(s) : s[a].id \in H /\ s[a].position \in 1..n /\ s[a] = t[s[a].position]
    /\ \A a, b \in 1..Len(s) : a < b => s[a].position < s[b].position
    /\ \A j \in 1..n : t[j].id \in H => \E a \in 1..Len(s) : s[a] = t[j]

\* One more node.
LEMMA FilteredStep ==
    ASSUME NEW t, Numbered(t), NEW H, NEW n \in Nat, n + 1 \in 1..Len(t), NEW s, Filtered(s, t, H, n)
    PROVE  Filtered(IF t[n + 1].id \in H THEN Append(s, t[n + 1]) ELSE s, t, H, n + 1)
<1>0. /\ t[n + 1] \in RingNode /\ t[n + 1].position = n + 1
      /\ s \in Seq(RingNode) /\ Len(s) \in Nat
      /\ \A a \in 1..Len(s) : s[a].position \in 1..n
  BY DEF Numbered, Filtered
<1>1. CASE t[n + 1].id \notin H
  BY <1>0, <1>1, SMTT(60) DEF Filtered
<1>2. CASE t[n + 1].id \in H
  <2> DEFINE q == Append(s, t[n + 1])
  <2>1. /\ q \in Seq(RingNode) /\ Len(q) = Len(s) + 1 /\ q[Len(q)] = t[n + 1]
        /\ \A a \in 1..Len(s) : q[a] = s[a]
    BY <1>0
  <2> HIDE DEF q
  <2>2. \A a \in 1..Len(q) : a \in 1..Len(s) \/ a = Len(q)
    BY <1>0, <2>1
  <2>3. \A a \in 1..Len(q) : q[a].id \in H /\ q[a].position \in 1..(n + 1) /\ q[a] = t[q[a].position]
    <3> SUFFICES ASSUME NEW a \in 1..Len(q)
                 PROVE  q[a].id \in H /\ q[a].position \in 1..(n + 1) /\ q[a] = t[q[a].position]
      BY Zenon
    <3>1. CASE a \in 1..Len(s)
      <4>1. q[a] = s[a]
        BY <2>1, <3>1, Zenon
      <4>2. s[a].id \in H /\ s[a].position \in 1..n /\ s[a] = t[s[a].position]
        BY <3>1, Zenon DEF Filtered
      <4>3. \A p \in 1..n : p \in 1..(n + 1)
        OBVIOUS
      <4> QED
        BY <4>1, <4>2, <4>3, Zenon
    <3>2. CASE a = Len(q)
      <4>1. q[a] = t[n + 1]
        BY <2>1, <3>2, Zenon
      <4>2. t[n + 1].id \in H /\ t[n + 1].position = n + 1 /\ n + 1 \in 1..(n + 1)
        BY <1>0, <1>2
      <4> QED
        BY <4>1, <4>2, Zenon
    <3> QED
      BY <2>2, <3>1, <3>2, Zenon
  <2>4. \A a, b \in 1..Len(q) : a < b => q[a].position < q[b].position
    <3> SUFFICES ASSUME NEW a \in 1..Len(q), NEW b \in 1..Len(q), a < b
                 PROVE  q[a].position < q[b].position
      BY Zenon
    <3>1. a \in 1..Len(s)
      BY <1>0, <2>1
    <3>2. CASE b \in 1..Len(s)
      BY <2>1, <3>1, <3>2, Zenon DEF Filtered
    <3>3. CASE b = Len(q)
      <4>1. q[a].position \in 1..n
        BY <1>0, <2>1, <3>1, Zenon
      <4> QED
        BY <1>0, <2>1, <3>3, <4>1
    <3> QED
      BY <2>2, <3>2, <3>3, ZenonT(60)
  <2>5. \A j \in 1..(n + 1) : t[j].id \in H => \E a \in 1..Len(q) : q[a] = t[j]
    <3> SUFFICES ASSUME NEW j \in 1..(n + 1), t[j].id \in H
                 PROVE  \E a \in 1..Len(q) : q[a] = t[j]
      BY Zenon
    <3>1. CASE j = n + 1
      BY <1>0, <2>1, <3>1
    <3>2. CASE j \in 1..n
      <4>1. PICK a \in 1..Len(s) : s[a] = t[j]
        BY <3>2, Zenon DEF Filtered
      <4>2. a \in 1..Len(q) /\ q[a] = s[a]
        BY <1>0, <2>1
      <4> QED
        BY <4>1, <4>2, Zenon
    <3> QED
      BY <3>1, <3>2
  <2>6. Filtered(q, t, H, n + 1)
    BY <2>1, <2>3, <2>4, <2>5, Zenon DEF Filtered
  <2> QED
    BY <1>2, <2>6, Zenon DEF q
<1> QED
  BY <1>1, <1>2, Zenon

\* Subset keeps the nodes of the healthy IDs, in order, and no others.
LEMMA SubsetFilters ==
    ASSUME NEW t, Numbered(t), NEW H
    PROVE  Filtered(Subset(t, H), t, H, Len(t))
<1>0. Len(t) \in Nat
  BY DEF Numbered
<1> DEFINE Bad == {n \in 0..Len(t) : ~Filtered(Kept(t, H)[n], t, H, n)}
<1>1. Bad = {}
  <2> SUFFICES ASSUME Bad # {} PROVE FALSE
    BY Zenon
  <2>1. PICK m \in Bad : \A y \in Bad : m <= y
    <3>1. Bad \in SUBSET Nat
      BY <1>0
    <3> HIDE DEF Bad
    <3> QED
      BY <3>1, NatMin, Zenon
  <2>2. m \in 0..Len(t) /\ ~Filtered(Kept(t, H)[m], t, H, m)
    BY Zenon
  <2>3. m # 0
    <3>1. Kept(t, H)[0] = <<>>
      BY <1>0, KeptRecursion, Zenon
    <3>2. Filtered(<<>>, t, H, 0)
      BY DEF Filtered
    <3> QED
      BY <2>2, <3>1, <3>2, ZenonT(60)
  <2>4. m - 1 \in Nat /\ m - 1 \in 0..Len(t) /\ m - 1 \notin Bad /\ m \in 1..Len(t) /\ m = (m - 1) + 1
    <3> HIDE DEF Bad
    <3> QED
      BY <1>0, <2>1, <2>2, <2>3
  <2>5. Filtered(Kept(t, H)[m - 1], t, H, m - 1)
    BY <2>4, Zenon
  <2>6. Kept(t, H)[m] = IF t[m].id \in H THEN Append(Kept(t, H)[m - 1], t[m]) ELSE Kept(t, H)[m - 1]
    BY <1>0, <2>4, KeptRecursion
  <2>7. ASSUME NEW n \in Nat, m = n + 1, n = m - 1
        PROVE  FALSE
    BY <2>2, <2>4, <2>5, <2>6, <2>7, FilteredStep
  <2> QED
    BY <2>4, <2>7, Zenon
<1> QED
  BY <1>0, <1>1 DEF Subset

\* The IDs on the ring over the healthy leaves are the healthy leaves.
LEMMA SubsetIDs ==
    ASSUME NEW t, Numbered(t), \A l \in Leaf : \E k \in 1..Len(t) : t[k].id = l, NEW H \in SUBSET Leaf
    PROVE  ids(Subset(t, H)) = H /\ (Subset(t, H) = <<>> <=> H = {})
<1> DEFINE s == Subset(t, H)
<1>0. Filtered(s, t, H, Len(t))
  BY SubsetFilters, Zenon
<1> HIDE DEF s
<1>1. Filtered(s, t, H, Len(t)) /\ s \in Seq(RingNode) /\ Len(s) \in Nat /\ DOMAIN s = 1..Len(s)
  BY <1>0, SMTT(60) DEF Filtered
<1>2. \A a \in 1..Len(s) : s[a].id \in H
  BY <1>1, Zenon DEF Filtered
<1>3. \A l \in H : \E a \in 1..Len(s) : s[a].id = l
  <2> SUFFICES ASSUME NEW l \in H PROVE \E a \in 1..Len(s) : s[a].id = l
    BY Zenon
  <2>1. PICK k \in 1..Len(t) : t[k].id = l
    BY Zenon
  <2>2. PICK a \in 1..Len(s) : s[a] = t[k]
    BY <1>1, <2>1, Zenon DEF Filtered
  <2> QED
    BY <2>1, <2>2, ZenonT(60)
<1>4. ids(s) = H
  BY <1>1, <1>2, <1>3 DEF ids
<1>5. s = <<>> <=> H = {}
  <2>1. s = <<>> <=> Len(s) = 0
    BY <1>1
  <2>2. Len(s) # 0 => 1 \in 1..Len(s)
    BY <1>1
  <2> QED
    BY <1>2, <1>3, <2>1, <2>2
<1> QED
  BY <1>4, <1>5, Zenon DEF s

\* Home is the ID of a node: of the first one at or after the position, or of
\* the first one of all when there is none.
LEMMA HomeIsFirst ==
    ASSUME NEW s \in Seq(RingNode), s # <<>>, NEW position \in Nat,
           \A a, b \in 1..Len(s) : a < b => s[a].position < s[b].position
    PROVE  \E h \in 1..Len(s) :
             /\ Home(s, position) = s[h].id
             /\ \/ /\ s[h].position >= position
                   /\ \A k \in 1..Len(s) : s[k].position >= position => s[h].position <= s[k].position
                \/ \A k \in 1..Len(s) : s[k].position < position /\ s[h].position <= s[k].position
<1> DEFINE clockwise == {k \in 1..Len(s) : s[k].position >= position}
<1>0. Len(s) \in Nat /\ 1 \in 1..Len(s) /\ DOMAIN s = 1..Len(s) /\ \A k \in 1..Len(s) : s[k].position \in Nat
  <2>1. Len(s) \in Nat /\ Len(s) # 0 /\ DOMAIN s = 1..Len(s)
    OBVIOUS
  <2>2. \A k \in 1..Len(s) : s[k] \in RingNode
    OBVIOUS
  <2> QED
    BY <2>1, <2>2 DEF RingNode
<1>1. Home(s, position) = IF clockwise = {} THEN s[1].id ELSE s[Min(clockwise)].id
  BY <1>0, Zenon DEF Home
<1>2. CASE clockwise = {}
  <2>1. \A k \in 1..Len(s) : s[k].position < position
    BY <1>0, <1>2
  <2>2. \A k \in 1..Len(s) : s[1].position <= s[k].position
    <3> SUFFICES ASSUME NEW k \in 1..Len(s) PROVE s[1].position <= s[k].position
      BY Zenon
    <3>1. k = 1 \/ 1 < k
      BY <1>0
    <3> QED
      BY <1>0, <3>1
  <2> QED
    BY <1>0, <1>1, <1>2, <2>1, <2>2, ZenonT(60)
<1>3. CASE clockwise # {}
  <2> DEFINE h == Min(clockwise)
  <2>1. clockwise \in SUBSET Nat
    BY <1>0
  <2>2. h \in clockwise /\ \A y \in clockwise : h <= y
    <3> HIDE DEF clockwise
    <3> QED
      BY <1>3, <2>1, MinIsLeast, ZenonT(60)
  <2> HIDE DEF h
  <2>3. h \in 1..Len(s) /\ s[h].position >= position
    BY <2>2, Zenon
  <2>4. \A k \in 1..Len(s) : s[k].position >= position => s[h].position <= s[k].position
    <3> SUFFICES ASSUME NEW k \in 1..Len(s), s[k].position >= position
                 PROVE  s[h].position <= s[k].position
      BY Zenon
    <3>1. h = k \/ h < k
      BY <1>0, <2>2, <2>3
    <3> QED
      BY <1>0, <2>3, <3>1
  <2>5. Home(s, position) = s[h].id
    BY <1>1, <1>3, Zenon DEF h
  <2> QED
    BY <2>3, <2>4, <2>5, Zenon
<1> QED
  BY <1>2, <1>3, Zenon

\* The successor of an ID on the ring is on the ring.
LEMMA NextOnRing ==
    ASSUME NEW s \in Seq(RingNode), NEW id \in ids(s)
    PROVE  NextID(s, id) \in ids(s)
<1> DEFINE firsts == {k \in 1..Len(s) : s[k].id = id}
           others == {i \in 1..Len(s) : s[((Min(firsts) + i - 1) % Len(s)) + 1].id # id}
<1>0. Len(s) \in Nat /\ DOMAIN s = 1..Len(s)
  BY SMTT(60)
<1>1. NextID(s, id) = IF others = {} THEN id ELSE s[((Min(firsts) + Min(others) - 1) % Len(s)) + 1].id
  BY <1>0, ZenonT(60) DEF NextID
<1>2. CASE others # {}
  <2>1. Min(firsts) \in 1..Len(s)
    <3>1. firsts # {} /\ firsts \in SUBSET Nat
      BY <1>0 DEF ids
    <3>2. Min(firsts) \in firsts
      <4> HIDE DEF firsts
      <4> QED
        BY <3>1, MinIsLeast, Zenon
    <3> QED
      BY <3>2, Zenon
  <2>2. Min(others) \in 1..Len(s)
    <3>1. others \in SUBSET Nat
      BY <1>0
    <3>2. Min(others) \in others
      <4> HIDE DEF others
      <4> QED
        BY <1>2, <3>1, MinIsLeast, Zenon
    <3> QED
      BY <3>2, Zenon
  <2> DEFINE n == Min(firsts) + Min(others) - 1
  <2>3. n \in Nat /\ Len(s) > 0
    <3> HIDE DEF firsts, others
    <3> QED
      BY <1>0, <2>1, <2>2
  <2>4. (n % Len(s)) + 1 \in 1..Len(s)
    <3> HIDE DEF n
    <3> QED
      BY <1>0, <2>3
  <2> QED
    BY <1>0, <1>1, <1>2, <2>4, Zenon DEF ids
<1> QED
  BY <1>1, <1>2, Zenon

\* The chain has a value at every step, as its recursion says.
LEMMA ChainRecursion ==
    ASSUME NEW s, NEW n \in Nat, NEW start
    PROVE  /\ Chain(s, n, start)[0] = start
           /\ \A k \in 1..n : Chain(s, n, start)[k] = NextID(s, Chain(s, n, start)[k - 1])
<1> DEFINE Body(g, k) == IF k = 0 THEN start ELSE NextID(s, g[k - 1])
           Solves(g, m) == g = [k \in 0..m |-> Body(g, k)]
           Bad == {m \in Nat : ~\E g : Solves(g, m)}
<1>1. Bad = {}
  <2> SUFFICES ASSUME Bad # {} PROVE FALSE
    BY Zenon
  <2>1. PICK m \in Bad : \A y \in Bad : m <= y
    <3>1. Bad \in SUBSET Nat
      BY Zenon
    <3> HIDE DEF Bad
    <3> QED
      BY <3>1, NatMin, Zenon
  <2>2. m # 0
    <3> DEFINE z == [k \in 0..0 |-> start]
    <3>1. Solves(z, 0)
      OBVIOUS
    <3> QED
      BY <2>1, <3>1, Zenon
  <2>3. m \in Nat /\ m - 1 \in Nat /\ m - 1 \notin Bad
    <3>1. m \in Nat
      BY Zenon
    <3> HIDE DEF Bad
    <3> QED
      BY <2>1, <2>2, <3>1
  <2>4. PICK g : Solves(g, m - 1)
    BY <2>3, Zenon
  <2> DEFINE h == [k \in 0..m |-> IF k = m THEN Body(g, m) ELSE g[k]]
  <2>5. \A k \in 0..m : h[k] = Body(h, k)
    <3> SUFFICES ASSUME NEW k \in 0..m PROVE h[k] = Body(h, k)
      BY Zenon
    <3>1. k # 0 => k - 1 \in 0..m /\ k - 1 # m /\ h[k - 1] = g[k - 1]
      BY <2>3
    <3>2. Body(h, k) = Body(g, k)
      BY <3>1, Zenon
    <3>3. k # m => k \in 0..(m - 1)
      BY <2>3
    <3>4. k # m => g[k] = Body(g, k)
      <4> HIDE DEF Body
      <4> QED
        BY <2>4, <3>3, Zenon
    <3> HIDE DEF Body
    <3> QED
      BY <3>2, <3>4, Zenon
  <2>6. Solves(h, m)
    <3>1. h = [k \in 0..m |-> h[k]]
      BY Zenon
    <3> HIDE DEF h, Body
    <3> QED
      BY <2>5, <3>1, Zenon
  <2> QED
    BY <2>1, <2>6, ZenonT(60)
<1>2. \E g : Solves(g, n)
  BY <1>1, ZenonT(60)
<1>3. Chain(s, n, start) = CHOOSE g : Solves(g, n)
  BY Zenon DEF Chain
<1>4. Solves(Chain(s, n, start), n)
  <2> HIDE DEF Solves
  <2> QED
    BY <1>2, <1>3, Zenon
<1>5. \A k \in 0..n : Chain(s, n, start)[k] = Body(Chain(s, n, start), k)
  <2> HIDE DEF Body
  <2> QED
    BY <1>4, Zenon
<1> QED
  BY <1>5

\* All the IDs of the chain are on the ring.
LEMMA ChainOnRing ==
    ASSUME NEW s \in Seq(RingNode), NEW n \in Nat, NEW start \in ids(s)
    PROVE  \A step \in 0..n : Chain(s, n, start)[step] \in ids(s)
<1> DEFINE Bad == {k \in 0..n : Chain(s, n, start)[k] \notin ids(s)}
<1> SUFFICES ASSUME Bad # {} PROVE FALSE
  BY Zenon
<1>1. PICK m \in Bad : \A y \in Bad : m <= y
  <2>1. Bad \in SUBSET Nat
    OBVIOUS
  <2> HIDE DEF Bad
  <2> QED
    BY <2>1, NatMin, Zenon
<1>2. m \in 0..n /\ Chain(s, n, start)[m] \notin ids(s)
  BY Zenon
<1>3. m # 0
  BY <1>2, ChainRecursion
<1>4. m \in 1..n /\ m - 1 \in 0..n /\ m - 1 \notin Bad
  <2> HIDE DEF Bad
  <2> QED
    BY <1>1, <1>2, <1>3, SMTT(60)
<1>5. Chain(s, n, start)[m - 1] \in ids(s)
  BY <1>4, Zenon
<1> QED
  BY <1>2, <1>4, <1>5, ChainRecursion, NextOnRing

\* Forward stays at home below the bound, finds a node below the bound if there
\* is one on the ring, and takes a least loaded one otherwise.
LEMMA ForwardKeepsBound ==
    ASSUME NEW s \in Seq(RingNode), NEW bound \in Nat, NEW n \in Nat, NEW start \in ids(s), NEW loads,
           ids(s) \in SUBSET Nat, \A id \in ids(s) : loads[id] \in Nat
    PROVE  LET target == Forward(s, loads, bound, n, start)
           IN  /\ target \in ids(s)
               /\ loads[start] < bound => target = start
               /\ (\E id \in ids(s) : loads[id] < bound) => loads[target] < bound
               /\ (\A id \in ids(s) : loads[id] >= bound) => \A id \in ids(s) : loads[target] <= loads[id]
<1> DEFINE target == Forward(s, loads, bound, n, start)
           chain == Chain(s, n, start)
           below == {step \in 0..n : loads[chain[step]] < bound}
           least == LeastLoaded(ids(s), loads)
<1>0. s # <<>>
  BY DEF ids
<1>1. target = IF below # {} THEN chain[Min(below)] ELSE least
  BY <1>0, Zenon DEF Forward
<1>2. chain[0] = start /\ \A step \in 0..n : chain[step] \in ids(s)
  BY ChainRecursion, ChainOnRing, ZenonT(60)
<1>3. least \in ids(s) /\ \A id \in ids(s) : loads[least] <= loads[id]
  BY LeastLoadedIsLeast, Zenon
<1>4. below # {} => Min(below) \in below /\ \A y \in below : Min(below) <= y
  <2>1. below \in SUBSET Nat
    BY SMTT(60)
  <2> HIDE DEF below
  <2> QED
    BY <2>1, MinIsLeast, Zenon
<1> HIDE DEF target, chain, least
<1>5. CASE below # {}
  <2>1. Min(below) \in 0..n /\ loads[chain[Min(below)]] < bound
    BY <1>4, <1>5, Zenon
  <2>2. target \in ids(s) /\ loads[target] < bound
    BY <1>1, <1>2, <1>5, <2>1, ZenonT(60)
  <2>3. loads[start] < bound => target = start
    <3> SUFFICES ASSUME loads[start] < bound PROVE target = start
      BY Zenon
    <3>1. 0 \in below
      BY <1>2
    <3>2. Min(below) = 0
      <4>1. Min(below) <= 0
        BY <1>4, <1>5, <3>1, Zenon
      <4> HIDE DEF below
      <4> QED
        BY <2>1, <4>1, SMTT(60)
    <3> QED
      BY <1>1, <1>2, <1>5, <3>2, Zenon
  <2>4. \A id \in ids(s) : loads[target] \in Nat /\ loads[id] \in Nat
    BY <2>2, Zenon
  <2> QED
    BY <2>2, <2>3, <2>4, SMTT(60) DEF target
<1>6. CASE below = {}
  <2>1. target = least
    BY <1>1, <1>6, Zenon
  <2>2. ~(loads[start] < bound)
    BY <1>2, <1>6
  <2>3. \A id \in ids(s) : loads[target] <= loads[id] /\ loads[target] \in Nat /\ loads[id] \in Nat
    BY <1>3, <2>1, Zenon
  <2> QED
    BY <1>3, <2>1, <2>2, <2>3, SMTT(60) DEF target
<1> QED
  BY <1>5, <1>6, Zenon

\* A finite set of numbers has a k-th element for every k below its size.
LEMMA NthIsMember ==
    ASSUME NEW S \in SUBSET Nat, IsFiniteSet(S), NEW k \in Nat, k < Cardinality(S)
    PROVE  Nth(S, k) \in S
<1> DEFINE Below(l) == {m \in S : m < l}
           Bad == {j \in Nat : j < Cardinality(S) /\ ~\E l \in S : Cardinality(Below(l)) = j}
<1>0. Cardinality(S) \in Nat /\ Cardinality({}) = 0
  BY FS_CardinalityType, FS_EmptySet, Zenon
<1>1. ASSUME Bad # {} PROVE FALSE
  <2>1. PICK j \in Bad : \A y \in Bad : j <= y
    <3>1. Bad \in SUBSET Nat
      BY Zenon
    <3> HIDE DEF Bad
    <3> QED
      BY <1>1, <3>1, NatMin, Zenon
  <2>2. j \in Nat /\ j < Cardinality(S) /\ ~\E l \in S : Cardinality(Below(l)) = j
    BY Zenon
  <2>3. S # {}
    BY <1>0, <2>2, SMTT(60)
  <2>4. j # 0
    <3>1. PICK l \in S : \A y \in S : l <= y
      BY <2>3, NatMin, Zenon
    <3>2. Below(l) = {}
      <4> SUFFICES ASSUME NEW m \in S, m < l PROVE FALSE
        BY Zenon
      <4>1. l <= m /\ l \in Nat /\ m \in Nat
        BY <3>1, Zenon
      <4> QED
        BY <4>1
    <3> HIDE DEF Below
    <3> QED
      BY <1>0, <2>2, <3>2, Zenon
  <2>5. j - 1 \in Nat /\ j - 1 \notin Bad
    <3> HIDE DEF Bad
    <3> QED
      BY <2>1, <2>2, <2>4
  <2>6. PICK l \in S : Cardinality(Below(l)) = j - 1
    BY <1>0, <2>2, <2>5
  <2> DEFINE More == Below(l) \cup {l}
             Above == {m \in S : m > l}
  <2>7. IsFiniteSet(Below(l)) /\ l \notin Below(l)
    <3>1. Below(l) \in SUBSET S
      BY Zenon
    <3>2. IsFiniteSet(Below(l))
      <4> HIDE DEF Below
      <4> QED
        BY <3>1, FS_Subset, Zenon
    <3>3. l \notin Below(l)
      OBVIOUS
    <3> QED
      BY <3>2, <3>3, Zenon
  <2>8. Cardinality(More) = j
    <3> HIDE DEF Below
    <3>1. Cardinality(More) = Cardinality(Below(l)) + 1
      BY <2>7, FS_AddElement, Zenon
    <3> QED
      BY <2>2, <2>6, <3>1, SMTT(60)
  <2>9. Above # {}
    <3> SUFFICES ASSUME Above = {} PROVE FALSE
      BY Zenon
    <3>1. \A m \in S : m \in Nat /\ ~(m > l) /\ l \in Nat
      BY Zenon
    <3>2. \A m \in S : m < l \/ m = l
      BY <3>1
    <3>3. S = More
      BY <3>2, Zenon
    <3> HIDE DEF More
    <3> QED
      BY <1>0, <2>2, <2>8, <3>3
  <2>10. PICK n \in Above : \A y \in Above : n <= y
    <3>1. Above \in SUBSET Nat
      BY Zenon
    <3> HIDE DEF Above
    <3> QED
      BY <2>9, <3>1, NatMin, Zenon
  <2>11. n \in S /\ n > l
    BY Zenon
  <2>12. \A m \in S : m < n <=> m < l \/ m = l
    <3> SUFFICES ASSUME NEW m \in S PROVE m < n <=> m < l \/ m = l
      BY Zenon
    <3>1. m > l => n <= m
      BY <2>10, Zenon
    <3>2. m \in Nat /\ n \in Nat /\ l \in Nat
      BY Zenon
    <3> QED
      BY <2>11, <3>1, <3>2
  <2>13. Below(n) = More
    BY <2>12, Zenon
  <2> HIDE DEF Below, More
  <2> QED
    BY <2>2, <2>8, <2>11, <2>13, Zenon
<1>2. \E l \in S : Cardinality({m \in S : m < l}) = k
  BY <1>1, Zenon
<1> QED
  BY <1>2, Zenon DEF Nth

\* A function into the natural numbers takes its greatest value on a finite set.
LEMMA GreatestValue ==
    ASSUME NEW A, IsFiniteSet(A), A # {}, NEW f, \A x \in A : f[x] \in Nat
    PROVE  \E x \in A : \A y \in A : f[x] >= f[y]
<1> DEFINE Peak(B) == \E x \in B : \A y \in B : f[x] >= f[y]
           Bad == {n \in Nat : \E B \in SUBSET A : B # {} /\ Cardinality(B) = n /\ ~Peak(B)}
<1> SUFFICES ASSUME ~Peak(A) PROVE FALSE
  BY Zenon
<1>1. Cardinality(A) \in Bad
  BY FS_CardinalityType, Zenon
<1>2. PICK n \in Bad : \A y \in Bad : n <= y
  <2>1. Bad \in SUBSET Nat
    BY Zenon
  <2> HIDE DEF Bad
  <2> QED
    BY <1>1, <2>1, NatMin, Zenon
<1>3. PICK B \in SUBSET A : B # {} /\ Cardinality(B) = n /\ ~Peak(B)
  BY Zenon
<1>4. n \in Nat /\ IsFiniteSet(B)
  BY FS_Subset, Zenon
<1>5. PICK x \in B : TRUE
  BY <1>3, Zenon
<1> DEFINE C == B \ {x}
<1>6. Cardinality(C) = n - 1 /\ n - 1 \in Nat
  <2>1. Cardinality(C) = n - 1 /\ IsFiniteSet(C)
    BY <1>3, <1>4, <1>5, FS_RemoveElement, Zenon
  <2>2. Cardinality(C) \in Nat
    BY <2>1, FS_CardinalityType, Zenon
  <2> HIDE DEF C
  <2> QED
    BY <2>1, <2>2, Zenon
<1>7. n - 1 \notin Bad
  <2> HIDE DEF Bad
  <2> QED
    BY <1>2, <1>4, <1>6
<1>8. C = {} \/ Peak(C)
  <2>1. C \in SUBSET A
    BY Zenon
  <2> HIDE DEF C, Peak
  <2> QED
    BY <1>6, <1>7, <2>1, Zenon
<1>9. CASE C = {}
  <2>1. B = {x} /\ f[x] \in Nat
    BY <1>5, <1>9, Zenon
  <2> QED
    BY <1>3, <2>1
<1>10. CASE Peak(C)
  <2>1. PICK z \in C : \A y \in C : f[z] >= f[y]
    BY <1>10, Zenon
  <2>2. f[x] \in Nat /\ f[z] \in Nat /\ \A y \in B : f[y] \in Nat /\ (y = x \/ y \in C)
    BY Zenon
  <2>3. f[x] >= f[z] => \A y \in B : f[x] >= f[y]
    BY <2>1, <2>2, SMTT(60)
  <2>4. f[z] >= f[x] => \A y \in B : f[z] >= f[y]
    BY <2>1, <2>2, Zenon
  <2> QED
    BY <1>3, <1>5, <2>1, <2>2, <2>3, <2>4, SMTT(60)
<1> QED
  BY <1>8, <1>9, <1>10, ZenonT(60)

\* A ring over all configured leaves has a node of each.
LEMMA RingHasAll ==
    ASSUME NEW t \in NewRings(Leaf, Replicas)
    PROVE  Numbered(t) /\ \A l \in Leaf : \E k \in 1..Len(t) : t[k].id = l
<1> DEFINE size == Cardinality(Leaf) * Replicas
<1>1. size \in Nat
  <2>1. Cardinality(Leaf) \in Nat /\ Replicas \in Nat
    BY RoutingAssumption, FS_CardinalityType, Zenon
  <2> QED
    BY <2>1
<1> HIDE DEF size
<1>2. PICK o \in [1..size -> Leaf] :
        /\ \A id \in Leaf : Cardinality({k \in 1..size : o[k] = id}) = Replicas
        /\ t = [k \in 1..size |-> [position |-> k, id |-> o[k]]]
  BY Zenon DEF NewRings, size
<1>3. \A k \in 1..size : t[k] \in RingNode /\ t[k].position = k /\ t[k].id = o[k]
  BY <1>1, <1>2 DEF RingNode
<1>4. t \in Seq(RingNode) /\ Len(t) = size
  <2>1. t \in [1..size -> RingNode]
    BY <1>2, <1>3, Zenon
  <2>2. Seq(RingNode) = UNION {[1..n -> RingNode] : n \in Nat}
    OBVIOUS
  <2> QED
    BY <1>1, <2>1, SMTT(60)
<1>5. \A l \in Leaf : \E k \in 1..size : o[k] = l
  <2> SUFFICES ASSUME NEW l \in Leaf, ~\E k \in 1..size : o[k] = l PROVE FALSE
    BY Zenon
  <2>1. {k \in 1..size : o[k] = l} = {}
    BY Zenon
  <2>2. Cardinality({k \in 1..size : o[k] = l}) = Replicas
    BY <1>2, Zenon
  <2> QED
    BY <2>1, <2>2, FS_EmptySet, RoutingAssumption, Zenon
<1> QED
  BY <1>3, <1>4, <1>5 DEF Numbered

\* What the installed picker holds agrees with the model's state: the ring is
\* that of the healthy leaves, and it is marked dirty only before the first
\* picker.
RoutingInv ==
    /\ policy \in Policies
    /\ Numbered(template)
    /\ policy \in RingPolicies => \A l \in Leaf : \E k \in 1..Len(template) : template[k].id = l
    /\ policy \notin RingPolicies => template = <<>>
    /\ healthy \in SUBSET Leaf
    /\ value \in [Leaf -> Nat]
    /\ routes \in [Leaf -> Nat \cup {Absent}]
    /\ counter \in Nat
    /\ active \in BOOLEAN
    /\ dirty = ~active
    /\ ~active => picker = NoPicker
    /\ active => ring = Subset(template, healthy) /\ picker = [leaves |-> healthy, ring |-> ring]

\* No picker is installed at first, and every ring is built from all leaves.
LEMMA RoutingInitHolds ==
    RoutingInit => RoutingInv
<1> SUFFICES ASSUME RoutingInit PROVE RoutingInv
  BY Zenon
<1>1. Numbered(template) /\ (policy \in RingPolicies => \A l \in Leaf : \E k \in 1..Len(template) : template[k].id = l)
  <2>1. CASE policy \in RingPolicies
    <3>1. template \in NewRings(Leaf, Replicas)
      BY <2>1, Zenon DEF RoutingInit, Templates
    <3> QED
      BY <3>1, RingHasAll, Zenon
  <2>2. CASE policy \notin RingPolicies
    <3>1. template = <<>>
      BY <2>2, Zenon DEF RoutingInit
    <3> QED
      BY <2>2, <3>1 DEF Numbered
  <2> QED
    BY <2>1, <2>2, Zenon
<1>2. value \in [Leaf -> Nat] /\ routes \in [Leaf -> Nat \cup {Absent}]
  BY Zenon DEF RoutingInit
<1> QED
  BY <1>1, <1>2, Zenon DEF RoutingInit, RoutingInv

\* The ring of a policy without one is empty.
LEMMA EmptyRing ==
    ASSUME NEW H
    PROVE  Subset(<<>>, H) = <<>>
<1>1. Len(<<>>) = 0
  BY Zenon
<1>2. Kept(<<>>, H)[0] = <<>>
  BY <1>1, KeptRecursion
<1> QED
  BY <1>1, <1>2, Zenon DEF Subset

\* Every update ends in Publish, which keeps the picker in step with the model.
LEMMA PublishKeeps ==
    ASSUME RoutingInv, NEW members \in SUBSET Leaf, NEW stale \in BOOLEAN,
           stale = (dirty \/ (policy \in RingPolicies /\ members # healthy)),
           Publish(members, stale),
           value' \in [Leaf -> Nat], routes' \in [Leaf -> Nat \cup {Absent}]
    PROVE  RoutingInv'
<1>0. /\ policy \in Policies /\ Numbered(template) /\ active \in BOOLEAN /\ dirty = ~active
      /\ UNCHANGED <<policy, template, active>> /\ healthy' = members
  BY Zenon DEF RoutingInv, Publish
<1>1. /\ (policy \in RingPolicies => \A l \in Leaf : \E k \in 1..Len(template) : template[k].id = l)'
      /\ (policy \notin RingPolicies => template = <<>>)'
  BY <1>0, Zenon DEF RoutingInv
<1>2. CASE active /\ members # healthy
  <2>1. /\ ring' = IF stale THEN Subset(template, members) ELSE ring
        /\ dirty' = FALSE /\ picker' = [leaves |-> members, ring |-> ring'] /\ counter' = 0
    BY <1>2, Zenon DEF Publish, Picker
  <2>2. ring' = Subset(template, members)
    <3>1. CASE stale
      BY <2>1, <3>1, Zenon
    <3>2. CASE ~stale
      <4>1. template = <<>> /\ ring = Subset(template, healthy)
        BY <1>2, <3>2, ZenonT(60) DEF RoutingInv
      <4> QED
        BY <2>1, <3>2, <4>1, EmptyRing, ZenonT(60)
    <3> QED
      BY <3>1, <3>2, Zenon
  <2> QED
    BY <1>0, <1>1, <1>2, <2>1, <2>2, ZenonT(60) DEF RoutingInv
<1>3. CASE ~(active /\ members # healthy)
  <2>1. dirty' = stale /\ UNCHANGED <<ring, picker, counter>>
    BY <1>3, Zenon DEF Publish
  <2>2. dirty' = ~active
    BY <1>0, <1>3, <2>1, ZenonT(60)
  <2>3. active => members = healthy
    BY <1>3, Zenon
  <2> QED
    BY <1>0, <1>1, <2>1, <2>2, <2>3, ZenonT(60) DEF RoutingInv
<1> QED
  BY <1>2, <1>3, Zenon

\* Frames, disconnects, reloads and picks keep the invariant of the policies.
LEMMA RoutingStep ==
    ASSUME RoutingInv, [RoutingNext]_routingVars
    PROVE  RoutingInv'
<1>0. /\ healthy \in SUBSET Leaf /\ value \in [Leaf -> Nat] /\ routes \in [Leaf -> Nat \cup {Absent}]
      /\ active \in BOOLEAN /\ dirty \in BOOLEAN
  BY Zenon DEF RoutingInv
<1>1. ASSUME NEW l \in Leaf, NEW workers \in BOOLEAN
      PROVE  Members(l, workers) \in SUBSET Leaf
  BY <1>0, Zenon DEF Members
<1>2. ASSUME NEW l \in Leaf, NEW full \in BOOLEAN, NEW v \in Load \cup {Absent}
      PROVE  Stored(l, full, v) \in [Leaf -> Nat]
  <2>1. v # Absent => v \in Nat
    BY RoutingAssumption, Zenon
  <2> QED
    BY <1>0, <2>1, Zenon DEF Stored
<1>3. ASSUME NEW l \in Leaf, NEW workers \in BOOLEAN, randomReplaceLeaf(l, workers) \/ roundRobinReplaceLeaf(l, workers)
      PROVE  RoutingInv'
  <2>1. /\ policy \notin RingPolicies /\ Publish(Members(l, workers), dirty) /\ UNCHANGED <<value, routes>>
    BY <1>3, Zenon DEF randomReplaceLeaf, roundRobinReplaceLeaf, RingPolicies, BoundedPolicies
  <2> QED
    BY <1>0, <1>1, <2>1, PublishKeeps, ZenonT(60)
<1>4. ASSUME NEW l \in Leaf, NEW workers \in BOOLEAN, consistentReplaceLeaf(l, workers)
      PROVE  RoutingInv'
  <2>1. /\ policy \in RingPolicies /\ UNCHANGED <<value, routes>>
        /\ Publish(Members(l, workers), dirty \/ Members(l, workers) # healthy)
    BY <1>4, Zenon DEF consistentReplaceLeaf, RingPolicies
  <2> QED
    BY <1>0, <1>1, <2>1, PublishKeeps, Zenon
<1>5. ASSUME NEW l \in Leaf, NEW workers \in BOOLEAN, NEW full \in BOOLEAN, NEW v \in Load \cup {Absent},
             boundedLoadsReplaceLeaf(l, workers, full, v)
      PROVE  RoutingInv'
  <2>1. /\ policy \in RingPolicies /\ value' = Stored(l, full, v) /\ UNCHANGED routes
        /\ Publish(Members(l, workers), dirty \/ Members(l, workers) # healthy)
    BY <1>5, Zenon DEF boundedLoadsReplaceLeaf, RingPolicies
  <2>2. value' \in [Leaf -> Nat] /\ routes' \in [Leaf -> Nat \cup {Absent}]
    BY <1>0, <1>2, <2>1, Zenon
  <2> QED
    BY <1>0, <1>1, <2>1, <2>2, PublishKeeps, ZenonT(60)
<1>6. ASSUME NEW l \in Leaf, NEW workers \in BOOLEAN, NEW full \in BOOLEAN, NEW v \in Load \cup {Absent},
             leastLoadedReplaceLeaf(l, workers, full, v)
      PROVE  RoutingInv'
  <2>1. /\ policy \notin RingPolicies /\ value' = Stored(l, full, v) /\ UNCHANGED routes
        /\ Publish(Members(l, workers), dirty)
    BY <1>6, Zenon DEF leastLoadedReplaceLeaf, RingPolicies, BoundedPolicies
  <2>2. value' \in [Leaf -> Nat] /\ routes' \in [Leaf -> Nat \cup {Absent}]
    BY <1>0, <1>2, <2>1, Zenon
  <2> QED
    BY <1>0, <1>1, <2>1, <2>2, PublishKeeps, ZenonT(60)
<1>7. ASSUME NEW l \in Leaf, NEW workers \in BOOLEAN, NEW v \in Load \cup {Absent},
             availableCapacityReplaceLeaf(l, workers, v)
      PROVE  RoutingInv'
  <2>1. /\ policy \notin RingPolicies /\ UNCHANGED value
        /\ Publish(Members(l, workers), dirty)
        /\ routes' = IF v # Absent THEN upsert(l, v) ELSE remove(l)
    BY <1>7, Zenon DEF availableCapacityReplaceLeaf, RingPolicies, BoundedPolicies
  <2>2. routes' \in [Leaf -> Nat \cup {Absent}]
    BY <1>0, <2>1, RoutingAssumption, Zenon DEF upsert, remove
  <2>3. value' \in [Leaf -> Nat]
    BY <1>0, <2>1, ZenonT(60)
  <2> QED
    BY <1>0, <1>1, <2>1, <2>2, <2>3, PublishKeeps, ZenonT(60)
<1>8. ASSUME NEW l \in Leaf, NEW workers \in BOOLEAN, availableCapacityApply(l, workers)
      PROVE  RoutingInv'
  <2>1. /\ policy \notin RingPolicies /\ UNCHANGED value
        /\ Publish(Members(l, workers), dirty)
        /\ (\E v \in Load : routes' = upsert(l, v)) \/ routes' = remove(l) \/ UNCHANGED routes
    BY <1>8, Zenon DEF availableCapacityApply, RingPolicies, BoundedPolicies
  <2>2. routes' \in [Leaf -> Nat \cup {Absent}]
    BY <1>0, <2>1, RoutingAssumption, Zenon DEF upsert, remove
  <2>3. value' \in [Leaf -> Nat]
    BY <1>0, <2>1, Zenon
  <2> QED
    BY <1>0, <1>1, <2>1, <2>2, <2>3, PublishKeeps, ZenonT(60)
<1>9. ASSUME NEW l \in Leaf, LeafDisconnected(l)
      PROVE  RoutingInv'
  <2>1. /\ UNCHANGED <<value, routes>>
        /\ Publish(healthy \ {l}, dirty \/ (policy \in RingPolicies /\ l \in healthy))
    BY <1>9, Zenon DEF LeafDisconnected
  <2>2. l \in healthy <=> healthy \ {l} # healthy
    BY Zenon
  <2>3. healthy \ {l} \in SUBSET Leaf
    BY <1>0, Zenon
  <2> QED
    BY <1>0, <2>1, <2>2, <2>3, PublishKeeps, ZenonT(60)
<1>10. CASE Activate
  <2>1. /\ ~active /\ active' = TRUE /\ UNCHANGED <<policy, template, healthy, value, routes>>
        /\ ring' = IF dirty THEN Subset(template, healthy) ELSE ring
        /\ dirty' = FALSE /\ picker' = [leaves |-> healthy, ring |-> ring'] /\ counter' = 0
    BY <1>10, Zenon DEF Activate, Picker
  <2>2. dirty
    BY <2>1, ZenonT(60) DEF RoutingInv
  <2> QED
    BY <2>1, <2>2, Zenon DEF RoutingInv
<1>11. CASE Pick
  <2>1. /\ counter' = (counter + 1) % CounterRange
        /\ UNCHANGED <<policy, template, healthy, value, routes, ring, dirty, active, picker>>
    BY <1>11, Zenon DEF Pick
  <2>2. counter' \in Nat
    BY <2>1, SMTT(60) DEF RoutingInv, CounterRange
  <2> QED
    BY <2>1, <2>2, Zenon DEF RoutingInv
<1>12. CASE UNCHANGED routingVars
  BY <1>12, Zenon DEF routingVars, RoutingInv
<1> QED
  BY <1>3, <1>4, <1>5, <1>6, <1>7, <1>8, <1>9, <1>10, <1>11, <1>12 DEF RoutingNext

\* What an installed picker over at least one healthy leaf holds.
LEMMA PickerFacts ==
    ASSUME RoutingInv, active, healthy # {}
    PROVE  /\ picker.leaves = healthy /\ picker.ring = ring
           /\ healthy \in SUBSET Nat /\ IsFiniteSet(healthy) /\ Cardinality(healthy) \in Nat \ {0}
           /\ None \notin healthy
           /\ counter \in Nat
           /\ \A l \in healthy : value[l] \in Nat /\ routes[l] \in Nat \cup {Absent}
<1>1. healthy \in SUBSET Leaf
  BY Zenon DEF RoutingInv
<1>2. healthy \in SUBSET Nat /\ None \notin healthy /\ IsFiniteSet(healthy)
  BY <1>1, RoutingAssumption, FS_Subset, Zenon
<1>3. Cardinality(healthy) \in Nat \ {0}
  BY <1>2, FS_CardinalityType, FS_EmptySet, ZenonT(60)
<1> QED
  BY <1>1, <1>2, <1>3, SMTT(60) DEF RoutingInv

\* The ring of a policy that has one holds the healthy leaves, by position, and
\* the home of every function is one of them.
LEMMA RingFacts ==
    ASSUME RoutingInv, active, healthy # {}, policy \in RingPolicies, NEW position \in Nat
    PROVE  /\ ring \in Seq(RingNode) /\ ring # <<>> /\ ids(ring) = healthy
           /\ \A a, b \in 1..Len(ring) : a < b => ring[a].position < ring[b].position
           /\ home(position) \in healthy
<1>1. /\ ring = Subset(template, healthy) /\ Numbered(template) /\ healthy \in SUBSET Leaf
      /\ \A l \in Leaf : \E k \in 1..Len(template) : template[k].id = l
  BY Zenon DEF RoutingInv
<1>2. ids(ring) = healthy /\ ring # <<>>
  BY <1>1, SubsetIDs, ZenonT(60)
<1>3. Filtered(ring, template, healthy, Len(template))
  BY <1>1, SubsetFilters, ZenonT(60)
<1>4. ring \in Seq(RingNode) /\ \A a, b \in 1..Len(ring) : a < b => ring[a].position < ring[b].position
  BY <1>3, Zenon DEF Filtered
<1>5. \E h \in 1..Len(ring) : Home(ring, position) = ring[h].id
  BY <1>2, <1>4, HomeIsFirst, ZenonT(60)
<1>6. Home(ring, position) \in ids(ring)
  BY <1>4, <1>5 DEF ids
<1>7. home(position) = Home(ring, position)
  BY PickerFacts, Zenon DEF home
<1> QED
  BY <1>2, <1>4, <1>6, <1>7, ZenonT(60)

\* A target that walks the ring is as Forward says.
LEMMA ForwardedTarget ==
    ASSUME RoutingInv, active, healthy # {}, policy \in RingPolicies, NEW position \in Nat, NEW bound \in Nat
    PROVE  LET target == Forward(picker.ring, value, bound, MaxChainLen, home(position))
           IN  /\ target \in healthy
               /\ value[home(position)] < bound => target = home(position)
               /\ (\E l \in healthy : value[l] < bound) => value[target] < bound
               /\ (\A l \in healthy : value[l] >= bound) => \A l \in healthy : value[target] <= value[l]
<1>1. ring \in Seq(RingNode) /\ ids(ring) = healthy /\ home(position) \in ids(ring)
  BY RingFacts, Zenon
<1>2. picker.ring = ring /\ ids(ring) \in SUBSET Nat /\ \A l \in ids(ring) : value[l] \in Nat
  BY <1>1, PickerFacts, Zenon
<1>3. MaxChainLen \in Nat
  BY RoutingAssumption, Zenon
<1> DEFINE target == Forward(ring, value, bound, MaxChainLen, home(position))
<1>4. /\ target \in ids(ring)
      /\ value[home(position)] < bound => target = home(position)
      /\ (\E l \in ids(ring) : value[l] < bound) => value[target] < bound
      /\ (\A l \in ids(ring) : value[l] >= bound) => \A l \in ids(ring) : value[target] <= value[l]
  BY <1>1, <1>2, <1>3, ForwardKeepsBound, Zenon
<1> QED
  BY <1>1, <1>2, <1>4, ZenonT(60)

\* The fallback of the load-aware policies: a least loaded healthy leaf.
LEMMA FallbackTarget ==
    ASSUME RoutingInv, active, healthy # {}, policy \in RingPolicies
    PROVE  LeastLoadedID \in healthy /\ \A l \in healthy : value[LeastLoadedID] <= value[l]
<1>1. ids(ring) = healthy /\ picker.ring = ring
  BY RingFacts, PickerFacts, Zenon
<1>2. LeastLoadedID = LeastLoaded(healthy, value)
  BY <1>1, Zenon DEF LeastLoadedID
<1>3. healthy \in SUBSET Nat /\ \A l \in healthy : value[l] \in Nat
  BY PickerFacts, Zenon
<1> QED
  BY <1>2, <1>3, LeastLoadedIsLeast, Zenon

\* A turn among some of the healthy leaves.
LEMMA TurnTarget ==
    ASSUME RoutingInv, active, NEW S \in SUBSET healthy, S # {}
    PROVE  Nth(S, counter % Cardinality(S)) \in S
<1>1. healthy \in SUBSET Nat /\ IsFiniteSet(healthy) /\ counter \in Nat
  BY PickerFacts, Zenon
<1>2. S \in SUBSET Nat /\ IsFiniteSet(S)
  BY <1>1, FS_Subset, ZenonT(60)
<1>3. Cardinality(S) \in Nat /\ Cardinality(S) # 0
  BY <1>2, FS_CardinalityType, FS_EmptySet, ZenonT(60)
<1> DEFINE n == Cardinality(S)
<1>4. counter % n \in Nat /\ counter % n < n
  <2> HIDE DEF n
  <2>1. n \in Nat /\ n > 0
    BY <1>3 DEF n
  <2> QED
    BY <1>1, <2>1
<1> QED
  BY <1>2, <1>4, NthIsMember, Zenon

\* The targets of every policy.
LEMMA PickIsHealthy ==
    ASSUME RoutingInv, active, healthy # {}, NEW position \in Nat, NEW ratio \in Nat, NEW popular
    PROVE  LET targets == PickerPick(position, ratio, popular)
           IN  targets \subseteq healthy /\ targets # {}
<1> DEFINE targets == PickerPick(position, ratio, popular)
<1>0. picker.leaves = healthy /\ picker.ring = ring /\ policy \in Policies
  BY PickerFacts, Zenon DEF RoutingInv
<1>1. CASE policy = "random"
  BY <1>0, <1>1, Zenon DEF PickerPick, randomPick
<1>2. CASE policy = "round_robin"
  <2>1. targets = {Nth(healthy, counter % Cardinality(healthy))}
    BY <1>0, <1>2, Zenon DEF PickerPick, roundRobinPick
  <2> QED
    BY <2>1, TurnTarget, Zenon
<1>3. CASE policy = "consistent_hashing"
  <2>1. targets = {OrFirst(home(position))}
    BY <1>0, <1>3, Zenon DEF PickerPick, consistentPick
  <2>2. home(position) \in healthy
    BY <1>3, RingFacts, Zenon DEF RingPolicies
  <2> QED
    BY <1>0, <2>1, <2>2, ZenonT(60) DEF OrFirst
<1>4. CASE policy = "bounded_loads"
  <2>1. targets = {OrFirst(Forward(picker.ring, value, Bound, MaxChainLen, home(position)))}
    BY <1>0, <1>4, Zenon DEF PickerPick, boundedLoadsPick
  <2>2. Forward(picker.ring, value, Bound, MaxChainLen, home(position)) \in healthy
    BY <1>4, ForwardedTarget, RoutingAssumption, ZenonT(60) DEF RingPolicies, BoundedPolicies
  <2> QED
    BY <1>0, <2>1, <2>2, ZenonT(60) DEF OrFirst
<1>5. CASE policy = "rj_ch"
  <2>1. targets = IF value[home(position)] < Bound
                  THEN {OrNone(home(position))}
                  ELSE {l \in healthy : value[l] < Bound} \cup {OrNone(LeastLoadedID)}
    BY <1>0, <1>5, Zenon DEF PickerPick, randomJumpPick
  <2>2. home(position) \in healthy /\ LeastLoadedID \in healthy
    BY <1>5, RingFacts, FallbackTarget, ZenonT(60) DEF RingPolicies, BoundedPolicies
  <2>3. OrNone(home(position)) = home(position) /\ OrNone(LeastLoadedID) = LeastLoadedID
    BY <1>0, <2>2, ZenonT(60) DEF OrNone
  <2> QED
    BY <2>1, <2>2, <2>3, ZenonT(60)
<1>6. CASE policy = "ch_rlu"
  <2>0. policy \in RingPolicies
    BY <1>6, Zenon DEF RingPolicies, BoundedPolicies
  <2>1. CASE popular
    <3>1. targets = {OrNone(Chain(ring, MaxChainLen, home(position))[step]) : step \in 0..MaxChainLen}
                    \cup {OrNone(LeastLoadedID)}
      BY <1>0, <1>6, <2>1, ZenonT(60) DEF PickerPick, chrluPick
    <3>2. ring \in Seq(RingNode) /\ ids(ring) = healthy /\ home(position) \in healthy /\ MaxChainLen \in Nat
      BY <2>0, RingFacts, RoutingAssumption, ZenonT(60)
    <3>3. \A step \in 0..MaxChainLen : Chain(ring, MaxChainLen, home(position))[step] \in healthy
      BY <3>2, ChainOnRing, Zenon
    <3>4. LeastLoadedID \in healthy
      BY <2>0, FallbackTarget, Zenon
    <3>5. \A l \in healthy : OrNone(l) = l
      BY <1>0, Zenon DEF OrNone
    <3>6. \A step \in 0..MaxChainLen : OrNone(Chain(ring, MaxChainLen, home(position))[step]) \in healthy
      BY <3>3, <3>5, Zenon
    <3>7. OrNone(LeastLoadedID) \in healthy
      BY <3>4, <3>5, ZenonT(60)
    <3>8. targets \subseteq healthy /\ targets # {}
      <4> HIDE DEF targets
      <4> QED
        BY <3>1, <3>6, <3>7, ZenonT(60)
    <3> QED
      BY <3>8, Zenon
  <2>2. CASE ~popular
    <3>1. targets = {OrNone(Forward(picker.ring, value, boundFor(ratio), MaxChainLen, home(position)))}
      BY <1>0, <1>6, <2>2, ZenonT(60) DEF PickerPick, chrluPick
    <3>2. boundFor(ratio) \in Nat
      BY RoutingAssumption, SMTT(60) DEF boundFor
    <3>3. Forward(picker.ring, value, boundFor(ratio), MaxChainLen, home(position)) \in healthy
      BY <2>0, <3>2, ForwardedTarget, ZenonT(60)
    <3> QED
      BY <1>0, <3>1, <3>3, ZenonT(60) DEF OrNone
  <2> QED
    BY <2>1, <2>2, ZenonT(60)
<1>7. CASE policy = "least_loaded"
  <2>1. targets = {LeastLoaded(healthy, value)}
    BY <1>0, <1>7, ZenonT(60) DEF PickerPick, leastLoadedPick
  <2>2. healthy \in SUBSET Nat /\ \A l \in healthy : value[l] \in Nat
    BY PickerFacts, Zenon
  <2> QED
    BY <2>1, <2>2, LeastLoadedIsLeast, ZenonT(60)
<1>8. CASE policy = "available_capacity"
  <2> DEFINE advertised == {l \in healthy : routes[l] # Absent}
             best == {l \in advertised : \A m \in advertised : routes[l] >= routes[m]}
  <2>1. targets = IF advertised = {} THEN healthy ELSE {Nth(best, counter % Cardinality(best))}
    BY <1>0, <1>8, ZenonT(60) DEF PickerPick, availableCapacityPick
  <2>2. ASSUME advertised # {} PROVE best # {}
    <3>1. IsFiniteSet(advertised) /\ \A l \in advertised : routes[l] \in Nat
      <4>1. advertised \in SUBSET healthy
        BY Zenon
      <4>2. IsFiniteSet(advertised)
        <5> HIDE DEF advertised
        <5> QED
          BY <4>1, PickerFacts, FS_Subset, ZenonT(60)
      <4>3. \A l \in healthy : routes[l] \in Nat \cup {Absent}
        BY PickerFacts, Zenon
      <4>4. \A l \in advertised : routes[l] \in Nat
        BY <4>3, Zenon
      <4> QED
        BY <4>2, <4>4, ZenonT(60)
    <3>2. \E l \in advertised : \A m \in advertised : routes[l] >= routes[m]
      <4> HIDE DEF advertised
      <4> QED
        BY <2>2, <3>1, GreatestValue, Zenon
    <3> QED
      BY <3>2, Zenon
  <2>3. best \in SUBSET healthy
    BY Zenon
  <2>4. advertised # {} => Nth(best, counter % Cardinality(best)) \in healthy
    <3> HIDE DEF best, advertised
    <3> QED
      BY <2>2, <2>3, TurnTarget, Zenon
  <2>5. targets \subseteq healthy /\ targets # {}
    <3> HIDE DEF targets, best, advertised
    <3> QED
      BY <2>1, <2>4, Zenon
  <2> QED
    BY <2>5, Zenon
<1> QED
  BY <1>0, <1>1, <1>2, <1>3, <1>4, <1>5, <1>6, <1>7, <1>8 DEF Policies

\* A function and its latency ratio, at a position of the ring.
LEMMA TraitTypes ==
    ASSUME RoutingInv, NEW position \in Position, NEW function \in Traits
    PROVE  position \in Nat /\ function.ratio \in Nat
<1>1. Len(template) \in Nat
  BY DEF RoutingInv, Numbered
<1>2. position \in Nat
  BY <1>1 DEF Position
<1>3. function.ratio \in LatencyRatio \/ function.ratio = 1
  BY DEF Traits
<1>4. LatencyRatio \subseteq Nat
  BY RoutingAssumption, Zenon
<1>5. 1 \in Nat
  BY Zenon
<1> QED
  BY <1>2, <1>3, <1>4, <1>5, ZenonT(60)

\* Whatever frames arrived and leaves disconnected, every policy routes every
\* function to a healthy leaf while there is one, and refuses otherwise: the
\* ring and the leaves an installed picker holds are those of membership.healthy
\* (the models' Picker and Pick methods).
THEOREM RoutesToHealthy == RoutingSpec => []PickRoutable
<1>1. RoutingInv => PickRoutable
  <2> SUFFICES ASSUME RoutingInv, active, NEW position \in Position, NEW function \in Traits
               PROVE  LET targets == PickerPick(position, function.ratio, function.popular)
                      IN  targets \subseteq healthy /\ (targets = {} <=> healthy = {})
    BY Zenon DEF PickRoutable
  <2>1. CASE healthy = {}
    <3>1. picker.leaves = {}
      BY <2>1, SMTT(60) DEF RoutingInv
    <3> QED
      BY <2>1, <3>1, ZenonT(60) DEF PickerPick
  <2>2. CASE healthy # {}
    <3> DEFINE targets == PickerPick(position, function.ratio, function.popular)
    <3>1. position \in Nat /\ function.ratio \in Nat
      BY TraitTypes, ZenonT(60)
    <3>2. targets \subseteq healthy /\ targets # {}
      BY <2>2, <3>1, PickIsHealthy, Zenon
    <3> QED
      BY <2>2, <3>2, Zenon
  <2> QED
    BY <2>1, <2>2, ZenonT(60)
<1>2. RoutingInv /\ [RoutingNext]_routingVars => RoutingInv'
  BY RoutingStep, Zenon
<1> QED
  BY RoutingInitHolds, <1>1, <1>2, PTL DEF RoutingSpec

\* The load-aware policies never take a request away from a home leaf below the
\* bound, never pass a leaf below the bound over when they leave it, and fall
\* back to a least loaded one: for every ring, bound and chain length
\* (ForwardBy, randomJumpPicker.Pick).
THEOREM LoadsKeepBound == RoutingSpec => []KeepsBound
<1>1. RoutingInv => KeepsBound
  <2> SUFFICES ASSUME RoutingInv, policy \in BoundedPolicies, picker.leaves # {},
                      NEW position \in Position, NEW function \in Traits, ~function.popular
               PROVE  LET bound == IF policy = "ch_rlu" THEN boundFor(function.ratio) ELSE Bound
                          below == {l \in healthy : value[l] < bound}
                      IN  \A target \in PickerPick(position, function.ratio, FALSE) :
                            /\ home(position) \in below => target = home(position)
                            /\ below # {} => target \in below
                            /\ below = {} => \A l \in healthy : value[target] <= value[l]
    BY ZenonT(60) DEF KeepsBound
  <2> DEFINE bound == IF policy = "ch_rlu" THEN boundFor(function.ratio) ELSE Bound
             below == {l \in healthy : value[l] < bound}
             targets == PickerPick(position, function.ratio, FALSE)
             forwarded == Forward(picker.ring, value, bound, MaxChainLen, home(position))
  <2>1. active /\ healthy # {}
    BY DEF RoutingInv, NoPicker
  <2>2. position \in Nat /\ function.ratio \in Nat /\ policy \in RingPolicies
    BY TraitTypes, Zenon DEF RingPolicies
  <2>3. bound \in Nat
    BY <2>2, RoutingAssumption, SMTT(60) DEF boundFor
  <2> HIDE DEF bound
  <2>4. /\ picker.leaves = healthy /\ home(position) \in healthy
        /\ \A l \in healthy : value[l] \in Nat
    BY <2>1, <2>2, PickerFacts, RingFacts, ZenonT(60)
  <2>5. CASE policy # "rj_ch"
    <3>1. /\ forwarded \in healthy
          /\ value[home(position)] < bound => forwarded = home(position)
          /\ (\E l \in healthy : value[l] < bound) => value[forwarded] < bound
          /\ (\A l \in healthy : value[l] >= bound) => \A l \in healthy : value[forwarded] <= value[l]
      BY <2>1, <2>2, <2>3, ForwardedTarget, ZenonT(60)
    <3>2. targets = {forwarded}
      <4> HIDE DEF forwarded
      <4>1. CASE policy = "bounded_loads"
        <5>1. targets = {OrFirst(forwarded)}
          BY <2>1, <2>4, <4>1, ZenonT(60) DEF PickerPick, boundedLoadsPick, bound, forwarded
        <5> QED
          BY <2>4, <3>1, <5>1, Zenon DEF OrFirst
      <4>2. CASE policy = "ch_rlu"
        <5>1. targets = {OrNone(forwarded)}
          BY <2>1, <2>4, <4>2, ZenonT(60) DEF PickerPick, chrluPick, bound, forwarded
        <5> QED
          BY <2>4, <3>1, <5>1, ZenonT(60) DEF OrNone
      <4> QED
        BY <2>5, <4>1, <4>2, Zenon DEF BoundedPolicies
    <3>3. below = {} => \A l \in healthy : value[l] >= bound
      BY <2>3, <2>4
    <3> HIDE DEF forwarded, targets
    <3> QED
      BY <3>1, <3>2, <3>3, Zenon DEF bound, targets
  <2>6. CASE policy = "rj_ch"
    <3>1. LeastLoadedID \in healthy /\ \A l \in healthy : value[LeastLoadedID] <= value[l]
      BY <2>1, <2>2, FallbackTarget, ZenonT(60)
    <3>2. OrNone(home(position)) = home(position) /\ OrNone(LeastLoadedID) = LeastLoadedID /\ bound = Bound
      BY <2>4, <2>6, <3>1, ZenonT(60) DEF OrNone, bound
    <3>3. targets = IF value[home(position)] < bound THEN {home(position)} ELSE below \cup {LeastLoadedID}
      BY <2>1, <2>4, <2>6, <3>2, ZenonT(60) DEF PickerPick, randomJumpPick
    <3>4. below # {} => LeastLoadedID \in below
      BY <2>3, <2>4, <3>1, SMTT(60)
    <3> SUFFICES ASSUME NEW target \in targets
                 PROVE  /\ home(position) \in below => target = home(position)
                        /\ below # {} => target \in below
                        /\ below = {} => \A l \in healthy : value[target] <= value[l]
      BY Zenon DEF bound
    <3>5. home(position) \in below <=> value[home(position)] < bound
      BY <2>4, Zenon
    <3> HIDE DEF targets, below
    <3> QED
      BY <3>1, <3>3, <3>4, <3>5, ZenonT(60)
  <2> QED
    BY <2>5, <2>6, ZenonT(60)
<1>2. RoutingInv /\ [RoutingNext]_routingVars => RoutingInv'
  BY RoutingStep, Zenon
<1> QED
  BY RoutingInitHolds, <1>1, <1>2, PTL DEF RoutingSpec

\* Two rings of one configuration that both have the leaf the other one sends a
\* position to send it to the same leaf.
LEMMA HomesAgree ==
    ASSUME NEW t, Numbered(t), \A l \in Leaf : \E k \in 1..Len(t) : t[k].id = l,
           NEW G \in SUBSET Leaf, G # {}, NEW H \in SUBSET Leaf, H # {}, NEW position \in Nat,
           Home(Subset(t, G), position) \in H, Home(Subset(t, H), position) \in G
    PROVE  Home(Subset(t, G), position) = Home(Subset(t, H), position)
<1> DEFINE r == Subset(t, G)
           s == Subset(t, H)
           First(u, h) ==
             \/ /\ u[h].position >= position
                /\ \A k \in 1..Len(u) : u[k].position >= position => u[h].position <= u[k].position
             \/ \A k \in 1..Len(u) : u[k].position < position /\ u[h].position <= u[k].position
<1>1. Filtered(r, t, G, Len(t)) /\ r # <<>> /\ Filtered(s, t, H, Len(t)) /\ s # <<>>
  BY SubsetFilters, SubsetIDs, Zenon
<1> HIDE DEF r, s
<1>2. PICK h \in 1..Len(r) : Home(r, position) = r[h].id /\ First(r, h)
  <2>1. r \in Seq(RingNode) /\ \A a, b \in 1..Len(r) : a < b => r[a].position < r[b].position
    BY <1>1, ZenonT(60) DEF Filtered
  <2> QED
    BY <1>1, <2>1, HomeIsFirst, ZenonT(60)
<1>3. PICK k \in 1..Len(s) : Home(s, position) = s[k].id /\ First(s, k)
  <2>1. s \in Seq(RingNode) /\ \A a, b \in 1..Len(s) : a < b => s[a].position < s[b].position
    BY <1>1, ZenonT(60) DEF Filtered
  <2> QED
    BY <1>1, <2>1, HomeIsFirst, ZenonT(60)
<1>4. r[h].id \in H /\ s[k].id \in G
  BY <1>2, <1>3, ZenonT(60) DEF r, s
<1>5. Len(t) \in Nat
  BY SMTT(60) DEF Numbered
<1>6. PICK i \in 1..Len(t) : i = r[h].position /\ r[h] = t[i]
  BY <1>1, ZenonT(60) DEF Filtered
<1>7. PICK j \in 1..Len(t) : j = s[k].position /\ s[k] = t[j]
  BY <1>1, ZenonT(60) DEF Filtered
<1>8. i \in Nat /\ j \in Nat
  BY <1>5, SMTT(60)
<1>9. \E a \in 1..Len(s) : s[a] = t[i]
  <2>1. t[i].id \in H
    BY <1>4, <1>6, ZenonT(60)
  <2> QED
    BY <1>1, <2>1, ZenonT(60) DEF Filtered
<1>10. \E b \in 1..Len(r) : r[b] = t[j]
  <2>1. t[j].id \in G
    BY <1>4, <1>7, ZenonT(60)
  <2> QED
    BY <1>1, <2>1, Zenon DEF Filtered
<1>11. \/ i >= position /\ (j >= position => i <= j)
       \/ i < position /\ j < position /\ i <= j
  <2>1. PICK b \in 1..Len(r) : r[b] = t[j]
    BY <1>10, ZenonT(60)
  <2>2. r[h].position = i /\ r[b].position = j
    BY <1>6, <1>7, <2>1, ZenonT(60)
  <2>3. \/ r[h].position >= position /\ (r[b].position >= position => r[h].position <= r[b].position)
        \/ r[h].position < position /\ r[b].position < position /\ r[h].position <= r[b].position
    <3>1. First(r, h)
      BY <1>2, Zenon
    <3> QED
      BY <3>1, ZenonT(60)
  <2> QED
    BY <2>2, <2>3, Zenon
<1>12. \/ j >= position /\ (i >= position => j <= i)
       \/ j < position /\ i < position /\ j <= i
  <2>1. PICK a \in 1..Len(s) : s[a] = t[i]
    BY <1>9, Zenon
  <2>2. s[k].position = j /\ s[a].position = i
    BY <1>6, <1>7, <2>1, Zenon
  <2>3. \/ s[k].position >= position /\ (s[a].position >= position => s[k].position <= s[a].position)
        \/ s[k].position < position /\ s[a].position < position /\ s[k].position <= s[a].position
    <3>1. First(s, k)
      BY <1>3, Zenon
    <3> QED
      BY <3>1, ZenonT(60)
  <2> QED
    BY <2>2, <2>3, Zenon
<1>13. i = j
  BY <1>8, <1>11, <1>12, SMTT(60)
<1> QED
  BY <1>2, <1>3, <1>6, <1>7, <1>13, ZenonT(60) DEF r, s

\* For every configured ring and every change of health, a function keeps its
\* home unless that leaf is gone or the new one just arrived (Subset).
THEOREM HealthMovesLittle == RoutingSpec => HomeStable
<1> DEFINE Stable == active /\ ring' # ring => \A position \in Position :
                       home(position)' # home(position) =>
                         \/ home(position) \notin healthy'
                         \/ home(position)' \notin healthy
<1>1. ASSUME RoutingInv, RoutingNext, active, ring' # ring, NEW position \in Position,
             home(position) \in healthy', home(position)' \in healthy
      PROVE  home(position)' = home(position)
  <2>1. RoutingInv'
    BY <1>1, RoutingStep, Zenon
  <2>2. policy' = policy /\ template' = template /\ active'
    <3>1. (\E members, stale : Publish(members, stale)) \/ Activate \/ Pick
      BY <1>1, ZenonT(60)
         DEF RoutingNext, randomReplaceLeaf, roundRobinReplaceLeaf, consistentReplaceLeaf,
             boundedLoadsReplaceLeaf, leastLoadedReplaceLeaf, availableCapacityReplaceLeaf,
             availableCapacityApply, LeafDisconnected
    <3>2. (\E members, stale : Publish(members, stale)) => UNCHANGED <<policy, template, active>>
      BY Zenon DEF Publish
    <3> QED
      BY <1>1, <3>1, <3>2, ZenonT(60) DEF Activate, Pick
  <2>3. /\ ring = Subset(template, healthy) /\ picker.ring = ring /\ healthy \in SUBSET Leaf /\ Numbered(template)
    BY <1>1, SMTT(60) DEF RoutingInv
  <2>4. /\ ring' = Subset(template, healthy') /\ picker'.ring = ring' /\ healthy' \in SUBSET Leaf
    BY <2>1, <2>2, SMTT(60) DEF RoutingInv
  <2>5. policy \in RingPolicies
    <3> SUFFICES ASSUME policy \notin RingPolicies PROVE FALSE
      BY Zenon
    <3>1. template = <<>>
      BY <1>1, Zenon DEF RoutingInv
    <3> QED
      BY <1>1, <2>3, <2>4, <3>1, EmptyRing, Zenon
  <2>6. \A l \in Leaf : \E k \in 1..Len(template) : template[k].id = l
    BY <1>1, <2>5, Zenon DEF RoutingInv
  <2>7. position \in Nat
    <3>1. Len(template) \in Nat
      BY <2>3 DEF Numbered
    <3> QED
      BY <3>1, SMTT(60) DEF Position
  <2>8. home(position) = Home(Subset(template, healthy), position)
    BY <2>3, Zenon DEF home
  <2>9. home(position)' = Home(Subset(template, healthy'), position)
    BY <2>4, Zenon DEF home
  <2>10. home(position) \in healthy' /\ home(position)' \in healthy
    BY <1>1, Zenon
  <2>11. healthy # {} /\ healthy' # {}
    BY <2>10, Zenon
  <2> QED
    BY <2>3, <2>4, <2>6, <2>7, <2>8, <2>9, <2>10, <2>11, HomesAgree, ZenonT(60)
<1>2. RoutingInv /\ [RoutingNext]_routingVars => [Stable]_routingVars
  BY <1>1, Zenon
<1>3. RoutingInv /\ [RoutingNext]_routingVars => RoutingInv'
  BY RoutingStep, Zenon
<1> QED
  BY RoutingInitHolds, <1>2, <1>3, PTL DEF RoutingSpec, HomeStable
==============================================================================
