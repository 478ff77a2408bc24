------------------------- MODULE FunctionSyncProofs -------------------------
(***************************************************************************)
(* No leaf goes back in the history of a function, for any number of       *)
(* users, functions, callers and leaves, either backend and every size of  *)
(* the channels on the way.                                                *)
(***************************************************************************)
EXTENDS FunctionSync, TLAPS

----------------------------------------------------------------------------
(* The strengthening.                                                      *)

Version == [live : BOOLEAN, ver : Nat]
FunctionEvent == [type : {"CREATED", "UPDATED", "DELETED"}, f : Function, ver : Nat]
PendingCall ==
    {NoCall} \cup [op : {"create"}, f : Function]
             \cup [op : {"deleteUser"}, user : User, listed : SUBSET Function]

\* The types that matter here.
SyncTypes ==
    /\ stored \in [Function -> Version] /\ changes \in Nat
    /\ emitting \in Seq(FunctionEvent)
    /\ call \in [Caller -> PendingCall]
    /\ session \in [Leaf -> {"down", "list", "watch"}]
    /\ feed \in [Leaf -> Seq(FunctionEvent)]
    /\ events \in [Leaf -> Seq(FunctionEvent)]
    /\ known \in [Leaf -> [Function -> Version]]

\* Events of one function are in the order of its history.
Rises(q) == \A i, j \in 1..Len(q) : i < j /\ q[i].f = q[j].f => q[i].ver <= q[j].ver
Precedes(q, r) ==
    \A i \in 1..Len(q), j \in 1..Len(r) : q[i].f = r[j].f => q[i].ver <= r[j].ver
\* They are no older than what is known and no newer than what is stored.
Between(knows, q, now) ==
    \A i \in 1..Len(q) : knows[q[i].f].ver <= q[i].ver /\ q[i].ver <= now[q[i].f].ver

\* What a leaf knows, the events it has still to handle and those its watch has
\* still to receive follow each other in the history of every function, which
\* ends with what is stored.
InHistory(knows, queue, watch, now) ==
    /\ Rises(queue) /\ Rises(watch) /\ Precedes(queue, watch)
    /\ Between(knows, queue, now) /\ Between(knows, watch, now)
    /\ \A f \in Function : knows[f].ver <= now[f].ver

\* The events tell the present state of their functions.
Newest(burst, now) == \A i \in 1..Len(burst) : burst[i].ver = now[burst[i].f].ver

\* A watch that is not open holds nothing, only the memory store emits under its
\* lock, and only etcd has calls between two requests.
HistoryInv ==
    /\ SyncTypes
    /\ \A f \in Function : stored[f].ver <= changes
    /\ \A l \in Leaf : session[l] # "watch" => feed[l] = <<>>
    /\ \A l \in Leaf : InHistory(known[l], events[l], feed[l], stored)
    /\ Newest(emitting, stored)
    /\ emitting # <<>> => backend = "memory"
    /\ \A c \in Caller : call[c] # NoCall => backend = "etcd"

----------------------------------------------------------------------------
(* Histories.                                                              *)

\* The fields of an event of a sequence.
LEMMA EventFields ==
    ASSUME NEW q \in Seq(FunctionEvent), NEW i \in 1..Len(q)
    PROVE  q[i].f \in Function /\ q[i].ver \in Nat
<1>1. q[i] \in FunctionEvent
  OBVIOUS
<1> QED
  BY <1>1, Zenon DEF FunctionEvent

\* What is stored or known of a function has a version number.
LEMMA VersionFields ==
    ASSUME NEW k \in [Function -> Version], NEW f \in Function
    PROVE  k[f].ver \in Nat
BY Zenon DEF Version

\* A change of the store comes after everything told so far.
LEMMA HistoryGrows ==
    ASSUME NEW knows \in [Function -> Version], NEW queue \in Seq(FunctionEvent),
           NEW watch \in Seq(FunctionEvent), NEW now \in [Function -> Version],
           NEW later \in [Function -> Version], InHistory(knows, queue, watch, now),
           \A f \in Function : now[f].ver <= later[f].ver
    PROVE  InHistory(knows, queue, watch, later)
<1>1. ASSUME NEW q \in Seq(FunctionEvent), Between(knows, q, now)
      PROVE  Between(knows, q, later)
  <2> SUFFICES ASSUME NEW i \in 1..Len(q)
               PROVE  knows[q[i].f].ver <= q[i].ver /\ q[i].ver <= later[q[i].f].ver
    BY Zenon DEF Between
  <2>1. knows[q[i].f].ver <= q[i].ver /\ q[i].ver <= now[q[i].f].ver
    BY <1>1, Zenon DEF Between
  <2>2. q[i].f \in Function /\ q[i].ver \in Nat
    BY EventFields, Zenon
  <2>3. now[q[i].f].ver \in Nat /\ later[q[i].f].ver \in Nat
    BY <2>2, VersionFields, Zenon
  <2> QED
    BY <2>1, <2>2, <2>3
<1>2. \A f \in Function : knows[f].ver <= later[f].ver
  <2> SUFFICES ASSUME NEW f \in Function PROVE knows[f].ver <= later[f].ver
    BY Zenon
  <2>1. knows[f].ver \in Nat /\ now[f].ver \in Nat /\ later[f].ver \in Nat
    BY VersionFields, Zenon
  <2> QED
    BY <2>1 DEF InHistory
<1> QED
  BY <1>1, <1>2, Zenon DEF InHistory

\* Events that tell the present state come after all others.
LEMMA NewestLast ==
    ASSUME NEW knows \in [Function -> Version], NEW q \in Seq(FunctionEvent),
           NEW now \in [Function -> Version], NEW burst \in Seq(FunctionEvent), Newest(burst, now),
           Rises(q), Between(knows, q, now), \A f \in Function : knows[f].ver <= now[f].ver
    PROVE  Rises(q \o burst) /\ Between(knows, q \o burst, now)
<1> DEFINE w == q \o burst
<1>1. /\ Len(w) = Len(q) + Len(burst) /\ Len(q) \in Nat /\ Len(burst) \in Nat
      /\ \A i \in 1..Len(w) : i > Len(q) => w[i] = burst[i - Len(q)] /\ i - Len(q) \in 1..Len(burst)
      /\ \A i \in 1..Len(w) : i <= Len(q) => w[i] = q[i] /\ i \in 1..Len(q)
  OBVIOUS
<1>2. w \in Seq(FunctionEvent)
  OBVIOUS
<1>3. \A i \in 1..Len(w) : i > Len(q) => w[i].ver = now[w[i].f].ver
  BY <1>1 DEF Newest
<1> HIDE DEF w
<1>4. ASSUME NEW i \in 1..Len(w) PROVE knows[w[i].f].ver <= w[i].ver /\ w[i].ver <= now[w[i].f].ver
  <2>1. w[i].f \in Function /\ w[i].ver \in Nat
    BY <1>2, EventFields, Zenon
  <2>2. CASE i <= Len(q)
    BY <1>1, <2>2, Zenon DEF Between
  <2>3. CASE i > Len(q)
    BY <1>3, <2>1, <2>3
  <2> QED
    BY <1>1, <2>2, <2>3
<1>5. ASSUME NEW i \in 1..Len(w), NEW j \in 1..Len(w), i < j, w[i].f = w[j].f PROVE w[i].ver <= w[j].ver
  <2>1. CASE j <= Len(q)
    <3>1. i \in 1..Len(q) /\ j \in 1..Len(q) /\ w[i] = q[i] /\ w[j] = q[j]
      BY <1>1, <1>5, <2>1
    <3> QED
      BY <1>5, <3>1, Zenon DEF Rises
  <2>2. CASE j > Len(q)
    BY <1>3, <1>4, <1>5, <2>2, Zenon
  <2> QED
    BY <1>1, <2>1, <2>2
<1> QED
  BY <1>4, <1>5, Zenon DEF Rises, Between, w

\* What the watch is sent tells the present state.
LEMMA HistoryFed ==
    ASSUME NEW knows \in [Function -> Version], NEW queue \in Seq(FunctionEvent),
           NEW watch \in Seq(FunctionEvent), NEW now \in [Function -> Version],
           NEW burst \in Seq(FunctionEvent), Newest(burst, now), InHistory(knows, queue, watch, now)
    PROVE  InHistory(knows, queue, watch \o burst, now)
<1> DEFINE w == watch \o burst
<1>1. /\ Len(w) = Len(watch) + Len(burst) /\ Len(watch) \in Nat /\ Len(burst) \in Nat
      /\ \A i \in 1..Len(w) : i > Len(watch) => w[i] = burst[i - Len(watch)] /\ i - Len(watch) \in 1..Len(burst)
      /\ \A i \in 1..Len(w) : i <= Len(watch) => w[i] = watch[i] /\ i \in 1..Len(watch)
  OBVIOUS
<1>2. Rises(w) /\ Between(knows, w, now)
  BY NewestLast, Zenon DEF InHistory
<1> HIDE DEF w
<1>3. ASSUME NEW i \in 1..Len(queue), NEW j \in 1..Len(w), queue[i].f = w[j].f
      PROVE  queue[i].ver <= w[j].ver
  <2>1. CASE j <= Len(watch)
    BY <1>1, <1>3, <2>1, Zenon DEF InHistory, Precedes
  <2>2. CASE j > Len(watch)
    <3>1. queue[i].ver <= now[queue[i].f].ver
      BY Zenon DEF InHistory, Between
    <3>2. w[j].ver = now[w[j].f].ver
      BY <1>1, <2>2 DEF Newest
    <3> QED
      BY <1>3, <3>1, <3>2, Zenon
  <2> QED
    BY <1>1, <2>1, <2>2
<1>4. Precedes(queue, w)
  BY <1>3, Zenon DEF Precedes
<1> QED
  BY <1>2, <1>4, Zenon DEF InHistory, w

\* What is listed before the watch opens tells the present state.
LEMMA HistoryListed ==
    ASSUME NEW knows \in [Function -> Version], NEW queue \in Seq(FunctionEvent),
           NEW now \in [Function -> Version],
           NEW burst \in Seq(FunctionEvent), Newest(burst, now), InHistory(knows, queue, <<>>, now)
    PROVE  InHistory(knows, queue \o burst, <<>>, now)
<1>1. Rises(queue \o burst) /\ Between(knows, queue \o burst, now)
  BY NewestLast, Zenon DEF InHistory
<1>2. Precedes(queue \o burst, <<>>)
  BY DEF Precedes
<1> QED
  BY <1>1, <1>2, Zenon DEF InHistory

\* What a watch still held is lost with its stream.
LEMMA HistoryCut ==
    ASSUME NEW knows, NEW queue, NEW watch, NEW now, InHistory(knows, queue, watch, now)
    PROVE  InHistory(knows, queue, <<>>, now)
BY DEF InHistory, Rises, Precedes, Between

\* An event moves from the watch to the leaf, or is skipped.
LEMMA HistoryReceived ==
    ASSUME NEW knows \in [Function -> Version], NEW queue \in Seq(FunctionEvent),
           NEW watch \in Seq(FunctionEvent), watch # <<>>, NEW now \in [Function -> Version],
           InHistory(knows, queue, watch, now)
    PROVE  /\ InHistory(knows, queue, Tail(watch), now)
           /\ InHistory(knows, Append(queue, Head(watch)), Tail(watch), now)
<1> DEFINE w == Tail(watch)
           q == Append(queue, Head(watch))
<1>1. /\ Len(w) = Len(watch) - 1 /\ Len(watch) \in Nat \ {0} /\ 1 \in 1..Len(watch)
      /\ \A i \in 1..Len(w) : w[i] = watch[i + 1] /\ i + 1 \in 1..Len(watch)
  OBVIOUS
<1>2. /\ Len(q) = Len(queue) + 1 /\ Len(queue) \in Nat
      /\ \A i \in 1..Len(q) : IF i = Len(q) THEN q[i] = watch[1] ELSE i \in 1..Len(queue) /\ q[i] = queue[i]
  OBVIOUS
<1> HIDE DEF w, q
<1>3. Rises(w)
  <2> SUFFICES ASSUME NEW i \in 1..Len(w), NEW j \in 1..Len(w), i < j, w[i].f = w[j].f
               PROVE  w[i].ver <= w[j].ver
    BY Zenon DEF Rises
  <2>1. /\ w[i] = watch[i + 1] /\ i + 1 \in 1..Len(watch) /\ i + 1 < j + 1
        /\ w[j] = watch[j + 1] /\ j + 1 \in 1..Len(watch)
    BY <1>1
  <2> QED
    BY <2>1, Zenon DEF InHistory, Rises
<1>4. Precedes(queue, w)
  BY <1>1, Zenon DEF InHistory, Precedes
<1>5. Between(knows, w, now)
  BY <1>1, Zenon DEF InHistory, Between
<1>6. Rises(q)
  <2> SUFFICES ASSUME NEW i \in 1..Len(q), NEW j \in 1..Len(q), i < j, q[i].f = q[j].f
               PROVE  q[i].ver <= q[j].ver
    BY Zenon DEF Rises
  <2>1. i \in 1..Len(queue) /\ q[i] = queue[i]
    BY <1>2
  <2>2. CASE j = Len(q)
    BY <1>1, <1>2, <2>1, <2>2, Zenon DEF InHistory, Precedes
  <2>3. CASE j # Len(q)
    BY <1>2, <2>1, <2>3, Zenon DEF InHistory, Rises
  <2> QED
    BY <2>2, <2>3, Zenon
<1>7. Precedes(q, w)
  <2> SUFFICES ASSUME NEW i \in 1..Len(q), NEW j \in 1..Len(w), q[i].f = w[j].f
               PROVE  q[i].ver <= w[j].ver
    BY Zenon DEF Precedes
  <2>1. CASE i = Len(q)
    <3>1. q[i] = watch[1] /\ w[j] = watch[j + 1] /\ j + 1 \in 1..Len(watch) /\ 1 < j + 1
      BY <1>1, <1>2, <2>1
    <3> QED
      BY <1>1, <3>1, Zenon DEF InHistory, Rises
  <2>2. CASE i # Len(q)
    BY <1>2, <1>4, <2>2, Zenon DEF Precedes
  <2> QED
    BY <2>1, <2>2, Zenon
<1>8. Between(knows, q, now)
  BY <1>1, <1>2, Zenon DEF InHistory, Between
<1> QED
  BY <1>3, <1>4, <1>5, <1>6, <1>7, <1>8, Zenon DEF InHistory, w, q

\* The leaf handles the oldest event: it moves on in the history of its function.
LEMMA HistoryHandled ==
    ASSUME NEW knows \in [Function -> Version], NEW queue \in Seq(FunctionEvent), queue # <<>>,
           NEW watch \in Seq(FunctionEvent), NEW now \in [Function -> Version],
           NEW k \in [Function -> Version], k[Head(queue).f].ver = Head(queue).ver,
           \A f \in Function : f # Head(queue).f => k[f] = knows[f],
           InHistory(knows, queue, watch, now)
    PROVE  /\ InHistory(k, Tail(queue), watch, now)
           /\ \A f \in Function : k[f].ver >= knows[f].ver
<1> DEFINE q == Tail(queue)
           e == queue[1]
<1>1. /\ Len(q) = Len(queue) - 1 /\ Len(queue) \in Nat \ {0} /\ 1 \in 1..Len(queue)
      /\ \A i \in 1..Len(q) : q[i] = queue[i + 1] /\ i + 1 \in 1..Len(queue) /\ 1 < i + 1
      /\ Head(queue) = e
  OBVIOUS
<1>2. e.f \in Function /\ e.ver \in Nat
  BY <1>1, EventFields, Zenon
<1>3. k[e.f].ver = e.ver /\ \A f \in Function : f # e.f => k[f] = knows[f]
  BY <1>1, <1>2, Zenon
<1>4. \A f \in Function : k[f].ver \in Nat /\ knows[f].ver \in Nat /\ now[f].ver \in Nat
  BY VersionFields, Zenon
<1>5. knows[e.f].ver <= e.ver /\ e.ver <= now[e.f].ver
  BY <1>1, Zenon DEF InHistory, Between
<1>6. \A i \in 1..Len(q) : e.f = q[i].f => e.ver <= q[i].ver
  BY <1>1, Zenon DEF InHistory, Rises
<1>7. \A i \in 1..Len(watch) : e.f = watch[i].f => e.ver <= watch[i].ver
  BY <1>1, Zenon DEF InHistory, Precedes
<1>8. Rises(q)
  BY <1>1 DEF InHistory, Rises
<1>9. Precedes(q, watch)
  <2> SUFFICES ASSUME NEW i \in 1..Len(q), NEW j \in 1..Len(watch), q[i].f = watch[j].f
               PROVE  q[i].ver <= watch[j].ver
    BY Zenon DEF Precedes
  <2>1. q[i] = queue[i + 1] /\ i + 1 \in 1..Len(queue)
    BY <1>1, Zenon
  <2> HIDE DEF q
  <2> QED
    BY <2>1, Zenon DEF InHistory, Precedes
<1>a. q \in Seq(FunctionEvent)
  OBVIOUS
<1>b. Between(knows, q, now)
  BY <1>1, Zenon DEF InHistory, Between
<1> HIDE DEF q, e
<1>10. \A f \in Function : k[f].ver >= knows[f].ver /\ k[f].ver <= now[f].ver
  <2> SUFFICES ASSUME NEW f \in Function PROVE k[f].ver >= knows[f].ver /\ k[f].ver <= now[f].ver
    BY Zenon
  <2>1. knows[f].ver <= now[f].ver
    BY Zenon DEF InHistory
  <2>2. CASE f = e.f
    BY <1>2, <1>3, <1>4, <1>5, <2>2, Zenon
  <2>3. CASE f # e.f
    BY <1>3, <1>4, <2>1, <2>3
  <2> QED
    BY <2>2, <2>3, Zenon
<1>11. ASSUME NEW r \in Seq(FunctionEvent), Between(knows, r, now),
              \A i \in 1..Len(r) : e.f = r[i].f => e.ver <= r[i].ver
       PROVE  Between(k, r, now)
  <2> SUFFICES ASSUME NEW i \in 1..Len(r) PROVE k[r[i].f].ver <= r[i].ver /\ r[i].ver <= now[r[i].f].ver
    BY Zenon DEF Between
  <2>1. /\ knows[r[i].f].ver <= r[i].ver /\ r[i].ver <= now[r[i].f].ver
        /\ e.f = r[i].f => e.ver <= r[i].ver
    BY <1>11, Zenon DEF Between
  <2>2. r[i].f \in Function
    BY EventFields, Zenon
  <2>3. CASE r[i].f = e.f
    BY <1>3, <2>1, <2>3, Zenon
  <2>4. CASE r[i].f # e.f
    BY <1>3, <2>1, <2>2, <2>4, Zenon
  <2> QED
    BY <2>3, <2>4, Zenon
<1>12. Between(k, q, now) /\ Between(k, watch, now)
  BY <1>6, <1>7, <1>a, <1>b, <1>11, Zenon DEF InHistory
<1> QED
  BY <1>8, <1>9, <1>10, <1>12, Zenon DEF InHistory, q

----------------------------------------------------------------------------
(* Lists of events.                                                        *)

\* One event for each of some functions: they can be counted.  The
\* lemmas assume it; it is proved at the end from the library's facts about
\* finite sets, which are not brought in before they are needed.
EventSet(type, F, ver) == {Event(type, f, ver[f]) : f \in F}
EventsCount ==
    \A type : \A F \in SUBSET Function : \A ver \in [F -> Nat] :
      Cardinality(EventSet(type, F, ver)) \in Nat

\* Events about the present state of the functions listed.
LEMMA ListedEvents ==
    ASSUME NEW type \in {"CREATED", "UPDATED", "DELETED"}, NEW F \in SUBSET Function,
           NEW now \in [Function -> Version], NEW ver \in [F -> Nat], \A f \in F : ver[f] = now[f].ver,
           Cardinality(EventSet(type, F, ver)) \in Nat, NEW burst \in Orders(EventSet(type, F, ver))
    PROVE  burst \in Seq(FunctionEvent) /\ Newest(burst, now)
<1> DEFINE S == EventSet(type, F, ver)
<1>1. S \subseteq FunctionEvent /\ \A e \in S : e.ver = now[e.f].ver
  BY DEF Event, FunctionEvent, EventSet
<1>2. burst \in Seq(S) /\ \A i \in 1..Len(burst) : burst[i] \in S
  BY DEF Orders
<1> HIDE DEF S
<1> QED
  BY <1>1, <1>2 DEF Newest, S

----------------------------------------------------------------------------
(* The steps.                                                              *)

\* What a change of the store leaves alone.
LeavesQuiet == session' = session /\ known' = known /\ events' = events

\* The part of the invariant that is about one leaf.
LeafInv(l) == (session[l] # "watch" => feed[l] = <<>>) /\ InHistory(known[l], events[l], feed[l], stored)

\* A change of the store, told to the open watches or to none.
LEMMA StoreStep ==
    ASSUME HistoryInv, LeavesQuiet, stored' \in [Function -> Version],
           \A f \in Function : stored[f].ver <= stored'[f].ver,
           NEW burst \in Seq(FunctionEvent), Newest(burst, stored'), feed' = feed \/ Emit(burst)
    PROVE  /\ feed' \in [Leaf -> Seq(FunctionEvent)]
           /\ \A l \in Leaf : LeafInv(l)'
<1>1. /\ known \in [Leaf -> [Function -> Version]] /\ stored \in [Function -> Version]
      /\ events \in [Leaf -> Seq(FunctionEvent)] /\ feed \in [Leaf -> Seq(FunctionEvent)]
      /\ \A l \in Leaf : LeafInv(l)
  BY Zenon DEF HistoryInv, SyncTypes, LeafInv
<1>2. ASSUME NEW l \in Leaf
      PROVE  /\ feed'[l] \in Seq(FunctionEvent)
             /\ feed'[l] # feed[l] => session[l] = "watch"
             /\ feed'[l] = feed[l] \/ feed'[l] = feed[l] \o burst
  <2>1. CASE feed' = feed
    BY <1>1, <2>1, Zenon
  <2>2. CASE Emit(burst)
    <3>1. feed'[l] = IF Takes(l) THEN feed[l] \o burst ELSE feed[l]
      BY <2>2, Zenon DEF Emit
    <3>2. feed[l] \in Seq(FunctionEvent) /\ feed[l] \o burst \in Seq(FunctionEvent)
      BY <1>1
    <3> QED
      BY <3>1, <3>2, Zenon DEF Takes
  <2> QED
    BY <2>1, <2>2, Zenon
<1>3. feed' \in [Leaf -> Seq(FunctionEvent)]
  <2>1. feed' = [l \in Leaf |-> feed'[l]]
    BY <1>1, Zenon DEF Emit
  <2>2. \A l \in Leaf : feed'[l] \in Seq(FunctionEvent)
    BY <1>2, Zenon
  <2> QED
    BY <2>1, <2>2, Zenon
<1>4. ASSUME NEW l \in Leaf PROVE LeafInv(l)'
  <2>1. /\ known[l] \in [Function -> Version] /\ events[l] \in Seq(FunctionEvent)
        /\ feed[l] \in Seq(FunctionEvent)
    BY <1>1, Zenon
  <2>2. InHistory(known[l], events[l], feed[l], stored')
    BY <1>1, <2>1, HistoryGrows, Zenon DEF LeafInv
  <2>3. InHistory(known[l], events[l], feed[l] \o burst, stored')
    BY <2>1, <2>2, HistoryFed, Zenon
  <2>4. InHistory(known[l], events[l], feed'[l], stored')
    BY <1>2, <2>2, <2>3, Zenon
  <2>5. session'[l] # "watch" => feed'[l] = <<>>
    <3>1. session'[l] = session[l] /\ (session[l] # "watch" => feed[l] = <<>>)
      BY <1>1, Zenon DEF LeafInv, LeavesQuiet
    <3> QED
      BY <1>2, <3>1, Zenon
  <2> QED
    BY <2>4, <2>5, Zenon DEF LeafInv, LeavesQuiet
<1> QED
  BY <1>3, <1>4, Zenon

\* A change of one function (Change).
LEMMA ChangeStep ==
    ASSUME HistoryInv, NEW type \in {"CREATED", "UPDATED", "DELETED"}, NEW f \in Function,
           Change(type, f), LeavesQuiet, emitting' = emitting, backend' = backend,
           call' \in [Caller -> PendingCall], \A c \in Caller : call'[c] # NoCall => call'[c] = call[c]
    PROVE  HistoryInv'
<1> DEFINE e == Event(type, f, changes + 1)
<1>1. /\ stored \in [Function -> Version] /\ changes \in Nat
      /\ \A g \in Function : stored[g].ver <= changes
      /\ \A c \in Caller : call[c] # NoCall => backend = "etcd"
      /\ emitting = <<>>
  BY Zenon DEF HistoryInv, SyncTypes, Change, Unlocked
<1>2. /\ changes' = changes + 1 /\ Emit(<<e>>)
      /\ stored' = [stored EXCEPT ![f] = [live |-> type # "DELETED", ver |-> changes + 1]]
  BY Zenon DEF Change
<1>3. /\ stored' \in [Function -> Version] /\ changes' \in Nat /\ stored'[f].ver = changes + 1
      /\ \A g \in Function : stored[g].ver <= stored'[g].ver /\ stored'[g].ver <= changes'
  BY <1>1, <1>2 DEF Version
<1>4. <<e>> \in Seq(FunctionEvent) /\ Newest(<<e>>, stored')
  <2>1. e \in FunctionEvent /\ e.ver = stored'[e.f].ver
    BY <1>1, <1>3 DEF Event, FunctionEvent
  <2> HIDE DEF e
  <2> QED
    BY <2>1 DEF Newest
<1>5. feed' \in [Leaf -> Seq(FunctionEvent)] /\ \A l \in Leaf : LeafInv(l)'
  BY <1>2, <1>3, <1>4, StoreStep, Zenon
<1>6. SyncTypes'
  BY <1>1, <1>3, <1>5, Zenon DEF SyncTypes, LeavesQuiet, HistoryInv
<1>7. Newest(emitting', stored') /\ (emitting' # <<>> => backend' = "memory")
  BY <1>1 DEF Newest
<1>8. \A c \in Caller : call'[c] # NoCall => backend' = "etcd"
  BY <1>1, Zenon
<1> QED
  BY <1>3, <1>5, <1>6, <1>7, <1>8, Zenon DEF HistoryInv, LeafInv

\* The functions of a user go (RemoveUser); the deletions are told.
LEMMA RemoveStep ==
    ASSUME EventsCount, HistoryInv, NEW u \in User, NEW gone \in SUBSET Function,
           RemoveUser(u, gone), LeavesQuiet
    PROVE  /\ stored' \in [Function -> Version] /\ changes' \in Nat
           /\ \A g \in Function : stored[g].ver <= stored'[g].ver /\ stored'[g].ver <= changes'
           /\ \A burst \in Orders(Deletions(gone)) : burst \in Seq(FunctionEvent) /\ Newest(burst, stored')
<1>1. /\ stored \in [Function -> Version] /\ changes \in Nat
      /\ \A g \in Function : stored[g].ver <= changes
  BY Zenon DEF HistoryInv, SyncTypes
<1>2. /\ changes' = changes + 1
      /\ stored' = [f \in Function |-> IF f \in gone THEN [live |-> FALSE, ver |-> changes + 1] ELSE stored[f]]
  BY Zenon DEF RemoveUser
<1>3. /\ stored' \in [Function -> Version] /\ changes' \in Nat
      /\ \A f \in gone : stored'[f].ver = changes + 1
      /\ \A g \in Function : stored[g].ver <= stored'[g].ver /\ stored'[g].ver <= changes'
  BY <1>1, <1>2 DEF Version
<1> DEFINE ver == [f \in gone |-> changes + 1]
<1>4. ver \in [gone -> Nat] /\ \A f \in gone : ver[f] = stored'[f].ver
  BY <1>1, <1>3
<1>5. Deletions(gone) = EventSet("DELETED", gone, ver)
  BY Zenon DEF Deletions, EventSet
<1> HIDE DEF ver
<1>6. Cardinality(EventSet("DELETED", gone, ver)) \in Nat
  BY <1>4, Zenon DEF EventsCount
<1>7. \A burst \in Orders(Deletions(gone)) : burst \in Seq(FunctionEvent) /\ Newest(burst, stored')
  BY <1>3, <1>4, <1>5, <1>6, ListedEvents, Zenon
<1> QED
  BY <1>3, <1>7, Zenon

\* Every step keeps the histories in order and moves no leaf back.
LEMMA HistoryStep ==
    ASSUME EventsCount, HistoryInv, [Next]_vars
    PROVE  /\ HistoryInv'
           /\ \A l \in Leaf, f \in Function : known'[l][f].ver >= known[l][f].ver
<1>0. /\ stored \in [Function -> Version] /\ changes \in Nat /\ emitting \in Seq(FunctionEvent)
      /\ call \in [Caller -> PendingCall] /\ session \in [Leaf -> {"down", "list", "watch"}]
      /\ feed \in [Leaf -> Seq(FunctionEvent)] /\ events \in [Leaf -> Seq(FunctionEvent)]
      /\ known \in [Leaf -> [Function -> Version]]
      /\ \A f \in Function : stored[f].ver <= changes
      /\ \A l \in Leaf : LeafInv(l)
      /\ Newest(emitting, stored) /\ (emitting # <<>> => backend = "memory")
      /\ \A c \in Caller : call[c] # NoCall => backend = "etcd"
  BY Zenon DEF HistoryInv, SyncTypes, LeafInv
<1>1. known' = known => \A l \in Leaf, f \in Function : known'[l][f].ver >= known[l][f].ver
  <2>1. \A l \in Leaf, f \in Function : known[l][f].ver \in Nat
    BY <1>0, Zenon DEF Version
  <2> QED
    BY <2>1
<1>2. CASE UNCHANGED vars
  BY <1>1, <1>2, Zenon DEF HistoryInv, SyncTypes, LeafInv, InHistory, Newest, vars, storeVars, sessionVars
<1>3. ASSUME NEW u \in User, CreateUser(u) PROVE HistoryInv' /\ known' = known
  BY <1>3, Zenon DEF CreateUser, HistoryInv, SyncTypes, sessionVars
<1>4. ASSUME NEW u \in User, DeleteUser(u) PROVE HistoryInv' /\ known' = known
  <2> DEFINE gone == FunctionsOf(u)
  <2>1. /\ RemoveUser(u, gone) /\ LeavesQuiet /\ gone \in SUBSET Function /\ backend = "memory"
        /\ emitting' \in Orders(Deletions(gone)) /\ feed' = feed /\ backend' = backend /\ call' = call
    BY <1>4, Zenon DEF DeleteUser, LeavesQuiet, sessionVars, FunctionsOf
  <2> HIDE DEF gone
  <2>2. /\ stored' \in [Function -> Version] /\ changes' \in Nat
        /\ \A g \in Function : stored[g].ver <= stored'[g].ver /\ stored'[g].ver <= changes'
        /\ \A burst \in Orders(Deletions(gone)) : burst \in Seq(FunctionEvent) /\ Newest(burst, stored')
    BY <2>1, RemoveStep, Zenon
  <2>3. emitting' \in Seq(FunctionEvent) /\ Newest(emitting', stored')
    BY <2>1, <2>2, Zenon
  <2>4. feed' \in [Leaf -> Seq(FunctionEvent)] /\ \A l \in Leaf : LeafInv(l)'
    BY <2>1, <2>2, <2>3, StoreStep, Zenon
  <2>5. SyncTypes'
    BY <1>0, <2>1, <2>2, <2>3, <2>4, Zenon DEF SyncTypes, LeavesQuiet
  <2> QED
    BY <1>0, <2>1, <2>2, <2>3, <2>4, <2>5, Zenon DEF HistoryInv, LeafInv, LeavesQuiet
<1>5. CASE emitLocked
  <2> DEFINE e == Head(emitting)
  <2>1. /\ emitting # <<>> /\ Emit(<<e>>) /\ emitting' = Tail(emitting) /\ LeavesQuiet
        /\ stored' = stored /\ changes' = changes /\ backend' = backend /\ call' = call
    BY <1>5, Zenon DEF emitLocked, LeavesQuiet, sessionVars
  <2>2. e = emitting[1] /\ e \in FunctionEvent /\ 1 \in 1..Len(emitting)
    BY <1>0, <2>1
  <2>3. e.ver = stored[e.f].ver
    BY <1>0, <2>2, Zenon DEF Newest
  <2>4. emitting' \in Seq(FunctionEvent) /\ Newest(emitting', stored)
    <3>1. \A i \in 1..Len(emitting') : emitting'[i] = emitting[i + 1] /\ i + 1 \in 1..Len(emitting)
      BY <1>0, <2>1
    <3> QED
      BY <1>0, <2>1, <3>1 DEF Newest
  <2> HIDE DEF e
  <2>5. <<e>> \in Seq(FunctionEvent) /\ Newest(<<e>>, stored')
    BY <2>1, <2>2, <2>3 DEF Newest
  <2>6. \A f \in Function : stored[f].ver <= stored'[f].ver
    <3>1. \A f \in Function : stored[f].ver \in Nat
      BY <1>0, VersionFields, Zenon
    <3> QED
      BY <2>1, <3>1
  <2>7. feed' \in [Leaf -> Seq(FunctionEvent)] /\ \A l \in Leaf : LeafInv(l)'
    BY <1>0, <2>1, <2>5, <2>6, StoreStep, Zenon
  <2>8. SyncTypes'
    BY <1>0, <2>1, <2>4, <2>7, Zenon DEF SyncTypes, LeavesQuiet
  <2> QED
    BY <1>0, <1>1, <2>1, <2>4, <2>7, <2>8, Zenon DEF HistoryInv, LeafInv, LeavesQuiet
<1>6. ASSUME NEW f \in Function, CreateFunction(f) \/ UpdateFunction(f) \/ DeleteFunction(f)
      PROVE  HistoryInv' /\ known' = known
  <2>1. /\ \E type \in {"CREATED", "UPDATED", "DELETED"} : Change(type, f)
        /\ LeavesQuiet /\ emitting' = emitting /\ backend' = backend /\ call' = call
    BY <1>6, Zenon DEF CreateFunction, UpdateFunction, DeleteFunction, LeavesQuiet, sessionVars
  <2> QED
    BY <1>0, <2>1, ChangeStep, Zenon DEF LeavesQuiet
<1>7. ASSUME NEW c \in Caller, NEW u \in User, DeleteUserList(c, u) PROVE HistoryInv' /\ known' = known
  <2>1. [op |-> "deleteUser", user |-> u, listed |-> FunctionsOf(u)] \in PendingCall
    BY Zenon DEF PendingCall, FunctionsOf
  <2>2. call' \in [Caller -> PendingCall] /\ \A d \in Caller : call'[d] # NoCall => backend' = "etcd"
    BY <1>0, <1>7, <2>1, Zenon DEF DeleteUserList
  <2> QED
    BY <1>0, <1>7, <2>2, Zenon DEF DeleteUserList, HistoryInv, SyncTypes, sessionVars
<1>8. ASSUME NEW c \in Caller, NEW f \in Function, CreateFunctionCheck(c, f)
      PROVE  HistoryInv' /\ known' = known
  <2>1. [op |-> "create", f |-> f] \in PendingCall
    BY Zenon DEF PendingCall
  <2>2. call' \in [Caller -> PendingCall] /\ \A d \in Caller : call'[d] # NoCall => backend' = "etcd"
    BY <1>0, <1>8, <2>1, Zenon DEF CreateFunctionCheck
  <2> QED
    BY <1>0, <1>8, <2>2, Zenon DEF CreateFunctionCheck, HistoryInv, SyncTypes, sessionVars
<1>9. ASSUME NEW c \in Caller, DeleteUserCommit(c) PROVE HistoryInv' /\ known' = known
  <2> DEFINE u == call[c].user
             gone == {f \in call[c].listed : stored[f].live}
  <2>1. /\ call[c].op = "deleteUser" /\ call' = [call EXCEPT ![c] = NoCall] /\ LeavesQuiet
        /\ emitting' = emitting /\ backend' = backend
    BY <1>9, Zenon DEF DeleteUserCommit, LeavesQuiet, sessionVars
  <2>2. call[c] # NoCall /\ call[c] \in PendingCall
    BY <1>0, <2>1 DEF NoCall
  <2>3. u \in User /\ gone \in SUBSET Function
    BY <2>1, <2>2, Zenon DEF PendingCall, NoCall
  <2>4. emitting = <<>>
    BY <1>0, <2>2, Zenon
  <2>5. /\ call' \in [Caller -> PendingCall]
        /\ \A d \in Caller : call'[d] # NoCall => backend' = "etcd"
    BY <1>0, <2>1, Zenon DEF PendingCall
  <2>6. CASE RemoveUser(u, gone) /\ \E burst \in Orders(Deletions(gone)) : Emit(burst)
    <3> HIDE DEF u, gone
    <3>0. PICK burst \in Orders(Deletions(gone)) : Emit(burst)
      BY <2>6, Zenon
    <3>1. /\ stored' \in [Function -> Version] /\ changes' \in Nat
          /\ \A g \in Function : stored[g].ver <= stored'[g].ver /\ stored'[g].ver <= changes'
          /\ \A b \in Orders(Deletions(gone)) : b \in Seq(FunctionEvent) /\ Newest(b, stored')
      BY <2>1, <2>3, <2>6, RemoveStep, Zenon
    <3>2. burst \in Seq(FunctionEvent) /\ Newest(burst, stored')
      BY <3>1, Zenon
    <3>4. feed' \in [Leaf -> Seq(FunctionEvent)] /\ \A l \in Leaf : LeafInv(l)'
      BY <2>1, <3>0, <3>1, <3>2, StoreStep, Zenon
    <3>5. SyncTypes'
      BY <1>0, <2>1, <2>5, <3>1, <3>4, Zenon DEF SyncTypes, LeavesQuiet
    <3>6. Newest(emitting', stored')
      BY <2>1, <2>4 DEF Newest
    <3> QED
      BY <1>0, <2>1, <2>5, <3>1, <3>4, <3>5, <3>6, Zenon DEF HistoryInv, LeafInv, LeavesQuiet
  <2>7. CASE UNCHANGED <<users, stored, changes, feed, gap>>
    BY <1>0, <2>1, <2>5, <2>7, Zenon DEF HistoryInv, SyncTypes, LeavesQuiet
  <2> QED
    BY <1>9, <2>6, <2>7, Zenon DEF DeleteUserCommit
<1>10. ASSUME NEW c \in Caller, CreateFunctionCommit(c) PROVE HistoryInv' /\ known' = known
  <2>1. /\ call[c].op = "create" /\ call' = [call EXCEPT ![c] = NoCall] /\ LeavesQuiet
        /\ emitting' = emitting /\ backend' = backend
        /\ UNCHANGED <<stored, changes, feed, gap>> \/ Change("CREATED", call[c].f)
    BY <1>10, Zenon DEF CreateFunctionCommit, LeavesQuiet, sessionVars
  <2>2. call[c].f \in Function
    <3>1. call[c] \in PendingCall
      BY <1>0, Zenon
    <3> QED
      BY <2>1, <3>1 DEF PendingCall, NoCall
  <2>3. /\ call' \in [Caller -> PendingCall] /\ \A d \in Caller : call'[d] # NoCall => call'[d] = call[d]
    BY <1>0, <2>1, Zenon DEF PendingCall
  <2>4. CASE Change("CREATED", call[c].f)
    BY <2>1, <2>2, <2>3, <2>4, ChangeStep, Zenon DEF LeavesQuiet
  <2>5. CASE UNCHANGED <<stored, changes, feed, gap>>
    BY <1>0, <2>1, <2>3, <2>5, Zenon DEF HistoryInv, SyncTypes, LeavesQuiet
  <2> QED
    BY <2>1, <2>4, <2>5, Zenon
<1>11. ASSUME NEW l \in Leaf, ListUsers(l) \/ WatchFunctions(l) PROVE HistoryInv' /\ known' = known
  <2>1. /\ storeVars' = storeVars /\ feed' = feed /\ events' = events /\ known' = known
        /\ session[l] # "watch" /\ \E s \in {"list", "watch"} : session' = [session EXCEPT ![l] = s]
    BY <1>11, Zenon DEF ListUsers, WatchFunctions
  <2>2. /\ session' \in [Leaf -> {"down", "list", "watch"}]
        /\ \A m \in Leaf : session'[m] # "watch" => feed[m] = <<>>
    BY <1>0, <2>1, Zenon DEF LeafInv
  <2> QED
    BY <1>0, <2>1, <2>2 DEF HistoryInv, SyncTypes, storeVars
<1>12. ASSUME NEW l \in Leaf, NEW u \in User, ListFunctions(l, u) PROVE HistoryInv' /\ known' = known
  <2> DEFINE F == FunctionsOf(u)
             ver == [f \in F |-> stored[f].ver]
             S == EventSet("CREATED", F, ver)
  <2>1. /\ session[l] = "list" /\ session' = session /\ feed' = feed /\ known' = known
        /\ storeVars' = storeVars
    BY <1>12, Zenon DEF ListFunctions
  <2>2. F \in SUBSET Function /\ ver \in [F -> Nat] /\ \A f \in F : ver[f] = stored[f].ver
    BY <1>0, VersionFields, Zenon DEF FunctionsOf
  <2>3. S = {Event("CREATED", f, stored[f].ver) : f \in F}
    BY Zenon DEF EventSet
  <2>4. PICK burst \in Orders(S) : events' = [events EXCEPT ![l] = events[l] \o burst]
    BY <1>12, <2>3, Zenon DEF ListFunctions
  <2> HIDE DEF F, ver
  <2>5. Cardinality(S) \in Nat
    BY <2>2, Zenon DEF EventsCount
  <2> HIDE DEF S
  <2>7. burst \in Seq(FunctionEvent) /\ Newest(burst, stored)
    BY <1>0, <2>2, <2>4, <2>5, ListedEvents, Zenon DEF S
  <2>8. /\ known[l] \in [Function -> Version] /\ events[l] \in Seq(FunctionEvent)
        /\ feed[l] = <<>> /\ InHistory(known[l], events[l], <<>>, stored)
    BY <1>0, <2>1, Zenon DEF LeafInv
  <2>9. InHistory(known[l], events[l] \o burst, <<>>, stored)
    BY <1>0, <2>7, <2>8, HistoryListed, Zenon
  <2>10. events[l] \o burst \in Seq(FunctionEvent)
    BY <2>7, <2>8
  <2>11. /\ events' \in [Leaf -> Seq(FunctionEvent)] /\ events'[l] = events[l] \o burst
         /\ \A m \in Leaf : m # l => events'[m] = events[m]
    BY <1>0, <2>4, <2>10, Zenon
  <2>12. \A m \in Leaf : InHistory(known[m], events'[m], feed[m], stored)
    BY <1>0, <2>8, <2>9, <2>11, Zenon DEF LeafInv
  <2>13. SyncTypes'
    BY <1>0, <2>1, <2>11, Zenon DEF SyncTypes, storeVars
  <2> QED
    BY <1>0, <2>1, <2>12, <2>13, Zenon DEF HistoryInv, storeVars, LeafInv
<1>13. ASSUME NEW l \in Leaf, Recv(l) PROVE HistoryInv' /\ known' = known
  <2> DEFINE e == Head(feed[l])
  <2>1. /\ feed[l] # <<>> /\ session' = session /\ known' = known /\ storeVars' = storeVars
        /\ feed' = [feed EXCEPT ![l] = Tail(feed[l])]
        /\ events' = events \/ events' = [events EXCEPT ![l] = Append(events[l], e)]
        /\ session[l] = "watch"
    BY <1>13, Zenon DEF Recv
  <2>2. /\ known[l] \in [Function -> Version] /\ events[l] \in Seq(FunctionEvent)
        /\ feed[l] \in Seq(FunctionEvent) /\ InHistory(known[l], events[l], feed[l], stored)
    BY <1>0, Zenon DEF LeafInv
  <2>3. /\ InHistory(known[l], events[l], Tail(feed[l]), stored)
        /\ InHistory(known[l], Append(events[l], e), Tail(feed[l]), stored)
    BY <1>0, <2>1, <2>2, HistoryReceived, Zenon
  <2>4. Tail(feed[l]) \in Seq(FunctionEvent) /\ Append(events[l], e) \in Seq(FunctionEvent)
    BY <2>1, <2>2
  <2> HIDE DEF e
  <2>5. /\ feed' \in [Leaf -> Seq(FunctionEvent)] /\ feed'[l] = Tail(feed[l])
        /\ \A m \in Leaf : m # l => feed'[m] = feed[m]
    BY <1>0, <2>1, <2>4, Zenon
  <2>6. /\ events' \in [Leaf -> Seq(FunctionEvent)]
        /\ events'[l] = events[l] \/ events'[l] = Append(events[l], e)
        /\ \A m \in Leaf : m # l => events'[m] = events[m]
    BY <1>0, <2>1, <2>4, Zenon
  <2>7. \A m \in Leaf : InHistory(known[m], events'[m], feed'[m], stored)
    BY <1>0, <2>3, <2>5, <2>6, Zenon DEF LeafInv
  <2>8. \A m \in Leaf : session[m] # "watch" => feed'[m] = <<>>
    BY <1>0, <2>1, <2>5, Zenon DEF LeafInv
  <2>9. SyncTypes'
    BY <1>0, <2>1, <2>5, <2>6, Zenon DEF SyncTypes, storeVars
  <2> QED
    BY <1>0, <2>1, <2>7, <2>8, <2>9, Zenon DEF HistoryInv, storeVars
<1>14. ASSUME NEW l \in Leaf, Break(l) PROVE HistoryInv' /\ known' = known
  <2>1. /\ session' = [session EXCEPT ![l] = "down"] /\ feed' = [feed EXCEPT ![l] = <<>>]
        /\ events' = events /\ known' = known /\ storeVars' = storeVars
    BY <1>14, Zenon DEF Break
  <2>2. InHistory(known[l], events[l], <<>>, stored)
    BY <1>0, HistoryCut, Zenon DEF LeafInv
  <2>3. <<>> \in Seq(FunctionEvent)
    OBVIOUS
  <2>4. /\ feed' \in [Leaf -> Seq(FunctionEvent)] /\ feed'[l] = <<>>
        /\ \A m \in Leaf : m # l => feed'[m] = feed[m]
    BY <1>0, <2>1, <2>3, Zenon
  <2>5. /\ session' \in [Leaf -> {"down", "list", "watch"}]
        /\ \A m \in Leaf : m # l => session'[m] = session[m]
    BY <1>0, <2>1, Zenon
  <2>6. \A m \in Leaf : InHistory(known[m], events[m], feed'[m], stored)
    BY <1>0, <2>2, <2>4, Zenon DEF LeafInv
  <2>7. \A m \in Leaf : session'[m] # "watch" => feed'[m] = <<>>
    BY <1>0, <2>4, <2>5, Zenon DEF LeafInv
  <2>8. SyncTypes'
    BY <1>0, <2>1, <2>4, <2>5, Zenon DEF SyncTypes, storeVars
  <2> QED
    BY <1>0, <2>1, <2>6, <2>7, <2>8, Zenon DEF HistoryInv, storeVars
<1>15. ASSUME NEW l \in Leaf, HandleFunctionEvent(l)
       PROVE  HistoryInv' /\ \A m \in Leaf, f \in Function : known'[m][f].ver >= known[m][f].ver
  <2> DEFINE e == Head(events[l])
             v == [live |-> e.type # "DELETED", ver |-> e.ver]
             k == [known[l] EXCEPT ![e.f] = v]
  <2>1. /\ events[l] # <<>> /\ session' = session /\ feed' = feed /\ storeVars' = storeVars
        /\ events' = [events EXCEPT ![l] = Tail(events[l])] /\ known' = [known EXCEPT ![l] = k]
    BY <1>15, Zenon DEF HandleFunctionEvent
  <2>2. /\ known[l] \in [Function -> Version] /\ events[l] \in Seq(FunctionEvent)
        /\ feed[l] \in Seq(FunctionEvent) /\ InHistory(known[l], events[l], feed[l], stored)
    BY <1>0, Zenon DEF LeafInv
  <2>3. e \in FunctionEvent /\ Tail(events[l]) \in Seq(FunctionEvent)
    BY <2>1, <2>2
  <2>4. v \in Version /\ e.f \in Function
    BY <2>3, Zenon DEF FunctionEvent, Version
  <2>5. k \in [Function -> Version]
    BY <2>2, <2>4, Zenon
  <2>6. /\ InHistory(k, Tail(events[l]), feed[l], stored)
        /\ \A f \in Function : k[f].ver >= known[l][f].ver
    <3>1. /\ k[Head(events[l]).f].ver = Head(events[l]).ver
          /\ \A f \in Function : f # Head(events[l]).f => k[f] = known[l][f]
      BY <2>2, <2>4, Zenon
    <3> HIDE DEF k
    <3> QED
      BY <1>0, <2>1, <2>2, <2>5, <3>1, HistoryHandled, Zenon
  <2> HIDE DEF k
  <2>7. /\ events' \in [Leaf -> Seq(FunctionEvent)] /\ events'[l] = Tail(events[l])
        /\ \A m \in Leaf : m # l => events'[m] = events[m]
    BY <1>0, <2>1, <2>3, Zenon
  <2>8. /\ known' \in [Leaf -> [Function -> Version]] /\ known'[l] = k
        /\ \A m \in Leaf : m # l => known'[m] = known[m]
    BY <1>0, <2>1, <2>5, Zenon
  <2>9. \A m \in Leaf : InHistory(known'[m], events'[m], feed[m], stored)
    BY <1>0, <2>6, <2>7, <2>8, Zenon DEF LeafInv
  <2>10. SyncTypes'
    BY <1>0, <2>1, <2>7, <2>8, Zenon DEF SyncTypes, storeVars
  <2>11. HistoryInv'
    BY <1>0, <2>1, <2>9, <2>10, Zenon DEF HistoryInv, storeVars, LeafInv
  <2>12. \A m \in Leaf, f \in Function : known'[m][f].ver >= known[m][f].ver
    <3> SUFFICES ASSUME NEW m \in Leaf, NEW f \in Function PROVE known'[m][f].ver >= known[m][f].ver
      BY Zenon
    <3>1. known[m][f].ver \in Nat
      BY <1>0, VersionFields, Zenon
    <3>2. CASE m = l
      BY <2>6, <2>8, <3>2, Zenon
    <3>3. CASE m # l
      BY <2>8, <3>1, <3>3
    <3> QED
      BY <3>2, <3>3, Zenon
  <2> QED
    BY <2>11, <2>12, Zenon
<1> QED
  BY <1>1, <1>2, <1>3, <1>4, <1>5, <1>6, <1>7, <1>8, <1>9, <1>10, <1>11, <1>12, <1>13, <1>14, <1>15, Zenon
     DEF Next, Api, Subscriber

----------------------------------------------------------------------------
(* The theorem.                                                            *)

INSTANCE FunctionTheorems
INSTANCE FiniteSetTheorems

\* One event for each of some functions: a finite set.
LEMMA EventsFinite ==
    ASSUME NEW type, NEW F \in SUBSET Function, NEW ver \in [F -> Nat]
    PROVE  IsFiniteSet(EventSet(type, F, ver))
<1> DEFINE T == EventSet(type, F, ver)
           g == [f \in F |-> Event(type, f, ver[f])]
<1>1. IsFiniteSet(F)
  BY FunctionSyncAssumption, FS_Subset, Zenon
<1>2. g \in [F -> T] /\ (\A a, b \in F : g[a] = g[b] => a = b) /\ \A t \in T : \E f \in F : g[f] = t
  BY Zenon DEF Event, EventSet
<1>3. g \in Surjection(F, T)
  BY <1>2, Zenon DEF Surjection
<1> QED
  BY <1>1, <1>3, FS_Surjection, Zenon

\* The law that the lemmas assume.
LEMMA EventsCounted == EventsCount
BY EventsFinite, FS_CardinalityType, Zenon DEF EventsCount

\* A leaf never goes back in the history of a function, for any number of users,
\* functions, callers and leaves, with either store and through every broken
\* session (FunctionSubscriber.session, emitLocked, Runtime.watchFunctions).
THEOREM LeafNeverGoesBack == Spec => HistoryInOrder
<1>1. Init => HistoryInv
  <2> SUFFICES ASSUME Init PROVE HistoryInv
    BY Zenon
  <2>1. Never \in Version /\ Never.ver = 0 /\ NoCall \in PendingCall
    BY Zenon DEF Never, Version, PendingCall
  <2>2. SyncTypes
    BY <2>1 DEF Init, SyncTypes
  <2>3. \A f \in Function : stored[f].ver <= changes
    BY <2>1 DEF Init
  <2>4. \A l \in Leaf : feed[l] = <<>> /\ InHistory(known[l], events[l], feed[l], stored)
    BY <2>1 DEF Init, InHistory, Rises, Precedes, Between
  <2> QED
    BY <2>2, <2>3, <2>4 DEF Init, HistoryInv, Newest
<1>2. HistoryInv /\ [Next]_vars => HistoryInv'
  BY HistoryStep, EventsCounted, Zenon
<1>3. HistoryInv /\ [Next]_vars => [\A l \in Leaf, f \in Function : known'[l][f].ver >= known[l][f].ver]_known
  BY HistoryStep, EventsCounted, Zenon
<1> QED
  BY <1>1, <1>2, <1>3, PTL DEF Spec, HistoryInOrder
=============================================================================
