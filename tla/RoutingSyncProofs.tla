-------------------------- MODULE RoutingSyncProofs --------------------------
(***************************************************************************)
(* Proofs about RoutingSync, for any number of leaves, functions,          *)
(* configurations and failures: requests see what the controller last      *)
(* learnt, what it knows of a leaf never goes back in the leaf's history,  *)
(* and no update is lost on the way while no leaf process restarts.        *)
(***************************************************************************)
EXTENDS RoutingSync, TLAPS

----------------------------------------------------------------------------
(* The picker.                                                             *)

Stages == {"none", "dial", "recv", "ended", "mark", "backoff", "done"}

\* The stages of runLeafStream at which its leaf may be routable.
Routable == {"recv", "ended", "mark"}

\* PickerCurrent is not inductive: that a routable leaf has a live stream must
\* also hold of the controller's own set while no picker is installed.
PickerInv ==
    /\ pc \in [Version -> [Leaf -> Stages]]
    /\ version \in Version \cup {0}
    /\ serving => version \in Version
    /\ healthy \subseteq Leaf
    /\ \A l \in healthy : version \in Version /\ pc[version][l] \in Routable
    /\ IF serving
       THEN picker = [version |-> version, healthy |-> healthy] /\ table = view
       ELSE picker = NoPicker

\* Publish installs the picker of the new health while the controller serves.
LEMMA PublishStep ==
    ASSUME PickerInv, version' = version, serving' = serving, Publish
    PROVE  IF serving'
           THEN picker' = [version |-> version', healthy |-> healthy'] /\ table' = view'
           ELSE picker' = NoPicker
  BY DEF PickerInv, Publish

\* A stream that moves between two stages.
StageMoves(v, l, to) == pc' = [pc EXCEPT ![v][l] = to]

\* A stream moves and the controller's state does not change.
LEMMA StageStep ==
    ASSUME PickerInv, NEW v \in Version, NEW l \in Leaf, NEW to \in Stages, StageMoves(v, l, to),
           UNCHANGED modelVars,
           v = version /\ l \in healthy => to \in Routable
    PROVE  PickerInv'
<1>1. pc' \in [Version -> [Leaf -> Stages]]
  BY DEF PickerInv, StageMoves
<1>2. \A k \in healthy : version \in Version /\ pc'[version][k] \in Routable
  BY DEF PickerInv, StageMoves
<1> QED
  BY <1>1, <1>2 DEF PickerInv, modelVars

\* A frame is received (onFrame).
LEMMA FrameStep ==
    ASSUME PickerInv, NEW v \in Version, NEW l \in Leaf, Recv(v, l) PROVE PickerInv'
<1> DEFINE frame == Head(frames[v][l])
<1>1. pc[v][l] = "recv" /\ pc' = pc /\ onFrame(v, l, frame)
  BY DEF Recv
<1> HIDE DEF frame
<1>2. CASE Accepts(v, l, frame)
  <2>1. /\ v = version /\ version' = version /\ serving' = serving
        /\ healthy' = IF frame.up THEN healthy \cup {l} ELSE healthy \ {l}
        /\ Publish
    BY <1>1, <1>2 DEF onFrame, Accepts
  <2>2. /\ healthy' \subseteq Leaf
        /\ \A k \in healthy' : version' \in Version /\ pc'[version'][k] \in Routable
    BY <1>1, <2>1 DEF PickerInv, Routable
  <2>3. IF serving' THEN picker' = [version |-> version', healthy |-> healthy'] /\ table' = view'
                    ELSE picker' = NoPicker
    BY <2>1, PublishStep
  <2> QED
    BY <1>1, <2>1, <2>2, <2>3 DEF PickerInv
<1>3. CASE ~Accepts(v, l, frame)
  BY <1>1, <1>3 DEF onFrame, modelVars, PickerInv
<1> QED
  BY <1>2, <1>3

\* A stream has ended: its leaf is marked and the stream backs off.
LEMMA MarkStep ==
    ASSUME PickerInv, NEW v \in Version, NEW l \in Leaf, MarkUnhealthy(v, l) PROVE PickerInv'
<1>1. pc' = [pc EXCEPT ![v][l] = "backoff"] /\ markUnhealthy(v, l)
  BY DEF MarkUnhealthy
<1>2. CASE v = version
  <2>1. version' = version /\ serving' = serving /\ healthy' = healthy \ {l} /\ Publish
    BY <1>1, <1>2 DEF markUnhealthy
  <2>2. pc' \in [Version -> [Leaf -> Stages]]
    BY <1>1 DEF PickerInv, Stages
  <2>3. /\ healthy' \subseteq Leaf
        /\ \A k \in healthy' : version' \in Version /\ pc'[version'][k] \in Routable
    BY <1>1, <1>2, <2>1 DEF PickerInv
  <2>4. IF serving' THEN picker' = [version |-> version', healthy |-> healthy'] /\ table' = view'
                    ELSE picker' = NoPicker
    BY <2>1, PublishStep, SMTT(60)
  <2> QED
    BY <2>1, <2>2, <2>3, <2>4 DEF PickerInv
<1>3. CASE v # version
  BY <1>1, <1>3, StageStep, ZenonT(60) DEF markUnhealthy, StageMoves, Stages
<1> QED
  BY <1>2, <1>3

\* ApplyConfig withdraws the picker and begins with no routable leaf; the first
\* picker of the new version is that of the controller's state.
LEMMA ApplyStep ==
    ASSUME PickerInv, (\E v \in Version : ApplyConfigBegin(v)) \/ ApplyConfigEnd PROVE PickerInv'
<1>1. ASSUME NEW v \in Version, ApplyConfigBegin(v) PROVE PickerInv'
  <2>1. /\ version' = v /\ serving' = FALSE /\ picker' = NoPicker /\ healthy' = {}
        /\ pc' = [pc EXCEPT ![v] = [l \in Leaf |-> "dial"]]
    BY <1>1 DEF ApplyConfigBegin
  <2>2. pc' \in [Version -> [Leaf -> Stages]]
    BY <2>1 DEF PickerInv, Stages
  <2> QED
    BY <2>1, <2>2 DEF PickerInv
<1>2. CASE ApplyConfigEnd
  BY <1>2 DEF PickerInv, ApplyConfigEnd
<1> QED
  BY <1>1, <1>2

\* Every step of the leaves, the streams and the controller.
LEMMA PickerStep ==
    ASSUME PickerInv, [Next]_vars PROVE PickerInv'
<1>1. ASSUME NEW v \in Version, NEW l \in Leaf, Stream(v, l) PROVE PickerInv'
  <2>0. v = version /\ l \in healthy => pc[v][l] \in Routable
    BY DEF PickerInv
  <2>1. CASE Dial(v, l)
    BY <2>1, StageStep, Zenon DEF Dial, StageMoves, Stages, Routable
  <2>2. CASE DialFails(v, l)
    BY <2>2, StageStep, Zenon DEF DialFails, StageMoves, Stages, Routable
  <2>3. CASE Recv(v, l)
    BY <2>3, FrameStep
  <2>4. CASE RecvFails(v, l)
    BY <2>4, StageStep, Zenon DEF RecvFails, StageMoves, Stages, Routable
  <2>5. CASE SessionEnded(v, l)
    <3>1. CASE Cancelled(v)
      BY <2>5, <3>1, StageStep, Zenon DEF SessionEnded, StageMoves, Stages, Cancelled
    <3>2. CASE ~Cancelled(v)
      BY <2>5, <3>2, StageStep, Zenon DEF SessionEnded, StageMoves, Stages, Routable
    <3> QED
      BY <3>1, <3>2
  <2>6. CASE MarkUnhealthy(v, l)
    BY <2>6, MarkStep
  <2>7. CASE Backoff(v, l)
    <3>1. pc[v][l] = "backoff" /\ StageMoves(v, l, "dial") /\ UNCHANGED modelVars
      BY <2>7 DEF Backoff, StageMoves
    <3>2. ~(v = version /\ l \in healthy)
      BY <2>0, <3>1 DEF Routable
    <3> QED
      BY <3>1, <3>2, StageStep DEF Stages
  <2>8. CASE StreamQuit(v, l)
    BY <2>8, StageStep, Zenon DEF StreamQuit, StageMoves, Stages, Cancelled
  <2> QED
    BY <1>1, <2>1, <2>2, <2>3, <2>4, <2>5, <2>6, <2>7, <2>8 DEF Stream
<1>2. CASE (\E v \in Version : ApplyConfigBegin(v)) \/ ApplyConfigEnd
  BY <1>2, ApplyStep
<1>3. CASE pc' = pc /\ UNCHANGED modelVars
  BY <1>3 DEF PickerInv, modelVars
<1>4. ASSUME NEW v \in Version, NEW l \in Leaf, Emit(v, l) \/ Break(v, l) PROVE PickerInv'
  BY <1>3, <1>4, ZenonT(60) DEF Emit, EmitBegin, EmitRead, EmitSend, Break
<1>5. ASSUME NEW l \in Leaf, SetWorkers(l) \/ PublishHeartbeat(l) \/ Restart(l) PROVE PickerInv'
  BY <1>3, <1>5 DEF SetWorkers, Changed, PublishHeartbeat, Restart
<1>6. ASSUME NEW l \in Leaf, NEW f \in Function, NEW c \in Capacity \cup {Absent}, SetCapacity(l, f, c)
      PROVE  PickerInv'
  BY <1>3, <1>6 DEF SetCapacity, Changed
<1>7. CASE UNCHANGED vars
  BY <1>3, <1>7 DEF vars
<1> QED
  BY <1>1, <1>2, <1>4, <1>5, <1>6, <1>7 DEF Next

\* Requests see what the controller last learnt, and no request goes to a leaf
\* whose stream has been marked dropped, for every number of leaves and reloads
\* and with any loss of frames, of streams and of leaf processes
\* (RoutingController.ApplyConfig, onFrame, runLeafStream, markUnhealthy).
THEOREM PickerIsCurrent == Spec => []PickerCurrent
<1>1. Init => PickerInv
  BY DEF Init, PickerInv, Stages
<1>2. PickerInv /\ [Next]_vars => PickerInv'
  BY PickerStep
<1>3. PickerInv => PickerCurrent
  BY DEF PickerInv, PickerCurrent, NoPicker, Routable
<1> QED
  BY <1>1, <1>2, <1>3, PTL DEF Spec

----------------------------------------------------------------------------
(* What is on its way from the leaves.                                     *)

\* What is known of a function, and of some of the functions.
Entry == [cap : Capacity \cup {Absent}, ver : Nat]
Partial == UNION {[D -> Entry] : D \in SUBSET Function}

\* A full frame lists every function.
Frame ==
    {x \in [full : BOOLEAN, rev : Nat, up : BOOLEAN, caps : Partial] :
       x.full => DOMAIN x.caps = Function}

RoutingSubscriber ==
    [open : BOOLEAN, first : BOOLEAN, notify : BOOLEAN, busy : BOOLEAN,
     rev : Nat, up : BOOLEAN, read : Partial, sent : [Function -> Entry]]

SyncTypes ==
    /\ source \in [Leaf -> [Function -> Entry]]
    /\ view \in [Leaf -> [Function -> Entry]]
    /\ workers \in [Leaf -> BOOLEAN]
    /\ revision \in [Leaf -> Nat]
    /\ lastRevision \in [Leaf -> Nat]
    /\ version \in Version \cup {0}
    /\ sub \in [Version -> [Leaf -> RoutingSubscriber]]
    /\ frames \in [Version -> [Leaf -> Seq(Frame)]]

\* A closed subscriber has read nothing, and a stream of a configuration to
\* come has neither a subscriber nor frames.
Untouched ==
    \A v \in Version, l \in Leaf :
      /\ ~sub[v][l].open => ~sub[v][l].busy /\ DOMAIN sub[v][l].read = {}
      /\ v > version => ~sub[v][l].open /\ frames[v][l] = <<>>

\* What the ingress has seen, the frames on their way, what emit has read and
\* what the leaf knows come in the order of the leaf's history.
InOrder(seen, q, read, src) ==
    \A f \in Function :
      /\ seen[f].ver <= src[f].ver
      /\ \A i \in 1..Len(q) : f \in DOMAIN q[i].caps =>
           /\ seen[f].ver <= q[i].caps[f].ver
           /\ q[i].caps[f].ver <= src[f].ver
           /\ \A j \in 1..Len(q) : i < j /\ f \in DOMAIN q[j].caps =>
                q[i].caps[f].ver <= q[j].caps[f].ver
           /\ f \in DOMAIN read => q[i].caps[f].ver <= read[f].ver
      /\ f \in DOMAIN read => seen[f].ver <= read[f].ver /\ read[f].ver <= src[f].ver

OrderInv ==
    /\ SyncTypes
    /\ Untouched
    /\ version # 0 =>
         \A l \in Leaf : InOrder(view[l], frames[version][l], sub[version][l].read, source[l])

\* Frames are numbered in the order they are sent, above the last one accepted.
FramesRise(last, q, s, rev) ==
    /\ last <= rev
    /\ \A i \in 1..Len(q) : last < q[i].rev /\ q[i].rev <= rev
    /\ \A i, j \in 1..Len(q) : i < j => q[i].rev < q[j].rev
    /\ s.busy => s.rev <= rev /\ last < s.rev /\ \A i \in 1..Len(q) : q[i].rev < s.rev

\* The last frame that mentions f, or the ingress if none does, has c for it.
LastWord(seen, q, f, c) ==
    \/ /\ \A i \in 1..Len(q) : f \notin DOMAIN q[i].caps
       /\ seen[f].cap = c
    \/ \E i \in 1..Len(q) :
         /\ f \in DOMAIN q[i].caps /\ q[i].caps[f].cap = c
         /\ \A j \in 1..Len(q) : i < j => f \notin DOMAIN q[j].caps

\* No frame precedes the full one, and afterwards the frames on their way end
\* with what the Reporter believes it sent.
Tells(seen, q, s) ==
    s.open => IF s.first THEN q = <<>> ELSE \A f \in Function : LastWord(seen, q, f, s.sent[f].cap)

TellInv ==
    /\ SyncTypes
    /\ Untouched
    /\ restarts \in Nat
    /\ \A l \in Leaf : lastRevision[l] <= revision[l]
    /\ version # 0 =>
         \A l \in Leaf :
           /\ FramesRise(lastRevision[l], frames[version][l], sub[version][l], revision[l])
           /\ Tells(view[l], frames[version][l], sub[version][l])

----------------------------------------------------------------------------
\* A function from some of the functions to what is known of them.
LEMMA PartialIn ==
    ASSUME NEW D \in SUBSET Function, NEW c \in [D -> Entry] PROVE c \in Partial
  BY Zenon DEF Partial

\* What is known of some functions has a value for each of them.
LEMMA PartialOut ==
    ASSUME NEW c \in Partial
    PROVE  DOMAIN c \in SUBSET Function /\ c \in [DOMAIN c -> Entry]
  BY Zenon DEF Partial

\* A subscriber that does not exist, and a new one.
LEMMA NewSubTypes ==
    /\ Blank \in [Function -> Entry]
    /\ Nothing \in Partial /\ DOMAIN Nothing = {}
    /\ NoSub \in RoutingSubscriber /\ ~NoSub.open /\ ~NoSub.busy /\ NoSub.read = Nothing
    /\ NewSub \in RoutingSubscriber /\ NewSub.open /\ NewSub.first /\ ~NewSub.busy
    /\ NewSub.read = Nothing
<1>1. Blank \in [Function -> Entry]
  BY Zenon DEF Blank, Entry
<1>2. Nothing \in [{} -> Entry]
  BY Zenon DEF Nothing
<1>3. Nothing \in Partial
  BY <1>2, PartialIn, Zenon
<1>4. DOMAIN Nothing = {}
  BY Zenon DEF Nothing
<1>5. NoSub \in RoutingSubscriber /\ ~NoSub.open /\ ~NoSub.busy /\ NoSub.read = Nothing /\ NoSub.first
  BY <1>1, <1>3, Zenon DEF NoSub, RoutingSubscriber
<1>6. /\ NewSub \in RoutingSubscriber /\ NewSub.open /\ NewSub.first /\ ~NewSub.busy
      /\ NewSub.read = Nothing
  BY <1>5, Zenon DEF NewSub, RoutingSubscriber
<1> QED
  BY <1>1, <1>3, <1>4, <1>5, <1>6, Zenon

\* What a frame carries of the pools it was read from (emit).
LEMMA SentTypes ==
    ASSUME NEW s \in RoutingSubscriber, DOMAIN s.read = Function
    PROVE  /\ s.read \in [Function -> Entry]
           /\ diffCapacities(s.sent, s.read) \in Partial
           /\ DOMAIN diffCapacities(s.sent, s.read) = {f \in Function : s.sent[f].cap # s.read[f].cap}
           /\ \A f \in DOMAIN diffCapacities(s.sent, s.read) :
                diffCapacities(s.sent, s.read)[f] = s.read[f]
<1> DEFINE D == {f \in Function : s.sent[f].cap # s.read[f].cap}
           d == diffCapacities(s.sent, s.read)
<1>1. s.read \in Partial
  BY Zenon DEF RoutingSubscriber
<1>2. s.read \in [Function -> Entry]
  BY <1>1, PartialOut, Zenon
<1>3. d = [f \in D |-> s.read[f]]
  BY Zenon DEF diffCapacities
<1>4. D \in SUBSET Function
  BY Zenon
<1> HIDE DEF d
<1>5. d \in [D -> Entry]
  BY <1>2, <1>3, Zenon
<1>6. d \in Partial
  <2> HIDE DEF D
  <2> QED
    BY <1>4, <1>5, PartialIn, Zenon
<1>7. DOMAIN d = D /\ \A f \in DOMAIN d : d[f] = s.read[f]
  <2> HIDE DEF D
  <2> QED
    BY <1>3, Zenon
<1> QED
  BY <1>2, <1>6, <1>7, Zenon DEF d

\* Merging a frame gives every function what the frame says of it, and leaves
\* the others (ReplaceLeaf, Apply).
LEMMA MergeIs ==
    ASSUME NEW old \in [Function -> Entry], NEW x \in Frame
    PROVE  /\ Merge(old, x) \in [Function -> Entry]
           /\ \A f \in Function :
                Merge(old, x)[f] = IF f \in DOMAIN x.caps THEN x.caps[f] ELSE old[f]
<1>1. x.caps \in Partial /\ (x.full => DOMAIN x.caps = Function)
  BY Zenon DEF Frame
<1>2. DOMAIN x.caps \in SUBSET Function /\ x.caps \in [DOMAIN x.caps -> Entry]
  BY <1>1, PartialOut, Zenon
<1>3. CASE x.full
  BY <1>1, <1>2, <1>3, Zenon DEF Merge
<1>4. CASE ~x.full
  BY <1>2, <1>4, Zenon DEF Merge
<1> QED
  BY <1>3, <1>4, Zenon

\* The versions a frame carries.
LEMMA FrameVersions ==
    ASSUME NEW x \in Frame, NEW f \in DOMAIN x.caps
    PROVE  f \in Function /\ x.caps[f].ver \in Nat
<1>1. x.caps \in Partial
  BY Zenon DEF Frame
<1>2. DOMAIN x.caps \in SUBSET Function /\ x.caps[f] \in Entry
  BY <1>1, PartialOut, Zenon
<1> QED
  BY <1>2, Zenon DEF Entry

----------------------------------------------------------------------------
(* What the steps do to one stream's order.                                *)

\* The leaf's history grows.
LEMMA OrderGrows ==
    ASSUME NEW seen \in [Function -> Entry], NEW q \in Seq(Frame), NEW read \in Partial,
           NEW src \in [Function -> Entry], NEW more \in [Function -> Entry],
           InOrder(seen, q, read, src), \A f \in Function : src[f].ver <= more[f].ver
    PROVE  InOrder(seen, q, read, more)
<1> SUFFICES ASSUME NEW f \in Function
             PROVE  /\ seen[f].ver <= more[f].ver
                    /\ \A i \in 1..Len(q) : f \in DOMAIN q[i].caps => q[i].caps[f].ver <= more[f].ver
                    /\ f \in DOMAIN read => read[f].ver <= more[f].ver
  BY Zenon DEF InOrder
<1>1. seen[f].ver \in Nat /\ src[f].ver \in Nat /\ more[f].ver \in Nat /\ src[f].ver <= more[f].ver
  BY Zenon DEF Entry
<1>2. seen[f].ver <= src[f].ver
  BY Zenon DEF InOrder
<1>3. ASSUME NEW i \in 1..Len(q), f \in DOMAIN q[i].caps PROVE q[i].caps[f].ver <= more[f].ver
  <2>1. q[i] \in Frame
    OBVIOUS
  <2>2. q[i].caps[f].ver \in Nat
    BY <1>3, <2>1, FrameVersions, Zenon
  <2>3. q[i].caps[f].ver <= src[f].ver
    BY <1>3, Zenon DEF InOrder
  <2> QED
    BY <1>1, <2>2, <2>3, SMTT(60)
<1>4. ASSUME f \in DOMAIN read PROVE read[f].ver <= more[f].ver
  <2>1. read[f].ver \in Nat
    BY <1>4, PartialOut, Zenon DEF Entry
  <2>2. read[f].ver <= src[f].ver
    BY <1>4, Zenon DEF InOrder
  <2> QED
    BY <1>1, <2>1, <2>2
<1> QED
  BY <1>1, <1>2, <1>3, <1>4, SMTT(60)

\* What emit has read once it has visited the pool of g.
WithPool(read, g, e) == [f \in DOMAIN read \cup {g} |-> IF f = g THEN e ELSE read[f]]

\* Emit reads one more pool.
LEMMA OrderReads ==
    ASSUME NEW seen \in [Function -> Entry], NEW q \in Seq(Frame), NEW read \in Partial,
           NEW src \in [Function -> Entry], InOrder(seen, q, read, src),
           NEW g \in Function, g \notin DOMAIN read
    PROVE  InOrder(seen, q, WithPool(read, g, src[g]), src)
<1> DEFINE more == WithPool(read, g, src[g])
<1>1. DOMAIN read \in SUBSET Function /\ read \in [DOMAIN read -> Entry]
  BY PartialOut, Zenon
<1>2. DOMAIN more = DOMAIN read \cup {g} /\ more[g] = src[g] /\ \A f \in DOMAIN read : more[f] = read[f]
  BY Zenon DEF WithPool
<1> HIDE DEF more
<1>5. src[g].ver \in Nat
  BY Zenon DEF Entry
<1>6. InOrder(seen, q, more, src)
  BY <1>2, <1>5 DEF InOrder
<1> QED
  BY <1>6, Zenon DEF more

\* Emit sends what it has read, or part of it.
LEMMA OrderSends ==
    ASSUME NEW seen \in [Function -> Entry], NEW q \in Seq(Frame), NEW read \in Partial,
           NEW src \in [Function -> Entry], InOrder(seen, q, read, src), DOMAIN read = Function,
           NEW x \in Frame, \A f \in DOMAIN x.caps : x.caps[f] = read[f]
    PROVE  InOrder(seen, Append(q, x), Nothing, src)
<1> DEFINE p == Append(q, x)
<1>1. Len(q) \in Nat /\ Len(p) = Len(q) + 1 /\ p[Len(q) + 1] = x /\ \A i \in 1..Len(q) : p[i] = q[i]
  OBVIOUS
<1>2. DOMAIN Nothing = {}
  BY NewSubTypes, Zenon
<1> HIDE DEF p
<1>3. ASSUME NEW f \in Function, NEW i \in 1..Len(p), f \in DOMAIN p[i].caps
      PROVE  /\ seen[f].ver <= p[i].caps[f].ver
             /\ p[i].caps[f].ver <= src[f].ver
             /\ \A j \in 1..Len(p) : i < j /\ f \in DOMAIN p[j].caps => p[i].caps[f].ver <= p[j].caps[f].ver
  <2>1. CASE i \in 1..Len(q)
    <3>1. p[i] = q[i] /\ f \in DOMAIN q[i].caps
      BY <1>1, <1>3, <2>1, Zenon
    <3>2. /\ seen[f].ver <= q[i].caps[f].ver /\ q[i].caps[f].ver <= src[f].ver
          /\ q[i].caps[f].ver <= read[f].ver
      BY <2>1, <3>1, Zenon DEF InOrder
    <3>3. ASSUME NEW j \in 1..Len(p), i < j, f \in DOMAIN p[j].caps
          PROVE  q[i].caps[f].ver <= p[j].caps[f].ver
      <4>1. CASE j \in 1..Len(q)
        BY <1>1, <2>1, <3>1, <3>3, <4>1, Zenon DEF InOrder
      <4>2. CASE j = Len(q) + 1
        BY <1>1, <3>2, <3>3, <4>2, Zenon
      <4> QED
        BY <1>1, <4>1, <4>2, SMTT(60)
    <3> QED
      BY <3>1, <3>2, <3>3, Zenon
  <2>2. CASE i = Len(q) + 1
    <3>1. p[i].caps[f] = read[f]
      BY <1>1, <1>3, <2>2, Zenon
    <3>2. seen[f].ver <= read[f].ver /\ read[f].ver <= src[f].ver
      BY Zenon DEF InOrder
    <3>3. \A j \in 1..Len(p) : ~(i < j)
      BY <1>1, <2>2
    <3> QED
      BY <3>1, <3>2, <3>3, Zenon
  <2> QED
    BY <1>1, <2>1, <2>2, SMTT(60)
<1>4. \A f \in Function : seen[f].ver <= src[f].ver
  BY Zenon DEF InOrder
<1>5. InOrder(seen, p, Nothing, src)
  BY <1>2, <1>3, <1>4, Zenon DEF InOrder
<1> QED
  BY <1>5, Zenon DEF p

\* The ingress takes the first frame off the stream.
LEMMA OrderDrops ==
    ASSUME NEW seen \in [Function -> Entry], NEW q \in Seq(Frame), NEW read \in Partial,
           NEW src \in [Function -> Entry], InOrder(seen, q, read, src), q # <<>>
    PROVE  InOrder(seen, Tail(q), read, src)
<1> DEFINE p == Tail(q)
<1>1. Len(q) \in Nat /\ Len(p) = Len(q) - 1 /\ \A i \in 1..Len(p) : p[i] = q[i + 1] /\ i + 1 \in 1..Len(q)
  OBVIOUS
<1> HIDE DEF p
<1>2. Len(p) \in Int
  BY <1>1, SMTT(60)
<1>3. ASSUME NEW f \in Function, NEW i \in 1..Len(p), f \in DOMAIN p[i].caps
      PROVE  /\ seen[f].ver <= p[i].caps[f].ver
             /\ p[i].caps[f].ver <= src[f].ver
             /\ \A j \in 1..Len(p) : i < j /\ f \in DOMAIN p[j].caps => p[i].caps[f].ver <= p[j].caps[f].ver
             /\ f \in DOMAIN read => p[i].caps[f].ver <= read[f].ver
  <2>1. PICK m \in 1..Len(q) : m = i + 1 /\ p[i] = q[m]
    BY <1>1, Zenon
  <2>2. /\ seen[f].ver <= q[m].caps[f].ver
        /\ q[m].caps[f].ver <= src[f].ver
        /\ f \in DOMAIN read => q[m].caps[f].ver <= read[f].ver
    BY <1>3, <2>1, Zenon DEF InOrder
  <2>3. ASSUME NEW j \in 1..Len(p), i < j, f \in DOMAIN p[j].caps
        PROVE  q[m].caps[f].ver <= p[j].caps[f].ver
    <3>1. PICK n \in 1..Len(q) : n = j + 1 /\ p[j] = q[n]
      BY <1>1, Zenon
    <3>2. m < n
      BY <2>1, <2>3, <3>1, <1>2, SMTT(60)
    <3> QED
      BY <1>3, <2>1, <2>3, <3>1, <3>2, Zenon DEF InOrder
  <2> QED
    BY <2>1, <2>2, <2>3, Zenon
<1>4. InOrder(seen, p, read, src)
  BY <1>3, Zenon DEF InOrder
<1> QED
  BY <1>4, Zenon DEF p

\* The ingress merges the first frame: nothing on its way is older.
LEMMA OrderMerges ==
    ASSUME NEW seen \in [Function -> Entry], NEW q \in Seq(Frame), NEW read \in Partial,
           NEW src \in [Function -> Entry], InOrder(seen, q, read, src), q # <<>>
    PROVE  /\ InOrder(Merge(seen, Head(q)), Tail(q), read, src)
           /\ \A f \in Function : Merge(seen, Head(q))[f].ver >= seen[f].ver
<1> DEFINE p == Tail(q)
           now == Merge(seen, Head(q))
<1>1. Len(q) \in Nat /\ Len(p) = Len(q) - 1 /\ \A i \in 1..Len(p) : p[i] = q[i + 1] /\ i + 1 \in 1..Len(q)
  OBVIOUS
<1>2. q[1] \in Frame /\ Head(q) = q[1] /\ 1 \in 1..Len(q)
  OBVIOUS
<1>3. now \in [Function -> Entry]
  BY <1>2, MergeIs, Zenon
<1>4. \A f \in Function : now[f] = IF f \in DOMAIN q[1].caps THEN q[1].caps[f] ELSE seen[f]
  BY <1>2, MergeIs
<1>5. InOrder(seen, p, read, src)
  BY OrderDrops, Zenon
<1> HIDE DEF p, now
<1>6. ASSUME NEW f \in Function
      PROVE  /\ now[f].ver >= seen[f].ver
             /\ now[f].ver <= src[f].ver
             /\ \A i \in 1..Len(p) : f \in DOMAIN p[i].caps => now[f].ver <= p[i].caps[f].ver
             /\ f \in DOMAIN read => now[f].ver <= read[f].ver
  <2>1. CASE f \in DOMAIN q[1].caps
    <3>1. now[f].ver = q[1].caps[f].ver
      BY <1>4, <2>1, Zenon
    <3>2. /\ seen[f].ver <= q[1].caps[f].ver
          /\ q[1].caps[f].ver <= src[f].ver
          /\ f \in DOMAIN read => q[1].caps[f].ver <= read[f].ver
      BY <1>2, <2>1, Zenon DEF InOrder
    <3>3. ASSUME NEW i \in 1..Len(p), f \in DOMAIN p[i].caps PROVE q[1].caps[f].ver <= p[i].caps[f].ver
      <4>1. PICK n \in 1..Len(q) : n = i + 1 /\ p[i] = q[n]
        BY <1>1, Zenon
      <4>2. 1 < n
        BY <4>1, <1>1
      <4> QED
        BY <1>2, <2>1, <3>3, <4>1, <4>2, Zenon DEF InOrder
    <3>4. q[1].caps[f].ver \in Nat /\ seen[f].ver \in Nat
      BY <1>2, <2>1, FrameVersions, Zenon DEF Entry
    <3> QED
      BY <3>1, <3>2, <3>3, <3>4, Zenon
  <2>2. CASE f \notin DOMAIN q[1].caps
    <3>1. now[f] = seen[f] /\ seen[f].ver \in Nat
      BY <1>4, <2>2, Zenon DEF Entry
    <3> QED
      BY <3>1, <1>5, SMTT(60) DEF InOrder
  <2> QED
    BY <2>1, <2>2, Zenon
<1>7. InOrder(now, p, read, src)
  BY <1>5, <1>6, Zenon DEF InOrder
<1> QED
  BY <1>6, <1>7, Zenon DEF p, now

\* A stream is cut short, and its subscriber gone.
LEMMA OrderCut ==
    ASSUME NEW seen \in [Function -> Entry], NEW q \in Seq(Frame), NEW read \in Partial,
           NEW src \in [Function -> Entry], InOrder(seen, q, read, src), NEW k \in 0..Len(q),
           NEW none, DOMAIN none = {}
    PROVE  InOrder(seen, SubSeq(q, 1, k), none, src) /\ InOrder(seen, <<>>, none, src)
<1>1. SubSeq(q, 1, k) \in Seq(Frame) /\ Len(SubSeq(q, 1, k)) = k /\ \A i \in 1..k : SubSeq(q, 1, k)[i] = q[i]
  OBVIOUS
<1>2. \A i \in 1..k : i \in 1..Len(q)
  BY SMTT(60)
<1> DEFINE p == SubSeq(q, 1, k)
<1> HIDE DEF p
<1>3. InOrder(seen, p, none, src)
  BY <1>1, <1>2, Zenon DEF InOrder, p
<1>4. Len(<<>>) = 0 /\ 1..0 = {}
  BY SMTT(60)
<1>5. InOrder(seen, <<>>, none, src)
  BY <1>4, Zenon DEF InOrder
<1> QED
  BY <1>3, <1>5, Zenon DEF p

----------------------------------------------------------------------------
(* Types.                                                                  *)

\* The subscriber and the frames of one stream are replaced.
SubIs(v, l, s) == sub' = [sub EXCEPT ![v][l] = s]
FramesAre(v, l, q) == frames' = [frames EXCEPT ![v][l] = q]

\* A subscriber replaced by another.
LEMMA SubReplaced ==
    ASSUME SyncTypes, NEW v \in Version, NEW l \in Leaf, NEW s \in RoutingSubscriber,
           SubIs(v, l, s)
    PROVE  /\ sub' \in [Version -> [Leaf -> RoutingSubscriber]]
           /\ sub'[v][l] = s
           /\ \A w \in Version, k \in Leaf : w # v \/ k # l => sub'[w][k] = sub[w][k]
  BY Zenon DEF SyncTypes, SubIs

\* The frames of one stream replaced by others.
LEMMA FramesReplaced ==
    ASSUME SyncTypes, NEW v \in Version, NEW l \in Leaf, NEW q \in Seq(Frame),
           FramesAre(v, l, q)
    PROVE  /\ frames' \in [Version -> [Leaf -> Seq(Frame)]]
           /\ frames'[v][l] = q
           /\ \A w \in Version, k \in Leaf : w # v \/ k # l => frames'[w][k] = frames[w][k]
  BY Zenon DEF SyncTypes, FramesAre

\* The wake-up of every subscriber of a leaf.
LEMMA HeartbeatEffect ==
    ASSUME SyncTypes, NEW l \in Leaf, PublishHeartbeat(l)
    PROVE  /\ sub' \in [Version -> [Leaf -> RoutingSubscriber]]
           /\ \A w \in Version, k \in Leaf :
                /\ sub'[w][k].open = sub[w][k].open /\ sub'[w][k].busy = sub[w][k].busy
                /\ sub'[w][k].first = sub[w][k].first /\ sub'[w][k].rev = sub[w][k].rev
                /\ sub'[w][k].read = sub[w][k].read /\ sub'[w][k].sent = sub[w][k].sent
           /\ UNCHANGED <<source, workers, revision, frames, restarts, modelVars>>
<1>1. sub' = [v \in Version |-> [sub[v] EXCEPT ![l].notify = @ \/ sub[v][l].open]]
  BY Zenon DEF PublishHeartbeat
<1>2. UNCHANGED <<source, workers, revision, frames, restarts, modelVars>>
  BY Zenon DEF PublishHeartbeat
<1>3. ASSUME NEW w \in Version, NEW k \in Leaf
      PROVE  /\ sub'[w][k] \in RoutingSubscriber
             /\ sub'[w][k].open = sub[w][k].open /\ sub'[w][k].busy = sub[w][k].busy
             /\ sub'[w][k].first = sub[w][k].first /\ sub'[w][k].rev = sub[w][k].rev
             /\ sub'[w][k].read = sub[w][k].read /\ sub'[w][k].sent = sub[w][k].sent
  <2>1. sub[w] \in [Leaf -> RoutingSubscriber] /\ sub[w][k] \in RoutingSubscriber
        /\ sub[w][l] \in RoutingSubscriber
    BY Zenon DEF SyncTypes
  <2>2. sub'[w][k] = IF k = l THEN [sub[w][l] EXCEPT !.notify = @ \/ sub[w][l].open] ELSE sub[w][k]
    BY <1>1, <2>1, Zenon
  <2>3. CASE k = l
    BY <2>1, <2>2, <2>3, Zenon DEF RoutingSubscriber
  <2>4. CASE k # l
    BY <2>1, <2>2, <2>4, Zenon
  <2> QED
    BY <2>3, <2>4, Zenon
<1>4. sub' \in [Version -> [Leaf -> RoutingSubscriber]]
  <2>1. ASSUME NEW w \in Version PROVE sub'[w] \in [Leaf -> RoutingSubscriber]
    <3>1. DOMAIN sub[w] = Leaf
      BY Zenon DEF SyncTypes
    <3>2. sub'[w] = [sub[w] EXCEPT ![l].notify = @ \/ sub[w][l].open]
      BY <1>1, Zenon
    <3>3. sub'[w] = [k \in Leaf |-> sub'[w][k]]
      BY <3>1, <3>2, Zenon
    <3> QED
      BY <1>3, <3>3, Zenon
  <2> QED
    BY <1>1, <2>1, Zenon
<1> QED
  BY <1>2, <1>3, <1>4, Zenon

\* A restarted leaf has no subscriber.
LEMMA RestartEffect ==
    ASSUME SyncTypes, NEW l \in Leaf, Restart(l)
    PROVE  /\ sub' \in [Version -> [Leaf -> RoutingSubscriber]]
           /\ \A w \in Version, k \in Leaf : sub'[w][k] = IF k = l THEN NoSub ELSE sub[w][k]
           /\ source' \in [Leaf -> [Function -> Entry]]
           /\ \A k \in Leaf, f \in Function : source[k][f].ver <= source'[k][f].ver
           /\ revision' \in [Leaf -> Nat] /\ workers' \in [Leaf -> BOOLEAN]
           /\ UNCHANGED <<frames, modelVars>>
<1>1. /\ sub' = [v \in Version |-> [sub[v] EXCEPT ![l] = NoSub]]
      /\ source' = [source EXCEPT ![l] = [f \in Function |-> [cap |-> Absent, ver |-> @[f].ver + 1]]]
      /\ revision' = [revision EXCEPT ![l] = 0] /\ workers' = [workers EXCEPT ![l] = FALSE]
      /\ UNCHANGED <<frames, modelVars>>
  BY Zenon DEF Restart
<1>2. sub \in [Version -> [Leaf -> RoutingSubscriber]] /\ NoSub \in RoutingSubscriber
  BY NewSubTypes, Zenon DEF SyncTypes
<1>3. /\ sub' \in [Version -> [Leaf -> RoutingSubscriber]]
      /\ \A w \in Version, k \in Leaf : sub'[w][k] = IF k = l THEN NoSub ELSE sub[w][k]
  BY <1>1, <1>2, Zenon
<1>4. source \in [Leaf -> [Function -> Entry]]
  BY Zenon DEF SyncTypes
<1> DEFINE lost == [f \in Function |-> [cap |-> Absent, ver |-> source[l][f].ver + 1]]
<1>5. \A f \in Function : source[l][f].ver \in Nat
  BY <1>4, Zenon DEF Entry
<1>6. lost \in [Function -> Entry]
  BY <1>5 DEF Entry
<1>7. source' = [source EXCEPT ![l] = lost]
  BY <1>1, <1>4, Zenon
<1>8. \A k \in Leaf : source'[k] = IF k = l THEN lost ELSE source[k]
  BY <1>4, <1>7, Zenon
<1>9. ASSUME NEW k \in Leaf, NEW f \in Function PROVE source[k][f].ver <= source'[k][f].ver
  <2>1. source[k][f].ver \in Nat
    BY <1>4, Zenon DEF Entry
  <2>2. lost[f].ver = source[l][f].ver + 1
    BY Zenon
  <2> HIDE DEF lost
  <2>3. CASE k = l
    BY <1>8, <2>1, <2>2, <2>3
  <2>4. CASE k # l
    BY <1>8, <2>1, <2>4
  <2> QED
    BY <2>3, <2>4, Zenon
<1>10. source' \in [Leaf -> [Function -> Entry]]
  <2> HIDE DEF lost
  <2> QED
    BY <1>4, <1>6, <1>7, Zenon
<1>11. revision' \in [Leaf -> Nat] /\ workers' \in [Leaf -> BOOLEAN]
  BY <1>1, Zenon DEF SyncTypes
<1> QED
  BY <1>1, <1>3, <1>9, <1>10, <1>11, Zenon

\* A capacity or the health of a leaf changes.
LEMMA ChangeEffect ==
    ASSUME SyncTypes, NEW l \in Leaf,
           SetWorkers(l) \/ \E f \in Function, c \in Capacity \cup {Absent} : SetCapacity(l, f, c)
    PROVE  /\ source' \in [Leaf -> [Function -> Entry]] /\ workers' \in [Leaf -> BOOLEAN]
           /\ \A k \in Leaf, f \in Function : source[k][f].ver <= source'[k][f].ver
           /\ UNCHANGED <<revision, restarts, sub, frames, modelVars>>
<1>1. UNCHANGED <<revision, restarts, sub, frames, modelVars>>
  BY Zenon DEF SetWorkers, SetCapacity, Changed
<1>2. /\ source \in [Leaf -> [Function -> Entry]] /\ workers \in [Leaf -> BOOLEAN]
      /\ \A k \in Leaf, f \in Function : source[k][f] \in Entry /\ source[k][f].ver \in Nat
  BY DEF SyncTypes, Entry
<1>3. CASE SetWorkers(l)
  BY <1>1, <1>2, <1>3 DEF SetWorkers
<1>4. ASSUME NEW g \in Function, NEW c \in Capacity \cup {Absent}, SetCapacity(l, g, c)
      PROVE  /\ source' \in [Leaf -> [Function -> Entry]] /\ workers' = workers
             /\ \A k \in Leaf, f \in Function : source[k][f].ver <= source'[k][f].ver
  <2> DEFINE new == [cap |-> c, ver |-> source[l][g].ver + 1]
  <2>1. source' = [source EXCEPT ![l][g] = new] /\ workers' = workers
    BY <1>2, <1>4, Zenon DEF SetCapacity
  <2>2. new \in Entry /\ new.ver = source[l][g].ver + 1
    BY <1>2 DEF Entry
  <2> HIDE DEF new
  <2>3. source' \in [Leaf -> [Function -> Entry]]
    BY <1>2, <2>1, <2>2, Zenon
  <2>4. \A k \in Leaf, f \in Function :
          source'[k][f] = IF k = l /\ f = g THEN new ELSE source[k][f]
    BY <1>2, <2>1, Zenon
  <2>5. ASSUME NEW k \in Leaf, NEW f \in Function PROVE source[k][f].ver <= source'[k][f].ver
    <3>1. CASE k = l /\ f = g
      BY <1>2, <2>2, <2>4, <3>1
    <3>2. CASE ~(k = l /\ f = g)
      BY <1>2, <2>4, <3>2, SMTT(60)
    <3> QED
      BY <3>1, <3>2, Zenon
  <2> QED
    BY <2>1, <2>3, <2>5, Zenon
<1> QED
  BY <1>1, <1>2, <1>3, <1>4, Zenon

\* The streams other than (v, l) are left alone.
OthersKept(v, l) ==
    \A w \in Version, k \in Leaf :
      w # v \/ k # l => sub'[w][k] = sub[w][k] /\ frames'[w][k] = frames[w][k]

\* Emit wakes up and takes the next revision.
LEMMA BeginEffect ==
    ASSUME SyncTypes, NEW v \in Version, NEW l \in Leaf, EmitBegin(v, l)
    PROVE  /\ SyncTypes' /\ OthersKept(v, l)
           /\ sub[v][l].open /\ sub'[v][l].open /\ sub'[v][l].first = sub[v][l].first
           /\ sub'[v][l].sent = sub[v][l].sent /\ sub'[v][l].read = Nothing
           /\ sub'[v][l].busy /\ sub'[v][l].rev = revision[l] + 1
           /\ revision' = [revision EXCEPT ![l] = @ + 1]
           /\ UNCHANGED <<source, restarts, frames, modelVars>>
<1> DEFINE s == sub[v][l]
           t == [s EXCEPT !.busy = TRUE, !.rev = revision'[l], !.up = workers[l],
                          !.notify = sub[v][l].notify /\ sub[v][l].first, !.read = Nothing]
<1>1. /\ s.open /\ revision' = [revision EXCEPT ![l] = @ + 1] /\ SubIs(v, l, t)
      /\ UNCHANGED <<source, workers, restarts, frames, modelVars>>
  <2>1. sub \in [Version -> [Leaf -> RoutingSubscriber]]
    BY Zenon DEF SyncTypes
  <2>2. SubIs(v, l, t)
    BY Zenon DEF EmitBegin, SubIs
  <2> QED
    BY <2>2, Zenon DEF EmitBegin
<1>2. s \in RoutingSubscriber /\ workers[l] \in BOOLEAN /\ revision \in [Leaf -> Nat]
  BY Zenon DEF SyncTypes
<1>3. revision' \in [Leaf -> Nat] /\ revision'[l] = revision[l] + 1 /\ revision'[l] \in Nat
  BY <1>1, <1>2
<1>4. /\ t \in RoutingSubscriber /\ t.open = s.open /\ t.first = s.first /\ t.sent = s.sent
      /\ t.read = Nothing /\ t.busy /\ t.rev = revision'[l]
  BY <1>2, <1>3, NewSubTypes, ZenonT(60) DEF RoutingSubscriber
<1> HIDE DEF t
<1>5. /\ sub' \in [Version -> [Leaf -> RoutingSubscriber]] /\ sub'[v][l] = t
      /\ \A w \in Version, k \in Leaf : w # v \/ k # l => sub'[w][k] = sub[w][k]
  BY <1>1, <1>4, SubReplaced, Zenon
<1>6. SyncTypes'
  BY <1>1, <1>3, <1>5, Zenon DEF SyncTypes, modelVars
<1>7. OthersKept(v, l)
  BY <1>1, <1>5, Zenon DEF OthersKept
<1> QED
  BY <1>1, <1>3, <1>4, <1>5, <1>6, <1>7, Zenon

\* CapacitySnapshot visits one pool.
LEMMA ReadEffect ==
    ASSUME SyncTypes, NEW v \in Version, NEW l \in Leaf, NEW g \in Function, EmitRead(v, l, g)
    PROVE  /\ SyncTypes' /\ OthersKept(v, l)
           /\ sub[v][l].open /\ sub'[v][l].open /\ sub'[v][l].first = sub[v][l].first
           /\ sub'[v][l].sent = sub[v][l].sent
           /\ sub'[v][l].busy = sub[v][l].busy /\ sub'[v][l].rev = sub[v][l].rev
           /\ g \notin DOMAIN sub[v][l].read
           /\ sub'[v][l].read = WithPool(sub[v][l].read, g, source[l][g])
           /\ UNCHANGED <<source, revision, restarts, frames, modelVars>>
<1> DEFINE s == sub[v][l]
           more == WithPool(s.read, g, source[l][g])
           t == [s EXCEPT !.read = more]
<1>1. s.open /\ s.busy /\ g \notin DOMAIN s.read /\ UNCHANGED <<leafVars, frames, modelVars>>
  BY Zenon DEF EmitRead
<1>2. s \in RoutingSubscriber /\ source[l][g] \in Entry /\ sub \in [Version -> [Leaf -> RoutingSubscriber]]
  BY Zenon DEF SyncTypes
<1>3. SubIs(v, l, t)
  BY <1>2, Zenon DEF EmitRead, SubIs, WithPool
<1>4. s.read \in Partial
  BY <1>2, Zenon DEF RoutingSubscriber
<1>5. DOMAIN s.read \in SUBSET Function /\ s.read \in [DOMAIN s.read -> Entry]
  BY <1>4, PartialOut, Zenon
<1>6. more \in [DOMAIN s.read \cup {g} -> Entry]
  BY <1>2, <1>5, Zenon DEF WithPool
<1>7. more \in Partial
  <2> HIDE DEF more
  <2> QED
    BY <1>5, <1>6, PartialIn, Zenon
<1> HIDE DEF more
<1>8. /\ t \in RoutingSubscriber /\ t.open = s.open /\ t.first = s.first /\ t.sent = s.sent
      /\ t.read = more /\ t.busy = s.busy /\ t.rev = s.rev
  BY <1>2, <1>7, Zenon DEF RoutingSubscriber
<1> HIDE DEF t
<1>9. /\ sub' \in [Version -> [Leaf -> RoutingSubscriber]] /\ sub'[v][l] = t
      /\ \A w \in Version, k \in Leaf : w # v \/ k # l => sub'[w][k] = sub[w][k]
  BY <1>3, <1>8, SubReplaced, Zenon
<1>10. SyncTypes'
  BY <1>1, <1>9, Zenon DEF SyncTypes, modelVars, leafVars
<1>11. OthersKept(v, l)
  BY <1>1, <1>9, Zenon DEF OthersKept
<1>12. UNCHANGED <<source, revision, restarts, frames, modelVars>>
  BY <1>1, Zenon DEF leafVars
<1> QED
  BY <1>1, <1>8, <1>9, <1>10, <1>11, <1>12, Zenon DEF more

\* The frame emit sends: all it has read at first, then what differs from what
\* was sent.
Carries(x, v, l) ==
    /\ frames'[v][l] = Append(frames[v][l], x)
    /\ x.rev = sub[v][l].rev
    /\ DOMAIN x.caps = IF sub[v][l].first THEN Function
                       ELSE {f \in Function : sub[v][l].sent[f].cap # sub[v][l].read[f].cap}
    /\ \A f \in DOMAIN x.caps : x.caps[f] = sub[v][l].read[f]

\* Emit sends a frame and remembers what it sent.
LEMMA SendEffect ==
    ASSUME SyncTypes, NEW v \in Version, NEW l \in Leaf, EmitSend(v, l)
    PROVE  /\ SyncTypes' /\ OthersKept(v, l)
           /\ sub[v][l].open /\ sub[v][l].busy /\ DOMAIN sub[v][l].read = Function
           /\ sub'[v][l].open /\ ~sub'[v][l].first /\ ~sub'[v][l].busy
           /\ sub'[v][l].sent = sub[v][l].read /\ sub'[v][l].read = Nothing
           /\ \E x \in Frame : Carries(x, v, l)
           /\ UNCHANGED <<source, revision, restarts, modelVars>>
<1> DEFINE s == sub[v][l]
           d == diffCapacities(s.sent, s.read)
           caps == IF s.first THEN s.read ELSE d
           x == [full |-> s.first, rev |-> s.rev, up |-> s.up, caps |-> caps]
           t == [s EXCEPT !.busy = FALSE, !.first = FALSE, !.sent = s.read, !.read = Nothing]
<1>1. /\ s.open /\ s.busy /\ DOMAIN s.read = Function
      /\ FramesAre(v, l, Append(frames[v][l], x))
      /\ SubIs(v, l, t)
      /\ UNCHANGED <<leafVars, modelVars>>
  <2>1. /\ sub \in [Version -> [Leaf -> RoutingSubscriber]]
        /\ frames \in [Version -> [Leaf -> Seq(Frame)]]
    BY Zenon DEF SyncTypes
  <2>2. SubIs(v, l, t)
    BY <2>1, Zenon DEF EmitSend, SubIs
  <2>3. FramesAre(v, l, Append(frames[v][l], x))
    BY <2>1, Zenon DEF EmitSend, FramesAre
  <2> QED
    BY <2>2, <2>3, Zenon DEF EmitSend
<1>2. s \in RoutingSubscriber /\ frames[v][l] \in Seq(Frame)
      /\ frames \in [Version -> [Leaf -> Seq(Frame)]]
  BY Zenon DEF SyncTypes
<1>3. /\ s.read \in [Function -> Entry] /\ d \in Partial
      /\ DOMAIN d = {f \in Function : s.sent[f].cap # s.read[f].cap}
      /\ \A f \in DOMAIN d : d[f] = s.read[f]
  BY <1>1, <1>2, SentTypes, Zenon
<1>4. s.first \in BOOLEAN /\ s.rev \in Nat /\ s.up \in BOOLEAN /\ s.read \in Partial
  BY <1>2, Zenon DEF RoutingSubscriber
<1> HIDE DEF d
<1>5. /\ caps \in Partial
      /\ DOMAIN caps = IF s.first THEN Function ELSE {f \in Function : s.sent[f].cap # s.read[f].cap}
      /\ \A f \in DOMAIN caps : caps[f] = s.read[f]
  BY <1>1, <1>3, <1>4, Zenon
<1>6. s.first => DOMAIN caps = Function
  BY <1>1, Zenon
<1> HIDE DEF caps
<1>7. x \in Frame /\ x.rev = s.rev /\ x.caps = caps
  BY <1>4, <1>5, <1>6, Zenon DEF Frame
<1>8. /\ t \in RoutingSubscriber /\ t.open = s.open /\ ~t.first /\ ~t.busy /\ t.sent = s.read
      /\ t.read = Nothing
  BY <1>2, <1>3, NewSubTypes, Zenon DEF RoutingSubscriber
<1> HIDE DEF t, x
<1>9. /\ sub' \in [Version -> [Leaf -> RoutingSubscriber]] /\ sub'[v][l] = t
      /\ \A w \in Version, k \in Leaf : w # v \/ k # l => sub'[w][k] = sub[w][k]
  BY <1>1, <1>8, SubReplaced, Zenon
<1>10. Append(frames[v][l], x) \in Seq(Frame)
  BY <1>2, <1>7
<1>12. /\ frames' \in [Version -> [Leaf -> Seq(Frame)]] /\ frames'[v][l] = Append(frames[v][l], x)
       /\ \A w \in Version, k \in Leaf : w # v \/ k # l => frames'[w][k] = frames[w][k]
  BY <1>1, <1>10, FramesReplaced, ZenonT(60)
<1>13. SyncTypes'
  BY <1>1, <1>9, <1>12, Zenon DEF SyncTypes, modelVars, leafVars
<1>14. OthersKept(v, l)
  BY <1>9, <1>12, Zenon DEF OthersKept
<1>15. UNCHANGED <<source, revision, restarts, modelVars>>
  BY <1>1, Zenon DEF leafVars
<1> QED
  <2>1. Carries(x, v, l)
    BY <1>5, <1>7, <1>12, Zenon DEF Carries
  <2> QED
    BY <2>1, <1>1, <1>7, <1>8, <1>9, <1>13, <1>14, <1>15, Zenon

\* A stream begins, ends or breaks: its subscriber is new or gone, and frames
\* are lost from some point.
LEMMA CutEffect ==
    ASSUME SyncTypes, NEW v \in Version, NEW l \in Leaf, Dial(v, l) \/ RecvFails(v, l) \/ Break(v, l)
    PROVE  /\ SyncTypes' /\ OthersKept(v, l)
           /\ \/ sub'[v][l] = NewSub /\ frames'[v][l] = <<>> /\ v = version
              \/ /\ sub'[v][l] = NoSub
                 /\ \E k \in 0..Len(frames[v][l]) : frames'[v][l] = SubSeq(frames[v][l], 1, k)
           /\ UNCHANGED <<source, revision, restarts, modelVars>>
<1>1. UNCHANGED <<leafVars, modelVars>>
  BY Zenon DEF Dial, RecvFails, Break
<1>2. frames[v][l] \in Seq(Frame) /\ frames \in [Version -> [Leaf -> Seq(Frame)]]
  BY Zenon DEF SyncTypes
<1>3. \E s \in {NoSub, NewSub}, q \in Seq(Frame) :
        /\ SubIs(v, l, s) /\ FramesAre(v, l, q)
        /\ s = NewSub => q = <<>> /\ v = version
        /\ s # NewSub => \E k \in 0..Len(frames[v][l]) : q = SubSeq(frames[v][l], 1, k)
  <2>1. <<>> \in Seq(Frame) /\ NoSub # NewSub
    BY NewSubTypes
  <2>2. CASE Dial(v, l)
    BY <2>1, <2>2, Zenon DEF Dial, Cancelled, SubIs, FramesAre
  <2>3. CASE RecvFails(v, l)
    <3>1. 0 \in 0..Len(frames[v][l]) /\ SubSeq(frames[v][l], 1, 0) = <<>>
      BY <1>2
    <3>2. SubIs(v, l, NoSub) /\ FramesAre(v, l, <<>>)
      BY <2>3, Zenon DEF RecvFails, SubIs, FramesAre
    <3> QED
      BY <2>1, <3>1, <3>2, Zenon
  <2>4. CASE Break(v, l)
    <3>1. PICK k \in 0..Len(frames[v][l]) : frames' = [frames EXCEPT ![v][l] = SubSeq(@, 1, k)]
      BY <2>4, Zenon DEF Break
    <3>2. FramesAre(v, l, SubSeq(frames[v][l], 1, k))
      BY <1>2, <3>1, Zenon DEF FramesAre
    <3>3. SubSeq(frames[v][l], 1, k) \in Seq(Frame)
      BY <1>2
    <3>4. SubIs(v, l, NoSub)
      BY <2>4, Zenon DEF Break, SubIs
    <3> QED
      BY <2>1, <3>2, <3>3, <3>4, Zenon
  <2> QED
    BY <2>2, <2>3, <2>4, Zenon
<1>4. PICK s \in {NoSub, NewSub}, q \in Seq(Frame) :
        /\ SubIs(v, l, s) /\ FramesAre(v, l, q)
        /\ s = NewSub => q = <<>> /\ v = version
        /\ s # NewSub => \E k \in 0..Len(frames[v][l]) : q = SubSeq(frames[v][l], 1, k)
  BY <1>3, Zenon
<1>5. s \in RoutingSubscriber
  BY NewSubTypes, Zenon
<1>6. /\ sub' \in [Version -> [Leaf -> RoutingSubscriber]] /\ sub'[v][l] = s
      /\ \A w \in Version, k \in Leaf : w # v \/ k # l => sub'[w][k] = sub[w][k]
  BY <1>4, <1>5, SubReplaced, Zenon
<1>7. /\ frames' \in [Version -> [Leaf -> Seq(Frame)]] /\ frames'[v][l] = q
      /\ \A w \in Version, k \in Leaf : w # v \/ k # l => frames'[w][k] = frames[w][k]
  BY <1>4, FramesReplaced, SMTT(60)
<1>8. SyncTypes'
  BY <1>1, <1>6, <1>7, Zenon DEF SyncTypes, modelVars, leafVars
<1>9. OthersKept(v, l)
  BY <1>6, <1>7, Zenon DEF OthersKept
<1>10. UNCHANGED <<source, revision, restarts, modelVars>>
  BY <1>1, Zenon DEF leafVars
<1> QED
  BY <1>4, <1>6, <1>7, <1>8, <1>9, <1>10, Zenon

\* A frame is received: the current configuration's frames are merged if they
\* are newer than the last one accepted (onFrame).
LEMMA RecvEffect ==
    ASSUME SyncTypes, NEW v \in Version, NEW l \in Leaf, Recv(v, l)
    PROVE  /\ SyncTypes' /\ OthersKept(v, l)
           /\ frames[v][l] # <<>> /\ frames'[v][l] = Tail(frames[v][l])
           /\ \A k \in Leaf : k # l => view'[k] = view[k] /\ lastRevision'[k] = lastRevision[k]
           /\ IF v = version /\ Head(frames[v][l]).rev > lastRevision[l]
              THEN /\ view'[l] = Merge(view[l], Head(frames[v][l]))
                   /\ lastRevision'[l] = Head(frames[v][l]).rev
              ELSE view'[l] = view[l] /\ lastRevision'[l] = lastRevision[l]
           /\ UNCHANGED <<source, revision, restarts, version, sub>>
<1> DEFINE q == frames[v][l]
           x == Head(q)
<1>1. q # <<>> /\ onFrame(v, l, x) /\ UNCHANGED <<leafVars, sub>>
  BY Zenon DEF Recv
<1>2. q \in Seq(Frame) /\ frames \in [Version -> [Leaf -> Seq(Frame)]]
  BY Zenon DEF SyncTypes
<1>3. FramesAre(v, l, Tail(q))
  BY <1>2, Zenon DEF Recv, FramesAre
<1>4. Tail(q) \in Seq(Frame) /\ x \in Frame
  BY <1>1, <1>2, SMTT(60)
<1>5. /\ frames' \in [Version -> [Leaf -> Seq(Frame)]] /\ frames'[v][l] = Tail(q)
      /\ \A w \in Version, k \in Leaf : w # v \/ k # l => frames'[w][k] = frames[w][k]
  BY <1>3, <1>4, FramesReplaced, ZenonT(60)
<1>6. /\ view \in [Leaf -> [Function -> Entry]] /\ lastRevision \in [Leaf -> Nat]
      /\ version \in Version \cup {0}
  BY Zenon DEF SyncTypes
<1>7. x.rev \in Nat /\ Merge(view[l], x) \in [Function -> Entry]
  <2>1. x.rev \in Nat
    BY <1>4, Zenon DEF Frame
  <2>2. view[l] \in [Function -> Entry]
    BY <1>6, Zenon
  <2> HIDE DEF x
  <2> QED
    BY <1>4, <2>1, <2>2, MergeIs, Zenon
<1> HIDE DEF q, x
<1>8. CASE Accepts(v, l, x)
  <2>1. /\ lastRevision' = [lastRevision EXCEPT ![l] = x.rev]
        /\ view' = [view EXCEPT ![l] = Merge(view[l], x)]
        /\ version' = version
    BY <1>1, <1>6, <1>8, Zenon DEF onFrame
  <2>2. lastRevision' \in [Leaf -> Nat] /\ view' \in [Leaf -> [Function -> Entry]]
    BY <1>6, <1>7, <2>1, Zenon
  <2>3. /\ \A k \in Leaf : k # l => view'[k] = view[k] /\ lastRevision'[k] = lastRevision[k]
        /\ view'[l] = Merge(view[l], x) /\ lastRevision'[l] = x.rev
    BY <1>6, <2>1, Zenon
  <2>4. v = version /\ x.rev > lastRevision[l]
    BY <1>8, Zenon DEF Accepts
  <2>5. SyncTypes'
    BY <1>1, <1>5, <2>1, <2>2, Zenon DEF SyncTypes, leafVars
  <2>6. OthersKept(v, l)
    BY <1>1, <1>5, Zenon DEF OthersKept
  <2>7. UNCHANGED <<source, revision, restarts, version, sub>>
    BY <1>1, <2>1, Zenon DEF leafVars
  <2> QED
    BY <1>1, <1>5, <2>3, <2>4, <2>5, <2>6, <2>7, Zenon DEF q, x
<1>9. CASE ~Accepts(v, l, x)
  <2>1. UNCHANGED modelVars
    BY <1>1, <1>9, Zenon DEF onFrame
  <2>2. ~(v = version /\ x.rev > lastRevision[l])
    BY <1>9, Zenon DEF Accepts
  <2>3. SyncTypes'
    BY <1>1, <1>5, <2>1, Zenon DEF SyncTypes, leafVars, modelVars
  <2>4. OthersKept(v, l)
    BY <1>1, <1>5, Zenon DEF OthersKept
  <2>5. UNCHANGED <<source, revision, restarts, version, sub, view, lastRevision>>
    BY <1>1, <2>1, Zenon DEF leafVars, modelVars
  <2> QED
    BY <1>1, <1>5, <2>2, <2>3, <2>4, <2>5, Zenon DEF q, x
<1> QED
  BY <1>8, <1>9, Zenon

----------------------------------------------------------------------------
(* The order of history.                                                   *)

\* A step of one stream of the current or an earlier configuration.
LEMMA OrderStream ==
    ASSUME OrderInv, NEW v \in Version, NEW l \in Leaf, SyncTypes', OthersKept(v, l),
           version' = version, source' = source,
           \A k \in Leaf : k # l \/ v # version => view'[k] = view[k],
           ~sub'[v][l].open => ~sub'[v][l].busy /\ DOMAIN sub'[v][l].read = {},
           v > version => ~sub'[v][l].open /\ frames'[v][l] = <<>>,
           v = version => InOrder(view'[l], frames'[v][l], sub'[v][l].read, source[l])
    PROVE  OrderInv'
<1>1. Untouched'
  BY SMTT(60) DEF OrderInv, Untouched, OthersKept
<1>2. ASSUME version' # 0, NEW k \in Leaf
      PROVE  InOrder(view'[k], frames'[version'][k], sub'[version'][k].read, source'[k])
  <2>1. version \in Version /\ InOrder(view[k], frames[version][k], sub[version][k].read, source[k])
    BY <1>2, Zenon DEF OrderInv, SyncTypes
  <2>2. CASE k = l /\ v = version
    BY <2>2, ZenonT(60)
  <2>3. CASE k # l \/ v # version
    <3>1. /\ frames'[version][k] = frames[version][k] /\ sub'[version][k] = sub[version][k]
          /\ view'[k] = view[k]
      BY <2>1, <2>3, Zenon DEF OthersKept
    <3> QED
      BY <2>1, <3>1, Zenon
  <2> QED
    BY <2>2, <2>3, Zenon
<1> QED
  BY <1>1, <1>2, Zenon DEF OrderInv

\* The parts of the state the two invariants read.
syncVars == <<source, view, workers, revision, lastRevision, restarts, version, sub, frames>>

\* The steps that touch nothing of it.
LEMMA SyncQuiet ==
    ASSUME NEW v \in Version, NEW l \in Leaf,
           \/ DialFails(v, l) \/ SessionEnded(v, l) \/ MarkUnhealthy(v, l)
           \/ Backoff(v, l) \/ StreamQuit(v, l) \/ ApplyConfigEnd \/ UNCHANGED vars
    PROVE  UNCHANGED syncVars
<1>1. ASSUME UNCHANGED <<leafVars, modelVars, sub, frames>> PROVE UNCHANGED syncVars
  BY <1>1, Zenon DEF syncVars, leafVars, modelVars
<1>2. CASE DialFails(v, l) \/ SessionEnded(v, l) \/ Backoff(v, l) \/ StreamQuit(v, l)
  BY <1>1, <1>2, Zenon DEF DialFails, SessionEnded, Backoff, StreamQuit
<1>3. CASE MarkUnhealthy(v, l)
  <2>1. markUnhealthy(v, l) /\ UNCHANGED <<leafVars, sub, frames>>
    BY <1>3, Zenon DEF MarkUnhealthy
  <2>2. UNCHANGED <<version, lastRevision, view>>
    BY <2>1, Zenon DEF markUnhealthy, modelVars
  <2> QED
    BY <2>1, <2>2, Zenon DEF syncVars, leafVars
<1>4. CASE ApplyConfigEnd
  BY <1>4, Zenon DEF ApplyConfigEnd, syncVars, leafVars
<1>5. CASE UNCHANGED vars
  BY <1>1, <1>5, Zenon DEF vars
<1> QED
  BY <1>2, <1>3, <1>4, <1>5, Zenon

\* A new configuration begins with nothing seen.
LEMMA BeginConfig ==
    ASSUME SyncTypes, Untouched, NEW v \in Version, ApplyConfigBegin(v)
    PROVE  /\ SyncTypes' /\ Untouched' /\ v > version /\ version' = v
           /\ \A l \in Leaf :
                /\ view'[l] = Blank /\ lastRevision'[l] = 0
                /\ ~sub[v][l].open /\ ~sub[v][l].busy /\ DOMAIN sub[v][l].read = {}
                /\ frames[v][l] = <<>>
           /\ UNCHANGED <<source, revision, restarts, sub, frames>>
<1>1. /\ v > version /\ version' = v /\ lastRevision' = [l \in Leaf |-> 0]
      /\ view' = [l \in Leaf |-> Blank]
      /\ UNCHANGED <<leafVars, sub, frames>>
  BY Zenon DEF ApplyConfigBegin
<1>2. SyncTypes'
  BY <1>1, NewSubTypes, Zenon DEF SyncTypes, leafVars
<1>3. \A w \in Version : w > v => w > version
  BY <1>1, RoutingAssumption, SMTT(60) DEF SyncTypes, Version
<1>4. Untouched'
  BY <1>1, <1>3, Zenon DEF Untouched
<1>5. \A l \in Leaf :
        /\ view'[l] = Blank /\ lastRevision'[l] = 0
        /\ ~sub[v][l].open /\ ~sub[v][l].busy /\ DOMAIN sub[v][l].read = {}
        /\ frames[v][l] = <<>>
  BY <1>1, Zenon DEF Untouched
<1> QED
  BY <1>1, <1>2, <1>4, <1>5, Zenon DEF leafVars

\* An open stream is not one of a configuration to come.
LEMMA OpenIsDue ==
    ASSUME SyncTypes, Untouched, NEW v \in Version, NEW l \in Leaf,
           sub[v][l].open \/ frames[v][l] # <<>>
    PROVE  ~(v > version)
  BY Zenon DEF Untouched

\* The types that the lemmas on one stream ask for.
LEMMA StreamTypes ==
    ASSUME SyncTypes, NEW v \in Version, NEW l \in Leaf
    PROVE  /\ view[l] \in [Function -> Entry] /\ source[l] \in [Function -> Entry]
           /\ frames[v][l] \in Seq(Frame) /\ sub[v][l] \in RoutingSubscriber
           /\ sub[v][l].read \in Partial
           /\ revision[l] \in Nat /\ lastRevision[l] \in Nat
<1>1. sub[v][l] \in RoutingSubscriber
  BY Zenon DEF SyncTypes
<1>2. sub[v][l].read \in Partial
  BY <1>1, Zenon DEF RoutingSubscriber
<1> QED
  BY <1>1, <1>2, Zenon DEF SyncTypes

\* Nothing on its way: the ingress is not ahead of the leaf.
LEMMA OrderEmpty ==
    ASSUME NEW seen \in [Function -> Entry], NEW q, NEW read, NEW src \in [Function -> Entry],
           DOMAIN read = {},
           \A f \in Function : seen[f].ver <= src[f].ver, q = <<>>
    PROVE  InOrder(seen, q, read, src)
<1>1. Len(<<>>) = 0 /\ 1..0 = {}
  OBVIOUS
<1> QED
  BY <1>1, Zenon DEF InOrder

\* Every step of emit keeps the order.
LEMMA OrderEmit ==
    ASSUME OrderInv, NEW v \in Version, NEW l \in Leaf, Emit(v, l) PROVE OrderInv'
<1>0. SyncTypes /\ Untouched
  BY Zenon DEF OrderInv
<1>1. /\ view[l] \in [Function -> Entry] /\ source[l] \in [Function -> Entry]
      /\ frames[v][l] \in Seq(Frame) /\ sub[v][l] \in RoutingSubscriber /\ sub[v][l].read \in Partial
  BY <1>0, StreamTypes, Zenon
<1>2. v = version => InOrder(view[l], frames[v][l], sub[v][l].read, source[l])
  BY RoutingAssumption, SMTT(60) DEF OrderInv, Version
<1>3. CASE EmitBegin(v, l)
  <2>1. /\ SyncTypes' /\ OthersKept(v, l) /\ sub[v][l].open /\ sub'[v][l].open
        /\ sub'[v][l].read = Nothing /\ UNCHANGED <<source, frames, modelVars>>
    BY <1>0, <1>3, BeginEffect, Zenon
  <2>2. ~(v > version)
    BY <1>0, <2>1, OpenIsDue, Zenon
  <2>3. version' = version /\ view' = view /\ source' = source /\ frames' = frames
    BY <2>1, Zenon DEF modelVars
  <2>4. DOMAIN Nothing = {}
    BY NewSubTypes, Zenon
  <2>5. v = version => InOrder(view'[l], frames'[v][l], sub'[v][l].read, source[l])
    BY <1>2, <2>1, <2>3, <2>4, ZenonT(60) DEF InOrder
  <2> QED
    BY <2>1, <2>2, <2>3, <2>5, OrderStream, ZenonT(60)
<1>4. ASSUME NEW g \in Function, EmitRead(v, l, g) PROVE OrderInv'
  <2>1. /\ SyncTypes' /\ OthersKept(v, l) /\ sub[v][l].open /\ sub'[v][l].open
        /\ g \notin DOMAIN sub[v][l].read
        /\ sub'[v][l].read = WithPool(sub[v][l].read, g, source[l][g])
        /\ UNCHANGED <<source, frames, modelVars>>
    BY <1>0, <1>4, ReadEffect, ZenonT(60)
  <2>2. ~(v > version)
    BY <1>0, <2>1, OpenIsDue, ZenonT(60)
  <2>3. version' = version /\ view' = view /\ source' = source /\ frames' = frames
    BY <2>1, Zenon DEF modelVars
  <2>4. v = version => InOrder(view[l], frames[v][l], sub'[v][l].read, source[l])
    BY <1>1, <1>2, <2>1, OrderReads, ZenonT(60)
  <2>5. v = version => InOrder(view'[l], frames'[v][l], sub'[v][l].read, source[l])
    BY <2>3, <2>4, Zenon
  <2> QED
    BY <2>1, <2>2, <2>3, <2>5, OrderStream, ZenonT(60)
<1>5. CASE EmitSend(v, l)
  <2>1. /\ SyncTypes' /\ OthersKept(v, l) /\ sub[v][l].open /\ sub'[v][l].open
        /\ DOMAIN sub[v][l].read = Function /\ sub'[v][l].read = Nothing
        /\ UNCHANGED <<source, modelVars>>
    BY <1>0, <1>5, SendEffect, ZenonT(60)
  <2>2. PICK x \in Frame : /\ frames'[v][l] = Append(frames[v][l], x)
                           /\ \A f \in DOMAIN x.caps : x.caps[f] = sub[v][l].read[f]
    <3>1. \E x \in Frame : Carries(x, v, l)
      BY <1>0, <1>5, SendEffect, Zenon
    <3> QED
      BY <3>1, Zenon DEF Carries
  <2>3. ~(v > version)
    BY <1>0, <2>1, OpenIsDue, Zenon
  <2>4. version' = version /\ view' = view /\ source' = source
    BY <2>1, Zenon DEF modelVars
  <2>5. v = version => InOrder(view[l], Append(frames[v][l], x), Nothing, source[l])
    BY <1>1, <1>2, <2>1, <2>2, OrderSends, ZenonT(60)
  <2>6. v = version => InOrder(view'[l], frames'[v][l], sub'[v][l].read, source[l])
    BY <2>1, <2>2, <2>4, <2>5, ZenonT(60)
  <2> QED
    BY <2>1, <2>3, <2>4, <2>6, OrderStream, ZenonT(60)
<1> QED
  BY <1>3, <1>4, <1>5, Zenon DEF Emit

\* Streams that begin, end or break, and frames received, keep the order; the
\* ingress never goes back.
LEMMA OrderReceive ==
    ASSUME OrderInv, NEW v \in Version, NEW l \in Leaf,
           Recv(v, l) \/ Dial(v, l) \/ RecvFails(v, l) \/ Break(v, l)
    PROVE  /\ OrderInv'
           /\ \A k \in Leaf, f \in Function : view'[k][f].ver >= view[k][f].ver
<1>0. SyncTypes /\ Untouched
  BY Zenon DEF OrderInv
<1>1. /\ view[l] \in [Function -> Entry] /\ source[l] \in [Function -> Entry]
      /\ frames[v][l] \in Seq(Frame) /\ sub[v][l] \in RoutingSubscriber /\ sub[v][l].read \in Partial
  BY <1>0, StreamTypes, ZenonT(60)
<1>2. v = version => InOrder(view[l], frames[v][l], sub[v][l].read, source[l])
  BY RoutingAssumption, SMTT(60) DEF OrderInv, Version
<1>3. \A k \in Leaf, f \in Function : view[k][f].ver \in Nat
  BY <1>0, Zenon DEF SyncTypes, Entry
<1>4. CASE Recv(v, l)
  <2>1. /\ SyncTypes' /\ OthersKept(v, l) /\ frames[v][l] # <<>>
        /\ frames'[v][l] = Tail(frames[v][l])
        /\ \A k \in Leaf : k # l => view'[k] = view[k]
        /\ UNCHANGED <<source, version, sub>>
    BY <1>0, <1>4, RecvEffect, ZenonT(60)
  <2>2. \/ v = version /\ view'[l] = Merge(view[l], Head(frames[v][l]))
        \/ view'[l] = view[l]
    BY <1>0, <1>4, RecvEffect, Zenon
  <2>3. v # version => view'[l] = view[l]
    BY <2>2, Zenon
  <2>4. ~(v > version)
    BY <1>0, <2>1, OpenIsDue, ZenonT(60)
  <2>5. ~sub[v][l].open => ~sub[v][l].busy /\ DOMAIN sub[v][l].read = {}
    BY <1>0, Zenon DEF Untouched
  <2>6. v = version => InOrder(view[l], Tail(frames[v][l]), sub[v][l].read, source[l])
    BY <1>1, <1>2, <2>1, OrderDrops, Zenon
  <2>7. v = version =>
          /\ InOrder(Merge(view[l], Head(frames[v][l])), Tail(frames[v][l]), sub[v][l].read, source[l])
          /\ \A f \in Function : Merge(view[l], Head(frames[v][l]))[f].ver >= view[l][f].ver
    BY <1>1, <1>2, <2>1, OrderMerges, ZenonT(60)
  <2>8. v = version => InOrder(view'[l], frames'[v][l], sub'[v][l].read, source[l])
    BY <2>1, <2>2, <2>6, <2>7, Zenon
  <2>9. OrderInv'
    BY <2>1, <2>3, <2>4, <2>5, <2>8, OrderStream, ZenonT(60)
  <2>10. ASSUME NEW k \in Leaf, NEW f \in Function PROVE view'[k][f].ver >= view[k][f].ver
    <3>1. CASE view'[k] = view[k]
      BY <1>3, <3>1, SMTT(60)
    <3>2. CASE view'[k] # view[k]
      BY <2>1, <2>2, <2>7, <3>2, Zenon
    <3> QED
      BY <3>1, <3>2, Zenon
  <2> QED
    BY <2>9, <2>10, Zenon
<1>5. CASE Dial(v, l) \/ RecvFails(v, l) \/ Break(v, l)
  <2>1. /\ SyncTypes' /\ OthersKept(v, l)
        /\ \/ sub'[v][l] = NewSub /\ frames'[v][l] = <<>> /\ v = version
           \/ /\ sub'[v][l] = NoSub
              /\ \E k \in 0..Len(frames[v][l]) : frames'[v][l] = SubSeq(frames[v][l], 1, k)
        /\ UNCHANGED <<source, modelVars>>
    BY <1>0, <1>5, CutEffect, ZenonT(60)
  <2>2. version' = version /\ view' = view /\ source' = source
    BY <2>1, ZenonT(60) DEF modelVars
  <2>3. /\ sub'[v][l].read = Nothing /\ DOMAIN Nothing = {} /\ ~sub'[v][l].busy
    BY <2>1, NewSubTypes, Zenon
  <2>4. v > version => ~sub'[v][l].open /\ frames'[v][l] = <<>>
    <3>1. CASE v > version
      <4>1. frames[v][l] = <<>>
        BY <1>0, <3>1, Zenon DEF Untouched
      <4>2. v # version
        BY <1>0, <3>1, RoutingAssumption, SMTT(60) DEF SyncTypes, Version
      <4>3. PICK k \in 0..Len(frames[v][l]) : frames'[v][l] = SubSeq(frames[v][l], 1, k)
        BY <2>1, <4>2, Zenon
      <4>4. k = 0 /\ SubSeq(<<>>, 1, 0) = <<>>
        BY <4>1, SMTT(60)
      <4> QED
        BY <2>1, <4>1, <4>2, <4>3, <4>4, NewSubTypes, ZenonT(60)
    <3> QED
      BY <3>1, Zenon
  <2>5. ASSUME v = version
        PROVE  InOrder(view'[l], frames'[v][l], sub'[v][l].read, source[l])
    <3>1. InOrder(view[l], frames[v][l], sub[v][l].read, source[l])
      BY <1>2, <2>5, ZenonT(60)
    <3>2. \A k \in 0..Len(frames[v][l]) :
            /\ InOrder(view[l], SubSeq(frames[v][l], 1, k), Nothing, source[l])
            /\ InOrder(view[l], <<>>, Nothing, source[l])
      BY <1>1, <2>3, <3>1, OrderCut, ZenonT(60)
    <3>3. 0 \in 0..Len(frames[v][l])
      BY <1>1, SMTT(60)
    <3> QED
      BY <2>1, <2>2, <2>3, <3>2, <3>3, ZenonT(60)
  <2>6. OrderInv'
    BY <2>1, <2>2, <2>3, <2>4, <2>5, OrderStream, ZenonT(60)
  <2> QED
    BY <1>3, <2>2, <2>6, SMTT(60)
<1> QED
  BY <1>4, <1>5, Zenon

\* Every step keeps the order of history, and the ingress never goes back.
LEMMA OrderStep ==
    ASSUME OrderInv, [Next]_vars
    PROVE  /\ OrderInv'
           /\ version' = version =>
                \A k \in Leaf, f \in Function : view'[k][f].ver >= view[k][f].ver
<1>0. SyncTypes /\ Untouched
  BY Zenon DEF OrderInv
<1>1. \A k \in Leaf, f \in Function : view[k][f].ver \in Nat
  BY <1>0, Zenon DEF SyncTypes, Entry
<1>2. view' = view => \A k \in Leaf, f \in Function : view'[k][f].ver >= view[k][f].ver
  BY <1>1, SMTT(60)
<1>3. CASE UNCHANGED syncVars
  <2>1. /\ source' = source /\ view' = view /\ workers' = workers /\ revision' = revision
        /\ lastRevision' = lastRevision /\ version' = version /\ sub' = sub /\ frames' = frames
    BY <1>3, Zenon DEF syncVars
  <2>2. OrderInv'
    BY <2>1, Zenon DEF OrderInv, SyncTypes, Untouched
  <2> QED
    BY <1>2, <2>1, <2>2, Zenon
<1>4. ASSUME SyncTypes', Untouched', version' = version, view' = view, frames' = frames,
             \A k \in Leaf, f \in Function : source[k][f].ver <= source'[k][f].ver,
             \A w \in Version, k \in Leaf : \/ sub'[w][k].read = sub[w][k].read
                                            \/ DOMAIN sub'[w][k].read = {}
      PROVE  OrderInv'
  <2>1. ASSUME version # 0, NEW k \in Leaf
        PROVE  InOrder(view[k], frames[version][k], sub'[version][k].read, source'[k])
    <3>1. version \in Version
      BY <1>0, <2>1, Zenon DEF SyncTypes
    <3>2. /\ view[k] \in [Function -> Entry] /\ source[k] \in [Function -> Entry]
          /\ frames[version][k] \in Seq(Frame) /\ sub[version][k].read \in Partial
      BY <1>0, <3>1, StreamTypes, Zenon
    <3>3. source'[k] \in [Function -> Entry]
      BY <1>4, Zenon DEF SyncTypes
    <3>4. InOrder(view[k], frames[version][k], sub[version][k].read, source[k])
      BY <2>1, Zenon DEF OrderInv
    <3>5. \A f \in Function : source[k][f].ver <= source'[k][f].ver
      BY <1>4, Zenon
    <3>6. InOrder(view[k], frames[version][k], sub[version][k].read, source'[k])
      BY <3>2, <3>3, <3>4, <3>5, OrderGrows, Zenon
    <3>7. CASE sub'[version][k].read = sub[version][k].read
      BY <3>6, <3>7, Zenon
    <3>8. CASE DOMAIN sub'[version][k].read = {}
      BY <3>6, <3>8, ZenonT(60) DEF InOrder
    <3> QED
      BY <1>4, <3>1, <3>7, <3>8, Zenon
  <2> QED
    BY <1>4, <2>1, Zenon DEF OrderInv
<1>5. ASSUME NEW l \in Leaf,
             SetWorkers(l) \/ \E f \in Function, c \in Capacity \cup {Absent} : SetCapacity(l, f, c)
      PROVE  OrderInv' /\ view' = view
  <2>1. /\ source' \in [Leaf -> [Function -> Entry]] /\ workers' \in [Leaf -> BOOLEAN]
        /\ \A k \in Leaf, f \in Function : source[k][f].ver <= source'[k][f].ver
        /\ UNCHANGED <<revision, sub, frames, modelVars>>
    BY <1>0, <1>5, ChangeEffect, ZenonT(60)
  <2>2. version' = version /\ view' = view /\ lastRevision' = lastRevision
    BY <2>1, Zenon DEF modelVars
  <2>3. SyncTypes' /\ Untouched'
    BY <1>0, <2>1, <2>2, Zenon DEF SyncTypes, Untouched
  <2> QED
    BY <1>4, <2>1, <2>2, <2>3, ZenonT(60)
<1>6. ASSUME NEW l \in Leaf, PublishHeartbeat(l) PROVE OrderInv' /\ view' = view
  <2>1. /\ sub' \in [Version -> [Leaf -> RoutingSubscriber]]
        /\ \A w \in Version, k \in Leaf :
             /\ sub'[w][k].open = sub[w][k].open /\ sub'[w][k].busy = sub[w][k].busy
             /\ sub'[w][k].read = sub[w][k].read
        /\ UNCHANGED <<source, workers, revision, frames, modelVars>>
    BY <1>0, <1>6, HeartbeatEffect, Zenon
  <2>2. version' = version /\ view' = view /\ lastRevision' = lastRevision
    BY <2>1, ZenonT(60) DEF modelVars
  <2>3. SyncTypes' /\ Untouched'
    <3>1. SyncTypes'
      BY <1>0, <2>1, <2>2, Zenon DEF SyncTypes
    <3>2. ASSUME NEW v \in Version, NEW k \in Leaf
          PROVE  /\ ~sub'[v][k].open => ~sub'[v][k].busy /\ DOMAIN sub'[v][k].read = {}
                 /\ v > version' => ~sub'[v][k].open /\ frames'[v][k] = <<>>
      <4>1. /\ ~sub[v][k].open => ~sub[v][k].busy /\ DOMAIN sub[v][k].read = {}
            /\ v > version => ~sub[v][k].open /\ frames[v][k] = <<>>
        BY <1>0, Zenon DEF Untouched
      <4>2. /\ sub'[v][k].open = sub[v][k].open /\ sub'[v][k].busy = sub[v][k].busy
            /\ sub'[v][k].read = sub[v][k].read /\ frames'[v][k] = frames[v][k]
        BY <2>1, Zenon
      <4> QED
        BY <4>1, <4>2, <2>2, ZenonT(60)
    <3> QED
      BY <3>1, <3>2, Zenon DEF Untouched
  <2>4. \A k \in Leaf, f \in Function : source[k][f].ver <= source'[k][f].ver
    BY <1>0, <2>1, SMTT(60) DEF SyncTypes, Entry
  <2> QED
    BY <1>4, <2>1, <2>2, <2>3, <2>4, Zenon
<1>7. ASSUME NEW l \in Leaf, Restart(l) PROVE OrderInv' /\ view' = view
  <2>1. /\ sub' \in [Version -> [Leaf -> RoutingSubscriber]]
        /\ \A w \in Version, k \in Leaf : sub'[w][k] = IF k = l THEN NoSub ELSE sub[w][k]
        /\ source' \in [Leaf -> [Function -> Entry]]
        /\ \A k \in Leaf, f \in Function : source[k][f].ver <= source'[k][f].ver
        /\ revision' \in [Leaf -> Nat] /\ workers' \in [Leaf -> BOOLEAN]
        /\ UNCHANGED <<frames, modelVars>>
    BY <1>0, <1>7, RestartEffect, ZenonT(60)
  <2>2. version' = version /\ view' = view /\ lastRevision' = lastRevision /\ frames' = frames
    BY <2>1, Zenon DEF modelVars
  <2>3. ~NoSub.open /\ ~NoSub.busy /\ DOMAIN NoSub.read = {}
    BY NewSubTypes, Zenon
  <2>4. SyncTypes'
    BY <1>0, <2>1, <2>2, Zenon DEF SyncTypes
  <2>5. ASSUME NEW v \in Version, NEW k \in Leaf
        PROVE  /\ ~sub'[v][k].open => ~sub'[v][k].busy /\ DOMAIN sub'[v][k].read = {}
               /\ v > version' => ~sub'[v][k].open /\ frames'[v][k] = <<>>
    <3>1. /\ ~sub[v][k].open => ~sub[v][k].busy /\ DOMAIN sub[v][k].read = {}
          /\ v > version => ~sub[v][k].open /\ frames[v][k] = <<>>
      BY <1>0, Zenon DEF Untouched
    <3>2. sub'[v][k] = NoSub \/ sub'[v][k] = sub[v][k]
      BY <2>1, Zenon
    <3> QED
      BY <2>2, <2>3, <3>1, <3>2, ZenonT(60)
  <2>6. \A w \in Version, k \in Leaf : \/ sub'[w][k].read = sub[w][k].read
                                       \/ DOMAIN sub'[w][k].read = {}
    BY <2>1, <2>3, Zenon
  <2> QED
    <3>1. Untouched'
      BY <2>5, Zenon DEF Untouched
    <3> QED
      BY <1>4, <2>1, <2>2, <2>4, <2>6, <3>1, ZenonT(60)
<1>8. ASSUME NEW v \in Version, ApplyConfigBegin(v) PROVE OrderInv' /\ version' # version
  <2>1. /\ SyncTypes' /\ Untouched' /\ v > version /\ version' = v
        /\ \A l \in Leaf :
             /\ view'[l] = Blank
             /\ DOMAIN sub[v][l].read = {} /\ frames[v][l] = <<>>
        /\ UNCHANGED <<source, sub, frames>>
    BY <1>0, <1>8, BeginConfig, Zenon
  <2>2. ASSUME NEW k \in Leaf PROVE InOrder(Blank, frames[v][k], sub[v][k].read, source[k])
    <3>1. Blank \in [Function -> Entry] /\ \A f \in Function : Blank[f].ver = 0
      BY NewSubTypes, Zenon DEF Blank
    <3>2. source[k] \in [Function -> Entry]
      BY <1>0, Zenon DEF SyncTypes
    <3>3. \A f \in Function : Blank[f].ver <= source[k][f].ver
      BY <3>1, <3>2, SMTT(60) DEF Entry
    <3> QED
      BY <2>1, <3>1, <3>2, <3>3, OrderEmpty, ZenonT(60)
  <2>3. v # version
    BY <1>0, <2>1, RoutingAssumption, SMTT(60) DEF SyncTypes, Version
  <2> QED
    BY <2>1, <2>2, <2>3, ZenonT(60) DEF OrderInv
<1>9. ASSUME NEW v \in Version, NEW l \in Leaf, Emit(v, l) PROVE OrderInv' /\ view' = view
  <2>1. view' = view
    BY <1>9, ZenonT(60) DEF Emit, EmitBegin, EmitRead, EmitSend, modelVars
  <2> QED
    BY <1>9, <2>1, OrderEmit, Zenon
<1>10. ASSUME NEW v \in Version, NEW l \in Leaf, Stream(v, l) \/ Break(v, l) \/ ApplyConfigEnd
       PROVE  \/ UNCHANGED syncVars
              \/ OrderInv' /\ \A k \in Leaf, f \in Function : view'[k][f].ver >= view[k][f].ver
  <2>1. CASE Recv(v, l) \/ Dial(v, l) \/ RecvFails(v, l) \/ Break(v, l)
    BY <2>1, OrderReceive, Zenon
  <2>2. CASE \/ DialFails(v, l) \/ SessionEnded(v, l) \/ MarkUnhealthy(v, l)
             \/ Backoff(v, l) \/ StreamQuit(v, l) \/ ApplyConfigEnd
    BY <2>2, SyncQuiet, Zenon
  <2> QED
    BY <1>10, <2>1, <2>2, Zenon DEF Stream
<1>11. ApplyConfigEnd \/ UNCHANGED vars => UNCHANGED syncVars
  BY Zenon DEF ApplyConfigEnd, vars, syncVars, leafVars, modelVars
<1> QED
  BY <1>2, <1>3, <1>5, <1>6, <1>7, <1>8, <1>9, <1>10, <1>11, ZenonT(60) DEF Next

\* The initial state.
LEMMA SyncInit ==
    ASSUME Init PROVE SyncTypes /\ Untouched
<1>1. SyncTypes
  BY NewSubTypes, SMTT(60) DEF Init, SyncTypes
<1>2. Untouched
  BY NewSubTypes, Zenon DEF Init, Untouched
<1> QED
  BY <1>1, <1>2, Zenon

\* Under one configuration the ingress never replaces what it knows of a
\* function by something older, for every number of leaves, of reloads, of leaf
\* restarts and of streams that break and lose frames (onFrame, emit).
THEOREM IngressNeverGoesBack == Spec => NeverGoesBack
<1>1. Init => OrderInv
  BY SyncInit, ZenonT(60) DEF OrderInv, Init
<1>2. OrderInv /\ [Next]_vars => OrderInv'
  BY OrderStep, Zenon
<1>3. OrderInv /\ [Next]_vars =>
        [version' = version =>
           \A l \in Leaf, f \in Function : view'[l][f].ver >= view[l][f].ver]_vars
  BY OrderStep, Zenon
<1> QED
  BY <1>1, <1>2, <1>3, PTL DEF Spec, NeverGoesBack

----------------------------------------------------------------------------
(* No update is lost.                                                      *)

\* The numbers of the frames of a stream.
LEMMA FrameNumbers ==
    ASSUME NEW q \in Seq(Frame) PROVE Len(q) \in Nat /\ \A i \in 1..Len(q) : q[i].rev \in Nat
  BY DEF Frame

\* The counter of the leaf grows, and emit takes the next number.
LEMMA RiseGrows ==
    ASSUME NEW last \in Nat, NEW q \in Seq(Frame), NEW s \in RoutingSubscriber, NEW rev \in Nat,
           FramesRise(last, q, s, rev), NEW more \in Nat, rev <= more, NEW t,
           \/ t.busy = s.busy /\ t.rev = s.rev
           \/ ~t.busy
           \/ t.busy /\ t.rev = more /\ rev < more
    PROVE  FramesRise(last, q, t, more)
<1>1. Len(q) \in Nat /\ (\A i \in 1..Len(q) : q[i].rev \in Nat) /\ s.rev \in Nat
  BY FrameNumbers, Zenon DEF RoutingSubscriber
<1>2. last <= more /\ \A i \in 1..Len(q) : last < q[i].rev /\ q[i].rev <= more
  BY <1>1, SMTT(60) DEF FramesRise
<1>3. \A i, j \in 1..Len(q) : i < j => q[i].rev < q[j].rev
  BY Zenon DEF FramesRise
<1>4. ASSUME t.busy PROVE t.rev <= more /\ last < t.rev /\ \A i \in 1..Len(q) : q[i].rev < t.rev
  <2>1. CASE t.busy = s.busy /\ t.rev = s.rev
    BY <1>1, <1>4, <2>1 DEF FramesRise
  <2>2. CASE t.rev = more /\ rev < more
    BY <1>1, <2>2, SMTT(60) DEF FramesRise
  <2> QED
    BY <1>4, <2>1, <2>2, Zenon
<1> QED
  BY <1>2, <1>3, <1>4, Zenon DEF FramesRise

\* Emit sends its frame.
LEMMA RiseSends ==
    ASSUME NEW last \in Nat, NEW q \in Seq(Frame), NEW s \in RoutingSubscriber, NEW rev \in Nat,
           FramesRise(last, q, s, rev), s.busy, NEW x \in Frame, x.rev = s.rev, NEW t, ~t.busy
    PROVE  FramesRise(last, Append(q, x), t, rev)
<1> DEFINE p == Append(q, x)
<1>1. Len(q) \in Nat /\ (\A i \in 1..Len(q) : q[i].rev \in Nat) /\ x.rev \in Nat
  BY FrameNumbers, Zenon DEF Frame
<1>2. Len(p) = Len(q) + 1 /\ p[Len(q) + 1] = x /\ \A i \in 1..Len(q) : p[i] = q[i]
  BY SMTT(60)
<1>3. /\ last <= rev
      /\ \A i \in 1..Len(q) : last < q[i].rev /\ q[i].rev <= rev /\ q[i].rev < x.rev
      /\ \A i, j \in 1..Len(q) : i < j => q[i].rev < q[j].rev
      /\ x.rev <= rev /\ last < x.rev
  BY Zenon DEF FramesRise
<1> HIDE DEF p
<1>4. \A i \in 1..Len(p) : i \in 1..Len(q) \/ i = Len(q) + 1
  BY <1>1, <1>2
<1>5. \A i \in 1..Len(p) : last < p[i].rev /\ p[i].rev <= rev
  BY <1>2, <1>3, <1>4, Zenon
<1>6. ASSUME NEW i \in 1..Len(p), NEW j \in 1..Len(p), i < j PROVE p[i].rev < p[j].rev
  <2>1. i \in 1..Len(q)
    BY <1>1, <1>2, <1>6, SMTT(60)
  <2>2. CASE j \in 1..Len(q)
    BY <1>2, <1>3, <1>6, <2>1, <2>2, Zenon
  <2>3. CASE j = Len(q) + 1
    BY <1>2, <1>3, <2>1, <2>3, Zenon
  <2> QED
    BY <1>4, <2>2, <2>3, Zenon
<1>7. FramesRise(last, p, t, rev)
  BY <1>3, <1>5, <1>6, Zenon DEF FramesRise
<1> QED
  BY <1>7, Zenon DEF p

\* The ingress accepts the first frame, whatever it is.
LEMMA RiseReceives ==
    ASSUME NEW last \in Nat, NEW q \in Seq(Frame), NEW s \in RoutingSubscriber, NEW rev \in Nat,
           FramesRise(last, q, s, rev), q # <<>>
    PROVE  Head(q).rev > last /\ FramesRise(Head(q).rev, Tail(q), s, rev)
<1> DEFINE p == Tail(q)
           n == q[1].rev
<1>1. Len(q) \in Nat /\ (\A i \in 1..Len(q) : q[i].rev \in Nat) /\ s.rev \in Nat
  BY FrameNumbers, Zenon DEF RoutingSubscriber
<1>2. /\ Head(q) = q[1] /\ 1 \in 1..Len(q) /\ Len(p) = Len(q) - 1
      /\ \A i \in 1..Len(p) : p[i] = q[i + 1] /\ i + 1 \in 1..Len(q) /\ 1 < i + 1
  BY SMTT(60)
<1>3. n \in Nat /\ n > last /\ n <= rev
  BY <1>1, <1>2, Zenon DEF FramesRise
<1> HIDE DEF p
<1>4. \A i \in 1..Len(p) : n < p[i].rev /\ p[i].rev <= rev
  <2> SUFFICES ASSUME NEW i \in 1..Len(p) PROVE n < p[i].rev /\ p[i].rev <= rev
    BY Zenon
  <2>1. PICK m \in 1..Len(q) : m = i + 1 /\ p[i] = q[m] /\ 1 < m
    BY <1>2, Zenon
  <2> QED
    BY <1>2, <2>1, Zenon DEF FramesRise
<1>5. ASSUME NEW i \in 1..Len(p), NEW j \in 1..Len(p), i < j PROVE p[i].rev < p[j].rev
  <2>1. PICK a \in 1..Len(q) : a = i + 1 /\ p[i] = q[a]
    BY <1>2, Zenon
  <2>2. PICK b \in 1..Len(q) : b = j + 1 /\ p[j] = q[b]
    BY <1>2, Zenon
  <2>3. a < b
    BY <1>1, <1>2, <1>5, <2>1, <2>2, SMTT(60)
  <2> QED
    BY <2>1, <2>2, <2>3, Zenon DEF FramesRise
<1>6. ASSUME s.busy PROVE s.rev <= rev /\ n < s.rev /\ \A i \in 1..Len(p) : p[i].rev < s.rev
  BY <1>2, <1>6, Zenon DEF FramesRise
<1> HIDE DEF n
<1>7. FramesRise(n, p, s, rev)
  BY <1>3, <1>4, <1>5, <1>6, Zenon DEF FramesRise
<1> QED
  BY <1>2, <1>3, <1>7, Zenon DEF p, n

\* A stream is cut short.
LEMMA RiseCut ==
    ASSUME NEW last \in Nat, NEW q \in Seq(Frame), NEW s \in RoutingSubscriber, NEW rev \in Nat,
           last <= rev, NEW t, ~t.busy
    PROVE  /\ FramesRise(last, <<>>, t, rev)
           /\ FramesRise(last, q, s, rev) => \A k \in 0..Len(q) : FramesRise(last, SubSeq(q, 1, k), t, rev)
<1>1. Len(<<>>) = 0 /\ 1..0 = {}
  BY SMTT(60)
<1>2. FramesRise(last, <<>>, t, rev)
  BY <1>1, Zenon DEF FramesRise
<1>3. ASSUME FramesRise(last, q, s, rev), NEW k \in 0..Len(q) PROVE FramesRise(last, SubSeq(q, 1, k), t, rev)
  <2> DEFINE p == SubSeq(q, 1, k)
  <2>1. Len(p) = k /\ \A i \in 1..k : p[i] = q[i] /\ i \in 1..Len(q)
    BY SMTT(60)
  <2> HIDE DEF p
  <2>2. FramesRise(last, p, t, rev)
    BY <1>3, <2>1, Zenon DEF FramesRise
  <2> QED
    BY <2>2, Zenon DEF p
<1> QED
  BY <1>2, <1>3, Zenon

\* What a sent frame says of a function is the last word; what it does not
\* mention was last said to be the same.
LEMMA LastWordSends ==
    ASSUME NEW seen, NEW q \in Seq(Frame), NEW x \in Frame, NEW f, NEW c,
           \/ f \in DOMAIN x.caps /\ x.caps[f].cap = c
           \/ f \notin DOMAIN x.caps /\ LastWord(seen, q, f, c)
    PROVE  LastWord(seen, Append(q, x), f, c)
<1> DEFINE p == Append(q, x)
           n == Len(q) + 1
<1>1. /\ Len(q) \in Nat /\ Len(p) = n /\ p[n] = x /\ n \in 1..Len(p)
      /\ \A i \in 1..Len(q) : p[i] = q[i] /\ i \in 1..Len(p) /\ i # n
      /\ \A i \in 1..Len(p) : i \in 1..Len(q) \/ i = n
      /\ \A j \in 1..Len(p) : ~(n < j)
  BY SMTT(60)
<1> HIDE DEF p, n
<1>2. CASE f \in DOMAIN x.caps /\ x.caps[f].cap = c
  <2>1. f \in DOMAIN p[n].caps /\ p[n].caps[f].cap = c
    BY <1>1, <1>2, Zenon
  <2>2. LastWord(seen, p, f, c)
    BY <1>1, <2>1, ZenonT(60) DEF LastWord
  <2> QED
    BY <2>2, Zenon DEF p
<1>3. CASE f \notin DOMAIN x.caps /\ LastWord(seen, q, f, c)
  <2>1. CASE (\A i \in 1..Len(q) : f \notin DOMAIN q[i].caps) /\ seen[f].cap = c
    <3>1. \A i \in 1..Len(p) : f \notin DOMAIN p[i].caps
      BY <1>1, <1>3, <2>1, Zenon
    <3> QED
      BY <2>1, <3>1, ZenonT(60) DEF LastWord, p
  <2>2. CASE \E i \in 1..Len(q) : /\ f \in DOMAIN q[i].caps /\ q[i].caps[f].cap = c
                                  /\ \A j \in 1..Len(q) : i < j => f \notin DOMAIN q[j].caps
    <3>1. PICK i \in 1..Len(q) : /\ f \in DOMAIN q[i].caps /\ q[i].caps[f].cap = c
                                 /\ \A j \in 1..Len(q) : i < j => f \notin DOMAIN q[j].caps
      BY <2>2, Zenon
    <3>2. f \in DOMAIN p[i].caps /\ p[i].caps[f].cap = c /\ i \in 1..Len(p)
      BY <1>1, <3>1, Zenon
    <3>3. \A j \in 1..Len(p) : i < j => f \notin DOMAIN p[j].caps
      BY <1>1, <1>3, <3>1, Zenon
    <3> QED
      BY <3>2, <3>3, Zenon DEF LastWord, p
  <2> QED
    BY <1>3, <2>1, <2>2, ZenonT(60) DEF LastWord
<1> QED
  BY <1>2, <1>3, Zenon

\* Merging the first frame leaves the last word what it was.
LEMMA LastWordReceives ==
    ASSUME NEW seen \in [Function -> Entry], NEW q \in Seq(Frame), q # <<>>, NEW f \in Function, NEW c,
           LastWord(seen, q, f, c)
    PROVE  LastWord(Merge(seen, Head(q)), Tail(q), f, c)
<1> DEFINE p == Tail(q)
           now == Merge(seen, Head(q))
<1>1. /\ Len(q) \in Nat /\ Head(q) = q[1] /\ q[1] \in Frame /\ 1 \in 1..Len(q) /\ Len(p) = Len(q) - 1
      /\ \A i \in 1..Len(p) : p[i] = q[i + 1] /\ i + 1 \in 1..Len(q) /\ 1 < i + 1
  BY SMTT(60)
<1>2. now[f] = IF f \in DOMAIN q[1].caps THEN q[1].caps[f] ELSE seen[f]
  BY <1>1, MergeIs, SMTT(60)
<1> HIDE DEF p, now
<1>3. CASE (\A i \in 1..Len(q) : f \notin DOMAIN q[i].caps) /\ seen[f].cap = c
  <2>1. now[f].cap = c
    BY <1>1, <1>2, <1>3, Zenon
  <2>2. \A i \in 1..Len(p) : f \notin DOMAIN p[i].caps
    BY <1>1, <1>3, Zenon
  <2> QED
    BY <2>1, <2>2, Zenon DEF LastWord, p, now
<1>4. CASE \E i \in 1..Len(q) : /\ f \in DOMAIN q[i].caps /\ q[i].caps[f].cap = c
                                /\ \A j \in 1..Len(q) : i < j => f \notin DOMAIN q[j].caps
  <2>1. PICK i \in 1..Len(q) : /\ f \in DOMAIN q[i].caps /\ q[i].caps[f].cap = c
                               /\ \A j \in 1..Len(q) : i < j => f \notin DOMAIN q[j].caps
    BY <1>4, Zenon
  <2>2. CASE i = 1
    <3>1. now[f].cap = c
      BY <1>2, <2>1, <2>2, Zenon
    <3>2. \A j \in 1..Len(p) : f \notin DOMAIN p[j].caps
      BY <1>1, <2>1, <2>2, Zenon
    <3> QED
      BY <3>1, <3>2, Zenon DEF LastWord, p, now
  <2>3. CASE i # 1
    <3>1. PICK h \in 1..Len(p) : i = h + 1
      <4>1. i - 1 \in 1..Len(p) /\ i = (i - 1) + 1
        BY <1>1, <2>3, SMTT(60)
      <4> QED
        BY <4>1, Zenon
    <3>2. p[h] = q[i]
      BY <1>1, <3>1, Zenon
    <3>3. ASSUME NEW j \in 1..Len(p), h < j PROVE f \notin DOMAIN p[j].caps
      <4>1. PICK b \in 1..Len(q) : b = j + 1 /\ p[j] = q[b]
        BY <1>1, Zenon
      <4>2. i < b
        BY <1>1, <3>1, <3>3, <4>1, SMTT(60)
      <4> QED
        BY <2>1, <4>1, <4>2, Zenon
    <3>4. f \in DOMAIN p[h].caps /\ p[h].caps[f].cap = c
      BY <2>1, <3>2, Zenon
    <3> QED
      BY <3>3, <3>4, Zenon DEF LastWord, p, now
  <2> QED
    BY <2>2, <2>3, Zenon
<1> QED
  BY <1>3, <1>4, Zenon DEF LastWord

\* A step of one stream, at which the counter of its leaf may grow.
LEMMA TellStream ==
    ASSUME TellInv, NEW v \in Version, NEW l \in Leaf, SyncTypes', OthersKept(v, l),
           version' = version, restarts' = restarts,
           \A k \in Leaf : k # l =>
             view'[k] = view[k] /\ lastRevision'[k] = lastRevision[k] /\ revision'[k] = revision[k],
           v # version => view'[l] = view[l] /\ lastRevision'[l] = lastRevision[l],
           revision[l] <= revision'[l], lastRevision'[l] <= revision'[l],
           ~sub'[v][l].open => ~sub'[v][l].busy /\ DOMAIN sub'[v][l].read = {},
           v > version => ~sub'[v][l].open /\ frames'[v][l] = <<>>,
           v = version => /\ FramesRise(lastRevision'[l], frames'[v][l], sub'[v][l], revision'[l])
                          /\ Tells(view'[l], frames'[v][l], sub'[v][l])
    PROVE  TellInv'
<1>1. Untouched'
  BY SMTT(60) DEF TellInv, Untouched, OthersKept
<1>2. \A k \in Leaf : lastRevision'[k] <= revision'[k]
  BY Zenon DEF TellInv
<1>3. ASSUME version # 0, NEW k \in Leaf
      PROVE  /\ FramesRise(lastRevision'[k], frames'[version][k], sub'[version][k], revision'[k])
             /\ Tells(view'[k], frames'[version][k], sub'[version][k])
  <2>1. /\ version \in Version
        /\ FramesRise(lastRevision[k], frames[version][k], sub[version][k], revision[k])
        /\ Tells(view[k], frames[version][k], sub[version][k])
    BY <1>3, ZenonT(60) DEF TellInv, SyncTypes
  <2>2. CASE k = l /\ v = version
    BY <2>2, ZenonT(60)
  <2>3. CASE k # l
    <3>1. frames'[version][k] = frames[version][k] /\ sub'[version][k] = sub[version][k]
      BY <2>1, <2>3, ZenonT(60) DEF OthersKept
    <3> QED
      BY <2>1, <2>3, <3>1, ZenonT(60)
  <2>4. CASE k = l /\ v # version
    <3>1. frames'[version][k] = frames[version][k] /\ sub'[version][k] = sub[version][k]
      BY <2>1, <2>4, ZenonT(60) DEF OthersKept
    <3>2. /\ lastRevision[k] \in Nat /\ revision[k] \in Nat /\ frames[version][k] \in Seq(Frame)
          /\ sub[version][k] \in RoutingSubscriber
      BY <2>1, StreamTypes, ZenonT(60) DEF TellInv
    <3>3. revision'[k] \in Nat
      BY ZenonT(60) DEF SyncTypes
    <3>4. FramesRise(lastRevision[k], frames[version][k], sub[version][k], revision'[k])
      BY <2>1, <2>4, <3>2, <3>3, RiseGrows, ZenonT(60)
    <3> QED
      BY <2>1, <2>4, <3>1, <3>4, ZenonT(60)
  <2> QED
    BY <2>2, <2>3, <2>4, ZenonT(60)
<1> QED
  BY <1>1, <1>2, <1>3, ZenonT(60) DEF TellInv

\* Every step of emit.
LEMMA TellEmit ==
    ASSUME TellInv, NEW v \in Version, NEW l \in Leaf, Emit(v, l) PROVE TellInv'
<1>0. SyncTypes /\ Untouched /\ lastRevision[l] <= revision[l]
  BY ZenonT(60) DEF TellInv
<1>1. /\ view[l] \in [Function -> Entry] /\ frames[v][l] \in Seq(Frame)
      /\ sub[v][l] \in RoutingSubscriber /\ revision[l] \in Nat /\ lastRevision[l] \in Nat
  BY <1>0, StreamTypes, ZenonT(60)
<1>2. v = version => /\ FramesRise(lastRevision[l], frames[v][l], sub[v][l], revision[l])
                     /\ Tells(view[l], frames[v][l], sub[v][l])
  BY RoutingAssumption, SMTT(60) DEF TellInv, Version
<1>3. CASE EmitBegin(v, l)
  <2>1. /\ SyncTypes' /\ OthersKept(v, l) /\ sub[v][l].open /\ sub'[v][l].open
        /\ sub'[v][l].first = sub[v][l].first /\ sub'[v][l].sent = sub[v][l].sent
        /\ sub'[v][l].busy /\ sub'[v][l].rev = revision[l] + 1
        /\ revision' = [revision EXCEPT ![l] = @ + 1]
        /\ UNCHANGED <<restarts, frames, modelVars>>
    BY <1>0, <1>3, BeginEffect, ZenonT(60)
  <2>2. ~(v > version)
    BY <1>0, <2>1, OpenIsDue, ZenonT(60)
  <2>3. version' = version /\ view' = view /\ lastRevision' = lastRevision /\ frames' = frames
    BY <2>1, Zenon DEF modelVars
  <2>4. /\ revision'[l] = revision[l] + 1 /\ \A k \in Leaf : k # l => revision'[k] = revision[k]
    BY <1>0, <2>1, Zenon DEF SyncTypes
  <2>5. revision'[l] \in Nat /\ revision[l] <= revision'[l] /\ revision[l] < revision'[l]
        /\ lastRevision[l] <= revision'[l]
    BY <1>0, <1>1, <2>4, SMTT(60)
  <2>6. v = version => FramesRise(lastRevision[l], frames[v][l], sub'[v][l], revision'[l])
    BY <1>1, <1>2, <2>1, <2>4, <2>5, RiseGrows, ZenonT(60)
  <2>7. v = version => Tells(view[l], frames[v][l], sub'[v][l])
    BY <1>2, <2>1, ZenonT(60) DEF Tells
  <2> QED
    BY <2>1, <2>2, <2>3, <2>4, <2>5, <2>6, <2>7, TellStream, ZenonT(60)
<1>4. ASSUME NEW g \in Function, EmitRead(v, l, g) PROVE TellInv'
  <2>1. /\ SyncTypes' /\ OthersKept(v, l) /\ sub[v][l].open /\ sub'[v][l].open
        /\ sub'[v][l].first = sub[v][l].first /\ sub'[v][l].sent = sub[v][l].sent
        /\ sub'[v][l].busy = sub[v][l].busy /\ sub'[v][l].rev = sub[v][l].rev
        /\ UNCHANGED <<revision, restarts, frames, modelVars>>
    BY <1>0, <1>4, ReadEffect, ZenonT(60)
  <2>2. ~(v > version)
    BY <1>0, <2>1, OpenIsDue, ZenonT(60)
  <2>3. version' = version /\ view' = view /\ lastRevision' = lastRevision /\ frames' = frames
        /\ revision' = revision
    BY <2>1, Zenon DEF modelVars
  <2>4. revision[l] <= revision[l]
    BY <1>1, SMTT(60)
  <2>5. v = version => FramesRise(lastRevision[l], frames[v][l], sub'[v][l], revision[l])
    BY <1>1, <1>2, <2>1, <2>4, RiseGrows, ZenonT(60)
  <2>6. v = version => Tells(view[l], frames[v][l], sub'[v][l])
    BY <1>2, <2>1, ZenonT(60) DEF Tells
  <2> QED
    BY <1>0, <2>1, <2>2, <2>3, <2>4, <2>5, <2>6, TellStream, ZenonT(60)
<1>5. CASE EmitSend(v, l)
  <2>1. /\ SyncTypes' /\ OthersKept(v, l) /\ sub[v][l].open /\ sub[v][l].busy
        /\ sub'[v][l].open /\ ~sub'[v][l].first /\ ~sub'[v][l].busy
        /\ sub'[v][l].sent = sub[v][l].read
        /\ UNCHANGED <<revision, restarts, modelVars>>
    BY <1>0, <1>5, SendEffect, ZenonT(60)
  <2>2. PICK x \in Frame : Carries(x, v, l)
    BY <1>0, <1>5, SendEffect, ZenonT(60)
  <2>3. ~(v > version)
    BY <1>0, <2>1, OpenIsDue, Zenon
  <2>4. version' = version /\ view' = view /\ lastRevision' = lastRevision /\ revision' = revision
    BY <2>1, ZenonT(60) DEF modelVars
  <2>5. frames'[v][l] = Append(frames[v][l], x) /\ x.rev = sub[v][l].rev
    BY <2>2, Zenon DEF Carries
  <2>6. v = version => FramesRise(lastRevision[l], frames'[v][l], sub'[v][l], revision[l])
    BY <1>1, <1>2, <2>1, <2>5, RiseSends, ZenonT(60)
  <2>7. ASSUME v = version PROVE Tells(view[l], frames'[v][l], sub'[v][l])
    <3>1. ASSUME NEW f \in Function
          PROVE  LastWord(view[l], Append(frames[v][l], x), f, sub[v][l].read[f].cap)
      <4>1. CASE f \in DOMAIN x.caps
        <5>1. x.caps[f].cap = sub[v][l].read[f].cap
          BY <2>2, <4>1, ZenonT(60) DEF Carries
        <5> QED
          BY <1>1, <4>1, <5>1, LastWordSends, ZenonT(60)
      <4>2. CASE f \notin DOMAIN x.caps
        <5>1. ~sub[v][l].first /\ sub[v][l].sent[f].cap = sub[v][l].read[f].cap
          BY <2>2, <4>2, ZenonT(60) DEF Carries
        <5>2. LastWord(view[l], frames[v][l], f, sub[v][l].sent[f].cap)
          BY <1>2, <2>1, <2>7, <5>1, ZenonT(60) DEF Tells
        <5> QED
          BY <1>1, <4>2, <5>1, <5>2, LastWordSends, ZenonT(60)
      <4> QED
        BY <4>1, <4>2, Zenon
    <3> QED
      BY <2>1, <2>5, <3>1, ZenonT(60) DEF Tells
  <2>8. revision[l] <= revision[l]
    BY <1>1
  <2> QED
    BY <1>0, <2>1, <2>3, <2>4, <2>6, <2>7, <2>8, TellStream, ZenonT(60)
<1> QED
  BY <1>3, <1>4, <1>5, Zenon DEF Emit

\* Frames received, and streams that begin, end or break.
LEMMA TellReceive ==
    ASSUME TellInv, NEW v \in Version, NEW l \in Leaf,
           Recv(v, l) \/ Dial(v, l) \/ RecvFails(v, l) \/ Break(v, l)
    PROVE  TellInv'
<1>0. SyncTypes /\ Untouched /\ lastRevision[l] <= revision[l]
  BY Zenon DEF TellInv
<1>1. /\ view[l] \in [Function -> Entry] /\ frames[v][l] \in Seq(Frame)
      /\ sub[v][l] \in RoutingSubscriber /\ revision[l] \in Nat /\ lastRevision[l] \in Nat
  BY <1>0, StreamTypes, Zenon
<1>2. v = version => /\ FramesRise(lastRevision[l], frames[v][l], sub[v][l], revision[l])
                     /\ Tells(view[l], frames[v][l], sub[v][l])
  BY RoutingAssumption, SMTT(60) DEF TellInv, Version
<1>3. revision[l] <= revision[l]
  BY <1>1, SMTT(60)
<1>4. CASE Recv(v, l)
  <2>1. /\ SyncTypes' /\ OthersKept(v, l) /\ frames[v][l] # <<>>
        /\ frames'[v][l] = Tail(frames[v][l])
        /\ \A k \in Leaf : k # l => view'[k] = view[k] /\ lastRevision'[k] = lastRevision[k]
        /\ UNCHANGED <<revision, restarts, version, sub>>
    BY <1>0, <1>4, RecvEffect, ZenonT(60)
  <2>2. IF v = version /\ Head(frames[v][l]).rev > lastRevision[l]
        THEN /\ view'[l] = Merge(view[l], Head(frames[v][l]))
             /\ lastRevision'[l] = Head(frames[v][l]).rev
        ELSE view'[l] = view[l] /\ lastRevision'[l] = lastRevision[l]
    BY <1>0, <1>4, RecvEffect, Zenon
  <2>3. ~(v > version)
    BY <1>0, <2>1, OpenIsDue, ZenonT(60)
  <2>4. ~sub[v][l].open => ~sub[v][l].busy /\ DOMAIN sub[v][l].read = {}
    BY <1>0, ZenonT(60) DEF Untouched
  <2>5. ASSUME v = version
        PROVE  /\ FramesRise(lastRevision'[l], frames'[v][l], sub[v][l], revision[l])
               /\ Tells(view'[l], frames'[v][l], sub[v][l])
    <3>1. /\ Head(frames[v][l]).rev > lastRevision[l]
          /\ FramesRise(Head(frames[v][l]).rev, Tail(frames[v][l]), sub[v][l], revision[l])
      BY <1>1, <1>2, <2>1, <2>5, RiseReceives, ZenonT(60)
    <3>2. view'[l] = Merge(view[l], Head(frames[v][l])) /\ lastRevision'[l] = Head(frames[v][l]).rev
      BY <2>2, <2>5, <3>1, ZenonT(60)
    <3>3. ASSUME sub[v][l].open
          PROVE  /\ ~sub[v][l].first
                 /\ \A f \in Function : LastWord(view[l], frames[v][l], f, sub[v][l].sent[f].cap)
      BY <1>2, <2>1, <2>5, <3>3, ZenonT(60) DEF Tells
    <3>4. ASSUME sub[v][l].open, NEW f \in Function
          PROVE  LastWord(Merge(view[l], Head(frames[v][l])), Tail(frames[v][l]), f, sub[v][l].sent[f].cap)
      BY <1>1, <2>1, <3>3, <3>4, LastWordReceives, ZenonT(60)
    <3>5. Tells(view'[l], frames'[v][l], sub[v][l])
      BY <2>1, <3>2, <3>3, <3>4, ZenonT(60) DEF Tells
    <3> QED
      BY <2>1, <3>1, <3>2, <3>5, ZenonT(60)
  <2>6. lastRevision'[l] <= revision[l]
    <3>1. CASE v = version
      BY <2>5, <3>1, ZenonT(60) DEF FramesRise
    <3>2. CASE v # version
      BY <1>0, <2>2, <3>2, ZenonT(60)
    <3> QED
      BY <3>1, <3>2, Zenon
  <2>7. v # version => view'[l] = view[l] /\ lastRevision'[l] = lastRevision[l]
    BY <2>2, Zenon
  <2> QED
    BY <1>3, <2>1, <2>3, <2>4, <2>5, <2>6, <2>7, TellStream, ZenonT(60)
<1>5. CASE Dial(v, l) \/ RecvFails(v, l) \/ Break(v, l)
  <2>1. /\ SyncTypes' /\ OthersKept(v, l)
        /\ \/ sub'[v][l] = NewSub /\ frames'[v][l] = <<>> /\ v = version
           \/ /\ sub'[v][l] = NoSub
              /\ \E k \in 0..Len(frames[v][l]) : frames'[v][l] = SubSeq(frames[v][l], 1, k)
        /\ UNCHANGED <<revision, restarts, modelVars>>
    BY <1>0, <1>5, CutEffect, ZenonT(60)
  <2>2. version' = version /\ view' = view /\ lastRevision' = lastRevision /\ revision' = revision
    BY <2>1, ZenonT(60) DEF modelVars
  <2>3. /\ sub'[v][l].read = Nothing /\ DOMAIN Nothing = {} /\ ~sub'[v][l].busy
    BY <2>1, NewSubTypes, ZenonT(60)
  <2>4. v > version => ~sub'[v][l].open /\ frames'[v][l] = <<>>
    <3>1. CASE v > version
      <4>1. frames[v][l] = <<>>
        BY <1>0, <3>1, ZenonT(60) DEF Untouched
      <4>2. v # version
        BY <1>0, <3>1, RoutingAssumption, SMTT(60) DEF SyncTypes, Version
      <4>3. PICK k \in 0..Len(frames[v][l]) : frames'[v][l] = SubSeq(frames[v][l], 1, k)
        BY <2>1, <4>2, ZenonT(60)
      <4>4. k = 0 /\ SubSeq(<<>>, 1, 0) = <<>>
        BY <4>1, SMTT(60)
      <4> QED
        BY <2>1, <4>1, <4>2, <4>3, <4>4, NewSubTypes, ZenonT(60)
    <3> QED
      BY <3>1, Zenon
  <2>5. v = version => FramesRise(lastRevision[l], frames'[v][l], sub'[v][l], revision[l])
    <3>1. /\ FramesRise(lastRevision[l], <<>>, sub'[v][l], revision[l])
          /\ FramesRise(lastRevision[l], frames[v][l], sub[v][l], revision[l]) =>
               \A k \in 0..Len(frames[v][l]) :
                 FramesRise(lastRevision[l], SubSeq(frames[v][l], 1, k), sub'[v][l], revision[l])
      BY <1>0, <1>1, <2>3, RiseCut, Zenon
    <3> QED
      BY <1>2, <2>1, <3>1, ZenonT(60)
  <2>6. Tells(view[l], frames'[v][l], sub'[v][l])
    BY <2>1, NewSubTypes, ZenonT(60) DEF Tells
  <2> QED
    BY <1>0, <1>3, <2>1, <2>2, <2>3, <2>4, <2>5, <2>6, TellStream, ZenonT(60)
<1> QED
  BY <1>4, <1>5, Zenon

\* Every step, as long as no leaf process restarts.
LEMMA TellStep ==
    ASSUME TellInv, [Next]_vars, restarts' = restarts PROVE TellInv'
<1>0. /\ SyncTypes /\ Untouched /\ restarts \in Nat
      /\ \A k \in Leaf : lastRevision[k] <= revision[k]
  BY Zenon DEF TellInv
<1>1. CASE UNCHANGED syncVars
  <2>1. /\ source' = source /\ view' = view /\ workers' = workers /\ revision' = revision
        /\ lastRevision' = lastRevision /\ version' = version /\ sub' = sub /\ frames' = frames
        /\ restarts' = restarts
    BY <1>1, Zenon DEF syncVars
  <2> QED
    BY <2>1, Zenon DEF TellInv, SyncTypes, Untouched
<1>2. ASSUME NEW l \in Leaf,
             SetWorkers(l) \/ \E f \in Function, c \in Capacity \cup {Absent} : SetCapacity(l, f, c)
      PROVE  TellInv'
  <2>1. /\ source' \in [Leaf -> [Function -> Entry]] /\ workers' \in [Leaf -> BOOLEAN]
        /\ UNCHANGED <<revision, restarts, sub, frames, modelVars>>
    BY <1>0, <1>2, ChangeEffect, ZenonT(60)
  <2>2. version' = version /\ view' = view /\ lastRevision' = lastRevision
    BY <2>1, Zenon DEF modelVars
  <2>3. SyncTypes' /\ Untouched'
    BY <1>0, <2>1, <2>2, Zenon DEF SyncTypes, Untouched
  <2> QED
    BY <2>1, <2>2, <2>3, ZenonT(60) DEF TellInv
<1>3. ASSUME NEW l \in Leaf, PublishHeartbeat(l) PROVE TellInv'
  <2>1. /\ sub' \in [Version -> [Leaf -> RoutingSubscriber]]
        /\ \A w \in Version, k \in Leaf :
             /\ sub'[w][k].open = sub[w][k].open /\ sub'[w][k].busy = sub[w][k].busy
             /\ sub'[w][k].first = sub[w][k].first /\ sub'[w][k].rev = sub[w][k].rev
             /\ sub'[w][k].read = sub[w][k].read /\ sub'[w][k].sent = sub[w][k].sent
        /\ UNCHANGED <<source, workers, revision, frames, restarts, modelVars>>
    BY <1>0, <1>3, HeartbeatEffect, ZenonT(60)
  <2>2. version' = version /\ view' = view /\ lastRevision' = lastRevision
    BY <2>1, Zenon DEF modelVars
  <2>3. SyncTypes'
    BY <1>0, <2>1, <2>2, Zenon DEF SyncTypes
  <2>4. ASSUME NEW v \in Version, NEW k \in Leaf
        PROVE  /\ ~sub'[v][k].open => ~sub'[v][k].busy /\ DOMAIN sub'[v][k].read = {}
               /\ v > version' => ~sub'[v][k].open /\ frames'[v][k] = <<>>
    <3>1. /\ ~sub[v][k].open => ~sub[v][k].busy /\ DOMAIN sub[v][k].read = {}
          /\ v > version => ~sub[v][k].open /\ frames[v][k] = <<>>
      BY <1>0, ZenonT(60) DEF Untouched
    <3>2. /\ sub'[v][k].open = sub[v][k].open /\ sub'[v][k].busy = sub[v][k].busy
          /\ sub'[v][k].read = sub[v][k].read /\ frames'[v][k] = frames[v][k]
      BY <2>1, ZenonT(60)
    <3> QED
      BY <2>2, <3>1, <3>2, ZenonT(60)
  <2>5. Untouched'
    BY <2>4, Zenon DEF Untouched
  <2>6. ASSUME version # 0, NEW k \in Leaf
        PROVE  /\ FramesRise(lastRevision[k], frames[version][k], sub'[version][k], revision[k])
               /\ Tells(view[k], frames[version][k], sub'[version][k])
    <3>1. /\ version \in Version
          /\ FramesRise(lastRevision[k], frames[version][k], sub[version][k], revision[k])
          /\ Tells(view[k], frames[version][k], sub[version][k])
      BY <2>6, Zenon DEF TellInv, SyncTypes
    <3>2. /\ sub'[version][k].open = sub[version][k].open /\ sub'[version][k].busy = sub[version][k].busy
          /\ sub'[version][k].first = sub[version][k].first /\ sub'[version][k].rev = sub[version][k].rev
          /\ sub'[version][k].sent = sub[version][k].sent
      BY <2>1, <3>1, ZenonT(60)
    <3>3. FramesRise(lastRevision[k], frames[version][k], sub'[version][k], revision[k])
      BY <3>1, <3>2, ZenonT(60) DEF FramesRise
    <3>4. Tells(view[k], frames[version][k], sub'[version][k])
      BY <3>1, <3>2, ZenonT(60) DEF Tells
    <3> QED
      BY <3>3, <3>4, ZenonT(60)
  <2> QED
    BY <1>0, <2>1, <2>2, <2>3, <2>5, <2>6, ZenonT(60) DEF TellInv
<1>4. ASSUME NEW l \in Leaf, Restart(l) PROVE FALSE
  BY <1>0, <1>4, SMTT(60) DEF Restart
<1>5. ASSUME NEW v \in Version, ApplyConfigBegin(v) PROVE TellInv'
  <2>1. /\ SyncTypes' /\ Untouched' /\ version' = v
        /\ \A l \in Leaf :
             /\ view'[l] = Blank /\ lastRevision'[l] = 0
             /\ ~sub[v][l].open /\ ~sub[v][l].busy /\ frames[v][l] = <<>>
        /\ UNCHANGED <<revision, restarts, sub, frames>>
    BY <1>0, <1>5, BeginConfig, ZenonT(60)
  <2>2. \A k \in Leaf : revision[k] \in Nat /\ 0 <= revision[k]
    BY <1>0, SMTT(60) DEF SyncTypes
  <2>3. ASSUME NEW k \in Leaf
        PROVE  FramesRise(0, <<>>, sub[v][k], revision[k]) /\ Tells(Blank, <<>>, sub[v][k])
    <3>1. Len(<<>>) = 0 /\ 1..0 = {}
      BY SMTT(60)
    <3>2. FramesRise(0, <<>>, sub[v][k], revision[k])
      BY <2>1, <2>2, <3>1, Zenon DEF FramesRise
    <3> QED
      BY <2>1, <3>2, Zenon DEF Tells
  <2> QED
    BY <1>0, <2>1, <2>2, <2>3, ZenonT(60) DEF TellInv
<1>6. ASSUME NEW v \in Version, NEW l \in Leaf, Stream(v, l) \/ Break(v, l)
      PROVE  UNCHANGED syncVars \/ TellInv'
  <2>1. CASE Recv(v, l) \/ Dial(v, l) \/ RecvFails(v, l) \/ Break(v, l)
    BY <2>1, TellReceive, Zenon
  <2>2. CASE \/ DialFails(v, l) \/ SessionEnded(v, l) \/ MarkUnhealthy(v, l)
             \/ Backoff(v, l) \/ StreamQuit(v, l)
    BY <2>2, SyncQuiet, Zenon
  <2> QED
    BY <1>6, <2>1, <2>2, Zenon DEF Stream
<1>7. ApplyConfigEnd \/ UNCHANGED vars => UNCHANGED syncVars
  BY Zenon DEF ApplyConfigEnd, vars, syncVars, leafVars, modelVars
<1> QED
  BY <1>1, <1>2, <1>3, <1>4, <1>5, <1>6, <1>7, TellEmit, Zenon DEF Next

\* The last word on f is what the ingress has of it in the end.
LEMMA ReplayEnds ==
    ASSUME NEW v \in Version, NEW l \in Leaf, Len(frames[v][l]) \in Nat,
           NEW f \in Function, NEW c, LastWord(view[l], frames[v][l], f, c)
    PROVE  Replayed(v, l)[f].cap = c
<1> DEFINE q == frames[v][l]
           m == {i \in 1..Len(q) : f \in DOMAIN q[i].caps}
           k == CHOOSE i \in m : \A j \in m : j <= i
<1>1. Replayed(v, l)[f] = IF m = {} THEN view[l][f] ELSE q[k].caps[f]
  BY ZenonT(60) DEF Replayed
<1>2. CASE m = {}
  BY <1>1, <1>2, ZenonT(60) DEF LastWord
<1>3. CASE m # {}
  <2>1. PICK i \in 1..Len(q) : /\ f \in DOMAIN q[i].caps /\ q[i].caps[f].cap = c
                              /\ \A j \in 1..Len(q) : i < j => f \notin DOMAIN q[j].caps
    BY <1>3, ZenonT(60) DEF LastWord
  <2>2. i \in m /\ \A j \in m : j <= i
    BY <2>1, SMTT(60)
  <2> HIDE DEF m
  <2>3. k \in m /\ \A j \in m : j <= k
    BY <2>2, Zenon
  <2>4. m \subseteq 1..Len(q)
    BY Zenon DEF m
  <2> HIDE DEF k
  <2>5. k <= i /\ i <= k /\ k \in 1..Len(q) /\ i \in 1..Len(q)
    BY <2>2, <2>3, <2>4, Zenon
  <2> HIDE DEF q
  <2>6. k = i
    BY <2>5
  <2> QED
    BY <1>1, <1>3, <2>1, <2>6, ZenonT(60)
<1> QED
  BY <1>2, <1>3, Zenon

\* A step restarts one leaf or none.
LEMMA RestartsCounted ==
    ASSUME [Next]_vars PROVE restarts' = restarts \/ restarts' = restarts + 1
<1>1. ASSUME NEW l \in Leaf,
             \/ \E f \in Function, c \in Capacity \cup {Absent} : SetCapacity(l, f, c)
             \/ SetWorkers(l) \/ PublishHeartbeat(l)
      PROVE  restarts' = restarts
  BY <1>1, Zenon DEF SetCapacity, SetWorkers, Changed, PublishHeartbeat
<1>2. ASSUME NEW v \in Version, NEW l \in Leaf, Emit(v, l)
      PROVE  restarts' = restarts
  BY <1>2, Zenon DEF Emit, EmitBegin, EmitRead, EmitSend, leafVars
<1>3. ASSUME NEW v \in Version, NEW l \in Leaf, Stream(v, l) \/ Break(v, l)
      PROVE  restarts' = restarts
  BY <1>3, Zenon DEF Stream, Dial, DialFails, Recv, RecvFails, SessionEnded, MarkUnhealthy, Backoff,
                     StreamQuit, Break, leafVars
<1>4. ASSUME NEW v \in Version, ApplyConfigBegin(v) PROVE restarts' = restarts
  BY <1>4, Zenon DEF ApplyConfigBegin, leafVars
<1>5. ApplyConfigEnd \/ UNCHANGED vars => restarts' = restarts
  BY Zenon DEF ApplyConfigEnd, vars, leafVars
<1>6. ASSUME NEW l \in Leaf, Restart(l) PROVE restarts' = restarts + 1
  BY <1>6, Zenon DEF Restart
<1> QED
  BY <1>1, <1>2, <1>3, <1>4, <1>5, <1>6, Zenon DEF Next

\* Coalescing wake-ups, breaking streams and reloading the configuration never
\* lose an update as long as no leaf process restarts, for every number of
\* leaves, functions, reloads and broken streams (emit, diffCapacities, onFrame).
\* After a restart NoUpdateLost is false: see routing_restart_lost.
THEOREM UpdatesArrive == Spec => []UpdatesKept
<1> DEFINE Inv == restarts \in Nat /\ (restarts = 0 => TellInv)
<1>1. Init => Inv
  <2> SUFFICES ASSUME Init PROVE TellInv /\ restarts \in Nat
    BY Zenon
  <2>1. SyncTypes /\ Untouched
    BY SyncInit, Zenon
  <2>2. version = 0 /\ restarts = 0 /\ \A l \in Leaf : lastRevision[l] = 0 /\ revision[l] = 0
    BY Zenon DEF Init
  <2> QED
    BY <2>1, <2>2 DEF TellInv
<1>2. Inv /\ [Next]_vars => Inv'
  <2> SUFFICES ASSUME Inv, [Next]_vars PROVE Inv'
    BY Zenon
  <2>1. CASE restarts' = restarts
    BY <2>1, TellStep, Zenon
  <2>2. CASE restarts' = restarts + 1
    BY <2>2, SMT
  <2> QED
    BY <2>1, <2>2, RestartsCounted, Zenon
<1>3. TellInv => NoUpdateLost
  <2> SUFFICES ASSUME TellInv, NEW l \in Leaf, version # 0, sub[version][l].open, ~sub[version][l].first,
                      NEW f \in Function
               PROVE  Replayed(version, l)[f].cap = sub[version][l].sent[f].cap
    BY Zenon DEF NoUpdateLost, Caps
  <2>1. version \in Version /\ SyncTypes
    BY Zenon DEF TellInv, SyncTypes
  <2>2. view[l] \in [Function -> Entry] /\ frames[version][l] \in Seq(Frame)
    BY <2>1, StreamTypes, ZenonT(60)
  <2>3. LastWord(view[l], frames[version][l], f, sub[version][l].sent[f].cap)
    BY Zenon DEF TellInv, Tells
  <2>4. Len(frames[version][l]) \in Nat
    BY <2>2
  <2> QED
    BY <2>1, <2>3, <2>4, ReplayEnds, Zenon
<1>4. Inv => UpdatesKept
  BY <1>3, Zenon DEF UpdatesKept
<1> HIDE DEF Inv
<1> QED
  BY <1>1, <1>2, <1>4, PTL DEF Spec

==============================================================================
