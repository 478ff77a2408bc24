---------------------------- MODULE RoutingSync ----------------------------
(***************************************************************************)
(* How an ingress learns the capacity of its leaves.                       *)
(*                                                                         *)
(* Every leaf has a Reporter (leaf/state) that streams routing frames to   *)
(* its subscribers: first a full snapshot, then deltas against what that   *)
(* subscriber was last sent.  The ingress RoutingController runs one       *)
(* goroutine per leaf and configuration version (runLeafStream) that dials,*)
(* receives frames, marks the leaf unhealthy when the stream ends, and     *)
(* dials again.  Frames update the available-capacity model; the picker    *)
(* that requests use is published from it.                                 *)
(*                                                                         *)
(* A capacity carries `ver`, the number of changes the leaf's source had   *)
(* made to that function when the value was read.  No action reads it; the *)
(* properties do.                                                          *)
(***************************************************************************)
EXTENDS Integers, Sequences, FiniteSets

CONSTANTS
    Leaf,          \* the configured leaves (Topology)
    Function,      \* function ids
    Capacity,      \* the capacities capacityEqual tells apart
    Absent,        \* stands for "the leaf does not know this function"
    MaxVersion,    \* bound: configuration versions are 1..MaxVersion
    MaxChanges,    \* bound: changes of one leaf's capacities and health
    MaxBreaks,     \* bound: failed dials and broken streams
    MaxRestarts,   \* bound: leaf process restarts
    MaxIdleBeats,  \* bound: heartbeats of a leaf since its last change
    ChanSize       \* frames between a Reporter and its reader

ASSUME RoutingAssumption ==
    /\ Absent \notin Capacity
    /\ MaxVersion \in Nat \ {0}
    /\ MaxChanges \in Nat
    /\ MaxBreaks \in Nat
    /\ MaxRestarts \in Nat
    /\ MaxIdleBeats \in Nat \ {0}
    /\ ChanSize \in Nat \ {0}

Version == 1..MaxVersion
NoPicker == [version |-> 0, healthy |-> {}]

VARIABLES
    source,       \* leaf: what CapacitySnapshot would return now
    workers,      \* leaf: does HealthyWorkers return more than zero
    revision,     \* leaf: Reporter.revision
    beats,        \* leaf: heartbeats since the last change (bound only)
    changes,      \* leaf: changes made (bound only)
    sub,          \* version, leaf: the routingSubscriber and its goroutine
    frames,       \* version, leaf: frames sent and not yet received
    pc,           \* version, leaf: where runLeafStream is
    baseline,     \* version: leaves that have signalled ApplyConfig
    version,      \* RoutingController.version, 0 before the first config
    serving,      \* RoutingController.serving
    lastRevision, \* leaf: last revision accepted, 0 when there is none
    healthy,      \* membership: leaves considered routable
    view,         \* leaf: the model's capacities (writer side)
    table,        \* leaf: the capacities published to pickers
    picker,       \* Engine.active: version and the routable leaves
    breaks,       \* failed dials and broken streams so far (bound only)
    restarts      \* leaf restarts so far (for a bound and UpdatesKept)

leafVars == <<source, workers, revision, beats, changes, restarts>>
modelVars == <<version, serving, lastRevision, healthy, view, table, picker>>
vars == <<leafVars, modelVars, sub, frames, pc, baseline, breaks>>

Blank == [f \in Function |-> [cap |-> Absent, ver |-> 0]]
Nothing == [f \in {} |-> 0]

NoSub == [open |-> FALSE, first |-> TRUE, notify |-> FALSE, busy |-> FALSE,
          rev |-> 0, up |-> FALSE, read |-> Nothing, sent |-> Blank]

NewSub == [NoSub EXCEPT !.open = TRUE]

Init ==
    /\ source = [l \in Leaf |-> Blank]
    /\ workers = [l \in Leaf |-> FALSE]
    /\ revision = [l \in Leaf |-> 0]
    /\ beats = [l \in Leaf |-> 0]
    /\ changes = [l \in Leaf |-> 0]
    /\ sub = [v \in Version |-> [l \in Leaf |-> NoSub]]
    /\ frames = [v \in Version |-> [l \in Leaf |-> <<>>]]
    /\ pc = [v \in Version |-> [l \in Leaf |-> "none"]]
    /\ baseline = [v \in Version |-> {}]
    /\ version = 0
    /\ serving = FALSE
    /\ lastRevision = [l \in Leaf |-> 0]
    /\ healthy = {}
    /\ view = [l \in Leaf |-> Blank]
    /\ table = [l \in Leaf |-> Blank]
    /\ picker = NoPicker
    /\ breaks = 0
    /\ restarts = 0

----------------------------------------------------------------------------
(* The leaf: what the Reporter reads.                                      *)

\* CapacitySnapshot holds Runtime.mu shared while it visits the pools one by
\* one; functions are registered and removed under the exclusive lock.
SnapshotHeld(l) ==
    \E v \in Version : /\ sub[v][l].busy
                       /\ DOMAIN sub[v][l].read \notin {{}, Function}

Changed(l) ==
    /\ changes[l] < MaxChanges
    /\ changes' = [changes EXCEPT ![l] = @ + 1]
    /\ beats' = [beats EXCEPT ![l] = 0]
    /\ UNCHANGED <<revision, restarts, sub, frames, pc, baseline, breaks, modelVars>>

\* A pool's capacity changes, a function is registered, or it is removed.
SetCapacity(l, f, c) ==
    /\ c # source[l][f].cap
    /\ Absent \in {c, source[l][f].cap} => ~SnapshotHeld(l)
    /\ source' = [source EXCEPT ![l][f] = [cap |-> c, ver |-> @.ver + 1]]
    /\ UNCHANGED workers
    /\ Changed(l)

\* The leaf's first worker becomes healthy or its last one stops being so.
SetWorkers(l) ==
    /\ workers' = [workers EXCEPT ![l] = ~@]
    /\ UNCHANGED source
    /\ Changed(l)

\* Mutant: an unbuffered notify channel drops a wake-up while emit is running.
PublishHeartbeatUnbuffered(l) ==
    /\ beats[l] < MaxIdleBeats
    /\ beats' = [beats EXCEPT ![l] = @ + 1]
    /\ sub' = [v \in Version |-> [sub[v] EXCEPT ![l].notify =
                 @ \/ (sub[v][l].open /\ ~sub[v][l].busy)]]
    /\ UNCHANGED <<source, workers, revision, changes, restarts, frames, pc, baseline, breaks, modelVars>>

\* The routing heartbeat.  Publish and PublishDeleted notify the same way.
PublishHeartbeat(l) ==
    /\ beats[l] < MaxIdleBeats
    /\ beats' = [beats EXCEPT ![l] = @ + 1]
    /\ sub' = [v \in Version |-> [sub[v] EXCEPT ![l].notify = @ \/ sub[v][l].open]]
    /\ UNCHANGED <<source, workers, revision, changes, restarts, frames, pc, baseline, breaks, modelVars>>

----------------------------------------------------------------------------
(* The subscriber goroutine of WatchRoutingState: one emit per wake.       *)

EmitBegin(v, l) ==
    /\ sub[v][l].open /\ ~sub[v][l].busy
    /\ sub[v][l].first \/ sub[v][l].notify
    /\ revision' = [revision EXCEPT ![l] = @ + 1]
    /\ sub' = [sub EXCEPT ![v][l] =
                [@ EXCEPT !.busy = TRUE, !.rev = revision'[l], !.up = workers[l],
                          !.notify = sub[v][l].notify /\ sub[v][l].first, !.read = Nothing]]
    /\ UNCHANGED <<source, workers, beats, changes, restarts, frames, pc, baseline, breaks, modelVars>>

\* CapacitySnapshot visits one pool.
EmitRead(v, l, f) ==
    /\ sub[v][l].open /\ sub[v][l].busy
    /\ f \notin DOMAIN sub[v][l].read
    /\ sub' = [sub EXCEPT ![v][l].read =
                [g \in DOMAIN @ \cup {f} |-> IF g = f THEN source[l][f] ELSE @[g]]]
    /\ UNCHANGED <<leafVars, frames, pc, baseline, breaks, modelVars>>

\* Mutant: no tombstone for a function that disappeared.
diffWithoutTombstones(sent, current) ==
    [f \in {g \in Function : /\ sent[g].cap # current[g].cap
                             /\ current[g].cap # Absent} |-> current[f]]

\* Entries that differ from what was sent, tombstones for the missing ones.
diffCapacities(sent, current) ==
    [f \in {g \in Function : sent[g].cap # current[g].cap} |-> current[f]]

EmitSend(v, l) ==
    LET s == sub[v][l]
        caps == IF s.first THEN s.read ELSE diffCapacities(s.sent, s.read)
    IN  /\ s.open /\ s.busy /\ DOMAIN s.read = Function
        /\ Len(frames[v][l]) < ChanSize
        /\ frames' = [frames EXCEPT ![v][l] =
             Append(@, [full |-> s.first, rev |-> s.rev, up |-> s.up, caps |-> caps])]
        /\ sub' = [sub EXCEPT ![v][l] =
             [@ EXCEPT !.busy = FALSE, !.first = FALSE, !.sent = s.read, !.read = Nothing]]
        /\ UNCHANGED <<leafVars, pc, baseline, breaks, modelVars>>

----------------------------------------------------------------------------
(* The available-capacity model.                                           *)

\* ReplaceLeaf drops the functions a full snapshot does not list; Apply only
\* touches the ones the delta lists.
Merge(old, frame) ==
    IF frame.full
    THEN frame.caps
    ELSE [f \in Function |-> IF f \in DOMAIN frame.caps THEN frame.caps[f] ELSE old[f]]

\* Mutant: no new picker when health changes.
PublishCapacitiesOnly ==
    /\ UNCHANGED picker
    /\ table' = IF serving THEN view' ELSE table

\* The controller installs a new picker when health changed while serving;
\* capacities are published in place once the first picker exists.
Publish ==
    /\ picker' = IF serving /\ healthy' # healthy
                 THEN [version |-> version, healthy |-> healthy'] ELSE picker
    /\ table' = IF serving THEN view' ELSE table

\* Mutant: frames of any configuration are accepted.
AcceptsAnyVersion(v, l, frame) == version # 0 /\ frame.rev > lastRevision[l]

Accepts(v, l, frame) == v = version /\ frame.rev > lastRevision[l]

onFrame(v, l, frame) ==
    IF Accepts(v, l, frame)
    THEN /\ lastRevision' = [lastRevision EXCEPT ![l] = frame.rev]
         /\ healthy' = IF frame.up THEN healthy \cup {l} ELSE healthy \ {l}
         /\ view' = [view EXCEPT ![l] = Merge(@, frame)]
         /\ Publish
         /\ UNCHANGED <<version, serving>>
    ELSE UNCHANGED modelVars

markUnhealthy(v, l) ==
    IF v = version
    THEN /\ healthy' = healthy \ {l}
         /\ UNCHANGED <<version, serving, lastRevision, view>>
         /\ Publish
    ELSE UNCHANGED modelVars

----------------------------------------------------------------------------
(* RoutingController: ApplyConfig and one runLeafStream per leaf.          *)

Cancelled(v) == v # version

ApplyConfigBegin(v) ==
    /\ version = 0 \/ serving
    /\ v > version
    /\ version' = v
    /\ serving' = FALSE
    /\ picker' = NoPicker
    /\ lastRevision' = [l \in Leaf |-> 0]
    /\ healthy' = {}
    /\ view' = [l \in Leaf |-> Blank]
    /\ table' = [l \in Leaf |-> Blank]
    /\ pc' = [pc EXCEPT ![v] = [l \in Leaf |-> "dial"]]
    /\ UNCHANGED <<leafVars, sub, frames, baseline, breaks>>

\* Every leaf has signalled: publish the first picker of this version.
ApplyConfigEnd ==
    /\ version # 0 /\ ~serving
    /\ baseline[version] = Leaf
    /\ serving' = TRUE
    /\ picker' = [version |-> version, healthy |-> healthy]
    /\ table' = view
    /\ UNCHANGED <<version, lastRevision, healthy, view, leafVars, sub, frames, pc, baseline, breaks>>

Signal(v, l) == baseline' = [baseline EXCEPT ![v] = @ \cup {l}]

\* Top of the loop of a cancelled stream.
StreamQuit(v, l) ==
    /\ pc[v][l] \in {"dial", "backoff"} /\ Cancelled(v)
    /\ pc' = [pc EXCEPT ![v][l] = "done"]
    /\ Signal(v, l)
    /\ UNCHANGED <<leafVars, modelVars, sub, frames, breaks>>

Dial(v, l) ==
    /\ pc[v][l] = "dial" /\ ~Cancelled(v)
    /\ pc' = [pc EXCEPT ![v][l] = "recv"]
    /\ sub' = [sub EXCEPT ![v][l] = NewSub]
    /\ frames' = [frames EXCEPT ![v][l] = <<>>]
    /\ UNCHANGED <<leafVars, modelVars, baseline, breaks>>

DialFails(v, l) ==
    /\ pc[v][l] = "dial" /\ ~Cancelled(v)
    /\ breaks < MaxBreaks
    /\ breaks' = breaks + 1
    /\ pc' = [pc EXCEPT ![v][l] = "ended"]
    /\ UNCHANGED <<leafVars, modelVars, sub, frames, baseline>>

Recv(v, l) ==
    /\ pc[v][l] = "recv" /\ frames[v][l] # <<>>
    /\ LET frame == Head(frames[v][l])
       IN  /\ onFrame(v, l, frame)
           /\ IF Accepts(v, l, frame) /\ frame.full THEN Signal(v, l) ELSE UNCHANGED baseline
    /\ frames' = [frames EXCEPT ![v][l] = Tail(@)]
    /\ UNCHANGED <<leafVars, sub, pc, breaks>>

RecvFails(v, l) ==
    /\ pc[v][l] = "recv"
    /\ Cancelled(v) \/ (~sub[v][l].open /\ frames[v][l] = <<>>)
    /\ pc' = [pc EXCEPT ![v][l] = "ended"]
    /\ sub' = [sub EXCEPT ![v][l] = NoSub]
    /\ frames' = [frames EXCEPT ![v][l] = <<>>]
    /\ UNCHANGED <<leafVars, modelVars, baseline, breaks>>

\* After a session: signal, then leave if cancelled.
SessionEnded(v, l) ==
    /\ pc[v][l] = "ended"
    /\ Signal(v, l)
    /\ pc' = [pc EXCEPT ![v][l] = IF Cancelled(v) THEN "done" ELSE "mark"]
    /\ UNCHANGED <<leafVars, modelVars, sub, frames, breaks>>

MarkUnhealthy(v, l) ==
    /\ pc[v][l] = "mark"
    /\ markUnhealthy(v, l)
    /\ pc' = [pc EXCEPT ![v][l] = "backoff"]
    /\ UNCHANGED <<leafVars, sub, frames, baseline, breaks>>

Backoff(v, l) ==
    /\ pc[v][l] = "backoff" /\ ~Cancelled(v)
    /\ pc' = [pc EXCEPT ![v][l] = "dial"]
    /\ UNCHANGED <<leafVars, modelVars, sub, frames, baseline, breaks>>

----------------------------------------------------------------------------
(* Failures.                                                               *)

\* A connection breaks: frames not yet delivered may be lost from some point.
Break(v, l) ==
    /\ sub[v][l].open
    /\ breaks < MaxBreaks
    /\ breaks' = breaks + 1
    /\ sub' = [sub EXCEPT ![v][l] = NoSub]
    /\ \E k \in 0..Len(frames[v][l]) :
         frames' = [frames EXCEPT ![v][l] = SubSeq(@, 1, k)]
    /\ UNCHANGED <<leafVars, modelVars, pc, baseline>>

\* The leaf process restarts: a new Reporter, every stream of it broken.
Restart(l) ==
    /\ restarts < MaxRestarts
    /\ restarts' = restarts + 1
    /\ revision' = [revision EXCEPT ![l] = 0]
    /\ source' = [source EXCEPT ![l] = [f \in Function |-> [cap |-> Absent, ver |-> @[f].ver + 1]]]
    /\ workers' = [workers EXCEPT ![l] = FALSE]
    /\ beats' = [beats EXCEPT ![l] = 0]
    /\ sub' = [v \in Version |-> [sub[v] EXCEPT ![l] = NoSub]]
    /\ UNCHANGED <<changes, modelVars, frames, pc, baseline, breaks>>

----------------------------------------------------------------------------
Emit(v, l) ==
    \/ EmitBegin(v, l)
    \/ \E f \in Function : EmitRead(v, l, f)
    \/ EmitSend(v, l)

Stream(v, l) ==
    \/ Dial(v, l)
    \/ DialFails(v, l)
    \/ Recv(v, l)
    \/ RecvFails(v, l)
    \/ SessionEnded(v, l)
    \/ MarkUnhealthy(v, l)
    \/ Backoff(v, l)
    \/ StreamQuit(v, l)

Next ==
    \/ \E l \in Leaf, f \in Function, c \in Capacity \cup {Absent} : SetCapacity(l, f, c)
    \/ \E l \in Leaf : SetWorkers(l)
    \/ \E l \in Leaf : PublishHeartbeat(l)
    \/ \E v \in Version, l \in Leaf : Emit(v, l)
    \/ \E v \in Version, l \in Leaf : Stream(v, l)
    \/ \E v \in Version : ApplyConfigBegin(v)
    \/ ApplyConfigEnd
    \/ \E v \in Version, l \in Leaf : Break(v, l)
    \/ \E l \in Leaf : Restart(l)

Spec == Init /\ [][Next]_vars

\* The heartbeat timer, the goroutines of both sides and ApplyConfig keep
\* running; dials and streams fail only MaxBreaks times.
Fairness ==
    /\ \A l \in Leaf : WF_vars(PublishHeartbeat(l))
    /\ \A v \in Version, l \in Leaf : WF_vars(Emit(v, l))
    /\ \A v \in Version, l \in Leaf : WF_vars(Stream(v, l))
    /\ WF_vars(ApplyConfigEnd)

LiveSpec == Spec /\ Fairness

----------------------------------------------------------------------------
Caps(m) == [f \in Function |-> m[f].cap]

\* What the ingress holds for l once it has received every frame on its way:
\* the last frame that mentions a function decides (onFrame).
Replayed(v, l) ==
    LET Mentions(f) == {i \in 1..Len(frames[v][l]) : f \in DOMAIN frames[v][l][i].caps}
        Last(f) == CHOOSE i \in Mentions(f) : \A j \in Mentions(f) : j <= i
    IN  [f \in Function |->
           IF Mentions(f) = {} THEN view[l][f] ELSE frames[v][l][Last(f)].caps[f]]

\* No update is lost between leaf and ingress: once the first frame of a stream is sent, the frames on
\* their way bring the ingress to the view the Reporter believes it sent
\* (emit, diffCapacities, onFrame).
NoUpdateLost ==
    \A l \in Leaf :
      version # 0 =>
        LET s == sub[version][l]
        IN  s.open /\ ~s.first => Caps(Replayed(version, l)) = Caps(s.sent)

\* Coalescing wake-ups, breaking streams and reloading the configuration lose no
\* update; only the restart of a leaf process can, since its revisions start
\* again while the ingress compares them with the old ones (emit, onFrame).
UpdatesKept == restarts = 0 => NoUpdateLost

\* Under one configuration the ingress never replaces what it knows of a
\* function by something older, whatever streams of earlier configurations
\* still deliver (onFrame).
NeverGoesBack ==
    [][version' = version =>
         \A l \in Leaf, f \in Function : view'[l][f].ver >= view[l][f].ver]_vars

\* Requests see exactly what the controller last learnt: while it serves, the
\* installed picker has the controller's version and routable leaves and reads
\* its latest capacities, and during a reload there is none; no request goes to
\* a leaf once its stream has been marked dropped, until a new stream reports it
\* (ApplyConfig, onFrame, runLeafStream, markUnhealthy).
PickerCurrent ==
    /\ IF serving
       THEN picker = [version |-> version, healthy |-> healthy] /\ table = view
       ELSE picker = NoPicker
    /\ \A l \in picker.healthy : pc[version][l] \in {"recv", "ended", "mark"}

\* Once the leaves stop changing and the network stops failing, the picker
\* settles on what the leaves report.
Converges ==
    <>[](version # 0 => /\ serving
                        /\ picker.healthy = {l \in Leaf : workers[l]}
                        /\ \A l \in Leaf : Caps(table[l]) = Caps(source[l]))

=============================================================================
