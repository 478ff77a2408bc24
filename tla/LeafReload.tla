----------------------------- MODULE LeafReload -----------------------------
(***************************************************************************)
(* What the components do with a new platform configuration.               *)
(*                                                                         *)
(* An ingress reloads its routing policy on the subscriber's goroutine,    *)
(* so it receives nothing meanwhile (the reload itself is RoutingSync).    *)
(* The leaf stores the document, wakes its reload loop and lets the        *)
(* PlacementController replace the scheduler: it stops serving, cancels    *)
(* the worker state streams of the old policy, drops their telemetry,      *)
(* opens streams with the projection of the new policy, waits a bounded    *)
(* time for their first frames and serves again.  A stream is served by    *)
(* the worker's sampler, which keeps one queued snapshot and replaces it   *)
(* when the reader is slow.                                                *)
(*                                                                         *)
(* The streams of one reload form a generation, numbered 1, 2, ...         *)
(***************************************************************************)
EXTENDS ConfigSync

CONSTANTS
    NoLeaf,       \* stands for a deployment seen from its ingresses only
    Worker        \* the workers of the leaf

ASSUME LeafReloadAssumption == NoLeaf \notin Component

Generation == 1..MaxRevision

VARIABLES
    theLeaf,     \* the component that is a leaf; the others are ingresses
    applying,    \* ingress: ApplyPlatformConfig runs on the subscriber
    routing,     \* ingress: version of the installed routing policy
    pending,     \* pendingConfig, 0 before the first
    waking,      \* onPlatformConfig has stored and not yet woken the loop
    wake,        \* configWake
    reload,      \* where the reload loop is
    generation,  \* reloads begun
    version,     \* PlacementController.version
    serving,     \* PlacementController.serving
    scheduler,   \* version of the installed scheduler, 0 for nil
    telemetry,   \* worker: generation of the cached frame, 0 for none
    stream,      \* worker: where runWatch of the last generation is
    queued,      \* worker: is there a snapshot in its updates channel
    sampler,     \* worker: where WatchState's goroutine for it is
    late         \* cancelled streams that still have a frame to hand over

Ingress == Component \ {theLeaf}

ingressVars == <<theLeaf, applying, routing>>
loopVars == <<pending, waking, wake, reload>>
controllerVars == <<generation, version, serving, scheduler>>
streamVars == <<telemetry, stream, queued, sampler, late>>
vars == <<configVars, ingressVars, loopVars, controllerVars, streamVars>>

Init ==
    /\ ConfigInit
    /\ theLeaf \in Component \cup {NoLeaf}
    /\ applying = [c \in Component |-> FALSE]
    /\ routing = [c \in Component |-> 0]
    /\ pending = 0
    /\ waking = FALSE
    /\ wake = FALSE
    /\ reload = "idle"
    /\ generation = 0
    /\ version = 0
    /\ serving = FALSE
    /\ scheduler = 0
    /\ telemetry = [w \in Worker |-> 0]
    /\ stream = [w \in Worker |-> "none"]
    /\ queued = [w \in Worker |-> FALSE]
    /\ sampler = [w \in Worker |-> "none"]
    /\ late = {}

----------------------------------------------------------------------------
(* The control plane and the watches (ConfigSync).                         *)

Deliver ==
    /\ \/ \E r \in Replica : ServerStart(r)
       \/ \E w \in Writer : WriterStep(w)
       \/ OtherWrite
       \/ \E c \in Component : WatchStep(c) \/ Break(c)
    /\ UNCHANGED <<ingressVars, loopVars, controllerVars, streamVars>>

----------------------------------------------------------------------------
(* Ingress.                                                                *)

IngressReceives(c) ==
    /\ c \in Ingress
    /\ ~applying[c] /\ out[c] # <<>>
    /\ RecvConfig(c, Head(out[c]))
    /\ applying' = [applying EXCEPT ![c] = Accepts(c, Head(out[c]))]
    /\ UNCHANGED <<theLeaf, routing, loopVars, controllerVars, streamVars>>

\* ApplyPlatformConfig returns.
IngressApplied(c) ==
    /\ applying[c]
    /\ applying' = [applying EXCEPT ![c] = FALSE]
    /\ routing' = [routing EXCEPT ![c] = current[c]]
    /\ UNCHANGED theLeaf
    /\ UNCHANGED <<configVars, loopVars, controllerVars, streamVars>>

----------------------------------------------------------------------------
(* Leaf: onPlatformConfig on the subscriber, configReloadLoop on its own.  *)

LeafReceives ==
    /\ theLeaf # NoLeaf /\ ~waking /\ out[theLeaf] # <<>>
    /\ LET d == Head(out[theLeaf])
       IN  /\ RecvConfig(theLeaf, d)
           /\ waking' = Accepts(theLeaf, d)
           /\ pending' = IF Accepts(theLeaf, d) THEN d ELSE pending
    /\ UNCHANGED <<ingressVars, wake, reload, controllerVars, streamVars>>

\* Mutant: the loop is not woken while a reload is running.
WakeIdleLoop ==
    /\ waking
    /\ waking' = FALSE
    /\ wake' = (wake \/ reload = "idle")
    /\ UNCHANGED <<configVars, ingressVars, pending, reload, controllerVars, streamVars>>

WakeLoop ==
    /\ waking
    /\ waking' = FALSE
    /\ wake' = TRUE
    /\ UNCHANGED <<configVars, ingressVars, pending, reload, controllerVars, streamVars>>

\* ApplyConfig: stop serving and cancel the streams of the last generation.  A
\* stream that has received a frame still hands it over,
ReloadBegin ==
    /\ reload = "idle" /\ wake
    /\ wake' = FALSE
    /\ reload' = "reset"
    /\ version' = pending
    /\ serving' = FALSE
    /\ scheduler' = 0
    /\ generation' = generation + 1
    /\ late' = late \cup {<<generation, w>> : w \in {x \in Worker : stream[x] = "update"}}
    /\ stream' = [w \in Worker |-> "none"]
    /\ queued' = [w \in Worker |-> FALSE]
    /\ sampler' = [w \in Worker |-> "none"]
    /\ UNCHANGED <<configVars, ingressVars, pending, waking, telemetry>>

\* drop the telemetry,
ReloadReset ==
    /\ reload = "reset"
    /\ reload' = "start"
    /\ telemetry' = [w \in Worker |-> 0]
    /\ UNCHANGED <<configVars, ingressVars, pending, waking, wake, controllerVars, stream, queued, sampler, late>>

\* open the streams of the new projection,
ReloadStart ==
    /\ reload = "start"
    /\ reload' = "baseline"
    /\ stream' = [w \in Worker |-> "dial"]
    /\ UNCHANGED <<configVars, ingressVars, pending, waking, wake, controllerVars, telemetry, queued, sampler, late>>

\* and install the scheduler when every worker has sent a frame or the baseline
\* timer fires, whichever is first.
ReloadInstall ==
    /\ reload = "baseline"
    /\ reload' = "idle"
    /\ scheduler' = version
    /\ serving' = TRUE
    /\ UNCHANGED <<configVars, ingressVars, pending, waking, wake, generation, version, streamVars>>

----------------------------------------------------------------------------
(* The worker state streams: runWatch on the leaf, WatchState and          *)
(* sendState on the worker.                                                *)

streamOnly == <<configVars, ingressVars, loopVars, controllerVars>>

\* The first snapshot is sent without waiting for a tick.
StreamDial(w) ==
    /\ stream[w] = "dial"
    /\ stream' = [stream EXCEPT ![w] = "recv"]
    /\ sampler' = [sampler EXCEPT ![w] = "send"]
    /\ UNCHANGED <<streamOnly, telemetry, queued, late>>

\* A sample cannot be taken, or the connection breaks: runWatch dials again.
StreamBreak(w) ==
    /\ stream[w] = "recv"
    /\ stream' = [stream EXCEPT ![w] = "dial"]
    /\ queued' = [queued EXCEPT ![w] = FALSE]
    /\ sampler' = [sampler EXCEPT ![w] = "none"]
    /\ UNCHANGED <<streamOnly, telemetry, late>>

StreamRecv(w) ==
    /\ stream[w] = "recv" /\ queued[w]
    /\ queued' = [queued EXCEPT ![w] = FALSE]
    /\ stream' = [stream EXCEPT ![w] = "update"]
    /\ UNCHANGED <<streamOnly, telemetry, sampler, late>>

\* setWorkerState caches the frame.
StreamUpdate(w) ==
    /\ stream[w] = "update"
    /\ stream' = [stream EXCEPT ![w] = "recv"]
    /\ telemetry' = [telemetry EXCEPT ![w] = generation]
    /\ UNCHANGED <<streamOnly, queued, sampler, late>>

\* So does a stream cancelled in between; then it ends.
LateUpdate(g, w) ==
    /\ <<g, w>> \in late
    /\ late' = late \ {<<g, w>>}
    /\ telemetry' = [telemetry EXCEPT ![w] = g]
    /\ UNCHANGED <<streamOnly, stream, queued, sampler>>

SamplerTick(w) ==
    /\ sampler[w] = "wait"
    /\ sampler' = [sampler EXCEPT ![w] = "send"]
    /\ UNCHANGED <<streamOnly, telemetry, stream, queued, late>>

\* sendState: queue the snapshot if there is room,
SendState(w) ==
    /\ sampler[w] = "send"
    /\ queued' = [queued EXCEPT ![w] = TRUE]
    /\ sampler' = [sampler EXCEPT ![w] = IF queued[w] THEN "replace" ELSE "wait"]
    /\ UNCHANGED <<streamOnly, telemetry, stream, late>>

\* otherwise receive the queued one, which waits until there is one,
SendStateDrain(w) ==
    /\ sampler[w] = "replace" /\ queued[w]
    /\ queued' = [queued EXCEPT ![w] = FALSE]
    /\ sampler' = [sampler EXCEPT ![w] = "refill"]
    /\ UNCHANGED <<streamOnly, telemetry, stream, late>>

\* and queue the new one.
SendStateRefill(w) ==
    /\ sampler[w] = "refill"
    /\ queued' = [queued EXCEPT ![w] = TRUE]
    /\ sampler' = [sampler EXCEPT ![w] = "wait"]
    /\ UNCHANGED <<streamOnly, telemetry, stream, late>>

Stream(w) ==
    \/ StreamDial(w)
    \/ StreamBreak(w)
    \/ StreamRecv(w)
    \/ StreamUpdate(w)
    \/ \E g \in Generation : LateUpdate(g, w)

Sampler(w) ==
    \/ SamplerTick(w)
    \/ SendState(w)
    \/ SendStateDrain(w)
    \/ SendStateRefill(w)

LeafStep ==
    \/ LeafReceives
    \/ WakeLoop
    \/ ReloadBegin
    \/ ReloadReset
    \/ ReloadStart
    \/ ReloadInstall

Next ==
    \/ Deliver
    \/ \E c \in Component : IngressReceives(c) \/ IngressApplied(c)
    \/ LeafStep
    \/ \E w \in Worker : Stream(w) \/ Sampler(w)

Spec == Init /\ [][Next]_vars

\* Control planes come up, watches, subscribers and reloads keep running.
\* Nothing is assumed of writers, of the workers' samplers or of their streams.
Fairness ==
    /\ \A r \in Replica : WF_vars(ServerStart(r) /\ UNCHANGED <<ingressVars, loopVars, controllerVars, streamVars>>)
    /\ \A c \in Component : WF_vars(WatchStep(c) /\ UNCHANGED <<ingressVars, loopVars, controllerVars, streamVars>>)
    /\ \A c \in Component : WF_vars(IngressReceives(c)) /\ WF_vars(IngressApplied(c))
    /\ WF_vars(LeafReceives) /\ WF_vars(WakeLoop)
    /\ WF_vars(ReloadBegin \/ ReloadReset \/ ReloadStart \/ ReloadInstall)

LiveSpec == Spec /\ Fairness

----------------------------------------------------------------------------
\* The last document stored ends up governing every component: the leaf serves
\* placements with its scheduler and every ingress routes by it, although
\* streams break, documents are coalesced, and workers may never answer
\* (configReloadLoop, ApplyConfig's baseline deadline, ConfigSubscriber.Run).
ConfigReachesAll ==
    <>[](document # 0 => /\ theLeaf # NoLeaf => serving /\ scheduler = document
                         /\ \A c \in Ingress : routing[c] = document)

=============================================================================
