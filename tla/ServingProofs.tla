---------------------------- MODULE ServingProofs ----------------------------
(***************************************************************************)
(* Proofs about what serves an invocation: what a client is told, for any  *)
(* number of calls (Invocation); what a worker answers, for any number of  *)
(* sandboxes (WorkerSandbox); and the platform configuration that the      *)
(* components hold, for any number of replicas, writers and components and *)
(* both backends (ConfigSync within LeafReload).                           *)
(***************************************************************************)
EXTENDS LeafReload, Invocation, WorkerSandbox, TLAPS

----------------------------------------------------------------------------
(* Invocation.                                                             *)

Outcome == {"refused", "timeout", "failed", "answer", "empty"}

InvocationTypes ==
    /\ protocol \in [Call -> {"http", "grpc"}]
    /\ client \in [Call -> {"idle", "waiting", "gone"} \cup Outcome]
    /\ front \in [Call -> {"idle", "pick", "dial", "wait", "done"}]
    /\ handler \in [Call -> {"none", "lookup", "acquire", "queued", "leased", "done", "crashed"}]
    /\ reqCtx \in [Call -> {"live", "cancelled", "expired"}]
    /\ ran \in [Call -> {"no", "running", "answered", "lost"}]
    /\ answer \in [Call -> {"none"} \cup Outcome]

\* The ingress and the leaf take turns: a handler exists only once the ingress
\* has connected, a sandbox only sees a call whose handler got a lease, and a
\* reply is only there when its handler has returned.
TurnsKept ==
    \A c \in Call :
      /\ client[c] = "idle" => front[c] = "idle"
      /\ front[c] \in {"idle", "pick", "dial"} => handler[c] = "none"
      /\ ran[c] # "no" => handler[c] \in {"leased", "done", "crashed"}
      /\ answer[c] # "none" => handler[c] = "done"

\* The leaf cancels a request only when the ingress is done with it.
CancelledIsOver == \A c \in Call : reqCtx[c] = "cancelled" => front[c] = "done"

\* A reply on its way says what is true of the call, and an empty one is a reply
\* that nobody waits for.
ReplyIsTrue ==
    \A c \in Call :
      /\ answer[c] = "answer" => ran[c] = "answered"
      /\ answer[c] = "refused" => ran[c] = "no"
      /\ answer[c] = "empty" => reqCtx[c] = "cancelled"

\* What the client was told stays true: a call that was refused is at no
\* station from which it could still reach a sandbox.
ToldIsTrue ==
    \A c \in Call :
      /\ client[c] # "empty"
      /\ client[c] = "answer" => ran[c] = "answered"
      /\ client[c] = "refused" => ran[c] = "no" /\ front[c] = "done" /\ handler[c] \in {"none", "done"}

InvocationInv == InvocationTypes /\ TurnsKept /\ CancelledIsOver /\ ReplyIsTrue /\ ToldIsTrue

\* The ingress's side of a call: its reply is the last thing it does.
LEMMA IngressStep ==
    ASSUME InvocationInv, NEW c \in Call,
           \/ Invoke(c) \/ Leave(c) \/ serveStreaming(c) \/ ResolveLeafProxy(c) \/ Connect(c)
           \/ ConnectFails(c) \/ Receive(c) \/ ConnectionBreaks(c) \/ CancelUpstream(c)
    PROVE  InvocationInv'
<1> USE DEF InvocationInv, InvocationTypes, TurnsKept, CancelledIsOver, ReplyIsTrue, ToldIsTrue, Outcome
<1>1. CASE Invoke(c) \/ Leave(c)
  BY <1>1, SMTT(60) DEF Invoke, Leave
<1>2. CASE serveStreaming(c) \/ ResolveLeafProxy(c)
  BY <1>2, SMTT(60) DEF serveStreaming, ResolveLeafProxy, Reply
<1>3. CASE Connect(c)
  BY <1>3 DEF Connect
<1>4. CASE ConnectFails(c)
  BY <1>4, SMTT(60) DEF ConnectFails, Reply, writeIngressProxyError
<1>5. CASE Receive(c)
  BY <1>5 DEF Receive, Reply
<1>6. CASE ConnectionBreaks(c) \/ CancelUpstream(c)
  BY <1>6, SMTT(60) DEF ConnectionBreaks, CancelUpstream, Abandon, Reply, writeIngressProxyError, Alive
<1> QED
  BY <1>1, <1>2, <1>3, <1>4, <1>5, <1>6, ZenonT(60)

\* The leaf's side of a call: every error of the pool comes before the sandbox
\* sees the call, and every error of the proxy is told as a failure.
LEMMA LeafCallStep ==
    ASSUME InvocationInv, NEW c \in Call,
           \/ Lookup(c) \/ AcquireLease(c) \/ Grant(c) \/ QueueEnds(c) \/ LeaseForProxyFails(c)
           \/ ForwardToSandbox(c) \/ SandboxEnds(c) \/ ProxyEnds(c) \/ ReleaseStream(c) \/ TimeOut(c)
    PROVE  InvocationInv'
<1> USE DEF InvocationInv, InvocationTypes, TurnsKept, CancelledIsOver, ReplyIsTrue, ToldIsTrue, Outcome
<1>1. CASE Lookup(c)
  BY <1>1 DEF Lookup, Return
<1>2. CASE AcquireLease(c)
  BY <1>2 DEF AcquireLease, Return, writePoolError
<1>3. CASE Grant(c) \/ QueueEnds(c)
  BY <1>3, SMTT(60) DEF Grant, QueueEnds, Return, writePoolError
<1>4. CASE LeaseForProxyFails(c) \/ ForwardToSandbox(c) \/ SandboxEnds(c)
  BY <1>4 DEF LeaseForProxyFails, ForwardToSandbox, SandboxEnds
<1>5. CASE ProxyEnds(c)
  BY <1>5, SMTT(60) DEF ProxyEnds, Return, writeSandboxProxyError
<1>6. CASE ReleaseStream(c) \/ TimeOut(c)
  BY <1>6, SMTT(60) DEF ReleaseStream, TimeOut
<1> QED
  BY <1>1, <1>2, <1>3, <1>4, <1>5, <1>6, ZenonT(60)

\* What happens to all calls at once.
LEMMA EnvironmentStep ==
    ASSUME InvocationInv, Undeploy \/ Rescale \/ Crash \/ UNCHANGED invocationVars
    PROVE  InvocationInv'
<1> USE DEF InvocationInv, InvocationTypes, TurnsKept, CancelledIsOver, ReplyIsTrue, ToldIsTrue, Outcome
<1>1. CASE Undeploy \/ Rescale \/ UNCHANGED invocationVars
  BY <1>1, SMTT(60) DEF Undeploy, Rescale, invocationVars
<1>2. CASE Crash
  BY <1>2 DEF Crash, Alive
<1> QED
  BY <1>1, <1>2, Zenon

\* The invariant of an invocation, from the ingress to the sandbox and back.
LEMMA InvocationInvariant == InvocationSpec => []InvocationInv
<1>1. InvocationInit => InvocationInv
  BY DEF InvocationInit, InvocationInv, InvocationTypes, TurnsKept, CancelledIsOver, ReplyIsTrue,
         ToldIsTrue, Outcome
<1>2. InvocationInv /\ [InvocationNext]_invocationVars => InvocationInv'
  BY IngressStep, LeafCallStep, EnvironmentStep, Zenon DEF InvocationNext
<1> QED
  BY <1>1, <1>2, PTL DEF InvocationSpec

\* A client told of success has the function's own answer, for any number of
\* calls, queue depth and capacity (writePoolError, writeSandboxProxyError,
\* writeIngressProxyError).
THEOREM ClientToldOfSuccess == InvocationSpec => []SuccessIsAnswer
<1>1. InvocationInv => SuccessIsAnswer
  BY Zenon DEF InvocationInv, ToldIsTrue, SuccessIsAnswer
<1> QED
  BY <1>1, InvocationInvariant, PTL

\* A client that is refused may repeat the call: it reached no sandbox and will
\* reach none.
THEOREM ClientRefused == InvocationSpec => []RefusedDidNotRun
<1>1. InvocationInv => RefusedDidNotRun
  BY Zenon DEF InvocationInv, ToldIsTrue, RefusedDidNotRun
<1> QED
  BY <1>1, InvocationInvariant, PTL

----------------------------------------------------------------------------
(* WorkerSandbox.                                                          *)

Stage == {"none", "start", "insert", "signal", "wait", "ping", "undo", "forget", "created", "failed"}

WorkerTypes ==
    /\ create \in [Instance -> Stage]
    /\ stop \in [Instance -> {"none", "begun", "stopped", "gone", "failed", "ok"}]
    /\ signal \in [Instance -> {"none", "open", "early"}]
    /\ createRev \in [Instance -> Nat]
    /\ stateRevision \in Nat
    /\ running \subseteq Instance

\* A sandbox runs only once runtime.Start was called for it, and announces
\* itself only while it runs.
StartedFirst ==
    \A i \in Instance :
      /\ create[i] \in {"none", "start"} => i \notin running /\ i \notin announced
      /\ create[i] = "none" => signal[i] = "none"

\* Until its handler has waited, the channel of a sandbox is open exactly if the
\* sandbox has not announced itself.  After that it has.
SignalKept ==
    \A i \in Instance :
      /\ create[i] \in {"start", "insert", "signal", "wait"} => (signal[i] = "open" <=> i \notin announced)
      /\ create[i] \in {"ping", "created"} => i \in announced

\* Between its insertion and its removal a sandbox that runs is in the record.
\* Only a sandbox that was handed out is stopped, and one that the runtime has
\* stopped does not run again, so the record may go.
RecordKept ==
    \A i \in Instance :
      /\ create[i] \in {"signal", "wait", "ping", "created"} /\ i \in running => i \in instances
      /\ stop[i] # "none" => create[i] = "created"
      /\ stop[i] \in {"stopped", "ok"} => i \notin running

WorkerInv == WorkerTypes /\ StartedFirst /\ SignalKept /\ RecordKept

\* CreateSandbox: each step of a handler keeps the invariant.
LEMMA CreateStep ==
    ASSUME WorkerInv, NEW i \in Instance,
           \/ CreateSandbox(i) \/ RuntimeStart(i) \/ RuntimeStartFails(i) \/ InsertInstance(i)
           \/ SignalReady(i) \/ SignalServing(i) \/ WaitReady(i) \/ PingSucceeds(i) \/ PingFails(i)
           \/ ReadyTimeout(i) \/ UndoStop(i) \/ UndoForget(i) \/ CreateCancelled(i) \/ Cancel(i)
    PROVE  WorkerInv'
<1> USE DEF WorkerInv, WorkerTypes, StartedFirst, SignalKept, RecordKept, Stage, At
<1>1. CASE CreateSandbox(i)
  BY <1>1, SMTT(60) DEF CreateSandbox, AddInstance
<1>2. CASE RuntimeStart(i) \/ RuntimeStartFails(i)
  BY <1>2, SMTT(60) DEF RuntimeStart, RuntimeStartFails
<1>3. CASE InsertInstance(i)
  BY <1>3, SMTT(60) DEF InsertInstance
<1>4. CASE SignalReady(i) \/ SignalServing(i)
  BY <1>4, SMTT(60) DEF SignalReady, SignalServing, Signalled
<1>5. CASE WaitReady(i)
  BY <1>5, SMTT(60) DEF WaitReady
<1>6. CASE PingSucceeds(i) \/ PingFails(i) \/ ReadyTimeout(i) \/ CreateCancelled(i) \/ Cancel(i)
  BY <1>6, SMTT(60) DEF PingSucceeds, PingFails, ReadyTimeout, CreateCancelled, Cancel
<1>7. CASE UndoStop(i)
  BY <1>7, SMTT(60) DEF UndoStop
<1>8. CASE UndoForget(i)
  BY <1>8, SMTT(60) DEF UndoForget, removeInstance
<1> QED
  BY <1>1, <1>2, <1>3, <1>4, <1>5, <1>6, <1>7, <1>8, ZenonT(60)

\* StopSandbox, exits and the lifecycle watch.
LEMMA StopStep ==
    ASSUME WorkerInv, NEW i \in Instance,
           \/ StopSandbox(i) \/ RuntimeStop(i) \/ RuntimeStopGone(i) \/ RuntimeStopFails(i)
           \/ StopForget(i) \/ Exit(i) \/ watchLifecycle(i) \/ WatchLost(i)
    PROVE  WorkerInv'
<1> USE DEF WorkerInv, WorkerTypes, StartedFirst, SignalKept, RecordKept, Stage, StopAt
<1>1. CASE StopSandbox(i) \/ RuntimeStopGone(i) \/ RuntimeStopFails(i)
  BY <1>1, SMTT(60) DEF StopSandbox, RuntimeStopGone, RuntimeStopFails
<1>2. CASE RuntimeStop(i)
  BY <1>2, ZenonT(60) DEF RuntimeStop
<1>3. CASE StopForget(i)
  BY <1>3, SMTT(60) DEF StopForget, removeInstance
<1>4. CASE Exit(i) \/ WatchLost(i)
  BY <1>4, SMTT(60) DEF Exit, WatchLost
<1>5. CASE watchLifecycle(i)
  BY <1>5 DEF watchLifecycle, removeInstance
<1> QED
  BY <1>1, <1>2, <1>3, <1>4, <1>5, ZenonT(60)

\* The invariant of the worker's handlers.
LEMMA WorkerInvariant == WorkerSpec => []WorkerInv
<1>1. WorkerInit => WorkerInv
  BY DEF WorkerInit, WorkerInv, WorkerTypes, StartedFirst, SignalKept, RecordKept, Stage
<1>2. ASSUME WorkerInv, Received \/ UNCHANGED workerVars PROVE WorkerInv'
  BY <1>2, ZenonT(60) DEF WorkerInv, WorkerTypes, StartedFirst, SignalKept, RecordKept, Received, workerVars
<1>3. WorkerInv /\ [WorkerNext]_workerVars => WorkerInv'
  BY <1>2, CreateStep, StopStep, Zenon DEF WorkerNext, Handler
<1> QED
  BY <1>1, <1>3, PTL DEF WorkerSpec

\* No readiness signal is lost, whether it comes before or after its handler
\* waits, and no sandbox is handed out that has not announced itself, for any
\* number of sandboxes (ReadySignals, CreateSandbox).
THEOREM SignalsArrive == WorkerSpec => []NoLostSignal
<1>1. WorkerInv => NoLostSignal
  BY Zenon DEF WorkerInv, SignalKept, NoLostSignal
<1> QED
  BY <1>1, WorkerInvariant, PTL

\* A sandbox that was handed out and runs is in every snapshot of the worker
\* (CreateSandbox, StopSandbox, removeInstanceInternal).
THEOREM RunningIsRecorded == WorkerSpec => []HandedOutIsRecorded
<1>1. WorkerInv => HandedOutIsRecorded
  <2> SUFFICES ASSUME WorkerInv, NEW i \in running, create[i] = "created" PROVE i \in instances
    BY Zenon DEF HandedOutIsRecorded
  <2>1. i \in Instance
    BY Zenon DEF WorkerInv, WorkerTypes
  <2> QED
    BY <2>1, Zenon DEF WorkerInv, RecordKept
<1> QED
  BY <1>1, WorkerInvariant, PTL

----------------------------------------------------------------------------
(* The refinement: every step of a handler is a step of WorkerContract or  *)
(* leaves what the leaf sees unchanged.                                    *)


\* A handler's step moves its own phase and no other.
LEMMA CreateMoves ==
    ASSUME WorkerTypes, NEW i \in Instance, NEW to, create' = [create EXCEPT ![i] = to]
    PROVE  Creating' = [Creating EXCEPT ![i] = CreatePhase(to)]
BY Zenon DEF WorkerTypes, Creating

\* A step of StopSandbox, as the contract sees it.
LEMMA StopMoves ==
    ASSUME WorkerTypes, NEW i \in Instance, NEW to, stop' = [stop EXCEPT ![i] = to]
    PROVE  Stopping' = [Stopping EXCEPT ![i] = StopPhase(to)]
BY Zenon DEF WorkerTypes, Stopping

\* A step within one phase is not seen.
LEMMA CreateStays ==
    ASSUME WorkerTypes, NEW i \in Instance, NEW to, create' = [create EXCEPT ![i] = to],
           CreatePhase(to) = CreatePhase(create[i])
    PROVE  Creating' = Creating
<1>1. Creating' = [Creating EXCEPT ![i] = CreatePhase(to)]
  BY CreateMoves, Zenon
<1>2. Creating[i] = CreatePhase(to)
  BY Zenon DEF Creating
<1>3. Creating = [Creating EXCEPT ![i] = Creating[i]]
  BY Zenon DEF Creating
<1> QED
  BY <1>1, <1>2, <1>3, Zenon

\* The same for StopSandbox.
LEMMA StopStays ==
    ASSUME WorkerTypes, NEW i \in Instance, NEW to, stop' = [stop EXCEPT ![i] = to],
           StopPhase(to) = StopPhase(stop[i])
    PROVE  Stopping' = Stopping
<1>1. Stopping' = [Stopping EXCEPT ![i] = StopPhase(to)]
  BY StopMoves, Zenon
<1>2. Stopping[i] = StopPhase(to)
  BY Zenon DEF Stopping
<1>3. Stopping = [Stopping EXCEPT ![i] = Stopping[i]]
  BY Zenon DEF Stopping
<1> QED
  BY <1>1, <1>2, <1>3, Zenon

\* The steps of CreateSandbox.
LEMMA CreateRefines ==
    ASSUME WorkerInv, NEW i \in Instance,
           \/ CreateSandbox(i) \/ RuntimeStart(i) \/ RuntimeStartFails(i) \/ InsertInstance(i)
           \/ SignalReady(i) \/ SignalServing(i) \/ WaitReady(i) \/ PingSucceeds(i) \/ PingFails(i)
           \/ ReadyTimeout(i) \/ UndoStop(i) \/ UndoForget(i) \/ CreateCancelled(i) \/ Cancel(i)
    PROVE  [C!ContractNext]_C!workerVars
<1>0. WorkerTypes /\ Creating[i] = CreatePhase(create[i])
  BY Zenon DEF WorkerInv, Creating
<1>s. ASSUME stop' = stop PROVE Stopping' = Stopping
  BY <1>s, Zenon DEF Stopping
<1>1. CASE CreateSandbox(i)
  <2>1. Creating' = [Creating EXCEPT ![i] = "begun"] /\ Creating[i] = "none"
    BY <1>0, <1>1, CreateMoves, ZenonT(60) DEF CreateSandbox, At, CreatePhase
  <2> QED
    BY <1>1, <1>s, <2>1, Zenon DEF CreateSandbox, C!ContractNext, C!CreateCall
<1>2. CASE RuntimeStartFails(i) \/ CreateCancelled(i)
  <2>1. Creating' = [Creating EXCEPT ![i] = "failed"] /\ Creating[i] \in {"begun", "recorded"}
    BY <1>0, <1>2, CreateMoves, Zenon DEF RuntimeStartFails, CreateCancelled, At, CreatePhase
  <2> QED
    BY <1>2, <1>s, <2>1, Zenon
       DEF RuntimeStartFails, CreateCancelled, C!ContractNext, C!Worker, C!CreateFails
<1>3. CASE InsertInstance(i)
  <2>1. Creating' = [Creating EXCEPT ![i] = "recorded"] /\ Creating[i] = "begun"
    BY <1>0, <1>3, CreateMoves, Zenon DEF InsertInstance, CreatePhase
  <2> QED
    BY <1>3, <1>s, <2>1, Zenon DEF InsertInstance, C!ContractNext, C!Worker, C!Record
<1>4. CASE PingSucceeds(i)
  <2>1. Creating' = [Creating EXCEPT ![i] = "created"] /\ Creating[i] = "recorded"
    BY <1>0, <1>4, CreateMoves, Zenon DEF PingSucceeds, At, CreatePhase
  <2> QED
    BY <1>4, <1>s, <2>1, Zenon DEF PingSucceeds, C!ContractNext, C!Worker, C!Created
<1>5. CASE UndoForget(i)
  <2>1. Creating' = [Creating EXCEPT ![i] = "failed"] /\ Creating[i] = "recorded"
    BY <1>0, <1>5, CreateMoves, Zenon DEF UndoForget, At, CreatePhase
  <2> QED
    BY <1>5, <1>s, <2>1, Zenon
       DEF UndoForget, removeInstance, C!ContractNext, C!Worker, C!CreateFails, C!Forget
<1>6. CASE RuntimeStart(i) \/ SignalServing(i) \/ WaitReady(i) \/ PingFails(i) \/ ReadyTimeout(i) \/ UndoStop(i)
  <2>1. Creating' = Creating
    BY <1>0, <1>6, CreateStays, Zenon
       DEF RuntimeStart, SignalServing, WaitReady, PingFails, ReadyTimeout, UndoStop, At, CreatePhase
  <2> QED
    BY <1>6, <1>s, <2>1, Zenon
       DEF RuntimeStart, SignalServing, WaitReady, PingFails, ReadyTimeout, UndoStop, C!workerVars
<1>7. CASE SignalReady(i) \/ Cancel(i)
  BY <1>7, <1>s, Zenon DEF SignalReady, Cancel, Creating, C!workerVars
<1> QED
  BY <1>1, <1>2, <1>3, <1>4, <1>5, <1>6, <1>7, ZenonT(60)

\* The steps of StopSandbox, exits and the lifecycle watch.
LEMMA StopRefines ==
    ASSUME WorkerInv, NEW i \in Instance,
           \/ StopSandbox(i) \/ RuntimeStop(i) \/ RuntimeStopGone(i) \/ RuntimeStopFails(i)
           \/ StopForget(i) \/ Exit(i) \/ watchLifecycle(i) \/ WatchLost(i)
    PROVE  [C!ContractNext]_C!workerVars
<1>0. WorkerTypes /\ Creating[i] = CreatePhase(create[i]) /\ Stopping[i] = StopPhase(stop[i])
  BY Zenon DEF WorkerInv, Creating, Stopping
<1>c. ASSUME create' = create PROVE Creating' = Creating
  BY <1>c, Zenon DEF Creating
<1>1. CASE StopSandbox(i)
  <2>1. Stopping' = [Stopping EXCEPT ![i] = "begun"] /\ Creating[i] = "created"
    BY <1>0, <1>1, StopMoves, ZenonT(60) DEF StopSandbox, CreatePhase, StopPhase
  <2> QED
    BY <1>1, <1>c, <2>1, Zenon DEF StopSandbox, C!ContractNext, C!StopCall
<1>2. CASE RuntimeStop(i) \/ RuntimeStopFails(i)
  <2>1. Stopping' = Stopping
    BY <1>0, <1>2, StopStays, Zenon DEF RuntimeStop, RuntimeStopFails, StopAt, StopPhase
  <2> QED
    BY <1>2, <1>c, <2>1, Zenon DEF RuntimeStop, RuntimeStopFails, C!workerVars
<1>3. CASE RuntimeStopGone(i)
  <2>1. Stopping' = [Stopping EXCEPT ![i] = "gone"] /\ Stopping[i] = "begun"
    BY <1>0, <1>3, StopMoves, Zenon DEF RuntimeStopGone, StopAt, StopPhase
  <2> QED
    BY <1>3, <1>c, <2>1, ZenonT(60) DEF RuntimeStopGone, C!ContractNext, C!Worker, C!StopGone
<1>4. CASE StopForget(i)
  <2>1. Stopping' = [Stopping EXCEPT ![i] = "ok"] /\ Stopping[i] = "begun"
    BY <1>0, <1>4, StopMoves, Zenon DEF StopForget, StopAt, StopPhase
  <2> QED
    BY <1>4, <1>c, <2>1, ZenonT(60)
       DEF StopForget, removeInstance, C!ContractNext, C!Worker, C!StopOK, C!Forget
<1>5. CASE Exit(i) \/ WatchLost(i)
  BY <1>5, ZenonT(60) DEF Exit, WatchLost, Creating, Stopping, C!workerVars
<1>6. CASE watchLifecycle(i) /\ i \in instances
  <2>1. Creating' = Creating /\ Stopping' = Stopping
    BY <1>6, ZenonT(60) DEF watchLifecycle, Creating, Stopping
  <2> QED
    BY <1>6, <2>1, Zenon
       DEF watchLifecycle, removeInstance, C!ContractNext, C!Worker, C!Exited, C!Forget
<1>7. CASE watchLifecycle(i) /\ i \notin instances
  BY <1>7, Zenon DEF watchLifecycle, removeInstance, Creating, Stopping, C!workerVars
<1> QED
  BY <1>1, <1>2, <1>3, <1>4, <1>5, <1>6, <1>7, ZenonT(60)

\* The handlers of worker/sandbox.go implement the contract the leaf relies on,
\* for any number of sandboxes and any capacity of the event channel.
THEOREM WorkerKeepsContract == WorkerSpec => KeepsContract
<1>1. WorkerInit => C!WorkerInit
  BY Zenon DEF WorkerInit, C!WorkerInit, Creating, Stopping, CreatePhase, StopPhase
<1>2. ASSUME Received \/ UNCHANGED workerVars PROVE [C!ContractNext]_C!workerVars
  BY <1>2, ZenonT(60) DEF Received, C!ContractNext, C!Received, workerVars, C!workerVars, Creating, Stopping
<1>3. WorkerInv /\ [WorkerNext]_workerVars => [C!ContractNext]_C!workerVars
  BY <1>2, CreateRefines, StopRefines, Zenon DEF WorkerNext, Handler
<1> QED
  BY <1>1, <1>3, WorkerInvariant, PTL DEF WorkerSpec, KeepsContract, C!Contract

----------------------------------------------------------------------------
(* ConfigSync: a component whose stream is up does not miss the newest     *)
(* document.                                                               *)

ConfigTypes ==
    /\ backend \in {"memory", "etcd"}
    /\ revision \in Nat
    /\ docs \subseteq Nat \ {0}
    /\ session \in [Component -> {"down", "watch"}]
    /\ mailbox \in [Component -> Nat]
    /\ notify \in [Component -> BOOLEAN]
    /\ position \in [Component -> Nat]
    /\ held \in [Component -> Nat]
    /\ out \in [Component -> Seq(Nat)]
    /\ current \in [Component -> Nat]

\* The last write is the newest document; a watch starts with its session and
\* is never ahead of the store.
DocsOrdered == \A d \in docs : d <= document /\ d <= revision
DocStored == docs # {} => document \in docs
NoneStored == docs = {} => document = 0

WatchBehind ==
    \A c \in Component : /\ session[c] = "down" => position[c] = 0
                         /\ position[c] <= revision + 1

ConfigInv ==
    ConfigTypes /\ DocsOrdered /\ DocStored /\ NoneStored /\ WatchBehind /\ NewestOnItsWay

\* The same for one component, in explicit terms.
Reaches(doc, sess, cur, outs, hold, wakes, box, etcd, pos) ==
    sess = "watch" /\ doc # 0 =>
      \/ cur >= doc
      \/ \E i \in DOMAIN outs : outs[i] = doc
      \/ hold = doc
      \/ wakes /\ box = doc
      \/ etcd /\ (pos = 0 \/ pos <= doc)

ReachesNow(c) ==
    Reaches(document, session[c], current[c], out[c], held[c], notify[c], mailbox[c],
            backend = "etcd", position[c])

ReachesNext(c) ==
    Reaches(document', session'[c], current'[c], out'[c], held'[c], notify'[c], mailbox'[c],
            backend' = "etcd", position'[c])

\* NewestOnItsWay before and after a step, component by component.
LEMMA OnItsWayByComponent ==
    /\ NewestOnItsWay <=> \A c \in Component : ReachesNow(c)
    /\ NewestOnItsWay' <=> \A c \in Component : ReachesNext(c)
<1>1. ASSUME NEW c \in Component
      PROVE  /\ document \in InTransit(c) <=> \/ \E i \in DOMAIN out[c] : out[c][i] = document
                                              \/ held[c] = document
                                              \/ notify[c] /\ mailbox[c] = document
             /\ (document \in InTransit(c))' <=> \/ \E i \in DOMAIN out'[c] : out'[c][i] = document'
                                                 \/ held'[c] = document'
                                                 \/ notify'[c] /\ mailbox'[c] = document'
  BY Zenon DEF InTransit
<1>2. NewestOnItsWay <=> \A c \in Component : ReachesNow(c)
  BY <1>1, Zenon DEF NewestOnItsWay, ReachesNow, Reaches
<1>3. NewestOnItsWay' <=> \A c \in Component : ReachesNext(c)
  BY <1>1, Zenon DEF NewestOnItsWay, ReachesNext, Reaches
<1> QED
  BY <1>2, <1>3, Zenon

----------------------------------------------------------------------------
(* Writers.                                                                *)

\* A write is newer than every document before it.
LEMMA Written ==
    ASSUME ConfigInv, docs' = docs \cup {revision + 1} PROVE document' = revision + 1
<1> DEFINE S == docs'
           top == revision + 1
           m == CHOOSE d \in S : \A e \in S : e <= d
<1>1. top \in S /\ top \in Nat /\ \A e \in S : e \in Nat /\ e <= top
  BY DEF ConfigInv, ConfigTypes, DocsOrdered
<1>2. m \in S /\ \A e \in S : e <= m
  BY <1>1, Zenon
<1>3. m = top
  <2> HIDE DEF m, S, top
  <2> QED
    BY <1>1, <1>2
<1> QED
  BY <1>1, <1>3, Zenon DEF document, Newest

\* The document is a revision, or 0.
LEMMA DocumentType ==
    ASSUME ConfigInv PROVE document \in Nat
<1>1. CASE docs = {}
  BY <1>1 DEF ConfigInv, NoneStored
<1>2. CASE docs # {}
  <2>1. document \in docs
    BY <1>2, Zenon DEF ConfigInv, DocStored
  <2>2. docs \subseteq Nat
    BY Zenon DEF ConfigInv, ConfigTypes
  <2> QED
    BY <2>1, <2>2, Zenon
<1> QED
  BY <1>1, <1>2, Zenon

\* A put or a seed: memory hands the document to every watcher, and in etcd the
\* watches are not ahead of it.
LEMMA WriteStep ==
    ASSUME ConfigInv, Write(revision + 1) PROVE ConfigInv'
<1>0. /\ ConfigTypes /\ DocsOrdered /\ WatchBehind
      /\ docs' = docs \cup {revision + 1} /\ revision' = revision + 1
      /\ backend' = backend /\ session' = session /\ position' = position /\ held' = held
      /\ out' = out /\ current' = current
      /\ IF backend = "memory" THEN set(revision + 1) ELSE UNCHANGED <<mailbox, notify>>
  BY Zenon DEF ConfigInv, Write
<1>1. document' = revision + 1
  BY <1>0, Written, Zenon
<1>2. ConfigTypes'
  <2>1. mailbox' \in [Component -> Nat] /\ notify' \in [Component -> BOOLEAN]
    <3>1. CASE backend = "memory"
      <4>1. revision + 1 \in Nat
        BY <1>0 DEF ConfigTypes
      <4>2. mailbox' \in [Component -> Nat]
        BY <1>0, <3>1, <4>1 DEF ConfigTypes, set
      <4>3. notify' \in [Component -> BOOLEAN]
        BY <1>0, <3>1, Zenon DEF ConfigTypes, set
      <4> QED
        BY <4>2, <4>3, Zenon
    <3>2. CASE backend # "memory"
      BY <1>0, <3>2, Zenon DEF ConfigTypes
    <3> QED
      BY <3>1, <3>2, Zenon
  <2>2. revision' \in Nat /\ docs' \subseteq Nat \ {0}
    BY <1>0 DEF ConfigTypes
  <2> QED
    BY <1>0, <2>1, <2>2, ZenonT(60) DEF ConfigTypes
<1>3. DocsOrdered'
  <2> SUFFICES ASSUME NEW d \in docs' PROVE d <= document' /\ d <= revision'
    BY Zenon DEF DocsOrdered
  <2> QED
    BY <1>0, <1>1 DEF ConfigTypes, DocsOrdered
<1>4. DocStored' /\ NoneStored'
  BY <1>0, <1>1, Zenon DEF DocStored, NoneStored
<1>5. WatchBehind'
  BY <1>0 DEF WatchBehind, ConfigTypes
<1>6. ASSUME NEW c \in Component PROVE ReachesNext(c)
  <2>1. CASE backend = "memory" /\ session[c] = "watch"
    <3>1. mailbox'[c] = revision + 1 /\ notify'[c]
      BY <1>0, <2>1, Zenon DEF set, Watching
    <3> QED
      BY <1>1, <3>1, Zenon DEF ReachesNext, Reaches
  <2>2. CASE backend = "etcd"
    BY <1>0, <1>1, <2>2, Zenon DEF ReachesNext, Reaches, WatchBehind, ConfigTypes
  <2>3. CASE session[c] # "watch"
    BY <1>0, <2>3, Zenon DEF ReachesNext, Reaches
  <2> QED
    BY <1>0, <2>1, <2>2, <2>3, Zenon DEF ConfigTypes
<1> QED
  BY <1>2, <1>3, <1>4, <1>5, <1>6, OnItsWayByComponent, Zenon DEF ConfigInv

\* Steps that leave the documents and the watches alone.
LEMMA QuietStep ==
    ASSUME ConfigInv, UNCHANGED <<backend, docs, watchVars, current>>, revision' \in {revision, revision + 1}
    PROVE  ConfigInv'
<1>0. document' = document
  BY Zenon DEF document
<1>1. ConfigTypes'
  BY DEF ConfigInv, ConfigTypes, watchVars
<1>2. DocsOrdered' /\ DocStored' /\ NoneStored'
  BY <1>0 DEF ConfigInv, ConfigTypes, DocsOrdered, DocStored, NoneStored
<1>3. WatchBehind'
  BY DEF ConfigInv, ConfigTypes, WatchBehind, watchVars
<1>4. \A c \in Component : ReachesNext(c)
  <2>1. \A c \in Component : ReachesNow(c)
    BY OnItsWayByComponent, Zenon DEF ConfigInv
  <2> QED
    BY <1>0, <2>1, Zenon DEF ReachesNow, ReachesNext, watchVars
<1> QED
  BY <1>1, <1>2, <1>3, <1>4, OnItsWayByComponent, ZenonT(60) DEF ConfigInv

----------------------------------------------------------------------------
(* Watches and subscribers: one component moves.                           *)

OthersRest(c) ==
    \A d \in Component \ {c} :
      /\ session'[d] = session[d] /\ mailbox'[d] = mailbox[d] /\ notify'[d] = notify[d]
      /\ position'[d] = position[d] /\ held'[d] = held[d] /\ out'[d] = out[d]
      /\ current'[d] = current[d]

\* It is enough to look at the component that moves.
LEMMA OneComponent ==
    ASSUME ConfigInv, NEW c \in Component, UNCHANGED storeVars, OthersRest(c), ConfigTypes',
           session'[c] = "down" => position'[c] = 0, position'[c] <= revision + 1, ReachesNext(c)
    PROVE  ConfigInv'
<1>0. document' = document /\ backend' = backend /\ docs' = docs /\ revision' = revision
  BY Zenon DEF document, storeVars
<1>1. DocsOrdered' /\ DocStored' /\ NoneStored'
  BY <1>0, Zenon DEF ConfigInv, DocsOrdered, DocStored, NoneStored
<1>2. WatchBehind'
  <2> SUFFICES ASSUME NEW d \in Component
               PROVE  (session'[d] = "down" => position'[d] = 0) /\ position'[d] <= revision + 1
    BY <1>0, Zenon DEF WatchBehind
  <2>1. CASE d = c
    BY <2>1, Zenon
  <2>2. CASE d # c
    BY <2>2, Zenon DEF ConfigInv, WatchBehind, OthersRest
  <2> QED
    BY <2>1, <2>2, Zenon
<1>3. ASSUME NEW d \in Component PROVE ReachesNext(d)
  <2>1. CASE d = c
    BY <2>1, Zenon
  <2>2. CASE d # c
    <3>1. ReachesNow(d)
      BY OnItsWayByComponent, Zenon DEF ConfigInv
    <3> QED
      BY <1>0, <2>2, <3>1, Zenon DEF ReachesNow, ReachesNext, OthersRest
  <2> QED
    BY <2>1, <2>2, Zenon
<1> QED
  BY <1>1, <1>2, <1>3, OnItsWayByComponent, Zenon DEF ConfigInv

\* The watch opens with the document as it is, or before reading it.
LEMMA OpenStep ==
    ASSUME ConfigInv, NEW c \in Component, Watch(c) PROVE ConfigInv'
<1>0. /\ ConfigTypes /\ WatchBehind /\ UNCHANGED <<storeVars, position, held, out, current>>
      /\ session[c] = "down" /\ session' = [session EXCEPT ![c] = "watch"]
      /\ IF backend = "memory"
         THEN /\ mailbox' = [mailbox EXCEPT ![c] = document]
              /\ notify' = [notify EXCEPT ![c] = document # 0]
         ELSE UNCHANGED <<mailbox, notify>>
  BY Zenon DEF ConfigInv, Watch
<1>a. document' = document /\ document \in Nat /\ backend' = backend
  <2>1. document' = document /\ backend' = backend
    BY <1>0, Zenon DEF document, storeVars
  <2> QED
    BY <2>1, DocumentType, Zenon
<1>1. ConfigTypes'
  <2>1. mailbox' \in [Component -> Nat] /\ session' \in [Component -> {"down", "watch"}]
    BY <1>0, <1>a, ZenonT(60) DEF ConfigTypes
  <2>2. notify' \in [Component -> BOOLEAN]
    <3>1. (document # 0) \in BOOLEAN
      BY Zenon
    <3> QED
      BY <1>0, <3>1, Zenon DEF ConfigTypes
  <2> QED
    BY <1>0, <2>1, <2>2, ZenonT(60) DEF ConfigTypes, storeVars
<1>2. OthersRest(c)
  BY <1>0, ZenonT(60) DEF OthersRest, ConfigTypes
<1>3. session'[c] = "watch" /\ position'[c] = 0
  BY <1>0, Zenon DEF WatchBehind, ConfigTypes
<1>4. ReachesNext(c)
  <2>1. CASE backend = "memory"
    <3>1. mailbox'[c] = document /\ (notify'[c] <=> document # 0)
      BY <1>0, <2>1, Zenon DEF ConfigTypes
    <3> QED
      BY <1>a, <3>1, Zenon DEF ReachesNext, Reaches
  <2>2. CASE backend = "etcd"
    BY <1>3, <1>a, <2>2, Zenon DEF ReachesNext, Reaches
  <2> QED
    BY <1>0, <2>1, <2>2, Zenon DEF ConfigTypes
<1>5. position'[c] <= revision + 1
  BY <1>0, <1>3 DEF ConfigTypes
<1> QED
  BY <1>0, <1>1, <1>2, <1>3, <1>4, <1>5, OneComponent, ZenonT(60)

\* etcd: what the Get reads is held; the events after it are still to come.
LEMMA EtcdStep ==
    ASSUME ConfigInv, NEW c \in Component, WatchGet(c) \/ WatchEvent(c) PROVE ConfigInv'
<1>0. /\ ConfigTypes /\ WatchBehind /\ DocsOrdered /\ DocStored /\ NoneStored
      /\ UNCHANGED <<storeVars, session, mailbox, notify, out, current>> /\ backend = "etcd"
      /\ revision \in Nat
  BY Zenon DEF ConfigInv, ConfigTypes, WatchGet, WatchEvent
<1>a. document' = document /\ document \in Nat /\ backend' = backend
  <2>1. document' = document /\ backend' = backend
    BY <1>0, Zenon DEF document, storeVars
  <2> QED
    BY <2>1, DocumentType, Zenon
<1>b. ASSUME NEW h \in Nat, NEW n \in Nat, held' = [held EXCEPT ![c] = h],
             position' = [position EXCEPT ![c] = n], n <= revision + 1, session[c] # "down",
             h = document \/ n <= document
      PROVE  ConfigInv'
  <2>1. ConfigTypes'
    BY <1>0, <1>b, Zenon DEF ConfigTypes, storeVars
  <2>2. OthersRest(c) /\ held'[c] = h /\ position'[c] = n
    BY <1>0, <1>b, Zenon DEF OthersRest, ConfigTypes
  <2>3. ReachesNext(c)
    BY <1>0, <1>a, <1>b, <2>2, Zenon DEF ReachesNext, ReachesNow, Reaches
  <2> QED
    BY <1>0, <1>b, <2>1, <2>2, <2>3, OneComponent, Zenon
<1>1. CASE WatchGet(c)
  <2>1. /\ held' = [held EXCEPT ![c] = document]
        /\ position' = [position EXCEPT ![c] = revision + 1] /\ session[c] # "down"
    BY <1>1, Zenon DEF WatchGet
  <2>2. revision + 1 \in Nat /\ revision + 1 <= revision + 1
    BY <1>0
  <2> QED
    BY <1>a, <1>b, <2>1, <2>2, Zenon
<1>2. CASE WatchEvent(c)
  <2>1. PICK d \in docs : /\ d >= position[c]
                          /\ \A e \in docs : e >= position[c] => d <= e
                          /\ held' = [held EXCEPT ![c] = d]
                          /\ position' = [position EXCEPT ![c] = d + 1]
    BY <1>2, Zenon DEF WatchEvent
  <2>2. /\ position[c] # 0 /\ held[c] = 0 /\ session[c] # "down" /\ position[c] \in Nat
        /\ d \in Nat /\ d <= revision /\ d <= document
    BY <1>0, <1>2, Zenon DEF WatchEvent, WatchBehind, ConfigTypes, DocsOrdered
  <2>3. d = document \/ d + 1 <= document
    BY <1>a, <2>2
  <2>4. d + 1 \in Nat /\ d + 1 <= revision + 1
    BY <1>0, <2>2
  <2> QED
    BY <1>b, <2>1, <2>2, <2>3, <2>4, Zenon
<1> QED
  BY <1>1, <1>2, Zenon

\* memory: the mailbox is emptied into the goroutine's hands.
LEMMA TakeStep ==
    ASSUME ConfigInv, NEW c \in Component, take(c) PROVE ConfigInv'
<1>0. /\ ConfigTypes /\ WatchBehind /\ ReachesNow(c) /\ notify[c] /\ held[c] = 0
      /\ UNCHANGED <<storeVars, session, position, out, current>>
      /\ notify' = [notify EXCEPT ![c] = FALSE]
      /\ held' = [held EXCEPT ![c] = mailbox[c]]
      /\ mailbox' = [mailbox EXCEPT ![c] = 0]
  BY OnItsWayByComponent, Zenon DEF ConfigInv, take
<1>a. document' = document /\ backend' = backend
  BY <1>0, Zenon DEF document, storeVars
<1>1. ConfigTypes'
  <2>1. held' \in [Component -> Nat] /\ mailbox' \in [Component -> Nat]
    BY <1>0, Zenon DEF ConfigTypes
  <2>2. notify' \in [Component -> BOOLEAN]
    BY <1>0, Zenon DEF ConfigTypes
  <2> QED
    BY <1>0, <2>1, <2>2, Zenon DEF ConfigTypes, storeVars
<1>2. OthersRest(c) /\ held'[c] = mailbox[c]
  BY <1>0, Zenon DEF OthersRest, ConfigTypes
<1>3. ReachesNext(c)
  BY <1>0, <1>2, <1>a, Zenon DEF ReachesNow, ReachesNext, Reaches
<1> QED
  BY <1>0, <1>1, <1>2, <1>3, OneComponent, Zenon DEF WatchBehind

\* Send moves the held document to the end of the stream.
LEMMA SendStep ==
    ASSUME ConfigInv, NEW c \in Component, Send(c) PROVE ConfigInv'
<1>0. /\ ConfigTypes /\ WatchBehind /\ ReachesNow(c)
      /\ UNCHANGED <<storeVars, session, mailbox, notify, position, current>>
      /\ out' = [out EXCEPT ![c] = Append(@, held[c])]
      /\ held' = [held EXCEPT ![c] = 0]
  BY OnItsWayByComponent, Zenon DEF ConfigInv, Send
<1>a. document' = document /\ backend' = backend
  BY <1>0, Zenon DEF document, storeVars
<1>1. out[c] \in Seq(Nat) /\ held[c] \in Nat
  BY <1>0, Zenon DEF ConfigTypes
<1>2. /\ Append(out[c], held[c]) \in Seq(Nat)
      /\ DOMAIN Append(out[c], held[c]) = 1..Len(out[c]) + 1
      /\ DOMAIN out[c] = 1..Len(out[c]) /\ Len(out[c]) \in Nat
      /\ Append(out[c], held[c])[Len(out[c]) + 1] = held[c]
      /\ \A i \in 1..Len(out[c]) : Append(out[c], held[c])[i] = out[c][i]
  BY <1>1
<1>3. ConfigTypes'
  BY <1>0, <1>2, Zenon DEF ConfigTypes, storeVars
<1>4. OthersRest(c) /\ out'[c] = Append(out[c], held[c])
  BY <1>0, Zenon DEF OthersRest, ConfigTypes
<1>5. /\ \A i \in DOMAIN out[c] : i \in DOMAIN out'[c] /\ out'[c][i] = out[c][i]
      /\ Len(out[c]) + 1 \in DOMAIN out'[c] /\ out'[c][Len(out[c]) + 1] = held[c]
  BY <1>2, <1>4
<1>6. ReachesNext(c)
  BY <1>0, <1>5, <1>a, Zenon DEF ReachesNow, ReachesNext, Reaches
<1> QED
  BY <1>0, <1>3, <1>4, <1>6, OneComponent, Zenon DEF WatchBehind

\* A stream that breaks loses everything, and its session is down.
LEMMA BreakStep ==
    ASSUME ConfigInv, NEW c \in Component, Break(c) PROVE ConfigInv'
<1>0. /\ ConfigTypes /\ UNCHANGED <<storeVars, current>>
      /\ session' = [session EXCEPT ![c] = "down"]
      /\ mailbox' = [mailbox EXCEPT ![c] = 0]
      /\ notify' = [notify EXCEPT ![c] = FALSE]
      /\ position' = [position EXCEPT ![c] = 0]
      /\ held' = [held EXCEPT ![c] = 0]
      /\ out' = [out EXCEPT ![c] = <<>>]
  BY Zenon DEF ConfigInv, Break
<1>1. ConfigTypes'
  <2>1. /\ mailbox' \in [Component -> Nat] /\ held' \in [Component -> Nat] /\ position' \in [Component -> Nat]
        /\ session' \in [Component -> {"down", "watch"}] /\ out' \in [Component -> Seq(Nat)]
    BY <1>0 DEF ConfigTypes
  <2>2. notify' \in [Component -> BOOLEAN]
    BY <1>0, Zenon DEF ConfigTypes
  <2> QED
    BY <1>0, <2>1, <2>2, Zenon DEF ConfigTypes, storeVars
<1>2. OthersRest(c) /\ session'[c] = "down" /\ position'[c] = 0
  BY <1>0, Zenon DEF OthersRest, ConfigTypes
<1>3. ReachesNext(c)
  BY <1>2, Zenon DEF ReachesNext, Reaches
<1>4. position'[c] <= revision + 1
  BY <1>0, <1>2 DEF ConfigTypes
<1> QED
  BY <1>0, <1>1, <1>2, <1>3, <1>4, OneComponent, ZenonT(60)

\* The first document of a stream is taken; the others stay on their way.
LEMMA TailKeeps ==
    ASSUME NEW q \in Seq(Nat), q # <<>>
    PROVE  /\ Head(q) \in Nat /\ Tail(q) \in Seq(Nat)
           /\ \A i \in DOMAIN q : q[i] # Head(q) => \E j \in DOMAIN Tail(q) : Tail(q)[j] = q[i]
<1>1. /\ Head(q) \in Nat /\ Tail(q) \in Seq(Nat) /\ Head(q) = q[1] /\ Len(q) \in Nat
      /\ DOMAIN q = 1..Len(q) /\ DOMAIN Tail(q) = 1..Len(q) - 1
      /\ \A j \in 1..Len(q) - 1 : Tail(q)[j] = q[j + 1]
  OBVIOUS
<1>2. ASSUME NEW i \in DOMAIN q, q[i] # Head(q) PROVE \E j \in DOMAIN Tail(q) : Tail(q)[j] = q[i]
  <2>1. i - 1 \in 1..Len(q) - 1 /\ (i - 1) + 1 = i
    BY <1>1, <1>2
  <2>2. Tail(q)[i - 1] = q[i]
    BY <1>1, <2>1, Zenon
  <2> QED
    BY <1>1, <2>1, <2>2, Zenon
<1> QED
  BY <1>1, <1>2, Zenon

\* What is older than a component's document is not the newest.
LEMMA OlderIsNotNewest ==
    ASSUME NEW old \in Nat, NEW now \in Nat, NEW d \in Nat, NEW newest \in Nat,
           now >= d, now >= old, ~(now >= newest)
    PROVE  ~(old >= newest) /\ d # newest
  OBVIOUS

\* The subscriber receives the first document on its way and keeps the newer.
LEMMA ReceiveStep ==
    ASSUME ConfigInv, NEW c \in Component, RecvConfig(c, Head(out[c])) PROVE ConfigInv'
<1> DEFINE d == Head(out[c])
<1>0. /\ ConfigTypes /\ WatchBehind /\ ReachesNow(c) /\ out[c] # <<>>
      /\ UNCHANGED <<storeVars, session, mailbox, notify, position, held>>
      /\ out' = [out EXCEPT ![c] = Tail(@)]
      /\ current' = IF d > current[c] THEN [current EXCEPT ![c] = d] ELSE current
  BY OnItsWayByComponent, Zenon DEF ConfigInv, RecvConfig, Accepts
<1>a. document' = document /\ backend' = backend /\ document \in Nat
  <2>1. document' = document /\ backend' = backend
    BY <1>0, Zenon DEF document, storeVars
  <2> QED
    BY <2>1, DocumentType, Zenon
<1>1. out[c] \in Seq(Nat) /\ current[c] \in Nat
  BY <1>0, Zenon DEF ConfigTypes
<1>2. /\ d \in Nat /\ Tail(out[c]) \in Seq(Nat)
      /\ \A i \in DOMAIN out[c] :
           out[c][i] # d => \E j \in DOMAIN Tail(out[c]) : Tail(out[c])[j] = out[c][i]
  BY <1>0, <1>1, TailKeeps, Zenon
<1> HIDE DEF d
<1>3. ConfigTypes'
  BY <1>0, <1>2, Zenon DEF ConfigTypes, storeVars
<1>4. OthersRest(c) /\ out'[c] = Tail(out[c])
  BY <1>0, Zenon DEF OthersRest, ConfigTypes
<1>5. current'[c] \in Nat /\ current'[c] >= d /\ current'[c] >= current[c]
  BY <1>0, <1>1, <1>2 DEF ConfigTypes
<1>6. ReachesNext(c)
  <2> SUFFICES ASSUME session'[c] = "watch", document # 0, ~(current'[c] >= document)
               PROVE  \/ \E i \in DOMAIN out'[c] : out'[c][i] = document
                      \/ held[c] = document
                      \/ notify[c] /\ mailbox[c] = document
                      \/ backend = "etcd" /\ (position[c] = 0 \/ position[c] <= document)
    BY <1>0, <1>a, Zenon DEF ReachesNext, Reaches
  <2>1. ~(current[c] >= document) /\ d # document
    BY <1>1, <1>2, <1>5, <1>a, OlderIsNotNewest, Zenon
  <2>2. session[c] = "watch"
    BY <1>0, Zenon
  <2> QED
    BY <1>0, <1>2, <1>4, <2>1, <2>2, Zenon DEF ReachesNow, Reaches
<1> QED
  BY <1>0, <1>3, <1>4, <1>6, OneComponent, Zenon DEF WatchBehind

----------------------------------------------------------------------------
\* Every step of the control plane, of the watches and of the components.
LEMMA ConfigStep ==
    ASSUME ConfigInv, theLeaf \in Component \cup {NoLeaf}, [Next]_vars PROVE ConfigInv'
<1>1. ASSUME NEW w \in Writer, WriterStep(w) PROVE ConfigInv'
  <2>1. ASSUME NEW expected \in {0, known[w]}, PutPlatformConfig(w, expected) PROVE ConfigInv'
    BY <2>1, WriteStep, Zenon DEF PutPlatformConfig
  <2>2. CASE GetPlatformConfig(w) \/ ReadBack(w)
    BY <2>2, QuietStep, Zenon DEF GetPlatformConfig, ReadBack
  <2> QED
    BY <1>1, <2>1, <2>2, Zenon DEF WriterStep
<1>2. ASSUME NEW r \in Replica, ServerStart(r) PROVE ConfigInv'
  <2>1. CASE SeedPut(r)
    BY <2>1, WriteStep, Zenon DEF SeedPut
  <2>2. CASE SeedCheck(r)
    BY <2>2, QuietStep, Zenon DEF SeedCheck
  <2> QED
    BY <1>2, <2>1, <2>2, Zenon DEF ServerStart
<1>3. CASE OtherWrite
  BY <1>3, QuietStep, Zenon DEF OtherWrite
<1>4. ASSUME NEW c \in Component, WatchStep(c) \/ Break(c) PROVE ConfigInv'
  BY <1>4, OpenStep, EtcdStep, TakeStep, SendStep, BreakStep, Zenon DEF WatchStep
<1>5. ASSUME NEW c \in Component, IngressReceives(c) PROVE ConfigInv'
  BY <1>5, ReceiveStep, Zenon DEF IngressReceives
<1>6. CASE UNCHANGED configVars
  BY <1>6, QuietStep, Zenon DEF configVars, storeVars
<1>7. CASE Deliver
  BY <1>1, <1>2, <1>3, <1>4, <1>7, Zenon DEF Deliver
<1>8. ASSUME NEW c \in Component, IngressApplied(c) PROVE ConfigInv'
  BY <1>6, <1>8, Zenon DEF IngressApplied
<1>9. ASSUME NEW w \in Worker, Stream(w) \/ Sampler(w) PROVE ConfigInv'
  BY <1>6, <1>9, Zenon
     DEF Stream, Sampler, StreamDial, StreamBreak, StreamRecv, StreamUpdate, LateUpdate, SamplerTick,
         SendState, SendStateDrain, SendStateRefill, streamOnly
<1>10. CASE WakeLoop \/ ReloadBegin \/ ReloadReset \/ ReloadStart \/ ReloadInstall
  BY <1>6, <1>10, Zenon DEF WakeLoop, ReloadBegin, ReloadReset, ReloadStart, ReloadInstall
<1>11. CASE UNCHANGED vars
  BY <1>6, <1>11, Zenon DEF vars
<1>12. CASE LeafReceives
  <2>1. theLeaf \in Component /\ RecvConfig(theLeaf, Head(out[theLeaf]))
    BY <1>12, Zenon DEF LeafReceives
  <2> QED
    BY <2>1, ReceiveStep, Zenon
<1> QED
  BY <1>5, <1>7, <1>8, <1>9, <1>10, <1>11, <1>12, ZenonT(60) DEF Next, LeafStep

\* Which component is the leaf does not change.
LEMMA LeafStays ==
    ASSUME [Next]_vars PROVE theLeaf' = theLeaf
<1>1. CASE Next
  <2>1. CASE \E c \in Component : IngressReceives(c) \/ IngressApplied(c)
    BY <2>1, Zenon DEF IngressReceives, IngressApplied
  <2>2. CASE \E w \in Worker : Stream(w) \/ Sampler(w)
    BY <2>2, Zenon
       DEF Stream, Sampler, StreamDial, StreamBreak, StreamRecv, StreamUpdate, LateUpdate, SamplerTick,
           SendState, SendStateDrain, SendStateRefill, streamOnly, ingressVars
  <2>3. CASE LeafStep
    BY <2>3, Zenon
       DEF LeafStep, LeafReceives, WakeLoop, ReloadBegin, ReloadReset, ReloadStart, ReloadInstall,
           ingressVars
  <2>4. CASE Deliver
    BY <2>4, Zenon DEF Deliver, ingressVars
  <2> QED
    BY <1>1, <2>1, <2>2, <2>3, <2>4, ZenonT(60) DEF Next
<1>2. CASE UNCHANGED vars
  BY <1>2, Zenon DEF vars, ingressVars
<1> QED
  BY <1>1, <1>2, Zenon

\* A component whose stream is up never misses the newest document, for any
\* number of writers, replicas, components and broken streams (configWatcher's
\* mailbox, the etcd watch from the revision of the Get, ConfigSubscriber).
THEOREM NewestArrives == Spec => []NewestOnItsWay
<1> DEFINE Inv == ConfigInv /\ theLeaf \in Component \cup {NoLeaf}
<1>1. Init => Inv
  <2> SUFFICES ASSUME Init PROVE Inv
    BY Zenon
  <2>1. document = 0
    BY Zenon DEF Init, ConfigInit, document, Newest
  <2>2. ConfigTypes
    <3>1. backend \in {"memory", "etcd"}
      BY ConfigAssumption, Zenon DEF Init, ConfigInit
    <3>2. notify \in [Component -> BOOLEAN]
      BY Zenon DEF Init, ConfigInit
    <3> QED
      BY <3>1, <3>2 DEF Init, ConfigInit, ConfigTypes
  <2>3. DocsOrdered /\ DocStored /\ NoneStored /\ WatchBehind
    BY <2>1 DEF Init, ConfigInit, DocsOrdered, DocStored, NoneStored, WatchBehind
  <2>4. NewestOnItsWay
    BY <2>1, Zenon DEF NewestOnItsWay
  <2> QED
    BY <2>2, <2>3, <2>4, Zenon DEF ConfigInv, Init
<1>2. Inv /\ [Next]_vars => Inv'
  BY ConfigStep, LeafStays, Zenon
<1>3. Inv => NewestOnItsWay
  BY Zenon DEF ConfigInv
<1> HIDE DEF Inv
<1> QED
  BY <1>1, <1>2, <1>3, PTL DEF Spec

==============================================================================
