----------------------------- MODULE Invocation -----------------------------
(***************************************************************************)
(* The path of one invocation: client, ingress front end, leaf front end,  *)
(* lease of a sandbox, and the answer back (ingress/http.go, leaf/http.go  *)
(* and the two gRPC proxies).  Each hop may break, the client may leave,   *)
(* the request may time out, the function may be deleted and the leaf may  *)
(* restart at any moment.                                                  *)
(*                                                                         *)
(* Routing is RoutingPolicies' subject and the pool is SandboxPool's: here *)
(* a pick succeeds or not and the pool has slots and a queue.  A reply is  *)
(* decided when its header is sent; a body that breaks off later is not    *)
(* modelled.  Outcomes are classes of replies:                             *)
(*   "refused"  400, 404, 429, 501, 503; NotFound, InvalidArgument and     *)
(*              Unimplemented of gRPC                                      *)
(*   "timeout"  504          "failed"  502; every other gRPC error         *)
(*   "answer"   the function's own reply, whatever its status              *)
(*   "empty"    200 without content: what net/http sends for a handler     *)
(*              that returns without writing                               *)
(***************************************************************************)
EXTENDS Integers, FiniteSets

CONSTANTS
    Call,      \* invocations
    Slots,     \* bound: requests the function's sandboxes take at once
    QueueDepth \* requests that may wait for a slot

VARIABLES
    protocol, \* call: "http" or "grpc"
    client,   \* call: "idle", "waiting", "gone" or the outcome received
    front,    \* call: the ingress: "idle", "pick", "dial", "wait", "done"
    handler,  \* call: the leaf: "none", "lookup", "acquire", "queued", "leased", "done", "crashed"
    reqCtx,   \* call: the leaf's request context: "live", "cancelled", "expired"
    leased,   \* calls that hold a lease
    ran,      \* call: at the sandbox: "no", "running", "answered", "lost"
    answer,   \* call: the leaf's reply on its way, or "none"
    deployed, \* the leaf has the function
    capacity  \* requests the function's current sandboxes take at once

invocationVars == <<protocol, client, front, handler, reqCtx, leased, ran, answer, deployed, capacity>>

InvocationInit ==
    /\ protocol \in [Call -> {"http", "grpc"}]
    /\ client = [c \in Call |-> "idle"]
    /\ front = [c \in Call |-> "idle"]
    /\ handler = [c \in Call |-> "none"]
    /\ reqCtx = [c \in Call |-> "live"]
    /\ leased = {}
    /\ ran = [c \in Call |-> "no"]
    /\ answer = [c \in Call |-> "none"]
    /\ deployed = TRUE
    /\ capacity = 0

----------------------------------------------------------------------------
(* The client and the ingress.                                             *)

Invoke(c) ==
    /\ client[c] = "idle"
    /\ client' = [client EXCEPT ![c] = "waiting"]
    /\ front' = [front EXCEPT ![c] = "pick"]
    /\ UNCHANGED <<protocol, handler, reqCtx, leased, ran, answer, deployed, capacity>>

Leave(c) ==
    /\ client[c] = "waiting"
    /\ client' = [client EXCEPT ![c] = "gone"]
    /\ UNCHANGED <<protocol, front, handler, reqCtx, leased, ran, answer, deployed, capacity>>

\* The ingress is done with the call; a client that left gets nothing.
Reply(c, outcome) ==
    /\ front' = [front EXCEPT ![c] = "done"]
    /\ client' = [client EXCEPT ![c] = IF @ = "waiting" THEN outcome ELSE @]

\* Headers, pick of a leaf, and its HTTP address.
serveStreaming(c) ==
    /\ front[c] = "pick" /\ protocol[c] = "http"
    /\ \/ Reply(c, "refused")
       \/ front' = [front EXCEPT ![c] = "dial"] /\ UNCHANGED client
    /\ UNCHANGED <<protocol, handler, reqCtx, leased, ran, answer, deployed, capacity>>

\* The gRPC proxy's director: metadata, pick of a leaf, and its proxy's address.
ResolveLeafProxy(c) ==
    /\ front[c] = "pick" /\ protocol[c] = "grpc"
    /\ \/ \E outcome \in {"refused", "failed"} : Reply(c, outcome)
       \/ front' = [front EXCEPT ![c] = "dial"] /\ UNCHANGED client
    /\ UNCHANGED <<protocol, handler, reqCtx, leased, ran, answer, deployed, capacity>>

Connect(c) ==
    /\ front[c] = "dial"
    /\ front' = [front EXCEPT ![c] = "wait"]
    /\ handler' = [handler EXCEPT ![c] = "lookup"]
    /\ UNCHANGED <<protocol, client, reqCtx, leased, ran, answer, deployed, capacity>>

\* Mutant: every failure is answered like a failed dial.
writeIngressProxyErrorRefused(c, error) ==
    CASE protocol[c] = "grpc" -> "failed"
      [] error = "cancelled" -> "empty"
      [] OTHER -> "refused"

\* A dial that times out is an error of both kinds, and the deadline is looked
\* at first.  gRPC has one status for all of them.
writeIngressProxyError(c, error) ==
    CASE protocol[c] = "grpc" -> "failed"
      [] protocol[c] = "http" /\ error = "cancelled" -> "empty"
      [] protocol[c] = "http" /\ error = "dialTimeout" -> "timeout"
      [] protocol[c] = "http" /\ error = "dial" -> "refused"
      [] OTHER -> "failed"

ConnectFails(c) ==
    /\ front[c] = "dial"
    /\ \E error \in {"dial", "dialTimeout"} : Reply(c, writeIngressProxyError(c, error))
    /\ UNCHANGED <<protocol, handler, reqCtx, leased, ran, answer, deployed, capacity>>

\* The call to the leaf ends with its answer; or it breaks, or the client left:
\* then the leaf's context is cancelled.
Receive(c) ==
    /\ front[c] = "wait"
    /\ answer[c] # "none"
    /\ Reply(c, answer[c])
    /\ UNCHANGED <<protocol, handler, reqCtx, leased, ran, answer, deployed, capacity>>

Alive(c) == handler[c] \in {"lookup", "acquire", "queued", "leased"}

Abandon(c, error) ==
    /\ front[c] = "wait"
    /\ Reply(c, writeIngressProxyError(c, error))
    /\ reqCtx' = [reqCtx EXCEPT ![c] = IF Alive(c) /\ @ = "live" THEN "cancelled" ELSE @]
    /\ UNCHANGED <<protocol, handler, leased, ran, answer, deployed, capacity>>

ConnectionBreaks(c) == Abandon(c, "broken")

CancelUpstream(c) == client[c] = "gone" /\ Abandon(c, "cancelled")

----------------------------------------------------------------------------
(* The leaf.                                                               *)

\* The handler returns.  An http lease is released as it does; a gRPC one when
\* the stream's context, which ends with the handler, is noticed.
Return(c, outcome) ==
    /\ handler' = [handler EXCEPT ![c] = "done"]
    /\ answer' = [answer EXCEPT ![c] = outcome]
    /\ leased' = IF protocol[c] = "http" THEN leased \ {c} ELSE leased

\* Errors of the pool: http tells them apart and writes nothing for a cancelled
\* request; gRPC returns them as they are, without a status of their own.
writePoolError(c, error) ==
    CASE protocol[c] = "grpc" -> "failed"
      [] error = "cancelled" -> "empty"
      [] error = "expired" -> "timeout"
      [] OTHER -> "refused"

\* The request, its function and the function's protocol; the context with the
\* timeout is made next.
Lookup(c) ==
    /\ handler[c] = "lookup"
    /\ \/ deployed /\ handler' = [handler EXCEPT ![c] = "acquire"] /\ UNCHANGED <<answer, leased>>
       \/ Return(c, "refused")
    /\ UNCHANGED <<protocol, client, front, reqCtx, ran, deployed, capacity>>

Queue == {c \in Call : handler[c] = "queued"}

\* Acquire of the pool: a slot, a place in the queue, or an error.
AcquireLease(c) ==
    /\ handler[c] = "acquire"
    /\ CASE reqCtx[c] # "live" -> Return(c, writePoolError(c, reqCtx[c]))
         [] reqCtx[c] = "live" /\ ~deployed -> Return(c, writePoolError(c, "closed"))
         [] reqCtx[c] = "live" /\ deployed /\ Queue = {} /\ Cardinality(leased) < capacity ->
              /\ handler' = [handler EXCEPT ![c] = "leased"]
              /\ leased' = leased \cup {c}
              /\ UNCHANGED answer
         [] OTHER ->
              IF Cardinality(Queue) < QueueDepth
              THEN handler' = [handler EXCEPT ![c] = "queued"] /\ UNCHANGED <<leased, answer>>
              ELSE Return(c, writePoolError(c, "full"))
    /\ UNCHANGED <<protocol, client, front, reqCtx, ran, deployed, capacity>>

Grant(c) ==
    /\ handler[c] = "queued"
    /\ deployed /\ reqCtx[c] = "live" /\ Cardinality(leased) < capacity
    /\ handler' = [handler EXCEPT ![c] = "leased"]
    /\ leased' = leased \cup {c}
    /\ UNCHANGED <<protocol, client, front, reqCtx, ran, answer, deployed, capacity>>

QueueEnds(c) ==
    /\ handler[c] = "queued"
    /\ \/ reqCtx[c] # "live" /\ Return(c, writePoolError(c, reqCtx[c]))
       \/ ~deployed /\ Return(c, writePoolError(c, "closed"))
    /\ UNCHANGED <<protocol, client, front, reqCtx, ran, deployed, capacity>>

\* LeaseForProxy gives the lease back when it cannot make a connection.
LeaseForProxyFails(c) ==
    /\ handler[c] = "leased" /\ protocol[c] = "grpc" /\ ran[c] = "no"
    /\ handler' = [handler EXCEPT ![c] = "done"]
    /\ answer' = [answer EXCEPT ![c] = "failed"]
    /\ leased' = leased \ {c}
    /\ UNCHANGED <<protocol, client, front, reqCtx, ran, deployed, capacity>>

ForwardToSandbox(c) ==
    /\ handler[c] = "leased" /\ ran[c] = "no"
    /\ ran' = [ran EXCEPT ![c] = "running"]
    /\ UNCHANGED <<protocol, client, front, handler, reqCtx, leased, answer, deployed, capacity>>

\* The sandbox answers, or is gone; forwarding to one that is gone fails too.
SandboxEnds(c) ==
    /\ ran[c] = "running"
    /\ \E end \in {"answered", "lost"} : ran' = [ran EXCEPT ![c] = end]
    /\ UNCHANGED <<protocol, client, front, handler, reqCtx, leased, answer, deployed, capacity>>

\* Mutant: a timeout is taken for a cancelled request.
writeSandboxProxyErrorSilent(c, error) ==
    CASE protocol[c] = "grpc" -> "failed"
      [] error \in {"cancelled", "expired"} -> "empty"
      [] OTHER -> "failed"

writeSandboxProxyError(c, error) ==
    CASE protocol[c] = "grpc" -> "failed"
      [] error = "cancelled" -> "empty"
      [] error \in {"expired", "netTimeout"} -> "timeout"
      [] OTHER -> "failed"

\* The proxy ends with the sandbox's answer or with an error: no connection to
\* it, a connection that broke or timed out, or a context that is done.
ProxyEnds(c) ==
    /\ handler[c] = "leased"
    /\ \/ ran[c] = "answered" /\ Return(c, "answer")
       \/ ran[c] \in {"no", "lost"}
          /\ \E error \in {"lost", "netTimeout"} : Return(c, writeSandboxProxyError(c, error))
       \/ reqCtx[c] # "live" /\ Return(c, writeSandboxProxyError(c, reqCtx[c]))
    /\ UNCHANGED <<protocol, client, front, reqCtx, ran, deployed, capacity>>

\* The goroutine of GetConnection, once the stream's context is done.
ReleaseStream(c) ==
    /\ protocol[c] = "grpc" /\ c \in leased
    /\ handler[c] = "done" \/ reqCtx[c] # "live"
    /\ leased' = leased \ {c}
    /\ UNCHANGED <<protocol, client, front, handler, reqCtx, ran, answer, deployed, capacity>>

\* The function's request timeout, which only the http handler sets.
TimeOut(c) ==
    /\ protocol[c] = "http" /\ handler[c] \in {"acquire", "queued", "leased"}
    /\ reqCtx[c] = "live"
    /\ reqCtx' = [reqCtx EXCEPT ![c] = "expired"]
    /\ UNCHANGED <<protocol, client, front, handler, leased, ran, answer, deployed, capacity>>

\* Deletion of the function: its pool closes.
Undeploy ==
    /\ deployed
    /\ deployed' = FALSE
    /\ UNCHANGED <<protocol, client, front, handler, reqCtx, leased, ran, answer, capacity>>

\* Sandboxes come and go.
Rescale ==
    /\ \E n \in 0..Slots : n # capacity /\ capacity' = n
    /\ UNCHANGED <<protocol, client, front, handler, reqCtx, leased, ran, answer, deployed>>

\* The leaf's process ends: handlers, leases and unsent replies are lost, and
\* the calls waiting for them break.
Crash ==
    /\ \E c \in Call : Alive(c)
    /\ handler' = [c \in Call |-> IF Alive(c) THEN "crashed" ELSE handler[c]]
    /\ leased' = {}
    /\ answer' = [c \in Call |-> IF front[c] = "wait" THEN "none" ELSE answer[c]]
    /\ UNCHANGED <<protocol, client, front, reqCtx, ran, deployed, capacity>>

InvocationNext ==
    \/ \E c \in Call :
         \/ Invoke(c) \/ Leave(c)
         \/ serveStreaming(c) \/ ResolveLeafProxy(c) \/ Connect(c) \/ ConnectFails(c)
         \/ Receive(c) \/ ConnectionBreaks(c) \/ CancelUpstream(c)
         \/ Lookup(c) \/ AcquireLease(c) \/ Grant(c) \/ QueueEnds(c)
         \/ LeaseForProxyFails(c) \/ ForwardToSandbox(c) \/ SandboxEnds(c) \/ ProxyEnds(c)
         \/ ReleaseStream(c) \/ TimeOut(c)
    \/ Undeploy
    \/ Rescale
    \/ Crash

InvocationSpec == InvocationInit /\ [][InvocationNext]_invocationVars

----------------------------------------------------------------------------
\* A client that is told of success got the function's own answer: the handlers
\* that return without writing, and so send an empty 200, do so only towards a
\* caller that is gone (writePoolError, writeSandboxProxyError,
\* writeIngressProxyError).
SuccessIsAnswer ==
    \A c \in Call : /\ client[c] # "empty"
                    /\ client[c] = "answer" => ran[c] = "answered"

\* A client that is refused may send the call again: it did not reach a sandbox.
\* A dial failure is a 503 because it "happened before the leaf could accept the
\* request", a failure after the request may have been dispatched is a 502.
RefusedDidNotRun == \A c \in Call : client[c] = "refused" => ran[c] = "no"
=============================================================================
