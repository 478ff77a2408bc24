------------------------------- MODULE Docker -------------------------------
(***************************************************************************)
(* The docker runtime.  The daemon owns the networks; the runtime keeps    *)
(* the container ids of the instances it started, and finds one it has     *)
(* forgotten by its label.                                                 *)
(***************************************************************************)
EXTENDS SandboxRuntime

VARIABLES
    container,   \* instances that have a container in the daemon
    listening    \* instances whose events the lifecycle watcher receives

dkVars == <<container, listening>>

DockerInit == container = {} /\ listening = {}

dkStart(i) ==
    /\ pc[i] = "new"
    /\ \/ Goto(i, "created") /\ container' = container \cup {i}
       \/ Goto(i, "failed") /\ UNCHANGED container
    /\ UNCHANGED <<configVars, imageVars, orphans, poolVars, net, proc, place, front, known, teardowns, listening>>

\* ContainerStart, and the address of the published port.
containerStart(i) ==
    /\ pc[i] = "created"
    /\ proc' = [proc EXCEPT ![i] = "up"]
    /\ known' = known \cup {i}
    /\ Goto(i, "running")
    /\ UNCHANGED <<configVars, imageVars, orphans, poolVars, net, place, front, teardowns, dkVars>>

\* Either fails: the container is removed by force, and nobody looks whether
\* that worked.
containerStartFails(i) ==
    /\ pc[i] = "created"
    /\ container' \in {container, container \ {i}}
    /\ Goto(i, "failed")
    /\ UNCHANGED <<configVars, imageVars, orphans, poolVars, net, proc, place, front, known, teardowns, listening>>

\* monitorContainer subscribes, and sees what happens from then on.
monitorContainer(i) ==
    /\ pc[i] = "running" /\ i \in known
    /\ i \notin listening
    /\ listening' = listening \cup {i}
    /\ UNCHANGED <<configVars, imageVars, orphans, poolVars, pc, net, proc, place, front, known, teardowns, container>>

\* The container dies; a watcher that listens forgets the instance.
containerDies(i) ==
    /\ ProcessExits(i)
    /\ UNCHANGED dkVars

dkWatchLifecycle(i) ==
    /\ i \in listening /\ proc[i] = "gone"
    /\ listening' = listening \ {i}
    /\ known' = known \ {i}
    /\ UNCHANGED <<configVars, imageVars, orphans, poolVars, pc, net, proc, place, front, teardowns, container>>

\* In the map or found by its label.
containerID(i) == i \in known \/ i \in container

\* ContainerStop, ContainerWait, ContainerRemove.
dkStop(i) ==
    /\ pc[i] = "running"
    /\ containerID(i)
    /\ proc' = [proc EXCEPT ![i] = "gone"]
    /\ container' = container \ {i}
    /\ known' = known \ {i}
    /\ Goto(i, "stopped")
    /\ UNCHANGED <<configVars, imageVars, orphans, poolVars, net, place, front, teardowns, listening>>

\* One of them fails or the caller's deadline passes; the entry is kept.
dkStopFails(i) ==
    /\ pc[i] = "running"
    /\ containerID(i)
    /\ \E dead \in BOOLEAN : proc' = IF dead THEN [proc EXCEPT ![i] = "gone"] ELSE proc
    /\ UNCHANGED <<configVars, imageVars, orphans, poolVars, pc, net, place, front, known, teardowns, dkVars>>

dkInstance(i) == containerStart(i) \/ containerStartFails(i) \/ dkWatchLifecycle(i)

DockerNext ==
    /\ runtime = "docker"
    /\ \E i \in Instance :
         dkStart(i) \/ dkInstance(i) \/ monitorContainer(i) \/ containerDies(i) \/ dkStop(i) \/ dkStopFails(i)

=============================================================================
