-------------------------------- MODULE Runc --------------------------------
(***************************************************************************)
(* The runc runtime with network isolation.  The pool is filled once and   *)
(* never replenished; an exit is only reported, and the network and the    *)
(* proxy stay with the instance until Stop.                                *)
(***************************************************************************)
EXTENDS SandboxRuntime

runcPrepare(i) == Fetch(i, "bundle")
runcPrepared(i) == FetchEnds(i, "bundle")

createNamespace(i) == CanBuild /\ Build(i)

\* The bundle, and a network: pooled or built.
runcBundle(i) ==
    /\ pc[i] = "bundle"
    /\ IF usePool /\ pool # <<>> THEN Borrow(i) /\ UNCHANGED builds
       ELSE createNamespace(i) /\ UNCHANGED pool
    /\ Goto(i, "proxy")
    /\ UNCHANGED <<configVars, imageVars, orphans, populating, refill, trigger, proc, place, front, known, teardowns>>

runcBundleFails(i) ==
    /\ pc[i] = "bundle"
    /\ Goto(i, "failed")
    /\ UNCHANGED <<configVars, imageVars, orphans, poolVars, net, proc, place, front, known, teardowns>>

runcPortProxy(i) ==
    /\ pc[i] = "proxy"
    /\ front' = [front EXCEPT ![i] = net[i]]
    /\ known' = known \cup {i}
    /\ Goto(i, "config")
    /\ UNCHANGED <<configVars, imageVars, orphans, poolVars, net, proc, place, teardowns>>

\* config.json, which names the network, is written.
runcConfig(i) ==
    /\ pc[i] = "config"
    /\ Goto(i, "run")
    /\ UNCHANGED <<configVars, imageVars, orphans, poolVars, net, proc, place, front, known, teardowns>>

runcRun(i) ==
    /\ pc[i] = "run"
    /\ proc' = [proc EXCEPT ![i] = "up"]
    /\ place' = [place EXCEPT ![i] = net[i]]
    /\ Goto(i, "running")
    /\ UNCHANGED <<configVars, imageVars, orphans, poolVars, net, front, known, teardowns>>

\* cleanupStartFailure, or the same without a proxy.
cleanupStartFailure(i) ==
    /\ pc[i] \in {"proxy", "config", "run"}
    /\ front' = [front EXCEPT ![i] = 0]
    /\ known' = known \ {i}
    /\ Return(i)
    /\ Goto(i, "failed")
    /\ UNCHANGED <<configVars, imageVars, orphans, builds, populating, refill, trigger, proc, place, teardowns>>

\* kill, and up to 50 times delete; a container that could not be deleted is
\* left behind.
runcKill(i) ==
    /\ pc[i] = "running"
    /\ proc' = [proc EXCEPT ![i] = "gone"]
    /\ \/ UNCHANGED orphans
       \/ proc[i] = "up" /\ orphans' = orphans \cup {net[i]}
    /\ Goto(i, "killed")
    /\ UNCHANGED <<configVars, imageVars, poolVars, net, place, front, known, teardowns>>

\* The rest of Stop, whether or not the container could be deleted.
runcStopEnds(i) ==
    /\ pc[i] = "killed"
    /\ known' = known \ {i}
    /\ front' = [front EXCEPT ![i] = 0]
    /\ Return(i)
    /\ Goto(i, "stopped")
    /\ UNCHANGED <<configVars, imageVars, orphans, builds, populating, refill, trigger, proc, place, teardowns>>

\* The watcher polls the process; it reports the exit and reclaims nothing.
runcExits(i) == ProcessExits(i)

runcInstance(i) ==
    \/ runcPrepared(i) \/ runcBundle(i) \/ runcBundleFails(i) \/ runcPortProxy(i) \/ runcConfig(i)
    \/ runcRun(i) \/ cleanupStartFailure(i) \/ runcStopEnds(i)

RuncNext ==
    /\ runtime = "runc"
    /\ \/ \E i \in Instance :
            runcPrepare(i) \/ runcInstance(i) \/ runcKill(i) \/ runcExits(i)
       \/ \E n \in orphans : OrphanExits(n)
       \/ Populate

=============================================================================
