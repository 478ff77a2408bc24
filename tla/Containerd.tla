----------------------------- MODULE Containerd -----------------------------
(***************************************************************************)
(* The containerd runtime.  A sandbox also holds a host port, and its      *)
(* front is the DNAT rule from that port to its network.  Ports are pooled *)
(* like networks.  Starts of one image share a single pull.                *)
(***************************************************************************)
EXTENDS SandboxRuntime

CONSTANT
    MaxPort      \* bound: the last port of the machine

ASSUME ContainerdAssumption == MaxPort \in Nat \ {0}

VARIABLES
    portPool,     \* idle ports, a channel
    nextPort,     \* the next port never used before
    portTrigger,  \* a replenish goroutine for ports was started
    port          \* instance: the host port it holds, or 0

cdVars == <<portPool, nextPort, portTrigger, port>>

ContainerdInit ==
    /\ portPool = <<>>
    /\ nextPort = 1
    /\ portTrigger = (runtime = "containerd" /\ usePool)
    /\ port = [i \in Instance |-> 0]

rest == <<configVars, imageVars, orphans, poolVars, net, proc, place, front, known, teardowns>>

----------------------------------------------------------------------------
(* Prepare and the image; starts of one image share a single pull.         *)

ensureImageSingleFlight(i) == Fetch(i, "await") /\ UNCHANGED cdVars
pullEnds(i) == FetchEnds(i, "await") /\ UNCHANGED cdVars

cdWaitForAsyncTeardown(i) ==
    /\ pc[i] = "await"
    /\ \/ NoTeardownToAwait /\ Goto(i, "port")
       \/ ~NoTeardownToAwait /\ Goto(i, "failed")
    /\ UNCHANGED <<rest, cdVars>>

----------------------------------------------------------------------------
(* Host ports.                                                             *)

\* Without a pool the kernel picks a free port; nothing is given back.
borrowHostPort(i) ==
    /\ pc[i] = "port"
    /\ IF usePool /\ portPool # <<>>
       THEN /\ port' = [port EXCEPT ![i] = Head(portPool)]
            /\ portPool' = Tail(portPool)
            /\ UNCHANGED nextPort
       ELSE /\ nextPort <= MaxPort
            /\ port' = [port EXCEPT ![i] = nextPort]
            /\ nextPort' = nextPort + 1
            /\ UNCHANGED portPool
    /\ Goto(i, "netns")
    /\ UNCHANGED <<rest, portTrigger>>

borrowHostPortFails(i) ==
    /\ pc[i] = "port"
    /\ ~usePool \/ portPool = <<>>
    /\ Goto(i, "failed")
    /\ UNCHANGED <<rest, cdVars>>

\* Back to the pool, unless it is full or the port cannot be bound again.
returnHostPort(i) ==
    /\ port' = [port EXCEPT ![i] = 0]
    /\ UNCHANGED nextPort
    /\ \/ /\ usePool /\ Len(portPool) < PoolSize
          /\ portPool' = Append(portPool, port[i])
          /\ portTrigger' = TRUE
       \/ /\ portTrigger' = (portTrigger \/ usePool)
          /\ UNCHANGED portPool

\* populatePortPool and replenishPortPool bind one more port, or give up.
replenishPortPool ==
    /\ portTrigger
    /\ \/ /\ Len(portPool) < PoolSize /\ nextPort <= MaxPort
          /\ portPool' = Append(portPool, nextPort)
          /\ nextPort' = nextPort + 1
          /\ UNCHANGED portTrigger
       \/ portTrigger' = FALSE /\ UNCHANGED <<portPool, nextPort>>
    /\ UNCHANGED <<rest, pc, port>>

----------------------------------------------------------------------------
(* Start.                                                                  *)

createCNINamespace(i) == CanBuild /\ Build(i)

\* A pooled network, one built on the fly, or, without a pool, the one CNI
\* sets up for the task.
cdNetwork(i) ==
    /\ pc[i] = "netns"
    /\ IF usePool /\ pool # <<>> THEN Borrow(i) /\ UNCHANGED builds
       ELSE createCNINamespace(i) /\ UNCHANGED pool
    /\ Goto(i, "task")
    /\ UNCHANGED <<configVars, imageVars, orphans, populating, refill, trigger, proc, place, front, known, teardowns, cdVars>>

\* Mutant: the start returns without its port.
cdNetworkFailsKeepingPort(i) ==
    /\ pc[i] = "netns"
    /\ ~usePool \/ pool = <<>>
    /\ Goto(i, "failed")
    /\ UNCHANGED <<rest, cdVars>>

cdNetworkFails(i) ==
    /\ pc[i] = "netns"
    /\ ~usePool \/ pool = <<>>
    /\ returnHostPort(i)
    /\ Goto(i, "failed")
    /\ UNCHANGED rest

\* NewContainer, NewTask, and task.Start.
taskStart(i) ==
    /\ pc[i] = "task"
    /\ proc' = [proc EXCEPT ![i] = "up"]
    /\ place' = [place EXCEPT ![i] = net[i]]
    /\ Goto(i, "rules")
    /\ UNCHANGED <<configVars, imageVars, orphans, poolVars, net, front, known, teardowns, cdVars>>

\* One of them fails: the network goes back and the deferred call gives the
\* port back.
taskStartFails(i) ==
    /\ pc[i] = "task"
    /\ Return(i)
    /\ returnHostPort(i)
    /\ Goto(i, "failed")
    /\ UNCHANGED <<configVars, imageVars, orphans, builds, populating, refill, trigger, proc, place, front, known, teardowns>>

addIptablesRules(i) ==
    /\ pc[i] = "rules"
    /\ front' = [front EXCEPT ![i] = net[i]]
    /\ known' = known \cup {i}
    /\ Goto(i, "running")
    /\ UNCHANGED <<configVars, imageVars, orphans, poolVars, net, proc, place, teardowns, cdVars>>

----------------------------------------------------------------------------
(* Stop and the lifecycle watcher: who takes the container tears it down.  *)

takeContainer(i) == i \in known /\ known' = known \ {i}

deleteIptablesRules(i) == front' = [front EXCEPT ![i] = 0]

beginAsyncTeardown(i) == teardowns' = teardowns + 1 /\ Goto(i, "teardown")

cdStop(i) ==
    /\ takeContainer(i)
    /\ deleteIptablesRules(i)
    /\ IF asyncTeardown THEN beginAsyncTeardown(i) ELSE Goto(i, "teardownNow") /\ UNCHANGED teardowns
    /\ UNCHANGED <<configVars, imageVars, orphans, poolVars, net, proc, place, cdVars>>

cdWatchLifecycle(i) ==
    /\ proc[i] = "gone"
    /\ takeContainer(i)
    /\ deleteIptablesRules(i)
    /\ beginAsyncTeardown(i)
    /\ UNCHANGED <<configVars, imageVars, orphans, poolVars, net, proc, place, cdVars>>

\* The task and the container are deleted and everything goes back; or they
\* are not, and the network is destroyed and the port quarantined.
teardownSandbox(i) ==
    /\ pc[i] \in {"teardown", "teardownNow"}
    /\ \/ /\ proc' = [proc EXCEPT ![i] = "gone"]
          /\ Return(i)
          /\ returnHostPort(i)
          /\ UNCHANGED trigger
       \/ /\ Destroy(i)
          /\ port' = [port EXCEPT ![i] = 0]
          /\ trigger' = (trigger \/ usePool) /\ portTrigger' = (portTrigger \/ usePool)
          /\ UNCHANGED <<proc, portPool, nextPort>>
    /\ teardowns' = IF pc[i] = "teardown" THEN teardowns - 1 ELSE teardowns
    /\ Goto(i, "stopped")
    /\ UNCHANGED <<configVars, imageVars, orphans, builds, populating, refill, place, front, known>>

----------------------------------------------------------------------------
cdInstance(i) ==
    \/ pullEnds(i) \/ cdWaitForAsyncTeardown(i)
    \/ borrowHostPort(i) \/ borrowHostPortFails(i)
    \/ cdNetwork(i) \/ cdNetworkFails(i) \/ taskStart(i) \/ taskStartFails(i)
    \/ addIptablesRules(i) \/ cdWatchLifecycle(i) \/ teardownSandbox(i)

ContainerdNext ==
    /\ runtime = "containerd"
    /\ \/ \E i \in Instance : ensureImageSingleFlight(i) \/ cdInstance(i) \/ cdStop(i)
       \/ \E i \in Instance : ProcessExits(i) /\ UNCHANGED cdVars
       \/ (Populate \/ RefillBuild \/ RefillEnd \/ Replenish(Len(pool) < PoolSize)) /\ UNCHANGED cdVars
       \/ replenishPortPool

=============================================================================
