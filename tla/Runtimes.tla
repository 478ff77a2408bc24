------------------------------ MODULE Runtimes ------------------------------
(***************************************************************************)
(* The sandbox runtime of a worker: the one its configuration names.  The  *)
(* properties hold for each, or name the runtimes that keep them.          *)
(***************************************************************************)
EXTENDS Firecracker, Containerd, Runc, Docker

vars == <<runtimeVars, fcVars, cdVars, dkVars>>

\* setupRuntime.
Init == RuntimeInit /\ FirecrackerInit /\ ContainerdInit /\ DockerInit

Next ==
    \/ FirecrackerNext /\ UNCHANGED <<cdVars, dkVars>>
    \/ ContainerdNext /\ UNCHANGED <<fcVars, dkVars>>
    \/ RuncNext /\ UNCHANGED <<fcVars, cdVars, dkVars>>
    \/ DockerNext /\ UNCHANGED <<fcVars, cdVars>>

Spec == Init /\ [][Next]_vars

\* The goroutine of an instance goes on; a VMM that was killed exits.
Progress(i) ==
    \/ runtime = "firecracker" /\ fcInstance(i) /\ UNCHANGED <<cdVars, dkVars>>
    \/ runtime = "firecracker" /\ pc[i] = "reaping" /\ ProcessExits(i) /\ UNCHANGED <<fcVars, cdVars, dkVars>>
    \/ runtime = "containerd" /\ cdInstance(i) /\ UNCHANGED <<fcVars, dkVars>>
    \/ runtime = "runc" /\ runcInstance(i) /\ UNCHANGED <<fcVars, cdVars, dkVars>>
    \/ runtime = "docker" /\ dkInstance(i) /\ UNCHANGED <<fcVars, cdVars>>

\* Nobody has to start or to stop a sandbox, and no process has to exit by
\* itself.
Fairness == \A i \in Instance : WF_vars(Progress(i))

LiveSpec == Spec /\ Fairness

----------------------------------------------------------------------------
Owner == {i \in Instance : net[i] # 0}
Port == {i \in Instance : port[i] # 0}

\* Every network and every host port has at most one place, one sandbox or one
\* slot of the pool, and no sandbox runs in a network that waits in the pool for
\* the next one, processes that a failed start or kill left behind (orphans)
\* aside (acquire, release and discard on all the paths of Start, Stop, the
\* watchers and the reaper).
OwnedOnce ==
    /\ \A a, b \in DOMAIN pool : a # b => pool[a] # pool[b]
    /\ \A a, b \in DOMAIN portPool : a # b => portPool[a] # portPool[b]
    /\ \A i \in Owner : (\A a \in DOMAIN pool : pool[a] # net[i])
                        /\ \A j \in Owner \ {i} : net[i] # net[j]
    /\ \A i \in Port : (\A a \in DOMAIN portPool : portPool[a] # port[i])
                       /\ \A j \in Port \ {i} : port[i] # port[j]
    /\ \A i \in Instance, a \in DOMAIN pool : proc[i] = "up" => pool[a] # place[i]

\* The address of a sandbox leads to the network the sandbox holds, never to
\* one that was given back and may belong to another function (runTeardown and
\* deleteIptablesRules before the release).
FrontToOwner == \A i \in Instance : front[i] # 0 => front[i] = net[i]

\* A sandbox that failed to start, was stopped or exited keeps nothing: every
\* error path of Start, and every teardown, gives up the network, the port, the
\* front and the entry in the runtime's map.
NothingKept ==
    \A i \in Instance : Ended(i) => net[i] = 0 /\ port[i] = 0 /\ front[i] = 0 /\ i \notin known

\* A runtime that reclaims on exit has a sandbox to reclaim.
Exited(i) == runtime \in {"firecracker", "containerd"} /\ proc[i] = "gone"

\* Every start ends, nobody waits for ever on a teardown, a pull or a snapshot
\* (waitForAsyncTeardown, ensureImageSingleFlight, waitCreate, invalidate), and
\* in firecracker and containerd a sandbox whose process exits is torn down
\* without being stopped (WatchLifecycle).
Settles ==
    \A i \in Instance :
      (pc[i] \notin {"new", "running"} \/ (pc[i] = "running" /\ Exited(i)))
        ~> (Ended(i) \/ (pc[i] = "running" /\ ~Exited(i)))

=============================================================================
