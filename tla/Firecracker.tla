---------------------------- MODULE Firecracker -----------------------------
(***************************************************************************)
(* The firecracker runtime: Start with snapshot restore and cold boot,     *)
(* Stop, the lifecycle watcher, and the snapshot manager, for one          *)
(* function.  A VMM holds the TAP device of its network until it exits,    *)
(* however long the runtime has waited for that.                           *)
(***************************************************************************)
EXTENDS SandboxRuntime

CONSTANT
    UseSnapshots    \* the values of UseSnapshots to consider

ASSUME FirecrackerAssumption == UseSnapshots \subseteq BOOLEAN

VARIABLES
    useSnapshots,
    machine,    \* instance: the runtime has a handle on its VMM
    restoring,  \* instance: started from the snapshot
    entry,      \* is there a snapshot in the map?
    files,      \* published snapshot files
    tmp,        \* the .creating files
    job,        \* the instance creating the snapshot
    createMu    \* the instance whose invalidation holds the lock

snapVars == <<entry, files, tmp, job, createMu>>
fcVars == <<useSnapshots, machine, restoring, snapVars>>

FirecrackerInit ==
    /\ useSnapshots \in (IF runtime = "firecracker" THEN UseSnapshots ELSE {FALSE})
    /\ machine = [i \in Instance |-> FALSE]
    /\ restoring = [i \in Instance |-> FALSE]
    /\ entry = FALSE
    /\ files = {}
    /\ tmp = FALSE
    /\ job = NoInstance
    /\ createMu = NoInstance

Whole == {"memory", "state"}

refillThreshold == IF PoolSize \div 4 < 1 THEN 1 ELSE PoolSize \div 4

----------------------------------------------------------------------------
(* networkManager.                                                         *)

buildNetwork(i) == CanBuild /\ Build(i)

\* From the pool when it has one; one whose namespace is gone is destroyed and
\* built again.  On the fly, or without a pool, build one.
acquire(i) ==
    /\ pc[i] = "acquire"
    /\ \/ /\ usePool /\ pool # <<>>
          /\ Borrow(i)
          /\ trigger' = (trigger \/ Len(pool) - 1 < refillThreshold)
          /\ UNCHANGED builds
       \/ /\ usePool /\ pool # <<>>
          /\ pool' = Tail(pool)
          /\ buildNetwork(i)
          /\ trigger' = (trigger \/ Len(pool) - 1 < refillThreshold)
       \/ /\ ~usePool \/ pool = <<>>
          /\ buildNetwork(i)
          /\ trigger' = (trigger \/ usePool)
          /\ UNCHANGED pool
    /\ Goto(i, "boot")
    /\ UNCHANGED <<configVars, imageVars, orphans, populating, refill, proc, place, front, known, teardowns, fcVars>>

acquireFails(i) ==
    /\ pc[i] = "acquire"
    /\ pool' = IF pool = <<>> THEN pool ELSE Tail(pool)
    /\ Goto(i, "failed")
    /\ UNCHANGED <<configVars, imageVars, orphans, builds, populating, refill, trigger, net, proc, place, front, known, teardowns, fcVars>>

\* release, or discard when the VMM may still hold the TAP device; a released
\* network whose namespace is gone is destroyed.
Release(i, exited) ==
    IF exited
    THEN \/ Return(i) /\ trigger' = (trigger \/ HasRoom)
         \/ Destroy(i) /\ UNCHANGED trigger
    ELSE Destroy(i) /\ UNCHANGED trigger

----------------------------------------------------------------------------
(* Runtime.Prepare and Runtime.Start.                                      *)

fcPrepare(i) == Fetch(i, "await") /\ UNCHANGED fcVars
fcPrepared(i) == FetchEnds(i, "await") /\ UNCHANGED fcVars

waitForAsyncTeardown(i) ==
    /\ pc[i] = "await"
    /\ \/ NoTeardownToAwait /\ Goto(i, "acquire")
       \/ ~NoTeardownToAwait /\ Goto(i, "failed")
    /\ UNCHANGED <<configVars, imageVars, orphans, poolVars, net, proc, place, front, known, teardowns, fcVars>>

prepareBootImage(i) ==
    /\ pc[i] = "boot"
    /\ restoring' = [restoring EXCEPT ![i] = useSnapshots /\ entry]
    /\ Goto(i, "launch")
    /\ UNCHANGED <<configVars, imageVars, orphans, poolVars, net, proc, place, front, known, teardowns, useSnapshots, machine, snapVars>>

prepareBootImageFails(i) ==
    /\ pc[i] = "boot"
    /\ Release(i, TRUE)
    /\ Goto(i, "failed")
    /\ UNCHANGED <<configVars, imageVars, orphans, builds, populating, refill, proc, place, front, known, teardowns, fcVars>>

\* startMachine succeeds; a restore needs its files.
startMachine(i) ==
    /\ pc[i] = "launch"
    /\ restoring[i] => files = Whole
    /\ proc' = [proc EXCEPT ![i] = "up"]
    /\ place' = [place EXCEPT ![i] = net[i]]
    /\ machine' = [machine EXCEPT ![i] = TRUE]
    /\ \/ Goto(i, "proxy")
       \/ restoring[i] /\ Goto(i, "badRestore")    \* metadata not refreshed
    /\ UNCHANGED <<configVars, imageVars, orphans, poolVars, net, front, known, teardowns, useSnapshots, restoring, snapVars>>

\* startMachine fails, perhaps with a VMM already there.  It is killed and
\* drained for 3 s; whether it has exited then is not looked at, and no handle
\* on it is returned.
startMachineFails(i) ==
    /\ pc[i] = "launch"
    /\ \/ UNCHANGED orphans
       \/ orphans' = orphans \cup {net[i]}
    /\ Goto(i, IF restoring[i] THEN "badRestore" ELSE "badBoot")
    /\ UNCHANGED <<configVars, imageVars, poolVars, net, proc, place, front, known, teardowns, fcVars>>

\* cleanupFailedMachine after a failed restore: the VMM exits and the snapshot
\* is dropped, or its socket cannot be removed and the start fails.
cleanupRestore(i) ==
    /\ pc[i] = "badRestore"
    /\ proc' = IF machine[i] THEN [proc EXCEPT ![i] = "gone"] ELSE proc
    /\ machine' = [machine EXCEPT ![i] = FALSE]
    /\ \/ Goto(i, "invalidate") /\ UNCHANGED <<pool, net, trigger>>
       \/ Goto(i, "failed") /\ Release(i, TRUE)
    /\ UNCHANGED <<configVars, imageVars, orphans, builds, populating, refill, place, front, known, teardowns, useSnapshots, restoring, snapVars>>

\* Mutant: the start's own cleanup is left on.
cleanupRestoreLateTwice(i) ==
    /\ pc[i] = "badRestore"
    /\ machine[i] /\ proc[i] = "up"
    /\ pool' = IF HasRoom THEN Append(pool, net[i]) ELSE pool
    /\ Goto(i, "reaping")
    /\ UNCHANGED <<configVars, imageVars, orphans, builds, populating, refill, trigger, net, proc, place, front, known, teardowns, fcVars>>

\* The VMM does not exit in time: a reaper waits for it.
cleanupRestoreLate(i) ==
    /\ pc[i] = "badRestore"
    /\ machine[i] /\ proc[i] = "up"
    /\ Goto(i, "reaping")
    /\ UNCHANGED <<configVars, imageVars, orphans, poolVars, net, proc, place, front, known, teardowns, fcVars>>

reapFailedMachine(i) ==
    /\ pc[i] = "reaping"
    /\ proc[i] = "gone"
    /\ Release(i, TRUE)
    /\ Goto(i, "failed")
    /\ UNCHANGED <<configVars, imageVars, orphans, builds, populating, refill, proc, place, front, known, teardowns, fcVars>>

\* A failed cold boot left no handle, so cleanupFailedMachine takes the VMM for
\* exited.
cleanupBoot(i) ==
    /\ pc[i] = "badBoot"
    /\ Release(i, TRUE)
    /\ Goto(i, "failed")
    /\ UNCHANGED <<configVars, imageVars, orphans, builds, populating, refill, proc, place, front, known, teardowns, fcVars>>

startPortProxy(i) ==
    /\ pc[i] = "proxy"
    /\ front' = [front EXCEPT ![i] = net[i]]
    /\ Goto(i, "probe")
    /\ UNCHANGED <<configVars, imageVars, orphans, poolVars, net, proc, place, known, teardowns, fcVars>>

\* No proxy, or the restored sandbox does not answer: stopVMMAndWait.
abandon(i) ==
    /\ pc[i] = "proxy" \/ (pc[i] = "probe" /\ restoring[i])
    /\ front' = [front EXCEPT ![i] = 0]
    /\ \/ proc' = [proc EXCEPT ![i] = "gone"] /\ Release(i, TRUE)
       \/ proc[i] = "up" /\ UNCHANGED proc /\ Release(i, FALSE)
    /\ Goto(i, "failed")
    /\ UNCHANGED <<configVars, imageVars, orphans, builds, populating, refill, place, known, teardowns, fcVars>>

\* waitForTCP: a restored sandbox is ready, a cold one that answers makes the
\* snapshot.
waitForTCP(i) ==
    /\ pc[i] = "probe"
    /\ \/ Goto(i, "register")
       \/ useSnapshots /\ ~restoring[i] /\ Goto(i, "snapshot")
    /\ UNCHANGED <<configVars, imageVars, orphans, poolVars, net, proc, place, front, known, teardowns, fcVars>>

register(i) ==
    /\ pc[i] = "register"
    /\ known' = known \cup {i}
    /\ Goto(i, "running")
    /\ UNCHANGED <<configVars, imageVars, orphans, poolVars, net, proc, place, front, teardowns, fcVars>>

----------------------------------------------------------------------------
(* snapshotManager.                                                        *)

\* beginCreate: somebody made it, somebody is making it, or this start does.
beginCreate(i) ==
    /\ pc[i] = "snapshot"
    /\ createMu = NoInstance
    /\ IF entry THEN Goto(i, "register") /\ UNCHANGED job
       ELSE IF job # NoInstance THEN Goto(i, "waitCreate") /\ UNCHANGED job
       ELSE Goto(i, "pause") /\ job' = i
    /\ UNCHANGED <<configVars, imageVars, orphans, poolVars, net, proc, place, front, known, teardowns, useSnapshots, machine, restoring, entry, files, tmp, createMu>>

Creating(i, from, to) ==
    /\ pc[i] = from
    /\ Goto(i, to)
    /\ UNCHANGED <<configVars, imageVars, orphans, poolVars, net, proc, place, front, known, teardowns, useSnapshots, machine, restoring, job, createMu>>

\* PauseVM and CreateSnapshot into the .creating files.
createSnapshot(i) ==
    \/ Creating(i, "pause", "publishMemory") /\ tmp' = TRUE /\ UNCHANGED <<entry, files>>
    \/ Creating(i, "pause", "finish") /\ tmp' = FALSE /\ UNCHANGED <<entry, files>>

\* publishSnapshotFiles: two renames; the second undoes the first if it fails.
publishMemory(i) ==
    \/ tmp /\ Creating(i, "publishMemory", "publishState") /\ files' = files \cup {"memory"} /\ UNCHANGED <<entry, tmp>>
    \/ Creating(i, "publishMemory", "finish") /\ tmp' = FALSE /\ UNCHANGED <<entry, files>>

publishState(i) ==
    \/ tmp /\ Creating(i, "publishState", "put") /\ files' = files \cup {"state"} /\ tmp' = FALSE /\ UNCHANGED entry
    \/ Creating(i, "publishState", "finish") /\ files' = files \ {"memory"} /\ tmp' = FALSE /\ UNCHANGED entry

put(i) == Creating(i, "put", "finish") /\ entry' = TRUE /\ UNCHANGED <<files, tmp>>

\* The job ends, and with it the wait of the starts that found it.
finishCreate(i) ==
    /\ pc[i] = "finish"
    /\ createMu = NoInstance
    /\ job' = NoInstance
    /\ pc' = [k \in Instance |-> IF k = i \/ pc[k] = "waitCreate" THEN "register" ELSE pc[k]]
    /\ UNCHANGED <<configVars, imageVars, orphans, poolVars, net, proc, place, front, known, teardowns, useSnapshots, machine, restoring, entry, files, tmp, createMu>>

\* Mutant: the files are removed under an entry that can still be found.
invalidateFilesOnly(i) ==
    /\ pc[i] = "invalidate"
    /\ createMu = NoInstance /\ job = NoInstance
    /\ createMu' = i
    /\ Goto(i, "unlink")
    /\ UNCHANGED <<configVars, imageVars, orphans, poolVars, net, proc, place, front, known, teardowns, useSnapshots, machine, restoring, entry, files, tmp, job>>

\* invalidate waits until no creation is under way, takes the entry out and
\* removes the files, all under createMu.
invalidate(i) ==
    /\ pc[i] = "invalidate"
    /\ createMu = NoInstance /\ job = NoInstance
    /\ createMu' = i
    /\ entry' = FALSE
    /\ Goto(i, "unlink")
    /\ UNCHANGED <<configVars, imageVars, orphans, poolVars, net, proc, place, front, known, teardowns, useSnapshots, machine, restoring, files, tmp, job>>

\* Then the start boots cold.
unlink(i) ==
    /\ pc[i] = "unlink"
    /\ createMu' = NoInstance
    /\ files' = {} /\ tmp' = FALSE
    /\ restoring' = [restoring EXCEPT ![i] = FALSE]
    /\ Goto(i, "launch")
    /\ UNCHANGED <<configVars, imageVars, orphans, poolVars, net, proc, place, front, known, teardowns, useSnapshots, machine, entry, job>>

----------------------------------------------------------------------------
(* Stop, the lifecycle watcher, and the teardown both run once.            *)

\* Mutant: the proxy is left to the end of the teardown.
runTeardownProxyLast(i) ==
    /\ known' = known \ {i}
    /\ teardowns' = IF asyncTeardown THEN teardowns + 1 ELSE teardowns
    /\ Goto(i, "teardown")
    /\ UNCHANGED <<configVars, imageVars, orphans, poolVars, net, proc, place, front, fcVars>>

\* The instance leaves the map and the proxy is closed before all else.
runTeardown(i) ==
    /\ known' = known \ {i}
    /\ front' = [front EXCEPT ![i] = 0]
    /\ teardowns' = IF asyncTeardown THEN teardowns + 1 ELSE teardowns
    /\ Goto(i, "teardown")
    /\ UNCHANGED <<configVars, imageVars, orphans, poolVars, net, proc, place, fcVars>>

fcStop(i) == i \in known /\ runTeardown(i)

fcWatchLifecycle(i) == i \in known /\ proc[i] = "gone" /\ runTeardown(i)

\* shutdownInstance: the VMM exits, or the network is discarded.
shutdownInstance(i) ==
    /\ pc[i] = "teardown"
    /\ \/ proc' = [proc EXCEPT ![i] = "gone"] /\ Release(i, TRUE)
       \/ proc[i] = "up" /\ UNCHANGED proc /\ Release(i, FALSE)
    /\ teardowns' = IF asyncTeardown THEN teardowns - 1 ELSE teardowns
    /\ Goto(i, "stopped")
    /\ UNCHANGED <<configVars, imageVars, orphans, builds, populating, refill, place, front, known, fcVars>>

----------------------------------------------------------------------------
fcInstance(i) ==
    \/ fcPrepared(i) \/ waitForAsyncTeardown(i) \/ acquire(i) \/ acquireFails(i)
    \/ prepareBootImage(i) \/ prepareBootImageFails(i)
    \/ startMachine(i) \/ startMachineFails(i)
    \/ cleanupRestore(i) \/ cleanupRestoreLate(i) \/ reapFailedMachine(i) \/ cleanupBoot(i)
    \/ startPortProxy(i) \/ abandon(i) \/ waitForTCP(i) \/ register(i)
    \/ beginCreate(i) \/ createSnapshot(i) \/ publishMemory(i)
    \/ publishState(i) \/ put(i) \/ finishCreate(i) \/ invalidate(i) \/ unlink(i)
    \/ fcWatchLifecycle(i) \/ shutdownInstance(i)

FirecrackerNext ==
    /\ runtime = "firecracker"
    /\ \/ \E i \in Instance : fcPrepare(i) \/ fcInstance(i) \/ fcStop(i)
       \/ (\E i \in Instance : ProcessExits(i)) /\ UNCHANGED fcVars
       \/ (\E n \in orphans : OrphanExits(n)) /\ UNCHANGED fcVars
       \/ (RefillBuild \/ RefillEnd \/ Replenish(Len(pool) < refillThreshold)) /\ UNCHANGED fcVars

----------------------------------------------------------------------------
\* A snapshot that can be found is whole: both of its files are published
\* (snapshotManager.get; createSnapshot publishes before it puts, invalidate
\* takes the entry out before it unlinks and keeps creators away meanwhile).
SnapshotWhole == entry => files = Whole

=============================================================================
