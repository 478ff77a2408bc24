--------------------------- MODULE SandboxRuntime ---------------------------
(***************************************************************************)
(* What the worker's sandbox runtimes have in common.  A worker runs one   *)
(* of them, chosen by its configuration.  A sandbox is a process (VMM,     *)
(* task, container) in a network of its own, and a front (port proxy or    *)
(* DNAT rule) by which the host reaches that network.  Networks are        *)
(* expensive to build: with UsePool they are built ahead, borrowed and     *)
(* given back, and one that does not fit the pool is destroyed.            *)
(*                                                                         *)
(* Networks are numbered in the order in which they are built.  Instance   *)
(* ids are random 64-bit numbers the leaf makes up: each is started once.  *)
(***************************************************************************)
EXTENDS Integers, Sequences, FiniteSets

CONSTANTS
    Instance,
    RuntimeName,   \* the runtimes to consider
    UsePool,       \* the values of UsePool to consider
    AsyncTeardown, \* the values of AsyncTeardown to consider
    PoolSize,
    MaxBuilds,     \* bound: networks built
    NoInstance

ASSUME SandboxRuntimeAssumption ==
    /\ RuntimeName \subseteq {"firecracker", "containerd", "runc", "docker"}
    /\ UsePool \subseteq BOOLEAN /\ AsyncTeardown \subseteq BOOLEAN
    /\ PoolSize \in Nat \ {0} /\ MaxBuilds \in Nat
    /\ NoInstance \notin Instance

VARIABLES
    runtime,    \* the runtime of this worker
    usePool, asyncTeardown,
    pool,       \* idle networks, a channel
    builds,     \* networks built so far
    populating, \* networks the start of the worker has yet to build
    refill,     \* the replenish goroutine holds its lock
    trigger,    \* a replenish goroutine was started and has not looked yet
    pc,         \* instance: where it is
    net,        \* instance: the network it holds, or 0
    proc,       \* instance: its process: "none", "up", "gone"
    place,      \* instance: the network its process was started in
    front,      \* instance: the network its front leads to, or 0
    known,      \* instances in the runtime's map
    teardowns,  \* activeTeardowns
    orphans,    \* networks of processes nobody waits for any more
    cached,     \* is the function's image on this worker?
    pull        \* the instance that fetches it

configVars == <<runtime, usePool, asyncTeardown>>
poolVars == <<pool, builds, populating, refill, trigger>>
imageVars == <<cached, pull>>
runtimeVars == <<configVars, poolVars, imageVars, pc, net, proc, place, front, known, teardowns, orphans>>

\* The firecracker pool is filled before the worker listens; the others fill
\* theirs in the background.  Without a pool nobody waits for a teardown, and
\* it is the same steps whoever runs them.
RuntimeInit ==
    /\ runtime \in RuntimeName
    /\ usePool \in (IF runtime = "docker" THEN {FALSE} ELSE UsePool)
    /\ asyncTeardown \in (IF usePool /\ runtime # "runc" THEN AsyncTeardown ELSE {FALSE})
    /\ builds = IF usePool /\ runtime = "firecracker" THEN PoolSize ELSE 0
    /\ pool = [k \in 1 .. builds |-> k]
    /\ populating = IF usePool /\ runtime \in {"containerd", "runc"} THEN PoolSize ELSE 0
    /\ refill = FALSE
    /\ trigger = FALSE
    /\ pc = [i \in Instance |-> "new"]
    /\ net = [i \in Instance |-> 0]
    /\ proc = [i \in Instance |-> "none"]
    /\ place = [i \in Instance |-> 0]
    /\ front = [i \in Instance |-> 0]
    /\ known = {}
    /\ teardowns = 0
    /\ orphans = {}
    /\ cached = FALSE
    /\ pull = NoInstance

----------------------------------------------------------------------------
(* The pool.                                                               *)

Goto(i, label) == pc' = [pc EXCEPT ![i] = label]

CanBuild == builds < MaxBuilds
Build(i) == builds' = builds + 1 /\ net' = [net EXCEPT ![i] = builds + 1]
Borrow(i) == pool' = Tail(pool) /\ net' = [net EXCEPT ![i] = Head(pool)]

HasRoom == usePool /\ Len(pool) < PoolSize

\* Give the network back, or destroy it when it does not fit.
Return(i) ==
    /\ pool' = IF HasRoom THEN Append(pool, net[i]) ELSE pool
    /\ net' = [net EXCEPT ![i] = 0]

Destroy(i) ==
    /\ net' = [net EXCEPT ![i] = 0]
    /\ UNCHANGED pool

\* The goroutine that populates the pool at the start blocks when it is full.
Populate ==
    /\ populating > 0
    /\ populating' = populating - 1
    /\ \/ HasRoom /\ CanBuild /\ builds' = builds + 1 /\ pool' = Append(pool, builds + 1)
       \/ UNCHANGED <<pool, builds>>
    /\ UNCHANGED <<configVars, refill, trigger, pc, net, proc, place, front, known, teardowns, orphans, imageVars>>

\* The replenish goroutine builds one more, destroys it if the pool has filled
\* up meanwhile, and stops at an error or when the pool is full.
RefillBuild ==
    /\ refill
    /\ CanBuild
    /\ builds' = builds + 1
    /\ pool' = IF HasRoom THEN Append(pool, builds + 1) ELSE pool
    /\ refill' = HasRoom
    /\ UNCHANGED <<configVars, populating, trigger, pc, net, proc, place, front, known, teardowns, orphans, imageVars>>

RefillEnd ==
    /\ refill
    /\ refill' = FALSE
    /\ UNCHANGED <<configVars, pool, builds, populating, trigger, pc, net, proc, place, front, known, teardowns, orphans, imageVars>>

\* TryLock: a goroutine that finds another at work goes away.
Replenish(low) ==
    /\ trigger
    /\ trigger' = FALSE
    /\ refill' = (refill \/ low)
    /\ UNCHANGED <<configVars, pool, builds, populating, pc, net, proc, place, front, known, teardowns, orphans, imageVars>>

----------------------------------------------------------------------------
(* The image: downloaded once for all who ask for it at the same time, into *)
(* a temporary file that is renamed when it is complete.                   *)

notImage == <<configVars, poolVars, net, proc, place, front, known, teardowns, orphans>>

\* It is there, somebody fetches it, or this instance does.
Fetch(i, next) ==
    /\ pc[i] = "new"
    /\ IF cached THEN Goto(i, next) /\ UNCHANGED pull
       ELSE IF pull # NoInstance THEN Goto(i, "waitFetch") /\ UNCHANGED pull
       ELSE Goto(i, "fetch") /\ pull' = i
    /\ UNCHANGED <<notImage, cached>>

\* Mutant: a failed download leaves those who wait for it waiting.
FetchEndsForFetcher(i, next) ==
    /\ pc[i] = "fetch"
    /\ pull' = NoInstance
    /\ \E ok \in BOOLEAN :
         /\ cached' = ok
         /\ pc' = [k \in Instance |-> IF k = i \/ (pc[k] = "waitFetch" /\ ok)
                                      THEN IF ok THEN next ELSE "failed" ELSE pc[k]]
    /\ UNCHANGED notImage

\* All who wait share the outcome.
FetchEnds(i, next) ==
    /\ pc[i] = "fetch"
    /\ pull' = NoInstance
    /\ \E ok \in BOOLEAN :
         /\ cached' = ok
         /\ pc' = [k \in Instance |-> IF k = i \/ pc[k] = "waitFetch"
                                      THEN IF ok THEN next ELSE "failed" ELSE pc[k]]
    /\ UNCHANGED notImage

----------------------------------------------------------------------------
(* Processes exit by themselves or killed.                                 *)

ProcessExits(i) ==
    /\ proc[i] = "up"
    /\ proc' = [proc EXCEPT ![i] = "gone"]
    /\ UNCHANGED <<configVars, poolVars, pc, net, place, front, known, teardowns, orphans, imageVars>>

OrphanExits(n) ==
    /\ n \in orphans
    /\ orphans' = orphans \ {n}
    /\ UNCHANGED <<configVars, poolVars, pc, net, proc, place, front, known, teardowns, imageVars>>

\* waitForAsyncTeardown: a start waits until no teardown is under way, or
\* until its deadline.
NoTeardownToAwait == ~usePool \/ ~asyncTeardown \/ teardowns = 0

Ended(i) == pc[i] \in {"failed", "stopped"}

=============================================================================
