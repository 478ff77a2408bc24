--------------------------- MODULE RuntimesProofs ---------------------------
(***************************************************************************)
(* The sandbox runtimes of Runtimes.tla for any number of instances, any   *)
(* pool size and any configuration: a network and a port have one place, a *)
(* front leads to the network of its sandbox, what has ended keeps         *)
(* nothing, and a snapshot that can be found is whole.                     *)
(***************************************************************************)
EXTENDS Runtimes, TLAPS

----------------------------------------------------------------------------
(* Where an instance is, and what it then holds.                           *)

\* The steps at which an instance has no network.
NoNet == {"new", "fetch", "waitFetch", "await", "acquire", "port", "netns", "bundle", "created", "failed", "stopped"}

\* The steps at which its process is not running.
Quiet == {"new", "fetch", "waitFetch", "await", "acquire", "boot", "launch", "badBoot", "invalidate", "unlink",
          "port", "netns", "task", "bundle"}
QuietRunc == {"proxy", "config", "run", "killed"}

\* The steps at which it may have a front, an entry in the runtime's map, a port.
Fronted == {"probe", "register", "snapshot", "waitCreate", "pause", "publishMemory", "publishState", "put", "finish",
            "running", "config", "run", "killed"}
Mapped(r) == IF r = "runc" THEN {"config", "run", "killed", "running"} ELSE {"running"}
Ported == {"netns", "task", "rules", "running", "teardown", "teardownNow"}

ControlTypes ==
    /\ runtime \in {"firecracker", "containerd", "runc", "docker"}
    /\ pc = [i \in Instance |-> pc[i]] /\ proc \in [Instance -> {"none", "up", "gone"}]
    /\ net \in [Instance -> Nat] /\ place \in [Instance -> Nat] /\ front \in [Instance -> Nat]
    /\ port \in [Instance -> Nat] /\ machine \in [Instance -> BOOLEAN]
    /\ known \subseteq Instance

\* What an instance at step `at' of runtime r holds: network n, front f, port p,
\* perhaps an entry m in the map, and a process pr started in network pl; ma says
\* whether the runtime has a handle on it.
Held(r, at, n, pl, f, p, m, pr, ma) ==
    /\ at \in NoNet \/ r = "docker" => n = 0
    /\ r = "docker" => pl = 0
    /\ at \notin NoNet /\ r # "docker" => n # 0
    /\ f # 0 => f = n /\ at \in Fronted
    /\ m => at \in Mapped(r)
    /\ p # 0 <=> r = "containerd" /\ at \in Ported
    /\ at \in Quiet \/ (r = "runc" /\ at \in QuietRunc) \/ (at = "badRestore" /\ ~ma) => pr # "up"

Holds(i) ==
    Held(runtime, pc[i], net[i], place[i], front[i], port[i], i \in known, proc[i], machine[i])

ControlInv == ControlTypes /\ \A i \in Instance : Holds(i)

----------------------------------------------------------------------------
(* Networks and ports.                                                     *)

\* Networks are numbered as they are built.  No number is in two places: two
\* slots of the pool, two instances, or a pool and an instance, be it the
\* network an instance holds or the one its process still runs in.
PoolNumbered ==
    /\ builds \in Nat /\ pool \in Seq(Nat)
    /\ \A a \in 1..Len(pool) : pool[a] > 0 /\ pool[a] <= builds
    /\ \A a, b \in 1..Len(pool) : a # b => pool[a] # pool[b]
    /\ \A i \in Instance : net[i] <= builds /\ place[i] <= builds

PoolApart ==
    \A i \in Instance, a \in 1..Len(pool) : pool[a] # net[i] /\ (proc[i] = "up" => pool[a] # place[i])

NetsApart ==
    \A i, j \in Instance : i # j /\ net[j] # 0 =>
       net[i] # net[j] /\ (proc[i] = "up" => place[i] # net[j])

NetInv == PoolNumbered /\ PoolApart /\ NetsApart

\* The same for host ports.
PortInv ==
    /\ nextPort \in Nat /\ nextPort > 0 /\ portPool \in Seq(Nat)
    /\ \A a \in 1..Len(portPool) : portPool[a] > 0 /\ portPool[a] < nextPort
    /\ \A a, b \in 1..Len(portPool) : a # b => portPool[a] # portPool[b]
    /\ \A i \in Instance : port[i] < nextPort
    /\ \A i \in Instance, a \in 1..Len(portPool) : portPool[a] # port[i]
    /\ \A i, j \in Instance : i # j /\ port[j] # 0 => port[i] # port[j]

----------------------------------------------------------------------------
(* The snapshot.                                                           *)

Creator == {"pause", "publishMemory", "publishState", "put", "finish"}

\* One instance creates the snapshot, one invalidates it, never both; the entry
\* is out of the map while the files are incomplete.
SnapshotInv ==
    /\ files \subseteq Whole /\ entry \in BOOLEAN
    /\ createMu # NoInstance => job = NoInstance /\ ~entry
    /\ entry => files = Whole
    /\ \A i \in Instance :
         /\ pc[i] \in Creator => job = i
         /\ pc[i] = "unlink" => createMu = i
         /\ pc[i] \in Creator \ {"finish"} => ~entry
         /\ pc[i] = "publishState" => "memory" \in files
         /\ pc[i] = "put" => files = Whole

RuntimesInv == ControlInv /\ NetInv /\ PortInv /\ SnapshotInv

----------------------------------------------------------------------------
(* What the operations on networks do to their places.                     *)

\* Processes may exit, nothing else moves.
LEMMA NetSame ==
    ASSUME NetInv, UNCHANGED <<pool, builds, net, place>>,
           \A k \in Instance : proc'[k] = "up" => proc[k] = "up"
    PROVE  NetInv'
BY DEF NetInv, PoolNumbered, PoolApart, NetsApart

\* The front of a pool that is not empty.
LEMMA PoolFront ==
    ASSUME NetInv, pool # <<>>
    PROVE  /\ Tail(pool) \in Seq(Nat) /\ Len(Tail(pool)) = Len(pool) - 1 /\ Len(pool) \in Nat \ {0}
           /\ Head(pool) = pool[1]
           /\ \A a \in 1..Len(Tail(pool)) : a + 1 \in 1..Len(pool) /\ Tail(pool)[a] = pool[a + 1]
BY DEF NetInv, PoolNumbered, PoolApart, NetsApart

\* A network leaves the pool, for an instance or to be destroyed.
LEMMA NetBorrow ==
    ASSUME ControlTypes, NetInv, NEW i \in Instance, pool # <<>>, Borrow(i), UNCHANGED <<builds, proc, place>>
    PROVE  NetInv'
<1>1. /\ pool' \in Seq(Nat) /\ Head(pool) = pool[1] /\ 1 \in 1..Len(pool)
      /\ \A a \in 1..Len(pool') : a + 1 \in 1..Len(pool) /\ pool'[a] = pool[a + 1] /\ a + 1 # 1
      /\ net' = [net EXCEPT ![i] = pool[1]]
  BY PoolFront DEF Borrow
<1>2. \A a, b \in 1..Len(pool') : a # b => a + 1 # b + 1
  OBVIOUS
<1>3. \A k \in Instance : net'[k] = IF k = i THEN pool[1] ELSE net[k]
  BY <1>1, Zenon DEF ControlTypes
<1>4. PoolNumbered'
  <2>1. \A a \in 1..Len(pool') : pool'[a] > 0 /\ pool'[a] <= builds'
    BY <1>1, Zenon DEF NetInv, PoolNumbered
  <2>2. \A a, b \in 1..Len(pool') : a # b => pool'[a] # pool'[b]
    <3>1. \A a, b \in 1..Len(pool) : a # b => pool[a] # pool[b]
      BY Zenon DEF NetInv, PoolNumbered
    <3> SUFFICES ASSUME NEW a \in 1..Len(pool'), NEW b \in 1..Len(pool'), a # b PROVE pool'[a] # pool'[b]
      BY Zenon
    <3>2. a + 1 \in 1..Len(pool) /\ b + 1 \in 1..Len(pool) /\ a + 1 # b + 1
      BY <1>1, <1>2, Zenon
    <3>3. pool[a + 1] # pool[b + 1]
      BY <3>1, <3>2, Zenon
    <3> QED
      BY <1>1, <3>3, Zenon
  <2>3. \A k \in Instance : net'[k] <= builds' /\ place'[k] <= builds'
    BY <1>1, <1>3 DEF NetInv, PoolNumbered
  <2> QED
    BY <1>1, <2>1, <2>2, <2>3, Zenon DEF NetInv, PoolNumbered
<1>5. PoolApart'
  BY <1>1, <1>3 DEF NetInv, PoolNumbered, PoolApart
<1>6. NetsApart'
  BY <1>1, <1>3 DEF NetInv, PoolApart, NetsApart
<1> QED
  BY <1>4, <1>5, <1>6, Zenon DEF NetInv

\* A network of the pool is torn down: it is nowhere any more.
LEMMA NetDrop ==
    ASSUME NetInv, pool # <<>>, pool' = Tail(pool), UNCHANGED <<builds, net, proc, place>>
    PROVE  NetInv'
<1>1. /\ pool' \in Seq(Nat)
      /\ \A a \in 1..Len(pool') : a + 1 \in 1..Len(pool) /\ pool'[a] = pool[a + 1]
  BY PoolFront, Zenon
<1>2. \A a, b \in 1..Len(pool') : a # b => a + 1 # b + 1
  OBVIOUS
<1> QED
  BY <1>1, <1>2 DEF NetInv, PoolNumbered, PoolApart, NetsApart

\* A new network, for an instance.
LEMMA NetBuild ==
    ASSUME ControlTypes, NetInv, NEW i \in Instance, Build(i), UNCHANGED <<pool, proc, place>>
    PROVE  NetInv'
<1>1. builds' = builds + 1 /\ \A k \in Instance : net'[k] = IF k = i THEN builds + 1 ELSE net[k]
  BY Zenon DEF Build, ControlTypes
<1>2. \A k \in Instance : net[k] \in Nat /\ place[k] \in Nat
  BY Zenon DEF ControlTypes
<1> QED
  BY <1>1, <1>2, SMTT(60) DEF NetInv, PoolNumbered, PoolApart, NetsApart

\* Append at a position.
LEMMA Appended ==
    ASSUME NetInv, NEW n \in Nat, pool' = Append(pool, n)
    PROVE  /\ pool' \in Seq(Nat)
           /\ \A a \in 1..Len(pool') : \/ a \in 1..Len(pool) /\ pool'[a] = pool[a]
                                       \/ a = Len(pool) + 1 /\ pool'[a] = n
BY DEF NetInv, PoolNumbered, PoolApart, NetsApart

\* A new network, for the pool.
LEMMA NetGrow ==
    ASSUME ControlTypes, NetInv, builds' = builds + 1, pool' = Append(pool, builds + 1),
           UNCHANGED <<net, proc, place>>
    PROVE  NetInv'
<1>1. builds + 1 \in Nat
  BY DEF NetInv, PoolNumbered, PoolApart, NetsApart
<1>2. /\ pool' \in Seq(Nat)
      /\ \A a \in 1..Len(pool') : \/ a \in 1..Len(pool) /\ pool'[a] = pool[a]
                                  \/ a = Len(pool) + 1 /\ pool'[a] = builds + 1
  BY <1>1, Appended, Zenon
<1> QED
  BY <1>2, SMTT(60) DEF NetInv, PoolNumbered, PoolApart, NetsApart, ControlTypes

\* One more network was built, and destroyed at once.
LEMMA NetWasted ==
    ASSUME ControlTypes, NetInv, builds' = builds + 1, UNCHANGED <<pool, net, proc, place>>
    PROVE  NetInv'
BY DEF NetInv, PoolNumbered, PoolApart, NetsApart, ControlTypes

\* An instance whose process has exited gives its network back.
LEMMA NetReturn ==
    ASSUME ControlTypes, NetInv, NEW i \in Instance, net[i] # 0, Return(i), UNCHANGED <<builds, place>>,
           proc'[i] # "up", \A k \in Instance : proc'[k] = "up" => proc[k] = "up"
    PROVE  NetInv'
<1>1. net[i] \in Nat /\ \A k \in Instance : net'[k] = IF k = i THEN 0 ELSE net[k]
  BY Zenon DEF Return, ControlTypes
<1>2. CASE pool' = pool
  BY <1>1, <1>2, SMTT(60) DEF NetInv, PoolNumbered, PoolApart, NetsApart
<1>3. CASE pool' = Append(pool, net[i])
  <2>1. /\ pool' \in Seq(Nat)
        /\ \A a \in 1..Len(pool') : \/ a \in 1..Len(pool) /\ pool'[a] = pool[a]
                                    \/ a = Len(pool) + 1 /\ pool'[a] = net[i]
    BY <1>1, <1>3, Appended, Zenon
  <2>2. PoolNumbered'
    <3>0. /\ builds' = builds /\ net[i] > 0 /\ net[i] <= builds
          /\ \A a \in 1..Len(pool) : pool[a] > 0 /\ pool[a] <= builds /\ pool[a] # net[i]
      BY <1>1 DEF NetInv, PoolNumbered, PoolApart
    <3>1. \A a \in 1..Len(pool') : pool'[a] > 0 /\ pool'[a] <= builds'
      BY <2>1, <3>0, Zenon
    <3>2. \A a, b \in 1..Len(pool') : a # b => pool'[a] # pool'[b]
      <4>1. \A a, b \in 1..Len(pool) : a # b => pool[a] # pool[b]
        BY Zenon DEF NetInv, PoolNumbered
      <4> QED
        BY <2>1, <3>0, <4>1, ZenonT(60)
    <3>3. \A k \in Instance : net'[k] <= builds' /\ place'[k] <= builds'
      BY <1>1 DEF NetInv, PoolNumbered
    <3> QED
      BY <2>1, <3>1, <3>2, <3>3, Zenon DEF NetInv, PoolNumbered
  <2>3. PoolApart'
    <3> SUFFICES ASSUME NEW k \in Instance, NEW a \in 1..Len(pool')
                 PROVE  pool'[a] # net'[k] /\ (proc'[k] = "up" => pool'[a] # place'[k])
      BY Zenon DEF PoolApart
    <3>1. CASE a \in 1..Len(pool) /\ pool'[a] = pool[a]
      <4>1. pool[a] # net[k] /\ (proc[k] = "up" => pool[a] # place[k])
        BY <3>1, Zenon DEF NetInv, PoolApart
      <4>2. pool[a] > 0
        BY <3>1, Zenon DEF NetInv, PoolNumbered
      <4>3. pool[a] # 0
        BY <4>2
      <4> QED
        BY <1>1, <3>1, <4>1, <4>3, Zenon
    <3>2. CASE pool'[a] = net[i]
      <4>1. k # i => net[k] # net[i] /\ (proc[k] = "up" => place[k] # net[i])
        BY Zenon DEF NetInv, NetsApart
      <4> QED
        BY <1>1, <3>2, <4>1, Zenon
    <3> QED
      BY <2>1, <3>1, <3>2, Zenon
  <2>4. NetsApart'
    BY <1>1 DEF NetInv, NetsApart
  <2> QED
    BY <2>2, <2>3, <2>4, Zenon DEF NetInv
<1> QED
  BY <1>2, <1>3, Zenon DEF Return

\* An instance gives its network up for good; its process may live on in it.
LEMMA NetDestroy ==
    ASSUME ControlTypes, NetInv, NEW i \in Instance, Destroy(i), UNCHANGED <<builds, place>>,
           \A k \in Instance : proc'[k] = "up" => proc[k] = "up"
    PROVE  NetInv'
<1>1. pool' = pool /\ \A k \in Instance : net'[k] = IF k = i THEN 0 ELSE net[k]
  BY Zenon DEF Destroy, ControlTypes
<1> QED
  BY <1>1, SMTT(60) DEF NetInv, PoolNumbered, PoolApart, NetsApart

\* A process is started in the network of its instance.
LEMMA NetStart ==
    ASSUME ControlTypes, NetInv, NEW i \in Instance, UNCHANGED <<pool, builds, net>>,
           proc' = [proc EXCEPT ![i] = "up"], place' = [place EXCEPT ![i] = net[i]]
    PROVE  NetInv'
BY SMTT(60) DEF NetInv, PoolNumbered, PoolApart, NetsApart, ControlTypes

----------------------------------------------------------------------------
(* What the operations on ports do.                                        *)

\* borrowHostPort: from the pool, or a new one.
LEMMA PortBorrow ==
    ASSUME ControlTypes, PortInv, NEW i \in Instance, borrowHostPort(i)
    PROVE  PortInv'
<1>1. CASE portPool # <<>> /\ portPool' = Tail(portPool) /\ port' = [port EXCEPT ![i] = Head(portPool)]
           /\ nextPort' = nextPort
  <2>1. /\ portPool' \in Seq(Nat) /\ Head(portPool) = portPool[1] /\ 1 \in 1..Len(portPool)
        /\ \A a \in 1..Len(portPool') :
             a + 1 \in 1..Len(portPool) /\ portPool'[a] = portPool[a + 1] /\ a + 1 # 1
    BY <1>1 DEF PortInv
  <2>2. \A a, b \in 1..Len(portPool') : a # b => a + 1 # b + 1
    OBVIOUS
  <2>3. \A k \in Instance : port'[k] = IF k = i THEN portPool[1] ELSE port[k]
    BY <1>1, <2>1, Zenon DEF ControlTypes
  <2>4. \A a \in 1..Len(portPool') : portPool'[a] > 0 /\ portPool'[a] < nextPort'
    BY <1>1, <2>1 DEF PortInv
  <2>5. \A a, b \in 1..Len(portPool') : a # b => portPool'[a] # portPool'[b]
    BY <2>1, <2>2 DEF PortInv
  <2>6. \A k \in Instance, a \in 1..Len(portPool') : portPool'[a] # port'[k]
    BY <2>1, <2>3 DEF PortInv
  <2>7. \A k, j \in Instance : k # j /\ port'[j] # 0 => port'[k] # port'[j]
    <3>1. \A k \in Instance : portPool[1] # port[k]
      BY <2>1, Zenon DEF PortInv
    <3>2. \A k, j \in Instance : k # j /\ port[j] # 0 => port[k] # port[j]
      BY Zenon DEF PortInv
    <3> QED
      BY <2>3, <3>1, <3>2, Zenon
  <2>8. \A k \in Instance : port'[k] < nextPort'
    BY <1>1, <2>1, <2>3 DEF PortInv
  <2> QED
    BY <1>1, <2>1, <2>4, <2>5, <2>6, <2>7, <2>8, ZenonT(60) DEF PortInv
<1>2. CASE portPool' = portPool /\ port' = [port EXCEPT ![i] = nextPort] /\ nextPort' = nextPort + 1
  <2>1. \A k \in Instance : port'[k] = (IF k = i THEN nextPort ELSE port[k]) /\ port[k] \in Nat
    BY <1>2, Zenon DEF ControlTypes
  <2>2. \A k, j \in Instance : k # j /\ port'[j] # 0 => port'[k] # port'[j]
    BY <2>1 DEF PortInv
  <2>3. \A k \in Instance, a \in 1..Len(portPool) : portPool[a] # port'[k]
    BY <2>1 DEF PortInv
  <2>4. /\ nextPort' \in Nat /\ nextPort' > 0 /\ portPool' \in Seq(Nat)
        /\ \A k \in Instance : port'[k] < nextPort'
        /\ \A a \in 1..Len(portPool) : portPool[a] > 0 /\ portPool[a] < nextPort'
        /\ \A a, b \in 1..Len(portPool) : a # b => portPool[a] # portPool[b]
    BY <1>2, <2>1 DEF PortInv
  <2> QED
    BY <1>2, <2>2, <2>3, <2>4 DEF PortInv
<1> QED
  BY <1>1, <1>2, Zenon DEF borrowHostPort

\* A port that no instance holds enters the pool.
LEMMA PortPooled ==
    ASSUME ControlTypes, PortInv, NEW n \in Nat, n > 0, n < nextPort', nextPort' \in Nat, nextPort' >= nextPort,
           \A a \in 1..Len(portPool) : portPool[a] # n,
           \A k \in Instance : port'[k] # n /\ (port'[k] = 0 \/ port'[k] = port[k]),
           portPool' = Append(portPool, n)
    PROVE  PortInv'
<1>1. /\ portPool' \in Seq(Nat)
      /\ \A a \in 1..Len(portPool') : \/ a \in 1..Len(portPool) /\ portPool'[a] = portPool[a]
                                      \/ a = Len(portPool) + 1 /\ portPool'[a] = n
  BY DEF PortInv
<1>2. \A a \in 1..Len(portPool') : portPool'[a] > 0 /\ portPool'[a] < nextPort'
  BY <1>1 DEF PortInv
<1>3. \A a, b \in 1..Len(portPool') : a # b => portPool'[a] # portPool'[b]
  BY <1>1 DEF PortInv
<1>4. \A k \in Instance, a \in 1..Len(portPool') : portPool'[a] # port'[k]
  BY <1>1, <1>2 DEF PortInv
<1>5. \A k, j \in Instance : k # j /\ port'[j] # 0 => port'[k] # port'[j]
  BY Zenon DEF PortInv
<1>6. \A k \in Instance : port'[k] < nextPort'
  <2>1. nextPort \in Nat /\ \A k \in Instance : port[k] \in Nat /\ port[k] < nextPort
    BY Zenon DEF PortInv, ControlTypes
  <2> QED
    BY <2>1
<1>7. nextPort' > 0
  OBVIOUS
<1> QED
  BY <1>1, <1>2, <1>3, <1>4, <1>5, <1>6, <1>7, Zenon DEF PortInv

\* An instance gives its port up, and nothing enters the pool.
LEMMA PortDropped ==
    ASSUME ControlTypes, PortInv, NEW i \in Instance, port' = [port EXCEPT ![i] = 0],
           UNCHANGED <<portPool, nextPort>>
    PROVE  PortInv'
<1>1. \A k \in Instance : port'[k] = IF k = i THEN 0 ELSE port[k]
  BY Zenon DEF ControlTypes
<1> QED
  BY <1>1 DEF PortInv

\* An instance gives its host port back to the pool, or drops it at a full one.
LEMMA PortReturn ==
    ASSUME ControlTypes, PortInv, NEW i \in Instance, port[i] # 0, returnHostPort(i)
    PROVE  PortInv'
<1>1. port' = [port EXCEPT ![i] = 0] /\ nextPort' = nextPort /\ port[i] \in Nat
  BY Zenon DEF returnHostPort, ControlTypes
<1>2. CASE portPool' = portPool
  BY <1>1, <1>2, PortDropped, Zenon
<1>3. CASE portPool' = Append(portPool, port[i])
  <2>1. port[i] > 0 /\ port[i] < nextPort' /\ nextPort' \in Nat /\ nextPort' >= nextPort
    BY <1>1 DEF PortInv
  <2>2. \A a \in 1..Len(portPool) : portPool[a] # port[i]
    BY Zenon DEF PortInv
  <2>3. \A k \in Instance : port'[k] # port[i] /\ (port'[k] = 0 \/ port'[k] = port[k])
    BY <1>1, Zenon DEF PortInv, ControlTypes
  <2> QED
    BY <1>1, <1>3, <2>1, <2>2, <2>3, PortPooled, Zenon
<1> QED
  BY <1>2, <1>3, Zenon DEF returnHostPort

\* A new port enters the pool, or the replenisher gives up.
LEMMA PortReplenished ==
    ASSUME ControlTypes, PortInv, replenishPortPool
    PROVE  PortInv'
<1>1. CASE portPool' = Append(portPool, nextPort) /\ nextPort' = nextPort + 1 /\ port' = port
  <2>1. /\ nextPort \in Nat /\ nextPort > 0 /\ nextPort < nextPort' /\ nextPort' \in Nat /\ nextPort' >= nextPort
        /\ \A a \in 1..Len(portPool) : portPool[a] # nextPort
    BY <1>1 DEF PortInv
  <2>2. \A k \in Instance : port'[k] # nextPort /\ (port'[k] = 0 \/ port'[k] = port[k])
    BY <1>1 DEF PortInv, ControlTypes
  <2> QED
    BY <1>1, <2>1, <2>2, PortPooled, Zenon
<1>2. CASE UNCHANGED <<portPool, nextPort, port>>
  BY <1>2 DEF PortInv
<1> QED
  BY <1>1, <1>2, Zenon DEF replenishPortPool



\* Nothing that concerns another instance moves.
Elsewhere(i) ==
    /\ runtime' = runtime
    /\ \A k \in Instance \ {i} :
         /\ pc'[k] = pc[k] /\ net'[k] = net[k] /\ place'[k] = place[k] /\ front'[k] = front[k]
         /\ port'[k] = port[k] /\ (k \in known' <=> k \in known) /\ proc'[k] = proc[k] /\ machine'[k] = machine[k]

\* A step of one instance: the others hold what they held.
LEMMA OneMoves ==
    ASSUME ControlInv, NEW i \in Instance, Elsewhere(i), ControlTypes', Holds(i)'
    PROVE  ControlInv'
BY DEF ControlInv, Elsewhere, Holds

\* What an instance gets is a network, and what it gives up it has no more.
LEMMA NetOfOne ==
    ASSUME ControlInv, NetInv, NEW i \in Instance
    PROVE  /\ Build(i) => net' = [net EXCEPT ![i] = builds + 1] /\ builds + 1 \in Nat \ {0}
           /\ Borrow(i) /\ pool # <<>> => net' = [net EXCEPT ![i] = pool[1]] /\ pool[1] \in Nat \ {0}
           /\ \A exited \in BOOLEAN : Release(i, exited) => net' = [net EXCEPT ![i] = 0]
<1>1. builds + 1 \in Nat \ {0}
  BY DEF NetInv, PoolNumbered
<1>2. pool # <<>> => Head(pool) = pool[1] /\ pool[1] \in Nat \ {0}
  <2>1. SUFFICES ASSUME pool # <<>> PROVE Head(pool) = pool[1] /\ 1 \in 1..Len(pool) /\ pool[1] \in Nat
    BY DEF NetInv, PoolNumbered
  <2> QED
    BY <2>1, PoolFront DEF NetInv, PoolNumbered
<1> QED
  BY <1>1, <1>2, Zenon DEF Build, Borrow, Release, Return, Destroy

\* Start, Stop and the watcher of a microVM keep what each step holds.
LEMMA FirecrackerControl ==
    ASSUME ControlInv, NetInv, runtime = "firecracker", NEW i \in Instance,
           fcInstance(i) \/ fcStop(i), ~fcPrepared(i), ~finishCreate(i), UNCHANGED cdVars
    PROVE  ControlInv'
<1> USE DEF Goto, configVars, poolVars, imageVars, fcVars, cdVars, snapVars
<1>0. \A exited \in BOOLEAN : Release(i, exited) => net' = [net EXCEPT ![i] = 0]
  BY NetOfOne, Zenon
<1>1. CASE waitForAsyncTeardown(i)
  <2>1. Elsewhere(i)
    BY <1>1, Zenon DEF Elsewhere, waitForAsyncTeardown, ControlInv, ControlTypes
  <2>2. ControlTypes'
    BY <1>1, Zenon DEF waitForAsyncTeardown, ControlInv, ControlTypes
  <2>3. Holds(i)'
    BY <1>1, Zenon
       DEF waitForAsyncTeardown, ControlInv, ControlTypes, Holds, Held, NoNet, Quiet, QuietRunc, Fronted,
           Mapped, Ported
  <2> QED
    BY <2>1, <2>2, <2>3, OneMoves, Zenon
<1>13. CASE acquireFails(i)
  <2>1. Elsewhere(i)
    BY <1>13, Zenon DEF Elsewhere, acquireFails, ControlInv, ControlTypes
  <2>2. ControlTypes'
    BY <1>13, Zenon DEF acquireFails, ControlInv, ControlTypes
  <2>3. Holds(i)'
    BY <1>13, Zenon
       DEF acquireFails, ControlInv, ControlTypes, Holds, Held, NoNet, Quiet, QuietRunc, Fronted, Mapped,
           Ported
  <2> QED
    BY <2>1, <2>2, <2>3, OneMoves, Zenon
<1>14. CASE prepareBootImage(i)
  <2>1. Elsewhere(i)
    BY <1>14, Zenon DEF Elsewhere, prepareBootImage, ControlInv, ControlTypes
  <2>2. ControlTypes'
    BY <1>14, Zenon DEF prepareBootImage, ControlInv, ControlTypes
  <2>3. Holds(i)'
    BY <1>14, Zenon
       DEF prepareBootImage, ControlInv, ControlTypes, Holds, Held, NoNet, Quiet, QuietRunc, Fronted,
           Mapped, Ported
  <2> QED
    BY <2>1, <2>2, <2>3, OneMoves, Zenon
<1>12. CASE startMachineFails(i) \/ cleanupRestoreLate(i) \/ waitForTCP(i)
  <2>1. Elsewhere(i)
    BY <1>12, Zenon DEF Elsewhere, startMachineFails, cleanupRestoreLate, waitForTCP, ControlInv, ControlTypes
  <2>2. ControlTypes'
    BY <1>12, Zenon DEF startMachineFails, cleanupRestoreLate, waitForTCP, ControlInv, ControlTypes
  <2>3. Holds(i)'
    BY <1>12
       DEF startMachineFails, cleanupRestoreLate, waitForTCP, ControlInv, ControlTypes, Holds, Held, NoNet,
           Quiet, QuietRunc, Fronted, Mapped, Ported
  <2> QED
    BY <2>1, <2>2, <2>3, OneMoves, Zenon
<1>2. CASE acquire(i)
  <2>0. PICK n \in Nat \ {0} : net' = [net EXCEPT ![i] = n]
    BY <1>2, NetOfOne, Zenon DEF acquire, buildNetwork
  <2>1. Elsewhere(i)
    BY <1>2, <2>0, Zenon DEF Elsewhere, acquire, ControlInv, ControlTypes
  <2>2. ControlTypes'
    BY <1>2, <2>0, Zenon DEF acquire, ControlInv, ControlTypes
  <2>3. Holds(i)'
    BY <1>2, <2>0, ZenonT(60)
       DEF acquire, ControlInv, ControlTypes, Holds, Held, NoNet, Quiet, QuietRunc, Fronted, Mapped, Ported
  <2> QED
    BY <2>1, <2>2, <2>3, OneMoves, Zenon
<1>3. CASE prepareBootImageFails(i) \/ reapFailedMachine(i) \/ cleanupBoot(i)
  <2>0. net' = [net EXCEPT ![i] = 0]
    BY <1>3, <1>0, Zenon DEF prepareBootImageFails, reapFailedMachine, cleanupBoot
  <2>1. Elsewhere(i)
    BY <1>3, <2>0, Zenon
       DEF Elsewhere, prepareBootImageFails, reapFailedMachine, cleanupBoot, ControlInv, ControlTypes
  <2>2. ControlTypes'
    BY <1>3, <2>0, Zenon DEF prepareBootImageFails, reapFailedMachine, cleanupBoot, ControlInv, ControlTypes
  <2>3. Holds(i)'
    BY <1>3, <2>0, Zenon
       DEF prepareBootImageFails, reapFailedMachine, cleanupBoot, ControlInv, ControlTypes, Holds, Held,
           NoNet, Quiet, QuietRunc, Fronted, Mapped, Ported
  <2> QED
    BY <2>1, <2>2, <2>3, OneMoves, Zenon
<1>4. CASE cleanupRestore(i)
  <2>0. (net' = net /\ Goto(i, "invalidate")) \/ (net' = [net EXCEPT ![i] = 0] /\ Goto(i, "failed"))
    BY <1>4, <1>0, Zenon DEF cleanupRestore
  <2>1. Elsewhere(i)
    BY <1>4, <2>0, Zenon DEF Elsewhere, cleanupRestore, ControlInv, ControlTypes
  <2>2. ControlTypes'
    BY <1>4, <2>0 DEF cleanupRestore, ControlInv, ControlTypes
  <2>3. Holds(i)'
    BY <1>4, <2>0
       DEF cleanupRestore, ControlInv, ControlTypes, Holds, Held, NoNet, Quiet, QuietRunc, Fronted, Mapped,
           Ported
  <2> QED
    BY <2>1, <2>2, <2>3, OneMoves, Zenon
<1>11. CASE shutdownInstance(i)
  <2>0. net' = [net EXCEPT ![i] = 0]
    BY <1>11, <1>0, Zenon DEF shutdownInstance
  <2>1. Elsewhere(i)
    BY <1>11, <2>0, Zenon DEF Elsewhere, shutdownInstance, ControlInv, ControlTypes
  <2>2. ControlTypes'
    BY <1>11, <2>0, Zenon DEF shutdownInstance, ControlInv, ControlTypes
  <2>3. Holds(i)'
    BY <1>11, <2>0, Zenon
       DEF shutdownInstance, ControlInv, ControlTypes, Holds, Held, NoNet, Quiet, QuietRunc, Fronted,
           Mapped, Ported
  <2> QED
    BY <2>1, <2>2, <2>3, OneMoves, Zenon
<1>5. CASE abandon(i)
  <2>0. net' = [net EXCEPT ![i] = 0]
    BY <1>5, <1>0, Zenon DEF abandon
  <2>1. Elsewhere(i)
    BY <1>5, <2>0, Zenon DEF Elsewhere, abandon, ControlInv, ControlTypes
  <2>2. ControlTypes'
    BY <1>5, <2>0, ZenonT(60) DEF abandon, ControlInv, ControlTypes
  <2>3. Holds(i)'
    BY <1>5, <2>0, Zenon
       DEF abandon, ControlInv, ControlTypes, Holds, Held, NoNet, Quiet, QuietRunc, Fronted, Mapped, Ported
  <2> QED
    BY <2>1, <2>2, <2>3, OneMoves, Zenon
<1>6. CASE startPortProxy(i) \/ register(i)
  <2>1. Elsewhere(i)
    BY <1>6, Zenon DEF Elsewhere, startPortProxy, register, ControlInv, ControlTypes
  <2>2. ControlTypes'
    BY <1>6, SMTT(60) DEF startPortProxy, register, ControlInv, ControlTypes
  <2>3. Holds(i)'
    BY <1>6
       DEF startPortProxy, register, ControlInv, ControlTypes, Holds, Held, NoNet, Quiet, QuietRunc,
           Fronted, Mapped, Ported
  <2> QED
    BY <2>1, <2>2, <2>3, OneMoves, Zenon
<1>10. CASE startMachine(i)
  <2>1. Elsewhere(i)
    BY <1>10, Zenon DEF Elsewhere, startMachine, ControlInv, ControlTypes
  <2>2. ControlTypes'
    BY <1>10, Zenon DEF startMachine, ControlInv, ControlTypes
  <2>3. Holds(i)'
    BY <1>10
       DEF startMachine, ControlInv, ControlTypes, Holds, Held, NoNet, Quiet, QuietRunc, Fronted, Mapped,
           Ported
  <2> QED
    BY <2>1, <2>2, <2>3, OneMoves, Zenon
<1>7. CASE beginCreate(i) \/ createSnapshot(i) \/ publishMemory(i) \/ publishState(i) \/ put(i)
  <2>1. Elsewhere(i)
    BY <1>7, ZenonT(60)
       DEF Elsewhere, beginCreate, createSnapshot, publishMemory, publishState, put, Creating, ControlInv,
           ControlTypes
  <2>2. ControlTypes'
    BY <1>7, Zenon
       DEF beginCreate, createSnapshot, publishMemory, publishState, put, Creating, ControlInv, ControlTypes
  <2>3. Holds(i)'
    <3> DEFINE from == {"snapshot", "pause", "publishMemory", "publishState", "put"}
               to == {"register", "waitCreate", "pause", "publishMemory", "publishState", "put", "finish"}
    <3>1. pc[i] \in from /\ UNCHANGED <<runtime, net, place, front, port, known, proc, machine>>
      BY <1>7, Zenon DEF beginCreate, createSnapshot, publishMemory, publishState, put, Creating, configVars
    <3>2. \E step \in to : pc' = [pc EXCEPT ![i] = step]
      BY <1>7, Zenon DEF beginCreate, createSnapshot, publishMemory, publishState, put, Creating, Goto
    <3>3. pc'[i] \in to
      BY <3>2, Zenon DEF ControlInv, ControlTypes
    <3>4. Holds(i)
      BY Zenon DEF ControlInv
    <3> QED
      BY <3>1, <3>3, <3>4, ZenonT(60)
         DEF Holds, Held, NoNet, Quiet, QuietRunc, Fronted, Mapped, Ported
  <2> QED
    BY <2>1, <2>2, <2>3, OneMoves, Zenon
<1>8. CASE invalidate(i) \/ unlink(i)
  <2>1. Elsewhere(i)
    BY <1>8, Zenon DEF Elsewhere, invalidate, unlink, ControlInv, ControlTypes
  <2>2. ControlTypes'
    BY <1>8, Zenon DEF invalidate, unlink, ControlInv, ControlTypes
  <2>3. Holds(i)'
    BY <1>8, ZenonT(60)
       DEF invalidate, unlink, ControlInv, ControlTypes, Holds, Held, NoNet, Quiet, QuietRunc, Fronted,
           Mapped, Ported
  <2> QED
    BY <2>1, <2>2, <2>3, OneMoves, Zenon
<1>9. CASE fcWatchLifecycle(i) \/ fcStop(i)
  <2>1. Elsewhere(i)
    BY <1>9, Zenon DEF Elsewhere, fcWatchLifecycle, fcStop, runTeardown, ControlInv, ControlTypes
  <2>2. ControlTypes'
    BY <1>9, SMTT(60) DEF fcWatchLifecycle, fcStop, runTeardown, ControlInv, ControlTypes
  <2>3. Holds(i)'
    BY <1>9
       DEF fcWatchLifecycle, fcStop, runTeardown, ControlInv, ControlTypes, Holds, Held, NoNet, Quiet,
           QuietRunc, Fronted, Mapped, Ported
  <2> QED
    BY <2>1, <2>2, <2>3, OneMoves, Zenon
<1> QED
  BY <1>1, <1>2, <1>3, <1>4, <1>5, <1>6, <1>7, <1>8, <1>9, <1>10, <1>11, <1>12, <1>13, <1>14, ZenonT(60)
     DEF fcInstance

\* Nothing that an instance holds moves.
LEMMA NobodyMoves ==
    ASSUME ControlInv, UNCHANGED <<runtime, pc, net, place, front, port, known, proc, machine>>
    PROVE  ControlInv'
BY Zenon DEF ControlInv, ControlTypes, Holds

\* Instances move on, and what they hold does not change.
LEMMA OnlySteps ==
    ASSUME ControlInv, UNCHANGED <<runtime, net, place, front, port, known, proc, machine>>,
           pc' = [k \in Instance |-> pc'[k]],
           \A k \in Instance :
             \/ pc'[k] = pc[k]
             \/ /\ pc[k] \in {"new", "fetch", "waitFetch"}
                /\ pc'[k] \in {"fetch", "waitFetch", "await", "bundle", "failed"}
             \/ pc[k] \in {"finish", "waitCreate"} /\ pc'[k] = "register" /\ runtime = "firecracker"
    PROVE  ControlInv'
<1>1. ControlTypes'
  BY Zenon DEF ControlInv, ControlTypes
<1>2. ASSUME NEW k \in Instance PROVE Holds(k)'
  <2>1. Holds(k)
    BY Zenon DEF ControlInv
  <2>2. CASE pc'[k] = pc[k]
    BY <2>1, <2>2, Zenon DEF Holds
  <2>3. CASE /\ pc[k] \in {"new", "fetch", "waitFetch"}
             /\ pc'[k] \in {"fetch", "waitFetch", "await", "bundle", "failed"}
    BY <2>1, <2>3, Zenon DEF Holds, Held, NoNet, Quiet, QuietRunc, Fronted, Mapped, Ported
  <2>4. CASE pc[k] \in {"finish", "waitCreate"} /\ pc'[k] = "register" /\ runtime = "firecracker"
    BY <2>1, <2>4, Zenon DEF Holds, Held, NoNet, Quiet, QuietRunc, Fronted, Mapped, Ported
  <2> QED
    BY <2>2, <2>3, <2>4, Zenon
<1> QED
  BY <1>1, <1>2, Zenon DEF ControlInv

\* The single flight that fetches an image moves its callers only.
LEMMA FetchControl ==
    ASSUME ControlInv, NEW i \in Instance, NEW next \in {"await", "bundle"}, Fetch(i, next) \/ FetchEnds(i, next),
           UNCHANGED <<machine, port>>
    PROVE  ControlInv'
<1>1. UNCHANGED <<runtime, net, place, front, port, known, proc, machine>>
  BY Zenon DEF Fetch, FetchEnds, notImage, configVars
<1>2. pc' = [k \in Instance |-> pc'[k]]
  BY Zenon DEF Fetch, FetchEnds, Goto, ControlInv, ControlTypes
<1>3. \A k \in Instance : \/ pc'[k] = pc[k]
                          \/ /\ pc[k] \in {"new", "fetch", "waitFetch"}
                             /\ pc'[k] \in {"fetch", "waitFetch", "await", "bundle", "failed"}
  BY ZenonT(60) DEF Fetch, FetchEnds, Goto, ControlInv, ControlTypes
<1> QED
  BY <1>1, <1>2, <1>3, OnlySteps, Zenon

\* The end of a snapshot creation keeps what each step holds.
LEMMA FinishControl ==
    ASSUME ControlInv, runtime = "firecracker", NEW i \in Instance, finishCreate(i), UNCHANGED port
    PROVE  ControlInv'
<1>1. UNCHANGED <<runtime, net, place, front, port, known, proc, machine>>
  BY Zenon DEF finishCreate, configVars
<1>2. /\ pc' = [k \in Instance |-> pc'[k]]
      /\ \A k \in Instance : \/ pc'[k] = pc[k]
                             \/ pc[k] \in {"finish", "waitCreate"} /\ pc'[k] = "register"
  BY Zenon DEF finishCreate
<1> QED
  BY <1>1, <1>2, OnlySteps, Zenon

\* The exit of a process keeps what the steps of its instance hold.
LEMMA ExitControl ==
    ASSUME ControlInv, NEW i \in Instance, ProcessExits(i), UNCHANGED <<machine, port>>
    PROVE  ControlInv'
<1>1. Elsewhere(i)
  BY Zenon DEF Elsewhere, ProcessExits, configVars, ControlInv, ControlTypes
<1>2. ControlTypes'
  BY Zenon DEF ProcessExits, configVars, ControlInv, ControlTypes
<1>3. Holds(i)'
  BY Zenon DEF ProcessExits, configVars, ControlInv, ControlTypes, Holds, Held
<1> QED
  BY <1>1, <1>2, <1>3, OneMoves, Zenon

\* A port to be handed out is a port.
LEMMA PortOfOne ==
    ASSUME PortInv
    PROVE  nextPort \in Nat \ {0} /\ (portPool # <<>> => Head(portPool) \in Nat \ {0})
<1>1. portPool # <<>> => Head(portPool) = portPool[1] /\ 1 \in 1..Len(portPool) /\ portPool[1] \in Nat
  BY DEF PortInv
<1> QED
  BY <1>1 DEF PortInv

\* Start, Stop and the reaper of a containerd task keep what each step holds.
LEMMA ContainerdControl ==
    ASSUME ControlInv, NetInv, PortInv, runtime = "containerd", NEW i \in Instance,
           cdInstance(i) \/ cdStop(i), ~pullEnds(i), UNCHANGED fcVars
    PROVE  ControlInv'
<1> USE DEF Goto, configVars, poolVars, imageVars, fcVars, cdVars, rest
<1>0. /\ Return(i) \/ Destroy(i) => net' = [net EXCEPT ![i] = 0]
      /\ returnHostPort(i) => port' = [port EXCEPT ![i] = 0]
  BY Zenon DEF Return, Destroy, returnHostPort
<1>1. CASE cdWaitForAsyncTeardown(i)
  <2>1. Elsewhere(i)
    BY <1>1, Zenon DEF Elsewhere, cdWaitForAsyncTeardown, ControlInv, ControlTypes
  <2>2. ControlTypes'
    BY <1>1, Zenon DEF cdWaitForAsyncTeardown, ControlInv, ControlTypes
  <2>3. Holds(i)'
    BY <1>1, ZenonT(60)
       DEF cdWaitForAsyncTeardown, ControlInv, ControlTypes, Holds, Held, NoNet, Quiet, QuietRunc, Fronted,
           Mapped, Ported
  <2> QED
    BY <2>1, <2>2, <2>3, OneMoves, Zenon
<1>10. CASE borrowHostPortFails(i)
  <2>1. Elsewhere(i)
    BY <1>10, Zenon DEF Elsewhere, borrowHostPortFails, ControlInv, ControlTypes
  <2>2. ControlTypes'
    BY <1>10, Zenon DEF borrowHostPortFails, ControlInv, ControlTypes
  <2>3. Holds(i)'
    BY <1>10, ZenonT(60)
       DEF borrowHostPortFails, ControlInv, ControlTypes, Holds, Held, NoNet, Quiet, QuietRunc, Fronted,
           Mapped, Ported
  <2> QED
    BY <2>1, <2>2, <2>3, OneMoves, Zenon
<1>2. CASE borrowHostPort(i)
  <2>0. PICK p \in Nat \ {0} : port' = [port EXCEPT ![i] = p]
    BY <1>2, PortOfOne, Zenon DEF borrowHostPort
  <2>1. Elsewhere(i)
    BY <1>2, <2>0, Zenon DEF Elsewhere, borrowHostPort, ControlInv, ControlTypes
  <2>2. ControlTypes'
    BY <1>2, <2>0, Zenon DEF borrowHostPort, ControlInv, ControlTypes
  <2>3. Holds(i)'
    BY <1>2, <2>0, ZenonT(60)
       DEF borrowHostPort, ControlInv, ControlTypes, Holds, Held, NoNet, Quiet, QuietRunc, Fronted, Mapped,
           Ported
  <2> QED
    BY <2>1, <2>2, <2>3, OneMoves, ZenonT(60)
<1>3. CASE cdNetwork(i)
  <2>0. PICK n \in Nat \ {0} : net' = [net EXCEPT ![i] = n]
    BY <1>3, NetOfOne, Zenon DEF cdNetwork, createCNINamespace
  <2>1. Elsewhere(i)
    BY <1>3, <2>0, Zenon DEF Elsewhere, cdNetwork, ControlInv, ControlTypes
  <2>2. ControlTypes'
    BY <1>3, <2>0, ZenonT(60) DEF cdNetwork, ControlInv, ControlTypes
  <2>3. Holds(i)'
    BY <1>3, <2>0, Zenon
       DEF cdNetwork, ControlInv, ControlTypes, Holds, Held, NoNet, Quiet, QuietRunc, Fronted, Mapped,
           Ported
  <2> QED
    BY <2>1, <2>2, <2>3, OneMoves, Zenon
<1>4. CASE cdNetworkFails(i)
  <2>0. port' = [port EXCEPT ![i] = 0]
    BY <1>4, <1>0, Zenon DEF cdNetworkFails
  <2>1. Elsewhere(i)
    BY <1>4, <2>0, Zenon DEF Elsewhere, cdNetworkFails, ControlInv, ControlTypes
  <2>2. ControlTypes'
    BY <1>4, <2>0, ZenonT(60) DEF cdNetworkFails, ControlInv, ControlTypes
  <2>3. Holds(i)'
    BY <1>4, <2>0, Zenon
       DEF cdNetworkFails, ControlInv, ControlTypes, Holds, Held, NoNet, Quiet, QuietRunc, Fronted, Mapped,
           Ported
  <2> QED
    BY <2>1, <2>2, <2>3, OneMoves, Zenon
<1>5. CASE taskStart(i)
  <2>1. Elsewhere(i)
    BY <1>5, Zenon DEF Elsewhere, taskStart, ControlInv, ControlTypes
  <2>2. ControlTypes'
    BY <1>5, Zenon DEF taskStart, ControlInv, ControlTypes
  <2>3. Holds(i)'
    BY <1>5, Zenon
       DEF taskStart, ControlInv, ControlTypes, Holds, Held, NoNet, Quiet, QuietRunc, Fronted, Mapped,
           Ported
  <2> QED
    BY <2>1, <2>2, <2>3, OneMoves, Zenon
<1>6. CASE taskStartFails(i)
  <2>0. net' = [net EXCEPT ![i] = 0] /\ port' = [port EXCEPT ![i] = 0]
    BY <1>6, <1>0, Zenon DEF taskStartFails
  <2>1. Elsewhere(i)
    BY <1>6, <2>0, Zenon DEF Elsewhere, taskStartFails, ControlInv, ControlTypes
  <2>2. ControlTypes'
    BY <1>6, <2>0, ZenonT(60) DEF taskStartFails, ControlInv, ControlTypes
  <2>3. Holds(i)'
    BY <1>6, <2>0, Zenon
       DEF taskStartFails, ControlInv, ControlTypes, Holds, Held, NoNet, Quiet, QuietRunc, Fronted, Mapped,
           Ported
  <2> QED
    BY <2>1, <2>2, <2>3, OneMoves, Zenon
<1>7. CASE addIptablesRules(i)
  <2>1. Elsewhere(i)
    BY <1>7, Zenon DEF Elsewhere, addIptablesRules, ControlInv, ControlTypes
  <2>2. ControlTypes'
    BY <1>7, Zenon DEF addIptablesRules, ControlInv, ControlTypes
  <2>3. Holds(i)'
    BY <1>7, ZenonT(60)
       DEF addIptablesRules, ControlInv, ControlTypes, Holds, Held, NoNet, Quiet, QuietRunc, Fronted,
           Mapped, Ported
  <2> QED
    BY <2>1, <2>2, <2>3, OneMoves, ZenonT(60)
<1>8. CASE cdWatchLifecycle(i) \/ cdStop(i)
  <2>1. Elsewhere(i)
    BY <1>8, ZenonT(60)
       DEF Elsewhere, cdWatchLifecycle, cdStop, takeContainer, deleteIptablesRules, beginAsyncTeardown,
           ControlInv, ControlTypes
  <2>2. ControlTypes'
    BY <1>8, SMTT(60)
       DEF cdWatchLifecycle, cdStop, takeContainer, deleteIptablesRules, beginAsyncTeardown, ControlInv,
           ControlTypes
  <2>3. Holds(i)'
    BY <1>8 DEF cdWatchLifecycle, cdStop, takeContainer, deleteIptablesRules, beginAsyncTeardown, ControlInv,
                ControlTypes, Holds, Held, NoNet, Quiet, QuietRunc, Fronted, Mapped, Ported
  <2> QED
    BY <2>1, <2>2, <2>3, OneMoves, ZenonT(60)
<1>9. CASE teardownSandbox(i)
  <2>0. net' = [net EXCEPT ![i] = 0] /\ port' = [port EXCEPT ![i] = 0]
    BY <1>9, <1>0, Zenon DEF teardownSandbox
  <2>1. Elsewhere(i)
    BY <1>9, <2>0, Zenon DEF Elsewhere, teardownSandbox, ControlInv, ControlTypes
  <2>2. ControlTypes'
    BY <1>9, <2>0, Zenon DEF teardownSandbox, ControlInv, ControlTypes
  <2>3. Holds(i)'
    BY <1>9, <2>0, ZenonT(60)
       DEF teardownSandbox, ControlInv, ControlTypes, Holds, Held, NoNet, Quiet, QuietRunc, Fronted, Mapped,
           Ported
  <2> QED
    BY <2>1, <2>2, <2>3, OneMoves, Zenon
<1> QED
  BY <1>1, <1>2, <1>3, <1>4, <1>5, <1>6, <1>7, <1>8, <1>9, <1>10, ZenonT(60) DEF cdInstance

\* Start, the reaper and Stop of a runc container keep what each step holds.
LEMMA RuncControl ==
    ASSUME ControlInv, NetInv, runtime = "runc", NEW i \in Instance,
           runcInstance(i) \/ runcKill(i), ~runcPrepared(i), UNCHANGED <<fcVars, cdVars>>
    PROVE  ControlInv'
<1> USE DEF Goto, configVars, poolVars, imageVars, fcVars, cdVars
<1>0. Return(i) => net' = [net EXCEPT ![i] = 0]
  BY Zenon DEF Return
<1>1. CASE runcBundle(i)
  <2>0. PICK n \in Nat \ {0} : net' = [net EXCEPT ![i] = n]
    BY <1>1, NetOfOne, Zenon DEF runcBundle, createNamespace
  <2>1. Elsewhere(i)
    BY <1>1, <2>0, Zenon DEF Elsewhere, runcBundle, ControlInv, ControlTypes
  <2>2. ControlTypes'
    BY <1>1, <2>0, Zenon DEF runcBundle, ControlInv, ControlTypes
  <2>3. Holds(i)'
    BY <1>1, <2>0, Zenon
       DEF runcBundle, ControlInv, ControlTypes, Holds, Held, NoNet, Quiet, QuietRunc, Fronted, Mapped,
           Ported
  <2> QED
    BY <2>1, <2>2, <2>3, OneMoves, Zenon
<1>2. CASE runcBundleFails(i) \/ runcConfig(i)
  <2>1. Elsewhere(i)
    BY <1>2, Zenon DEF Elsewhere, runcBundleFails, runcConfig, ControlInv, ControlTypes
  <2>2. ControlTypes'
    BY <1>2, Zenon DEF runcBundleFails, runcConfig, ControlInv, ControlTypes
  <2>3. Holds(i)'
    BY <1>2
       DEF runcBundleFails, runcConfig, ControlInv, ControlTypes, Holds, Held, NoNet, Quiet, QuietRunc,
           Fronted, Mapped, Ported
  <2> QED
    BY <2>1, <2>2, <2>3, OneMoves, Zenon
<1>3. CASE runcPortProxy(i)
  <2>1. Elsewhere(i)
    BY <1>3, Zenon DEF Elsewhere, runcPortProxy, ControlInv, ControlTypes
  <2>2. ControlTypes'
    BY <1>3, Zenon DEF runcPortProxy, ControlInv, ControlTypes
  <2>3. Holds(i)'
    BY <1>3, Zenon
       DEF runcPortProxy, ControlInv, ControlTypes, Holds, Held, NoNet, Quiet, QuietRunc, Fronted, Mapped,
           Ported
  <2> QED
    BY <2>1, <2>2, <2>3, OneMoves, Zenon
<1>4. CASE runcRun(i)
  <2>1. Elsewhere(i)
    BY <1>4, Zenon DEF Elsewhere, runcRun, ControlInv, ControlTypes
  <2>2. ControlTypes'
    BY <1>4, ZenonT(60) DEF runcRun, ControlInv, ControlTypes
  <2>3. Holds(i)'
    BY <1>4, Zenon
       DEF runcRun, ControlInv, ControlTypes, Holds, Held, NoNet, Quiet, QuietRunc, Fronted, Mapped, Ported
  <2> QED
    BY <2>1, <2>2, <2>3, OneMoves, ZenonT(60)
<1>5. CASE runcKill(i)
  <2>1. Elsewhere(i)
    BY <1>5, Zenon DEF Elsewhere, runcKill, ControlInv, ControlTypes
  <2>2. ControlTypes'
    BY <1>5, Zenon DEF runcKill, ControlInv, ControlTypes
  <2>3. Holds(i)'
    BY <1>5, Zenon
       DEF runcKill, ControlInv, ControlTypes, Holds, Held, NoNet, Quiet, QuietRunc, Fronted, Mapped, Ported
  <2> QED
    BY <2>1, <2>2, <2>3, OneMoves, Zenon
<1>6. CASE cleanupStartFailure(i)
  <2>0. net' = [net EXCEPT ![i] = 0]
    BY <1>6, <1>0, Zenon DEF cleanupStartFailure
  <2>1. Elsewhere(i)
    BY <1>6, <2>0, Zenon DEF Elsewhere, cleanupStartFailure, ControlInv, ControlTypes
  <2>2. ControlTypes'
    BY <1>6, <2>0, ZenonT(60) DEF cleanupStartFailure, ControlInv, ControlTypes
  <2>3. Holds(i)'
    BY <1>6, <2>0, ZenonT(60)
       DEF cleanupStartFailure, ControlInv, ControlTypes, Holds, Held, NoNet, Quiet, QuietRunc, Fronted,
           Mapped, Ported
  <2> QED
    BY <2>1, <2>2, <2>3, OneMoves, Zenon
<1>7. CASE runcStopEnds(i)
  <2>0. net' = [net EXCEPT ![i] = 0]
    BY <1>7, <1>0, Zenon DEF runcStopEnds
  <2>1. Elsewhere(i)
    BY <1>7, <2>0, Zenon DEF Elsewhere, runcStopEnds, ControlInv, ControlTypes
  <2>2. ControlTypes'
    BY <1>7, <2>0, ZenonT(60) DEF runcStopEnds, ControlInv, ControlTypes
  <2>3. Holds(i)'
    BY <1>7, <2>0, Zenon
       DEF runcStopEnds, ControlInv, ControlTypes, Holds, Held, NoNet, Quiet, QuietRunc, Fronted, Mapped,
           Ported
  <2> QED
    BY <2>1, <2>2, <2>3, OneMoves, ZenonT(60)
<1> QED
  BY <1>1, <1>2, <1>3, <1>4, <1>5, <1>6, <1>7, ZenonT(60) DEF runcInstance

\* Start, the monitor and Stop of a docker container keep what each step holds.
LEMMA DockerControl ==
    ASSUME ControlInv, runtime = "docker", NEW i \in Instance,
           dkStart(i) \/ dkInstance(i) \/ monitorContainer(i) \/ dkStop(i) \/ dkStopFails(i),
           UNCHANGED <<fcVars, cdVars>>
    PROVE  ControlInv'
<1> USE DEF Goto, configVars, poolVars, imageVars, fcVars, cdVars
<1>1. CASE monitorContainer(i)
  BY <1>1, NobodyMoves, Zenon DEF monitorContainer
<1>2. CASE dkStart(i) \/ containerStartFails(i)
  <2>1. Elsewhere(i)
    BY <1>2, Zenon DEF Elsewhere, dkStart, containerStartFails, ControlInv, ControlTypes
  <2>2. ControlTypes'
    BY <1>2, Zenon DEF dkStart, containerStartFails, ControlInv, ControlTypes
  <2>3. Holds(i)'
    BY <1>2, ZenonT(60)
       DEF dkStart, containerStartFails, ControlInv, ControlTypes, Holds, Held, NoNet, Quiet, QuietRunc,
           Fronted, Mapped, Ported
  <2> QED
    BY <2>1, <2>2, <2>3, OneMoves, Zenon
<1>3. CASE containerStart(i)
  <2>1. Elsewhere(i)
    BY <1>3, Zenon DEF Elsewhere, containerStart, ControlInv, ControlTypes
  <2>2. ControlTypes'
    BY <1>3, Zenon DEF containerStart, ControlInv, ControlTypes
  <2>3. Holds(i)'
    BY <1>3, Zenon
       DEF containerStart, ControlInv, ControlTypes, Holds, Held, NoNet, Quiet, QuietRunc, Fronted, Mapped,
           Ported
  <2> QED
    BY <2>1, <2>2, <2>3, OneMoves, Zenon
<1>4. CASE dkWatchLifecycle(i)
  <2>1. Elsewhere(i)
    BY <1>4, Zenon DEF Elsewhere, dkWatchLifecycle, ControlInv, ControlTypes
  <2>2. ControlTypes'
    BY <1>4, Zenon DEF dkWatchLifecycle, ControlInv, ControlTypes
  <2>3. Holds(i)'
    BY <1>4, Zenon
       DEF dkWatchLifecycle, ControlInv, ControlTypes, Holds, Held, NoNet, Quiet, QuietRunc, Fronted,
           Mapped, Ported
  <2> QED
    BY <2>1, <2>2, <2>3, OneMoves, Zenon
<1>5. CASE dkStop(i)
  <2>1. Elsewhere(i)
    BY <1>5, Zenon DEF Elsewhere, dkStop, ControlInv, ControlTypes
  <2>2. ControlTypes'
    BY <1>5, Zenon DEF dkStop, ControlInv, ControlTypes
  <2>3. Holds(i)'
    BY <1>5, Zenon
       DEF dkStop, ControlInv, ControlTypes, Holds, Held, NoNet, Quiet, QuietRunc, Fronted, Mapped, Ported
  <2> QED
    BY <2>1, <2>2, <2>3, OneMoves, Zenon
<1>6. CASE dkStopFails(i)
  <2>1. Elsewhere(i)
    BY <1>6, Zenon DEF Elsewhere, dkStopFails, ControlInv, ControlTypes
  <2>2. ControlTypes'
    BY <1>6, Zenon DEF dkStopFails, ControlInv, ControlTypes
  <2>3. Holds(i)'
    BY <1>6, Zenon
       DEF dkStopFails, ControlInv, ControlTypes, Holds, Held, NoNet, Quiet, QuietRunc, Fronted, Mapped,
           Ported
  <2> QED
    BY <2>1, <2>2, <2>3, OneMoves, Zenon
<1> QED
  BY <1>1, <1>2, <1>3, <1>4, <1>5, <1>6, Zenon DEF dkInstance

----------------------------------------------------------------------------
(* Networks, step by step.                                                 *)

\* Taken out of the pool, found broken, and another one built.
LEMMA NetRebuilt ==
    ASSUME ControlTypes, NetInv, NEW i \in Instance, pool # <<>>, pool' = Tail(pool), Build(i),
           UNCHANGED <<proc, place>>
    PROVE  NetInv'
<1>1. /\ pool' \in Seq(Nat)
      /\ \A a \in 1..Len(pool') : a + 1 \in 1..Len(pool) /\ pool'[a] = pool[a + 1]
  BY PoolFront, Zenon
<1>2. \A a, b \in 1..Len(pool') : a # b => a + 1 # b + 1
  OBVIOUS
<1>3. /\ builds' = builds + 1 /\ builds \in Nat
      /\ \A k \in Instance : /\ net'[k] = IF k = i THEN builds + 1 ELSE net[k]
                             /\ net[k] \in Nat /\ place[k] \in Nat /\ net[k] <= builds /\ place[k] <= builds
  BY Zenon DEF Build, ControlTypes, NetInv, PoolNumbered
<1>4. PoolNumbered'
  <2>1. \A a \in 1..Len(pool') : pool'[a] > 0 /\ pool'[a] <= builds'
    BY <1>1, <1>3 DEF NetInv, PoolNumbered
  <2>2. \A a, b \in 1..Len(pool') : a # b => pool'[a] # pool'[b]
    <3>1. \A a, b \in 1..Len(pool) : a # b => pool[a] # pool[b]
      BY Zenon DEF NetInv, PoolNumbered
    <3> QED
      BY <1>1, <1>2, <3>1
  <2>3. \A k \in Instance : net'[k] <= builds' /\ place'[k] <= builds'
    BY <1>3
  <2>4. builds' \in Nat /\ pool' \in Seq(Nat)
    BY <1>1, <1>3
  <2> QED
    BY <2>1, <2>2, <2>3, <2>4, Zenon DEF PoolNumbered
<1>5. PoolApart'
  <2>1. \A a \in 1..Len(pool') : pool'[a] # builds + 1
    BY <1>1, <1>3, SMTT(60) DEF NetInv, PoolNumbered
  <2> QED
    BY <1>1, <1>3, <2>1, SMTT(60) DEF NetInv, PoolApart
<1>6. NetsApart'
  BY <1>3, SMTT(60) DEF NetInv, NetsApart
<1> QED
  BY <1>4, <1>5, <1>6, Zenon DEF NetInv

\* A network is released: the process that ran in it has exited, or it is
\* discarded.
LEMMA NetReleased ==
    ASSUME ControlTypes, NetInv, NEW i \in Instance, NEW exited \in BOOLEAN, net[i] # 0, Release(i, exited),
           exited => proc'[i] # "up", UNCHANGED <<builds, place>>,
           \A k \in Instance : proc'[k] = "up" => proc[k] = "up"
    PROVE  NetInv'
<1>1. CASE Return(i) /\ exited
  BY <1>1, NetReturn, Zenon
<1>2. CASE Destroy(i)
  BY <1>2, NetDestroy, Zenon
<1> QED
  BY <1>1, <1>2, Zenon DEF Release

\* The fields of an instance that moves, and the exit of its process.
LEMMA ProcessOfOne ==
    ASSUME ControlTypes, NEW i \in Instance
    PROVE  /\ \A k \in Instance : proc[k] = "up" => proc[k] = "up"
           /\ proc' = [proc EXCEPT ![i] = "gone"] =>
                proc'[i] # "up" /\ \A k \in Instance : proc'[k] = "up" => proc[k] = "up"
BY Zenon DEF ControlTypes

\* The steps of a microVM keep every network in one place.
LEMMA FirecrackerNets ==
    ASSUME ControlInv, NetInv, runtime = "firecracker", NEW i \in Instance, fcPrepare(i) \/ fcInstance(i) \/ fcStop(i)
    PROVE  NetInv'
<1>0. ControlTypes /\ Holds(i)
  BY Zenon DEF ControlInv
<1>1. CASE \/ fcPrepare(i) \/ fcPrepared(i) \/ waitForAsyncTeardown(i) \/ prepareBootImage(i)
           \/ startMachineFails(i) \/ cleanupRestoreLate(i)
  <2>1. UNCHANGED <<pool, builds, net, proc, place>>
    BY <1>1, Zenon
       DEF fcPrepare, fcPrepared, waitForAsyncTeardown, prepareBootImage, startMachineFails,
           cleanupRestoreLate, Fetch, FetchEnds, notImage, poolVars
  <2> QED
    BY <2>1, NetSame, Zenon
<1>2. CASE \/ startPortProxy(i) \/ waitForTCP(i) \/ register(i) \/ beginCreate(i) \/ createSnapshot(i)
           \/ publishMemory(i) \/ publishState(i) \/ put(i)
  <2>1. UNCHANGED <<pool, builds, net, proc, place>>
    BY <1>2, Zenon
       DEF startPortProxy, waitForTCP, register, beginCreate, createSnapshot, publishMemory, publishState,
           put, Creating, poolVars
  <2> QED
    BY <2>1, NetSame, Zenon
<1>3. CASE \/ finishCreate(i) \/ invalidate(i) \/ unlink(i) \/ fcWatchLifecycle(i) \/ fcStop(i)
  <2>1. UNCHANGED <<pool, builds, net, proc, place>>
    BY <1>3, ZenonT(60) DEF finishCreate, invalidate, unlink, fcWatchLifecycle, fcStop, runTeardown, poolVars
  <2> QED
    BY <2>1, NetSame, Zenon
<1>4. CASE acquire(i)
  <2>1. CASE Borrow(i) /\ pool # <<>> /\ UNCHANGED builds
    BY <1>0, <1>4, <2>1, NetBorrow, Zenon DEF acquire
  <2>2. CASE pool # <<>> /\ pool' = Tail(pool) /\ Build(i)
    BY <1>0, <1>4, <2>2, NetRebuilt, Zenon DEF acquire
  <2>3. CASE Build(i) /\ UNCHANGED pool
    BY <1>0, <1>4, <2>3, NetBuild, Zenon DEF acquire
  <2> QED
    BY <1>4, <2>1, <2>2, <2>3, Zenon DEF acquire, buildNetwork
<1>5. CASE acquireFails(i)
  <2>1. CASE pool = <<>>
    BY <1>5, <2>1, NetSame, Zenon DEF acquireFails
  <2>2. CASE pool # <<>>
    BY <1>5, <2>2, NetDrop, Zenon DEF acquireFails
  <2> QED
    BY <2>1, <2>2, Zenon
<1>6. CASE prepareBootImageFails(i) \/ reapFailedMachine(i) \/ cleanupBoot(i)
  <2>1. net[i] # 0 /\ proc[i] # "up"
    BY <1>0, <1>6, ZenonT(60)
       DEF prepareBootImageFails, reapFailedMachine, cleanupBoot, Holds, Held, NoNet, Quiet
  <2>2. Release(i, TRUE) /\ UNCHANGED <<builds, place, proc>>
    BY <1>6, Zenon DEF prepareBootImageFails, reapFailedMachine, cleanupBoot
  <2> QED
    BY <1>0, <2>1, <2>2, NetReleased, Zenon
<1>7. CASE startMachine(i)
  BY <1>0, <1>7, NetStart, ZenonT(60) DEF startMachine, poolVars
<1>8. CASE cleanupRestore(i)
  <2>1. net[i] # 0
    BY <1>0, <1>8, Zenon DEF cleanupRestore, Holds, Held, NoNet
  <2>2. proc'[i] # "up" /\ \A k \in Instance : proc'[k] = "up" => proc[k] = "up"
    BY <1>0, <1>8, Zenon DEF cleanupRestore, Holds, Held, ControlTypes
  <2>3. UNCHANGED <<builds, place>> /\ (Release(i, TRUE) \/ UNCHANGED <<pool, net>>)
    BY <1>8, ZenonT(60) DEF cleanupRestore
  <2> QED
    BY <1>0, <2>1, <2>2, <2>3, NetReleased, NetSame, ZenonT(60)
<1>9. CASE abandon(i) \/ shutdownInstance(i)
  <2>1. net[i] # 0
    BY <1>0, <1>9, ZenonT(60) DEF abandon, shutdownInstance, Holds, Held, NoNet
  <2>2. UNCHANGED <<builds, place>>
    BY <1>9, Zenon DEF abandon, shutdownInstance
  <2>3. CASE proc' = [proc EXCEPT ![i] = "gone"] /\ Release(i, TRUE)
    BY <1>0, <2>1, <2>2, <2>3, ProcessOfOne, NetReleased, Zenon
  <2>4. CASE UNCHANGED proc /\ Release(i, FALSE)
    BY <1>0, <2>1, <2>2, <2>4, NetReleased, ZenonT(60)
  <2> QED
    BY <1>9, <2>3, <2>4, Zenon DEF abandon, shutdownInstance
<1> QED
  BY <1>1, <1>2, <1>3, <1>4, <1>5, <1>6, <1>7, <1>8, <1>9, Zenon DEF fcInstance

\* The steps of a containerd task keep every network in one place.
LEMMA ContainerdNets ==
    ASSUME ControlInv, NetInv, runtime = "containerd", NEW i \in Instance,
           ensureImageSingleFlight(i) \/ cdInstance(i) \/ cdStop(i)
    PROVE  NetInv'
<1>0. ControlTypes /\ Holds(i)
  BY Zenon DEF ControlInv
<1>1. CASE \/ ensureImageSingleFlight(i) \/ pullEnds(i) \/ cdWaitForAsyncTeardown(i) \/ borrowHostPort(i)
           \/ borrowHostPortFails(i)
  <2>1. UNCHANGED <<pool, builds, net, proc, place>>
    BY <1>1, Zenon
       DEF ensureImageSingleFlight, pullEnds, cdWaitForAsyncTeardown, borrowHostPort, borrowHostPortFails,
           Fetch, FetchEnds, notImage, rest, poolVars
  <2> QED
    BY <2>1, NetSame, Zenon
<1>2. CASE \/ cdNetworkFails(i) \/ addIptablesRules(i) \/ cdWatchLifecycle(i) \/ cdStop(i)
  <2>1. UNCHANGED <<pool, builds, net, proc, place>>
    BY <1>2, Zenon DEF cdNetworkFails, addIptablesRules, cdWatchLifecycle, cdStop, rest, poolVars
  <2> QED
    BY <2>1, NetSame, Zenon
<1>3. CASE cdNetwork(i)
  <2>1. CASE Borrow(i) /\ pool # <<>> /\ UNCHANGED builds
    BY <1>0, <1>3, <2>1, NetBorrow, Zenon DEF cdNetwork
  <2>2. CASE Build(i) /\ UNCHANGED pool
    BY <1>0, <1>3, <2>2, NetBuild, Zenon DEF cdNetwork
  <2> QED
    BY <1>3, <2>1, <2>2, Zenon DEF cdNetwork, createCNINamespace
<1>4. CASE taskStart(i)
  BY <1>0, <1>4, NetStart, ZenonT(60) DEF taskStart, poolVars
<1>5. CASE taskStartFails(i)
  <2>1. net[i] # 0 /\ proc[i] # "up"
    BY <1>0, <1>5, Zenon DEF taskStartFails, Holds, Held, NoNet, Quiet
  <2> QED
    BY <1>0, <1>5, <2>1, NetReturn, Zenon DEF taskStartFails
<1>6. CASE teardownSandbox(i)
  <2>1. net[i] # 0
    BY <1>0, <1>6, ZenonT(60) DEF teardownSandbox, Holds, Held, NoNet
  <2>2. CASE proc' = [proc EXCEPT ![i] = "gone"] /\ Return(i)
    BY <1>0, <1>6, <2>1, <2>2, ProcessOfOne, NetReturn, ZenonT(60) DEF teardownSandbox
  <2>3. CASE UNCHANGED proc /\ Destroy(i)
    BY <1>0, <1>6, <2>3, NetDestroy, Zenon DEF teardownSandbox
  <2> QED
    BY <1>6, <2>2, <2>3, Zenon DEF teardownSandbox
<1> QED
  BY <1>1, <1>2, <1>3, <1>4, <1>5, <1>6, Zenon DEF cdInstance

\* The steps of a runc container keep every network in one place.
LEMMA RuncNets ==
    ASSUME ControlInv, NetInv, runtime = "runc", NEW i \in Instance, runcPrepare(i) \/ runcInstance(i) \/ runcKill(i)
    PROVE  NetInv'
<1>0. ControlTypes /\ Holds(i)
  BY Zenon DEF ControlInv
<1>1. CASE \/ runcPrepare(i) \/ runcPrepared(i) \/ runcBundleFails(i) \/ runcPortProxy(i) \/ runcConfig(i)
  <2>1. UNCHANGED <<pool, builds, net, proc, place>>
    BY <1>1, ZenonT(60)
       DEF runcPrepare, runcPrepared, runcBundleFails, runcPortProxy, runcConfig, Fetch, FetchEnds,
           notImage, poolVars
  <2> QED
    BY <2>1, NetSame, Zenon
<1>2. CASE runcBundle(i)
  <2>1. CASE Borrow(i) /\ pool # <<>> /\ UNCHANGED builds
    BY <1>0, <1>2, <2>1, NetBorrow, Zenon DEF runcBundle
  <2>2. CASE Build(i) /\ UNCHANGED pool
    BY <1>0, <1>2, <2>2, NetBuild, Zenon DEF runcBundle
  <2> QED
    BY <1>2, <2>1, <2>2, Zenon DEF runcBundle, createNamespace
<1>3. CASE runcRun(i)
  BY <1>0, <1>3, NetStart, ZenonT(60) DEF runcRun, poolVars
<1>4. CASE runcKill(i)
  BY <1>0, <1>4, ProcessOfOne, NetSame, Zenon DEF runcKill, poolVars
<1>5. CASE cleanupStartFailure(i) \/ runcStopEnds(i)
  <2>1. net[i] # 0 /\ proc[i] # "up"
    <3>1. pc[i] \in QuietRunc
      BY <1>5, Zenon DEF cleanupStartFailure, runcStopEnds, QuietRunc
    <3>2. pc[i] \notin NoNet
      BY <3>1, Zenon DEF QuietRunc, NoNet
    <3> QED
      BY <1>0, <3>1, <3>2, Zenon DEF Holds, Held
  <2>2. Return(i) /\ UNCHANGED <<builds, place, proc>>
    BY <1>5, Zenon DEF cleanupStartFailure, runcStopEnds
  <2> QED
    BY <1>0, <2>1, <2>2, NetReturn, Zenon
<1> QED
  BY <1>1, <1>2, <1>3, <1>4, <1>5, Zenon DEF runcInstance

\* The networks of docker are the daemon's: no instance has one of ours.
LEMMA DockerNets ==
    ASSUME ControlInv, NetInv, runtime = "docker", NEW i \in Instance,
           dkStart(i) \/ dkInstance(i) \/ monitorContainer(i) \/ containerDies(i) \/ dkStop(i) \/ dkStopFails(i)
    PROVE  NetInv'
<1>1. UNCHANGED <<pool, builds, net, place>>
  BY ZenonT(60)
     DEF dkStart, dkInstance, monitorContainer, containerDies, dkStop, dkStopFails, containerStart,
         containerStartFails, dkWatchLifecycle, ProcessExits, poolVars
<1>2. \A k \in Instance : net[k] = 0 /\ place[k] = 0
  BY ZenonT(60) DEF ControlInv, Holds, Held
<1>3. \A k \in Instance : net'[k] = 0 /\ place'[k] = 0
  BY <1>1, <1>2, ZenonT(60)
<1>4. PoolNumbered'
  BY <1>1, Zenon DEF NetInv, PoolNumbered
<1>5. \A a \in 1..Len(pool') : pool'[a] # 0
  BY <1>1, SMTT(60) DEF NetInv, PoolNumbered
<1> QED
  BY <1>3, <1>4, <1>5, ZenonT(60) DEF NetInv, PoolApart, NetsApart

\* The pool's own goroutines.
LEMMA PoolNets ==
    ASSUME ControlInv, NetInv, Populate \/ RefillBuild \/ RefillEnd \/ (\E low : Replenish(low))
    PROVE  NetInv'
<1>0. ControlTypes
  BY Zenon DEF ControlInv
<1>1. CASE builds' = builds + 1 /\ pool' = Append(pool, builds + 1) /\ UNCHANGED <<net, proc, place>>
  BY <1>0, <1>1, NetGrow, Zenon
<1>2. CASE builds' = builds + 1 /\ UNCHANGED <<pool, net, proc, place>>
  BY <1>0, <1>2, NetWasted, Zenon
<1>3. CASE UNCHANGED <<pool, builds, net, proc, place>>
  BY <1>3, NetSame, Zenon
<1> QED
  BY <1>1, <1>2, <1>3, Zenon DEF Populate, RefillBuild, RefillEnd, Replenish

----------------------------------------------------------------------------
(* Ports, step by step.                                                    *)

\* The steps of a containerd task keep every host port in one place.
LEMMA ContainerdPorts ==
    ASSUME ControlInv, PortInv, runtime = "containerd", NEW i \in Instance,
           ensureImageSingleFlight(i) \/ cdInstance(i) \/ cdStop(i)
    PROVE  PortInv'
<1>0. ControlTypes /\ Holds(i)
  BY Zenon DEF ControlInv
<1>1. CASE UNCHANGED cdVars
  BY <1>1, ZenonT(60) DEF PortInv, cdVars
<1>2. CASE borrowHostPort(i)
  BY <1>0, <1>2, PortBorrow, Zenon
<1>3. CASE cdNetworkFails(i) \/ taskStartFails(i) \/ teardownSandbox(i)
  <2>1. port[i] # 0
    BY <1>0, <1>3, Zenon DEF cdNetworkFails, taskStartFails, teardownSandbox, Holds, Held, Ported
  <2>2. CASE returnHostPort(i)
    BY <1>0, <2>1, <2>2, PortReturn, Zenon
  <2>3. CASE port' = [port EXCEPT ![i] = 0] /\ UNCHANGED <<portPool, nextPort>>
    BY <1>0, <2>3, PortDropped, ZenonT(60)
  <2> QED
    BY <1>3, <2>2, <2>3, Zenon DEF cdNetworkFails, taskStartFails, teardownSandbox
<1> QED
  BY <1>1, <1>2, <1>3, Zenon
     DEF cdInstance, ensureImageSingleFlight, pullEnds, cdWaitForAsyncTeardown, borrowHostPortFails, cdNetwork,
         taskStart, addIptablesRules, cdWatchLifecycle, cdStop

----------------------------------------------------------------------------
(* The snapshot, step by step.                                             *)

\* Nobody starts to create or to remove it, and it stays as it is.
LEMMA SnapshotSame ==
    ASSUME SnapshotInv, UNCHANGED <<entry, files, job, createMu>>,
           \A k \in Instance : pc'[k] = pc[k] \/ pc'[k] \notin Creator \cup {"unlink"}
    PROVE  SnapshotInv'
BY Zenon DEF SnapshotInv, Creator

\* An instance goes to another step that is not one of these.
LEMMA SnapshotElsewhere ==
    ASSUME ControlTypes, SnapshotInv, UNCHANGED <<entry, files, job, createMu>>, NEW i \in Instance,
           NEW label \in {"await", "acquire", "failed", "boot", "launch", "proxy", "badRestore", "badBoot",
                          "invalidate", "reaping", "probe", "register", "snapshot", "running", "teardown",
                          "stopped", "fetch", "waitFetch", "waitCreate", "port", "netns", "task", "rules",
                          "teardownNow", "bundle", "config", "run", "killed", "created"},
           Goto(i, label)
    PROVE  SnapshotInv'
<1>1. \A k \in Instance : pc'[k] = pc[k] \/ pc'[k] \notin Creator \cup {"unlink"}
  BY Zenon DEF Goto, ControlTypes, Creator
<1> QED
  BY <1>1, SnapshotSame, Zenon

\* Fetching an image leaves the snapshots alone.
LEMMA FetchSnapshot ==
    ASSUME ControlTypes, SnapshotInv, UNCHANGED <<entry, files, job, createMu>>, NEW i \in Instance,
           NEW next \in {"await", "bundle"}, Fetch(i, next) \/ FetchEnds(i, next)
    PROVE  SnapshotInv'
<1>1. \A k \in Instance : pc'[k] = pc[k] \/ pc'[k] \notin Creator \cup {"unlink"}
  BY ZenonT(60) DEF Fetch, FetchEnds, Goto, ControlTypes, Creator
<1> QED
  BY <1>1, SnapshotSame, Zenon

\* The instance that creates the snapshot is alone with it.
LEMMA CreatorAlone ==
    ASSUME SnapshotInv, NEW i \in Instance, pc[i] \in Creator
    PROVE  job = i /\ createMu = NoInstance /\ \A k \in Instance \ {i} : pc[k] \notin Creator \cup {"unlink"}
BY SandboxRuntimeAssumption, Zenon DEF SnapshotInv

\* Creating, and what it does to the files and to the entry.
LEMMA CreatingSnapshot ==
    ASSUME ControlTypes, SnapshotInv, NEW i \in Instance, NEW from \in Creator \ {"finish"}, NEW to \in Creator,
           Creating(i, from, to), files' \subseteq Whole, entry' \in BOOLEAN,
           entry' => files' = Whole, to # "finish" => ~entry',
           to = "publishState" => "memory" \in files', to = "put" => files' = Whole
    PROVE  SnapshotInv'
<1>1. pc[i] = from /\ job' = job /\ createMu' = createMu
  BY Zenon DEF Creating
<1>2. job = i /\ createMu = NoInstance /\ \A k \in Instance \ {i} : pc[k] \notin Creator \cup {"unlink"}
  BY <1>1, CreatorAlone, Zenon
<1>3. \A k \in Instance : pc'[k] = IF k = i THEN to ELSE pc[k]
  BY Zenon DEF Creating, Goto, ControlTypes
<1> QED
  BY <1>1, <1>2, <1>3, Zenon DEF SnapshotInv, Creator

\* The steps of a microVM keep the snapshots of the map whole.
LEMMA FirecrackerSnapshot ==
    ASSUME ControlInv, SnapshotInv, NEW i \in Instance, fcPrepare(i) \/ fcInstance(i) \/ fcStop(i)
    PROVE  SnapshotInv'
<1>0. ControlTypes
  BY Zenon DEF ControlInv
<1>1. CASE fcPrepare(i) \/ fcPrepared(i)
  BY <1>0, <1>1, FetchSnapshot, Zenon DEF fcPrepare, fcPrepared, fcVars, snapVars
<1>2. CASE waitForAsyncTeardown(i) \/ acquire(i) \/ acquireFails(i) \/ prepareBootImage(i) \/ prepareBootImageFails(i)
  BY <1>0, <1>2, SnapshotElsewhere, ZenonT(60)
     DEF waitForAsyncTeardown, acquire, acquireFails, prepareBootImage, prepareBootImageFails, fcVars, snapVars
<1>3. CASE startMachine(i) \/ startMachineFails(i) \/ cleanupRestore(i) \/ cleanupRestoreLate(i)
  BY <1>0, <1>3, SnapshotElsewhere, ZenonT(60)
     DEF startMachine, startMachineFails, cleanupRestore, cleanupRestoreLate, fcVars, snapVars
<1>4. CASE \/ reapFailedMachine(i) \/ cleanupBoot(i) \/ startPortProxy(i) \/ abandon(i) \/ waitForTCP(i)
           \/ register(i) \/ fcWatchLifecycle(i) \/ fcStop(i) \/ shutdownInstance(i)
  BY <1>0, <1>4, SnapshotElsewhere, ZenonT(60)
     DEF reapFailedMachine, cleanupBoot, startPortProxy, abandon, waitForTCP, register, fcWatchLifecycle,
         fcStop, runTeardown, shutdownInstance, fcVars, snapVars
<1>5. CASE beginCreate(i)
  <2>1. CASE UNCHANGED job /\ (Goto(i, "register") \/ Goto(i, "waitCreate"))
    BY <1>0, <1>5, <2>1, SnapshotElsewhere, Zenon DEF beginCreate
  <2>2. CASE ~entry /\ job = NoInstance /\ Goto(i, "pause") /\ job' = i
    <3>1. \A k \in Instance : pc'[k] = IF k = i THEN "pause" ELSE pc[k]
      BY <1>0, <2>2, Zenon DEF Goto, ControlTypes
    <3>2. createMu = NoInstance /\ UNCHANGED <<entry, files, createMu>>
      BY <1>5, Zenon DEF beginCreate
    <3> QED
      BY <2>2, <3>1, <3>2, SandboxRuntimeAssumption, Zenon DEF SnapshotInv, Creator
  <2> QED
    BY <1>5, <2>1, <2>2, Zenon DEF beginCreate
<1>6. CASE createSnapshot(i)
  <2>1. pc[i] = "pause" /\ UNCHANGED <<entry, files>>
    BY <1>6, Zenon DEF createSnapshot, Creating
  <2>2. files \subseteq Whole /\ ~entry /\ entry \in BOOLEAN
    BY <2>1, Zenon DEF SnapshotInv, Creator
  <2> QED
    BY <1>0, <1>6, <2>1, <2>2, CreatingSnapshot, Zenon DEF createSnapshot, Creator
<1>7. CASE publishMemory(i)
  <2>1. pc[i] = "publishMemory" /\ UNCHANGED entry
    BY <1>7, Zenon DEF publishMemory, Creating
  <2>2. files \subseteq Whole /\ ~entry /\ entry \in BOOLEAN
    BY <2>1, Zenon DEF SnapshotInv, Creator
  <2>3. files \cup {"memory"} \subseteq Whole
    BY <2>2, Zenon DEF Whole
  <2> QED
    BY <1>0, <1>7, <2>1, <2>2, <2>3, CreatingSnapshot, Zenon DEF publishMemory, Creator
<1>8. CASE publishState(i)
  <2>1. pc[i] = "publishState" /\ UNCHANGED entry
    BY <1>8, Zenon DEF publishState, Creating
  <2>2. files \subseteq Whole /\ ~entry /\ entry \in BOOLEAN /\ "memory" \in files
    BY <2>1, Zenon DEF SnapshotInv, Creator
  <2>3. files \cup {"state"} = Whole /\ files \ {"memory"} \subseteq Whole
    BY <2>2, Zenon DEF Whole
  <2> QED
    BY <1>0, <1>8, <2>1, <2>2, <2>3, CreatingSnapshot, Zenon DEF publishState, Creator
<1>9. CASE put(i)
  <2>1. pc[i] = "put" /\ UNCHANGED files
    BY <1>9, Zenon DEF put, Creating
  <2>2. files = Whole
    BY <2>1, Zenon DEF SnapshotInv
  <2> QED
    BY <1>0, <1>9, <2>1, <2>2, CreatingSnapshot, Zenon DEF put, Creator
<1>10. CASE finishCreate(i)
  <2>1. createMu = NoInstance /\ \A k \in Instance \ {i} : pc[k] \notin Creator \cup {"unlink"}
    BY <1>10, CreatorAlone, Zenon DEF finishCreate, Creator
  <2>2. \A k \in Instance : pc'[k] \notin Creator \cup {"unlink"}
    BY <1>10, <2>1, Zenon DEF finishCreate, Creator
  <2>3. UNCHANGED <<entry, files, createMu>>
    BY <1>10, Zenon DEF finishCreate
  <2> QED
    BY <2>1, <2>2, <2>3, ZenonT(60) DEF SnapshotInv, Creator
<1>11. CASE invalidate(i)
  <2>1. \A k \in Instance : pc'[k] = IF k = i THEN "unlink" ELSE pc[k]
    BY <1>0, <1>11, Zenon DEF invalidate, Goto, ControlTypes
  <2>2. /\ createMu = NoInstance /\ job = NoInstance /\ createMu' = i /\ entry' = FALSE
        /\ UNCHANGED <<files, job>>
    BY <1>11, Zenon DEF invalidate
  <2> QED
    BY <2>1, <2>2, SandboxRuntimeAssumption, ZenonT(60) DEF SnapshotInv, Creator
<1>12. CASE unlink(i)
  <2>1. \A k \in Instance : pc'[k] = IF k = i THEN "launch" ELSE pc[k]
    BY <1>0, <1>12, Zenon DEF unlink, Goto, ControlTypes
  <2>2. pc[i] = "unlink" /\ createMu' = NoInstance /\ files' = {} /\ UNCHANGED <<entry, job>>
    BY <1>12, Zenon DEF unlink
  <2>3. createMu = i /\ job = NoInstance /\ ~entry
    BY <2>2, SandboxRuntimeAssumption, Zenon DEF SnapshotInv
  <2> QED
    BY <2>1, <2>2, <2>3, SandboxRuntimeAssumption, ZenonT(60) DEF SnapshotInv, Creator
<1> QED
  BY <1>1, <1>2, <1>3, <1>4, <1>5, <1>6, <1>7, <1>8, <1>9, <1>10, <1>11, <1>12, ZenonT(60) DEF fcInstance

\* Containerd has no snapshots of microVMs.
LEMMA ContainerdSnapshot ==
    ASSUME ControlInv, SnapshotInv, UNCHANGED fcVars, NEW i \in Instance,
           ensureImageSingleFlight(i) \/ cdInstance(i) \/ cdStop(i)
    PROVE  SnapshotInv'
<1>0. ControlTypes /\ UNCHANGED <<entry, files, job, createMu>>
  BY Zenon DEF ControlInv, fcVars, snapVars
<1>1. CASE ensureImageSingleFlight(i) \/ pullEnds(i)
  BY <1>0, <1>1, FetchSnapshot, Zenon DEF ensureImageSingleFlight, pullEnds
<1>2. CASE \/ cdWaitForAsyncTeardown(i) \/ borrowHostPort(i) \/ borrowHostPortFails(i) \/ cdNetwork(i)
           \/ cdNetworkFails(i) \/ taskStart(i) \/ taskStartFails(i)
  BY <1>0, <1>2, SnapshotElsewhere, ZenonT(60)
     DEF cdWaitForAsyncTeardown, borrowHostPort, borrowHostPortFails, cdNetwork, cdNetworkFails, taskStart,
         taskStartFails
<1>3. CASE addIptablesRules(i) \/ cdWatchLifecycle(i) \/ cdStop(i) \/ teardownSandbox(i)
  BY <1>0, <1>3, SnapshotElsewhere, ZenonT(60)
     DEF addIptablesRules, cdWatchLifecycle, cdStop, teardownSandbox, beginAsyncTeardown
<1> QED
  BY <1>1, <1>2, <1>3, Zenon DEF cdInstance

\* Runc has none.
LEMMA RuncSnapshot ==
    ASSUME ControlInv, SnapshotInv, UNCHANGED fcVars, NEW i \in Instance,
           runcPrepare(i) \/ runcInstance(i) \/ runcKill(i)
    PROVE  SnapshotInv'
<1>0. ControlTypes /\ UNCHANGED <<entry, files, job, createMu>>
  BY Zenon DEF ControlInv, fcVars, snapVars
<1>1. CASE runcPrepare(i) \/ runcPrepared(i)
  BY <1>0, <1>1, FetchSnapshot, Zenon DEF runcPrepare, runcPrepared
<1>2. CASE \/ runcBundle(i) \/ runcBundleFails(i) \/ runcPortProxy(i) \/ runcConfig(i) \/ runcRun(i)
           \/ cleanupStartFailure(i) \/ runcStopEnds(i) \/ runcKill(i)
  BY <1>0, <1>2, SnapshotElsewhere, ZenonT(60)
     DEF runcBundle, runcBundleFails, runcPortProxy, runcConfig, runcRun, cleanupStartFailure, runcStopEnds,
         runcKill
<1> QED
  BY <1>1, <1>2, Zenon DEF runcInstance

\* Docker has none.
LEMMA DockerSnapshot ==
    ASSUME ControlInv, SnapshotInv, UNCHANGED fcVars, NEW i \in Instance,
           dkStart(i) \/ dkInstance(i) \/ monitorContainer(i) \/ containerDies(i) \/ dkStop(i) \/ dkStopFails(i)
    PROVE  SnapshotInv'
<1>0. ControlTypes /\ UNCHANGED <<entry, files, job, createMu>>
  BY Zenon DEF ControlInv, fcVars, snapVars
<1>1. CASE monitorContainer(i) \/ containerDies(i) \/ dkStopFails(i) \/ dkWatchLifecycle(i)
  BY <1>0, <1>1, SnapshotSame, ZenonT(60)
     DEF monitorContainer, containerDies, dkStopFails, dkWatchLifecycle, ProcessExits
<1>2. CASE dkStart(i) \/ containerStart(i) \/ containerStartFails(i) \/ dkStop(i)
  BY <1>0, <1>2, SnapshotElsewhere, ZenonT(60) DEF dkStart, containerStart, containerStartFails, dkStop
<1> QED
  BY <1>1, <1>2, Zenon DEF dkInstance

----------------------------------------------------------------------------
(* The invariant.                                                          *)

\* A worker starts with no network built, no port taken and no snapshot.
LEMMA InitRuntimes ==
    Init => RuntimesInv
<1> SUFFICES ASSUME Init PROVE RuntimesInv
  BY Zenon
<1> USE SandboxRuntimeAssumption DEF Init, RuntimeInit, FirecrackerInit, ContainerdInit, DockerInit
<1>1. ControlInv
  <2>1. ControlTypes
    BY Zenon DEF ControlTypes
  <2>2. \A i \in Instance : Holds(i)
    BY Zenon DEF Holds, Held, NoNet, Fronted, Mapped, Ported
  <2> QED
    BY <2>1, <2>2, Zenon DEF ControlInv
<1>2. NetInv
  <2>1. builds \in Nat /\ pool = [k \in 1..builds |-> k]
    BY Zenon
  <2>2. pool \in Seq(Nat) /\ Len(pool) = builds /\ \A a \in 1..builds : pool[a] = a
    BY <2>1, SMTT(60)
  <2>3. \A i \in Instance : net[i] = 0 /\ place[i] = 0 /\ proc[i] = "none"
    BY Zenon
  <2> QED
    BY <2>1, <2>2, <2>3, SMTT(60) DEF NetInv, PoolNumbered, PoolApart, NetsApart
<1>3. PortInv
  BY SMTT(60) DEF PortInv
<1>4. SnapshotInv
  BY ZenonT(60) DEF SnapshotInv, Creator
<1> QED
  BY <1>1, <1>2, <1>3, <1>4, Zenon DEF RuntimesInv

\* Of the parts of the state that the invariant is about.
LEMMA UnchangedRuntimes ==
    ASSUME RuntimesInv, UNCHANGED vars
    PROVE  RuntimesInv'
<1> USE DEF vars, runtimeVars, configVars, poolVars, imageVars, fcVars, snapVars, cdVars, dkVars
<1>1. ControlInv'
  BY NobodyMoves, Zenon DEF RuntimesInv
<1>2. NetInv'
  BY NetSame, Zenon DEF RuntimesInv
<1>3. PortInv'
  BY SMTT(60) DEF RuntimesInv, PortInv
<1>4. SnapshotInv'
  BY SnapshotSame, Zenon DEF RuntimesInv
<1> QED
  BY <1>1, <1>2, <1>3, <1>4, Zenon DEF RuntimesInv

\* What all runtimes share: the pool's goroutines, and processes that exit.
LEMMA SharedSteps ==
    ASSUME RuntimesInv, UNCHANGED <<fcVars, cdVars>>,
           \/ \E i \in Instance : ProcessExits(i)
           \/ \E n \in orphans : OrphanExits(n)
           \/ Populate \/ RefillBuild \/ RefillEnd \/ (\E low : Replenish(low))
    PROVE  RuntimesInv'
<1> USE DEF RuntimesInv, fcVars, snapVars, cdVars
<1>1. PortInv'
  BY ZenonT(60) DEF PortInv
<1>2. UNCHANGED <<pc, entry, files, job, createMu, machine, port>>
  BY ZenonT(60) DEF ProcessExits, OrphanExits, Populate, RefillBuild, RefillEnd, Replenish
<1>3. SnapshotInv'
  BY <1>2, SnapshotSame, Zenon
<1>4. CASE \E i \in Instance : ProcessExits(i)
  <2> PICK i \in Instance : ProcessExits(i)
    BY <1>4, Zenon
  <2>1. ControlInv'
    BY <1>2, ExitControl, Zenon
  <2>2. NetInv'
    BY ProcessOfOne, NetSame, ZenonT(60) DEF ControlInv, ProcessExits, poolVars
  <2> QED
    BY <1>1, <1>3, <2>1, <2>2, Zenon
<1>5. CASE \E n \in orphans : OrphanExits(n)
  <2>1. UNCHANGED <<runtime, net, place, front, known, proc, pool, builds>>
    BY <1>5, Zenon DEF OrphanExits, configVars, poolVars
  <2> QED
    BY <1>1, <1>2, <1>3, <2>1, NobodyMoves, NetSame, ZenonT(60)
<1>6. CASE Populate \/ RefillBuild \/ RefillEnd \/ (\E low : Replenish(low))
  <2>1. UNCHANGED <<runtime, net, place, front, known, proc>>
    BY <1>6, ZenonT(60) DEF Populate, RefillBuild, RefillEnd, Replenish, configVars
  <2> QED
    BY <1>1, <1>2, <1>3, <1>6, <2>1, NobodyMoves, PoolNets, ZenonT(60)
<1> QED
  BY <1>4, <1>5, <1>6, Zenon

\* Every step of every runtime keeps the invariant.
LEMMA RuntimeSteps ==
    ASSUME RuntimesInv, Next
    PROVE  RuntimesInv'
<1> USE DEF RuntimesInv
<1>1. CASE FirecrackerNext /\ UNCHANGED <<cdVars, dkVars>>
  <2>0. runtime = "firecracker" /\ UNCHANGED cdVars /\ PortInv'
    BY <1>1, ZenonT(60) DEF FirecrackerNext, PortInv, cdVars
  <2>1. ASSUME NEW i \in Instance, fcPrepare(i) \/ fcInstance(i) \/ fcStop(i)
        PROVE  RuntimesInv'
    <3>1. NetInv' /\ SnapshotInv'
      BY <2>0, <2>1, FirecrackerNets, FirecrackerSnapshot, Zenon
    <3>2. CASE fcPrepare(i) \/ fcPrepared(i)
      BY <2>0, <3>1, <3>2, FetchControl, Zenon DEF fcPrepare, fcPrepared, fcVars, cdVars
    <3>3. CASE finishCreate(i)
      BY <2>0, <3>1, <3>3, FinishControl, Zenon DEF cdVars
    <3>4. CASE (fcInstance(i) \/ fcStop(i)) /\ ~fcPrepared(i) /\ ~finishCreate(i)
      BY <2>0, <3>1, <3>4, FirecrackerControl, Zenon
    <3> QED
      BY <2>0, <2>1, <3>2, <3>3, <3>4, Zenon
  <2>2. CASE /\ UNCHANGED fcVars
             /\ \/ \E i \in Instance : ProcessExits(i)
                \/ \E n \in orphans : OrphanExits(n)
                \/ RefillBuild \/ RefillEnd \/ Replenish(Len(pool) < refillThreshold)
    BY <2>0, <2>2, SharedSteps, Zenon
  <2> QED
    BY <1>1, <2>1, <2>2, Zenon DEF FirecrackerNext
<1>2. CASE ContainerdNext /\ UNCHANGED <<fcVars, dkVars>>
  <2>0. runtime = "containerd" /\ UNCHANGED fcVars
    BY <1>2, Zenon DEF ContainerdNext
  <2>1. ASSUME NEW i \in Instance, ensureImageSingleFlight(i) \/ cdInstance(i) \/ cdStop(i)
        PROVE  RuntimesInv'
    <3>1. NetInv' /\ PortInv' /\ SnapshotInv'
      BY <2>0, <2>1, ContainerdNets, ContainerdPorts, ContainerdSnapshot, Zenon
    <3>2. CASE ensureImageSingleFlight(i) \/ pullEnds(i)
      BY <2>0, <3>1, <3>2, FetchControl, Zenon DEF ensureImageSingleFlight, pullEnds, fcVars, cdVars
    <3>3. CASE (cdInstance(i) \/ cdStop(i)) /\ ~pullEnds(i)
      BY <2>0, <3>1, <3>3, ContainerdControl, Zenon
    <3> QED
      BY <2>1, <3>2, <3>3, Zenon
  <2>2. CASE /\ UNCHANGED cdVars
             /\ \/ \E i \in Instance : ProcessExits(i)
                \/ Populate \/ RefillBuild \/ RefillEnd \/ Replenish(Len(pool) < PoolSize)
    BY <2>0, <2>2, SharedSteps, Zenon
  <2>3. CASE replenishPortPool
    <3>1. UNCHANGED <<runtime, pc, net, place, front, port, known, proc, machine, pool, builds>>
      BY <2>0, <2>3, Zenon DEF replenishPortPool, rest, configVars, poolVars, fcVars
    <3>2. ControlInv' /\ NetInv'
      BY <3>1, NobodyMoves, NetSame, Zenon
    <3>3. PortInv'
      BY <2>3, PortReplenished, Zenon DEF ControlInv
    <3>4. SnapshotInv'
      BY <2>0, <3>1, SnapshotSame, Zenon DEF fcVars, snapVars
    <3> QED
      BY <3>2, <3>3, <3>4, Zenon
  <2> QED
    BY <1>2, <2>1, <2>2, <2>3, Zenon DEF ContainerdNext
<1>3. CASE RuncNext /\ UNCHANGED <<fcVars, cdVars, dkVars>>
  <2>0. runtime = "runc" /\ UNCHANGED <<fcVars, cdVars>> /\ PortInv'
    BY <1>3, ZenonT(60) DEF RuncNext, PortInv, cdVars
  <2>1. ASSUME NEW i \in Instance, runcPrepare(i) \/ runcInstance(i) \/ runcKill(i)
        PROVE  RuntimesInv'
    <3>1. NetInv' /\ SnapshotInv'
      BY <2>0, <2>1, RuncNets, RuncSnapshot, Zenon
    <3>2. CASE runcPrepare(i) \/ runcPrepared(i)
      BY <2>0, <3>1, <3>2, FetchControl, Zenon DEF runcPrepare, runcPrepared, fcVars, cdVars
    <3>3. CASE (runcInstance(i) \/ runcKill(i)) /\ ~runcPrepared(i)
      BY <2>0, <3>1, <3>3, RuncControl, Zenon
    <3> QED
      BY <2>1, <3>2, <3>3, Zenon
  <2>2. CASE \/ \E i \in Instance : ProcessExits(i)
             \/ \E n \in orphans : OrphanExits(n)
             \/ Populate
    BY <2>0, <2>2, SharedSteps, Zenon
  <2> QED
    BY <1>3, <2>1, <2>2, Zenon DEF RuncNext, runcExits
<1>4. CASE DockerNext /\ UNCHANGED <<fcVars, cdVars>>
  <2>0. runtime = "docker" /\ UNCHANGED <<fcVars, cdVars>> /\ PortInv'
    BY <1>4, ZenonT(60) DEF DockerNext, PortInv, cdVars
  <2>1. PICK i \in Instance :
          dkStart(i) \/ dkInstance(i) \/ monitorContainer(i) \/ containerDies(i) \/ dkStop(i) \/ dkStopFails(i)
    BY <1>4, Zenon DEF DockerNext
  <2>2. NetInv' /\ SnapshotInv'
    BY <2>0, <2>1, DockerNets, DockerSnapshot, Zenon
  <2>3. ControlInv'
    BY <2>0, <2>1, DockerControl, ExitControl, Zenon DEF containerDies, fcVars, cdVars
  <2> QED
    BY <2>0, <2>2, <2>3, Zenon
<1> QED
  BY <1>1, <1>2, <1>3, <1>4, Zenon DEF Next

\* The invariant of the runtimes holds in every execution.
LEMMA RuntimesInvariant ==
    Spec => []RuntimesInv
<1>1. RuntimesInv /\ [Next]_vars => RuntimesInv'
  BY RuntimeSteps, UnchangedRuntimes, Zenon
<1> QED
  BY <1>1, InitRuntimes, PTL DEF Spec

----------------------------------------------------------------------------
(* What a worker's runtime promises.                                       *)

\* In every runtime, at every point of every Start, Stop, watcher and reaper, a
\* network and a host port have one place, and no sandbox runs in a network that
\* waits in the pool.
THEOREM NetworksOwnedOnce ==
    Spec => []OwnedOnce
<1>1. RuntimesInv => OwnedOnce
  <2> SUFFICES ASSUME RuntimesInv PROVE OwnedOnce
    BY Zenon
  <2>1. DOMAIN pool = 1..Len(pool) /\ DOMAIN portPool = 1..Len(portPool)
    BY SMTT(60) DEF RuntimesInv, NetInv, PoolNumbered, PortInv
  <2>2. NetInv /\ PortInv
    BY Zenon DEF RuntimesInv
  <2> QED
    BY <2>1, <2>2, Zenon DEF NetInv, PoolNumbered, PoolApart, NetsApart, PortInv, OwnedOnce, Owner, Port
<1> QED
  BY <1>1, RuntimesInvariant, PTL

\* The proxy or the DNAT rule of a sandbox leads to the network the sandbox holds.
THEOREM FrontLeadsHome ==
    Spec => []FrontToOwner
<1>1. RuntimesInv => FrontToOwner
  BY Zenon DEF RuntimesInv, ControlInv, Holds, Held, FrontToOwner
<1> QED
  BY <1>1, RuntimesInvariant, PTL

\* A sandbox that failed to start, was stopped or exited keeps no network, port,
\* front or entry in the runtime's map.
THEOREM EndedKeepsNothing ==
    Spec => []NothingKept
<1>1. RuntimesInv => NothingKept
  BY Zenon DEF RuntimesInv, ControlInv, Holds, Held, NothingKept, Ended, NoNet, Fronted, Mapped, Ported
<1> QED
  BY <1>1, RuntimesInvariant, PTL

\* A snapshot in the map has both of its files (createSnapshot, put, invalidate).
THEOREM SnapshotsWhole ==
    Spec => []SnapshotWhole
<1>1. RuntimesInv => SnapshotWhole
  BY Zenon DEF RuntimesInv, SnapshotInv, SnapshotWhole
<1> QED
  BY <1>1, RuntimesInvariant, PTL

=============================================================================
