-------------------------------- MODULE Ring --------------------------------
(***************************************************************************)
(* The hash ring with bounded loads (chbl/chbl.go), used by the ingress's  *)
(* routing policies over leaves and by the leaf's schedulers over workers. *)
(*                                                                         *)
(* A ring is the sequence of its virtual nodes by increasing position; the *)
(* positions hash to distinct numbers.  An ID is a positive integer, and 0 *)
(* is what the code returns for "none".  Bounds and chain lengths are      *)
(* already normalised (NormalizeBound, NormalizeMaxChainLen).              *)
(***************************************************************************)
EXTENDS Integers, Sequences, FiniteSetsExt

None == 0

ids(ring) == {ring[k].id : k \in DOMAIN ring}

\* All the rings NewRing can build: the hash scatters each ID's replicas.
NewRings(IDs, replicas) ==
    LET size == Cardinality(IDs) * replicas
        owners == {o \in [1..size -> IDs] :
                     \A id \in IDs : Cardinality({k \in 1..size : o[k] = id}) = replicas}
    IN  {[k \in 1..size |-> [position |-> k, id |-> o[k]]] : o \in owners}

\* The nodes of healthy IDs among the first k.
Kept(ring, healthy) ==
    LET kept[k \in 0..Len(ring)] ==
          IF k = 0 THEN <<>>
          ELSE IF ring[k].id \in healthy THEN Append(kept[k - 1], ring[k]) ELSE kept[k - 1]
    IN  kept

Subset(ring, healthy) == Kept(ring, healthy)[Len(ring)]

\* Mutant: the successor is found by index instead of by position.
HomeByIndex(ring, position) ==
    IF ring = <<>> THEN None ELSE ring[(position % Len(ring)) + 1].id

Home(ring, position) ==
    LET clockwise == {k \in DOMAIN ring : ring[k].position >= position}
    IN  IF ring = <<>> THEN None
        ELSE IF clockwise = {} THEN ring[1].id
        ELSE ring[Min(clockwise)].id

\* The walk starts at the first position of id, whichever of its positions led
\* to it.
NextID(ring, id) ==
    LET first == Min({k \in DOMAIN ring : ring[k].id = id})
        others == {i \in 1..Len(ring) : ring[((first + i - 1) % Len(ring)) + 1].id # id}
    IN  IF id \notin ids(ring) \/ others = {} THEN id
        ELSE ring[((first + Min(others) - 1) % Len(ring)) + 1].id

\* The IDs tried in turn: home and maxChainLen successors.
Chain(ring, maxChainLen, home) ==
    LET walk[step \in 0..maxChainLen] == IF step = 0 THEN home ELSE NextID(ring, walk[step - 1])
    IN  walk

LeastLoaded(IDs, loads) ==
    IF IDs = {} THEN None
    ELSE Min({id \in IDs : \A other \in IDs : loads[id] <= loads[other]})

\* Mutant: a node at its bound still takes the request.
ForwardAtBound(ring, loads, bound, maxChainLen, home) ==
    LET chain == Chain(ring, maxChainLen, home)
        below == {step \in 0..maxChainLen : loads[chain[step]] <= bound}
    IN  IF ring = <<>> THEN home
        ELSE IF below # {} THEN chain[Min(below)]
        ELSE LeastLoaded(ids(ring), loads)

Forward(ring, loads, bound, maxChainLen, home) ==
    LET chain == Chain(ring, maxChainLen, home)
        below == {step \in 0..maxChainLen : loads[chain[step]] < bound}
    IN  IF ring = <<>> THEN home
        ELSE IF below # {} THEN chain[Min(below)]
        ELSE LeastLoaded(ids(ring), loads)
=============================================================================
