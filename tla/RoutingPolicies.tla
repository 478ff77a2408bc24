--------------------------- MODULE RoutingPolicies ---------------------------
(***************************************************************************)
(* The ingress's routing policies (ingress/routing): what each model keeps *)
(* of the leaves' state, when it asks for a new picker, and where a picker *)
(* sends a request.  How frames reach the model is RoutingSync's subject;  *)
(* here frames arrive and the controller installs the picker it is asked   *)
(* for in the same critical section.                                       *)
(*                                                                         *)
(* A function is known by its position on the ring.  Random choices (the   *)
(* random policy, the probes of rj_ch, the noise and the popularity of     *)
(* ch_rlu, hash collisions) are sets of possible targets.                  *)
(***************************************************************************)
EXTENDS Ring

CONSTANTS
    Leaf,        \* configured leaf IDs, positive integers
    Replicas,    \* virtual nodes per leaf
    Load,        \* values a leaf reports: load, in-flight requests or capacity
    Bound,       \* bound of the load-aware policies
    MaxBound,    \* limit on ch_rlu's per-function bound
    LatencyRatio,\* cold/warm latency ratios a function may have
    MaxChainLen  \* successors or jumps tried

ASSUME RoutingAssumption ==
    /\ IsFiniteSet(Leaf) /\ Leaf \subseteq Nat \ {None}
    /\ Replicas \in Nat \ {0} /\ MaxChainLen \in Nat
    /\ Load \subseteq Nat /\ Bound \in Nat /\ MaxBound \in Nat /\ LatencyRatio \subseteq Nat

Policies == {"random", "round_robin", "consistent_hashing", "bounded_loads", "rj_ch", "ch_rlu",
             "least_loaded", "available_capacity"}

\* The policies that embed boundedLoadsModel, and all whose model keeps a ring.
BoundedPolicies == {"bounded_loads", "rj_ch", "ch_rlu"}
RingPolicies == BoundedPolicies \cup {"consistent_hashing"}

\* A frame without the value, and a function a leaf does not advertise.
Absent == -1

NoPicker == [leaves |-> {}, ring |-> <<>>]

VARIABLES
    policy,   \* the configured policy
    template, \* ring over all configured leaves
    healthy,  \* membership.healthy
    value,    \* leaf: last load or in-flight count
    routes,   \* leaf: published free capacity for a function, Absent if not advertised
    ring,     \* model's ring over the healthy leaves, as last built
    dirty,    \* health changed since ring was built
    active,   \* the engine has a picker
    picker,   \* what the installed picker holds: healthy leaves and ring
    counter   \* requests counted by the installed picker

routingVars == <<policy, template, healthy, value, routes, ring, dirty, active, picker, counter>>

\* round_robin's counter is used modulo the number of leaves only.
CounterRange == 6

\* Bound: rings that begin with a node of the lowest leaf.
Templates == {r \in NewRings(Leaf, Replicas) : r[1].id = Min(Leaf)}

RoutingInit ==
    /\ policy \in Policies
    /\ template \in IF policy \in RingPolicies THEN Templates ELSE {<<>>}
    /\ healthy = {}
    /\ value = [l \in Leaf |-> 0]
    /\ routes = [l \in Leaf |-> Absent]
    /\ ring = <<>>
    /\ dirty = TRUE
    /\ active = FALSE
    /\ picker = NoPicker
    /\ counter = 0

----------------------------------------------------------------------------
(* The models.                                                             *)

\* Picker() rebuilds the ring, if the policy has one, only when it is marked
\* dirty; the new picker's counter starts over.
Picker(members, stale) ==
    /\ ring' = IF stale THEN Subset(template, members) ELSE ring
    /\ dirty' = FALSE
    /\ picker' = [leaves |-> members, ring |-> ring']
    /\ counter' = 0

\* What every update ends with: PublishPicker if a leaf's health changed, and
\* no new picker (NoChange, ChangedInPlace) otherwise or before the first one.
Publish(members, stale) ==
    /\ healthy' = members
    /\ IF active /\ members # healthy
       THEN Picker(members, stale)
       ELSE dirty' = stale /\ UNCHANGED <<ring, picker, counter>>
    /\ UNCHANGED <<policy, template, active>>

\* membership.setHealthy with HealthyWorkers > 0.
Members(l, workers) == IF workers THEN healthy \cup {l} ELSE healthy \ {l}

\* Frames of leaf l.  A frame carries the value its policy needs or none: a full
\* snapshot without it stores zero, a delta without it keeps the last one.
randomReplaceLeaf(l, workers) ==
    /\ policy = "random"
    /\ Publish(Members(l, workers), dirty)
    /\ UNCHANGED <<value, routes>>

roundRobinReplaceLeaf(l, workers) ==
    /\ policy = "round_robin"
    /\ Publish(Members(l, workers), dirty)
    /\ UNCHANGED <<value, routes>>

consistentReplaceLeaf(l, workers) ==
    /\ policy = "consistent_hashing"
    /\ Publish(Members(l, workers), dirty \/ Members(l, workers) # healthy)
    /\ UNCHANGED <<value, routes>>

Stored(l, full, v) ==
    CASE v # Absent -> [value EXCEPT ![l] = v]
      [] v = Absent /\ full -> [value EXCEPT ![l] = 0]
      [] OTHER -> value

boundedLoadsReplaceLeaf(l, workers, full, v) ==
    /\ policy \in BoundedPolicies
    /\ value' = Stored(l, full, v)
    /\ Publish(Members(l, workers), dirty \/ Members(l, workers) # healthy)
    /\ UNCHANGED routes

leastLoadedReplaceLeaf(l, workers, full, v) ==
    /\ policy = "least_loaded"
    /\ value' = Stored(l, full, v)
    /\ Publish(Members(l, workers), dirty)
    /\ UNCHANGED routes

upsert(l, v) == [routes EXCEPT ![l] = v]

remove(l) == [routes EXCEPT ![l] = Absent]

\* The baseline of leaf l: a function it does not list is no longer advertised.
availableCapacityReplaceLeaf(l, workers, v) ==
    /\ policy = "available_capacity"
    /\ routes' = IF v # Absent THEN upsert(l, v) ELSE remove(l)
    /\ Publish(Members(l, workers), dirty)
    /\ UNCHANGED value

\* A delta lists what changed, a deleted function included.
availableCapacityApply(l, workers) ==
    /\ policy = "available_capacity"
    /\ \/ \E v \in Load : routes' = upsert(l, v)
       \/ routes' = remove(l)
       \/ UNCHANGED routes
    /\ Publish(Members(l, workers), dirty)
    /\ UNCHANGED value

\* Mutant: the ring is not marked dirty.
LeafDisconnectedKeepingRing(l) ==
    /\ Publish(healthy \ {l}, dirty)
    /\ UNCHANGED <<value, routes>>

\* The stream of leaf l ended: its values stay as they are.
LeafDisconnected(l) ==
    /\ Publish(healthy \ {l}, dirty \/ (policy \in RingPolicies /\ l \in healthy))
    /\ UNCHANGED <<value, routes>>

\* The controller installs the first picker once the baselines are in.
Activate ==
    /\ ~active
    /\ active' = TRUE
    /\ Picker(healthy, dirty)
    /\ UNCHANGED <<policy, template, healthy, value, routes>>

\* A request is routed: the pickers that rotate count it.
Pick ==
    /\ active
    /\ policy \in {"round_robin", "available_capacity"} /\ picker.leaves # {}
    /\ counter' = (counter + 1) % CounterRange
    /\ UNCHANGED <<policy, template, healthy, value, routes, ring, dirty, active, picker>>

RoutingNext ==
    \/ \E l \in Leaf, workers \in BOOLEAN :
         \/ randomReplaceLeaf(l, workers)
         \/ roundRobinReplaceLeaf(l, workers)
         \/ consistentReplaceLeaf(l, workers)
         \/ \E full \in BOOLEAN, v \in Load \cup {Absent} :
              /\ full => v = Absent \* with the value it is stored as from a delta
              /\ boundedLoadsReplaceLeaf(l, workers, full, v) \/ leastLoadedReplaceLeaf(l, workers, full, v)
         \/ \E v \in Load \cup {Absent} : availableCapacityReplaceLeaf(l, workers, v)
         \/ availableCapacityApply(l, workers)
    \/ \E l \in Leaf : LeafDisconnected(l)
    \/ Activate
    \/ Pick

RoutingSpec == RoutingInit /\ [][RoutingNext]_routingVars

----------------------------------------------------------------------------
(* The pickers: the targets a request for the function at a position of    *)
(* the ring may get; None stands for an empty target.                      *)

\* The k-th of a set of leaves in ascending order, from 0.
Nth(S, k) == CHOOSE l \in S : Cardinality({m \in S : m < l}) = k

OrNone(l) == IF l \in picker.leaves THEN l ELSE None

OrFirst(l) == IF l \in picker.leaves THEN l ELSE Min(picker.leaves)

home(position) == Home(picker.ring, position)

LeastLoadedID == LeastLoaded(ids(picker.ring), value)

randomPick == picker.leaves

roundRobinPick == {Nth(picker.leaves, counter % Cardinality(picker.leaves))}

consistentPick(position) == {OrFirst(home(position))}

boundedLoadsPick(position) ==
    {OrFirst(Forward(picker.ring, value, Bound, MaxChainLen, home(position)))}

leastLoadedPick == {LeastLoaded(picker.leaves, value)}

\* A jump probes any healthy leaf, so those below the bound may be found or not.
randomJumpPick(position) ==
    IF value[home(position)] < Bound
    THEN {OrNone(home(position))}
    ELSE {l \in picker.leaves : value[l] < Bound} \cup {OrNone(LeastLoadedID)}

boundFor(ratio) == IF Bound * ratio < MaxBound THEN Bound * ratio ELSE MaxBound

\* The loads of a popular function are tested with noise: any leaf of the chain
\* may pass.
chrluPick(position, ratio, popular) ==
    IF popular
    THEN {OrNone(Chain(picker.ring, MaxChainLen, home(position))[step]) : step \in 0..MaxChainLen}
         \cup {OrNone(LeastLoadedID)}
    ELSE {OrNone(Forward(picker.ring, value, boundFor(ratio), MaxChainLen, home(position)))}

\* The roomiest advertised routes take turns; without one any healthy leaf.
availableCapacityPick ==
    LET advertised == {l \in picker.leaves : routes[l] # Absent}
        best == {l \in advertised : \A m \in advertised : routes[l] >= routes[m]}
    IN  IF advertised = {} THEN picker.leaves
        ELSE {Nth(best, counter % Cardinality(best))}

PickerPick(position, ratio, popular) ==
    IF picker.leaves = {} THEN {}
    ELSE CASE policy = "random" -> randomPick
           [] policy = "round_robin" -> roundRobinPick
           [] policy = "consistent_hashing" -> consistentPick(position)
           [] policy = "bounded_loads" -> boundedLoadsPick(position)
           [] policy = "rj_ch" -> randomJumpPick(position)
           [] policy = "ch_rlu" -> chrluPick(position, ratio, popular)
           [] policy = "least_loaded" -> leastLoadedPick
           [] policy = "available_capacity" -> availableCapacityPick

----------------------------------------------------------------------------
\* A position past the last node wraps to the first one.
Position == 1..(Len(template) + 1)

\* Only ch_rlu tells functions of one position apart: by latency and popularity.
Traits ==
    IF policy = "ch_rlu" THEN [ratio : LatencyRatio, popular : BOOLEAN]
    ELSE {[ratio |-> 1, popular |-> FALSE]}

\* While a healthy leaf exists every policy routes a request to a healthy leaf,
\* and never to the empty target that a map lookup of an unknown leaf yields;
\* without one it refuses (the Pick methods, with the ring and the leaves the
\* last PublishPicker left in the picker).
PickRoutable ==
    active => \A position \in Position, function \in Traits :
                LET targets == PickerPick(position, function.ratio, function.popular)
                IN  targets \subseteq healthy /\ (targets = {} <=> healthy = {})

\* The load-aware policies keep a request at its home leaf below the bound, send
\* it to a leaf below the bound if any healthy leaf is, even when the chain or
\* the jumps missed it, and to a least loaded one otherwise (ForwardBy,
\* randomJumpPicker.Pick).
KeepsBound ==
    policy \in BoundedPolicies /\ picker.leaves # {} =>
      \A position \in Position, function \in {f \in Traits : ~f.popular} :
        LET bound == IF policy = "ch_rlu" THEN boundFor(function.ratio) ELSE Bound
            below == {l \in healthy : value[l] < bound}
        IN  \A target \in PickerPick(position, function.ratio, FALSE) :
              /\ home(position) \in below => target = home(position)
              /\ below # {} => target \in below
              /\ below = {} => \A l \in healthy : value[target] <= value[l]

\* A change of health moves only the functions it has to: the home of a function
\* changes only if the old one is no longer healthy or the new one just became
\* healthy (Subset keeps the positions of the configured ring).
HomeStable ==
    [][active /\ ring' # ring => \A position \in Position :
         home(position)' # home(position) =>
           \/ home(position) \notin healthy'
           \/ home(position)' \notin healthy]_routingVars
=============================================================================
