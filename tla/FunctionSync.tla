---------------------------- MODULE FunctionSync ----------------------------
(***************************************************************************)
(* Deployed functions, from the control plane's store to the leaves.       *)
(*                                                                         *)
(* Users own functions.  A leaf's FunctionSubscriber lists the users, then *)
(* the functions of each, then opens a watch, and dials again when the     *)
(* stream ends; the leaf applies the events one by one.  The two backends  *)
(* differ in what is atomic and in what a slow watcher loses: the memory   *)
(* store does everything under its lock and drops an event when the        *)
(* watcher's channel is full, etcd checks and commits in separate requests *)
(* and delivers every event made while the watch exists.                   *)
(*                                                                         *)
(* A function carries `ver`, the number of the change that made it what it *)
(* is.  `gap` collects the functions of which a leaf's subscription missed *)
(* a change and that it has not listed since.  Only properties read them.  *)
(***************************************************************************)
EXTENDS Integers, Sequences, FiniteSets, Functions

CONSTANTS
    User,
    Function,     \* function ids
    owner,        \* function: the user it belongs to
    Caller,       \* concurrent API calls
    Leaf,
    Backend,      \* the backends to consider
    MaxChanges,   \* bound: changes of the store
    MaxBreaks,    \* bound: broken sessions
    WatchSize,    \* events a watcher's channel holds
    EventsSize    \* events between the subscriber and the leaf

ASSUME FunctionSyncAssumption ==
    /\ IsFiniteSet(Function)
    /\ owner \in [Function -> User]
    /\ Backend \subseteq {"memory", "etcd"} /\ Backend # {}
    /\ MaxChanges \in Nat \ {0}
    /\ MaxBreaks \in Nat
    /\ WatchSize \in Nat \ {0}
    /\ EventsSize >= Cardinality(Function)

VARIABLES
    backend,
    users,     \* stored users
    stored,    \* function: is it stored, and its last change
    changes,   \* changes so far
    emitting,  \* memory: events DeleteUser has yet to emit, under the lock
    call,      \* caller: an etcd call between its two requests
    session,   \* leaf: "down", "list", "watch"
    todo,      \* leaf: users whose functions are still to be listed
    seen,      \* leaf: functions the session takes for known
    feed,      \* leaf: events of its watch not received yet
    events,    \* leaf: events the leaf has not handled yet
    known,     \* leaf, function: does the leaf run it, and its last change
    gap,       \* leaf: functions whose last change it was not told
    breaks     \* broken sessions so far (bound only)

storeVars == <<backend, users, stored, changes, emitting, call>>
sessionVars == <<session, todo, seen, events, known, breaks>>
vars == <<storeVars, sessionVars, feed, gap>>

Never == [live |-> FALSE, ver |-> 0]
NoCall == [op |-> "none"]

Init ==
    /\ backend \in Backend
    /\ users = {}
    /\ stored = [f \in Function |-> Never]
    /\ changes = 0
    /\ emitting = <<>>
    /\ call = [c \in Caller |-> NoCall]
    /\ session = [l \in Leaf |-> "down"]
    /\ todo = [l \in Leaf |-> {}]
    /\ seen = [l \in Leaf |-> {}]
    /\ feed = [l \in Leaf |-> <<>>]
    /\ events = [l \in Leaf |-> <<>>]
    /\ known = [l \in Leaf |-> [f \in Function |-> Never]]
    /\ gap = [l \in Leaf |-> {}]
    /\ breaks = 0

Event(type, f, ver) == [type |-> type, f |-> f, ver |-> ver]

\* The orders in which a set can be gone through: that of a map, or of ids, which
\* the model does not compare.
Orders(S) == {q \in [1..Cardinality(S) -> S] : IsInjective(q)}

----------------------------------------------------------------------------
(* The store.                                                              *)

Unlocked == emitting = <<>>

\* The watch of a leaf takes the event; emitLocked drops it at a full channel.
Takes(l) == session[l] = "watch" /\ (backend = "etcd" \/ Len(feed[l]) < WatchSize)

Emit(burst) ==
    /\ feed' = [l \in Leaf |-> IF Takes(l) THEN feed[l] \o burst ELSE feed[l]]
    /\ gap' = [l \in Leaf |-> IF Takes(l) THEN gap[l] ELSE gap[l] \cup {burst[i].f : i \in DOMAIN burst}]

Change(type, f) ==
    /\ Unlocked
    /\ changes < MaxChanges
    /\ changes' = changes + 1
    /\ stored' = [stored EXCEPT ![f] = [live |-> type # "DELETED", ver |-> changes + 1]]
    /\ Emit(<<Event(type, f, changes + 1)>>)

FunctionsOf(u) == {f \in Function : owner[f] = u /\ stored[f].live}

CreateUser(u) ==
    /\ Unlocked
    /\ u \notin users
    /\ users' = users \cup {u}
    /\ UNCHANGED <<backend, stored, changes, emitting, call, sessionVars, feed, gap>>

\* The user and some of its functions go.
RemoveUser(u, gone) ==
    /\ changes < MaxChanges
    /\ changes' = changes + 1
    /\ users' = users \ {u}
    /\ stored' = [f \in Function |-> IF f \in gone THEN [live |-> FALSE, ver |-> changes + 1] ELSE stored[f]]

Deletions(gone) == {Event("DELETED", f, changes + 1) : f \in gone}

\* The memory store emits the deletions one by one in the order of a map,
\* while watchers may already receive.
DeleteUser(u) ==
    /\ backend = "memory" /\ Unlocked
    /\ u \in users
    /\ RemoveUser(u, FunctionsOf(u))
    /\ emitting' \in Orders(Deletions(FunctionsOf(u)))
    /\ UNCHANGED <<backend, call, sessionVars, feed, gap>>

emitLocked ==
    /\ emitting # <<>>
    /\ Emit(<<Head(emitting)>>)
    /\ emitting' = Tail(emitting)
    /\ UNCHANGED <<backend, users, stored, changes, call, sessionVars>>

CreateFunction(f) ==
    /\ backend = "memory"
    /\ owner[f] \in users
    /\ ~stored[f].live
    /\ Change("CREATED", f)
    /\ UNCHANGED <<backend, users, emitting, call, sessionVars>>

\* putIfExists, or the map under the lock.
UpdateFunction(f) ==
    /\ stored[f].live
    /\ Change("UPDATED", f)
    /\ UNCHANGED <<backend, users, emitting, call, sessionVars>>

DeleteFunction(f) ==
    /\ stored[f].live
    /\ Change("DELETED", f)
    /\ UNCHANGED <<backend, users, emitting, call, sessionVars>>

\* etcd: DeleteUser lists the functions, then deletes the user, if it is still
\* there, and the functions listed.
DeleteUserList(c, u) ==
    /\ backend = "etcd" /\ call[c] = NoCall
    /\ call' = [call EXCEPT ![c] = [op |-> "deleteUser", user |-> u, listed |-> FunctionsOf(u)]]
    /\ UNCHANGED <<backend, users, stored, changes, emitting, sessionVars, feed, gap>>

DeleteUserCommit(c) ==
    /\ call[c].op = "deleteUser"
    /\ call' = [call EXCEPT ![c] = NoCall]
    /\ IF call[c].user \in users
       THEN LET gone == {f \in call[c].listed : stored[f].live}
            IN  RemoveUser(call[c].user, gone) /\ \E burst \in Orders(Deletions(gone)) : Emit(burst)
       ELSE UNCHANGED <<users, stored, changes, feed, gap>>
    /\ UNCHANGED <<backend, emitting, sessionVars>>

\* etcd: CreateFunction looks the user up, then puts the function if absent.
CreateFunctionCheck(c, f) ==
    /\ backend = "etcd" /\ call[c] = NoCall
    /\ owner[f] \in users
    /\ call' = [call EXCEPT ![c] = [op |-> "create", f |-> f]]
    /\ UNCHANGED <<backend, users, stored, changes, emitting, sessionVars, feed, gap>>

CreateFunctionCommit(c) ==
    /\ call[c].op = "create"
    /\ call' = [call EXCEPT ![c] = NoCall]
    /\ IF stored[call[c].f].live
       THEN UNCHANGED <<stored, changes, feed, gap>>
       ELSE Change("CREATED", call[c].f)
    /\ UNCHANGED <<backend, users, emitting, sessionVars>>

----------------------------------------------------------------------------
(* FunctionSubscriber.session.                                             *)

\* Dial and ListUsers.
ListUsers(l) ==
    /\ session[l] = "down" /\ Unlocked
    /\ session' = [session EXCEPT ![l] = "list"]
    /\ todo' = [todo EXCEPT ![l] = users]
    /\ seen' = [seen EXCEPT ![l] = {}]
    /\ UNCHANGED <<storeVars, feed, events, known, gap, breaks>>

\* ListFunctions of one user; each function is passed on as a creation.
ListFunctions(l, u) ==
    LET listed == FunctionsOf(u)
    IN  /\ session[l] = "list" /\ u \in todo[l] /\ Unlocked
        /\ Len(events[l]) + Cardinality(listed) <= EventsSize
        /\ todo' = [todo EXCEPT ![l] = @ \ {u}]
        /\ seen' = [seen EXCEPT ![l] = @ \cup listed]
        /\ \E burst \in Orders({Event("CREATED", f, stored[f].ver) : f \in listed}) :
             events' = [events EXCEPT ![l] = @ \o burst]
        /\ gap' = [gap EXCEPT ![l] = @ \ listed]
        /\ UNCHANGED <<storeVars, session, feed, known, breaks>>

\* The watch sees the changes made from now on.
WatchFunctions(l) ==
    /\ session[l] = "list" /\ todo[l] = {} /\ Unlocked
    /\ session' = [session EXCEPT ![l] = "watch"]
    /\ UNCHANGED <<storeVars, todo, seen, feed, events, known, gap, breaks>>

\* Mutant: a deletion does not make the session forget the function.
SeenAfterKeepingDeleted(s, e) == IF e.type = "CREATED" THEN s \cup {e.f} ELSE s

SeenAfter(s, e) ==
    CASE e.type = "CREATED" -> s \cup {e.f}
      [] e.type = "DELETED" -> s \ {e.f}
      [] OTHER -> s

\* A creation of a function the session takes for known is not passed on.
Recv(l) ==
    LET e == Head(feed[l])
        duplicate == e.type = "CREATED" /\ e.f \in seen[l]
    IN  /\ session[l] = "watch" /\ feed[l] # <<>>
        /\ duplicate \/ Len(events[l]) < EventsSize
        /\ feed' = [feed EXCEPT ![l] = Tail(@)]
        /\ seen' = [seen EXCEPT ![l] = SeenAfter(@, e)]
        /\ events' = IF duplicate THEN events ELSE [events EXCEPT ![l] = Append(@, e)]
        /\ UNCHANGED <<storeVars, session, todo, known, gap, breaks>>

\* Mutant: what the old stream still held is delivered in the next session.
BreakKeepingFeed(l) ==
    /\ session[l] # "down"
    /\ breaks < MaxBreaks
    /\ breaks' = breaks + 1
    /\ session' = [session EXCEPT ![l] = "down"]
    /\ todo' = [todo EXCEPT ![l] = {}]
    /\ UNCHANGED <<storeVars, seen, feed, events, known, gap>>

\* Any request of the session fails, or its stream ends.
Break(l) ==
    /\ session[l] # "down"
    /\ breaks < MaxBreaks
    /\ breaks' = breaks + 1
    /\ session' = [session EXCEPT ![l] = "down"]
    /\ todo' = [todo EXCEPT ![l] = {}]
    /\ feed' = [feed EXCEPT ![l] = <<>>]
    /\ gap' = [gap EXCEPT ![l] = @ \cup {feed[l][i].f : i \in DOMAIN feed[l]}]
    /\ UNCHANGED <<storeVars, seen, events, known>>

\* Runtime.watchFunctions: ApplyFunction or DeleteFunction.
HandleFunctionEvent(l) ==
    /\ events[l] # <<>>
    /\ events' = [events EXCEPT ![l] = Tail(@)]
    /\ LET e == Head(events[l])
       IN  known' = [known EXCEPT ![l][e.f] = [live |-> e.type # "DELETED", ver |-> e.ver]]
    /\ UNCHANGED <<storeVars, session, todo, seen, feed, gap, breaks>>

----------------------------------------------------------------------------
Api ==
    \/ \E u \in User : CreateUser(u) \/ DeleteUser(u)
    \/ \E f \in Function : CreateFunction(f) \/ UpdateFunction(f) \/ DeleteFunction(f)
    \/ emitLocked
    \/ \E c \in Caller, u \in User : DeleteUserList(c, u)
    \/ \E c \in Caller, f \in Function : CreateFunctionCheck(c, f)
    \/ \E c \in Caller : DeleteUserCommit(c) \/ CreateFunctionCommit(c)

Subscriber(l) ==
    \/ ListUsers(l)
    \/ \E u \in User : ListFunctions(l, u)
    \/ WatchFunctions(l)
    \/ Recv(l)

Next ==
    \/ Api
    \/ \E l \in Leaf : Subscriber(l) \/ Break(l) \/ HandleFunctionEvent(l)

Spec == Init /\ [][Next]_vars

\* Subscribers reconnect and read, leaves handle what they are given, and the
\* store gives its lock back.
Fairness ==
    /\ WF_vars(emitLocked)
    /\ \A l \in Leaf : WF_vars(Subscriber(l)) /\ WF_vars(HandleFunctionEvent(l))

LiveSpec == Spec /\ Fairness

----------------------------------------------------------------------------
\* A leaf never goes back in the history of a function: neither an older
\* specification nor a function deleted later comes back to it, across
\* reconnects that list again what events had already said (session's order of
\* list and watch, one events channel for all sessions).
HistoryInOrder ==
    [][\A l \in Leaf, f \in Function : known'[l][f].ver >= known[l][f].ver]_known

\* A leaf ends up running exactly the functions that are stored, in their last
\* version, except those of which its subscription missed a change: between
\* list and watch, while disconnected, or at a full channel.  In particular no
\* creation that the session skips as a duplicate is a new function, unless the
\* deletion before it was missed (SubscribeFunctions).
LeavesSettle ==
    \A l \in Leaf, f \in Function :
      <>[](f \notin gap[l] => /\ known[l][f].live = stored[f].live
                              /\ stored[f].live => known[l][f].ver = stored[f].ver)

=============================================================================
