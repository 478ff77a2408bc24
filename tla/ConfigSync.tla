----------------------------- MODULE ConfigSync -----------------------------
(***************************************************************************)
(* The dynamic platform configuration, from the writers of the single      *)
(* document to the components that follow it.                              *)
(*                                                                         *)
(* The control plane keeps the document in one of two backends.  The       *)
(* memory backend numbers versions itself and has a latest-wins mailbox    *)
(* per watcher; in etcd the version is the modification revision of the    *)
(* key, every write of the store advances the revision, and a watcher      *)
(* reads the key and then follows the events after the revision of that    *)
(* read.  A component runs a ConfigSubscriber, which dials, watches,       *)
(* accepts documents newer than its current one, and dials again when the  *)
(* stream ends.                                                            *)
(*                                                                         *)
(* A document is named by the revision that wrote it.                      *)
(***************************************************************************)
EXTENDS Integers, Sequences, FiniteSets

CONSTANTS
    Replica,     \* control plane processes
    Writer,      \* operators that write the document through the API
    Component,   \* components that run a ConfigSubscriber
    Backend,     \* the backends to consider, a subset of {"memory", "etcd"}
    MaxRevision, \* bound: writes to the store
    MaxBreaks,   \* bound: failed dials and broken streams
    ChanSize     \* documents between the watch goroutine and the subscriber

ASSUME ConfigAssumption ==
    /\ Backend \subseteq {"memory", "etcd"} /\ Backend # {}
    /\ Replica # {}
    /\ MaxRevision \in Nat \ {0}
    /\ MaxBreaks \in Nat
    /\ ChanSize \in Nat \ {0}

VARIABLES
    backend,   \* the backend of this deployment
    revision,  \* revision of the store (memory: configVersion)
    docs,      \* revisions at which the document was written
    server,    \* replica: "off", "start", "seed", "serving"
    pc,        \* writer: "ready", "readback"
    known,     \* writer: the version it would pass as expectedVersion
    session,   \* component: "down", "watch"
    mailbox,   \* component, memory: configWatcher.latest, 0 when nil
    notify,    \* component, memory: the wake-up of the mailbox
    position,  \* component, etcd: next revision of the watch, 0 before the Get
    held,      \* component: document the watch goroutine is about to send
    out,       \* component: documents sent and not received
    current,   \* component: ConfigSubscriber.current, 0 before the first
    breaks     \* failed dials and broken streams so far (bound only)

storeVars == <<backend, revision, docs, server, pc, known>>
watchVars == <<session, mailbox, notify, position, held, out>>
configVars == <<storeVars, watchVars, current, breaks>>

Newest(S) == IF S = {} THEN 0 ELSE CHOOSE d \in S : \A e \in S : e <= d

\* The stored document, 0 when there is none.
document == Newest(docs)

ConfigInit ==
    /\ backend \in Backend
    /\ revision = 0
    /\ docs = {}
    /\ server \in [Replica -> {"off", "start"}]
    /\ Cardinality({r \in Replica : server[r] = "start"}) \in
         IF backend = "memory" THEN {1} ELSE {Cardinality(Replica)}
    /\ pc = [w \in Writer |-> "ready"]
    /\ known = [w \in Writer |-> 0]
    /\ session = [c \in Component |-> "down"]
    /\ mailbox = [c \in Component |-> 0]
    /\ notify = [c \in Component |-> FALSE]
    /\ position = [c \in Component |-> 0]
    /\ held = [c \in Component |-> 0]
    /\ out = [c \in Component |-> <<>>]
    /\ current = [c \in Component |-> 0]
    /\ breaks = 0

----------------------------------------------------------------------------
(* Writers.                                                                *)

Serving == \E r \in Replica : server[r] = "serving"

Watching == {c \in Component : session[c] = "watch"}

\* Mutant: a document is dropped while an earlier one is pending.
SetUnlessPending(d) ==
    /\ mailbox' = [c \in Component |-> IF c \in Watching /\ ~notify[c] THEN d ELSE mailbox[c]]
    /\ notify' = [c \in Component |-> notify[c] \/ c \in Watching]

\* configWatcher.set for every watcher.
set(d) ==
    /\ mailbox' = [c \in Component |-> IF c \in Watching THEN d ELSE mailbox[c]]
    /\ notify' = [c \in Component |-> notify[c] \/ c \in Watching]

Write(d) ==
    /\ revision < MaxRevision
    /\ revision' = d
    /\ docs' = docs \cup {d}
    /\ IF backend = "memory" THEN set(d) ELSE UNCHANGED <<mailbox, notify>>
    /\ UNCHANGED <<backend, session, position, held, out, current, breaks>>

GetPlatformConfig(w) ==
    /\ Serving
    /\ pc[w] = "ready"
    /\ document # 0
    /\ known[w] # document
    /\ known' = [known EXCEPT ![w] = document]
    /\ UNCHANGED <<backend, revision, docs, server, pc, watchVars, current, breaks>>

\* The version check, under the store's lock or in the transaction.
MayReplace(expected) == expected = 0 \/ expected = document

\* The memory backend answers with the version it assigned; with etcd the
\* version is read back in a second request.
PutPlatformConfig(w, expected) ==
    /\ Serving
    /\ pc[w] = "ready"
    /\ MayReplace(expected)
    /\ Write(revision + 1)
    /\ IF backend = "memory"
       THEN known' = [known EXCEPT ![w] = revision + 1] /\ UNCHANGED pc
       ELSE pc' = [pc EXCEPT ![w] = "readback"] /\ UNCHANGED known
    /\ UNCHANGED server

ReadBack(w) ==
    /\ pc[w] = "readback"
    /\ known' = [known EXCEPT ![w] = document]
    /\ pc' = [pc EXCEPT ![w] = "ready"]
    /\ UNCHANGED <<backend, revision, docs, server, watchVars, current, breaks>>

\* seedPlatformConfig, before a control plane serves: the default document is
\* written when there is none.
SeedCheck(r) ==
    /\ server[r] = "start"
    /\ server' = [server EXCEPT ![r] = IF document = 0 THEN "seed" ELSE "serving"]
    /\ UNCHANGED <<backend, revision, docs, pc, known, watchVars, current, breaks>>

SeedPut(r) ==
    /\ server[r] = "seed"
    /\ Write(revision + 1)
    /\ server' = [server EXCEPT ![r] = "serving"]
    /\ UNCHANGED <<pc, known>>

\* Another key of the same etcd: users and functions share the revision.
OtherWrite ==
    /\ backend = "etcd"
    /\ revision < MaxRevision
    /\ revision' = revision + 1
    /\ UNCHANGED <<backend, docs, server, pc, known, watchVars, current, breaks>>

----------------------------------------------------------------------------
(* The watch: WatchPlatformConfig of the store and of the gRPC API.        *)

HasRoom(c) == Len(out[c]) < ChanSize

\* A dial and the watch request.  The memory watcher is seeded under the lock.
Watch(c) ==
    /\ session[c] = "down"
    /\ Serving
    /\ session' = [session EXCEPT ![c] = "watch"]
    /\ IF backend = "memory"
       THEN /\ mailbox' = [mailbox EXCEPT ![c] = document]
            /\ notify' = [notify EXCEPT ![c] = document # 0]
       ELSE UNCHANGED <<mailbox, notify>>
    /\ UNCHANGED <<storeVars, position, held, out, current, breaks>>

\* etcd: the Get, whose header revision says where the watch starts.
WatchGet(c) ==
    /\ backend = "etcd" /\ session[c] = "watch" /\ position[c] = 0
    /\ position' = [position EXCEPT ![c] = revision + 1]
    /\ held' = [held EXCEPT ![c] = document]
    /\ UNCHANGED <<storeVars, session, mailbox, notify, out, current, breaks>>

\* etcd: the next event of the key.
WatchEvent(c) ==
    /\ backend = "etcd" /\ position[c] # 0 /\ held[c] = 0
    /\ \E d \in docs :
         /\ d >= position[c]
         /\ \A e \in docs : e >= position[c] => d <= e
         /\ held' = [held EXCEPT ![c] = d]
         /\ position' = [position EXCEPT ![c] = d + 1]
    /\ UNCHANGED <<storeVars, session, mailbox, notify, out, current, breaks>>

\* memory: a wake-up; take empties the mailbox.
take(c) ==
    /\ backend = "memory" /\ notify[c] /\ held[c] = 0
    /\ notify' = [notify EXCEPT ![c] = FALSE]
    /\ held' = [held EXCEPT ![c] = mailbox[c]]
    /\ mailbox' = [mailbox EXCEPT ![c] = 0]
    /\ UNCHANGED <<storeVars, session, position, out, current, breaks>>

Send(c) ==
    /\ held[c] # 0 /\ HasRoom(c)
    /\ out' = [out EXCEPT ![c] = Append(@, held[c])]
    /\ held' = [held EXCEPT ![c] = 0]
    /\ UNCHANGED <<storeVars, session, mailbox, notify, position, current, breaks>>

\* A dial fails, or the stream ends and what was on its way is lost.
Break(c) ==
    /\ session[c] = "watch"
    /\ breaks < MaxBreaks
    /\ breaks' = breaks + 1
    /\ session' = [session EXCEPT ![c] = "down"]
    /\ mailbox' = [mailbox EXCEPT ![c] = 0]
    /\ notify' = [notify EXCEPT ![c] = FALSE]
    /\ position' = [position EXCEPT ![c] = 0]
    /\ held' = [held EXCEPT ![c] = 0]
    /\ out' = [out EXCEPT ![c] = <<>>]
    /\ UNCHANGED <<storeVars, current>>

----------------------------------------------------------------------------
(* ConfigSubscriber.                                                       *)

\* apply: only a newer document is installed.
Accepts(c, d) == d > current[c]

\* Recv and apply; the caller adds what onChange does.
RecvConfig(c, d) ==
    /\ out[c] # <<>> /\ d = Head(out[c])
    /\ out' = [out EXCEPT ![c] = Tail(@)]
    /\ current' = IF Accepts(c, d) THEN [current EXCEPT ![c] = d] ELSE current
    /\ UNCHANGED <<storeVars, session, mailbox, notify, position, held, breaks>>

ServerStart(r) ==
    \/ SeedCheck(r)
    \/ SeedPut(r)

WriterStep(w) ==
    \/ GetPlatformConfig(w)
    \/ \E expected \in {0, known[w]} : PutPlatformConfig(w, expected)
    \/ ReadBack(w)

WatchStep(c) ==
    \/ Watch(c)
    \/ WatchGet(c)
    \/ WatchEvent(c)
    \/ take(c)
    \/ Send(c)

----------------------------------------------------------------------------
\* The documents between the store and a component's subscriber.
InTransit(c) ==
    {out[c][i] : i \in DOMAIN out[c]} \cup {held[c]} \cup (IF notify[c] THEN {mailbox[c]} ELSE {})

\* While a component's stream is up the newest document is never lost: it is
\* the component's current one, or on its way with whatever wakes the goroutine
\* that passes it on, or the watch has yet to read it (configWatcher's
\* latest-wins mailbox; the Get header revision plus one in etcd).
NewestOnItsWay ==
    \A c \in Component :
      session[c] = "watch" /\ document # 0 =>
        \/ current[c] >= document
        \/ document \in InTransit(c)
        \/ backend = "etcd" /\ (position[c] = 0 \/ position[c] <= document)

=============================================================================
