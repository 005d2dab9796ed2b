------------------------------ MODULE DynamicSlot ------------------------------
(***************************************************************************)
(* The connection hash of libpyside (dynamicslot.cpp, qobjectconnect.cpp,  *)
(* pysideqslotobject_p.cpp, pysideweakref.cpp).                            *)
(*                                                                         *)
(* Connecting a Qt signal to a Python callable makes a Qt connection and   *)
(* an entry  ConnectionKey -> QMetaObject::Connection  in connectionHash.  *)
(* The hash must follow three lifetimes it does not own: the connection    *)
(* (Qt may drop it), the sender (a QObject, by its destroyed() signal) and *)
(* the receiver (a Python object, by a weak reference, because a bound     *)
(* method's slot keeps the function alive but not self).                   *)
(*                                                                         *)
(* Senders and Objects are ADDRESSES: an address whose occupant died may   *)
(* be taken by a new object.  One step is what one thread does while it    *)
(* holds the GIL; a call that releases the GIL is split there.  The loop   *)
(* of disconnectReceiver is one step here and is taken apart in            *)
(* ReceiverSweep.                                                          *)
(***************************************************************************)
EXTENDS Naturals, FiniteSets

CONSTANTS
  Senders,        \* addresses a sending QObject can have
  Signals,        \* signal indexes
  Objects,        \* addresses a Python receiver can have
  NoObject,       \* ConnectionKey::object of a plain callable (nullptr)
  Functions,      \* functions, C functions and plain callables
  Callbacks,      \* the callables of the program, see CallbacksAssumption
  ConnIds,        \* identities of Qt connections
  NoConn,         \* no connection
  Threads,        \* Python threads that connect
  MaxQueued       \* bound: destroyed() events in flight for one address

CONSTANTS         \* what the program does, each TRUE or FALSE
  Repeats,        \* connects a callable to a signal it is connected to already
  Contexts,       \* uses connect(signal, context, callable)
  OtherRoutes,    \* also disconnects by Connection or None
  CrossThread,    \* destroys senders outside the tracker's thread
  AppRestarts     \* destroys the QCoreApplication and goes on

Kinds == {"index", "method", "callable", "cfunction"}

ASSUME CallbacksAssumption ==
  /\ NoObject \notin Objects
  /\ Callbacks \subseteq [kind : Kinds, obj : Objects \cup {NoObject}, fn : Functions]
  /\ \A cb \in Callbacks : cb.kind = "callable" <=> cb.obj = NoObject
ASSUME ConnAssumption == NoConn \notin ConnIds
ASSUME BoundAssumption == MaxQueued \in Nat
ASSUME ProgramAssumption ==
  {Repeats, Contexts, OtherRoutes, CrossThread, AppRestarts} \subseteq BOOLEAN

VARIABLES
  senders,        \* the addresses in Senders at which a QObject lives
  objects,        \* the addresses in Objects at which a Python object lives
  watched,        \* live objects with a weak reference that notifies
  conns,          \* the live Qt connections
  connectionHash, \* ConnectionKey -> connection (perhaps no longer live)
  pending,        \* thread -> the connection it made and has not registered
  tracker,        \* senderSignalDeletionTracker is not null
  tracked,        \* senders whose destroyed() is connected to the tracker
  queued,         \* destroyed(address) events posted to the tracker
  running         \* the interpreter has not reached Py_AtExit

vars == <<senders, objects, watched, conns, connectionHash, pending, tracker,
          tracked, queued, running>>

-----------------------------------------------------------------------------
(* Data *)

\* ConnectionKey
ConnectionKey == [sender : Senders, senderIndex : Signals,
                  object : Objects \cup {NoObject}, method : Functions]

\* connectionKey(): a bound method or C function is told by self and function,
\* any other callable by itself.
connectionKey(s, g, cb) ==
  [sender |-> s, senderIndex |-> g, object |-> cb.obj, method |-> cb.fn]

\* DynamicSlot::slotType and create(): the slot of a bound method borrows self,
\* the slot of anything else owns the callable.
SlotOf(cb) == IF cb.kind \in {"index", "method"} THEN "borrows" ELSE "owns"

Slots == {"receiver", "borrows", "owns"}
Routes == {"callback", "context", "string"}

\* A Qt connection. Slot "receiver" is a connection to a method index of a
\* QObject, which Qt itself drops when that object dies.
Connection == [key : ConnectionKey, slot : Slots, route : Routes]

\* Qt and Python objects are different objects, and "no connection" is no link.
ASSUME EndsAssumption ==
  /\ Senders \cap (Objects \cup {NoObject}) = {}
  /\ NoConn \notin Connection \cup [from : Senders, to : Objects \cup {NoObject}]

Live(c) == c # NoConn /\ conns[c] # NoConn

Entries == {k \in ConnectionKey : connectionHash[k] # NoConn}

\* QMetaObject::Connection keeps its private data alive, so a connection's
\* identity is not reused while the hash or a caller holds it.
Fresh(c) ==
  /\ conns[c] = NoConn
  /\ \A k \in ConnectionKey : connectionHash[k] # c
  /\ \A t \in Threads : pending[t] # c

Reachable(cb) == cb.obj \in objects \cup {NoObject}

\* erase() of the entries in ks
Without(ks) == [k \in ConnectionKey |-> IF k \in ks THEN NoConn ELSE connectionHash[k]]

\* QObject::disconnect() of the connections in cs
Cut(cs) == [c \in ConnIds |-> IF c \in cs THEN NoConn ELSE conns[c]]

-----------------------------------------------------------------------------
(* Init *)

Init ==
  /\ senders = {}
  /\ objects = {}
  /\ watched = {}
  /\ conns = [c \in ConnIds |-> NoConn]
  /\ connectionHash = [k \in ConnectionKey |-> NoConn]
  /\ pending = [t \in Threads |-> NoConn]
  /\ tracker = FALSE
  /\ tracked = {}
  /\ queued = [s \in Senders |-> 0]
  /\ running = TRUE

-----------------------------------------------------------------------------
(* Objects come into being, perhaps where another one used to be *)

NewSender(s) ==
  /\ running
  /\ s \notin senders
  /\ senders' = senders \cup {s}
  /\ UNCHANGED <<objects, watched, conns, connectionHash, pending, tracker,
                 tracked, queued, running>>

NewObject(o) ==
  /\ running
  /\ o \notin objects
  /\ objects' = objects \cup {o}
  /\ UNCHANGED <<senders, watched, conns, connectionHash, pending, tracker,
                 tracked, queued, running>>

-----------------------------------------------------------------------------
(* Connecting *)

\* Mutation of Watch: no weak reference is made.
WatchNothing(slot, cb) == UNCHANGED watched

\* A PysideReceiverMethodSlot asks for a notification of self's death.
Watch(slot, cb) == watched' = IF slot = "borrows" THEN watched \cup {cb.obj} ELSE watched

\* The program has not connected this callable here yet.
FirstTime(key) ==
  \A c \in ConnIds : Live(c) /\ conns[c].route = "callback" => conns[c].key # key

\* qobjectConnectCallback() up to the end of its Py_BEGIN_ALLOW_THREADS block:
\* a QObject receiver with the slot in its meta object is connected by index,
\* anything else through a slot object. The hash does not know it yet.
ConnectCallback(t, s, g, cb) ==
  LET key  == connectionKey(s, g, cb)
      slot == IF cb.kind = "index" THEN "receiver" ELSE SlotOf(cb)
  IN /\ running
     /\ pending[t] = NoConn
     /\ s \in senders
     /\ Reachable(cb)
     /\ Repeats \/ FirstTime(key)
     /\ \E c \in ConnIds :
          /\ Fresh(c)
          /\ conns' = [conns EXCEPT ![c] = [key |-> key, slot |-> slot, route |-> "callback"]]
          /\ pending' = [pending EXCEPT ![t] = c]
     /\ Watch(slot, cb)
     /\ UNCHANGED <<senders, objects, connectionHash, tracker, tracked, queued, running>>

\* Mutation of RegisteredKey: the self of a bound method is not in the key.
KeyWithoutSelf(c) == [conns[c].key EXCEPT !.object = NoObject]

\* connectionKey() of the sender, signal and callable that were connected.
RegisteredKey(c) == conns[c].key

\* The rest of qobjectConnectCallback(), the GIL held again: a connection that is
\* still there is entered in the hash, in place of an entry with the same key,
\* and the sender's destroyed() is connected to the tracker.
registerSlotConnection(t) ==
  LET c == pending[t] IN
  /\ running
  /\ Live(c)
  /\ connectionHash' = [connectionHash EXCEPT ![RegisteredKey(c)] = c]
  /\ tracker' = TRUE
  /\ tracked' = tracked \cup {conns[c].key.sender}
  /\ pending' = [pending EXCEPT ![t] = NoConn]
  /\ UNCHANGED <<senders, objects, watched, conns, queued, running>>

\* "if (!connection) return {}": somebody cut it while the GIL was released.
ConnectFailed(t) ==
  /\ running
  /\ pending[t] # NoConn
  /\ ~Live(pending[t])
  /\ pending' = [pending EXCEPT ![t] = NoConn]
  /\ UNCHANGED <<senders, objects, watched, conns, connectionHash, tracker,
                 tracked, queued, running>>

\* qobjectConnectCallback() with a context object: always a slot object, never
\* entered in the hash.
ConnectWithContext(s, g, cb) ==
  /\ Contexts
  /\ running
  /\ s \in senders
  /\ Reachable(cb)
  /\ \E c \in ConnIds :
       /\ Fresh(c)
       /\ conns' = [conns EXCEPT ![c] = [key |-> connectionKey(s, g, cb),
                                         slot |-> SlotOf(cb), route |-> "context"]]
  /\ Watch(SlotOf(cb), cb)
  /\ UNCHANGED <<senders, objects, connectionHash, pending, tracker, tracked,
                 queued, running>>

\* qobjectConnect() of a signal and a slot given by name or QMetaMethod: Qt's
\* own connection by index, not entered in the hash.
ConnectByName(s, g, cb) ==
  /\ OtherRoutes
  /\ running
  /\ cb.kind = "index"
  /\ s \in senders
  /\ Reachable(cb)
  /\ \E c \in ConnIds :
       /\ Fresh(c)
       /\ conns' = [conns EXCEPT ![c] = [key |-> connectionKey(s, g, cb),
                                         slot |-> "receiver", route |-> "string"]]
  /\ UNCHANGED <<senders, objects, watched, connectionHash, pending, tracker,
                 tracked, queued, running>>

-----------------------------------------------------------------------------
(* Disconnecting *)

\* disconnectSlot(): an entry is cut and erased, whether or not it is live.
disconnectSlot(s, g, cb) ==
  LET key == connectionKey(s, g, cb) IN
  /\ running
  /\ s \in senders
  /\ Reachable(cb)
  /\ connectionHash[key] # NoConn
  /\ conns' = Cut({connectionHash[key]})
  /\ connectionHash' = Without({key})
  /\ UNCHANGED <<senders, objects, watched, pending, tracker, tracked, queued, running>>

\* qobjectDisconnectCallback() without an entry (PYSIDE-3020): every connection
\* to that method index, which was perhaps made by name, is cut.
DisconnectByIndex(s, g, cb) ==
  LET key == connectionKey(s, g, cb) IN
  /\ running
  /\ s \in senders
  /\ Reachable(cb)
  /\ connectionHash[key] = NoConn
  /\ cb.kind = "index"
  /\ conns' = Cut({c \in ConnIds : Live(c) /\ conns[c].key = key /\ conns[c].slot = "receiver"})
  /\ UNCHANGED <<senders, objects, watched, connectionHash, pending, tracker,
                 tracked, queued, running>>

\* signalInstanceDisconnect() of a QMetaObject::Connection, or the death of a
\* context object: Qt cuts one connection and the hash is not told.
DisconnectConnection(c) ==
  /\ OtherRoutes \/ (Live(c) /\ conns[c].route = "context")
  /\ Live(c)
  /\ conns' = Cut({c})
  /\ UNCHANGED <<senders, objects, watched, connectionHash, pending, tracker,
                 tracked, queued, running>>

\* signalInstanceDisconnect() of None: every connection of the signal is cut.
DisconnectAll(s, g) ==
  /\ OtherRoutes
  /\ running
  /\ s \in senders
  /\ conns' = Cut({c \in ConnIds :
                     Live(c) /\ conns[c].key.sender = s /\ conns[c].key.senderIndex = g})
  /\ UNCHANGED <<senders, objects, watched, connectionHash, pending, tracker,
                 tracked, queued, running>>

-----------------------------------------------------------------------------
(* Senders die *)

\* Mutations of EntriesOf: the sweep stops at the first entry it finds, or does
\* not look at the sender.
EntriesOfFirst(s) ==
  LET ks == {k \in Entries : k.sender = s}
  IN IF ks = {} THEN {} ELSE {CHOOSE k \in ks : TRUE}
EntriesOfAnybody(s) == Entries

EntriesOf(s) == {k \in Entries : k.sender = s}

\* No thread is inside a call on s: Qt's rule for destroying a QObject.
Unused(s) == \A t \in Threads : Live(pending[t]) => conns[pending[t]].key.sender # s

\* ~QObject of a sender: Qt drops its connections.
SenderGone(s) ==
  /\ s \in senders
  /\ Unused(s)
  /\ senders' = senders \ {s}
  /\ conns' = Cut({c \in ConnIds : Live(c) /\ conns[c].key.sender = s})
  /\ tracked' = tracked \ {s}

\* In the tracker's thread destroyed() reaches senderDestroyed() at once.
DestroySender(s) ==
  /\ SenderGone(s)
  /\ connectionHash' = IF s \in tracked THEN Without(EntriesOf(s)) ELSE connectionHash
  /\ UNCHANGED <<objects, watched, pending, tracker, queued, running>>

\* From another thread destroyed() is posted to the tracker.
DestroySenderElsewhere(s) ==
  /\ CrossThread
  /\ s \in tracked
  /\ queued[s] < MaxQueued
  /\ SenderGone(s)
  /\ queued' = [queued EXCEPT ![s] = @ + 1]
  /\ UNCHANGED <<objects, watched, connectionHash, pending, tracker, running>>

\* SenderSignalDeletionTracker::senderDestroyed() of a posted event: every entry
\* with that address is erased.
senderDestroyed(s) ==
  /\ queued[s] > 0
  /\ queued' = [queued EXCEPT ![s] = @ - 1]
  /\ connectionHash' = Without(EntriesOf(s))
  /\ UNCHANGED <<senders, objects, watched, conns, pending, tracker, tracked, running>>

\* The tracker is a child of the application: with it go its connections and the
\* events posted to it.
DestroyApplication ==
  /\ AppRestarts
  /\ tracker
  /\ tracker' = FALSE
  /\ tracked' = {}
  /\ queued' = [s \in Senders |-> 0]
  /\ UNCHANGED <<senders, objects, watched, conns, connectionHash, pending, running>>

-----------------------------------------------------------------------------
(* Receivers die *)

\* Mutation of EntriesTo: the sweep stops at the first entry it finds.
EntriesToFirst(o) ==
  LET ks == {k \in Entries : k.object = o}
  IN IF ks = {} THEN {} ELSE {CHOOSE k \in ks : TRUE}

EntriesTo(o) == {k \in Entries : k.object = o}

\* Something owns a reference to o: the slot of a C function, or the bound
\* method a connecting thread holds.
Referenced(o) ==
  \/ \E c \in ConnIds : Live(c) /\ conns[c].slot = "owns" /\ conns[c].key.object = o
  \/ \E t \in Threads : Live(pending[t]) /\ conns[pending[t]].key.object = o

\* Deallocation of a Python receiver. The weak references made for its slots run
\* onPysideReceiverSlotDestroyed(), hence disconnectReceiver(o), which cuts and
\* erases every entry of o; Qt drops the connections by index of a QObject.
DestroyObject(o) ==
  LET swept == IF o \in watched THEN EntriesTo(o) ELSE {}
      byQt  == {c \in ConnIds : Live(c) /\ conns[c].slot = "receiver" /\ conns[c].key.object = o}
  IN /\ running
     /\ o \in objects
     /\ ~Referenced(o)
     /\ objects' = objects \ {o}
     /\ watched' = watched \ {o}
     /\ conns' = Cut({connectionHash[k] : k \in swept} \cup byQt)
     /\ connectionHash' = Without(swept)
     /\ UNCHANGED <<senders, pending, tracker, tracked, queued, running>>

\* clearConnectionHash() from Py_AtExit
clearConnectionHash ==
  /\ running
  /\ \A t \in Threads : pending[t] = NoConn
  /\ running' = FALSE
  /\ connectionHash' = Without(Entries)
  /\ UNCHANGED <<senders, objects, watched, conns, pending, tracker, tracked, queued>>

-----------------------------------------------------------------------------

Next ==
  \/ \E s \in Senders : \/ NewSender(s)
                        \/ DestroySender(s)
                        \/ DestroySenderElsewhere(s)
                        \/ senderDestroyed(s)
  \/ \E o \in Objects : NewObject(o) \/ DestroyObject(o)
  \/ \E t \in Threads : registerSlotConnection(t) \/ ConnectFailed(t)
  \/ \E c \in ConnIds : DisconnectConnection(c)
  \/ \E s \in Senders, g \in Signals : DisconnectAll(s, g)
  \/ \E s \in Senders, g \in Signals, cb \in Callbacks :
       \/ \E t \in Threads : ConnectCallback(t, s, g, cb)
       \/ ConnectWithContext(s, g, cb)
       \/ ConnectByName(s, g, cb)
       \/ disconnectSlot(s, g, cb)
       \/ DisconnectByIndex(s, g, cb)
  \/ DestroyApplication
  \/ clearConnectionHash

Spec == Init /\ [][Next]_vars

\* The tracker lives in a thread with an event loop: what is posted arrives.
Fairness == \A s \in Senders : WF_vars(senderDestroyed(s))

FairSpec == Spec /\ Fairness

-----------------------------------------------------------------------------
(* Properties *)

TypeOK ==
  /\ senders \subseteq Senders
  /\ objects \subseteq Objects
  /\ watched \subseteq objects
  /\ conns \in [ConnIds -> Connection \cup {NoConn}]
  /\ connectionHash \in [ConnectionKey -> ConnIds \cup {NoConn}]
  /\ pending \in [Threads -> ConnIds \cup {NoConn}]
  /\ tracker \in BOOLEAN
  /\ tracked \subseteq Senders
  /\ queued \in [Senders -> Nat]
  /\ running \in BOOLEAN

InHash(c) == connectionHash[conns[c].key] = c

BeingRegistered(c) == \E t \in Threads : pending[t] = c

\* What the hash tracks never calls a method on a dead self: a live connection
\* that is in the hash and borrows self has a living self that will notify, in
\* whatever order objects die, addresses are reused and connections are cut.
TrackedSelfAlive ==
  \A k \in Entries :
    LET c == connectionHash[k]
    IN Live(c) /\ conns[c].slot = "borrows" => k.object \in watched

\* An entry leads to the connection made for its key, or to a dead one: never to
\* a connection that was made for another key.
EntryLeadsHome ==
  \A k \in Entries : Live(connectionHash[k]) => conns[connectionHash[k]].key = k

\* The promise of the comment above ConnectionKey: as long as Python runs, each
\* connection made from a callable is in the hash, so that it can be found by
\* disconnect() and by the death of its receiver.
LiveConnectionsTracked ==
  running => \A c \in ConnIds :
    Live(c) /\ conns[c].route # "string" => InHash(c) \/ BeingRegistered(c)

\* No connection can call a method on a dead self (MethodDynamicSlot borrows it).
NoDanglingSelf ==
  \A c \in ConnIds : Live(c) /\ conns[c].slot = "borrows" => conns[c].key.object \in objects

\* "Tracking sender life time and clean hash on destroyed()": the sender of an
\* entry lives, or the event that will erase the entry is on its way.
EntrySendersKnown ==
  \A k \in Entries : k.sender \in tracked \/ queued[k.sender] > 0

\* The handler of destroyed() forgets only what the dead sender left behind: it
\* never erases the entry of a connection that still works.
SweepSparesTheLiving ==
  [][\A s \in Senders : senderDestroyed(s) =>
       \A k \in EntriesOf(s) : ~Live(connectionHash[k])]_vars

\* The entries of a dead sender go, unless a new sender takes its address.
DeadSendersForgotten ==
  \A s \in Senders :
    (s \notin senders /\ EntriesOf(s) # {}) ~> (s \in senders \/ EntriesOf(s) = {})

\* A connection made from a callable or by name, as the user sees it: a link
\* from the sender to the receiver, or to the callable itself.
Links ==
  [c \in ConnIds |-> IF Live(c) THEN [from |-> conns[c].key.sender, to |-> conns[c].key.object]
                              ELSE NoConn]

Registry == INSTANCE ConnectionRegistry WITH
  Ends <- Senders \cup Objects \cup {NoObject}, Ids <- ConnIds, NoLink <- NoConn,
  up <- senders \cup objects \cup {NoObject}, links <- Links

\* Deaths and disconnections remove the links they should and no others,
\* although Qt, the hash and the weak references each do a part of it.
ImplementsRegistry == Registry!Spec

=============================================================================
