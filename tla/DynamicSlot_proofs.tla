-------------------------- MODULE DynamicSlot_proofs --------------------------
(***************************************************************************)
(* Proofs about DynamicSlot, for every set of senders, receivers, callables *)
(* and threads.                                                            *)
(*                                                                         *)
(* TrackedSafe needs no assumption about the program.  Its invariant adds  *)
(* to TrackedSelfAlive what holds between the two halves of a connect:     *)
(* a connection that a thread is about to register has a living receiver   *)
(* (the thread holds the bound method) and that receiver is watched.       *)
(*                                                                         *)
(* Disciplined names what a program must not do for the hash to keep its   *)
(* promise; under it every connection made from a callable is tracked, and *)
(* no connection can call a method on a dead self.                         *)
(***************************************************************************)
EXTENDS DynamicSlot, TLAPS

\* A connection about to be registered: self will notify.
PendingWatched ==
  \A t \in Threads :
    Live(pending[t]) /\ conns[pending[t]].slot = "borrows"
      => conns[pending[t]].key.object \in watched

TrackedInv == TypeOK /\ EntryLeadsHome /\ TrackedSelfAlive /\ PendingWatched

USE ConnAssumption, CallbacksAssumption

LEMMA KeyType ==
  ASSUME NEW s \in Senders, NEW g \in Signals, NEW cb \in Callbacks
  PROVE  connectionKey(s, g, cb) \in ConnectionKey
BY DEF connectionKey, ConnectionKey

LEMMA CutType ==
  ASSUME TypeOK, NEW cs
  PROVE  Cut(cs) \in [ConnIds -> Connection \cup {NoConn}]
BY DEF TypeOK, Cut

LEMMA WithoutType ==
  ASSUME TypeOK, NEW ks
  PROVE  Without(ks) \in [ConnectionKey -> ConnIds \cup {NoConn}]
BY DEF TypeOK, Without

\* Every variable keeps its type, whatever the program does.
LEMMA TypeStep == TypeOK /\ [Next]_vars => TypeOK'
<1> SUFFICES ASSUME TypeOK, [Next]_vars PROVE TypeOK'
  OBVIOUS
<1>1. ASSUME NEW s \in Senders, NewSender(s) PROVE TypeOK'
  BY <1>1 DEF TypeOK, NewSender
<1>2. ASSUME NEW s \in Senders, senderDestroyed(s) PROVE TypeOK'
  <2>1. queued' \in [Senders -> Nat]
    BY <1>2 DEF TypeOK, senderDestroyed
  <2> QED
    BY <1>2, <2>1, WithoutType DEF TypeOK, senderDestroyed
<1>3. ASSUME NEW s \in Senders, DestroySender(s) PROVE TypeOK'
  <2>1. connectionHash' \in [ConnectionKey -> ConnIds \cup {NoConn}]
    BY <1>3, WithoutType DEF TypeOK, DestroySender
  <2>2. conns' \in [ConnIds -> Connection \cup {NoConn}]
    BY <1>3, CutType DEF DestroySender, SenderGone
  <2> QED
    BY <1>3, <2>1, <2>2 DEF TypeOK, DestroySender, SenderGone
<1>18. ASSUME NEW s \in Senders, DestroySenderElsewhere(s) PROVE TypeOK'
  <2>1. queued' \in [Senders -> Nat]
    BY <1>18 DEF TypeOK, DestroySenderElsewhere
  <2>2. conns' \in [ConnIds -> Connection \cup {NoConn}]
    BY <1>18, CutType DEF DestroySenderElsewhere, SenderGone
  <2> QED
    BY <1>18, <2>1, <2>2 DEF TypeOK, DestroySenderElsewhere, SenderGone
<1>4. ASSUME NEW o \in Objects, NewObject(o) PROVE TypeOK'
  BY <1>4 DEF TypeOK, NewObject
<1>5. ASSUME NEW o \in Objects, DestroyObject(o) PROVE TypeOK'
  <2>1. /\ conns' \in [ConnIds -> Connection \cup {NoConn}]
        /\ connectionHash' \in [ConnectionKey -> ConnIds \cup {NoConn}]
    BY <1>5, CutType, WithoutType DEF DestroyObject
  <2> QED
    BY <1>5, <2>1 DEF TypeOK, DestroyObject
<1>6. ASSUME NEW t \in Threads, registerSlotConnection(t) PROVE TypeOK'
  <2>1. pending[t] \in ConnIds /\ conns[pending[t]] \in Connection
    BY <1>6 DEF TypeOK, registerSlotConnection, RegisteredKey, Live
  <2>2. /\ conns[pending[t]].key \in ConnectionKey
        /\ conns[pending[t]].key.sender \in Senders
    BY <2>1 DEF Connection, ConnectionKey
  <2>3. connectionHash' = [connectionHash EXCEPT ![conns[pending[t]].key] = pending[t]]
    BY <1>6 DEF registerSlotConnection, RegisteredKey
  <2>4. connectionHash' \in [ConnectionKey -> ConnIds \cup {NoConn}]
    BY <2>1, <2>2, <2>3 DEF TypeOK
  <2> QED
    BY <1>6, <2>2, <2>4 DEF TypeOK, registerSlotConnection, RegisteredKey
<1>7. ASSUME NEW t \in Threads, ConnectFailed(t) PROVE TypeOK'
  BY <1>7 DEF TypeOK, ConnectFailed
<1>8. ASSUME NEW c \in ConnIds, DisconnectConnection(c) PROVE TypeOK'
  BY <1>8, CutType DEF TypeOK, DisconnectConnection
<1>9. ASSUME NEW s \in Senders, NEW g \in Signals, DisconnectAll(s, g) PROVE TypeOK'
  BY <1>9, CutType DEF TypeOK, DisconnectAll
<1>10. ASSUME NEW s \in Senders, NEW g \in Signals, NEW cb \in Callbacks,
              NEW t \in Threads, ConnectCallback(t, s, g, cb)
       PROVE  TypeOK'
  BY <1>10, KeyType
  DEF TypeOK, ConnectCallback, Connection, Slots, Routes, SlotOf, Watch, Reachable, Kinds
<1>11. ASSUME NEW s \in Senders, NEW g \in Signals, NEW cb \in Callbacks,
              ConnectWithContext(s, g, cb)
       PROVE  TypeOK'
  BY <1>11, KeyType
  DEF TypeOK, ConnectWithContext, Connection, Slots, Routes, SlotOf, Watch, Reachable, Kinds
<1>12. ASSUME NEW s \in Senders, NEW g \in Signals, NEW cb \in Callbacks,
              ConnectByName(s, g, cb)
       PROVE  TypeOK'
  BY <1>12, KeyType DEF TypeOK, ConnectByName, Connection, Slots, Routes
<1>13. ASSUME NEW s \in Senders, NEW g \in Signals, NEW cb \in Callbacks,
              disconnectSlot(s, g, cb)
       PROVE  TypeOK'
  <2>1. /\ conns' \in [ConnIds -> Connection \cup {NoConn}]
        /\ connectionHash' \in [ConnectionKey -> ConnIds \cup {NoConn}]
    BY <1>13, CutType, WithoutType DEF disconnectSlot
  <2> QED
    BY <1>13, <2>1 DEF TypeOK, disconnectSlot
<1>14. ASSUME NEW s \in Senders, NEW g \in Signals, NEW cb \in Callbacks,
              DisconnectByIndex(s, g, cb)
       PROVE  TypeOK'
  BY <1>14, CutType DEF TypeOK, DisconnectByIndex
<1>15. CASE DestroyApplication
  BY <1>15 DEF TypeOK, DestroyApplication
<1>16. CASE clearConnectionHash
  BY <1>16, WithoutType DEF TypeOK, clearConnectionHash
<1>17. CASE UNCHANGED vars
  BY <1>17 DEF TypeOK, vars
<1> QED
  BY <1>1, <1>2, <1>3, <1>4, <1>5, <1>6, <1>7, <1>8, <1>9, <1>10, <1>11, <1>12,
     <1>13, <1>14, <1>15, <1>16, <1>17, <1>18 DEF Next

LEMMA TypeInit == Init => TypeOK
<1> SUFFICES ASSUME Init PROVE TypeOK
  OBVIOUS
<1>1. tracker \in BOOLEAN /\ running \in BOOLEAN
  BY DEF Init
<1>2. /\ conns \in [ConnIds -> Connection \cup {NoConn}]
      /\ connectionHash \in [ConnectionKey -> ConnIds \cup {NoConn}]
      /\ pending \in [Threads -> ConnIds \cup {NoConn}]
      /\ queued \in [Senders -> Nat]
  BY DEF Init
<1> QED
  BY <1>1, <1>2 DEF Init, TypeOK

\* Type correctness of the connection hash and of everything it refers to.
THEOREM TypeCorrect == Spec => []TypeOK
BY TypeInit, TypeStep, PTL DEF Spec

-----------------------------------------------------------------------------
(* The hash and the receivers *)

\* What most steps do: connections, entries and pending registrations are kept
\* or lost, and nobody stops watching.
Shrinks ==
  /\ \A c \in ConnIds : conns'[c] \in {conns[c], NoConn}
  /\ \A k \in ConnectionKey : connectionHash'[k] \in {connectionHash[k], NoConn}
  /\ \A t \in Threads : pending'[t] \in {pending[t], NoConn}
  /\ watched \subseteq watched'

LEMMA ShrinkKeeps == TrackedInv /\ TypeOK' /\ Shrinks => TrackedInv'
<1> SUFFICES ASSUME TrackedInv, TypeOK', Shrinks PROVE TrackedInv'
  OBVIOUS
<1>1. ASSUME NEW k \in ConnectionKey, connectionHash'[k] # NoConn,
             conns'[connectionHash'[k]] # NoConn
      PROVE  /\ connectionHash'[k] = connectionHash[k]
             /\ connectionHash[k] \in ConnIds
             /\ conns'[connectionHash[k]] = conns[connectionHash[k]]
             /\ k \in Entries
             /\ Live(connectionHash[k])
  BY <1>1 DEF TrackedInv, TypeOK, Shrinks, Entries, Live
<1>2. EntryLeadsHome'
  BY <1>1 DEF TrackedInv, EntryLeadsHome, Entries, Live
<1>3. TrackedSelfAlive'
  BY <1>1 DEF TrackedInv, TrackedSelfAlive, Entries, Live, Shrinks
<1>4. PendingWatched'
  <2> SUFFICES ASSUME NEW t \in Threads, Live(pending[t])',
                      conns'[pending'[t]].slot = "borrows"
               PROVE  conns'[pending'[t]].key.object \in watched'
    BY DEF PendingWatched
  <2>1. pending'[t] = pending[t] /\ pending[t] \in ConnIds
    BY DEF TrackedInv, TypeOK, Shrinks, Live
  <2>2. conns'[pending[t]] = conns[pending[t]] /\ Live(pending[t])
    BY <2>1 DEF Shrinks, Live
  <2> QED
    BY <2>1, <2>2 DEF TrackedInv, PendingWatched, Shrinks
<1> QED
  BY <1>2, <1>3, <1>4 DEF TrackedInv

\* What a connect does: a fresh identity gets a connection and at most one
\* thread is about to register it, its receiver being watched if need be.
Grows(c, conn) ==
  /\ c \in ConnIds
  /\ Fresh(c)
  /\ conns' = [conns EXCEPT ![c] = conn]
  /\ conn.slot = "borrows" => conn.key.object \in watched'
  /\ \A t \in Threads : pending'[t] \in {pending[t], c}
  /\ watched \subseteq watched'
  /\ UNCHANGED connectionHash

LEMMA GrowKeeps ==
  ASSUME NEW c, NEW conn
  PROVE  TrackedInv /\ TypeOK' /\ Grows(c, conn) => TrackedInv'
<1> SUFFICES ASSUME TrackedInv, TypeOK', Grows(c, conn) PROVE TrackedInv'
  OBVIOUS
<1>1. ASSUME NEW k \in ConnectionKey, connectionHash[k] # NoConn
      PROVE  conns'[connectionHash[k]] = conns[connectionHash[k]]
  BY <1>1 DEF TrackedInv, TypeOK, Grows, Fresh
<1>2. EntryLeadsHome' /\ TrackedSelfAlive'
  BY <1>1 DEF TrackedInv, EntryLeadsHome, TrackedSelfAlive, Entries, Live, Grows
<1>3. PendingWatched'
  <2> SUFFICES ASSUME NEW t \in Threads, Live(pending[t])',
                      conns'[pending'[t]].slot = "borrows"
               PROVE  conns'[pending'[t]].key.object \in watched'
    BY DEF PendingWatched
  <2>1. CASE pending'[t] = c
    BY <2>1 DEF Grows, TrackedInv, TypeOK
  <2>2. CASE pending'[t] = pending[t] /\ pending[t] # c
    <3>1. conns'[pending[t]] = conns[pending[t]]
      BY <2>2 DEF Grows, TrackedInv, TypeOK, Live
    <3> QED
      BY <2>2, <3>1 DEF TrackedInv, PendingWatched, Live, Grows
  <2> QED
    BY <2>1, <2>2 DEF Grows
<1> QED
  BY <1>2, <1>3 DEF TrackedInv

\* The second half of a connect.
LEMMA RegisterKeeps ==
  ASSUME NEW t \in Threads
  PROVE  TrackedInv /\ TypeOK' /\ registerSlotConnection(t) => TrackedInv'
<1> SUFFICES ASSUME TrackedInv, TypeOK', registerSlotConnection(t) PROVE TrackedInv'
  OBVIOUS
<1> DEFINE c == pending[t]
<1>1. Live(c) /\ c \in ConnIds /\ conns[c] \in Connection /\ conns[c].key \in ConnectionKey
  BY DEF TrackedInv, TypeOK, registerSlotConnection, RegisteredKey, Live, Connection
<1>2. /\ connectionHash'[conns[c].key] = c
      /\ \A k \in ConnectionKey : k # conns[c].key => connectionHash'[k] = connectionHash[k]
  BY <1>1 DEF TrackedInv, TypeOK, registerSlotConnection, RegisteredKey
<1>3. EntryLeadsHome'
  BY <1>1, <1>2 DEF TrackedInv, EntryLeadsHome, Entries, Live, registerSlotConnection, RegisteredKey
<1>4. TrackedSelfAlive'
  BY <1>1, <1>2
  DEF TrackedInv, TrackedSelfAlive, PendingWatched, Entries, Live, registerSlotConnection, RegisteredKey
<1>5. PendingWatched'
  BY DEF TrackedInv, TypeOK, PendingWatched, Live, registerSlotConnection, RegisteredKey
<1> QED
  BY <1>3, <1>4, <1>5 DEF TrackedInv

\* The death of a receiver: what borrowed it is cut and erased if it was in the
\* hash, and a thread about to register it would have kept it alive.
LEMMA DestroyObjectKeeps ==
  ASSUME NEW o \in Objects
  PROVE  TrackedInv /\ TypeOK' /\ DestroyObject(o) => TrackedInv'
<1> SUFFICES ASSUME TrackedInv, TypeOK', DestroyObject(o) PROVE TrackedInv'
  OBVIOUS
<1>1. \A c \in ConnIds : conns'[c] \in {conns[c], NoConn}
  BY DEF DestroyObject, Cut
<1>2. ASSUME NEW k \in ConnectionKey, connectionHash'[k] # NoConn
      PROVE  /\ connectionHash'[k] = connectionHash[k]
             /\ k \in Entries
             /\ o \in watched => k.object # o
  BY <1>2 DEF DestroyObject, Without, EntriesTo, Entries
<1>3. watched' = watched \ {o}
  BY DEF DestroyObject
<1>4. EntryLeadsHome'
  BY <1>1, <1>2 DEF TrackedInv, TypeOK, EntryLeadsHome, Entries, Live
<1>5. TrackedSelfAlive'
  <2> SUFFICES ASSUME NEW k \in ConnectionKey, connectionHash'[k] # NoConn,
                      Live(connectionHash[k])',
                      conns'[connectionHash'[k]].slot = "borrows"
               PROVE  k.object \in watched'
    BY DEF TrackedSelfAlive, Entries
  <2>1. /\ connectionHash'[k] = connectionHash[k] /\ k \in Entries
        /\ o \in watched => k.object # o
    BY <1>2
  <2>2. Live(connectionHash[k]) /\ conns[connectionHash[k]].slot = "borrows"
    BY <1>1, <2>1 DEF TrackedInv, TypeOK, Live
  <2>3. k.object \in watched
    BY <2>1, <2>2 DEF TrackedInv, TrackedSelfAlive
  <2> QED
    BY <1>3, <2>1, <2>3
<1>6. PendingWatched'
  <2> SUFFICES ASSUME NEW t \in Threads, Live(pending[t])',
                      conns'[pending'[t]].slot = "borrows"
               PROVE  conns'[pending'[t]].key.object \in watched'
    BY DEF PendingWatched
  <2>1. pending'[t] = pending[t] /\ pending[t] \in ConnIds
    BY DEF DestroyObject, TrackedInv, TypeOK, Live
  <2>2. Live(pending[t]) /\ conns'[pending[t]] = conns[pending[t]]
    BY <1>1, <2>1 DEF Live
  <2>3. conns[pending[t]].key.object # o
    BY <2>2 DEF DestroyObject, Referenced
  <2> QED
    BY <1>3, <2>1, <2>2, <2>3 DEF TrackedInv, PendingWatched
<1> QED
  BY <1>4, <1>5, <1>6 DEF TrackedInv

LEMMA TrackedStep == TrackedInv /\ [Next]_vars => TrackedInv'
<1> SUFFICES ASSUME TrackedInv, [Next]_vars PROVE TrackedInv'
  OBVIOUS
<1>0. TypeOK /\ TypeOK'
  BY TypeStep DEF TrackedInv
<1> USE DEF Cut, Without
<1>1. ASSUME NEW s \in Senders, NewSender(s) PROVE Shrinks
  BY <1>1 DEF NewSender, Shrinks
<1>2. ASSUME NEW s \in Senders, senderDestroyed(s) PROVE Shrinks
  BY <1>2 DEF senderDestroyed, Shrinks
<1>3. ASSUME NEW s \in Senders, DestroySender(s) PROVE Shrinks
  BY <1>3 DEF DestroySender, SenderGone, Shrinks
<1>4. ASSUME NEW s \in Senders, DestroySenderElsewhere(s) PROVE Shrinks
  BY <1>4 DEF DestroySenderElsewhere, SenderGone, Shrinks
<1>5. ASSUME NEW o \in Objects, NewObject(o) PROVE Shrinks
  BY <1>5 DEF NewObject, Shrinks
<1>6. ASSUME NEW t \in Threads, ConnectFailed(t) PROVE Shrinks
  BY <1>0, <1>6 DEF ConnectFailed, Shrinks, TypeOK
<1>7. ASSUME NEW c \in ConnIds, DisconnectConnection(c) PROVE Shrinks
  BY <1>7 DEF DisconnectConnection, Shrinks
<1>8. ASSUME NEW s \in Senders, NEW g \in Signals, DisconnectAll(s, g) PROVE Shrinks
  BY <1>8 DEF DisconnectAll, Shrinks
<1>9. ASSUME NEW s \in Senders, NEW g \in Signals, NEW cb \in Callbacks,
             disconnectSlot(s, g, cb)
      PROVE  Shrinks
  BY <1>9 DEF disconnectSlot, Shrinks
<1>10. ASSUME NEW s \in Senders, NEW g \in Signals, NEW cb \in Callbacks,
              DisconnectByIndex(s, g, cb)
       PROVE  Shrinks
  BY <1>10 DEF DisconnectByIndex, Shrinks
<1>11. ASSUME DestroyApplication \/ clearConnectionHash \/ UNCHANGED vars PROVE Shrinks
  BY <1>11 DEF DestroyApplication, clearConnectionHash, vars, Shrinks
<1>12. ASSUME NEW s \in Senders, NEW g \in Signals, NEW cb \in Callbacks,
              NEW t \in Threads, ConnectCallback(t, s, g, cb)
       PROVE  \E c, conn : Grows(c, conn)
  <2> DEFINE slot == IF cb.kind = "index" THEN "receiver" ELSE SlotOf(cb)
             conn == [key |-> connectionKey(s, g, cb), slot |-> slot, route |-> "callback"]
  <2>1. PICK c \in ConnIds : /\ Fresh(c)
                             /\ conns' = [conns EXCEPT ![c] = conn]
                             /\ pending' = [pending EXCEPT ![t] = c]
    BY <1>12 DEF ConnectCallback
  <2>2. conn.slot = "borrows" => conn.key.object \in watched'
    BY <1>12 DEF ConnectCallback, Watch, connectionKey
  <2>3. \A u \in Threads : pending'[u] \in {pending[u], c}
    BY <1>0, <2>1 DEF TypeOK
  <2> QED
    BY <1>12, <2>1, <2>2, <2>3 DEF Grows, ConnectCallback, Watch
<1>13. ASSUME NEW s \in Senders, NEW g \in Signals, NEW cb \in Callbacks,
              ConnectWithContext(s, g, cb)
       PROVE  \E c, conn : Grows(c, conn)
  <2> DEFINE conn == [key |-> connectionKey(s, g, cb), slot |-> SlotOf(cb), route |-> "context"]
  <2>1. PICK c \in ConnIds : Fresh(c) /\ conns' = [conns EXCEPT ![c] = conn]
    BY <1>13 DEF ConnectWithContext
  <2>2. conn.slot = "borrows" => conn.key.object \in watched'
    BY <1>13 DEF ConnectWithContext, Watch, connectionKey
  <2> QED
    BY <1>13, <2>1, <2>2 DEF Grows, ConnectWithContext, Watch
<1>14. ASSUME NEW s \in Senders, NEW g \in Signals, NEW cb \in Callbacks,
              ConnectByName(s, g, cb)
       PROVE  \E c, conn : Grows(c, conn)
  <2> DEFINE conn == [key |-> connectionKey(s, g, cb), slot |-> "receiver", route |-> "string"]
  <2>1. PICK c \in ConnIds : Fresh(c) /\ conns' = [conns EXCEPT ![c] = conn]
    BY <1>14 DEF ConnectByName
  <2> QED
    BY <1>14, <2>1 DEF Grows, ConnectByName
<1>15. Shrinks => TrackedInv'
  BY <1>0, ShrinkKeeps
<1>16. (\E c, conn : Grows(c, conn)) => TrackedInv'
  BY <1>0, GrowKeeps
<1>17. ASSUME NEW o \in Objects, DestroyObject(o) PROVE TrackedInv'
  BY <1>0, <1>17, DestroyObjectKeeps
<1>18. ASSUME NEW t \in Threads, registerSlotConnection(t) PROVE TrackedInv'
  BY <1>0, <1>18, RegisterKeeps
<1> QED
  BY <1>1, <1>2, <1>3, <1>4, <1>5, <1>6, <1>7, <1>8, <1>9, <1>10, <1>11, <1>12,
     <1>13, <1>14, <1>15, <1>16, <1>17, <1>18 DEF Next

LEMMA TrackedInit == Init => TrackedInv
<1> SUFFICES ASSUME Init PROVE TrackedInv
  OBVIOUS
<1>1. Entries = {}
  BY DEF Init, Entries
<1>2. PendingWatched
  BY DEF Init, PendingWatched, Live
<1> QED
  BY TypeInit, <1>1, <1>2 DEF TrackedInv, EntryLeadsHome, TrackedSelfAlive

LEMMA TrackedAlways == Spec => []TrackedInv
BY TrackedInit, TrackedStep, PTL DEF Spec

\* What the hash tracks never calls a method on a dead self, for any program.
THEOREM TrackedSafe == Spec => []TrackedSelfAlive
<1>1. TrackedInv => TrackedSelfAlive
  BY DEF TrackedInv
<1> QED
  BY TrackedAlways, <1>1, PTL

\* An entry never leads to a connection made for another key.
THEOREM EntriesLeadHome == Spec => []EntryLeadsHome
<1>1. TrackedInv => EntryLeadsHome
  BY DEF TrackedInv
<1> QED
  BY TrackedAlways, <1>1, PTL

-----------------------------------------------------------------------------
(* The hash and the senders *)

\* A step that makes no entry and forgets no sender.
Forgetful ==
  /\ Entries' \subseteq Entries
  /\ tracked \subseteq tracked'
  /\ \A s \in Senders : queued[s] > 0 => queued'[s] > 0

\* The death of a sender leaves its entries to the tracker: erased at once, or
\* with the event that is posted.
LEMMA SenderDeathIsKnown ==
  ASSUME TypeOK, EntrySendersKnown, NEW s \in Senders,
         DestroySender(s) \/ DestroySenderElsewhere(s)
  PROVE  EntrySendersKnown'
<1>1. tracked' = tracked \ {s}
  BY DEF DestroySender, DestroySenderElsewhere, SenderGone
<1>2. CASE DestroySender(s)
  <2> SUFFICES ASSUME NEW k \in ConnectionKey, connectionHash'[k] # NoConn
               PROVE  k.sender \in tracked' \/ queued'[k.sender] > 0
    BY DEF EntrySendersKnown, Entries
  <2>1. k \in Entries /\ (s \in tracked => k.sender # s)
    BY <1>2 DEF DestroySender, Without, EntriesOf, Entries
  <2>2. k.sender \in tracked \/ queued[k.sender] > 0
    BY <2>1 DEF EntrySendersKnown
  <2>3. queued' = queued
    BY <1>2 DEF DestroySender
  <2> QED
    BY <1>1, <2>1, <2>2, <2>3
<1>3. CASE DestroySenderElsewhere(s)
  <2>1. /\ Entries' = Entries
        /\ queued' = [queued EXCEPT ![s] = @ + 1]
    BY <1>3 DEF DestroySenderElsewhere, Entries
  <2>2. queued'[s] > 0 /\ \A r \in Senders : queued[r] > 0 => queued'[r] > 0
    BY <2>1 DEF TypeOK
  <2>3. \A k \in Entries : k.sender \in Senders
    BY DEF Entries, ConnectionKey
  <2> QED
    BY <1>1, <2>1, <2>2, <2>3 DEF EntrySendersKnown
<1> QED
  BY <1>2, <1>3

\* The event of a dead sender is consumed together with the sender's entries.
LEMMA EventErases ==
  ASSUME TypeOK, EntrySendersKnown, NEW s \in Senders, senderDestroyed(s)
  PROVE  EntrySendersKnown'
<1> SUFFICES ASSUME NEW k \in ConnectionKey, connectionHash'[k] # NoConn
             PROVE  k.sender \in tracked' \/ queued'[k.sender] > 0
  BY DEF EntrySendersKnown, Entries
<1>1. k \in Entries /\ k.sender # s /\ k.sender \in Senders
  BY DEF senderDestroyed, Without, EntriesOf, Entries, ConnectionKey
<1>2. queued'[k.sender] = queued[k.sender] /\ tracked' = tracked
  BY <1>1 DEF senderDestroyed, TypeOK
<1> QED
  BY <1>1, <1>2 DEF EntrySendersKnown

LEMMA KnownStep ==
  ASSUME ~AppRestarts, TypeOK, EntrySendersKnown, [Next]_vars
  PROVE  EntrySendersKnown'
<1>1. Forgetful => EntrySendersKnown'
  BY DEF Forgetful, EntrySendersKnown, Entries, ConnectionKey
<1>2. ASSUME NEW s \in Senders, NewSender(s) PROVE Forgetful
  BY <1>2 DEF NewSender, Forgetful, Entries
<1>3. ASSUME NEW s \in Senders, DestroySender(s) \/ DestroySenderElsewhere(s)
      PROVE  EntrySendersKnown'
  BY <1>3, SenderDeathIsKnown
<1>4. ASSUME NEW s \in Senders, senderDestroyed(s) PROVE EntrySendersKnown'
  BY <1>4, EventErases
<1>5. ASSUME NEW o \in Objects, NewObject(o) PROVE Forgetful
  BY <1>5 DEF NewObject, Forgetful, Entries
<1>6. ASSUME NEW o \in Objects, DestroyObject(o) PROVE Forgetful
  BY <1>6 DEF DestroyObject, Without, Forgetful, Entries
<1>7. ASSUME NEW t \in Threads, registerSlotConnection(t) PROVE EntrySendersKnown'
  <2> PICK key : key = conns[pending[t]].key
    OBVIOUS
  <2>1. /\ connectionHash' = [connectionHash EXCEPT ![key] = pending[t]]
        /\ tracked' = tracked \cup {key.sender}
        /\ queued' = queued
    BY <1>7 DEF registerSlotConnection, RegisteredKey
  <2>2. \A k \in ConnectionKey : k = key \/ connectionHash'[k] = connectionHash[k]
    BY <2>1 DEF TypeOK
  <2> QED
    BY <2>1, <2>2 DEF EntrySendersKnown, Entries
<1>8. ASSUME NEW t \in Threads, ConnectFailed(t) PROVE Forgetful
  BY <1>8 DEF ConnectFailed, Forgetful, Entries
<1>9. ASSUME NEW c \in ConnIds, DisconnectConnection(c) PROVE Forgetful
  BY <1>9 DEF DisconnectConnection, Forgetful, Entries
<1>10. ASSUME NEW s \in Senders, NEW g \in Signals, DisconnectAll(s, g) PROVE Forgetful
  BY <1>10 DEF DisconnectAll, Forgetful, Entries
<1>11. ASSUME NEW s \in Senders, NEW g \in Signals, NEW cb \in Callbacks,
              \/ \E t \in Threads : ConnectCallback(t, s, g, cb)
              \/ ConnectWithContext(s, g, cb)
              \/ ConnectByName(s, g, cb)
              \/ DisconnectByIndex(s, g, cb)
       PROVE  Forgetful
  BY <1>11 DEF ConnectCallback, ConnectWithContext, ConnectByName, DisconnectByIndex,
               Forgetful, Entries
<1>12. ASSUME NEW s \in Senders, NEW g \in Signals, NEW cb \in Callbacks,
              disconnectSlot(s, g, cb)
       PROVE  Forgetful
  BY <1>12 DEF disconnectSlot, Without, Forgetful, Entries
<1>13. ~DestroyApplication
  BY DEF DestroyApplication
<1>14. CASE clearConnectionHash
  BY <1>14 DEF clearConnectionHash, Without, EntrySendersKnown, Entries
<1>15. CASE UNCHANGED vars
  BY <1>15 DEF vars, EntrySendersKnown, Entries
<1> QED
  BY <1>1, <1>2, <1>3, <1>4, <1>5, <1>6, <1>7, <1>8, <1>9, <1>10, <1>11, <1>12,
     <1>13, <1>14, <1>15 DEF Next

\* As long as the program keeps its application (with it the tracker would go and
\* the entries would stay), every entry of the hash has a sender that the tracker
\* listens to, or the event that will erase it is on its way.
THEOREM SendersAreKnown ==
  ASSUME ~AppRestarts
  PROVE  Spec => []EntrySendersKnown
<1>1. Init => EntrySendersKnown
  BY DEF Init, EntrySendersKnown, Entries
<1>2. TypeOK /\ EntrySendersKnown /\ [Next]_vars => EntrySendersKnown'
  BY KnownStep
<1> QED
  BY <1>1, <1>2, TypeCorrect, PTL DEF Spec


-----------------------------------------------------------------------------
(* Disciplined programs *)

\* A program that connects a callable to a signal at most once at a time, uses
\* no context objects and destroys senders in the tracker's thread.
Disciplined == ~Repeats /\ ~Contexts /\ ~CrossThread

\* Live connections have the key they were made for to themselves, and what
\* is not made from a callable has no slot object.
OneConnectionPerKey ==
  /\ \A c \in ConnIds : Live(c) =>
       /\ conns[c].route # "context"
       /\ conns[c].route = "string" => conns[c].slot = "receiver"
  /\ \A c, d \in ConnIds :
       /\ Live(c) /\ conns[c].route = "callback"
       /\ Live(d) /\ conns[d].route = "callback"
       /\ conns[c].key = conns[d].key
       => c = d

\* Threads register connections they made from a callable.
OnlyCallbacksPending ==
  \A t \in Threads : Live(pending[t]) => conns[pending[t]].route = "callback"

NothingQueued == \A s \in Senders : queued[s] = 0

DisciplinedInv ==
  /\ TrackedInv
  /\ OneConnectionPerKey
  /\ OnlyCallbacksPending
  /\ NothingQueued
  /\ LiveConnectionsTracked

\* What all steps but the connecting ones do: a connection that survives keeps
\* its entry and its thread, unless Python ends.
Spares ==
  /\ \A c \in ConnIds : conns'[c] \in {conns[c], NoConn}
  /\ \A c \in ConnIds : running' /\ conns'[c] # NoConn /\ conns[c].route # "string" =>
       /\ InHash(c) => connectionHash'[conns[c].key] = c
       /\ \A t \in Threads : pending[t] = c => pending'[t] = c
  /\ running' => running
  /\ \A t \in Threads : pending'[t] \in {pending[t], NoConn}
  /\ \A s \in Senders : queued'[s] = queued[s] \/ queued'[s] = 0

LEMMA SpareKeeps ==
  DisciplinedInv /\ TrackedInv' /\ Spares => DisciplinedInv'
<1> SUFFICES ASSUME DisciplinedInv, TrackedInv', Spares PROVE DisciplinedInv'
  OBVIOUS
<1>1. ASSUME NEW c \in ConnIds, Live(c)'
      PROVE  Live(c) /\ conns'[c] = conns[c]
  BY <1>1 DEF Spares, Live
<1>2. OneConnectionPerKey'
  BY <1>1 DEF DisciplinedInv, OneConnectionPerKey
<1>3. NothingQueued'
  BY DEF DisciplinedInv, NothingQueued, Spares
<1>5. OnlyCallbacksPending'
  <2> SUFFICES ASSUME NEW t \in Threads, Live(pending[t])'
               PROVE  conns'[pending'[t]].route = "callback"
    BY DEF OnlyCallbacksPending
  <2>1. pending'[t] = pending[t] /\ pending[t] \in ConnIds
    BY DEF Spares, Live, DisciplinedInv, TrackedInv, TypeOK
  <2>2. Live(pending[t]) /\ conns'[pending[t]] = conns[pending[t]]
    BY <1>1, <2>1
  <2> QED
    BY <2>1, <2>2 DEF DisciplinedInv, OnlyCallbacksPending
<1>4. LiveConnectionsTracked'
  <2> SUFFICES ASSUME running', NEW c \in ConnIds, Live(c)', conns'[c].route # "string"
               PROVE  InHash(c)' \/ BeingRegistered(c)'
    BY DEF LiveConnectionsTracked
  <2>1. Live(c) /\ conns'[c] = conns[c] /\ running
    BY <1>1 DEF Spares
  <2>2. InHash(c) \/ BeingRegistered(c)
    BY <2>1 DEF DisciplinedInv, LiveConnectionsTracked
  <2>3. InHash(c) => InHash(c)'
    BY <2>1 DEF Spares, InHash, Live
  <2>4. BeingRegistered(c) => BeingRegistered(c)'
    BY <2>1 DEF Spares, BeingRegistered, Live
  <2> QED
    BY <2>2, <2>3, <2>4
<1> QED
  BY <1>2, <1>3, <1>4, <1>5 DEF DisciplinedInv

\* The first half of a connect: the new connection has its key to itself and
\* the thread that made it.
LEMMA ConnectKeeps ==
  ASSUME ~Repeats, NEW s \in Senders, NEW g \in Signals, NEW cb \in Callbacks, NEW t \in Threads
  PROVE  DisciplinedInv /\ TrackedInv' /\ ConnectCallback(t, s, g, cb) => DisciplinedInv'
<1> SUFFICES ASSUME DisciplinedInv, TrackedInv', ConnectCallback(t, s, g, cb)
             PROVE  DisciplinedInv'
  OBVIOUS
<1> DEFINE slot == IF cb.kind = "index" THEN "receiver" ELSE SlotOf(cb)
           conn == [key |-> connectionKey(s, g, cb), slot |-> slot, route |-> "callback"]
<1>0. TypeOK
  BY DEF DisciplinedInv, TrackedInv
<1>1. PICK c \in ConnIds : /\ Fresh(c)
                           /\ conns' = [conns EXCEPT ![c] = conn]
                           /\ pending' = [pending EXCEPT ![t] = c]
  BY DEF ConnectCallback
<1>2. conns'[c] = conn /\ \A d \in ConnIds : d # c => conns'[d] = conns[d]
  BY <1>0, <1>1 DEF TypeOK
<1>3. ASSUME NEW d \in ConnIds, Live(d), conns[d].route = "callback"
      PROVE  conns[d].key # conn.key
  BY <1>3 DEF ConnectCallback, FirstTime
<1>4. OneConnectionPerKey'
  <2>1. conn.route = "callback"
    OBVIOUS
  <2> HIDE DEF conn
  <2> QED
    BY <1>2, <1>3, <2>1 DEF DisciplinedInv, OneConnectionPerKey, Live
<1>5. NothingQueued'
  BY DEF DisciplinedInv, NothingQueued, ConnectCallback
<1>6. LiveConnectionsTracked'
  <2>1. BeingRegistered(c)'
    BY <1>0, <1>1 DEF TypeOK, BeingRegistered
  <2>2. ASSUME NEW d \in ConnIds, d # c, Live(d), conns[d].route # "string", running
        PROVE  InHash(d)' \/ BeingRegistered(d)'
    <3>1. InHash(d) \/ BeingRegistered(d)
      BY <2>2 DEF DisciplinedInv, LiveConnectionsTracked
    <3>2. InHash(d) => InHash(d)'
      BY <1>2, <2>2 DEF InHash, ConnectCallback
    <3>3. BeingRegistered(d) => BeingRegistered(d)'
      BY <1>0, <1>1, <2>2 DEF BeingRegistered, TypeOK, ConnectCallback, Live
    <3> QED
      BY <3>1, <3>2, <3>3
  <2> QED
    BY <1>2, <2>1, <2>2 DEF LiveConnectionsTracked, Live, ConnectCallback
<1>7. OnlyCallbacksPending'
  <2> SUFFICES ASSUME NEW u \in Threads, Live(pending[u])'
               PROVE  conns'[pending'[u]].route = "callback"
    BY DEF OnlyCallbacksPending
  <2>1. pending'[u] = c \/ (pending'[u] = pending[u] /\ pending[u] \in ConnIds)
    BY <1>0, <1>1 DEF TypeOK, Live
  <2>2. CASE pending'[u] = c
    BY <1>2, <2>2
  <2>3. CASE pending'[u] = pending[u] /\ pending[u] \in ConnIds /\ pending[u] # c
    BY <1>2, <2>3 DEF DisciplinedInv, OnlyCallbacksPending, Live
  <2> QED
    BY <2>1, <2>2, <2>3
<1> QED
  BY <1>4, <1>5, <1>6, <1>7 DEF DisciplinedInv

\* The second half: the entry replaced, if any, led to no live connection.
LEMMA RegisterTracks ==
  ASSUME NEW t \in Threads
  PROVE  DisciplinedInv /\ TrackedInv' /\ registerSlotConnection(t) => DisciplinedInv'
<1> SUFFICES ASSUME DisciplinedInv, TrackedInv', registerSlotConnection(t)
             PROVE  DisciplinedInv'
  OBVIOUS
<1> DEFINE c == pending[t]
<1>0. TypeOK
  BY DEF DisciplinedInv, TrackedInv
<1>1. Live(c) /\ c \in ConnIds /\ conns[c] \in Connection /\ conns[c].key \in ConnectionKey
  BY <1>0 DEF TypeOK, registerSlotConnection, RegisteredKey, Live, Connection
<1>2. /\ connectionHash'[conns[c].key] = c
      /\ \A k \in ConnectionKey : k # conns[c].key => connectionHash'[k] = connectionHash[k]
  BY <1>0, <1>1 DEF TypeOK, registerSlotConnection, RegisteredKey
<1>3. UNCHANGED <<conns, queued, running>> /\ running
  BY DEF registerSlotConnection, RegisteredKey
<1>4. OneConnectionPerKey' /\ NothingQueued'
  BY <1>3 DEF DisciplinedInv, OneConnectionPerKey, NothingQueued, Live
<1>5. LiveConnectionsTracked'
  <2> SUFFICES ASSUME NEW d \in ConnIds, Live(d), conns[d].route # "string"
               PROVE  InHash(d)' \/ BeingRegistered(d)'
    BY <1>3 DEF LiveConnectionsTracked, Live
  <2>1. InHash(d) \/ BeingRegistered(d)
    BY <1>3 DEF DisciplinedInv, LiveConnectionsTracked
  <2>2. CASE d = c
    BY <1>2, <1>3, <2>2 DEF InHash
  <2>3. CASE d # c /\ BeingRegistered(d)
    BY <1>0, <2>3 DEF BeingRegistered, TypeOK, registerSlotConnection, RegisteredKey
  <2>4. CASE d # c /\ InHash(d)
    <3>1. conns[d] \in Connection /\ conns[d].key \in ConnectionKey
      BY <1>0 DEF TypeOK, Live, Connection
    <3>2. CASE conns[d].key # conns[c].key
      BY <1>2, <1>3, <2>4, <3>1, <3>2 DEF InHash
    <3>3. CASE conns[d].key = conns[c].key /\ conns[c].route # "string"
      <4>1. conns[c].route = "callback" /\ conns[d].route = "callback"
        BY <1>1, <3>1, <3>3 DEF DisciplinedInv, OneConnectionPerKey, Connection, Routes
      <4> QED
        BY <1>1, <2>4, <3>3, <4>1 DEF DisciplinedInv, OneConnectionPerKey
    <3>4. CASE conns[c].route = "string"
      BY <1>1, <3>4, "callback" # "string" DEF DisciplinedInv, OnlyCallbacksPending
    <3> QED
      BY <3>2, <3>3, <3>4
  <2> QED
    BY <2>1, <2>2, <2>3, <2>4
<1>6. OnlyCallbacksPending'
  BY <1>0, <1>3 DEF TypeOK, DisciplinedInv, OnlyCallbacksPending, Live, registerSlotConnection, RegisteredKey
<1> QED
  BY <1>4, <1>5, <1>6 DEF DisciplinedInv


\* A connection by name takes no place in the hash and needs none.
LEMMA ConnectByNameKeeps ==
  ASSUME NEW s \in Senders, NEW g \in Signals, NEW cb \in Callbacks
  PROVE  DisciplinedInv /\ TrackedInv' /\ ConnectByName(s, g, cb) => DisciplinedInv'
<1> SUFFICES ASSUME DisciplinedInv, TrackedInv', ConnectByName(s, g, cb)
             PROVE  DisciplinedInv'
  OBVIOUS
<1> DEFINE conn == [key |-> connectionKey(s, g, cb), slot |-> "receiver", route |-> "string"]
<1>0. TypeOK
  BY DEF DisciplinedInv, TrackedInv
<1>1. PICK c \in ConnIds : Fresh(c) /\ conns' = [conns EXCEPT ![c] = conn]
  BY DEF ConnectByName
<1>2. conns'[c] = conn /\ \A d \in ConnIds : d # c => conns'[d] = conns[d]
  BY <1>0, <1>1 DEF TypeOK
<1>3. conn.route = "string" /\ conn.slot = "receiver"
  OBVIOUS
<1>4. UNCHANGED <<connectionHash, pending, queued, running>>
  BY DEF ConnectByName
<1> HIDE DEF conn
<1>5. OneConnectionPerKey'
  BY <1>2, <1>3 DEF DisciplinedInv, OneConnectionPerKey, Live
<1>6. OnlyCallbacksPending'
  BY <1>0, <1>1, <1>2, <1>4 DEF DisciplinedInv, OnlyCallbacksPending, Live, Fresh, TypeOK
<1>7. NothingQueued'
  BY <1>4 DEF DisciplinedInv, NothingQueued
<1>8. LiveConnectionsTracked'
  BY <1>2, <1>3, <1>4 DEF DisciplinedInv, LiveConnectionsTracked, Live, InHash, BeingRegistered
<1> QED
  BY <1>5, <1>6, <1>7, <1>8 DEF DisciplinedInv

LEMMA DisciplinedStep ==
  ASSUME Disciplined
  PROVE  DisciplinedInv /\ [Next]_vars => DisciplinedInv'
<1> SUFFICES ASSUME DisciplinedInv, [Next]_vars PROVE DisciplinedInv'
  OBVIOUS
<1>0. TypeOK /\ TrackedInv'
  BY TrackedStep DEF DisciplinedInv, TrackedInv
<1> USE DEF Cut, Without
<1>1. ASSUME NEW s \in Senders, NewSender(s) PROVE Spares
  BY <1>1 DEF NewSender, Spares, InHash
<1>2. ASSUME NEW s \in Senders, senderDestroyed(s) PROVE FALSE
  BY <1>2 DEF senderDestroyed, DisciplinedInv, NothingQueued
<1>3. ASSUME NEW s \in Senders, DestroySender(s) PROVE Spares
  <2>1. \A c \in ConnIds : conns'[c] # NoConn =>
          conns[c] # NoConn /\ c # NoConn /\ conns[c].key.sender # s
    BY <1>3 DEF DestroySender, SenderGone, Live
  <2>2. \A c \in ConnIds : conns[c] # NoConn => conns[c].key \in ConnectionKey
    BY <1>0 DEF TypeOK, Connection
  <2> QED
    BY <1>3, <2>1, <2>2 DEF DestroySender, SenderGone, EntriesOf, Spares, InHash
<1>4. ASSUME NEW s \in Senders, DestroySenderElsewhere(s) PROVE FALSE
  BY <1>4 DEF DestroySenderElsewhere, Disciplined
<1>5. ASSUME NEW o \in Objects, NewObject(o) PROVE Spares
  BY <1>5 DEF NewObject, Spares, InHash
<1>6. ASSUME NEW o \in Objects, DestroyObject(o) PROVE Spares
  <2>1. \A c \in ConnIds : conns[c] # NoConn => conns[c].key \in ConnectionKey
    BY <1>0 DEF TypeOK, Connection
  <2>2. ASSUME NEW c \in ConnIds, conns'[c] # NoConn, InHash(c)
        PROVE  connectionHash'[conns[c].key] = c
    BY <1>6, <2>1, <2>2 DEF DestroyObject, EntriesTo, Entries, InHash
  <2> QED
    BY <1>6, <2>2 DEF DestroyObject, Spares
<1>7. ASSUME NEW t \in Threads, ConnectFailed(t) PROVE Spares
  BY <1>0, <1>7 DEF ConnectFailed, Spares, TypeOK, InHash, Live
<1>8. ASSUME NEW c \in ConnIds, DisconnectConnection(c) PROVE Spares
  BY <1>8 DEF DisconnectConnection, Spares, InHash
<1>9. ASSUME NEW s \in Senders, NEW g \in Signals, DisconnectAll(s, g) PROVE Spares
  BY <1>9 DEF DisconnectAll, Spares, InHash
<1>10. ASSUME NEW s \in Senders, NEW g \in Signals, NEW cb \in Callbacks,
              disconnectSlot(s, g, cb)
       PROVE  Spares
  <2>1. \A c \in ConnIds : conns[c] # NoConn => conns[c].key \in ConnectionKey
    BY <1>0 DEF TypeOK, Connection
  <2>2. ASSUME NEW c \in ConnIds, conns'[c] # NoConn, InHash(c)
        PROVE  connectionHash'[conns[c].key] = c
    BY <1>10, <2>1, <2>2 DEF disconnectSlot, InHash
  <2> QED
    BY <1>10, <2>2 DEF disconnectSlot, Spares
<1>11. ASSUME NEW s \in Senders, NEW g \in Signals, NEW cb \in Callbacks,
              DisconnectByIndex(s, g, cb)
       PROVE  Spares
  BY <1>11 DEF DisconnectByIndex, Spares, InHash
<1>12. ASSUME DestroyApplication \/ clearConnectionHash \/ UNCHANGED vars PROVE Spares
  BY <1>12 DEF DestroyApplication, clearConnectionHash, vars, Spares, InHash
<1>13. ASSUME NEW s \in Senders, NEW g \in Signals, NEW cb \in Callbacks,
              ConnectWithContext(s, g, cb)
       PROVE  FALSE
  BY <1>13 DEF ConnectWithContext, Disciplined
<1>14. ASSUME NEW s \in Senders, NEW g \in Signals, NEW cb \in Callbacks,
              ConnectByName(s, g, cb)
       PROVE  DisciplinedInv'
  BY <1>0, <1>14, ConnectByNameKeeps
<1>15. ASSUME NEW s \in Senders, NEW g \in Signals, NEW cb \in Callbacks,
              NEW t \in Threads, ConnectCallback(t, s, g, cb)
       PROVE  DisciplinedInv'
  BY <1>0, <1>15, ConnectKeeps DEF Disciplined
<1>16. ASSUME NEW t \in Threads, registerSlotConnection(t) PROVE DisciplinedInv'
  BY <1>0, <1>16, RegisterTracks
<1>17. Spares => DisciplinedInv'
  BY <1>0, SpareKeeps
<1> QED
  BY <1>1, <1>2, <1>3, <1>4, <1>5, <1>6, <1>7, <1>8, <1>9, <1>10, <1>11, <1>12,
     <1>13, <1>14, <1>15, <1>16, <1>17 DEF Next

LEMMA DisciplinedInit == Init => DisciplinedInv
<1> SUFFICES ASSUME Init PROVE DisciplinedInv
  OBVIOUS
<1>1. \A c \in ConnIds : ~Live(c)
  BY DEF Init, Live
<1>2. \A t \in Threads : ~Live(pending[t])
  BY DEF Init, Live
<1>3. NothingQueued
  BY DEF Init, NothingQueued
<1> QED
  BY TrackedInit, <1>1, <1>2, <1>3
  DEF DisciplinedInv, OneConnectionPerKey, OnlyCallbacksPending, LiveConnectionsTracked

\* In a disciplined program every connection made from a callable is in the
\* hash, or about to be: disconnect() and the receiver's death will find it.
THEOREM ConnectionsTracked ==
  ASSUME Disciplined
  PROVE  Spec => []LiveConnectionsTracked
<1>1. Init => DisciplinedInv
  BY DisciplinedInit
<1>2. DisciplinedInv /\ [Next]_vars => DisciplinedInv'
  BY DisciplinedStep
<1>3. DisciplinedInv => LiveConnectionsTracked
  BY DEF DisciplinedInv
<1> QED
  BY <1>1, <1>2, <1>3, PTL DEF Spec

-----------------------------------------------------------------------------
(* No dangling self *)

\* While Python runs the hash is enough: a borrowed self is that of a tracked
\* connection, which is alive, or of one a thread is registering.
LEMMA TrackedDoNotDangle == DisciplinedInv /\ running => NoDanglingSelf
<1> SUFFICES ASSUME DisciplinedInv, running, NEW c \in ConnIds, Live(c),
                    conns[c].slot = "borrows"
             PROVE  conns[c].key.object \in objects
  BY DEF NoDanglingSelf
<1>1. conns[c].route # "string" /\ conns[c].key \in ConnectionKey
  BY DEF DisciplinedInv, OneConnectionPerKey, TrackedInv, TypeOK, Live, Connection
<1>2. CASE InHash(c)
  <2>1. conns[c].key \in Entries /\ connectionHash[conns[c].key] = c
    BY <1>1, <1>2 DEF InHash, Entries, Live
  <2> QED
    BY <2>1 DEF DisciplinedInv, TrackedInv, TrackedSelfAlive, TypeOK
<1>3. CASE BeingRegistered(c)
  BY <1>3 DEF BeingRegistered, DisciplinedInv, TrackedInv, PendingWatched, TypeOK
<1> QED
  BY <1>1, <1>2, <1>3 DEF DisciplinedInv, LiveConnectionsTracked

\* Once Python has ended no receiver dies and no connection is made from Python.
LEMMA NothingDanglesAtExit == ~running' /\ NoDanglingSelf /\ [Next]_vars => NoDanglingSelf'
<1> SUFFICES ASSUME ~running', NoDanglingSelf, [Next]_vars PROVE NoDanglingSelf'
  OBVIOUS
<1> DEFINE Quiet == objects' = objects /\ \A c \in ConnIds : conns'[c] \in {conns[c], NoConn}
<1>1. ASSUME NEW s \in Senders,
             \/ NewSender(s) \/ DestroySender(s)
             \/ DestroySenderElsewhere(s) \/ senderDestroyed(s)
      PROVE  Quiet
  BY <1>1 DEF NewSender, DestroySender, DestroySenderElsewhere, SenderGone, senderDestroyed, Cut
<1>2. ASSUME NEW o \in Objects, NewObject(o) \/ DestroyObject(o) PROVE Quiet
  BY <1>2 DEF NewObject, DestroyObject
<1>3. ASSUME NEW t \in Threads, registerSlotConnection(t) \/ ConnectFailed(t) PROVE Quiet
  BY <1>3 DEF registerSlotConnection, RegisteredKey, ConnectFailed
<1>4. ASSUME NEW c \in ConnIds, DisconnectConnection(c) PROVE Quiet
  BY <1>4 DEF DisconnectConnection, Cut
<1>5. ASSUME NEW s \in Senders, NEW g \in Signals, DisconnectAll(s, g) PROVE Quiet
  BY <1>5 DEF DisconnectAll, Cut
<1>6. ASSUME NEW s \in Senders, NEW g \in Signals, NEW cb \in Callbacks,
             \/ \E t \in Threads : ConnectCallback(t, s, g, cb)
             \/ ConnectWithContext(s, g, cb)
             \/ ConnectByName(s, g, cb)
             \/ disconnectSlot(s, g, cb)
             \/ DisconnectByIndex(s, g, cb)
      PROVE  Quiet
  BY <1>6 DEF ConnectCallback, ConnectWithContext, ConnectByName, disconnectSlot,
              DisconnectByIndex
<1>7. ASSUME DestroyApplication \/ clearConnectionHash \/ UNCHANGED vars PROVE Quiet
  BY <1>7 DEF DestroyApplication, clearConnectionHash, vars
<1>8. Quiet
  BY <1>1, <1>2, <1>3, <1>4, <1>5, <1>6, <1>7 DEF Next
<1> QED
  BY <1>8 DEF NoDanglingSelf, Live

\* In a disciplined program no connection can call a method on a dead self.
THEOREM SelfNeverDangles ==
  ASSUME Disciplined
  PROVE  Spec => []NoDanglingSelf
<1> DEFINE Inv == DisciplinedInv /\ NoDanglingSelf
<1>0. (DisciplinedInv /\ running => NoDanglingSelf)'
  BY TrackedDoNotDangle, PTL
<1>1. Init => Inv
  BY DisciplinedInit DEF Init, NoDanglingSelf, Live
<1>2. Inv /\ [Next]_vars => Inv'
  <2> SUFFICES ASSUME Inv, [Next]_vars PROVE Inv'
    OBVIOUS
  <2>1. DisciplinedInv'
    BY DisciplinedStep
  <2>2. CASE running'
    BY <2>1, <2>2, <1>0
  <2>3. CASE ~running'
    BY <2>1, <2>3, NothingDanglesAtExit
  <2> QED
    BY <2>2, <2>3
<1>3. Inv => NoDanglingSelf
  OBVIOUS
<1> HIDE DEF Inv
<1> QED
  BY <1>1, <1>2, <1>3, PTL DEF Spec

-----------------------------------------------------------------------------
(* The registry *)

\* A link stands for a live connection and has its ends.
LEMMA LinkTypes ==
  TypeOK => \A c \in ConnIds :
    /\ Links[c] # NoConn <=> Live(c)
    /\ Live(c) => /\ Links[c].from = conns[c].key.sender
                  /\ Links[c].to = conns[c].key.object
                  /\ conns[c].key.sender \in Senders
                  /\ conns[c].key.object \in Objects \cup {NoObject}
<1> SUFFICES ASSUME TypeOK, NEW c \in ConnIds
             PROVE  /\ Links[c] # NoConn <=> Live(c)
                    /\ Live(c) => /\ Links[c].from = conns[c].key.sender
                                  /\ Links[c].to = conns[c].key.object
                                  /\ conns[c].key.sender \in Senders
                                  /\ conns[c].key.object \in Objects \cup {NoObject}
  OBVIOUS
<1>1. CASE ~Live(c)
  BY <1>1 DEF Links
<1>2. CASE Live(c)
  <2>1. conns[c] \in Connection
    BY <1>2 DEF TypeOK, Live
  <2>2. /\ conns[c].key.sender \in Senders
        /\ conns[c].key.object \in Objects \cup {NoObject}
    BY <2>1 DEF Connection, ConnectionKey
  <2>3. Links[c] = [from |-> conns[c].key.sender, to |-> conns[c].key.object]
    BY <1>2 DEF Links
  <2>4. Links[c] # NoConn
    BY <2>2, <2>3, EndsAssumption
  <2> QED
    BY <1>2, <2>2, <2>3, <2>4
<1> QED
  BY <1>1, <1>2

\* Cutting connections removes their links.
LEMMA CutRemoves ==
  ASSUME NEW is, \A c \in ConnIds : conns'[c] = IF c \in is THEN NoConn ELSE conns[c]
  PROVE  Registry!Remove(is)
BY DEF Registry!Remove, Links, Live

\* A disconnection cuts connections of one sender, perhaps none.
LEMMA DisconnectionMaps ==
  ASSUME TypeOK, NEW s \in Senders, NEW cs,
         \A c \in cs : Live(c) /\ c \in ConnIds => conns[c].key.sender = s,
         conns' = Cut(cs), UNCHANGED <<senders, objects>>
  PROVE  Registry!Next
<1> DEFINE is == {c \in ConnIds : c \in cs /\ Live(c)}
<1>1. \A c \in ConnIds : conns'[c] = IF c \in is THEN NoConn ELSE conns[c]
  BY DEF Cut, Live
<1>2. Registry!Remove(is)
  BY <1>1, CutRemoves
<1>3. \A i \in is : Registry!Exists(i) /\ Links[i].from = s
  BY LinkTypes DEF Registry!Exists
<1>4. Registry!Disconnect(s, is)
  BY <1>2, <1>3 DEF Registry!Disconnect
<1> QED
  BY <1>4 DEF Registry!Next

\* The death of a sender takes its links.
LEMMA SenderDeathMaps ==
  ASSUME TypeOK, NEW s \in Senders, SenderGone(s), UNCHANGED objects
  PROVE  Registry!Next
<1> DEFINE is == {i \in ConnIds : Registry!Exists(i) /\ s \in {Links[i].from, Links[i].to}}
<1>1. ASSUME NEW c \in ConnIds
      PROVE  c \in is <=> Live(c) /\ conns[c].key.sender = s
  BY LinkTypes, EndsAssumption DEF Registry!Exists
<1>2. \A c \in ConnIds : conns'[c] = IF c \in is THEN NoConn ELSE conns[c]
  BY <1>1 DEF SenderGone, Cut
<1>3. Registry!Remove(is)
  BY <1>2, CutRemoves
<1>4. /\ s \in senders \cup objects \cup {NoObject}
      /\ (senders \cup objects \cup {NoObject})' = (senders \cup objects \cup {NoObject}) \ {s}
  BY EndsAssumption DEF SenderGone, TypeOK
<1>5. Registry!Die(s)
  BY <1>3, <1>4 DEF Registry!Die
<1> QED
  BY <1>5 DEF Registry!Next

\* The death of a receiver takes its links: Qt cuts those by index, the sweep
\* those that borrow it, which are all in the hash, and nothing else.
LEMMA ReceiverDeathMaps ==
  ASSUME DisciplinedInv, NEW o \in Objects, DestroyObject(o)
  PROVE  Registry!Next
<1> DEFINE is == {i \in ConnIds : Registry!Exists(i) /\ o \in {Links[i].from, Links[i].to}}
           swept == IF o \in watched THEN EntriesTo(o) ELSE {}
           byQt == {c \in ConnIds :
                      Live(c) /\ conns[c].slot = "receiver" /\ conns[c].key.object = o}
           gone == {connectionHash[k] : k \in swept} \cup byQt
<1>0. TypeOK /\ running /\ ~Referenced(o) /\ conns' = Cut(gone)
  BY DEF DisciplinedInv, TrackedInv, DestroyObject
<1>1. ASSUME NEW c \in ConnIds
      PROVE  c \in is <=> Live(c) /\ conns[c].key.object = o
  BY <1>0, LinkTypes, EndsAssumption DEF Registry!Exists
<1>2. ASSUME NEW c \in ConnIds, Live(c), conns[c].key.object = o
      PROVE  c \in gone
  <2>1. conns[c].key \in ConnectionKey /\ conns[c].slot \in Slots
    BY <1>0, <1>2 DEF TypeOK, Connection, Live
  <2>2. CASE conns[c].slot = "receiver"
    BY <1>2, <2>2
  <2>3. CASE conns[c].slot = "owns"
    BY <1>0, <1>2, <2>3 DEF Referenced
  <2>4. CASE conns[c].slot = "borrows"
    <3>1. conns[c].route # "string"
      BY <1>2, <2>4 DEF DisciplinedInv, OneConnectionPerKey
    <3>2. ~BeingRegistered(c)
      BY <1>0, <1>2 DEF BeingRegistered, Referenced
    <3>3. InHash(c)
      BY <1>0, <1>2, <3>1, <3>2 DEF DisciplinedInv, LiveConnectionsTracked
    <3>4. connectionHash[conns[c].key] = c /\ conns[c].key \in Entries
      BY <1>2, <2>1, <3>3 DEF InHash, Entries, Live
    <3>5. o \in watched
      BY <1>2, <2>4, <3>4 DEF DisciplinedInv, TrackedInv, TrackedSelfAlive
    <3>6. conns[c].key \in swept
      BY <1>2, <3>4, <3>5 DEF EntriesTo
    <3> QED
      BY <3>4, <3>6
  <2> QED
    BY <2>1, <2>2, <2>3, <2>4 DEF Slots
<1>3. ASSUME NEW c \in gone, Live(c)
      PROVE  conns[c].key.object = o
  <2>1. CASE c \in byQt
    BY <2>1
  <2>2. CASE \E k \in swept : c = connectionHash[k]
    BY <1>3, <2>2 DEF EntriesTo, DisciplinedInv, TrackedInv, EntryLeadsHome
  <2> QED
    BY <2>1, <2>2
<1>4. \A c \in ConnIds : conns'[c] = IF c \in is THEN NoConn ELSE conns[c]
  <2> SUFFICES ASSUME NEW c \in ConnIds
               PROVE  conns'[c] = IF c \in is THEN NoConn ELSE conns[c]
    OBVIOUS
  <2>1. conns'[c] = IF c \in gone THEN NoConn ELSE conns[c]
    BY <1>0 DEF Cut
  <2>2. Live(c) => (c \in is <=> c \in gone)
    BY <1>1, <1>2, <1>3
  <2>3. ~Live(c) => conns[c] = NoConn
    BY DEF Live
  <2> HIDE DEF is, gone
  <2> QED
    BY <2>1, <2>2, <2>3
<1>5. Registry!Remove(is)
  BY <1>4, CutRemoves
<1>6. /\ o \in senders \cup objects \cup {NoObject}
      /\ (senders \cup objects \cup {NoObject})' = (senders \cup objects \cup {NoObject}) \ {o}
  BY <1>0, EndsAssumption DEF DestroyObject, TypeOK
<1>7. Registry!Die(o)
  BY <1>5, <1>6 DEF Registry!Die
<1> QED
  BY <1>7 DEF Registry!Next

\* A connect makes one link between living ends.
LEMMA ConnectionMaps ==
  ASSUME TypeOK, TypeOK', NEW s \in senders, NEW g \in Signals, NEW cb \in Callbacks,
         Reachable(cb), NEW c \in ConnIds, Fresh(c), NEW conn,
         conn.key = connectionKey(s, g, cb),
         conns' = [conns EXCEPT ![c] = conn], conn # NoConn, UNCHANGED <<senders, objects>>
  PROVE  Registry!Next
<1> DEFINE l == [from |-> s, to |-> cb.obj]
<1>1. /\ conn.key.sender = s
      /\ conn.key.object = cb.obj
  BY DEF connectionKey
<1>2. conns'[c] = conn /\ \A d \in ConnIds : d # c => conns'[d] = conns[d]
  BY DEF TypeOK
<1>3. Links' = [Links EXCEPT ![c] = l]
  BY <1>1, <1>2 DEF Links, Live
<1>4. ~Registry!Exists(c)
  BY LinkTypes DEF Registry!Exists, Fresh, Live
<1>5. l \in Registry!Link /\ {l.from, l.to} \subseteq senders \cup objects \cup {NoObject}
  BY DEF Registry!Link, TypeOK, Reachable
<1> HIDE DEF l
<1>6. Registry!Connect(c, l)
  BY <1>3, <1>4, <1>5 DEF Registry!Connect
<1> QED
  BY <1>5, <1>6 DEF Registry!Next

\* Every step of a disciplined program is a step of the registry or changes
\* nothing in it.
LEMMA StepMaps ==
  ASSUME Disciplined, DisciplinedInv, [Next]_vars
  PROVE  [Registry!Next]_<<senders \cup objects \cup {NoObject}, Links>>
<1> DEFINE Goal == [Registry!Next]_<<senders \cup objects \cup {NoObject}, Links>>
           Same == UNCHANGED <<senders, objects, conns>>
<1>0. TypeOK /\ TypeOK'
  BY TypeStep DEF DisciplinedInv, TrackedInv
<1>1. Same => Goal
  BY DEF Links, Live
<1>2. Registry!Next => Goal
  OBVIOUS
<1> HIDE DEF Goal
<1>3. ASSUME NEW s \in Senders, NewSender(s) PROVE Registry!Next
  <2>1. /\ s \notin senders \cup objects \cup {NoObject}
        /\ (senders \cup objects \cup {NoObject})' = (senders \cup objects \cup {NoObject}) \cup {s}
        /\ Links' = Links
    BY <1>0, <1>3, EndsAssumption DEF NewSender, TypeOK, Links, Live
  <2> QED
    BY <2>1 DEF Registry!Appear, Registry!Next
<1>4. ASSUME NEW o \in Objects, NewObject(o) PROVE Registry!Next
  <2>1. /\ o \notin senders \cup objects \cup {NoObject}
        /\ (senders \cup objects \cup {NoObject})' = (senders \cup objects \cup {NoObject}) \cup {o}
        /\ Links' = Links
    BY <1>0, <1>4, EndsAssumption DEF NewObject, TypeOK, Links, Live
  <2> QED
    BY <2>1 DEF Registry!Appear, Registry!Next
<1>5. ASSUME NEW s \in Senders, DestroySender(s) \/ DestroySenderElsewhere(s) PROVE Registry!Next
  BY <1>0, <1>5, SenderDeathMaps DEF DestroySender, DestroySenderElsewhere
<1>6. ASSUME NEW o \in Objects, DestroyObject(o) PROVE Registry!Next
  BY <1>6, ReceiverDeathMaps
<1>7. ASSUME NEW s \in Senders, senderDestroyed(s) PROVE Same
  BY <1>7 DEF senderDestroyed
<1>8. ASSUME NEW t \in Threads, registerSlotConnection(t) \/ ConnectFailed(t) PROVE Same
  BY <1>8 DEF registerSlotConnection, ConnectFailed
<1>9. ASSUME DestroyApplication \/ clearConnectionHash \/ UNCHANGED vars PROVE Same
  BY <1>9 DEF DestroyApplication, clearConnectionHash, vars
<1>10. ASSUME NEW c \in ConnIds, DisconnectConnection(c) PROVE Registry!Next
  <2>1. /\ Live(c) /\ conns[c].key.sender \in Senders
        /\ conns' = Cut({c}) /\ UNCHANGED <<senders, objects>>
    BY <1>0, <1>10, LinkTypes DEF DisconnectConnection
  <2> QED
    BY <1>0, <2>1, DisconnectionMaps
<1>11. ASSUME NEW s \in Senders, NEW g \in Signals, DisconnectAll(s, g) PROVE Registry!Next
  BY <1>0, <1>11, DisconnectionMaps DEF DisconnectAll
<1>12. ASSUME NEW s \in Senders, NEW g \in Signals, NEW cb \in Callbacks,
              disconnectSlot(s, g, cb)
       PROVE  Registry!Next
  <2> DEFINE key == connectionKey(s, g, cb)
  <2>1. key \in Entries /\ key.sender = s
    BY <1>12, KeyType DEF disconnectSlot, Entries, connectionKey
  <2>2. Live(connectionHash[key]) => conns[connectionHash[key]].key.sender = s
    BY <2>1 DEF DisciplinedInv, TrackedInv, EntryLeadsHome
  <2>3. conns' = Cut({connectionHash[key]}) /\ UNCHANGED <<senders, objects>>
    BY <1>12 DEF disconnectSlot
  <2> HIDE DEF key
  <2> QED
    BY <1>0, <2>2, <2>3, DisconnectionMaps
<1>13. ASSUME NEW s \in Senders, NEW g \in Signals, NEW cb \in Callbacks,
              DisconnectByIndex(s, g, cb)
       PROVE  Registry!Next
  <2> DEFINE cs == {c \in ConnIds : /\ Live(c)
                                    /\ conns[c].key = connectionKey(s, g, cb)
                                    /\ conns[c].slot = "receiver"}
  <2>1. \A c \in cs : conns[c].key.sender = s
    BY DEF connectionKey
  <2>2. conns' = Cut(cs) /\ UNCHANGED <<senders, objects>>
    BY <1>13 DEF DisconnectByIndex
  <2> HIDE DEF cs
  <2> QED
    BY <1>0, <2>1, <2>2, DisconnectionMaps
<1>14. ASSUME NEW s \in Senders, NEW g \in Signals, NEW cb \in Callbacks,
              NEW t \in Threads, ConnectCallback(t, s, g, cb)
       PROVE  Registry!Next
  <2> DEFINE slot == IF cb.kind = "index" THEN "receiver" ELSE SlotOf(cb)
             conn == [key |-> connectionKey(s, g, cb), slot |-> slot, route |-> "callback"]
  <2>1. PICK c \in ConnIds : Fresh(c) /\ conns' = [conns EXCEPT ![c] = conn]
    BY <1>14 DEF ConnectCallback
  <2>2. conn.key = connectionKey(s, g, cb)
    OBVIOUS
  <2>3. s \in senders /\ Reachable(cb) /\ UNCHANGED <<senders, objects>>
    BY <1>14 DEF ConnectCallback
  <2>4. conn # NoConn
    BY <1>0, <2>1, KeyType, EndsAssumption
    DEF Connection, Slots, Routes, SlotOf
  <2> HIDE DEF conn
  <2> QED
    BY <1>0, <2>1, <2>2, <2>3, <2>4, ConnectionMaps
<1>15. ASSUME NEW s \in Senders, NEW g \in Signals, NEW cb \in Callbacks,
              ConnectByName(s, g, cb)
       PROVE  Registry!Next
  <2> DEFINE conn == [key |-> connectionKey(s, g, cb), slot |-> "receiver", route |-> "string"]
  <2>1. PICK c \in ConnIds : Fresh(c) /\ conns' = [conns EXCEPT ![c] = conn]
    BY <1>15 DEF ConnectByName
  <2>2. conn.key = connectionKey(s, g, cb)
    OBVIOUS
  <2>3. s \in senders /\ Reachable(cb) /\ UNCHANGED <<senders, objects>>
    BY <1>15 DEF ConnectByName
  <2>4. conn # NoConn
    BY <1>0, <2>1, KeyType, EndsAssumption
    DEF Connection, Slots, Routes, SlotOf
  <2> HIDE DEF conn
  <2> QED
    BY <1>0, <2>1, <2>2, <2>3, <2>4, ConnectionMaps
<1>16. ASSUME NEW s \in Senders, NEW g \in Signals, NEW cb \in Callbacks,
              ConnectWithContext(s, g, cb)
       PROVE  FALSE
  BY <1>16 DEF ConnectWithContext, Disciplined
<1>17. Goal
  BY <1>1, <1>2, <1>3, <1>4, <1>5, <1>6, <1>7, <1>8, <1>9, <1>10, <1>11, <1>12,
     <1>13, <1>14, <1>15, <1>16 DEF Next
<1> QED
  BY <1>17 DEF Goal

LEMMA InitMaps == Init => Registry!Init
BY DEF Init, Registry!Init, Links, Live

\* In a disciplined program the hash, the weak references and Qt's own
\* bookkeeping together are a registry of links that end when one of their
\* ends dies or somebody removes them, and at no other time.
THEOREM RegistryImplemented ==
  ASSUME Disciplined
  PROVE  Spec => ImplementsRegistry
<1>1. Init => DisciplinedInv
  BY DisciplinedInit
<1>2. DisciplinedInv /\ [Next]_vars => DisciplinedInv'
  BY DisciplinedStep
<1>3. DisciplinedInv /\ [Next]_vars
        => [Registry!Next]_<<senders \cup objects \cup {NoObject}, Links>>
  BY StepMaps
<1> QED
  BY <1>1, <1>2, <1>3, InitMaps, PTL DEF Spec, ImplementsRegistry, Registry!Spec

=============================================================================
