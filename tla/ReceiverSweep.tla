----------------------------- MODULE ReceiverSweep -----------------------------
(***************************************************************************)
(* disconnectReceiver() of dynamicslot.cpp, the one step of DynamicSlot's  *)
(* DestroyObject taken apart.  The loop walks over connectionHash; at each *)
(* entry of the dead receiver it disconnects and erases.  Disconnecting    *)
(* may run Python code (disconnectNotify() of the sender, the destructor   *)
(* of what the slot owned), which may connect, disconnect and let senders  *)
(* and further receivers die: the function is entered again in the middle  *)
(* of the loop.                                                            *)
(*                                                                         *)
(* connectionHash is a QHash of Qt 6: buckets in a ring, an entry in the   *)
(* first unused bucket from that of its hash value on, an iterator a bucket*)
(* number.  Erasing an entry moves entries behind it back, over the gap.   *)
(* The hash is never more than half full, so that it does not grow.        *)
(***************************************************************************)
EXTENDS Naturals, FiniteSets, FiniteSetsExt, SequencesExt

CONSTANTS
  Receivers,      \* Python objects whose methods are connected
  Keys,           \* possible entries of connectionHash
  ObjectOf,       \* ConnectionKey::object of a key
  Buckets,        \* how many the hash has
  Homes,          \* hash functions: key -> bucket
  MaxSweeps       \* bound: calls of disconnectReceiver() inside each other

Bucket == 0 .. Buckets - 1

ASSUME KeysAssumption ==
  /\ IsFiniteSet(Keys) /\ ObjectOf \in [Keys -> Receivers]
  /\ Buckets \in Nat \ {0} /\ Homes \subseteq [Keys -> Bucket]
ASSUME DepthAssumption == MaxSweeps \in Nat \ {0}

VARIABLES
  living,         \* receivers
  hashed,         \* the hash function; it does not change
  place,          \* connectionHash: the bucket of each of its keys
  connected,      \* the keys whose connection Qt has
  sweeps,         \* the running calls of disconnectReceiver(), outermost first
  connects,       \* history: some code connected while one of them was running
  broken          \* history: a bucket was erased that is not in use (undefined behaviour)

sweepVars == <<living, hashed, place, connected, sweeps, connects, broken>>

hash == DOMAIN place

\* A call: pythonSelf, the bucket of its iterator, what it does, and oldSize.
SweepCall ==
  [pythonSelf : Receivers, at : 0 .. Buckets, step : {"loop", "disconnect", "erase"}, oldSize : Nat]

Sweeping == sweeps # <<>>
Innermost == Last(sweeps)
WithInnermost(f) == [sweeps EXCEPT ![Len(sweeps)] = f]

\* Python code runs outside all sweeps or inside QObject::disconnect().
CodeRuns == ~broken /\ (Sweeping => Innermost.step = "disconnect")

-----------------------------------------------------------------------------
(* QHash *)

\* The d-th bucket from b on, and how far it is from b to q.
Past(b, d) == IF b + d < Buckets THEN b + d ELSE b + d - Buckets
Distance(b, q) == IF b <= q THEN q - b ELSE q + Buckets - b

Used(b) == \E k \in hash : place[k] = b

\* The entries behind bucket b, up to the first unused one.
Behind(b) ==
  {k \in hash : place[k] # b /\ \A d \in 1 .. Distance(b, place[k]) : Used(Past(b, d))}

\* When the loop of erase(b) comes to k, those in moved having been moved: how far
\* the gap is from b.
Gap(b, moved, k) ==
  Max({0} \cup {d \in {Distance(b, place[m]) : m \in moved} : d < Distance(b, place[k])})

\* The gap is on the way from the entry's own bucket to where it is.
MayMove(b, gap, k) == Distance(hashed[k], Past(b, gap)) <= Distance(hashed[k], place[k])

\* The entries that erase(b) moves: the loop decides for each in turn.
Moved(b) ==
  {moved \in SUBSET Behind(b) :
     \A k \in Behind(b) : k \in moved <=> MayMove(b, Gap(b, moved, k), k)}

\* The hash after erase(b).
Closed(b, moved) ==
  [k \in {e \in hash : place[e] # b} |->
     IF k \in moved THEN Past(b, Gap(b, moved, k)) ELSE place[k]]

\* Mutant of Erased: the entry stays.
ErasedNothing(b) == {place}

Erased(b) == {Closed(b, moved) : moved \in Moved(b)}

\* QHash::erase(it) returns an iterator to what is behind it; at the last bucket
\* that is the end, whatever was moved there.
NextAfter(b) == IF b = Buckets - 1 THEN Buckets ELSE b

-----------------------------------------------------------------------------

\* registerSlotConnection(). A connection that has lost its entry is not made again.
ConnectSlot(k) ==
  /\ CodeRuns
  /\ ObjectOf[k] \in living
  /\ k \notin hash /\ k \notin connected
  /\ \E d \in Bucket :
       /\ ~Used(Past(hashed[k], d))
       /\ \A e \in 0 .. d - 1 : Used(Past(hashed[k], e))
       /\ place' = [e \in hash \cup {k} |-> IF e = k THEN Past(hashed[k], d) ELSE place[e]]
  /\ connected' = connected \cup {k}
  /\ connects' = (connects \/ Sweeping)
  /\ UNCHANGED <<living, hashed, sweeps, broken>>

\* disconnectSlot(), or senderDestroyed(): the entry goes with its connection.
EntryGoes(k) ==
  /\ CodeRuns
  /\ k \in hash
  /\ place' \in Erased(place[k])
  /\ connected' = connected \ {k}
  /\ UNCHANGED <<living, hashed, sweeps, connects, broken>>

\* A receiver dies and its weak reference notifies: disconnectReceiver() begins.
ReceiverDies(o) ==
  /\ CodeRuns
  /\ Len(sweeps) < MaxSweeps
  /\ o \in living
  /\ living' = living \ {o}
  /\ sweeps' = Append(sweeps, [pythonSelf |-> o, at |-> 0, step |-> "loop", oldSize |-> 0])
  /\ UNCHANGED <<hashed, place, connected, connects, broken>>

\* The entries of its receiver that the iterator of a call comes to, if nothing
\* changes.
Before(f) == {k \in hash : ObjectOf[k] = f.pythonSelf /\ place[k] >= f.at}

\* The loop comes to an entry of the receiver and calls QObject::disconnect(),
\* which does nothing if Qt no longer has the connection.
Cut(k) ==
  /\ Sweeping /\ Innermost.step = "loop"
  /\ k \in Before(Innermost)
  /\ \A e \in Before(Innermost) : place[k] <= place[e]
  /\ connected' = connected \ {k}
  /\ sweeps' = WithInnermost([Innermost EXCEPT !.at = place[k], !.oldSize = Cardinality(hash),
                                   !.step = IF k \in connected THEN "disconnect" ELSE "erase"])
  /\ UNCHANGED <<living, hashed, place, connects, broken>>

\* Mutant of Retry: "size() < oldSize - 2".
RetryLate(f, size) == size + 2 < f.oldSize

\* "size() < oldSize - 1": the iterator is dropped and the loop starts again.
Retry(f, size) == size + 1 < f.oldSize

\* QObject::disconnect() has returned: erase(it), whatever the bucket holds now,
\* and the check.
Erase ==
  /\ Sweeping /\ Innermost.step # "loop" /\ Used(Innermost.at)
  /\ place' \in Erased(Innermost.at)
  /\ sweeps' = WithInnermost([Innermost EXCEPT
       !.step = "loop",
       !.at = IF Retry(Innermost, Cardinality(DOMAIN place')) THEN 0 ELSE NextAfter(Innermost.at)])
  /\ UNCHANGED <<living, hashed, connected, connects, broken>>

\* The same with a bucket that is no longer used.
EraseBreaks ==
  /\ Sweeping /\ Innermost.step # "loop" /\ ~Used(Innermost.at)
  /\ ~broken
  /\ broken' = TRUE
  /\ UNCHANGED <<living, hashed, place, connected, sweeps, connects>>

\* The end of the hash is reached: the call returns.
SweepReturns ==
  /\ Sweeping /\ Innermost.step = "loop"
  /\ Before(Innermost) = {}
  /\ sweeps' = Front(sweeps)
  /\ UNCHANGED <<living, hashed, place, connected, connects, broken>>

-----------------------------------------------------------------------------

SweepInit ==
  /\ living = Receivers
  /\ hashed \in Homes
  /\ place = <<>>
  /\ connected = {}
  /\ sweeps = <<>>
  /\ connects = FALSE
  /\ broken = FALSE

Sweep == Erase \/ EraseBreaks \/ SweepReturns \/ \E k \in Keys : Cut(k)

SweepNext ==
  \/ \E k \in Keys : ConnectSlot(k) \/ EntryGoes(k)
  \/ \E o \in Receivers : ReceiverDies(o)
  \/ Sweep

SweepSpec == SweepInit /\ [][SweepNext]_sweepVars

\* A call that was begun runs on, and the Python code it runs returns.
SweepFairness == WF_sweepVars(Sweep)

FairSweepSpec == SweepSpec /\ SweepFairness

-----------------------------------------------------------------------------
(* Properties *)

SweepTypeOK ==
  /\ living \subseteq Receivers
  /\ hashed \in Homes
  /\ hash \subseteq Keys
  /\ place \in [hash -> Bucket]
  /\ connected \subseteq Keys
  /\ sweeps \in Seq(SweepCall)
  /\ connects \in BOOLEAN
  /\ broken \in BOOLEAN

\* "Check for a disconnection causing deletion of further objects by a re-entrant
\* call": whatever runs during a sweep, it erases no entry of a connection that
\* still works.
SweepSparesTheLiving == connected \subseteq hash

\* Once all calls have returned, dead receivers have no entries, whatever was
\* disconnected, destroyed and swept inside a sweep, and whatever the iterators hit
\* after it - unless code inside a sweep connected, which hides from the comparison
\* of sizes that the hash has changed.
SweepIsComplete == ~Sweeping /\ ~connects => \A k \in hash : ObjectOf[k] \in living

\* Every sweep comes to an end, or is the last thing the process does.
SweepEnds == Sweeping ~> (~Sweeping \/ broken)

=============================================================================
