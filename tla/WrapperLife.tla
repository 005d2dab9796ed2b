----------------------------- MODULE WrapperLife -----------------------------
(***************************************************************************)
(* Python wrappers of QObjects (libpyside/pyside.cpp).                     *)
(*                                                                         *)
(* A wrapper is found by the address of its QObject. A QObject made in C++ *)
(* gets a wrapper when Python first meets it, and a dynamic property that  *)
(* releases the wrapper when the QObject is destroyed; setting the         *)
(* property sends an event, in which Python code may do the same. Only the *)
(* thread of the QObject sets the property. QObjects are destroyed by C++, *)
(* with or without the GIL, together with their children. When the         *)
(* application is destroyed from Python, it goes through all wrappers and  *)
(* destroys the QObjects whose wrappers have the flag that Python owns     *)
(* them; C++ knows nothing of the flag.                                    *)
(***************************************************************************)
EXTENDS Interpreter, FiniteSets, SequencesExt

CONSTANTS
  Addresses,      \* of QObjects; used again
  NoAddress,
  MaxFrames,       \* bound: calls inside each other
  Programs        \* the programs looked at

\* What a program may do: threads wrap QObjects of other threads (foreign), handlers of
\* the property's event destroy QObjects (events), types are loaded when they are first
\* wrapped and the GIL is handed over meanwhile (lazy), functions give QObjects that C++
\* made to Python (owners).
Habits == {"foreign", "events", "lazy", "owners"}

ASSUME WrapperAssumption ==
  /\ NoAddress \notin Addresses
  /\ MaxFrames \in Nat /\ Programs \subseteq SUBSET Habits

\* A call: getWrapperForQObject(), in the event of setProperty() or while the type is
\* loaded; or a destructor, which destroys children, waits for the GIL (had: its thread
\* has it) and frees the memory.
Frame == [op : {"wrap", "destroy"}, at : Addresses, had : BOOLEAN,
          step : {"event", "load", "children", "gil", "free"}]

VARIABLES
  habits,         \* those of the program; they do not change
  object,         \* what is at an address: "none", or a QObject from "cpp" or "python"
  dying,          \* addresses whose destructor runs
  home,           \* thread of the QObject
  parent,
  marked,         \* addresses with the property _PySideInvalidatePtr
  mapped,         \* addresses that BindingManager has a wrapper for
  wrappers,       \* valid wrappers that lead to the QObject
  owning,         \* addresses whose wrapper in the map has the flag of ownership
  frames,         \* the calls of a thread, the innermost last
  visits,         \* what destroyQCoreApplication() has still to visit
  twice           \* history: a destructor was called for what is no QObject any more

wrapperVars == <<habits, object, dying, home, parent, marked, mapped, wrappers, owning, gil, frames, visits, twice>>

-----------------------------------------------------------------------------
Idle(t) == frames[t] = <<>>
Top(t) == Last(frames[t])
At(t, op, step) == ~Idle(t) /\ Top(t).op = op /\ Top(t).step = step

\* A thread runs Python code: at the outermost level or in an event handler.
InPython(t) == gil = t /\ (Idle(t) \/ At(t, "wrap", "event"))
MayCall(t) == Len(frames[t]) < MaxFrames

Pushed(t, op, a, step) ==
  [frames EXCEPT ![t] = Append(@, [op |-> op, at |-> a, had |-> gil = t, step |-> step])]
Popped(t) == [frames EXCEPT ![t] = Front(@)]
Advanced(t, step) == [frames EXCEPT ![t][Len(frames[t])].step = step]

Children(a) == {c \in Addresses : object[c] # "none" /\ parent[c] = a}
Alive(a) == object[a] # "none" /\ a \notin dying

\* Shiboken::Object::hasOwnership() of the wrapper in the map
hasOwnership(a) == a \in owning

\* A wrapper of what C++ made comes into the map of BindingManager.
Wrapped(a) ==
  /\ mapped' = mapped \cup {a}
  /\ wrappers' = [wrappers EXCEPT ![a] = @ + 1]
  /\ owning' = owning \ {a}
\* releaseWrapper(): it does not lead to the QObject any more, and is not valid.
releaseWrapper(a) ==
  /\ mapped' = mapped \ {a}
  /\ wrappers' = [wrappers EXCEPT ![a] = 0]
  /\ owning' = owning \ {a}

-----------------------------------------------------------------------------
(* QObjects *)

\* A QObject is made, in C++ by any thread, or by Python code with its wrapper, which owns it
\* unless it has a parent. A wrapper may be left from the QObject that was there.
NewObject(t, a, kind, p) ==
  /\ object[a] = "none" /\ visits = {}
  /\ IF kind = "python" THEN InPython(t) ELSE Idle(t)
  /\ p # NoAddress => Alive(p) /\ home[p] = t
  /\ object' = [object EXCEPT ![a] = kind]
  /\ home' = [home EXCEPT ![a] = t]
  /\ parent' = [parent EXCEPT ![a] = p]
  /\ IF kind = "python"
     THEN /\ mapped' = mapped \cup {a} /\ wrappers' = [wrappers EXCEPT ![a] = 1]
          /\ owning' = IF p = NoAddress THEN owning \cup {a} ELSE owning \ {a}
     ELSE wrappers' = [wrappers EXCEPT ![a] = 0] /\ UNCHANGED <<mapped, owning>>
  /\ UNCHANGED <<habits, dying, marked, gil, frames, visits, twice>>

\* It gets a parent: from Python code, which takes the flag from its wrapper, or from C++.
SetParent(t, a, p, told) ==
  /\ Alive(a) /\ Alive(p) /\ a # p /\ parent[a] = NoAddress /\ parent[p] = NoAddress
  /\ home[a] = t /\ home[p] = t /\ visits = {}
  /\ InPython(t) \/ (Idle(t) /\ ~told)
  /\ parent' = [parent EXCEPT ![a] = p]
  /\ owning' = IF told THEN owning \ {a} ELSE owning
  /\ UNCHANGED <<habits, object, dying, home, marked, mapped, wrappers, gil, frames, visits, twice>>

\* A function gives what C++ made to Python.
TakeOwnership(t, a) ==
  /\ InPython(t) /\ "owners" \in habits
  /\ Alive(a) /\ object[a] = "cpp" /\ parent[a] = NoAddress /\ a \in mapped /\ visits = {}
  /\ owning' = owning \cup {a}
  /\ UNCHANGED <<habits, object, dying, home, parent, marked, mapped, wrappers, gil, frames, visits, twice>>

\* Python drops a wrapper that does not own its QObject, which may be in its destructor, or
\* gone: the map forgets it.
DropWrapper(t, a) ==
  /\ InPython(t)
  /\ a \in mapped /\ wrappers[a] <= 1 /\ ~hasOwnership(a)
  /\ releaseWrapper(a)
  /\ UNCHANGED <<habits, object, dying, home, parent, marked, gil, frames, visits, twice>>

\* The class generated for Python's objects has a destructor that releases the wrapper.
FirstStep(a) == IF object[a] = "python" THEN "gil" ELSE "children"

Destroyed(t, a) ==
  /\ dying' = dying \cup {a}
  /\ frames' = Pushed(t, "destroy", a, FirstStep(a))

\* Its own thread destroys a QObject, from C++ or, inside an event, from Python.
Destroy(t, a) ==
  /\ Alive(a) /\ home[a] = t /\ MayCall(t)
  /\ Idle(t) \/ ("events" \in habits /\ InPython(t))
  /\ visits = {}
  /\ Destroyed(t, a)
  /\ UNCHANGED <<habits, object, home, parent, marked, mapped, wrappers, owning, gil, visits, twice>>

\* The children go, one after the other; then the property, with invalidatePtr(): it
\* takes the GIL if there is a wrapper.
DestroyChild(t) ==
  /\ At(t, "destroy", "children")
  /\ \E c \in Children(Top(t).at) \ dying : Destroyed(t, c)
  /\ UNCHANGED <<habits, object, home, parent, marked, mapped, wrappers, owning, gil, visits, twice>>

\* Whether invalidatePtr() finds something to do; before it has the GIL.
NeedsInvalidation(a) == a \in marked /\ a \in mapped

invalidatePtr(t) ==
  /\ At(t, "destroy", "children")
  /\ Children(Top(t).at) \subseteq dying
  /\ frames' = Advanced(t, IF NeedsInvalidation(Top(t).at) THEN "gil" ELSE "free")
  /\ UNCHANGED <<habits, object, dying, home, parent, marked, mapped, wrappers, owning, gil, visits, twice>>

\* The GIL is there, for invalidatePtr() or for the destructor of Python's object.
Release(t) ==
  /\ At(t, "destroy", "gil")
  /\ gil \in {t, NoThread}
  /\ releaseWrapper(Top(t).at)
  /\ frames' = Advanced(t, IF object[Top(t).at] = "python" THEN "children" ELSE "free")
  /\ UNCHANGED <<habits, object, dying, home, parent, marked, gil, visits, twice>>

Free(t) ==
  /\ At(t, "destroy", "free")
  /\ object' = [object EXCEPT ![Top(t).at] = "none"]
  /\ parent' = [parent EXCEPT ![Top(t).at] = NoAddress]
  /\ dying' = dying \ {Top(t).at}
  /\ marked' = marked \ {Top(t).at}
  /\ frames' = Popped(t)
  /\ UNCHANGED <<habits, home, mapped, wrappers, owning, gil, visits, twice>>

-----------------------------------------------------------------------------
(* getWrapperForQObject() *)

\* The thread of the QObject sets the property, unless it is set.
SetsProperty(t, a) == home[a] = t /\ a \notin marked

getWrapperForQObject(t, a) ==
  /\ InPython(t) /\ MayCall(t)
  /\ object[a] # "none" /\ a \notin dying /\ visits = {}
  /\ home[a] = t \/ "foreign" \in habits
  /\ a \notin mapped
  /\ IF SetsProperty(t, a)
     THEN /\ marked' = marked \cup {a}
          /\ frames' = Pushed(t, "wrap", a, "event")
          /\ UNCHANGED <<mapped, wrappers, owning>>
     ELSE /\ UNCHANGED marked
          /\ IF "lazy" \in habits THEN frames' = Pushed(t, "wrap", a, "load") /\ UNCHANGED <<mapped, wrappers, owning>>
             ELSE Wrapped(a) /\ UNCHANGED frames
  /\ UNCHANGED <<habits, object, dying, home, parent, gil, visits, twice>>

\* Mutation of FoundAfterEvent: the map is not asked again.
FoundNever(a) == FALSE

\* The handlers of the event may have made the wrapper.
FoundAfterEvent(a) == a \in mapped

EventDone(t) ==
  /\ At(t, "wrap", "event") /\ gil = t
  /\ LET a == Top(t).at IN
     \/ FoundAfterEvent(a) /\ frames' = Popped(t) /\ UNCHANGED <<mapped, wrappers, owning>>
     \/ ~FoundAfterEvent(a) /\ "lazy" \in habits /\ frames' = Advanced(t, "load") /\ UNCHANGED <<mapped, wrappers, owning>>
     \/ ~FoundAfterEvent(a) /\ "lazy" \notin habits /\ frames' = Popped(t) /\ Wrapped(a)
  /\ UNCHANGED <<habits, object, dying, home, parent, marked, gil, visits, twice>>

TypeLoaded(t) ==
  /\ At(t, "wrap", "load") /\ gil = t
  /\ frames' = Popped(t)
  /\ Wrapped(Top(t).at)
  /\ UNCHANGED <<habits, object, dying, home, parent, marked, gil, visits, twice>>

\* The GIL is given away where Python code runs, also by a thread that calls C++.
HandOver(t) ==
  /\ gil = t /\ (InPython(t) \/ At(t, "wrap", "load"))
  /\ gil' = NoThread
  /\ UNCHANGED <<habits, object, dying, home, parent, marked, mapped, wrappers, owning, frames, visits, twice>>

TakeGil(t) ==
  /\ gil = NoThread /\ (~Idle(t) => Top(t).op = "wrap")
  /\ gil' = t
  /\ UNCHANGED <<habits, object, dying, home, parent, marked, mapped, wrappers, owning, frames, visits, twice>>

-----------------------------------------------------------------------------
(* destroyQCoreApplication(): BindingManager copies its map and calls destructionVisitor() *)
(* for what is still in the map.                                                           *)

destroyQCoreApplication(t) ==
  /\ InPython(t) /\ Idle(t) /\ \A u \in Threads : Idle(u)
  /\ visits = {} /\ mapped # {}
  /\ visits' = mapped
  /\ UNCHANGED <<habits, object, dying, home, parent, marked, mapped, wrappers, owning, gil, frames, twice>>

\* Mutation of DestroysWhenVisited: the flag is not looked at.
DestroysUnasked(a) == a \in mapped

\* The flag of the wrapper in the copied map, which is the one that the map has now, if any.
DestroysWhenVisited(a) == a \in mapped /\ hasOwnership(a)

\* One wrapper is visited; the destructor runs without the GIL, in any thread's place.
destructionVisitor(t, a) ==
  /\ InPython(t) /\ Idle(t) /\ a \in visits
  /\ visits' = visits \ {a}
  /\ IF ~DestroysWhenVisited(a) THEN UNCHANGED <<dying, frames, twice>>
     ELSE IF object[a] = "none" \/ a \in dying THEN twice' = TRUE /\ UNCHANGED <<dying, frames>>
     ELSE Destroyed(t, a) /\ UNCHANGED twice
  /\ UNCHANGED <<habits, object, home, parent, marked, mapped, wrappers, owning, gil>>

-----------------------------------------------------------------------------
WrapperInit ==
  /\ habits \in Programs
  /\ object = [a \in Addresses |-> "none"]
  /\ dying = {}
  /\ home \in {[a \in Addresses |-> t] : t \in Threads}
  /\ parent = [a \in Addresses |-> NoAddress]
  /\ marked = {} /\ mapped = {} /\ owning = {}
  /\ wrappers = [a \in Addresses |-> 0]
  /\ gil = NoThread
  /\ frames = [t \in Threads |-> <<>>]
  /\ visits = {}
  /\ twice = FALSE

WrapperNext ==
  \/ \E t \in Threads, a \in Addresses, kind \in {"cpp", "python"}, p \in Addresses \cup {NoAddress} :
       NewObject(t, a, kind, p)
  \/ \E t \in Threads, a \in Addresses, p \in Addresses, told \in BOOLEAN : SetParent(t, a, p, told)
  \/ \E t \in Threads, a \in Addresses : TakeOwnership(t, a)
  \/ \E t \in Threads, a \in Addresses : DropWrapper(t, a)
  \/ \E t \in Threads, a \in Addresses : Destroy(t, a)
  \/ \E t \in Threads : DestroyChild(t)
  \/ \E t \in Threads : invalidatePtr(t)
  \/ \E t \in Threads : Release(t)
  \/ \E t \in Threads : Free(t)
  \/ \E t \in Threads, a \in Addresses : getWrapperForQObject(t, a)
  \/ \E t \in Threads : EventDone(t)
  \/ \E t \in Threads : TypeLoaded(t)
  \/ \E t \in Threads : HandOver(t)
  \/ \E t \in Threads : TakeGil(t)
  \/ \E t \in Threads : destroyQCoreApplication(t)
  \/ \E t \in Threads, a \in Addresses : destructionVisitor(t, a)

WrapperSpec == WrapperInit /\ [][WrapperNext]_wrapperVars

-----------------------------------------------------------------------------
(* Properties *)

WrapperTypeOK ==
  /\ habits \in Programs
  /\ object \in [Addresses -> {"none", "cpp", "python"}]
  /\ home \in [Addresses -> Threads]
  /\ parent \in [Addresses -> Addresses \cup {NoAddress}]
  /\ dying \subseteq Addresses /\ marked \subseteq Addresses /\ mapped \subseteq Addresses
  /\ visits \subseteq Addresses /\ owning \subseteq Addresses
  /\ wrappers \in [Addresses -> Nat]
  /\ gil \in Threads \cup {NoThread}
  /\ frames \in [Threads -> Seq(Frame)]

\* A QObject has one wrapper at most, whatever the handlers of the event do, if types are
\* loaded beforehand.
OneWrapper == "lazy" \notin habits => \A a \in Addresses : wrappers[a] <= 1

\* When its memory is free a QObject has no wrapper in the map: the next QObject there
\* would be taken for it. If QObjects are wrapped in their own thread, and not destroyed
\* by the handlers of the event.
FreedAreForgotten ==
  habits \cap {"foreign", "events"} = {} =>
    \A a \in Addresses : object[a] = "none" => a \notin mapped

\* A QObject has one wrapper at most, and none when it is gone.
WrappersMatchObjects == OneWrapper /\ FreedAreForgotten

\* The visitor calls no destructor for what was destroyed with its parent, of which the flag
\* knows nothing if C++ gave it the parent. If Python owns only what it made, or QObjects
\* are wrapped in their own thread and not destroyed by the handlers of the event.
QuitDestroysOnce ==
  "owners" \notin habits \/ habits \cap {"foreign", "events"} = {} => ~twice
=============================================================================
