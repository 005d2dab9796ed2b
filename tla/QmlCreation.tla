----------------------------- MODULE QmlCreation -----------------------------
(***************************************************************************)
(* How QML calls into Python (libpysideqml: pysideqmlregistertype.cpp,     *)
(* pysideqmlattached.cpp, pysideqmlextended.cpp, pysideqmllistproperty.cpp). *)
(*                                                                         *)
(* createInto() must put the C++ part of a Python object into memory that  *)
(* QML has allocated. It leaves the address in a global variable, under a  *)
(* mutex, takes the GIL and calls the Python class; the constructor of     *)
(* the QObject base, deep below, picks the address up. The other           *)
(* callbacks, for singletons, attached objects, extensions and list        *)
(* properties, take the GIL only, and all but the last make a QObject,     *)
(* whose constructor picks up what address there is. Python may hand the   *)
(* GIL over wherever Python code runs.                                     *)
(***************************************************************************)
EXTENDS Interpreter, FiniteSets, SequencesExt

CONSTANTS
  Blocks,         \* memory for objects that QML creates
  NoBlock,
  CreationPrograms        \* the programs looked at

\* What a program may do that createInto() is not prepared for: constructors create
\* other QObjects before their base part (helpers) or have QML create objects (nested),
\* other threads create QObjects meanwhile (others), and Python calls into QML without
\* releasing the GIL, as QQmlComponent::create() does (keepsGil).
Practices == {"helpers", "nested", "others", "keepsGil"}

ASSUME CreationAssumption ==
  /\ NoBlock \notin Blocks
  /\ CreationPrograms \subseteq SUBSET Practices

\* Where a call from QML is: it waits for the mutex or the GIL, runs Python, or has
\* the mutex to give back.
Steps == {"lock", "gil", "python", "unlock"}

\* A call: of createInto() for a block, or of another callback. had: its thread had the
\* GIL already; done: its object exists or will not.
Entry == [step : Steps, block : Blocks \cup {NoBlock}, had : BOOLEAN, done : BOOLEAN]

\* What became of a block: it holds the object that QML wants there, one that QML wants
\* in another block, or one that has nothing to do with createInto(); or nothing, since the
\* constructor failed or put its object elsewhere. An object was made where none belongs:
\* upon another, or after the end of the call.
Fates == {"free", "asked", "right", "exchanged", "other", "failed", "elsewhere", "overwritten"}

VARIABLES
  practices,         \* those of the program; they do not change
  mutex,          \* nextQObjectMemoryAddrMutex()
  nextAddr,           \* qobjectNextAddr
  entries,         \* the calls of a thread, the innermost last
  fate

creationVars == <<practices, gil, mutex, nextAddr, entries, fate>>

-----------------------------------------------------------------------------
Current(t) == Last(entries[t])
Busy(t) == entries[t] # <<>>
AtStep(t, step) == Busy(t) /\ Current(t).step = step
Running(t) == gil = t /\ AtStep(t, "python")

Continued(t, step) == [entries EXCEPT ![t][Len(entries[t])].step = step]
Called(t, entry) == [entries EXCEPT ![t] = Append(@, entry)]
Left(t) == [entries EXCEPT ![t] = Front(@)]

\* Mutation of After: the GIL is taken before the mutex.
AfterSwapped(step, b) ==
  [call |-> "gil", gil |-> IF b = NoBlock THEN "python" ELSE "lock", lock |-> "python"][step]

\* What a call for a block, or without one, waits for next.
After(step, b) == [call |-> IF b = NoBlock THEN "gil" ELSE "lock", lock |-> "gil", gil |-> "python"][step]

\* Qt calls from a thread that has the GIL if Python called Qt and kept it, or from
\* the middle of a constructor.
MayEnter(t) ==
  IF Busy(t) THEN "nested" \in practices /\ Running(t) /\ Len(entries[t]) = 1
             ELSE "keepsGil" \in practices \/ gil # t

\* QML wants an object in a block.
BeginCreate(t, b) ==
  /\ MayEnter(t)
  /\ fate[b] = "free"
  /\ fate' = [fate EXCEPT ![b] = "asked"]
  /\ entries' = Called(t, [step |-> After("call", b), block |-> b, had |-> gil = t, done |-> FALSE])
  /\ UNCHANGED <<practices, gil, mutex, nextAddr>>

\* Mutation of MutexFree: there is no mutex.
MutexIgnored == TRUE

\* Whether the mutex can be taken: it is not recursive.
MutexFree == mutex = NoThread

\* createInto(): QMutexLocker, setNextQObjectMemoryAddr(memory)
SetNext(t) ==
  /\ AtStep(t, "lock")
  /\ MutexFree
  /\ mutex' = t
  /\ nextAddr' = Current(t).block
  /\ entries' = Continued(t, After("lock", Current(t).block))
  /\ UNCHANGED <<practices, gil, fate>>

\* A callback that takes the GIL only: it makes a QObject as a singleton, an attached object
\* or an extension; or does an operation of a list property.
BeginCallback(t, makes) ==
  /\ MayEnter(t)
  /\ entries' = Called(t, [step |-> After("call", NoBlock), block |-> NoBlock, had |-> gil = t, done |-> ~makes])
  /\ UNCHANGED <<practices, gil, mutex, nextAddr, fate>>

\* Shiboken::GilState
AcquireGil(t) ==
  /\ AtStep(t, "gil")
  /\ gil \in {t, NoThread}
  /\ gil' = t
  /\ entries' = Continued(t, After("gil", Current(t).block))
  /\ UNCHANGED <<practices, mutex, nextAddr, fate>>

\* The constructor of a QObject wrapper: it uses the address that was left, whoever
\* asked for it.
Constructed(own) ==
  /\ fate' = [b \in Blocks |->
                CASE b = nextAddr /\ fate[b] \notin {"asked", "failed"} -> "overwritten"
                  [] b = nextAddr /\ fate[b] \in {"asked", "failed"} ->
                       IF own = NoBlock THEN "other" ELSE IF b = own THEN "right" ELSE "exchanged"
                  [] b = own /\ b # nextAddr /\ fate[b] = "asked" -> "elsewhere"
                  [] OTHER -> fate[b]]
  /\ nextAddr' = NoBlock

\* The base part of the object that QML wants, for a block or by another callback
ConstructBase(t) ==
  /\ Running(t) /\ ~ Current(t).done
  /\ Constructed(Current(t).block)
  /\ entries' = [entries EXCEPT ![t][Len(entries[t])].done = TRUE]
  /\ UNCHANGED <<practices, gil, mutex>>

\* Another QObject made by the constructor, before or after its base part
ConstructHelper(t) ==
  /\ "helpers" \in practices
  /\ Running(t) /\ Current(t).block # NoBlock
  /\ nextAddr # NoBlock
  /\ Constructed(NoBlock)
  /\ UNCHANGED <<practices, gil, mutex, entries>>

\* A QObject made by a thread that has nothing to do with QML
ConstructOther(t) ==
  /\ "others" \in practices
  /\ gil = t /\ ~ Busy(t)
  /\ nextAddr # NoBlock
  /\ Constructed(NoBlock)
  /\ UNCHANGED <<practices, gil, mutex, entries>>

\* The constructor raises before the base part exists.
ConstructorFails(t) ==
  /\ Running(t) /\ ~ Current(t).done
  /\ fate' = [b \in Blocks |-> IF b = Current(t).block /\ fate[b] = "asked" THEN "failed" ELSE fate[b]]
  /\ entries' = [entries EXCEPT ![t][Len(entries[t])].done = TRUE]
  /\ UNCHANGED <<practices, gil, mutex, nextAddr>>

\* The end of a callback, or of createInto() up to ~GilState: the address is taken back.
ReturnToQml(t) ==
  /\ Running(t) /\ Current(t).done
  /\ gil' = IF Current(t).had THEN t ELSE NoThread
  /\ IF Current(t).block = NoBlock
     THEN entries' = Left(t) /\ UNCHANGED nextAddr
     ELSE entries' = Continued(t, "unlock") /\ nextAddr' = NoBlock
  /\ UNCHANGED <<practices, mutex, fate>>

\* ~QMutexLocker
Unlock(t) ==
  /\ AtStep(t, "unlock")
  /\ mutex' = NoThread
  /\ entries' = Left(t)
  /\ UNCHANGED <<practices, gil, nextAddr, fate>>

\* Python hands the GIL over; whoever runs Python takes it again.
YieldGil(t) ==
  /\ gil = t /\ (Busy(t) => AtStep(t, "python"))
  /\ gil' = NoThread
  /\ UNCHANGED <<practices, mutex, nextAddr, entries, fate>>

Regain(t) ==
  /\ gil = NoThread /\ (Busy(t) => AtStep(t, "python"))
  /\ gil' = t
  /\ UNCHANGED <<practices, mutex, nextAddr, entries, fate>>

\* The object of a block is deleted by QML, which may use the memory again.
Reuse(b) ==
  /\ fate[b] \notin {"free", "asked"}
  /\ \A t \in Threads : \A i \in 1 .. Len(entries[t]) : entries[t][i].block # b
  /\ fate' = [fate EXCEPT ![b] = "free"]
  /\ UNCHANGED <<practices, gil, mutex, nextAddr, entries>>

CreationInit ==
  /\ practices \in CreationPrograms
  /\ gil = NoThread
  /\ mutex = NoThread
  /\ nextAddr = NoBlock
  /\ entries = [t \in Threads |-> <<>>]
  /\ fate = [b \in Blocks |-> "free"]

CreationStep(t) ==
  \/ SetNext(t) \/ AcquireGil(t) \/ Regain(t) \/ YieldGil(t)
  \/ ConstructBase(t) \/ ConstructorFails(t) \/ ReturnToQml(t) \/ Unlock(t)
  \/ ConstructHelper(t) \/ ConstructOther(t)

CreationNext ==
  \/ \E t \in Threads :
       \/ \E b \in Blocks : BeginCreate(t, b)
       \/ \E makes \in BOOLEAN : BeginCallback(t, makes)
       \/ CreationStep(t)
  \/ \E b \in Blocks : Reuse(b)

\* A thread that runs Python gives the GIL to one that waits for it, goes on when it
\* has it, and a thread that waits for the mutex gets it.
Body(t) == ConstructBase(t) \/ ConstructorFails(t) \/ ReturnToQml(t) \/ Unlock(t)

CreationFairness ==
  \A t \in Threads :
    /\ SF_creationVars(SetNext(t)) /\ SF_creationVars(AcquireGil(t) \/ Regain(t))
    /\ SF_creationVars(Body(t)) /\ WF_creationVars(YieldGil(t))

-----------------------------------------------------------------------------
(* Properties *)

CreationTypeOK ==
  /\ practices \in CreationPrograms
  /\ gil \in Threads \cup {NoThread}
  /\ mutex \in Threads \cup {NoThread}
  /\ nextAddr \in Blocks \cup {NoBlock}
  /\ entries \in [Threads -> Seq(Entry)]
  /\ fate \in [Blocks -> Fates]

\* Whatever constructors, callbacks and threads do: memory that QML has allocated for one
\* object never gets another that QML wants elsewhere, nor a second object, nor one when
\* the call for it has ended. An address that is left is used up or taken back in time.
MemoryKeptApart == \A b \in Blocks : fate[b] \notin {"exchanged", "overwritten"}

\* The memory QML has allocated for an object gets that object. Not so: the mutex keeps
\* creations from each other, but not from other QObjects, those of the callbacks among them.
MemoryReachesItsObject == \A b \in Blocks : fate[b] \notin {"exchanged", "overwritten", "other", "elsewhere"}

\* Every creation ends: no thread waits forever for the mutex while it has the GIL, or
\* the other way round, if Qt is entered without the GIL.
CreationEnds ==
  \A b \in Blocks :
    fate[b] = "asked" /\ practices \cap {"keepsGil", "nested"} = {} ~> fate[b] # "asked"

CreationSpec == CreationInit /\ [][CreationNext]_creationVars /\ CreationFairness
=============================================================================
