------------------------------ MODULE MetaCall ------------------------------
(***************************************************************************)
(* Calls from Qt into Python and back, on one thread                       *)
(* (libpyside/signalmanager.cpp, pysidemetafunction.cpp, dynamicslot.cpp,  *)
(* libpysideqml/pysideqmlmetacallerror.cpp).                               *)
(*                                                                         *)
(* Qt calls a method or a property of an object, or a callable that a      *)
(* signal is connected to. Python code may make further calls, delete      *)
(* objects, take properties out of their class and raise errors. An error  *)
(* ends in the call in which it was raised: it is printed, and thrown into *)
(* the JavaScript engine if that one called. Printing calls sys.excepthook,*)
(* which is Python code again.                                             *)
(***************************************************************************)
EXTENDS Naturals, FiniteSets, SequencesExt

CONSTANTS
  Objects,
  MaxDepth,       \* bound: calls inside each other
  MaxErrors,      \* bound: errors raised
  MetaPrograms    \* the programs looked at

\* What a program may do: QML is used, with the objects that have a wrapper in JavaScript
\* (qml); properties are taken from their class while they are read (drops); their types may
\* be unknown (unknownTypes); an argument of MetaFunction::call() cannot be converted, which
\* leaves an error while the method is called (pending).
MetaHabits == {"qml", "drops", "unknownTypes", "pending"}

ASSUME MetaAssumption ==
  /\ MaxDepth \in Nat /\ MaxErrors \in Nat
  /\ MetaPrograms \subseteq SUBSET MetaHabits

Errors == 1..MaxErrors
NoError == 0

\* A call of qt_metacall() or of a dynamic slot. js: JavaScript made it.
Call == [op : {"signal", "slot", "callback", "property"}, on : Objects, js : BOOLEAN,
         step : {"activate", "python", "done", "str", "thrown", "hook"}]

VARIABLES
  habit,          \* those of the program; they do not change
  alive,          \* objects
  hasProperty,    \* objects whose class holds its property
  calls,          \* the innermost last
  indicator,      \* the Python error that is set
  fetched,        \* errors that a call holds between PyErr_Fetch() and PyErr_Restore()
  raised,
  printed,        \* error -> how often
  misused         \* history: what was used after its end

metaVars == <<habit, alive, hasProperty, calls, indicator, fetched, raised, printed, misused>>

-----------------------------------------------------------------------------
Outermost == calls = <<>>
Inner == Last(calls)
In(step) == ~Outermost /\ Inner.step = step
Step(step) == [calls EXCEPT ![Len(calls)].step = step]

\* Python code runs: that of a slot or a property, __str__ of an error, sys.excepthook.
PythonRuns == ~Outermost /\ Inner.step \in {"python", "str", "hook"}
\* Qt may call: the event loop, Python code, or a signal that is being emitted.
QtCalls == (~Outermost => Inner.step \in {"python", "str", "hook", "activate"}) /\ Len(calls) < MaxDepth

Raised(e) == e = raised + 1 /\ e \in Errors /\ raised' = e /\ indicator' = e
Same == UNCHANGED <<habit, alive, hasProperty>>

Entered(op, o, js, step) == Append(calls, [op |-> op, on |-> o, js |-> js, step |-> step])

-----------------------------------------------------------------------------
(* Calls *)

\* The method is a signal: it is activated without the GIL.
EmitSignal(o) ==
  /\ QtCalls /\ o \in alive
  /\ indicator # NoError => "pending" \in habit
  /\ calls' = Entered("signal", o, FALSE, "activate")
  /\ Same /\ UNCHANGED <<indicator, fetched, raised, printed, misused>>

Activated ==
  /\ In("activate")
  /\ calls' = Step("done")
  /\ Same /\ UNCHANGED <<indicator, fetched, raised, printed, misused>>

\* A slot that Python has is called. It is called with the error that was pending, if any.
CallSlot(o, js) ==
  /\ QtCalls /\ o \in alive
  /\ js => "qml" \in habit
  /\ calls' = Entered("slot", o, js, "python")
  /\ Same /\ UNCHANGED <<indicator, fetched, raised, printed, misused>>

\* The slot is not there any more, or an argument or the result has no conversion:
\* callPythonMetaMethod() sets an error and calls nothing.
CallFails(o, js, e) ==
  /\ QtCalls /\ o \in alive
  /\ js => "qml" \in habit
  /\ indicator = NoError /\ Raised(e)
  /\ calls' = Entered("slot", o, js, "done")
  /\ Same /\ UNCHANGED <<fetched, printed, misused>>

\* A callable that was connected, by a PySideQSlotObject.
CallCallback(o) ==
  /\ QtCalls
  /\ calls' = Entered("callback", o, FALSE, "python")
  /\ Same /\ UNCHANGED <<indicator, fetched, raised, printed, misused>>

\* A property is read, written or reset.
CallProperty(o, js) ==
  /\ QtCalls /\ o \in alive /\ indicator = NoError
  /\ js => "qml" \in habit
  /\ o \in hasProperty
  /\ calls' = Entered("property", o, js, "python")
  /\ Same /\ UNCHANGED <<indicator, fetched, raised, printed, misused>>

\* MetaFunction::call() leaves the error of a conversion and calls the method.
ConversionFails(e) ==
  /\ PythonRuns /\ "pending" \in habit /\ indicator = NoError
  /\ Inner.step = "python" /\ Len(calls) < MaxDepth
  /\ Raised(e)
  /\ \E o \in alive : calls' = Entered("signal", o, FALSE, "activate")
  /\ Same /\ UNCHANGED <<fetched, printed, misused>>

-----------------------------------------------------------------------------
(* What Python code does *)

\* Any object, one that has a method called or a property read included.
Delete(o) ==
  /\ PythonRuns /\ o \in alive
  /\ alive' = alive \ {o}
  /\ UNCHANGED <<habit, hasProperty, calls, indicator, fetched, raised, printed, misused>>

DropProperty(o) ==
  /\ PythonRuns /\ "drops" \in habit /\ o \in hasProperty
  /\ hasProperty' = hasProperty \ {o}
  /\ UNCHANGED <<habit, alive, calls, indicator, fetched, raised, printed, misused>>

\* Code of a slot or a property returns, or raises an error.
Return ==
  /\ In("python") /\ indicator = NoError
  /\ calls' = Step("done")
  /\ Same /\ UNCHANGED <<indicator, fetched, raised, printed, misused>>

Raise(e) ==
  /\ In("python") /\ indicator = NoError /\ Raised(e)
  /\ calls' = Step("done")
  /\ Same /\ UNCHANGED <<fetched, printed, misused>>

\* Python code that was entered with a pending error fails at once.
RaisePending ==
  /\ In("python") /\ indicator # NoError
  /\ calls' = Step("done")
  /\ Same /\ UNCHANGED <<indicator, fetched, raised, printed, misused>>

-----------------------------------------------------------------------------
(* The end of a call *)

Printed == [printed EXCEPT ![indicator] = @ + 1]

\* qtPropertyMetacall(): the property object is released, and then asked for its type if
\* that was unknown (the error is StopIteration), and the meta object, which may be the
\* object's own, for the name of the class. The warning may be an error itself; either way
\* nothing is left.
UnknownType ==
  /\ In("done") /\ Inner.op = "property" /\ "unknownTypes" \in habit /\ indicator # NoError
  /\ printed' = Printed /\ indicator' = NoError
  /\ misused' = misused \cup (IF Inner.on \in hasProperty THEN {} ELSE {"property"})
                         \cup (IF Inner.on \in alive THEN {} ELSE {"object"})
  /\ calls' = Front(calls)
  /\ Same /\ UNCHANGED <<fetched, raised>>

\* What is set when the call ends is an error of the call.
NeedsHandling == indicator # NoError

\* A call without error returns.
ReturnToQt ==
  /\ In("done") /\ ~NeedsHandling
  /\ calls' = Front(calls)
  /\ Same /\ UNCHANGED <<indicator, fetched, raised, printed, misused>>

\* handleMetaCallError(): the handler of QML is for qt_metacall() of an object.
AsksQml == "qml" \in habit /\ Inner.op # "callback"

\* The object is used by that handler, and by the warning about a property.
UsesObject == AsksQml \/ Inner.op = "property"

\* qmlMetaCallErrorHandler() looks the object up, which may have been deleted. If
\* JavaScript runs, the error is fetched, converted by __str__, restored and printed.
ToJavaScript == Inner.on \in alive /\ \E i \in 1..Len(calls) : calls[i].js

HandleError ==
  /\ In("done") /\ NeedsHandling
  /\ Inner.op = "property" => "unknownTypes" \notin habit
  /\ misused' = misused \cup (IF UsesObject /\ Inner.on \notin alive THEN {"object"} ELSE {})
  /\ IF AsksQml /\ ToJavaScript
     THEN calls' = Step("str") /\ fetched' = fetched \cup {indicator} /\ indicator' = NoError
          /\ UNCHANGED printed
     ELSE calls' = Step("hook") /\ printed' = Printed /\ indicator' = NoError /\ UNCHANGED fetched
  /\ Same /\ UNCHANGED <<raised>>

\* Mutation of Restored: it is restored and printed, and kept.
RestoredTwice(e) == indicator' = e /\ printed' = [printed EXCEPT ![e] = @ + 1]

\* PyErr_Restore() and PyErr_Print(), which clears the error.
Restored(e) == indicator' = NoError /\ printed' = [printed EXCEPT ![e] = @ + 1]

\* The innermost call fetched last.
Latest == CHOOSE e \in fetched : \A d \in fetched : d <= e

PrintForQml ==
  /\ In("str") /\ fetched # {}
  /\ Restored(Latest) /\ fetched' = fetched \ {Latest}
  /\ calls' = Step("thrown")
  /\ Same /\ UNCHANGED <<raised, misused>>

\* sys.excepthook has run. The engine gets the error; handleMetaCallError() prints again,
\* with nothing set.
Thrown ==
  /\ In("thrown")
  /\ calls' = Front(calls)
  /\ printed' = IF indicator = NoError THEN printed ELSE Printed
  /\ indicator' = NoError
  /\ Same /\ UNCHANGED <<fetched, raised, misused>>

HookDone ==
  /\ In("hook")
  /\ calls' = Front(calls)
  /\ Same /\ UNCHANGED <<indicator, fetched, raised, printed, misused>>

-----------------------------------------------------------------------------
MetaInit ==
  /\ habit \in MetaPrograms
  /\ alive = Objects /\ hasProperty = Objects
  /\ calls = <<>> /\ indicator = NoError /\ fetched = {} /\ raised = 0
  /\ printed = [e \in Errors |-> 0]
  /\ misused = {}

MetaNext ==
  \/ \E o \in Objects : EmitSignal(o)
  \/ Activated
  \/ \E o \in Objects, js \in BOOLEAN : CallSlot(o, js)
  \/ \E o \in Objects, js \in BOOLEAN, e \in Errors : CallFails(o, js, e)
  \/ \E o \in Objects : CallCallback(o)
  \/ \E o \in Objects, js \in BOOLEAN : CallProperty(o, js)
  \/ \E e \in Errors : ConversionFails(e)
  \/ \E o \in Objects : Delete(o)
  \/ \E o \in Objects : DropProperty(o)
  \/ Return
  \/ \E e \in Errors : Raise(e)
  \/ RaisePending
  \/ UnknownType
  \/ ReturnToQt
  \/ HandleError
  \/ PrintForQml
  \/ Thrown
  \/ HookDone

MetaSpec == MetaInit /\ [][MetaNext]_metaVars

-----------------------------------------------------------------------------
(* Properties *)

MetaTypeOK ==
  /\ habit \in MetaPrograms
  /\ alive \subseteq Objects /\ hasProperty \subseteq Objects
  /\ calls \in Seq(Call) /\ Len(calls) <= MaxDepth
  /\ indicator \in {NoError} \cup Errors /\ fetched \subseteq Errors
  /\ raised \in {0} \cup Errors
  /\ printed \in [Errors -> Nat]
  /\ misused \subseteq {"object", "property"}

\* However calls are nested, an error that was raised is set, held by a call that handles
\* it, or has been printed, once; and none is set when the outermost call has returned.
ErrorsPrintedOnce ==
  /\ \A e \in 1..raised : (IF e = indicator \/ e \in fetched THEN 0 ELSE 1) = printed[e]
  /\ Outermost => indicator = NoError /\ fetched = {}

\* No call uses its object when that has been deleted, nor a property whose class let it go.
\* (Not so: a getter that deletes its object and raises an error is enough.)
NothingUsedAfterItsEnd == misused = {}
=============================================================================
