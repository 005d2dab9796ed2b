---------------------------- MODULE HeldCallables ----------------------------
(***************************************************************************)
(* Python callables that Qt calls later: the functions of easing curves,   *)
(* callbacks of timers, threads, requests and pages, post routines,        *)
(* accessible factories, the message handler, and objects in queued        *)
(* signals. Each is held by the glue in a way of its own, with references  *)
(* counted by hand.                                                        *)
(*                                                                         *)
(* Reference counts are a variable, so that what the glue counts can be    *)
(* compared with who really refers to a callable.                          *)
(***************************************************************************)
EXTENDS Integers, Sequences, FiniteSets

CONSTANTS
  Functions,      \* Python callables
  NoFunction,
  Curves,         \* wrappers of QEasingCurve
  MaxFunctions,   \* MAX_CUSTOM_FUNCTIONS
  Calls,          \* bound: calls to come at one time
  Values,         \* PyObjectWrapper objects
  Unmade,         \* a value that does not exist
  MaxRoutines,    \* bound: length of lists of functions
  MaxCount,       \* bound: references of a function
  HoldPrograms    \* the programs looked at

\* A program uses something: "curves" to "values"; and takes liberties: it changes or
\* drops a curve of which an animation has a copy (copies), drops calls to come that are
\* held by a pointer (drops), raises exceptions in what is called (raises), asks for
\* permissions with plain functions (plain) or with callables that are neither functions
\* nor methods (others), adds routines from routines (adds) or after the first application
\* (apps), removes the message handler (removes), logs in another thread (threads), moves
\* one value over another (moves).
ASSUME HoldAssumption ==
  /\ NoFunction \notin Functions /\ Unmade \notin Functions \cup {NoFunction}
  /\ MaxFunctions \in Nat \ {0} /\ MaxRoutines \in Nat
  /\ HoldPrograms \subseteq SUBSET {"curves", "calls", "routines", "handlers", "values", "copies",
                                    "drops", "raises", "plain", "others", "adds", "apps",
                                    "removes", "threads", "moves"}

VARIABLES
  conduct,     \* of the program; it does not change
  count,       \* function -> reference count
  known,       \* functions the program refers to
  curve,       \* curve -> alive, its __ecf__ attribute, the number of its C++ function or 0
  custom,      \* CustomFunctionsData::m_list: parent and function, or free
  animation,   \* a copy of a curve: of which, its C++ function or 0, and what it should call
  due,         \* call -> how it is held, function, whether it is under way; or NoCall
  routines,    \* globalPostRoutineFunctions
  factories,   \* PySideAccessibleFactory::m_factoryFunctions
  loop,        \* place in the loop over routines, and its end; 0 outside
  app,         \* there is an application
  hooked,      \* Qt has globalPostRoutineCallback() in its list
  handler,     \* qtmsghandler
  logging,     \* another thread is on its way into msgHandlerCallback()
  payload,     \* value -> function, NoFunction for nullptr, or Unmade
  error,       \* an exception was left behind
  crashed      \* a null pointer was used, and the process is gone

holdVars == <<conduct, count, known, curve, custom, animation, due, routines, factories, loop, app,
              hooked, handler, logging, payload, error, crashed>>
curveVars == <<curve, custom, animation>>
routineVars == <<routines, factories, loop, app, hooked>>
handlerVars == <<handler, logging>>

FreeSlot == [parent |-> NoFunction, function |-> NoFunction]
NoCurve == [alive |-> FALSE, attribute |-> NoFunction, custom |-> 0]
NoAnimation == [of |-> NoFunction, custom |-> 0, wanted |-> NoFunction]
NoCall == [kind |-> "none"]

\* Reference counts with one more of new and one less of old
Counted(new, old) ==
  [f \in Functions |-> count[f] + (IF f = new THEN 1 ELSE 0) - (IF f = old THEN 1 ELSE 0)]

\* What is called may raise an exception, and nobody looks.
MayLeaveError == error' \in IF "raises" \in conduct THEN {error, TRUE} ELSE {error}

-----------------------------------------------------------------------------
(* The program *)

Define(f) ==
  /\ f \notin known /\ count[f] = 0
  /\ known' = known \cup {f} /\ count' = Counted(f, NoFunction)
  /\ UNCHANGED <<conduct, curveVars, due, routineVars, handlerVars, payload, error>>

LetGo(f) ==
  /\ f \in known
  /\ known' = known \ {f} /\ count' = Counted(NoFunction, f)
  /\ UNCHANGED <<conduct, curveVars, due, routineVars, handlerVars, payload, error>>

-----------------------------------------------------------------------------
(* Easing curves *)

NewCurve(c) ==
  /\ "curves" \in conduct /\ ~curve[c].alive
  /\ curve' = [curve EXCEPT ![c].alive = TRUE]
  /\ UNCHANGED <<conduct, count, known, custom, animation, due, routineVars, handlerVars, payload, error>>

\* createCustomFunction() looks for a free place; those of the curve's earlier functions are
\* not free before it dies.
FreeSlots(c) == {i \in 1..MaxFunctions : custom[i] = FreeSlot}

\* setCustomType(): nothing happens without a place. The attribute keeps the function.
SetCustomType(c, f) ==
  /\ curve[c].alive /\ f \in known
  /\ "copies" \in conduct \/ animation.of # c
  /\ FreeSlots(c) # {}
  /\ LET i == CHOOSE j \in FreeSlots(c) : \A k \in FreeSlots(c) : j <= k IN
     /\ custom' = [custom EXCEPT ![i] = [parent |-> c, function |-> f]]
     /\ curve' = [curve EXCEPT ![c].attribute = f, ![c].custom = i]
  /\ count' = Counted(f, curve[c].attribute)
  /\ UNCHANGED <<conduct, known, animation, due, routineVars, handlerVars, payload, error>>

\* deleteData() by the weak references of a curve: its places are free, the attribute is None.
Deleted(c) == [i \in 1..MaxFunctions |-> IF custom[i].parent = c THEN FreeSlot ELSE custom[i]]
DropCurve(c) ==
  /\ curve[c].alive
  /\ "copies" \in conduct \/ animation.of # c
  /\ custom' = Deleted(c) /\ curve' = [curve EXCEPT ![c] = NoCurve]
  /\ count' = Counted(NoFunction, curve[c].attribute)
  /\ UNCHANGED <<conduct, known, animation, due, routineVars, handlerVars, payload, error>>

\* QVariantAnimation::setEasingCurve()
CopyCurve(c) ==
  /\ curve[c].alive /\ curve[c].custom # 0
  /\ animation' = [of |-> c, custom |-> curve[c].custom, wanted |-> curve[c].attribute]
  /\ UNCHANGED <<conduct, count, known, curve, custom, due, routineVars, handlerVars, payload, error>>

DropAnimation ==
  /\ animation # NoAnimation
  /\ animation' = NoAnimation
  /\ UNCHANGED <<conduct, count, known, curve, custom, due, routineVars, handlerVars, payload, error>>

\* callback() of a place, PySideEasingCurveFunctor::operator(): errors stay.
Ease ==
  /\ animation # NoAnimation
  /\ MayLeaveError
  /\ UNCHANGED <<conduct, count, known, curveVars, due, routineVars, handlerVars, payload>>

-----------------------------------------------------------------------------
(* Calls to come *)

\* How a callable is held: by a holder, which prints errors (functor) or does not (holder),
\* by a connection of a timer that deletes itself (timer), by a pointer in a lambda function
\* or functor that is released in the call (pointer).
ReleasedWithoutCall == {"functor", "holder", "timer"}
HandlesErrors == {"functor", "timer"}

Take(k, kind, f) ==
  /\ "calls" \in conduct /\ f \in known /\ due[k] = NoCall
  /\ due' = [due EXCEPT ![k] = [kind |-> kind, function |-> f, running |-> FALSE]]
  /\ count' = Counted(f, NoFunction)
  /\ UNCHANGED <<conduct, known, curveVars, routineVars, handlerVars, payload>>
Hand(k, kind, f) == Take(k, kind, f) /\ UNCHANGED error

\* QTimer.singleShot(): at once or later; at once, a signal instance is held by a pointer.
SingleShot(k, f) == \E kind \in {"functor", "pointer", "timer"} : Hand(k, kind, f)
SingleShotInContext(k, f) == \E kind \in {"pointer", "timer"} : Hand(k, kind, f)

\* QThreadPool.start() and tryStart(), which may find no thread: the reference stays (drops).
Start(k, f) ==
  \E found \in {TRUE, "drops" \notin conduct} :
    IF found THEN Hand(k, "pointer", f)
    ELSE /\ "calls" \in conduct /\ f \in known
         /\ count' = Counted(f, NoFunction)
         /\ UNCHANGED <<conduct, known, curveVars, due, routineVars, handlerVars, payload, error>>

\* QCoreApplication.requestPermission() looks for __func__, which a plain function does not
\* have, and the AttributeError stays; a callable with too many arguments is refused.
RequestPermission(k, f) ==
  \E form \in {"method"} \cup (conduct \cap {"plain"}) :
    /\ error' = (error \/ form = "plain")
    /\ \/ Take(k, "pointer", f)
       \/ /\ "calls" \in conduct /\ f \in known
          /\ UNCHANGED <<conduct, count, known, curveVars, due, routineVars, handlerVars, payload>>
\* Without __func__ and __code__, __code__ is looked for in the null pointer.
RequestPermissionCrashes ==
  /\ {"calls", "others"} \subseteq conduct /\ known # {}
  /\ crashed' = TRUE
  /\ UNCHANGED <<conduct, count, known, curveVars, due, routineVars, handlerVars, payload, error>>

FindText(k, f) == Hand(k, "pointer", f)
RestRequest(k, f) == Hand(k, "pointer", f)
LookupHost(k, f) == Hand(k, "holder", f)

\* Other code runs while the call is under way.
Run(k) ==
  /\ due[k] # NoCall /\ ~due[k].running
  /\ due' = [due EXCEPT ![k].running = TRUE]
  /\ UNCHANGED <<conduct, count, known, curveVars, routineVars, handlerVars, payload, error>>

\* Mutation of AfterCall: nothing is released.
AfterCallKept(f) == count

AfterCall(f) == Counted(NoFunction, f)

Finish(k) ==
  /\ due[k] # NoCall /\ due[k].running
  /\ due' = [due EXCEPT ![k] = NoCall]
  /\ count' = AfterCall(due[k].function)
  /\ IF due[k].kind \in HandlesErrors THEN UNCHANGED error ELSE MayLeaveError
  /\ UNCHANGED <<conduct, known, curveVars, routineVars, handlerVars, payload>>

\* The context, the request or the page dies, the pool is cleared.
Drop(k) ==
  /\ due[k] # NoCall /\ ~due[k].running
  /\ "drops" \in conduct \/ due[k].kind \in ReleasedWithoutCall
  /\ due' = [due EXCEPT ![k] = NoCall]
  /\ count' = IF due[k].kind \in ReleasedWithoutCall THEN Counted(NoFunction, due[k].function) ELSE count
  /\ UNCHANGED <<conduct, known, curveVars, routineVars, handlerVars, payload, error>>

-----------------------------------------------------------------------------
(* Post routines, accessible factories *)

addPostRoutine(f) ==
  /\ "routines" \in conduct /\ f \in known /\ Len(routines) < MaxRoutines
  /\ loop.at = 0 \/ ("adds" \in conduct /\ loop.at > 1)
  /\ hooked \/ loop.at # 0 \/ "apps" \in conduct
  /\ routines' = Append(routines, f) /\ count' = Counted(f, NoFunction)
  /\ UNCHANGED <<conduct, known, curveVars, due, factories, loop, app, hooked, handlerVars, payload, error>>

\* ensureInstance() has cleanup() called with the application.
installFactory(f) ==
  /\ "routines" \in conduct /\ f \in known /\ app /\ Len(factories) < MaxRoutines
  /\ factories' = Append(factories, f) /\ count' = Counted(f, NoFunction)
  /\ UNCHANGED <<conduct, known, curveVars, due, routines, loop, app, hooked, handlerVars, payload, error>>

\* callFactories(): an error of one stays while the next is called.
callFactories ==
  /\ factories # <<>>
  /\ MayLeaveError
  /\ UNCHANGED <<conduct, count, known, curveVars, due, routineVars, handlerVars, payload>>

\* cleanup()
cleanup == [f \in Functions |-> count[f] - Cardinality({i \in DOMAIN factories : factories[i] = f})]

\* Qt takes each routine out of its list and calls it, once.
ApplicationEnds ==
  /\ "routines" \in conduct /\ app
  /\ app' = FALSE /\ hooked' = FALSE
  /\ factories' = <<>> /\ count' = cleanup
  /\ loop' = IF hooked THEN [at |-> 1, end |-> Len(routines)] ELSE loop
  /\ UNCHANGED <<conduct, known, curveVars, due, routines, handlerVars, payload, error>>

\* globalPostRoutineCallback(), to the end the list had; it is then emptied.
RunRoutine ==
  /\ loop.at # 0 /\ loop.at <= loop.end
  /\ count' = Counted(NoFunction, routines[loop.at])
  /\ loop' = [loop EXCEPT !.at = @ + 1]
  /\ MayLeaveError
  /\ UNCHANGED <<conduct, known, curveVars, due, routines, factories, app, hooked, handlerVars, payload>>
RoutinesDone ==
  /\ loop.at > loop.end
  /\ routines' = <<>> /\ loop' = [at |-> 0, end |-> 0]
  /\ UNCHANGED <<conduct, count, known, curveVars, due, factories, app, hooked, handlerVars, payload, error>>

NewApplication ==
  /\ ~app /\ loop.at = 0
  /\ app' = TRUE
  /\ UNCHANGED <<conduct, count, known, curveVars, due, routines, factories, loop, hooked, handlerVars, payload, error>>

-----------------------------------------------------------------------------
(* The message handler *)

\* The result is the old handler, with its reference: the program keeps it or not.
ReturnsOld(new) ==
  \/ /\ handler # NoFunction /\ handler \notin known
     /\ known' = known \cup {handler} /\ count' = Counted(new, NoFunction)
  \/ known' = known /\ count' = Counted(new, handler)

qInstallMessageHandler(f) ==
  /\ "handlers" \in conduct /\ f \in known \cup (IF "removes" \in conduct THEN {NoFunction} ELSE {})
  /\ ReturnsOld(f) /\ handler' = f
  /\ UNCHANGED <<conduct, curveVars, due, routineVars, logging, payload, error>>

\* Qt has taken the pointer to msgHandlerCallback(), which waits for the GIL.
Log ==
  /\ "threads" \in conduct /\ handler # NoFunction /\ ~logging
  /\ logging' = TRUE
  /\ UNCHANGED <<conduct, count, known, curveVars, due, routineVars, handler, payload, error>>

\* An error of the handler is replaced by the one before.
msgHandlerCallback ==
  /\ logging
  /\ logging' = FALSE
  /\ UNCHANGED <<conduct, count, known, curveVars, due, routineVars, handler, payload, error>>

-----------------------------------------------------------------------------
(* PyObjectWrapper *)

Hold(v, f, new, old) ==
  /\ payload' = [payload EXCEPT ![v] = f] /\ count' = Counted(new, old)
  /\ UNCHANGED <<conduct, known, curveVars, due, routineVars, handlerVars, error>>

Construct(v, f) == "values" \in conduct /\ payload[v] = Unmade /\ f \in known /\ Hold(v, f, f, NoFunction)
CopyConstruct(v, w) ==
  payload[v] = Unmade /\ payload[w] # Unmade /\ Hold(v, payload[w], payload[w], NoFunction)

MoveInto(v, w) ==
  /\ payload' = [payload EXCEPT ![v] = payload[w], ![w] = NoFunction]
  /\ UNCHANGED <<conduct, count, known, curveVars, due, routineVars, handlerVars, error>>
MoveConstruct(v, w) == payload[v] = Unmade /\ payload[w] # Unmade /\ MoveInto(v, w)
\* The reference that was there is not released.
MoveAssign(v, w) ==
  /\ {payload[v], payload[w]} \cap {Unmade} = {} /\ v # w
  /\ payload[v] = NoFunction \/ "moves" \in conduct
  /\ MoveInto(v, w)

\* reset()
CopyAssign(v, w) ==
  /\ {payload[v], payload[w]} \cap {Unmade} = {} /\ v # w
  /\ Hold(v, payload[w], payload[w], payload[v])
Destruct(v) == payload[v] # Unmade /\ Hold(v, Unmade, NoFunction, payload[v])

-----------------------------------------------------------------------------
HoldInit ==
  /\ conduct \in HoldPrograms
  /\ count = [f \in Functions |-> 0] /\ known = {}
  /\ curve = [c \in Curves |-> NoCurve] /\ custom = [i \in 1..MaxFunctions |-> FreeSlot]
  /\ animation = NoAnimation
  /\ due = [k \in Calls |-> NoCall]
  /\ routines = <<>> /\ factories = <<>> /\ loop = [at |-> 0, end |-> 0] /\ app = TRUE /\ hooked = TRUE
  /\ handler = NoFunction /\ logging = FALSE
  /\ payload = [v \in Values |-> Unmade]
  /\ error = FALSE /\ crashed = FALSE

HoldSteps ==
  \/ \E f \in Functions : Define(f) \/ LetGo(f) \/ addPostRoutine(f) \/ installFactory(f)
  \/ \E c \in Curves : NewCurve(c) \/ DropCurve(c) \/ CopyCurve(c) \/ \E f \in Functions : SetCustomType(c, f)
  \/ DropAnimation \/ Ease \/ callFactories
  \/ \E k \in Calls, f \in Functions :
       \/ SingleShot(k, f) \/ SingleShotInContext(k, f) \/ Start(k, f)
       \/ RequestPermission(k, f) \/ FindText(k, f) \/ RestRequest(k, f) \/ LookupHost(k, f)
  \/ \E k \in Calls : Run(k) \/ Finish(k) \/ Drop(k)
  \/ ApplicationEnds \/ RunRoutine \/ RoutinesDone \/ NewApplication
  \/ Log \/ msgHandlerCallback
  \/ \E f \in Functions \cup {NoFunction} : qInstallMessageHandler(f)
  \/ \E v \in Values : Destruct(v) \/ \E f \in Functions : Construct(v, f)
  \/ \E v, w \in Values : CopyConstruct(v, w) \/ MoveConstruct(v, w) \/ MoveAssign(v, w) \/ CopyAssign(v, w)

HoldNext ==
  /\ ~crashed
  /\ RequestPermissionCrashes \/ (HoldSteps /\ UNCHANGED crashed)
  /\ \A f \in Functions : count'[f] <= MaxCount

HoldSpec == HoldInit /\ [][HoldNext]_holdVars

-----------------------------------------------------------------------------
(* Properties *)

HoldTypeOK ==
  /\ conduct \in HoldPrograms
  /\ count \in [Functions -> Int] /\ known \subseteq Functions
  /\ \A c \in Curves : curve[c].attribute \in Functions \cup {NoFunction} /\ curve[c].custom \in 0..MaxFunctions
  /\ \A i \in 1..MaxFunctions : custom[i].function \in Functions \cup {NoFunction}
  /\ animation.custom \in 0..MaxFunctions
  /\ routines \in Seq(Functions) /\ factories \in Seq(Functions)
  /\ handler \in Functions \cup {NoFunction} /\ {app, hooked, logging, error, crashed} \subseteq BOOLEAN
  /\ \A v \in Values : payload[v] \in Functions \cup {NoFunction, Unmade}

\* Who refers to a function and will release it
Holders(f) ==
  {<<"program">> : g \in known \cap {f}}
  \cup {<<"curve", c>> : c \in {d \in Curves : curve[d].attribute = f}}
  \cup {<<"call", k>> : k \in {j \in Calls : due[j] # NoCall /\ due[j].function = f}}
  \cup {<<"routine", i>> : i \in {j \in DOMAIN routines : routines[j] = f /\ j >= loop.at}}
  \cup {<<"factory", i>> : i \in {j \in DOMAIN factories : factories[j] = f}}
  \cup {<<"handler">> : h \in {handler} \cap {f}}
  \cup {<<"value", v>> : v \in {w \in Values : payload[w] = f}}

\* What a curve or a copy of it calls
Eases(i, f) == custom[i].function = f /\ count[f] > 0

\* Nothing that anyone will call was freed, whatever liberties a program takes; and nothing is
\* kept for ever, unless calls to come are dropped, routines add routines, or values are moved
\* over values.
CountsHold ==
  \A f \in Functions :
    /\ count[f] >= Cardinality(Holders(f))
    /\ conduct \cap {"drops", "adds", "moves"} = {} => count[f] = Cardinality(Holders(f))

\* A curve and its copy call the function of the curve, and only curves that live take up
\* places, unless the curve is changed after it was copied.
CurvesHold ==
  /\ \A c \in Curves : curve[c].custom # 0 => Eases(curve[c].custom, curve[c].attribute)
  /\ "copies" \notin conduct /\ animation.custom # 0 => Eases(animation.custom, animation.wanted)
  /\ \A i \in 1..MaxFunctions : custom[i] # FreeSlot => curve[custom[i].parent].alive

\* Every callable has the references of those that hold it; the functions of curves are those
\* that were set; an application leaves no factories, and no routines if they were added while
\* it lived; there is a handler when one is called; and no exception is left behind by a
\* program that neither raises any nor asks for permissions with plain functions.
CallablesHeld ==
  /\ CountsHold
  /\ CurvesHold
  /\ ~app /\ loop.at = 0 => factories = <<>> /\ ("apps" \notin conduct => routines = <<>>)
  /\ logging /\ ~({"removes", "threads"} \subseteq conduct) => handler # NoFunction
  /\ conduct \cap {"raises", "plain"} = {} => ~error
=============================================================================
