---------------------------- MODULE RemoteObjects ----------------------------
(***************************************************************************)
(* Types made from .rep files (libpysideremoteobjects: RepFile in          *)
(* pysiderephandler.cpp; pysidedynamicpod.cpp, pysidedynamicclass.cpp,     *)
(* pysidedynamicenum.cpp, pysidedynamiccommon.cpp and _p.h,                *)
(* pysidecapsulemethod.cpp).                                               *)
(*                                                                         *)
(* A RepFile makes a Python type for each POD, and a source and a replica  *)
(* type for each class. What C++ has for a type (its meta object, below a  *)
(* QObject, and its converter) is deleted by capsules that are attributes  *)
(* of the type; they are counted. Default values of properties are given   *)
(* by evaluating Python. A source keeps its values in a list, at first     *)
(* shared with its type; a changed value is notified, and slots may change *)
(* values again. What replicas do is sent away and has no state here.      *)
(***************************************************************************)
EXTENDS Naturals, FiniteSets, SequencesExt, Selection

CONSTANTS
  Asts,           \* contents of .rep files: sequences of declarations
  MaxFiles,       \* bound: RepFile objects
  Sources,        \* addresses of source objects
  Values,         \* of their property
  Default,        \* the one the .rep file gives
  Bindings,       \* sets of <<o, p>>: a slot on a change of o sets p
  RemotePrograms  \* the programs looked at

\* A declaration is a "pod" or a "class"; it has a number of enumerations; its default is
\* "none", "good" or "bad" to evaluate; a POD may have a property of an unknown type.
Declaration == [kind : {"pod", "class"}, enums : Nat, default : {"none", "good", "bad"}, known : BOOLEAN]

\* What a program may do: go on when a .rep file could not be loaded (mistakes); give
\* properties to the constructor of a source (keywords); keep a method of a source that is
\* gone (keeps); set a property while a value for it is converted (converts).
ASSUME RemoteAssumption ==
  /\ MaxFiles \in Nat /\ Default \in Values /\ IsFiniteSet(Sources)
  /\ Asts \subseteq Seq(Declaration)
  /\ Bindings \subseteq SUBSET (Sources \X Sources)
  /\ RemotePrograms \subseteq SUBSET {"mistakes", "keywords", "keeps", "converts"}

VARIABLES
  conduct,        \* of the program; it does not change
  bound,          \* of the program; it does not change
  files,          \* RepFile objects
  pyTypes,        \* types, in the order they were made
  capsule_count,
  pyLocals,       \* the dict in which defaults are evaluated
  sources,        \* source objects
  methods,        \* sources of bound methods that the program has
  setters,        \* calls of setters, the last one runs
  misused         \* what was used that does not exist

remoteVars == <<conduct, bound, files, pyTypes, capsule_count, pyLocals, sources, methods, setters, misused>>

\* Steps of a file: a POD is one, a class two. at: the declaration and which type of it.
RepFile == [ast : Asts, at : Nat, replica : BOOLEAN, state : {"loading", "loaded", "gone"}]
PyType == [kind : {"pod", "source", "replica"}, file : 1..MaxFiles, alive : BOOLEAN, meta : BOOLEAN,
           leaked : BOOLEAN, cleanups : Nat]
Source == [alive : BOOLEAN, type : Nat, hasProperties : BOOLEAN, value : Values, shared : BOOLEAN]
SetterCall == [object : Sources, value : Values, shared : BOOLEAN, step : {"convert", "notify"},
           left : SUBSET Sources]

-----------------------------------------------------------------------------
(* RepFile *)

\* Capsules of a type: its QObject; the converter of a POD; those of its enumerations,
\* which live in a dict that is an attribute.
Cleanups(d) == 1 + (IF d.kind = "pod" THEN 1 ELSE 0) + d.enums

NewPyType(f, kind, cleanups, leaked) ==
  [kind |-> kind, file |-> f, alive |-> TRUE, meta |-> ~leaked, leaked |-> leaked, cleanups |-> cleanups]

Loads(f) == /\ files[f].state = "loading" /\ files[f].at <= Len(files[f].ast)
DeclarationOf(f) == files[f].ast[files[f].at]

\* The object of a file whose loading failed is deallocated.
Failed(f) == [files EXCEPT ![f].state = "gone"]

\* While a file is loaded, and while a setter runs, the program does nothing else.
Free == setters = <<>> /\ \A f \in 1..Len(files) : files[f].state # "loading"

NewRepFile(ast) ==
  /\ Len(files) < MaxFiles /\ Free
  /\ files' = Append(files, [ast |-> ast, at |-> 1, replica |-> FALSE, state |-> "loading"])
  /\ UNCHANGED <<conduct, bound, pyTypes, capsule_count, pyLocals, sources, methods, setters, misused>>

\* createPodType(): enumerations come first; the type is not released when a property has
\* an unknown type.
LoadPod(f) ==
  /\ Loads(f) /\ DeclarationOf(f).kind = "pod"
  /\ LET d == DeclarationOf(f)  made == IF d.known THEN Cleanups(d) ELSE d.enums IN
       /\ d.known \/ "mistakes" \in conduct
       /\ pyTypes' = Append(pyTypes, NewPyType(f, "pod", made, ~d.known))
       /\ capsule_count' = capsule_count + made
       /\ files' = IF d.known THEN [files EXCEPT ![f].at = @ + 1] ELSE Failed(f)
  /\ UNCHANGED <<conduct, bound, pyLocals, sources, methods, setters, misused>>

\* instantiateFromDefaultValue(): the dict is static, and released when an evaluation fails.
Evaluated(given) ==
  CASE given = "none" -> pyLocals
    [] given = "good" -> IF pyLocals = "none" THEN "made" ELSE pyLocals
    [] given = "bad" -> "freed"

\* generateProperties(), then createDynamicClass(): first for the source, then for the
\* replica, with the defaults evaluated again.
LoadClass(f) ==
  /\ Loads(f) /\ DeclarationOf(f).kind = "class"
  /\ LET d == DeclarationOf(f) IN
       /\ d.default = "bad" => "mistakes" \in conduct
       /\ pyLocals' = Evaluated(d.default)
       /\ misused' = misused \cup (IF d.default # "none" /\ pyLocals = "freed" THEN {"locals"} ELSE {})
       /\ IF d.default = "bad"
          THEN /\ files' = Failed(f)
               /\ UNCHANGED <<pyTypes, capsule_count>>
          ELSE /\ pyTypes' = Append(pyTypes, NewPyType(f, IF files[f].replica THEN "replica" ELSE "source", Cleanups(d), FALSE))
               /\ capsule_count' = capsule_count + Cleanups(d)
               /\ files' = [files EXCEPT ![f].at = IF files[f].replica THEN @ + 1 ELSE @,
                                         ![f].replica = ~@]
  /\ UNCHANGED <<conduct, bound, sources, methods, setters>>

Loaded(f) ==
  /\ files[f].state = "loading" /\ files[f].at = Len(files[f].ast) + 1
  /\ files' = [files EXCEPT ![f].state = "loaded"]
  /\ UNCHANGED <<conduct, bound, pyTypes, capsule_count, pyLocals, sources, methods, setters, misused>>

\* The program drops the object: its dicts go.
DropFile(f) ==
  /\ files[f].state = "loaded" /\ Free
  /\ files' = [files EXCEPT ![f].state = "gone"]
  /\ UNCHANGED <<conduct, bound, pyTypes, capsule_count, pyLocals, sources, methods, setters, misused>>

InUse(t) == \/ files[pyTypes[t].file].state # "gone"
            \/ pyTypes[t].leaked
            \/ \E o \in Sources : sources[o].alive /\ sources[o].type = t

\* Mutation of Uncounted: enumerations are not counted down.
UncountedSome(t) == capsule_count - (IF pyTypes[t].cleanups > 1 THEN pyTypes[t].cleanups - 1 ELSE 1)

\* Capsule_destructor(), for each capsule of the type
Uncounted(t) == capsule_count - pyTypes[t].cleanups

\* The last reference to a type goes: its attributes do, and what C++ has.
CollectType(t) ==
  /\ pyTypes[t].alive /\ ~InUse(t) /\ Free
  /\ pyTypes' = [pyTypes EXCEPT ![t].alive = FALSE, ![t].meta = FALSE]
  /\ capsule_count' = Uncounted(t)
  /\ UNCHANGED <<conduct, bound, files, pyLocals, sources, methods, setters, misused>>

-----------------------------------------------------------------------------
(* Sources *)

\* SourceDefs::tp_init(): the constructor of QObject takes the keywords, then the object
\* is given its values.
NewSource(o, t, keyword) ==
  /\ ~sources[o].alive /\ o \notin methods /\ Free
  /\ pyTypes[t].alive /\ pyTypes[t].kind = "source" /\ files[pyTypes[t].file].state = "loaded"
  /\ keyword => "keywords" \in conduct
  /\ sources' = [sources EXCEPT ![o] = [alive |-> TRUE, type |-> t, hasProperties |-> TRUE,
                                        value |-> Default, shared |-> TRUE]]
  /\ misused' = misused \cup (IF keyword THEN {"properties"} ELSE {})
  /\ UNCHANGED <<conduct, bound, files, pyTypes, capsule_count, pyLocals, methods, setters>>

DropSource(o) ==
  /\ sources[o].alive /\ Free
  /\ o \in methods => "keeps" \in conduct
  /\ sources' = [sources EXCEPT ![o].alive = FALSE]
  /\ UNCHANGED <<conduct, bound, files, pyTypes, capsule_count, pyLocals, methods, setters, misused>>

\* CapsuleMethod_descr_get(): the instance is not referenced.
BindMethod(o) ==
  /\ sources[o].alive /\ Free
  /\ methods' = methods \cup {o}
  /\ UNCHANGED <<conduct, bound, files, pyTypes, capsule_count, pyLocals, sources, setters, misused>>

Called(o, v) == [object |-> o, value |-> v, shared |-> sources[o].shared, step |-> "convert", left |-> {}]

\* A bound method is called and forgotten; push...() sets the property it is named after.
CallMethod(o, v) ==
  /\ o \in methods /\ Free
  /\ methods' = methods \ {o}
  /\ misused' = misused \cup (IF sources[o].alive THEN {} ELSE {"self"})
  /\ setters' = IF sources[o].alive THEN <<Called(o, v)>> ELSE <<>>
  /\ UNCHANGED <<conduct, bound, files, pyTypes, capsule_count, pyLocals, sources>>

\* capsule_method_handler(), with one argument. A reference into the list is taken.
SetProperty(o, v) ==
  /\ sources[o].alive
  /\ ~Free => "converts" \in conduct /\ Len(setters) = 1 /\ Last(setters).step = "convert"
  /\ setters' = Append(setters, Called(o, v))
  /\ UNCHANGED <<conduct, bound, files, pyTypes, capsule_count, pyLocals, sources, methods, misused>>

\* Mutation of Unchanged: values are not compared.
UnchangedNever(s) == FALSE

\* The referenced value: in the list of the type if the object got its own since.
Unchanged(s) == s.value = IF s.shared /\ ~sources[s.object].shared THEN Default ELSE sources[s.object].value

\* The value is converted: if it is another one it is stored, and the change notified.
StoreProperty ==
  /\ setters # <<>> /\ Last(setters).step = "convert"
  /\ LET s == Last(setters) IN
     IF Unchanged(s)
     THEN /\ setters' = Front(setters)
          /\ UNCHANGED sources
     ELSE /\ sources' = [sources EXCEPT ![s.object].value = s.value, ![s.object].shared = FALSE]
          /\ setters' = Append(Front(setters), [s EXCEPT !.step = "notify",
                                                         !.left = {p \in Sources : <<s.object, p>> \in bound}])
  /\ UNCHANGED <<conduct, bound, files, pyTypes, capsule_count, pyLocals, methods, misused>>

\* QMetaObject::activate(): slots are called one after the other with that value.
NotifyNext ==
  /\ setters # <<>> /\ Last(setters).step = "notify"
  /\ LET s == Last(setters) IN
     IF s.left = {} THEN setters' = Front(setters)
     ELSE \E p \in s.left :
            LET rest == Append(Front(setters), [s EXCEPT !.left = @ \ {p}]) IN
            setters' = IF sources[p].alive THEN Append(rest, Called(p, s.value)) ELSE rest
  /\ UNCHANGED <<conduct, bound, files, pyTypes, capsule_count, pyLocals, sources, methods, misused>>

RemoteInit ==
  /\ conduct \in RemotePrograms /\ bound \in Bindings
  /\ files = <<>> /\ pyTypes = <<>> /\ capsule_count = 0 /\ pyLocals = "none"
  /\ sources = [o \in Sources |-> [alive |-> FALSE, type |-> 0, hasProperties |-> FALSE,
                                   value |-> Default, shared |-> FALSE]]
  /\ methods = {} /\ setters = <<>> /\ misused = {}

RemoteNext ==
  \/ \E ast \in Asts : NewRepFile(ast)
  \/ \E f \in 1..Len(files) : LoadPod(f) \/ LoadClass(f) \/ Loaded(f) \/ DropFile(f)
  \/ \E t \in 1..Len(pyTypes) : CollectType(t)
  \/ \E o \in Sources, t \in 1..Len(pyTypes), keyword \in BOOLEAN : NewSource(o, t, keyword)
  \/ \E o \in Sources : DropSource(o) \/ BindMethod(o)
  \/ \E o \in Sources, v \in Values : SetProperty(o, v) \/ CallMethod(o, v)
  \/ StoreProperty
  \/ NotifyNext

RemoteSpec == RemoteInit /\ [][RemoteNext]_remoteVars

-----------------------------------------------------------------------------
(* Properties *)

RemoteTypeOK ==
  /\ conduct \in RemotePrograms /\ bound \in Bindings
  /\ files \in Seq(RepFile) /\ Len(files) <= MaxFiles
  /\ pyTypes \in Seq(PyType)
  /\ capsule_count \in Nat
  /\ pyLocals \in {"none", "made", "freed"}
  /\ sources \in [Sources -> Source]
  /\ methods \subseteq Sources
  /\ setters \in Seq(SetterCall)
  /\ misused \subseteq {"locals", "properties", "self"}

\* The capsules that are counted are those of types that live; once nothing uses them and
\* they are collected none is left, whatever files could be loaded in part, but for a POD
\* with an unknown type. No source outlives its meta object.
CapsulesReturn ==
  /\ capsule_count = Total([t \in 1..Len(pyTypes) |-> IF pyTypes[t].alive THEN pyTypes[t].cleanups ELSE 0])
  /\ \A t \in DOMAIN pyTypes : "mistakes" \notin conduct => ~pyTypes[t].leaked
  /\ \A o \in Sources : sources[o].alive => pyTypes[sources[o].type].meta

\* Sources whose properties are bound to each other settle: a change goes round once, and
\* then they agree, also if values were set again while they were converted or notified.
BindingsSettle ==
  "converts" \notin conduct =>
    /\ Len(setters) <= Cardinality(Sources) + 1
    /\ setters = <<>> =>
         \A o, p \in Sources :
           <<o, p>> \in bound /\ <<p, o>> \in bound /\ sources[o].alive /\ sources[p].alive
             /\ ~sources[o].shared /\ ~sources[p].shared => sources[o].value = sources[p].value

\* Not true of programs with "mistakes", "keywords" or "keeps": nothing is used that is gone
\* or not yet there, the dict of the defaults, the values of a source or the source of a
\* bound method.
NothingMisused == misused = {}
=============================================================================
