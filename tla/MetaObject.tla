------------------------------ MODULE MetaObject ------------------------------
(***************************************************************************)
(* The dynamic meta objects of libpyside (dynamicqmetaobject.cpp,          *)
(* signalmanager.cpp, pyside.cpp, pysideclassinfo.cpp).                    *)
(*                                                                         *)
(* A class has a MetaObjectBuilder with the signals and slots found when   *)
(* it was defined. An object uses that of its class until a method unknown *)
(* to it is connected: from then on it has a builder of its own on top of  *)
(* the meta object it had. update() turns a builder that is dirty into a   *)
(* QMetaObject, which never changes; connections refer to its methods by   *)
(* index. A step is what a thread does while it holds the GIL: it may hand *)
(* the GIL over when Python code runs, here in the warnings module, in a   *)
(* message handler and in __setattr__.                                     *)
(***************************************************************************)
EXTENDS Naturals, FiniteSets, SequencesExt, Selection

CONSTANTS
  Names,          \* signatures
  QtClass,        \* the wrapped C++ class
  QtMethods,      \* the methods of its static meta object
  PyClasses,      \* classes that Python code may define
  Bodies,         \* what may stand in them: dicts of the class and its mixins
  Objects,
  Foreign,        \* the objects that C++ code created (no C++ wrapper)
  NoClass,        \* the object does not exist
  NoBuilder,
  Threads,
  Idle,
  PythonRuns      \* Python code runs in the places named above

Kinds == {"signal", "slot"}
Method == [kind : Kinds, name : Names]
Classes == PyClasses \cup {QtClass}

ASSUME ClassAssumption ==
  /\ QtClass \notin PyClasses
  /\ NoClass \notin Classes
  /\ QtMethods \in Seq(Method)
  /\ Bodies \subseteq Seq(Seq(Method))
ASSUME ObjectAssumption == Foreign \subseteq Objects
ASSUME PythonAssumption == PythonRuns \in BOOLEAN

\* MetaObjectBuilderPrivate: m_baseObject (all its methods), whether there is an
\* m_builder, its methods, m_dirty, and the methods in m_cachedMetaObjects.back().
Builder == [base : Seq(Method), own : Seq(Method), made : BOOLEAN,
            dirty : BOOLEAN, cached : Seq(Method)]

\* A thread that waits for Python code: in the warning of update() or before a
\* method is added. It wants the index of a method, unless it only calls update().
Call == [step : {"warned", "adding"}, object : Objects, method : Method]

ASSUME SpecialAssumption == NoBuilder \notin Builder /\ Idle \notin Call

VARIABLES
  mo,             \* the builder of a class, TypeUserData::mo
  classOf,        \* the class of an object
  dmo,            \* the builder of an object, its __METAOBJECT__
  calls,          \* the call a thread is in
  handed          \* the indexes returned: object, method and index

vars == <<mo, classOf, dmo, calls, handed>>

-----------------------------------------------------------------------------
(* Builders *)

\* What update() returns, once a builder that is dirty has been built.
Returned(b) == IF b.made THEN b.base \o b.cached ELSE b.base

NeedsUpdate(b) == b.made /\ b.dirty

Signals(methods) == Chosen(methods, [kind : {"signal"}, name : Names])
Slots(methods) == Chosen(methods, [kind : {"slot"}, name : Names])

\* checkMethodOrder()
Ordered(methods) ==
  ~ \E i \in 1 .. Len(methods) - 1 : methods[i].kind = "slot" /\ methods[i + 1].kind = "signal"

\* toMetaObject()
Built(b) == [b EXCEPT !.cached = b.own]

\* update(), if no warning is due or the warning runs no Python code.
Updated(b) == IF NeedsUpdate(b) THEN [Built(b) EXCEPT !.dirty = FALSE] ELSE b

\* The warning hands the GIL over.
Pauses(b) == PythonRuns /\ NeedsUpdate(b) /\ ~Ordered(b.own)

\* Mutation of Added: signals go before slots, as they were sorted once.
AddedSorted(b, m) ==
  [b EXCEPT !.made = TRUE, !.dirty = TRUE,
            !.own = IF m.kind = "signal" THEN Signals(@) \o <<m>> \o Slots(@) ELSE Append(@, m)]

\* addSignal(), addSlot(), with ensureBuilder()
Added(b, m) == [b EXCEPT !.made = TRUE, !.dirty = TRUE, !.own = Append(@, m)]

\* Mutation of NewIndex: the methods of the base are not counted.
NewIndexInBuilder(b) == Len(b.own) + 1

\* The index they return (counted from 1).
NewIndex(b) == Len(b.base) + Len(b.own) + 1

Found(methods, m) == {i \in DOMAIN methods : methods[i].name = m.name}

\* QMetaObject::indexOfMethod(): the last one, if there is one.
IsIndexOf(i, methods, m) == i \in Found(methods, m) /\ \A j \in Found(methods, m) : j <= i

Plain(methods) == [base |-> methods, own |-> <<>>, made |-> FALSE, dirty |-> TRUE, cached |-> <<>>]

-----------------------------------------------------------------------------
(* Classes *)

Unknown(base, methods) == Chosen(methods, {m \in Method : \A i \in DOMAIN base : base[i] # m})

\* Mutation of Parsed: one pass over the dicts.
ParsedOnePass(base, body) == Unknown(base, FlattenSeq(body))

\* parsePythonType(): the signals of the class and of its mixins, then the slots,
\* without those of the base.
Parsed(base, body) ==
  Signals(Unknown(base, FlattenSeq(body))) \o Slots(Unknown(base, FlattenSeq(body)))

\* initQObjectSubType(), initDynamicMetaObject(): on the current meta object of
\* the base, which is updated for it, class c is parsed and updated. (Builders of
\* classes are in order: no warning.)
DefineClass(c, base, body) ==
  /\ c \in PyClasses
  /\ mo[c] = NoBuilder
  /\ mo[base] # NoBuilder
  /\ LET b == Updated(mo[base])
         own == Parsed(Returned(b), body)
     IN mo' = [mo EXCEPT ![base] = b,
                         ![c] = [base |-> Returned(b), own |-> own, made |-> TRUE,
                                 dirty |-> FALSE, cached |-> own]]
  /\ UNCHANGED <<classOf, dmo, calls, handed>>

\* setClassInfo(), the decorator: addInfo() makes the builder and makes it dirty.
setClassInfo(c) ==
  /\ mo[c] # NoBuilder
  /\ mo' = [mo EXCEPT ![c].made = TRUE, ![c].dirty = TRUE]
  /\ UNCHANGED <<classOf, dmo, calls, handed>>

-----------------------------------------------------------------------------
(* Objects *)

NewObject(o, c) ==
  /\ classOf[o] = NoClass
  /\ mo[c] # NoBuilder
  /\ o \in Foreign => c = QtClass
  /\ classOf' = [classOf EXCEPT ![o] = c]
  /\ UNCHANGED <<mo, dmo, calls, handed>>

\* The builder goes with the dict of the object (destroyMetaObject()).
DeleteObject(o) ==
  /\ classOf[o] # NoClass
  /\ \A t \in Threads : calls[t] # Idle => calls[t].object # o
  /\ classOf' = [classOf EXCEPT ![o] = NoClass]
  /\ dmo' = [dmo EXCEPT ![o] = NoBuilder]
  /\ handed' = {h \in handed : h.object # o}
  /\ UNCHANGED <<mo, calls>>

\* retrieveMetaObject(): the builder of the object or that of its class...
BuilderOf(o) == IF dmo[o] # NoBuilder THEN dmo[o] ELSE mo[classOf[o]]

\* ... set to b.
SetBuilder(o, b) ==
  IF dmo[o] # NoBuilder THEN dmo' = [dmo EXCEPT ![o] = b] /\ UNCHANGED mo
                        ELSE mo' = [mo EXCEPT ![classOf[o]] = b] /\ UNCHANGED dmo

\* QObject::metaObject(), as Qt calls it all the time. (A warning is modelled in
\* registerMetaMethodGetIndex() only.)
metaObject(o) ==
  /\ classOf[o] # NoClass
  /\ o \notin Foreign
  /\ NeedsUpdate(BuilderOf(o))
  /\ ~Pauses(BuilderOf(o))
  /\ SetBuilder(o, Updated(BuilderOf(o)))
  /\ UNCHANGED <<classOf, calls, handed>>

Handed(o, m, i) == handed' = handed \cup {[object |-> o, method |-> m, index |-> i]}

\* Python code runs before the method is added: in the message handler for a
\* dynamic slot, in __setattr__ for a new builder.
Interrupted(o, m) == PythonRuns /\ (m.kind = "slot" \/ dmo[o] = NoBuilder)

\* The rest of registerMetaMethodGetIndex() when update() has left builder b in
\* place: the index of the method, if there is one, else addMetaMethod().
Lookup(t, o, m, b) ==
  \/ /\ \E i \in DOMAIN Returned(b) : IsIndexOf(i, Returned(b), m) /\ Handed(o, m, i)
     /\ SetBuilder(o, b)
     /\ calls' = [calls EXCEPT ![t] = Idle]
  \/ LET own == IF dmo[o] # NoBuilder THEN b ELSE Plain(Returned(b))
     IN /\ Found(Returned(b), m) = {}
        /\ mo' = IF dmo[o] # NoBuilder THEN mo ELSE [mo EXCEPT ![classOf[o]] = b]
        /\ IF Interrupted(o, m)
           THEN /\ dmo' = [dmo EXCEPT ![o] = own]
                /\ calls' = [calls EXCEPT ![t] = [step |-> "adding", object |-> o, method |-> m]]
                /\ UNCHANGED handed
           ELSE /\ dmo' = [dmo EXCEPT ![o] = Added(own, m)]
                /\ Handed(o, m, NewIndex(own))
                /\ calls' = [calls EXCEPT ![t] = Idle]

\* registerMetaMethodGetIndex(): if update() has to warn, Python code runs with
\* the meta object made and the builder still dirty.
registerMetaMethodGetIndex(t, o, m) ==
  LET b == BuilderOf(o) IN
  /\ calls[t] = Idle
  /\ classOf[o] # NoClass
  /\ o \notin Foreign
  /\ IF Pauses(b)
     THEN /\ SetBuilder(o, Built(b))
          /\ calls' = [calls EXCEPT ![t] = [step |-> "warned", object |-> o, method |-> m]]
          /\ UNCHANGED handed
     ELSE Lookup(t, o, m, Updated(b))
  /\ UNCHANGED classOf

\* An object that C++ code created has the static meta object of its class, and
\* addMetaMethod() refuses it.
RegisterForeign(o, m) ==
  /\ classOf[o] # NoClass
  /\ o \in Foreign
  /\ \E i \in DOMAIN QtMethods : IsIndexOf(i, QtMethods, m) /\ Handed(o, m, i)
  /\ UNCHANGED <<mo, classOf, dmo, calls>>

\* update() goes on after its warning: the builder is no longer dirty.
Warned(t) ==
  /\ calls[t] # Idle
  /\ calls[t].step = "warned"
  /\ LET o == calls[t].object
     IN Lookup(t, o, calls[t].method, [BuilderOf(o) EXCEPT !.dirty = FALSE])
  /\ UNCHANGED classOf

\* addMetaMethod() goes on: the method is added to the builder.
Adding(t) ==
  /\ calls[t] # Idle
  /\ calls[t].step = "adding"
  /\ LET o == calls[t].object
         m == calls[t].method
     IN /\ dmo' = [dmo EXCEPT ![o] = Added(dmo[o], m)]
        /\ Handed(o, m, NewIndex(dmo[o]))
  /\ calls' = [calls EXCEPT ![t] = Idle]
  /\ UNCHANGED <<mo, classOf>>

-----------------------------------------------------------------------------

Init ==
  /\ mo = [c \in Classes |-> IF c = QtClass THEN Plain(QtMethods) ELSE NoBuilder]
  /\ classOf = [o \in Objects |-> NoClass]
  /\ dmo = [o \in Objects |-> NoBuilder]
  /\ calls = [t \in Threads |-> Idle]
  /\ handed = {}

Next ==
  \/ \E c, base \in Classes, body \in Bodies : DefineClass(c, base, body)
  \/ \E c \in Classes : setClassInfo(c)
  \/ \E o \in Objects : \/ \E c \in Classes : NewObject(o, c)
                        \/ DeleteObject(o)
                        \/ metaObject(o)
                        \/ \E m \in Method : RegisterForeign(o, m)
  \/ \E t \in Threads : \/ \E o \in Objects, m \in Method : registerMetaMethodGetIndex(t, o, m)
                        \/ Warned(t)
                        \/ Adding(t)

Spec == Init /\ [][Next]_vars

-----------------------------------------------------------------------------
(* Properties *)

TypeOK ==
  /\ mo \in [Classes -> Builder \cup {NoBuilder}]
  /\ classOf \in [Objects -> Classes \cup {NoClass}]
  /\ dmo \in [Objects -> Builder \cup {NoBuilder}]
  /\ calls \in [Threads -> Call \cup {Idle}]
  /\ handed \subseteq [object : Objects, method : Method, index : Nat \ {0}]

\* What metaObject() of an object returns, sooner or later: a builder that is
\* dirty is built before.
Current(o) == Returned(Updated(BuilderOf(o)))

\* An index that was returned for a signature leads to that signature in the meta
\* object Qt sees: whatever was defined, decorated and connected since, and
\* although the object got a builder of its own in between.
IndexHolds ==
  \A h \in handed :
    /\ h.index \in DOMAIN Current(h.object)
    /\ Current(h.object)[h.index].name = h.method.name

\* A signature of an object has one index: what is connected under it is what is
\* emitted and disconnected under it.
OneIndex ==
  \A h, k \in handed :
    h.object = k.object /\ h.method.name = k.method.name => h.index = k.index

MethodsGrow ==
  \A o \in Objects :
    classOf[o] # NoClass /\ classOf'[o] # NoClass =>
      IsPrefix(Returned(BuilderOf(o)), Returned(BuilderOf(o))')

\* "Making sure no method indices change which would break existing
\* connections": the meta objects of an object, one after the other, only grow,
\* also when the GIL is handed over in the middle of update().
MethodsOnlyGrow == [][MethodsGrow]_vars

\* "Signals must go before slots", or Qt does not find them by name: in every
\* class, with whatever mixins, and in every chain of classes.
ClassesOrdered ==
  \A c \in PyClasses : mo[c] # NoBuilder => Ordered(mo[c].own) /\ mo[c].cached = mo[c].own

=============================================================================
