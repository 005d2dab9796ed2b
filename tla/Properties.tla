----------------------------- MODULE Properties -----------------------------
(***************************************************************************)
(* QtCore.Property (libpyside/pysideproperty.cpp) and what a meta object   *)
(* says of it (libpyside/dynamicqmetaobject.cpp).                          *)
(*                                                                         *)
(* A property object has accessors; @p.setter and its like make a changed  *)
(* copy. A class whose dict has one gets an entry in its meta object,      *)
(* unless a base has an entry of that name. Qt reads and writes by the     *)
(* entry, and the property object is then looked up by name. The notify    *)
(* signal is found while the class is parsed, and stored as an index.      *)
(* One name and one signal are enough: others do not meet them.            *)
(***************************************************************************)
EXTENDS Integers, FiniteSets, SequencesExt, Selection

CONSTANTS
  Hierarchies,    \* those looked at: class -> its bases, in order
  PythonMro,      \* hierarchy -> class -> its mro
  QObjectTypes,   \* classes derived from QObject; the others are mixins
  Root,           \* the one that C++ defines
  Offered,        \* the property objects that programs make in one call
  MaxProperties,  \* bound: property objects
  PropertyPrograms \* the programs looked at

\* What a program may do: declare the property again in another class (redeclares); have
\* the notify signal in a base (inherits).
ASSUME PropertyAssumption ==
  MaxProperties \in Nat /\ PropertyPrograms \subseteq SUBSET {"redeclares", "inherits"}

\* No class is above itself, and those with a QObject among the bases are QObjects.
ASSUME HierarchyAssumption ==
  \A h \in Hierarchies :
    /\ IsFiniteSet(DOMAIN h) /\ h \in [DOMAIN h -> Seq(DOMAIN h)]
    /\ \E rank \in [DOMAIN h -> 1..Cardinality(DOMAIN h)] :
         \A c \in DOMAIN h : \A b \in ToSet(h[c]) : rank[b] < rank[c]
    /\ Root \in DOMAIN h /\ h[Root] = <<>>
    /\ \A c \in DOMAIN h : c \in QObjectTypes <=> c = Root \/ ToSet(h[c]) \cap QObjectTypes # {}

\* An accessor: C++'s null, Python's None, or a function.
Accessor == {"null", "None", "function"}
Roles == {"fget", "fset", "freset", "fdel"}

PropertyObject == [fget : Accessor, fset : Accessor, freset : Accessor, fdel : Accessor,
                   notify : BOOLEAN, constant : BOOLEAN]

ASSUME OfferedAssumption == Offered \subseteq PropertyObject

\* An entry of a meta object. notify: the index of the signal, counted from the first
\* method of the class itself; Silent if there is none.
Silent == -1
MetaProperty == [writable : BOOLEAN, resettable : BOOLEAN, notify : Int]
NoEntry == [writable |-> FALSE, resettable |-> FALSE, notify |-> 99]

VARIABLES
  manner,         \* of the program; it does not change
  bases,          \* of the hierarchy; it does not change
  properties,     \* property objects, in the order they were made
  dict,           \* class -> the property object in its dict, 0 if none
  signalled,      \* classes whose dict has the notify signal
  metaProperty,   \* class -> the entry of its own meta object
  defined         \* classes that exist

propertyVars == <<manner, bases, properties, dict, signalled, metaProperty, defined>>

-----------------------------------------------------------------------------
(* Property objects *)

\* qpropertyTpInit() raises an error for a constant one with a setter or a signal.
NewProperty(p) ==
  /\ Len(properties) < MaxProperties
  /\ p.constant => p.fset # "function" /\ ~p.notify
  /\ properties' = Append(properties, p)
  /\ UNCHANGED <<manner, bases, dict, signalled, metaProperty, defined>>

\* _property_copy(): what is null becomes None, as it is passed to the constructor.
Copied(p, role) ==
  [r \in DOMAIN p |-> CASE r = role -> "function"
                        [] r \in Roles \ {role} /\ p[r] = "null" -> "None"
                        [] OTHER -> p[r]]

\* getter(), setter(), resetter(), deleter() and the call of a property
Decorate(i, role) == NewProperty(Copied(properties[i], role))

-----------------------------------------------------------------------------
(* Classes *)

\* Every class above one, in the order of a search in depth; some more than once
Above[h \in Hierarchies] ==
  LET up[d \in DOMAIN h] == <<d>> \o FlattenSeq([i \in 1..Len(h[d]) |-> up[h[d][i]]])
  IN  [c \in DOMAIN h |-> up[c]]

\* The mro has the same classes, and it is that order where each has one place.
ASSUME MroAssumption ==
  \A h \in Hierarchies : \A c \in DOMAIN h :
    /\ PythonMro[h][c] \in Seq(DOMAIN h) /\ ToSet(PythonMro[h][c]) = ToSet(Above[h][c])
    /\ IsInjective(Above[h][c]) => PythonMro[h][c] = Above[h][c]

Mro(c) == PythonMro[bases][c]

\* initQObjectSubType(): the meta object stands on that of the first QObject among the bases.
FirstQObject(s) == s[SelectInSeq(s, LAMBDA b : b \in QObjectTypes)]
BaseOf(c) == FirstQObject(bases[c])
ofQObject(c) == c \in QObjectTypes /\ c # Root

\* The classes of the meta objects from one class up
MetaLines[h \in Hierarchies] ==
  LET up[d \in DOMAIN h] == IF ofQObject(d) THEN <<d>> \o up[FirstQObject(h[d])] ELSE <<d>>
  IN  [c \in DOMAIN h |-> up[c]]
Line(c) == MetaLines[bases][c]

\* parsePythonType(): the class itself and the mixins in its mro
Checked(c) == Chosen(Mro(c), {c} \cup (DOMAIN bases \ QObjectTypes))

\* What a sequence of classes finds first in a table.
FirstOf(s, table, nothing) ==
  LET i == SelectInSeq(s, LAMBDA d : table[d] # nothing) IN IF i = 0 THEN nothing ELSE table[s[i]]

\* Signals go into the meta object of a class unless those below have them.
RootMethods == 2
Adds(c, signals) == /\ ofQObject(c) /\ ToSet(Checked(c)) \cap signals # {}
                    /\ \A d \in ToSet(Line(BaseOf(c))) : ToSet(Checked(d)) \cap signals = {}
MethodCount(c, signals) ==
  RootMethods + Cardinality({d \in ToSet(Line(c)) : ofQObject(d) /\ Adds(d, signals)})
SignalIndex == RootMethods

\* Mutation of NotifyId: the index in the whole meta object.
NotifyInAll(c, signals) == SignalIndex

\* createProperty(): less the methods of the base. (The index of a base's signal becomes
\* negative, and Qt takes it for something else.)
NotifyId(c, signals) == SignalIndex - MethodCount(BaseOf(c), signals)

\* addProperty()
EntryFor(c, p, signals) ==
  [writable |-> p.fset # "null", resettable |-> p.freset # "null",
   notify |-> IF p.notify /\ MethodCount(c, signals) > RootMethods THEN NotifyId(c, signals) ELSE Silent]

EntryOf(c) == FirstOf(Line(c), metaProperty, NoEntry)

\* A class is defined, with a property and a signal in its dict or without. If it is a
\* QObject it is parsed at once, signals before properties.
DefineClass(c, i, s) ==
  /\ c \notin defined /\ ToSet(bases[c]) \subseteq defined
  /\ i # 0 /\ "redeclares" \notin manner => \A d \in defined : dict[d] = 0
  /\ ("inherits" \notin manner /\ i # 0 /\ properties[i].notify) => s
  /\ dict' = [dict EXCEPT ![c] = i]
  /\ signalled' = IF s THEN signalled \cup {c} ELSE signalled
  /\ defined' = defined \cup {c}
  /\ LET found == FirstOf(Checked(c), dict', 0) IN
     IF ofQObject(c) /\ found # 0 /\ EntryOf(BaseOf(c)) = NoEntry
     THEN metaProperty' = [metaProperty EXCEPT ![c] = EntryFor(c, properties[found], signalled')]
     ELSE UNCHANGED metaProperty
  /\ UNCHANGED <<manner, bases, properties>>

-----------------------------------------------------------------------------
(* Access *)

\* The property object that Qt's and Python's writing and Qt's reading go to: the first
\* one of a search in depth.
getFromType(c) == FirstOf(Above[bases][c], dict, 0)

\* The one Python reads, from the mro.
Attribute(c) == FirstOf(Mro(c), dict, 0)

PropertyInit ==
  /\ manner \in PropertyPrograms /\ bases \in Hierarchies
  /\ properties = <<>>
  /\ dict = [c \in DOMAIN bases |-> 0]
  /\ signalled = {}
  /\ metaProperty = [c \in DOMAIN bases |-> NoEntry]
  /\ defined = {Root}

PropertyNext ==
  \/ \E p \in Offered : NewProperty(p)
  \/ \E i \in 1..Len(properties), role \in {"fset", "freset"} : Decorate(i, role)
  \/ \E c \in DOMAIN bases, i \in 0..Len(properties), s \in BOOLEAN : DefineClass(c, i, s)

PropertySpec == PropertyInit /\ [][PropertyNext]_propertyVars

-----------------------------------------------------------------------------
(* Properties *)

PropertyTypeOK ==
  /\ manner \in PropertyPrograms /\ bases \in Hierarchies
  /\ properties \in Seq(PropertyObject) /\ Len(properties) <= MaxProperties
  /\ dict \in [DOMAIN bases -> 0..Len(properties)]
  /\ signalled \subseteq defined /\ defined \subseteq DOMAIN bases
  /\ metaProperty \in [DOMAIN bases -> MetaProperty]

\* What is read is what is written: Qt and Python end at one property object, unless it was
\* declared again in the second branch of a diamond.
ReadAndWriteMeet ==
  \A c \in defined : IsInjective(Above[bases][c]) \/ "redeclares" \notin manner
                       => getFromType(c) = Attribute(c)

\* The meta object of every class, derived ones and those with mixins included, lets Qt
\* write and reset what has an accessor, and its notify index leads to the signal; if the
\* property is declared once, and not in another QObject base than the first, on which the
\* meta object does not stand. (It also lets Qt write where a decorator left None.)
MetaPropertyTruthful ==
  manner = {} =>
    \A c \in defined :
      LET e == EntryOf(c)  i == getFromType(c) IN
      ofQObject(c) /\ (\E d \in UNION {ToSet(Checked(b)) : b \in ToSet(Line(c))} : dict[d] # 0) =>
        /\ properties[i].fset = "function" => e.writable
        /\ properties[i].fset = "null" => ~e.writable
        /\ properties[i].freset = "function" => e.resettable
        /\ properties[i].notify =>
             \E d \in ToSet(Line(c)) : metaProperty[d] = e /\ MethodCount(BaseOf(d), signalled) + e.notify = SignalIndex

\* Qt, which has the meta object, and Python, which has the dict, take a property for the
\* same.
PropertiesAgree == ReadAndWriteMeet /\ MetaPropertyTruthful
=============================================================================
