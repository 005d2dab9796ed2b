------------------------------ MODULE QmlTypes ------------------------------
(***************************************************************************)
(* Registration of Python classes with QML (libpysideqml:                  *)
(* pysideqmlregistertype.cpp, pysideqmlattached.cpp, pysideqmlextended.cpp, *)
(* pysideqmlforeign.cpp, pysideqmluncreatable.cpp, pysideqmlnamedelement.cpp, *)
(* pysideqmltypeinfo.cpp).                                                 *)
(*                                                                         *)
(* Class decorators fill in a QmlTypeInfo, found by the address of the     *)
(* class; QmlForeign makes the described class an alias. QmlElement and    *)
(* the free functions register a class. Attached objects are made by one   *)
(* of a fixed number of C functions, which finds the attaching class in a  *)
(* table; extensions by a single function, which looks up the QmlTypeInfo  *)
(* again when an object is created. A step is what runs under the GIL.     *)
(***************************************************************************)
EXTENDS Naturals, FiniteSets, SequencesExt

CONSTANTS
  Classes,        \* addresses of Python classes
  Derived,        \* those where classes that inherit QObject live
  NoClass,
  QmlPrograms,    \* programs looked at: the decorators the class at an address may have
  MaxAttaching,   \* MAX_ATTACHING_TYPES
  MaxTypes,       \* bound: QML types registered
  Repeats,        \* the program decorates or registers a class more than once
  Shares,         \* it describes a foreign class that is described elsewhere
  Forgets         \* it drops classes that are decorated or named by a decorator

Decorators == {"singleton", "attached", "extension", "foreign", "uncreatable"}

ASSUME QmlClassAssumption == Derived \subseteq Classes /\ NoClass \notin Classes
ASSUME QmlProgramAssumption == QmlPrograms \subseteq [Classes -> SUBSET Decorators]
ASSUME QmlBoundAssumption == MaxAttaching \in Nat /\ MaxTypes \in Nat

Maybe == Classes \cup {NoClass}

\* QmlTypeInfo, and the class infos of a class that QML reads
Info == [singleton : BOOLEAN, foreign : Maybe, attached : Maybe, extension : Maybe]
Blank == [singleton |-> FALSE, foreign |-> NoClass, attached |-> NoClass, extension |-> NoClass]
Marks == {"Element", "Singleton", "Uncreatable"}

\* What QML knows of a type: the class with its properties, the class whose class
\* infos were read, how objects are made and from which class, the function for
\* attached objects (0: none) and the extension.
QmlType == [class : Classes, by : Classes, mode : {"type", "singleton", "instance"},
            creates : Maybe, marks : SUBSET Marks, slot : Nat, extension : Maybe]

VARIABLES
  described,     \* those of the program; they do not change
  entry,          \* qmlTypeInfoHash: the block of a class, named by who made it
  infos,          \* the blocks
  attaching,      \* attachingTypes[0 .. nextAttachingType - 1]
  types,          \* registered types, in order
  marks,          \* class infos in the builders of the classes
  held,           \* classes whose reference the registration keeps
  alive,          \* addresses where a class lives
  meant,          \* history: what the decorators of the class said
  tried           \* history: classes somebody tried to register

qmlVars == <<described, entry, infos, attaching, types, marks, held, alive, meant, tried>>

-----------------------------------------------------------------------------
(* QmlTypeInfo *)

\* ensureQmlTypeInfo()
BlockOf(c) == IF entry[c] = NoClass THEN c ELSE entry[c]

Amended(c, field, value) == [infos EXCEPT ![BlockOf(c)][field] = value]

\* What qmlTypeInfo() finds, with the defaults of an info that is missing.
InfoOf(c) == IF entry[c] = NoClass THEN Blank ELSE infos[entry[c]]

\* qmlExtendedInfo(): an extension without a meta object is not used.
ExtensionOf(c) ==
  LET e == InfoOf(c).extension IN IF e \in Derived THEN e ELSE NoClass

\* Mutation of TakesSlot: one place too many
TakesSlotPastTheEnd(c) == InfoOf(c).attached \in Derived /\ Len(attaching) <= MaxAttaching

\* qmlAttachedInfo(): whether a place of the table is used up.
TakesSlot(c) == InfoOf(c).attached \in Derived /\ Len(attaching) < MaxAttaching

\* What extensionFactory() finds when it is called for an object of the class.
ExtensionMade(c) == InfoOf(c).extension

\* The function that qmlAttachedPropertiesObject() finds for the class.
SlotFound(c) == CHOOSE i \in 1 .. Len(attaching) :
  attaching[i] = c /\ \A j \in 1 .. i - 1 : attaching[j] # c

-----------------------------------------------------------------------------
(* Decorators *)

\* A decorator is used once per class by most programs.
Fresh(c, field, value) ==
  /\ c \in alive /\ field \in described[c]
  /\ Shares \/ entry[c] \in {c, NoClass}
  /\ Repeats \/ (meant[c][field] = Blank[field] /\ c \notin tried)
  /\ meant' = [meant EXCEPT ![c][field] = value]

QmlSingleton(c) ==
  /\ Fresh(c, "singleton", TRUE)
  /\ infos' = Amended(c, "singleton", TRUE)
  /\ entry' = [entry EXCEPT ![c] = BlockOf(c)]
  /\ UNCHANGED <<described, attaching, types, marks, held, alive, tried>>

QmlAttached(c, a) ==
  /\ a \in alive
  /\ Fresh(c, "attached", a)
  /\ infos' = Amended(c, "attached", a)
  /\ entry' = [entry EXCEPT ![c] = BlockOf(c)]
  /\ UNCHANGED <<described, attaching, types, marks, held, alive, tried>>

QmlExtended(c, e) ==
  /\ e \in alive
  /\ Fresh(c, "extension", e)
  /\ infos' = Amended(c, "extension", e)
  /\ entry' = [entry EXCEPT ![c] = BlockOf(c)]
  /\ UNCHANGED <<described, attaching, types, marks, held, alive, tried>>

\* Mutation of Aliased: no alias is inserted.
NotAliased(c, f) == [entry EXCEPT ![c] = BlockOf(c)]

\* insertQmlTypeInfoAlias()
Aliased(c, f) == [entry EXCEPT ![c] = BlockOf(c), ![f] = BlockOf(c)]

QmlForeign(c, f) ==
  /\ f \in alive \ {c}
  /\ Shares \/ (entry[f] = NoClass /\ f \notin tried)
  /\ Fresh(c, "foreign", f)
  /\ infos' = Amended(c, "foreign", f)
  /\ entry' = Aliased(c, f)
  /\ UNCHANGED <<described, attaching, types, marks, held, alive, tried>>

\* setUncreatableClassInfo()
QmlUncreatable(c) ==
  /\ c \in alive \cap Derived /\ "uncreatable" \in described[c]
  /\ Repeats \/ c \notin tried
  /\ marks' = [marks EXCEPT ![c] = @ \cup {"Uncreatable"}]
  /\ UNCHANGED <<described, entry, infos, attaching, types, held, alive, meant, tried>>

-----------------------------------------------------------------------------
(* Registration *)

\* A class is registered once by most programs, and a foreign class by its
\* description only.
Allowed(c) ==
  /\ c \in alive \cap Derived
  /\ Repeats \/ c \notin tried
  /\ Shares \/ entry[c] \in {c, NoClass}
  /\ Len(types) < MaxTypes

Kept(c) == held \cup {c}

NewType(c, by, mode, creates, infoMarks, slot, ext) ==
  [class |-> c, by |-> by, mode |-> mode, creates |-> creates,
   marks |-> infoMarks, slot |-> slot, extension |-> ext]

\* qmlRegisterType(): the reference and the place in the table are taken before QML
\* is asked, and not given back.
RegisterType(c, by, infoMarks, accepted) ==
  LET slot == IF TakesSlot(c) THEN Len(attaching) + 1 ELSE 0
  IN  /\ held' = Kept(c)
      /\ attaching' = IF slot = 0 THEN attaching ELSE Append(attaching, c)
      /\ types' = IF accepted
                  THEN Append(types, NewType(c, by, "type", c, infoMarks, slot, ExtensionOf(c)))
                  ELSE types

\* qmlRegisterSingletonTypeV2(), with the callback that was made before: it calls
\* create() of the class or the class, and keeps a reference to the class.
RegisterSingleton(c, by, infoMarks, accepted) ==
  /\ held' = Kept(by)
  /\ types' = IF accepted
              THEN Append(types, NewType(c, by, "singleton", by, infoMarks, 0, NoClass))
              ELSE types
  /\ UNCHANGED attaching

\* The class that is registered in place of a decorated one.
Registered(c) == LET f == InfoOf(c).foreign IN IF f = NoClass THEN c ELSE f

ElementMarks(c) ==
  marks[c] \cup {"Element"} \cup (IF InfoOf(c).singleton THEN {"Singleton"} ELSE {})

\* What a module says about its import: enough, or no name or major version.
ImportData == {"complete", "missing"}

\* How a singleton is made: by calling the class, by its static create(), or not at
\* all since create() does not take exactly one argument.
Creation == {"class", "create", "unfit"}

\* qmlElementMacro(), called by QmlElement, QmlNamedElement and QmlAnonymous. Class infos
\* are set before anything can fail, and stay.
QmlElement(c) ==
  /\ Allowed(c)
  /\ marks' = [marks EXCEPT ![c] = ElementMarks(c)]
  /\ tried' = tried \cup {c}
  /\ \E import \in ImportData, creation \in Creation, accepted \in BOOLEAN :
       LET target == Registered(c)
       IN  CASE import = "complete" /\ InfoOf(c).singleton /\ creation # "unfit" ->
                  RegisterSingleton(target, c, ElementMarks(c), accepted /\ target \in Derived)
             [] import = "complete" /\ ~ InfoOf(c).singleton /\ target \in Derived ->
                  RegisterType(target, c, ElementMarks(c), accepted)
             [] OTHER -> UNCHANGED <<attaching, types, held>>
  /\ UNCHANGED <<described, entry, infos, alive, meant>>

\* qmlRegisterType() and qmlRegisterUncreatableType(): class infos of their own
qmlRegisterType(c, creatable) ==
  /\ Allowed(c)
  /\ tried' = tried \cup {c}
  /\ \E accepted \in BOOLEAN :
       RegisterType(c, c, {"Element"} \cup (IF creatable THEN {} ELSE {"Uncreatable"}), accepted)
  /\ UNCHANGED <<described, entry, infos, marks, alive, meant>>

\* qmlRegisterSingletonType() with a QObject class; a callback may stand for it.
qmlRegisterSingletonType(c) ==
  /\ Allowed(c)
  /\ tried' = tried \cup {c}
  /\ \E accepted \in BOOLEAN : RegisterSingleton(c, c, {}, accepted)
  /\ UNCHANGED <<described, entry, infos, marks, alive, meant>>

\* qmlRegisterSingletonInstance(): neither the class nor the instance is kept.
qmlRegisterSingletonInstance(c) ==
  LET instanceMarks == marks[c] \cup {"Element", "Singleton"}
  IN  /\ Allowed(c)
      /\ tried' = tried \cup {c}
      /\ marks' = [marks EXCEPT ![c] = instanceMarks]
      /\ \/ UNCHANGED types
         \/ types' = Append(types, NewType(c, c, "instance", NoClass, instanceMarks, 0, NoClass))
      /\ UNCHANGED <<described, entry, infos, attaching, held, alive, meant>>

-----------------------------------------------------------------------------
(* Python classes come and go *)

Named == {c \in Classes : entry[c] # NoClass} \cup
         UNION {{infos[b].foreign, infos[b].attached, infos[b].extension} : b \in Classes}

\* The last reference to a class goes. A singleton instance keeps its class.
CollectClass(c) ==
  /\ c \in alive \ held
  /\ Forgets \/ c \notin Named
  /\ \A i \in 1 .. Len(types) : types[i].mode = "instance" => types[i].class # c
  /\ alive' = alive \ {c}
  /\ UNCHANGED <<described, entry, infos, attaching, types, marks, held, meant, tried>>

\* A class is defined at an address that is free.
DefineAt(c) ==
  /\ c \in Classes \ alive
  /\ alive' = alive \cup {c}
  /\ marks' = [marks EXCEPT ![c] = {}]
  /\ meant' = [meant EXCEPT ![c] = Blank]
  /\ tried' = tried \ {c}
  /\ UNCHANGED <<described, entry, infos, attaching, types, held>>

QmlInit ==
  /\ described \in QmlPrograms
  /\ entry = [c \in Classes |-> NoClass]
  /\ infos = [c \in Classes |-> Blank]
  /\ attaching = <<>>
  /\ types = <<>>
  /\ marks = [c \in Classes |-> {}]
  /\ held = {}
  /\ alive = Classes
  /\ meant = [c \in Classes |-> Blank]
  /\ tried = {}

QmlNext ==
  \E c \in Classes :
    \/ QmlSingleton(c)
    \/ \E a \in Classes : QmlAttached(c, a)
    \/ \E e \in Classes : QmlExtended(c, e)
    \/ \E f \in Classes : QmlForeign(c, f)
    \/ QmlUncreatable(c)
    \/ QmlElement(c)
    \/ \E creatable \in BOOLEAN : qmlRegisterType(c, creatable)
    \/ qmlRegisterSingletonType(c)
    \/ qmlRegisterSingletonInstance(c)
    \/ CollectClass(c)
    \/ DefineAt(c)

QmlSpec == QmlInit /\ [][QmlNext]_qmlVars

-----------------------------------------------------------------------------
(* Properties *)

QmlTypeOK ==
  /\ described \in QmlPrograms
  /\ entry \in [Classes -> Maybe]
  /\ infos \in [Classes -> Info]
  /\ attaching \in Seq(Classes) /\ Len(attaching) <= MaxAttaching
  /\ types \in Seq(QmlType)
  /\ marks \in [Classes -> SUBSET Marks]
  /\ held \subseteq Classes /\ alive \subseteq Classes /\ tried \subseteq Classes
  /\ meant \in [Classes -> Info]

\* The classes QML calls into are alive: those it creates objects of and those whose
\* qmlAttachedProperties() it calls. Types cannot be unregistered.
CalledClassesAlive ==
  /\ \A i \in 1 .. Len(types) : types[i].creates \in alive \cup {NoClass}
  /\ \A i \in 1 .. Len(attaching) : attaching[i] \in alive

\* An extension object is made by the class whose meta object was registered, although
\* extensionFactory() looks the class up by the type of the object, much later.
ExtensionAgrees ==
  \A i \in 1 .. Len(types) :
    types[i].extension # NoClass => types[i].extension = ExtensionMade(types[i].class)

\* Python gets the attached object that QML uses: QML finds it by the function it was
\* given for the type, one of the table, Python by the first place of the class in it.
AttachedAgrees ==
  \A i \in 1 .. Len(types) :
    types[i].slot # 0 =>
      /\ types[i].slot <= MaxAttaching /\ types[i].slot <= Len(attaching)
      /\ SlotFound(types[i].class) = types[i].slot

\* However types were registered, what QML and Python look up later, in tables that are
\* kept apart, are the classes of the registration, and these live.
QmlFindsItsClasses == CalledClassesAlive /\ ExtensionAgrees /\ AttachedAgrees

AsMeant(t, c) ==
  /\ t.class = (IF meant[c].foreign = NoClass THEN c ELSE meant[c].foreign)
  /\ t.mode = (IF meant[c].singleton THEN "singleton" ELSE "type")
  /\ t.mode = "type" =>
       t.extension = (IF meant[c].extension \in Derived THEN meant[c].extension ELSE NoClass)

\* QmlElement registers what the decorators below it said of this class, for the class
\* itself or the foreign one: nothing another class left under the address reaches QML.
RegisteredAsDecorated ==
  [][\A c \in Classes : QmlElement(c) /\ types' # types => AsMeant(Last(types'), c)]_qmlVars
=============================================================================
