----------------------------- MODULE ClassBodies -----------------------------
(***************************************************************************)
(* What a class body and the decorators around it declare: QEnum and QFlag *)
(* (libpyside/pysideqenum.cpp), Slot (pysideslot.cpp), ClassInfo           *)
(* (pysideclassinfo.cpp, pysideclassdecorator.cpp).                        *)
(*                                                                         *)
(* The class does not exist yet when its body runs. An enumeration waits   *)
(* in a table under its line number, for the next class that ends and      *)
(* whose statement does not come after that line. The types of a slot are  *)
(* in the decorator until it is called with the function, which keeps them *)
(* in a list. A ClassInfo is called with the finished class.               *)
(***************************************************************************)
EXTENDS Naturals, FiniteSets, SequencesExt

CONSTANTS
  Modules,       \* Python modules; the first one is run
  MaxClasses,    \* bound: class statements
  MaxLines,      \* bound: of a module
  ClassPrograms  \* the programs looked at

\* What a program may do: have enumerations in classes that are no QObject (plain); have an
\* exception leave a class body (raises); import a module in a class body (imports); call,
\* in a class body, a function further up that has a class statement (factories); have classes
\* that refuse an attribute (refuses); use a decorator object again (reuses).
ASSUME ClassBodyAssumption ==
  /\ MaxClasses \in Nat /\ MaxLines \in Nat \ {0} /\ Modules # {}
  /\ ClassPrograms \subseteq SUBSET {"plain", "raises", "imports", "factories", "refuses", "reuses"}

VARIABLES
  habit,          \* of the program; it does not change
  frames,         \* Python frames of modules and class bodies, the last one runs
  enumCollector,  \* line -> the enumeration that waits, Nobody if none
  begun,          \* class statements so far
  imported,       \* modules so far
  classes,        \* the finished QObject classes
  received,       \* class -> enumerations it was given
  slots,          \* class -> entries in the lists of its functions
  decorators,     \* ClassInfo objects: [used, classes they gave their infos to]
  alreadyWrapped  \* those that say they were used

classBodyVars == <<habit, frames, enumCollector, begun, imported, classes, received, slots,
                   decorators, alreadyWrapped>>

\* An enumeration or slot is named by the class it is written in and the line.
ClassNumber == 1..MaxClasses
Lines == 1..MaxLines
Enum == [class : ClassNumber, line : Lines]
Nobody == [class |-> 0, line |-> 0]

\* types: those written, and those in the list
SlotEntry == [written : {"int", "none"}, args : {"int", "none"}]

Frame == [module : Modules, class : 0..MaxClasses, line : Lines, at : 1..MaxLines + 1, qobject : BOOLEAN]
Top == Last(frames)

\* Functions are on the first line of a module.
ModuleFrame(m) == [module |-> m, class |-> 0, line |-> 1, at |-> 2, qobject |-> FALSE]
Bodies == {i \in 1..Len(frames) : frames[i].class # 0}

\* The frame that runs is on its next line.
Advanced == [frames EXCEPT ![Len(frames)].at = @ + 1]
Runs == Len(frames) > 0 /\ Top.at \in Lines

-----------------------------------------------------------------------------
(* Class statements *)

\* get_lineno() gives the line of the statement. A body has lines after it; a function has
\* its own frame, further up, and a class of one line.
BeginClass(qobject, line) ==
  /\ Runs /\ begun < MaxClasses
  /\ line # Top.at => "factories" \in habit /\ Top.class # 0 /\ line < Top.line
  /\ begun' = begun + 1
  /\ frames' = Append(Advanced, [module |-> Top.module, class |-> begun + 1, line |-> line,
                                 at |-> line + 1, qobject |-> qobject])
  /\ UNCHANGED <<habit, enumCollector, imported, classes, received, slots, decorators, alreadyWrapped>>

\* QEnumMacro(): at module level an enumeration is checked and that is all; what was under
\* the line is forgotten.
QEnum ==
  /\ Runs /\ Top.class # 0
  /\ Top.qobject \/ "plain" \in habit
  /\ enumCollector' = [enumCollector EXCEPT ![Top.at] = [class |-> Top.class, line |-> Top.at]]
  /\ frames' = Advanced
  /\ UNCHANGED <<habit, begun, imported, classes, received, slots, decorators, alreadyWrapped>>

\* resolveDelayedQEnums(): the lines it takes
Resolved(line) == {l \in Lines : enumCollector[l] # Nobody /\ l >= line}

\* The frame that goes on after a body: it is behind it, but for a function's.
Left(f) ==
  LET rest == Front(frames) IN
  IF rest # <<>> /\ Last(rest).module = f.module /\ f.line >= Last(rest).line
  THEN [rest EXCEPT ![Len(rest)].at = f.at] ELSE rest

\* The class is made. Those that inherit QObject are parsed, and take what waits.
EndClass ==
  /\ Len(frames) > 0 /\ Top.class # 0
  /\ frames' = Left(Top)
  /\ IF Top.qobject
     THEN /\ classes' = classes \cup {Top.class}
          /\ received' = [received EXCEPT ![Top.class] = {enumCollector[l] : l \in Resolved(Top.line)}]
          /\ enumCollector' = [l \in Lines |-> IF l \in Resolved(Top.line) THEN Nobody ELSE enumCollector[l]]
     ELSE UNCHANGED <<classes, received, enumCollector>>
  /\ UNCHANGED <<habit, begun, imported, slots, decorators, alreadyWrapped>>

\* An enumeration cannot be set as an attribute of the class: those of the lines before it are
\* out of the table and given to nobody, it and the later ones stay there. The error ends the
\* statement.
EnumRefused ==
  /\ "refuses" \in habit
  /\ Len(frames) > 0 /\ Top.class # 0 /\ Top.qobject
  /\ \E l \in Resolved(Top.line) :
       enumCollector' = [k \in Lines |-> IF k \in Resolved(Top.line) /\ k < l THEN Nobody ELSE enumCollector[k]]
  /\ frames' = Left(Top)
  /\ UNCHANGED <<habit, begun, imported, classes, received, slots, decorators, alreadyWrapped>>

\* An exception leaves the body and is caught around it.
BodyRaises ==
  /\ "raises" \in habit
  /\ Len(frames) > 0 /\ Top.class # 0
  /\ frames' = Left(Top)
  /\ UNCHANGED <<habit, enumCollector, begun, imported, classes, received, slots, decorators, alreadyWrapped>>

\* A module runs to its end; then the one that imported it goes on.
Import(m) ==
  /\ Runs /\ m \notin imported
  /\ Bodies # {} => "imports" \in habit
  /\ imported' = imported \cup {m}
  /\ frames' = Append(Advanced, ModuleFrame(m))
  /\ UNCHANGED <<habit, enumCollector, begun, classes, received, slots, decorators, alreadyWrapped>>

EndModule ==
  /\ Len(frames) > 0 /\ Top.class = 0
  /\ frames' = Front(frames)
  /\ UNCHANGED <<habit, enumCollector, begun, imported, classes, received, slots, decorators, alreadyWrapped>>

-----------------------------------------------------------------------------
(* Decorators *)

\* slotTpInit() and slotCall(): the types are cleared when the decorator is called, and one
\* that is used again has none.
Slot(types, again) ==
  /\ Runs /\ Top.class # 0 /\ Top.qobject
  /\ again => "reuses" \in habit
  /\ slots' = [slots EXCEPT ![Top.class] = Append(@, [written |-> types, args |-> IF again THEN "none" ELSE types])]
  /\ frames' = Advanced
  /\ UNCHANGED <<habit, enumCollector, begun, imported, classes, received, decorators, alreadyWrapped>>

NewClassInfo ==
  /\ Len(decorators) < 1
  /\ decorators' = Append(decorators, {})
  /\ UNCHANGED <<habit, frames, enumCollector, begun, imported, classes, received, slots, alreadyWrapped>>

\* Mutation of Wrapped: the flag is not set.
WrappedNever(d) == alreadyWrapped

Wrapped(d) == alreadyWrapped \cup {d}

\* ClassInfoPrivate::tp_call(): what is no QObject class raises an error and leaves the
\* decorator as it was, as does the second class.
ClassInfo(d, c) ==
  /\ c <= begun /\ \A i \in Bodies : frames[i].class # c
  /\ c \in classes /\ d \notin alreadyWrapped
  /\ decorators' = [decorators EXCEPT ![d] = @ \cup {c}]
  /\ alreadyWrapped' = Wrapped(d)
  /\ UNCHANGED <<habit, frames, enumCollector, begun, imported, classes, received, slots>>

ClassBodyInit ==
  /\ habit \in ClassPrograms
  /\ \E m \in Modules :
       /\ frames = <<ModuleFrame(m)>>
       /\ imported = {m}
  /\ enumCollector = [l \in Lines |-> Nobody]
  /\ begun = 0 /\ classes = {}
  /\ received = [c \in ClassNumber |-> {}]
  /\ slots = [c \in ClassNumber |-> <<>>]
  /\ decorators = <<>> /\ alreadyWrapped = {}

ClassBodyNext ==
  \/ \E qobject \in BOOLEAN, line \in Lines : BeginClass(qobject, line)
  \/ QEnum
  \/ EndClass
  \/ EnumRefused
  \/ BodyRaises
  \/ \E m \in Modules : Import(m)
  \/ EndModule
  \/ \E types \in {"int", "none"}, again \in BOOLEAN : Slot(types, again)
  \/ NewClassInfo
  \/ \E d \in 1..Len(decorators), c \in ClassNumber : ClassInfo(d, c)

ClassBodySpec == ClassBodyInit /\ [][ClassBodyNext]_classBodyVars

-----------------------------------------------------------------------------
(* Properties *)

ClassBodyTypeOK ==
  /\ habit \in ClassPrograms
  /\ frames \in Seq(Frame)
  /\ enumCollector \in [Lines -> Enum \cup {Nobody}]
  /\ begun \in 0..MaxClasses /\ imported \subseteq Modules
  /\ classes \subseteq 1..begun
  /\ received \in [ClassNumber -> SUBSET Enum]
  /\ slots \in [ClassNumber -> Seq(SlotEntry)]
  /\ alreadyWrapped \subseteq 1..Len(decorators)
  /\ \A d \in 1..Len(decorators) : decorators[d] \subseteq classes

Disciplined == habit = {}

\* A class is given no enumeration that is written in another class, around it, in it, after
\* it or in another module; and when no body runs, every one has reached its class.
EnumsReachTheirClass ==
  Disciplined =>
    /\ \A c \in classes : \A e \in received[c] : e.class = c
    /\ Bodies = {} => \A l \in Lines : enumCollector[l] = Nobody

\* The infos of one decorator go to one class, whatever classes it is tried with.
InfosForOneClass == \A d \in 1..Len(decorators) : Cardinality(decorators[d]) <= 1

\* The slots of a class take what is written.
SlotsAsWritten ==
  Disciplined => \A c \in ClassNumber : \A i \in 1..Len(slots[c]) : slots[c][i].args = slots[c][i].written

\* What is declared in and around a class body reaches that class, and it only.
DeclarationsReachTheirClass == EnumsReachTheirClass /\ InfosForOneClass /\ SlotsAsWritten
=============================================================================
