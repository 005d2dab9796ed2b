-------------------------- MODULE Definitions_proofs --------------------------
(***************************************************************************)
(* Proofs about QmlTypes, ClassBodies, RemoteObjects and Properties, the   *)
(* parts that collect what Python class definitions and .rep files say.    *)
(*                                                                         *)
(* QmlTypes: in careful programs a block of QML information is of one      *)
(* class and names live ones, and what is held for QML was claimed by a    *)
(* class.                                                                  *)
(* ClassBodies: the bodies in progress nest as lines do, and an            *)
(* enumeration that is not yet collected waits for the end of the one it   *)
(* is written in.                                                          *)
(* RemoteObjects: what is counted is a total over types. Setters in        *)
(* progress are of one value, which all but the last have stored; sources  *)
(* that differ are bound by a change that is on its way.                   *)
(* Properties: bases rank below their subclasses, so what is above a class *)
(* is known from what is above its bases. One property at most is declared *)
(* along each mro; entries are of it, and their notify index is the place  *)
(* of the signal, which classes defined later do not change.               *)
(***************************************************************************)
EXTENDS QmlTypes, ClassBodies, RemoteObjects, Properties, CommonLemmas

HIDE PropertyAssumption
HIDE HierarchyAssumption
HIDE OfferedAssumption
HIDE MroAssumption

-----------------------------------------------------------------------------
(* QmlTypes *)

\* Programs that decorate and register each class once, and keep the classes they name.
Careful == ~ Repeats /\ ~ Shares /\ ~ Forgets

\* A block belongs to the class it was made for, which its description is of, and to the
\* foreign class named there; the classes it names live.
BlocksSound ==
  \A c \in Classes :
    /\ entry[c] = c => infos[c] = meant[c]
    /\ entry[c] # c => infos[c] = Blank /\ meant[c] = Blank
    /\ entry[c] # NoClass => entry[entry[c]] = entry[c] /\ c \in alive
    /\ infos[c].foreign # NoClass => infos[c].foreign # c /\ entry[infos[c].foreign] = c
    /\ {infos[c].foreign, infos[c].attached, infos[c].extension} \subseteq alive \cup {NoClass}

\* Somebody has tried to register the class, or the one whose description is of it.
Claimed(t) == (IF entry[t] = NoClass THEN t ELSE entry[t]) \in tried

HeldSound ==
  /\ held \subseteq alive
  /\ \A t \in held : Claimed(t)
  /\ \A i \in 1..Len(attaching) : attaching[i] \in held
  /\ \A i, j \in 1..Len(attaching) : attaching[i] = attaching[j] => i = j

RegisteredSound(t) ==
  /\ t.creates \in held \cup {NoClass}
  /\ t.slot # 0 => t.slot \in 1..Len(attaching) /\ attaching[t.slot] = t.class
  /\ t.extension # NoClass => t.class \in held /\ t.extension = ExtensionMade(t.class)

TypesSound == \A i \in 1..Len(types) : RegisteredSound(types[i])

QmlInv ==
  /\ QmlTypeOK
  /\ Careful => BlocksSound /\ HeldSound /\ TypesSound

-----------------------------------------------------------------------------
(* Types *)

LEMMA BlankInfo == Blank \in Info
BY DEF Blank, Info, Maybe

LEMMA Blocks ==
  ASSUME QmlTypeOK, NEW c \in Classes
  PROVE  /\ BlockOf(c) \in Classes /\ InfoOf(c) \in Info /\ Registered(c) \in Classes
         /\ ExtensionOf(c) \in Maybe /\ ElementMarks(c) \in SUBSET Marks
<1>1. entry[c] \in Classes \cup {NoClass} /\ infos \in [Classes -> Info]
  BY DEF QmlTypeOK, Maybe
<1>2. BlockOf(c) \in Classes /\ InfoOf(c) \in Info
  BY <1>1, BlankInfo DEF BlockOf, InfoOf
<1>3. InfoOf(c).foreign \in Maybe /\ InfoOf(c).extension \in Maybe
  BY <1>2 DEF Info
<1>4. Registered(c) \in Classes
  BY <1>3 DEF Registered, Maybe
<1>5. ExtensionOf(c) \in Maybe
  BY <1>3 DEF ExtensionOf, Maybe
<1>6. ElementMarks(c) \in SUBSET Marks
  BY DEF ElementMarks, QmlTypeOK, Marks
<1> QED
  BY <1>2, <1>4, <1>5, <1>6

\* One step of the registration, with any function for the attached objects.
LEMMA TypesGrow ==
  ASSUME QmlTypeOK, NEW t \in QmlType, types' = Append(types, t)
  PROVE  types' \in Seq(QmlType) /\ Len(types') = Len(types) + 1 /\ types'[Len(types) + 1] = t
         /\ Last(types') = t /\ \A i \in 1..Len(types) : types'[i] = types[i]
BY StackPush DEF QmlTypeOK

LEMMA TableGrows ==
  ASSUME QmlTypeOK, NEW c \in Classes, TakesSlot(c), attaching' = Append(attaching, c)
  PROVE  /\ attaching' \in Seq(Classes) /\ Len(attaching') = Len(attaching) + 1
         /\ Len(attaching') <= MaxAttaching /\ attaching'[Len(attaching) + 1] = c
         /\ \A i \in 1..Len(attaching) : attaching'[i] = attaching[i]
<1>1. attaching \in Seq(Classes) /\ Len(attaching) < MaxAttaching
  BY DEF QmlTypeOK, TakesSlot
<1>2. /\ attaching' \in Seq(Classes) /\ Len(attaching') = Len(attaching) + 1
      /\ attaching'[Len(attaching) + 1] = c /\ \A i \in 1..Len(attaching) : attaching'[i] = attaching[i]
  BY <1>1, StackPush
<1> DEFINE l == Len(attaching)
<1>3. l \in Nat /\ l < MaxAttaching /\ MaxAttaching \in Nat /\ Len(attaching') = l + 1
  BY <1>1, <1>2, LenProperties, QmlBoundAssumption
<1> HIDE DEF l
<1>4. Len(attaching') <= MaxAttaching
  BY <1>3
<1> QED
  BY <1>2, <1>4

\* What a registration leaves in the tables.
LEMMA TypeRegistered ==
  ASSUME QmlTypeOK, NEW c \in Classes, NEW by \in Classes, NEW m \in SUBSET Marks, NEW accepted \in BOOLEAN,
         RegisterType(c, by, m, accepted)
  PROVE  \E slot \in Nat :
           /\ held' = held \cup {c}
           /\ \/ slot = 0 /\ attaching' = attaching
              \/ slot = Len(attaching) + 1 /\ TakesSlot(c) /\ attaching' = Append(attaching, c)
           /\ NewType(c, by, "type", c, m, slot, ExtensionOf(c)) \in QmlType
           /\ \/ types' = types
              \/ types' = Append(types, NewType(c, by, "type", c, m, slot, ExtensionOf(c)))
<1> DEFINE slot == IF TakesSlot(c) THEN Len(attaching) + 1 ELSE 0
<1>1. Len(attaching) \in Nat
  BY LenProperties DEF QmlTypeOK
<1>2. slot \in Nat
  BY <1>1
<1>3. TakesSlot(c) => slot # 0
  BY <1>1
<1>4. /\ held' = held \cup {c}
      /\ attaching' = IF slot = 0 THEN attaching ELSE Append(attaching, c)
      /\ types' = IF accepted THEN Append(types, NewType(c, by, "type", c, m, slot, ExtensionOf(c))) ELSE types
  BY DEF RegisterType, Kept
<1>5. NewType(c, by, "type", c, m, slot, ExtensionOf(c)) \in QmlType
  BY <1>2, Blocks DEF NewType, QmlType, Maybe
<1>6. \/ slot = 0 /\ attaching' = attaching
      \/ slot = Len(attaching) + 1 /\ TakesSlot(c) /\ attaching' = Append(attaching, c)
  BY <1>3, <1>4
<1> HIDE DEF slot
<1> QED
  BY <1>2, <1>4, <1>5, <1>6

LEMMA SingletonRegistered ==
  ASSUME QmlTypeOK, NEW c \in Classes, NEW by \in Classes, NEW m \in SUBSET Marks, NEW accepted \in BOOLEAN,
         RegisterSingleton(c, by, m, accepted)
  PROVE  /\ held' = held \cup {by} /\ attaching' = attaching
         /\ NewType(c, by, "singleton", by, m, 0, NoClass) \in QmlType
         /\ \/ types' = types
            \/ types' = Append(types, NewType(c, by, "singleton", by, m, 0, NoClass))
BY DEF RegisterSingleton, Kept, NewType, QmlType, Maybe


\* A decorator changes what is known of one class, and what is meant.
Says(c, field, value, v, w) ==
  /\ v \in Info /\ w \in Info
  /\ infos' = [infos EXCEPT ![BlockOf(c)] = v] /\ meant' = [meant EXCEPT ![c] = w]
  /\ v = [infos[BlockOf(c)] EXCEPT ![field] = value]
  /\ w = [meant[c] EXCEPT ![field] = value]

LEMMA DecoratorSays ==
  ASSUME QmlTypeOK, NEW c \in Classes, NEW field \in {"singleton", "foreign", "attached", "extension"},
         NEW value, field = "singleton" => value \in BOOLEAN, field # "singleton" => value \in Maybe,
         infos' = Amended(c, field, value), Fresh(c, field, value)
  PROVE  \E v \in Info, w \in Info : Says(c, field, value, v, w)
<1> DEFINE b == BlockOf(c)
           v == [infos[b] EXCEPT ![field] = value]
           w == [meant[c] EXCEPT ![field] = value]
<1>1. b \in Classes /\ infos[b] \in Info /\ meant[c] \in Info
  BY Blocks DEF QmlTypeOK
<1>2. \A x \in Info : [x EXCEPT ![field] = value] \in Info
  BY DEF Info
<1>3. v \in Info /\ w \in Info
  BY <1>1, <1>2
<1>4. infos' = [infos EXCEPT ![b] = v] /\ meant' = [meant EXCEPT ![c] = w]
  BY <1>1 DEF Amended, Fresh
<1> QED
  BY <1>3, <1>4 DEF Says

-----------------------------------------------------------------------------
(* Decorators of careful programs *)

\* A class that nobody tried to register is described further.
LEMMA DescriptionKeeps ==
  ASSUME QmlTypeOK, BlocksSound, HeldSound, TypesSound,
         NEW c \in Classes, NEW v \in Info,
         c \in alive, entry[c] \in {c, NoClass}, c \notin tried,
         infos' = [infos EXCEPT ![c] = v], meant' = [meant EXCEPT ![c] = v],
         entry' = [x \in Classes |-> IF x = c \/ x = v.foreign THEN c ELSE entry[x]],
         {v.foreign, v.attached, v.extension} \subseteq alive \cup {NoClass}, v.foreign # c,
         v.foreign # NoClass => entry[v.foreign] = c \/ (entry[v.foreign] = NoClass /\ v.foreign \notin tried),
         UNCHANGED <<attaching, types, held, alive, tried>>
  PROVE  BlocksSound' /\ HeldSound' /\ TypesSound'
<1>1. entry \in [Classes -> Classes \cup {NoClass}] /\ infos \in [Classes -> Info] /\ meant \in [Classes -> Info]
      /\ c # NoClass /\ NoClass \notin Classes /\ v.foreign \in Classes \cup {NoClass}
      /\ held \subseteq Classes
  BY QmlClassAssumption DEF QmlTypeOK, Maybe, Info
<1>2. /\ infos'[c] = v /\ meant'[c] = v /\ entry'[c] = c
      /\ \A x \in Classes \ {c} : infos'[x] = infos[x] /\ meant'[x] = meant[x]
      /\ \A x \in Classes : x # c /\ x # v.foreign => entry'[x] = entry[x]
      /\ v.foreign # NoClass => entry'[v.foreign] = c
  BY <1>1
<1>3. BlocksSound'
  <2> SUFFICES ASSUME NEW x \in Classes
               PROVE  /\ entry'[x] = x => infos'[x] = meant'[x]
                      /\ entry'[x] # x => infos'[x] = Blank /\ meant'[x] = Blank
                      /\ entry'[x] # NoClass => entry'[entry'[x]] = entry'[x] /\ x \in alive
                      /\ infos'[x].foreign # NoClass => infos'[x].foreign # x /\ entry'[infos'[x].foreign] = x
                      /\ {infos'[x].foreign, infos'[x].attached, infos'[x].extension} \subseteq alive \cup {NoClass}
    BY DEF BlocksSound
  <2>1. CASE x = c
    BY <1>1, <1>2, <2>1
  <2>2. CASE x # c
    <3>1. infos'[x] = infos[x] /\ meant'[x] = meant[x]
      BY <1>2, <2>2
    <3>2. CASE x = v.foreign
      <4>1. entry[x] # x /\ x \in alive /\ infos[x] = Blank /\ meant[x] = Blank
        BY <1>1, <2>2, <3>2 DEF BlocksSound
      <4>2. Blank.foreign = NoClass /\ Blank.attached = NoClass /\ Blank.extension = NoClass
        BY DEF Blank
      <4> QED
        BY <1>1, <1>2, <2>2, <3>1, <3>2, <4>1, <4>2
    <3>3. CASE x # v.foreign
      <4>1. entry'[x] = entry[x]
        BY <1>2, <2>2, <3>3
      <4>2. entry[x] # NoClass => entry'[entry[x]] = entry[x]
        <5> SUFFICES ASSUME entry[x] # NoClass PROVE entry'[entry[x]] = entry[x]
          OBVIOUS
        <5>1. entry[x] \in Classes /\ entry[entry[x]] = entry[x]
          BY <1>1 DEF BlocksSound
        <5>2. entry[x] # v.foreign \/ entry[x] = c
          BY <1>1, <5>1
        <5> QED
          BY <1>2, <5>1, <5>2
      <4>3. infos[x].foreign # NoClass => infos[x].foreign # x /\ entry'[infos[x].foreign] = x
        <5> SUFFICES ASSUME infos[x].foreign # NoClass PROVE infos[x].foreign # x /\ entry'[infos[x].foreign] = x
          OBVIOUS
        <5>1. infos[x].foreign # x /\ entry[infos[x].foreign] = x /\ infos[x].foreign \in Classes
          BY <1>1 DEF BlocksSound, Info, Maybe
        <5>2. infos[x].foreign # c /\ infos[x].foreign # v.foreign
          BY <1>1, <2>2, <5>1
        <5> QED
          BY <1>2, <5>1, <5>2
      <4> QED
        BY <3>1, <4>1, <4>2, <4>3 DEF BlocksSound
    <3> QED
      BY <3>2, <3>3
  <2> QED
    BY <2>1, <2>2
\* Nobody has tried to register what changes.
<1>4. \A t \in held : t # c /\ entry[t] # c /\ (t = v.foreign => entry[t] # NoClass) /\ entry'[t] = entry[t] /\ Claimed(t)'
  <2> SUFFICES ASSUME NEW t \in held
               PROVE  t # c /\ entry[t] # c /\ (t = v.foreign => entry[t] # NoClass) /\ entry'[t] = entry[t] /\ Claimed(t)'
    OBVIOUS
  <2>1. t \in Classes /\ Claimed(t)
    BY <1>1 DEF HeldSound
  <2>2. t # c /\ entry[t] # c /\ (t = v.foreign => entry[t] # NoClass)
    BY <1>1, <2>1 DEF Claimed
  <2>3. entry'[t] = entry[t]
    BY <1>1, <1>2, <2>1, <2>2
  <2> QED
    BY <2>1, <2>2, <2>3 DEF Claimed
<1>5. HeldSound'
  BY <1>4 DEF HeldSound
<1>6. TypesSound'
  <2> SUFFICES ASSUME NEW i \in 1..Len(types) PROVE RegisteredSound(types[i])'
    BY DEF TypesSound
  <2> DEFINE t == types[i]
  <2>1. RegisteredSound(t) /\ t \in QmlType
    BY ElementOfSeq DEF TypesSound, QmlTypeOK
  <2>2. t.extension # NoClass => t.class \in held /\ t.extension = ExtensionMade(t.class)'
    <3> SUFFICES ASSUME t.extension # NoClass PROVE t.class \in held /\ t.extension = ExtensionMade(t.class)'
      OBVIOUS
    <3>1. t.class \in held /\ t.extension = ExtensionMade(t.class)
      BY <2>1 DEF RegisteredSound
    <3>2. t.class \in Classes /\ entry'[t.class] = entry[t.class] /\ entry[t.class] # c
      BY <1>1, <1>4, <3>1
    <3>3. entry[t.class] # NoClass => infos'[entry[t.class]] = infos[entry[t.class]]
      BY <1>1, <1>2, <3>2
    <3> QED
      BY <3>1, <3>2, <3>3 DEF ExtensionMade, InfoOf
  <2> QED
    BY <2>1, <2>2 DEF RegisteredSound
<1> QED
  BY <1>3, <1>5, <1>6

-----------------------------------------------------------------------------
(* Registration by careful programs *)

LEMMA RegistrationKeeps ==
  ASSUME QmlTypeOK, BlocksSound, HeldSound, TypesSound,
         NEW K \in SUBSET alive, held' = held \cup K, \A k \in K : Claimed(k)', tried \subseteq tried',
         UNCHANGED <<entry, infos, alive, meant>>,
         \/ attaching' = attaching
         \/ \E c \in K : ~ Claimed(c) /\ TakesSlot(c) /\ attaching' = Append(attaching, c),
         types' = types \/ \E t \in QmlType : types' = Append(types, t) /\ RegisteredSound(t)'
  PROVE  BlocksSound' /\ HeldSound' /\ TypesSound'
<1>1. BlocksSound'
  BY DEF BlocksSound
<1>2. \A t \in held' : Claimed(t)'
  BY DEF HeldSound, Claimed
<1> DEFINE n == Len(attaching)
<1>3. n \in Nat /\ K \subseteq Classes
  BY LenProperties DEF QmlTypeOK
<1>4. /\ Len(attaching') >= n /\ \A i \in 1..n : attaching'[i] = attaching[i]
      /\ \A i \in 1..Len(attaching') : attaching'[i] \in held'
      /\ \A i, j \in 1..Len(attaching') : attaching'[i] = attaching'[j] => i = j
  <2>1. CASE attaching' = attaching
    BY <1>3, <2>1 DEF HeldSound
  <2>2. CASE \E c \in K : ~ Claimed(c) /\ TakesSlot(c) /\ attaching' = Append(attaching, c)
    <3>1. PICK c \in K : ~ Claimed(c) /\ TakesSlot(c) /\ attaching' = Append(attaching, c)
      BY <2>2
    <3>2. Len(attaching') = n + 1 /\ attaching'[n + 1] = c /\ \A i \in 1..n : attaching'[i] = attaching[i]
      BY <1>3, <3>1, TableGrows
    <3>3. c \notin held /\ \A i \in 1..n : attaching[i] \in held /\ attaching[i] # c
      BY <3>1 DEF HeldSound
    <3>4. \A i, j \in 1..n : attaching[i] = attaching[j] => i = j
      BY DEF HeldSound
    <3> HIDE DEF n
    <3>5. \A i \in 1..n + 1 : i \in 1..n \/ i = n + 1
      BY <1>3
    <3>6. \A i \in 1..n + 1 : attaching'[i] \in held'
      BY <3>1, <3>2, <3>3, <3>5
    <3>7. \A i, j \in 1..n + 1 : attaching'[i] = attaching'[j] => i = j
      BY <3>2, <3>3, <3>4, <3>5
    <3> QED
      BY <1>3, <3>2, <3>6, <3>7
  <2> QED
    BY <2>1, <2>2
<1> HIDE DEF n
<1>5. held' \subseteq alive'
  BY DEF HeldSound
<1>6. HeldSound'
  BY <1>2, <1>4, <1>5 DEF HeldSound
<1>7. ASSUME NEW t, RegisteredSound(t) PROVE RegisteredSound(t)'
  <2>1. t.creates \in held' \cup {NoClass}
    BY <1>7 DEF RegisteredSound
  <2>2. t.slot # 0 => t.slot \in 1..Len(attaching') /\ attaching'[t.slot] = t.class
    <3> SUFFICES ASSUME t.slot # 0 PROVE t.slot \in 1..Len(attaching') /\ attaching'[t.slot] = t.class
      OBVIOUS
    <3>1. t.slot \in 1..n /\ attaching[t.slot] = t.class
      BY <1>7 DEF RegisteredSound, n
    <3>2. Len(attaching') \in Nat \/ attaching' = attaching
      <4>1. CASE attaching' = attaching
        BY <4>1
      <4>2. CASE \E c \in K : ~ Claimed(c) /\ TakesSlot(c) /\ attaching' = Append(attaching, c)
        <5>1. PICK c \in K : TakesSlot(c) /\ attaching' = Append(attaching, c)
          BY <4>2
        <5>2. Len(attaching') = n + 1
          BY <1>3, <5>1, TableGrows DEF n
        <5> QED
          BY <1>3, <5>2
      <4> QED
        BY <4>1, <4>2
    <3>3. Len(attaching') \in Nat
      BY <1>3, <3>2 DEF n
    <3> QED
      BY <1>3, <1>4, <3>1, <3>3
  <2>3. t.extension # NoClass => t.class \in held' /\ t.extension = ExtensionMade(t.class)'
    BY <1>7 DEF RegisteredSound, ExtensionMade, InfoOf
  <2> QED
    BY <2>1, <2>2, <2>3 DEF RegisteredSound
<1>8. TypesSound'
  <2>1. CASE types' = types
    BY <1>7, <2>1 DEF TypesSound
  <2>2. CASE \E t \in QmlType : types' = Append(types, t) /\ RegisteredSound(t)'
    <3>1. PICK t \in QmlType : types' = Append(types, t) /\ RegisteredSound(t)'
      BY <2>2
    <3> DEFINE m == Len(types)
    <3>2. m \in Nat /\ Len(types') = m + 1 /\ types'[m + 1] = t /\ \A i \in 1..m : types'[i] = types[i]
      BY <3>1, TypesGrow, LenProperties DEF QmlTypeOK
    <3>3. \A i \in 1..m : RegisteredSound(types[i])
      BY DEF TypesSound
    <3> HIDE DEF m
    <3>4. ASSUME NEW i \in 1..m + 1 PROVE RegisteredSound(types[i])'
      <4>1. CASE i = m + 1
        BY <3>1, <3>2, <4>1
      <4>2. CASE i # m + 1
        <5>1. i \in 1..m
          BY <3>2, <4>2
        <5>2. PICK r : r = types[i]
          OBVIOUS
        <5>3. RegisteredSound(r)
          BY <3>3, <5>1, <5>2
        <5>4. RegisteredSound(r)'
          BY <1>7, <5>3
        <5>5. r = types'[i]
          BY <3>2, <5>1, <5>2
        <5> QED
          BY <5>4, <5>5
      <4> QED
        BY <4>1, <4>2
    <3> QED
      BY <3>1, <3>2, <3>4 DEF TypesSound
  <2> QED
    BY <2>1, <2>2
<1> QED
  BY <1>1, <1>6, <1>8

-----------------------------------------------------------------------------
(* The steps *)

\* What a decorator does to the tables, of whichever field.
LEMMA DecoratorKeeps ==
  ASSUME QmlInv, NEW c \in Classes, NEW field \in {"singleton", "foreign", "attached", "extension"},
         NEW value, field = "singleton" => value \in BOOLEAN,
         field # "singleton" => value \in alive /\ value \in Classes,
         field = "foreign" => value # c /\ (~ Shares => entry[value] = NoClass /\ value \notin tried),
         Fresh(c, field, value), infos' = Amended(c, field, value),
         field # "foreign" => entry' = [entry EXCEPT ![c] = BlockOf(c)],
         field = "foreign" => entry' = Aliased(c, value),
         UNCHANGED <<described, attaching, types, marks, held, alive, tried>>
  PROVE  QmlInv'
<1>1. QmlTypeOK /\ entry \in [Classes -> Maybe] /\ NoClass \notin Classes /\ BlockOf(c) \in Classes
  BY QmlClassAssumption, Blocks DEF QmlInv, QmlTypeOK
<1>2. PICK v \in Info, w \in Info : Says(c, field, value, v, w)
  BY <1>1, DecoratorSays DEF Maybe
<1>3. QmlTypeOK'
  <2>1. entry' \in [Classes -> Maybe]
    BY <1>1 DEF Aliased, Maybe
  <2>2. infos' \in [Classes -> Info] /\ meant' \in [Classes -> Info]
    BY <1>1, <1>2 DEF Says, QmlTypeOK
  <2> QED
    BY <1>1, <2>1, <2>2 DEF QmlTypeOK
<1>4. Careful => BlocksSound' /\ HeldSound' /\ TypesSound'
  <2> SUFFICES ASSUME Careful PROVE BlocksSound' /\ HeldSound' /\ TypesSound'
    OBVIOUS
  <2>1. BlocksSound /\ HeldSound /\ TypesSound
    BY DEF QmlInv
  <2>2. c \in alive /\ entry[c] \in {c, NoClass} /\ c \notin tried
    BY DEF Fresh, Careful
  <2>3. BlockOf(c) = c
    BY <1>1, <2>2 DEF BlockOf
  <2>4. infos[c] = meant[c]
    BY <1>1, <2>1, <2>2 DEF BlocksSound
  <2>5. /\ v = [infos[c] EXCEPT ![field] = value] /\ w = v
        /\ infos' = [infos EXCEPT ![c] = v] /\ meant' = [meant EXCEPT ![c] = v]
    BY <1>2, <2>3, <2>4 DEF Says
  <2>6. /\ infos[c].foreign # NoClass => infos[c].foreign # c /\ entry[infos[c].foreign] = c
        /\ {infos[c].foreign, infos[c].attached, infos[c].extension} \subseteq alive \cup {NoClass}
        /\ infos[c] \in Info
    BY <1>1, <2>1 DEF BlocksSound, QmlTypeOK
  <2>7. CASE field = "foreign"
    <3>1. v.foreign = value /\ v.attached = infos[c].attached /\ v.extension = infos[c].extension
      BY <2>5, <2>6, <2>7 DEF Info
    <3>2. value # c /\ value \in alive /\ value \in Classes /\ entry[value] = NoClass /\ value \notin tried
      BY <2>7 DEF Careful
    <3>3. entry' = [x \in Classes |-> IF x = c \/ x = v.foreign THEN c ELSE entry[x]]
      BY <1>1, <2>3, <2>7, <3>1, <3>2 DEF Aliased
    <3>4. /\ {v.foreign, v.attached, v.extension} \subseteq alive \cup {NoClass} /\ v.foreign # c
          /\ v.foreign # NoClass => entry[v.foreign] = c \/ (entry[v.foreign] = NoClass /\ v.foreign \notin tried)
      BY <2>6, <3>1, <3>2
    <3>5. UNCHANGED <<attaching, types, held, alive, tried>>
      OBVIOUS
    <3> QED
      BY <1>1, <2>1, <2>2, <2>5, <3>3, <3>4, <3>5, DescriptionKeeps, Zenon
  <2>8. CASE field # "foreign"
    <3>1. v.foreign = infos[c].foreign
      BY <2>5, <2>6, <2>8 DEF Info
    <3>2. {v.attached, v.extension} \subseteq alive \cup {NoClass}
      BY <2>5, <2>6, <2>8 DEF Info
    <3>3. entry' = [x \in Classes |-> IF x = c \/ x = v.foreign THEN c ELSE entry[x]]
      BY <1>1, <2>3, <2>6, <2>8, <3>1
    <3>4. v.foreign # c
      BY <1>1, <2>6, <3>1
    <3>5. /\ {v.foreign, v.attached, v.extension} \subseteq alive \cup {NoClass}
          /\ v.foreign # NoClass => entry[v.foreign] = c \/ (entry[v.foreign] = NoClass /\ v.foreign \notin tried)
      BY <2>6, <3>1, <3>2
    <3>6. UNCHANGED <<attaching, types, held, alive, tried>>
      OBVIOUS
    <3> QED
      BY <1>1, <2>1, <2>2, <2>5, <3>3, <3>4, <3>5, <3>6, DescriptionKeeps, Zenon
  <2> QED
    BY <2>7, <2>8
<1> QED
  BY <1>3, <1>4 DEF QmlInv

LEMMA QmlSingletonKeeps ==
  ASSUME QmlInv, NEW c \in Classes, QmlSingleton(c)
  PROVE  QmlInv'
BY DecoratorKeeps DEF QmlSingleton

LEMMA QmlAttachedKeeps ==
  ASSUME QmlInv, NEW c \in Classes, NEW a \in Classes, QmlAttached(c, a)
  PROVE  QmlInv'
BY DecoratorKeeps DEF QmlAttached

LEMMA QmlExtendedKeeps ==
  ASSUME QmlInv, NEW c \in Classes, NEW e \in Classes, QmlExtended(c, e)
  PROVE  QmlInv'
BY DecoratorKeeps DEF QmlExtended

LEMMA QmlForeignKeeps ==
  ASSUME QmlInv, NEW c \in Classes, NEW f \in Classes, QmlForeign(c, f)
  PROVE  QmlInv'
BY DecoratorKeeps DEF QmlForeign

LEMMA QmlUncreatableKeeps ==
  ASSUME QmlInv, NEW c \in Classes, QmlUncreatable(c)
  PROVE  QmlInv'
<1>1. UNCHANGED <<described, entry, infos, attaching, types, held, alive, meant, tried>>
      /\ marks' = [marks EXCEPT ![c] = @ \cup {"Uncreatable"}]
  BY DEF QmlUncreatable
<1>2. QmlTypeOK'
  BY <1>1 DEF QmlInv, QmlTypeOK, Marks
<1>3. (BlocksSound => BlocksSound') /\ (HeldSound => HeldSound') /\ (TypesSound => TypesSound')
  BY <1>1 DEF BlocksSound, HeldSound, Claimed, TypesSound, RegisteredSound, ExtensionMade, InfoOf
<1> QED
  BY <1>2, <1>3 DEF QmlInv

\* The types of the variables a registration changes.
LEMMA RegistrationTypes ==
  ASSUME QmlTypeOK, UNCHANGED <<described, entry, infos, alive, meant>>,
         held' \subseteq Classes, tried' \subseteq Classes, marks' \in [Classes -> SUBSET Marks],
         \/ attaching' = attaching
         \/ \E c \in Classes : TakesSlot(c) /\ attaching' = Append(attaching, c),
         types' = types \/ \E t \in QmlType : types' = Append(types, t)
  PROVE  QmlTypeOK'
<1>1. attaching' \in Seq(Classes) /\ Len(attaching') <= MaxAttaching
  BY TableGrows DEF QmlTypeOK
<1>2. types' \in Seq(QmlType)
  BY TypesGrow DEF QmlTypeOK
<1> QED
  BY <1>1, <1>2 DEF QmlTypeOK

\* A type that is registered with RegisterType().
LEMMA TypeKeeps ==
  ASSUME QmlInv, NEW c \in Classes, NEW by \in Classes, NEW m \in SUBSET Marks, NEW accepted \in BOOLEAN,
         RegisterType(c, by, m, accepted),
         Careful => c \in alive /\ ~ Claimed(c) /\ Claimed(c)', tried \subseteq tried', tried' \subseteq Classes,
         UNCHANGED <<described, entry, infos, alive, meant>>, marks' \in [Classes -> SUBSET Marks]
  PROVE  QmlInv'
<1>1. QmlTypeOK /\ (Careful => BlocksSound /\ HeldSound /\ TypesSound)
  BY DEF QmlInv
<1>2. PICK slot \in Nat :
        /\ held' = held \cup {c}
        /\ \/ slot = 0 /\ attaching' = attaching
           \/ slot = Len(attaching) + 1 /\ TakesSlot(c) /\ attaching' = Append(attaching, c)
        /\ NewType(c, by, "type", c, m, slot, ExtensionOf(c)) \in QmlType
        /\ \/ types' = types
           \/ types' = Append(types, NewType(c, by, "type", c, m, slot, ExtensionOf(c)))
  BY <1>1, TypeRegistered
<1>3. PICK t : t = NewType(c, by, "type", c, m, slot, ExtensionOf(c))
  OBVIOUS
<1>4. t \in QmlType /\ (types' = types \/ types' = Append(types, t))
  BY <1>2, <1>3
<1>5. \/ attaching' = attaching
      \/ TakesSlot(c) /\ attaching' = Append(attaching, c)
  BY <1>2
<1>6. held' = held \cup {c} /\ held' \subseteq Classes
  BY <1>1, <1>2 DEF QmlTypeOK
<1>7. QmlTypeOK'
  BY <1>1, <1>4, <1>5, <1>6, RegistrationTypes
<1>8. RegisteredSound(t)'
  <2>1. t.creates = c /\ t.slot = slot /\ t.class = c /\ t.extension = ExtensionOf(c)
    BY <1>3 DEF NewType
  <2>2. t.slot # 0 => t.slot \in 1..Len(attaching') /\ attaching'[t.slot] = t.class
    <3>1. CASE slot = 0
      BY <2>1, <3>1
    <3>2. CASE slot = Len(attaching) + 1 /\ TakesSlot(c) /\ attaching' = Append(attaching, c)
      <4>1. Len(attaching') = Len(attaching) + 1 /\ attaching'[Len(attaching) + 1] = c
        BY <1>1, <3>2, TableGrows
      <4>2. Len(attaching) \in Nat
        BY <1>1, LenProperties DEF QmlTypeOK
      <4>3. slot \in 1..Len(attaching') /\ attaching'[slot] = c
        BY <3>2, <4>1, <4>2
      <4> QED
        BY <2>1, <4>3
    <3> QED
      BY <1>2, <3>1, <3>2
  <2>3. t.extension # NoClass => t.class \in held' /\ t.extension = ExtensionMade(t.class)'
    <3>1. ExtensionOf(c) # NoClass => ExtensionOf(c) = InfoOf(c).extension
      BY DEF ExtensionOf
    <3>2. ExtensionMade(c)' = InfoOf(c).extension
      BY DEF ExtensionMade, InfoOf
    <3>3. t.class = c
      BY <2>1
    <3>4. ExtensionMade(t.class)' = ExtensionMade(c)'
      BY <3>3
    <3> QED
      BY <1>6, <2>1, <3>1, <3>2, <3>4
  <2> QED
    BY <1>6, <2>1, <2>2, <2>3 DEF RegisteredSound
<1>9. ASSUME Careful PROVE BlocksSound' /\ HeldSound' /\ TypesSound'
  <2> DEFINE K == {c}
  <2>1. K \in SUBSET alive /\ held' = held \cup K /\ \A k \in K : Claimed(k)'
    <3>1. Claimed(c)' /\ c \in alive
      BY <1>9
    <3> QED
      BY <1>6, <3>1
  <2>2. \/ attaching' = attaching
        \/ \E k \in K : ~ Claimed(k) /\ TakesSlot(k) /\ attaching' = Append(attaching, k)
    BY <1>5, <1>9
  <2>3. types' = types \/ \E r \in QmlType : types' = Append(types, r) /\ RegisteredSound(r)'
    BY <1>4, <1>8
  <2> HIDE DEF K
  <2> QED
    BY <1>1, <1>9, <2>1, <2>2, <2>3, RegistrationKeeps
<1> QED
  BY <1>7, <1>9 DEF QmlInv

\* A singleton keeps the class it is described by.
LEMMA SingletonKeeps ==
  ASSUME QmlInv, NEW c \in Classes, NEW by \in Classes, NEW m \in SUBSET Marks, NEW accepted \in BOOLEAN,
         RegisterSingleton(c, by, m, accepted), by \in alive,
         Careful => Claimed(by)', tried \subseteq tried', tried' \subseteq Classes,
         UNCHANGED <<described, entry, infos, alive, meant>>, marks' \in [Classes -> SUBSET Marks]
  PROVE  QmlInv'
<1>1. QmlTypeOK /\ (Careful => BlocksSound /\ HeldSound /\ TypesSound)
  BY DEF QmlInv
<1> DEFINE t == NewType(c, by, "singleton", by, m, 0, NoClass)
<1>2. /\ held' = held \cup {by} /\ attaching' = attaching /\ t \in QmlType
      /\ types' = types \/ types' = Append(types, t)
  <2>1. /\ held' = held \cup {by} /\ attaching' = attaching /\ t \in QmlType
        /\ \/ types' = types
           \/ types' = Append(types, t)
    BY <1>1 DEF RegisterSingleton, Kept, NewType, QmlType, Maybe
  <2> QED
    BY <2>1
<1>3. t.creates = by /\ t.slot = 0 /\ t.extension = NoClass
  BY DEF NewType
<1> HIDE DEF t
<1>4. QmlTypeOK'
  <2>1. held' \subseteq Classes
    BY <1>1, <1>2 DEF QmlTypeOK
  <2> QED
    BY <1>1, <1>2, <2>1, RegistrationTypes
<1>5. RegisteredSound(t)'
  BY <1>2, <1>3 DEF RegisteredSound
<1>6. ASSUME Careful PROVE BlocksSound' /\ HeldSound' /\ TypesSound'
  <2> DEFINE K == {by}
  <2>1. K \in SUBSET alive /\ held' = held \cup K /\ \A k \in K : Claimed(k)'
    <3>1. Claimed(by)'
      BY <1>6
    <3> QED
      BY <1>2, <3>1
  <2>2. types' = types \/ \E r \in QmlType : types' = Append(types, r) /\ RegisteredSound(r)'
    BY <1>2, <1>5
  <2> HIDE DEF K
  <2> QED
    BY <1>1, <1>2, <1>6, <2>1, <2>2, RegistrationKeeps
<1> QED
  BY <1>4, <1>6 DEF QmlInv

\* A class that may be registered has not been, nor is another one described with it;
\* the class that is registered in its place neither.
LEMMA Unclaimed ==
  ASSUME QmlInv, Careful, NEW c \in Classes, Allowed(c)
  PROVE  /\ c \in alive /\ entry[c] \in {c, NoClass} /\ c \notin tried /\ ~ Claimed(c)
         /\ Registered(c) \in alive /\ ~ Claimed(Registered(c))
         /\ entry[Registered(c)] \in {c, NoClass} /\ (entry[Registered(c)] = NoClass => Registered(c) = c)
         /\ entry[Registered(c)] = entry[c]
         /\ InfoOf(c) = meant[c]
<1>1. QmlTypeOK /\ BlocksSound /\ NoClass \notin Classes
  BY QmlClassAssumption DEF QmlInv
<1>2. c \in alive /\ entry[c] \in {c, NoClass} /\ c \notin tried
  BY DEF Allowed, Careful
<1>3. ~ Claimed(c)
  BY <1>2 DEF Claimed
<1>4. infos[c] = meant[c] /\ (entry[c] = NoClass => meant[c] = Blank)
  BY <1>1, <1>2 DEF BlocksSound
<1>5. InfoOf(c) = meant[c] /\ InfoOf(c) = infos[c]
  BY <1>1, <1>2, <1>4 DEF InfoOf
<1>6. CASE infos[c].foreign = NoClass
  BY <1>2, <1>3, <1>5, <1>6 DEF Registered
<1>7. CASE infos[c].foreign # NoClass
  <2>1. infos[c].foreign # c /\ entry[infos[c].foreign] = c /\ infos[c].foreign \in alive
    BY <1>1, <1>7 DEF BlocksSound
  <2>2. Registered(c) = infos[c].foreign
    BY <1>5, <1>7 DEF Registered
  <2>3. ~ Claimed(Registered(c))
    BY <1>1, <1>2, <2>1, <2>2 DEF Claimed
  <2>4. entry[c] = c
    BY <1>1, <1>7 DEF BlocksSound, Blank
  <2> QED
    BY <1>1, <1>2, <1>3, <1>5, <2>1, <2>2, <2>3, <2>4
<1> QED
  BY <1>6, <1>7

LEMMA QmlElementKeeps ==
  ASSUME QmlInv, NEW c \in Classes, QmlElement(c)
  PROVE  QmlInv'
<1>1. QmlTypeOK /\ (Careful => BlocksSound /\ HeldSound /\ TypesSound)
  BY DEF QmlInv
<1>2. Allowed(c) /\ c \in alive /\ marks' = [marks EXCEPT ![c] = ElementMarks(c)] /\ tried' = tried \cup {c}
      /\ UNCHANGED <<described, entry, infos, alive, meant>>
  BY DEF QmlElement, Allowed
<1>3. Registered(c) \in Classes /\ ElementMarks(c) \in SUBSET Marks
  BY <1>1, Blocks
<1>4. tried \subseteq tried' /\ tried' \subseteq Classes /\ marks' \in [Classes -> SUBSET Marks]
  BY <1>1, <1>2, <1>3 DEF QmlTypeOK
<1>5. PICK target \in Classes : target = Registered(c)
  BY <1>3
<1>6. Careful => Claimed(c)' /\ target \in alive /\ ~ Claimed(target) /\ Claimed(target)'
  <2> SUFFICES ASSUME Careful PROVE Claimed(c)' /\ target \in alive /\ ~ Claimed(target) /\ Claimed(target)'
    OBVIOUS
  <2>1. /\ entry[c] \in {c, NoClass} /\ target \in alive /\ ~ Claimed(target)
        /\ entry[target] \in {c, NoClass} /\ (entry[target] = NoClass => target = c)
    BY <1>2, <1>5, Unclaimed
  <2>2. Claimed(c)' /\ Claimed(target)'
    BY <1>2, <2>1 DEF Claimed
  <2> QED
    BY <2>1, <2>2
<1>7. PICK m \in SUBSET Marks : m = ElementMarks(c)
  BY <1>3
<1>8. PICK import \in ImportData, creation \in Creation, accepted \in BOOLEAN :
        \/ RegisterSingleton(target, c, m, accepted /\ target \in Derived)
        \/ RegisterType(target, c, m, accepted)
        \/ UNCHANGED <<attaching, types, held>>
  BY <1>5, <1>7 DEF QmlElement
<1>9. CASE RegisterSingleton(target, c, m, accepted /\ target \in Derived)
  BY <1>2, <1>4, <1>6, <1>9, SingletonKeeps
<1>10. CASE RegisterType(target, c, m, accepted)
  BY <1>2, <1>4, <1>6, <1>10, TypeKeeps
<1>11. CASE UNCHANGED <<attaching, types, held>>
  <2>1. QmlTypeOK'
    BY <1>1, <1>2, <1>4, <1>11 DEF QmlTypeOK
  <2>2. (BlocksSound => BlocksSound') /\ (HeldSound => HeldSound') /\ (TypesSound => TypesSound')
    BY <1>2, <1>11 DEF BlocksSound, HeldSound, Claimed, TypesSound, RegisteredSound, ExtensionMade, InfoOf
  <2> QED
    BY <1>1, <2>1, <2>2 DEF QmlInv
<1> QED
  BY <1>8, <1>9, <1>10, <1>11

LEMMA RegisterTypeKeeps ==
  ASSUME QmlInv, NEW c \in Classes, NEW creatable \in BOOLEAN, qmlRegisterType(c, creatable)
  PROVE  QmlInv'
<1>1. Allowed(c) /\ c \in alive /\ tried' = tried \cup {c} /\ UNCHANGED <<described, entry, infos, marks, alive, meant>>
  BY DEF qmlRegisterType, Allowed
<1>2. tried \subseteq tried' /\ tried' \subseteq Classes /\ marks' \in [Classes -> SUBSET Marks]
  BY <1>1 DEF QmlInv, QmlTypeOK
<1>3. ASSUME Careful PROVE c \in alive /\ ~ Claimed(c) /\ Claimed(c)'
  <2>1. entry[c] \in {c, NoClass} /\ ~ Claimed(c)
    BY <1>1, <1>3, Unclaimed
  <2> QED
    BY <1>1, <2>1 DEF Claimed
<1>4. PICK m \in SUBSET Marks, accepted \in BOOLEAN : RegisterType(c, c, m, accepted)
  BY DEF qmlRegisterType, Marks
<1> QED
  BY <1>1, <1>2, <1>3, <1>4, TypeKeeps

LEMMA RegisterSingletonTypeKeeps ==
  ASSUME QmlInv, NEW c \in Classes, qmlRegisterSingletonType(c)
  PROVE  QmlInv'
<1>1. Allowed(c) /\ c \in alive /\ tried' = tried \cup {c} /\ UNCHANGED <<described, entry, infos, marks, alive, meant>>
  BY DEF qmlRegisterSingletonType, Allowed
<1>2. tried \subseteq tried' /\ tried' \subseteq Classes /\ marks' \in [Classes -> SUBSET Marks]
  BY <1>1 DEF QmlInv, QmlTypeOK
<1>3. ASSUME Careful PROVE Claimed(c)'
  <2>1. entry[c] \in {c, NoClass}
    BY <1>1, <1>3, Unclaimed
  <2> QED
    BY <1>1, <2>1 DEF Claimed
<1>4. PICK accepted \in BOOLEAN : RegisterSingleton(c, c, {}, accepted)
  BY DEF qmlRegisterSingletonType
<1> QED
  BY <1>1, <1>2, <1>3, <1>4, SingletonKeeps

LEMMA RegisterInstanceKeeps ==
  ASSUME QmlInv, NEW c \in Classes, qmlRegisterSingletonInstance(c)
  PROVE  QmlInv'
<1>1. QmlTypeOK /\ (Careful => BlocksSound /\ HeldSound /\ TypesSound)
  BY DEF QmlInv
<1>2. PICK m \in SUBSET Marks : m = marks[c] \cup {"Element", "Singleton"}
  BY <1>1 DEF QmlTypeOK, Marks
<1> DEFINE t == NewType(c, c, "instance", NoClass, m, 0, NoClass)
<1>3. /\ tried' = tried \cup {c} /\ marks' = [marks EXCEPT ![c] = m]
      /\ types' = types \/ types' = Append(types, t)
      /\ UNCHANGED <<described, entry, infos, attaching, held, alive, meant>>
  BY <1>2 DEF qmlRegisterSingletonInstance
<1>4. t \in QmlType /\ t.creates = NoClass /\ t.slot = 0 /\ t.extension = NoClass
  BY DEF NewType, QmlType, Maybe
<1> HIDE DEF t
<1>5. held' \subseteq Classes /\ tried' \subseteq Classes /\ marks' \in [Classes -> SUBSET Marks] /\ tried \subseteq tried'
  BY <1>1, <1>3 DEF QmlTypeOK
<1>6. QmlTypeOK'
  BY <1>1, <1>3, <1>4, <1>5, RegistrationTypes
<1>7. RegisteredSound(t)'
  BY <1>4 DEF RegisteredSound
<1>8. ASSUME Careful PROVE BlocksSound' /\ HeldSound' /\ TypesSound'
  <2> DEFINE K == {}
  <2>1. K \in SUBSET alive /\ held' = held \cup K /\ \A k \in K : Claimed(k)'
    BY <1>3
  <2>2. types' = types \/ \E r \in QmlType : types' = Append(types, r) /\ RegisteredSound(r)'
    BY <1>3, <1>4, <1>7
  <2> HIDE DEF K
  <2> QED
    BY <1>1, <1>3, <1>5, <1>8, <2>1, <2>2, RegistrationKeeps
<1> QED
  BY <1>6, <1>8 DEF QmlInv

\* A class that goes is in no table, and one that comes neither.
LEMMA CollectClassKeeps ==
  ASSUME QmlInv, NEW c \in Classes, CollectClass(c)
  PROVE  QmlInv'
<1>1. c \notin held /\ alive' = alive \ {c} /\ UNCHANGED <<described, entry, infos, attaching, types, marks, held, meant, tried>>
  BY DEF CollectClass
<1>2. QmlTypeOK'
  BY <1>1 DEF QmlInv, QmlTypeOK
<1>3. ASSUME Careful PROVE BlocksSound' /\ HeldSound' /\ TypesSound'
  <2>1. BlocksSound /\ HeldSound /\ TypesSound
    BY <1>3 DEF QmlInv
  <2>2. c \notin Named
    BY <1>3 DEF CollectClass, Careful
  <2>3. /\ entry[c] = NoClass
        /\ \A x \in Classes : c \notin {infos[x].foreign, infos[x].attached, infos[x].extension}
    BY <2>2 DEF Named
  <2>4. BlocksSound'
    BY <1>1, <2>1, <2>3 DEF BlocksSound
  <2>5. HeldSound' /\ TypesSound'
    BY <1>1, <2>1 DEF HeldSound, Claimed, TypesSound, RegisteredSound, ExtensionMade, InfoOf
  <2> QED
    BY <2>4, <2>5
<1> QED
  BY <1>2, <1>3 DEF QmlInv

LEMMA DefineAtKeeps ==
  ASSUME QmlInv, NEW c \in Classes, DefineAt(c)
  PROVE  QmlInv'
<1>1. /\ c \notin alive /\ alive' = alive \cup {c} /\ marks' = [marks EXCEPT ![c] = {}]
      /\ meant' = [meant EXCEPT ![c] = Blank] /\ tried' = tried \ {c}
      /\ UNCHANGED <<described, entry, infos, attaching, types, held>>
  BY DEF DefineAt
<1>2. QmlTypeOK'
  BY <1>1, BlankInfo DEF QmlInv, QmlTypeOK
<1>3. ASSUME Careful PROVE BlocksSound' /\ HeldSound' /\ TypesSound'
  <2>1. QmlTypeOK /\ BlocksSound /\ HeldSound /\ TypesSound /\ NoClass \notin Classes
    BY <1>3, QmlClassAssumption DEF QmlInv
  <2>2. entry[c] = NoClass /\ meant[c] = Blank /\ c # NoClass
    BY <1>1, <2>1 DEF BlocksSound
  <2>3. meant' = meant
    BY <1>1, <2>1, <2>2 DEF QmlTypeOK
  <2>4. BlocksSound'
    BY <1>1, <2>1, <2>3 DEF BlocksSound
  <2>5. ASSUME NEW t \in held PROVE Claimed(t)'
    <3>1. t \in Classes /\ t # c /\ Claimed(t)
      BY <1>1, <2>1 DEF HeldSound, QmlTypeOK
    <3>2. entry[t] # c
      BY <2>1, <2>2, <3>1 DEF BlocksSound
    <3> QED
      BY <1>1, <3>1, <3>2 DEF Claimed
  <2>6. HeldSound'
    BY <1>1, <2>1, <2>5 DEF HeldSound
  <2>7. TypesSound'
    BY <1>1, <2>1 DEF TypesSound, RegisteredSound, ExtensionMade, InfoOf
  <2> QED
    BY <2>4, <2>6, <2>7
<1> QED
  BY <1>2, <1>3 DEF QmlInv

LEMMA QmlInvInit == QmlInit => QmlInv
<1> SUFFICES ASSUME QmlInit PROVE QmlInv
  OBVIOUS
<1>1. <<>> \in Seq(Classes) /\ <<>> \in Seq(QmlType) /\ Len(<<>>) = 0
  BY EmptySeq
<1>2. QmlTypeOK
  BY <1>1, BlankInfo, QmlBoundAssumption DEF QmlInit, QmlTypeOK, Maybe, Marks
<1>3. BlocksSound
  BY QmlClassAssumption DEF QmlInit, BlocksSound, Blank
<1>4. HeldSound /\ TypesSound
  BY <1>1 DEF QmlInit, HeldSound, TypesSound
<1> QED
  BY <1>2, <1>3, <1>4 DEF QmlInv

LEMMA QmlInvNext ==
  ASSUME QmlInv, [QmlNext]_qmlVars
  PROVE  QmlInv'
<1>1. ASSUME NEW c \in Classes, QmlSingleton(c) PROVE QmlInv'
  BY <1>1, QmlSingletonKeeps
<1>2. ASSUME NEW c \in Classes, NEW a \in Classes, QmlAttached(c, a) PROVE QmlInv'
  BY <1>2, QmlAttachedKeeps
<1>3. ASSUME NEW c \in Classes, NEW e \in Classes, QmlExtended(c, e) PROVE QmlInv'
  BY <1>3, QmlExtendedKeeps
<1>4. ASSUME NEW c \in Classes, NEW f \in Classes, QmlForeign(c, f) PROVE QmlInv'
  BY <1>4, QmlForeignKeeps
<1>5. ASSUME NEW c \in Classes, QmlUncreatable(c) PROVE QmlInv'
  BY <1>5, QmlUncreatableKeeps
<1>6. ASSUME NEW c \in Classes, QmlElement(c) PROVE QmlInv'
  BY <1>6, QmlElementKeeps
<1>7. ASSUME NEW c \in Classes, NEW creatable \in BOOLEAN, qmlRegisterType(c, creatable) PROVE QmlInv'
  BY <1>7, RegisterTypeKeeps
<1>8. ASSUME NEW c \in Classes, qmlRegisterSingletonType(c) PROVE QmlInv'
  BY <1>8, RegisterSingletonTypeKeeps
<1>9. ASSUME NEW c \in Classes, qmlRegisterSingletonInstance(c) PROVE QmlInv'
  BY <1>9, RegisterInstanceKeeps
<1>10. ASSUME NEW c \in Classes, CollectClass(c) PROVE QmlInv'
  BY <1>10, CollectClassKeeps
<1>11. ASSUME NEW c \in Classes, DefineAt(c) PROVE QmlInv'
  BY <1>11, DefineAtKeeps
<1>12. ASSUME UNCHANGED qmlVars PROVE QmlInv'
  BY <1>12 DEF qmlVars, QmlInv, QmlTypeOK, BlocksSound, HeldSound, Claimed, TypesSound, RegisteredSound,
               ExtensionMade, InfoOf
<1> QED
  BY <1>1, <1>2, <1>3, <1>4, <1>5, <1>6, <1>7, <1>8, <1>9, <1>10, <1>11, <1>12 DEF QmlNext

LEMMA QmlInvariant == QmlSpec => []QmlInv
BY QmlInvInit, QmlInvNext, PTL DEF QmlSpec

-----------------------------------------------------------------------------
(* What it shows *)

\* For every set of classes: the types of what QML registration keeps.
THEOREM QmlTypeCorrect == QmlSpec => []QmlTypeOK
<1>1. QmlInv => QmlTypeOK
  BY DEF QmlInv
<1> QED
  BY <1>1, QmlInvariant, PTL

\* For every set of classes, decorated and registered in any order: what QML and Python look
\* up later are the classes of the registration, and these live.
THEOREM ClassesAreFound == ASSUME Careful PROVE QmlSpec => []QmlFindsItsClasses
<1>1. QmlInv => QmlFindsItsClasses
  <2> SUFFICES ASSUME QmlInv PROVE QmlFindsItsClasses
    OBVIOUS
  <2>1. QmlTypeOK /\ HeldSound /\ TypesSound
    BY DEF QmlInv
  <2>2. CalledClassesAlive
    BY <2>1 DEF CalledClassesAlive, HeldSound, TypesSound, RegisteredSound
  <2>3. ExtensionAgrees
    BY <2>1 DEF ExtensionAgrees, TypesSound, RegisteredSound
  <2>4. AttachedAgrees
    <3> SUFFICES ASSUME NEW i \in 1..Len(types), types[i].slot # 0
                 PROVE  /\ types[i].slot <= MaxAttaching /\ types[i].slot <= Len(attaching)
                        /\ SlotFound(types[i].class) = types[i].slot
      BY DEF AttachedAgrees
    <3> DEFINE c == types[i].class
               n == types[i].slot
    <3>1. n \in 1..Len(attaching) /\ attaching[n] = c
      BY <2>1 DEF TypesSound, RegisteredSound
    <3>2. Len(attaching) \in Nat /\ Len(attaching) <= MaxAttaching /\ MaxAttaching \in Nat
      BY <2>1, LenProperties, QmlBoundAssumption DEF QmlTypeOK
    <3>3. \A j, k \in 1..Len(attaching) : attaching[j] = attaching[k] => j = k
      BY <2>1 DEF HeldSound
    <3> DEFINE First(j) == attaching[j] = c /\ \A k \in 1 .. j - 1 : attaching[k] # c
    <3> HIDE DEF c, n
    <3>4. First(n)
      BY <3>1, <3>2, <3>3
    <3>5. \A j \in 1..Len(attaching) : First(j) => j = n
      BY <3>1, <3>3
    <3>6. SlotFound(c) = CHOOSE j \in 1..Len(attaching) : First(j)
      BY DEF SlotFound
    <3> HIDE DEF First
    <3>7. SlotFound(c) = n
      BY <3>1, <3>4, <3>5, <3>6
    <3> QED
      BY <3>1, <3>2, <3>7 DEF c, n
  <2> QED
    BY <2>2, <2>3, <2>4 DEF QmlFindsItsClasses
<1> QED
  BY <1>1, QmlInvariant, PTL

\* For every set of classes: a class is registered with what its decorators said of it, and
\* of the class its foreign decorator named.
THEOREM DecorationsAreRegistered == ASSUME Careful PROVE QmlSpec => RegisteredAsDecorated
<1>1. QmlInv /\ [QmlNext]_qmlVars =>
        [\A c \in Classes : QmlElement(c) /\ types' # types => AsMeant(Last(types'), c)]_qmlVars
  <2> SUFFICES ASSUME QmlInv, NEW c \in Classes, QmlElement(c), types' # types
               PROVE  AsMeant(Last(types'), c)
    OBVIOUS
  <2>1. QmlTypeOK /\ BlocksSound /\ Allowed(c)
    BY DEF QmlInv, QmlElement
  <2>2. /\ entry[c] \in {c, NoClass} /\ InfoOf(c) = meant[c]
        /\ entry[Registered(c)] \in {c, NoClass} /\ entry[Registered(c)] = entry[c]
    BY <2>1, Unclaimed
  <2>3. Registered(c) \in Classes /\ ElementMarks(c) \in SUBSET Marks
    BY <2>1, Blocks
  <2>4. InfoOf(Registered(c)) = InfoOf(c)
    BY <2>2, <2>3 DEF InfoOf
  <2>5. meant[c] \in Info
    BY <2>1 DEF QmlTypeOK
  <2> DEFINE f == Registered(c)
             e == ExtensionOf(f)
             m == ElementMarks(c)
  <2>6. f = (IF meant[c].foreign = NoClass THEN c ELSE meant[c].foreign)
    BY <2>2 DEF Registered
  <2>7. e = (IF meant[c].extension \in Derived THEN meant[c].extension ELSE NoClass)
    BY <2>2, <2>4 DEF ExtensionOf
  <2> HIDE DEF f, e, m
  <2>8. \/ meant[c].singleton /\ \E accepted \in BOOLEAN : RegisterSingleton(f, c, m, accepted)
        \/ ~ meant[c].singleton /\ \E accepted \in BOOLEAN : RegisterType(f, c, m, accepted)
    BY <2>2 DEF QmlElement, f, m
  <2>9. CASE meant[c].singleton /\ \E accepted \in BOOLEAN : RegisterSingleton(f, c, m, accepted)
    <3>1. PICK t \in QmlType : types' = Append(types, t) /\ t = NewType(f, c, "singleton", c, m, 0, NoClass)
      BY <2>1, <2>3, <2>9, SingletonRegistered DEF f, m
    <3>2. Last(types') = t
      BY <2>1, <3>1, TypesGrow
    <3>3. t.class = f /\ t.mode = "singleton"
      BY <3>1 DEF NewType
    <3> QED
      BY <2>6, <2>9, <3>2, <3>3 DEF AsMeant
  <2>10. CASE ~ meant[c].singleton /\ \E accepted \in BOOLEAN : RegisterType(f, c, m, accepted)
    <3>1. PICK slot \in Nat : \E t \in QmlType : types' = Append(types, t) /\ t = NewType(f, c, "type", f, m, slot, e)
      BY <2>1, <2>3, <2>10, TypeRegistered DEF f, m, e
    <3>2. PICK t \in QmlType : types' = Append(types, t) /\ t = NewType(f, c, "type", f, m, slot, e)
      BY <3>1
    <3>3. Last(types') = t
      BY <2>1, <3>2, TypesGrow
    <3>4. t.class = f /\ t.mode = "type" /\ t.extension = e
      BY <3>2 DEF NewType
    <3> QED
      BY <2>6, <2>7, <2>10, <3>3, <3>4 DEF AsMeant
  <2> QED
    BY <2>8, <2>9, <2>10
<1> QED
  BY <1>1, QmlInvariant, PTL DEF QmlSpec, RegisteredAsDecorated

-----------------------------------------------------------------------------
(* ClassBodies *)

\* The enumeration under a line waits for the end of the body it is written in. The bodies
\* inside of that one begin behind it.
WaitsFor(l, i) ==
  /\ frames[i].class # 0 /\ frames[i].class = enumCollector[l].class /\ frames[i].qobject
  /\ frames[i].line < l /\ l < frames[i].at
  /\ \A j \in i + 1 .. Len(frames) : l < frames[j].line

FramesInOrder == \A i \in 1..Len(frames) : frames[i].line < frames[i].at /\ frames[i].class <= begun

InfosSound ==
  /\ decorators \in Seq(SUBSET ClassNumber)
  /\ \A d \in 1..Len(decorators) :
       decorators[d] = {} \/ (d \in alreadyWrapped /\ \E c \in ClassNumber : decorators[d] = {c})

EnumsWait == \A l \in Lines : enumCollector[l] # Nobody => \E i \in 1..Len(frames) : WaitsFor(l, i)
EnumsReceived == \A c \in ClassNumber : \A e \in received[c] : e.class = c

BodyInv ==
  /\ ClassBodyTypeOK /\ FramesInOrder /\ InfosSound
  /\ Disciplined => EnumsWait /\ EnumsReceived
  /\ SlotsAsWritten

-----------------------------------------------------------------------------
(* Frames *)

LEMMA TopFrame ==
  ASSUME ClassBodyTypeOK, frames # <<>>
  PROVE  Len(frames) \in Nat /\ Len(frames) >= 1 /\ Top = frames[Len(frames)] /\ Top \in Frame
BY StackTop DEF ClassBodyTypeOK, Top

LEMMA FrameNumbers ==
  ASSUME NEW f \in Frame
  PROVE  f.at \in Nat /\ f.line \in Nat /\ f.class \in Nat
BY ClassBodyAssumption DEF Frame, Lines

LEMMA FrameFields ==
  ASSUME NEW f \in Frame, NEW at \in 1..MaxLines + 1
  PROVE  LET g == [f EXCEPT !.at = at]
         IN  g \in Frame /\ g.at = at /\ g.line = f.line /\ g.class = f.class /\ g.qobject = f.qobject /\ g.module = f.module
BY DEF Frame

LEMMA Advances ==
  ASSUME ClassBodyTypeOK, Runs
  PROVE  /\ Len(frames) \in Nat /\ Len(frames) >= 1 /\ frames # <<>>
         /\ Top = frames[Len(frames)] /\ Top \in Frame /\ Top.at \in Lines
         /\ Advanced \in Seq(Frame) /\ Len(Advanced) = Len(frames)
         /\ \A i \in 1..Len(frames) :
              /\ Advanced[i].line = frames[i].line /\ Advanced[i].class = frames[i].class
              /\ Advanced[i].qobject = frames[i].qobject
              /\ Advanced[i].at = (IF i = Len(frames) THEN frames[i].at + 1 ELSE frames[i].at)
<1> DEFINE n == Len(frames)
           f == [frames[n] EXCEPT !.at = frames[n].at + 1]
           r == [frames EXCEPT ![n] = f]
<1>1. frames # <<>> /\ Top.at \in Lines /\ frames \in Seq(Frame)
  <2>1. Len(<<>>) = 0
    BY EmptySeq
  <2> QED
    BY <2>1 DEF Runs, ClassBodyTypeOK
<1>2. n \in Nat /\ n >= 1 /\ Top = frames[n] /\ Top \in Frame
  BY <1>1, TopFrame
<1>3. frames[n].at + 1 \in 1..MaxLines + 1
  BY <1>1, <1>2, ClassBodyAssumption DEF Lines
<1>4. f \in Frame /\ f.at = frames[n].at + 1 /\ f.line = frames[n].line /\ f.class = frames[n].class /\ f.qobject = frames[n].qobject
  BY <1>2, <1>3, FrameFields
<1>5. Advanced = r
  BY DEF Advanced
<1> HIDE DEF f
<1>6. r \in Seq(Frame) /\ Len(r) = n /\ r[n] = f /\ \A i \in 1..n : i # n => r[i] = frames[i]
  BY <1>1, <1>4, StackChange
<1> HIDE DEF r, n
<1>7. \A i \in 1..n :
        /\ Advanced[i].line = frames[i].line /\ Advanced[i].class = frames[i].class
        /\ Advanced[i].qobject = frames[i].qobject
        /\ Advanced[i].at = (IF i = n THEN frames[i].at + 1 ELSE frames[i].at)
  BY <1>2, <1>4, <1>5, <1>6
<1> QED
  BY <1>1, <1>2, <1>5, <1>6, <1>7 DEF n

\* The statement of a body has ended; the frame around it is behind it.
LEMMA BodyIsLeft ==
  ASSUME ClassBodyTypeOK, FramesInOrder, frames # <<>>
  PROVE  /\ Left(Top) \in Seq(Frame) /\ Len(Left(Top)) = Len(frames) - 1
         /\ \A i \in 1..Len(frames) - 1 :
              /\ Left(Top)[i].line = frames[i].line /\ Left(Top)[i].class = frames[i].class
              /\ Left(Top)[i].qobject = frames[i].qobject
              /\ Left(Top)[i].line < Left(Top)[i].at
              /\ \A l \in Lines : l < frames[i].at /\ l < Top.line => l < Left(Top)[i].at
<1> DEFINE n == Len(frames)
           rest == Front(frames)
<1>1. frames \in Seq(Frame) /\ n \in Nat /\ n >= 1 /\ Top = frames[n] /\ Top \in Frame
  BY TopFrame DEF ClassBodyTypeOK
<1>2. rest \in Seq(Frame) /\ Len(rest) = n - 1 /\ \A i \in 1..n - 1 : rest[i] = frames[i]
  BY <1>1, StackPop
<1>3. PICK top \in Frame : top = Top
  BY <1>1
<1>4. \A i \in 1..n : frames[i] \in Frame /\ frames[i].line < frames[i].at
  BY <1>1, ElementOfSeq DEF FramesInOrder
<1>5. top.line < top.at /\ top.line \in Lines /\ top.at \in 1..MaxLines + 1
  BY <1>1, <1>3, <1>4 DEF Frame
<1>6. Lines \subseteq Nat
  BY DEF Lines
<1> HIDE DEF n, rest
<1>7. CASE rest # <<>> /\ Last(rest).module = top.module /\ top.line >= Last(rest).line
  <2> DEFINE m == Len(rest)
             f == [rest[m] EXCEPT !.at = top.at]
             r == [rest EXCEPT ![m] = f]
  <2>1. m \in Nat /\ m >= 1 /\ m = n - 1 /\ Last(rest) = rest[m] /\ rest[m] \in Frame
    BY <1>2, <1>7, StackTop
  <2>2. f \in Frame /\ f.at = top.at /\ f.line = rest[m].line /\ f.class = rest[m].class /\ f.qobject = rest[m].qobject
    BY <1>5, <2>1, FrameFields
  <2>3. Left(Top) = r
    BY <1>3, <1>7 DEF Left, rest
  <2> HIDE DEF f
  <2>4. r \in Seq(Frame) /\ Len(r) = m /\ r[m] = f /\ \A i \in 1..m : i # m => r[i] = rest[i]
    BY <1>2, <1>7, <2>2, StackChange
  <2> HIDE DEF r, m
  <2>5. \A i \in 1..n - 1 :
          /\ r[i].line = frames[i].line /\ r[i].class = frames[i].class /\ r[i].qobject = frames[i].qobject
          /\ r[i].at = IF i = m THEN top.at ELSE frames[i].at
    BY <1>1, <1>2, <2>1, <2>2, <2>4
  <2>6. frames[m].line <= top.line /\ frames[m].line \in Nat /\ top.line \in Nat /\ top.at \in Nat
    <3>1. rest[m] = frames[m]
      BY <1>1, <1>2, <2>1
    <3>2. frames[m].line \in Lines
      BY <2>1, <3>1 DEF Frame
    <3>3. top.at \in Nat
      BY <1>5, ClassBodyAssumption
    <3>4. top.line \in Nat /\ frames[m].line \in Nat
      BY <1>5, <1>6, <3>2
    <3>5. rest[m].line <= top.line
      BY <1>7, <2>1, <3>1, <3>4
    <3> QED
      BY <3>1, <3>3, <3>4, <3>5
  <2>7. \A i \in 1..n - 1 : r[i].line < r[i].at
    BY <1>1, <1>4, <1>5, <2>1, <2>5, <2>6
  <2>8. \A i \in 1..n - 1 : \A l \in Lines : l < frames[i].at /\ l < top.line => l < r[i].at
    <3> SUFFICES ASSUME NEW i \in 1..n - 1, NEW l \in Lines, l < frames[i].at, l < top.line
                 PROVE  l < r[i].at
      OBVIOUS
    <3>1. l \in Nat /\ top.line < top.at
      BY <1>5, <1>6
    <3>2. r[i].at = IF i = m THEN top.at ELSE frames[i].at
      BY <2>5
    <3>3. l < top.at
      BY <2>6, <3>1
    <3> QED
      BY <3>2, <3>3
  <2> QED
    BY <1>3, <2>1, <2>3, <2>4, <2>5, <2>7, <2>8 DEF n
<1>8. CASE ~ (rest # <<>> /\ Last(rest).module = top.module /\ top.line >= Last(rest).line)
  <2>1. Left(Top) = rest
    BY <1>3, <1>8 DEF Left, rest
  <2>2. \A i \in 1..n - 1 : rest[i] = frames[i] /\ rest[i].line < rest[i].at
    BY <1>1, <1>2, <1>4
  <2> QED
    BY <1>2, <2>1, <2>2 DEF n
<1> QED
  BY <1>7, <1>8

\* What waits is above the line that runs.
LEMMA WaitsAbove ==
  ASSUME ClassBodyTypeOK, FramesInOrder, EnumsWait, frames # <<>>,
         NEW l \in Lines, enumCollector[l] # Nobody
  PROVE  l < Top.at
<1>1. PICK i \in 1..Len(frames) : WaitsFor(l, i)
  BY DEF EnumsWait
<1> DEFINE n == Len(frames)
<1>2. n \in Nat /\ n >= 1 /\ Top = frames[n] /\ frames[n] \in Frame /\ frames[n].line < frames[n].at
  BY TopFrame DEF FramesInOrder
<1>3. l \in Nat /\ frames[n].line \in Nat /\ frames[n].at \in Nat
  BY <1>2, ClassBodyAssumption DEF Frame, Lines
<1> HIDE DEF n
<1>4. CASE i = n
  BY <1>1, <1>2, <1>4 DEF WaitsFor
<1>5. CASE i # n
  <2>1. n \in i + 1 .. n
    BY <1>1, <1>2, <1>5 DEF n
  <2>2. l < frames[n].line
    BY <1>1, <2>1 DEF WaitsFor, n
  <2> QED
    BY <1>2, <1>3, <2>2
<1> QED
  BY <1>4, <1>5

\* Frames go on and others begin behind what waits.
LEMMA FramesGoOn ==
  ASSUME ClassBodyTypeOK, EnumsWait, enumCollector' = enumCollector,
         frames' \in Seq(Frame), Len(frames) \in Nat, Len(frames') \in Nat, Len(frames) <= Len(frames'),
         \A i \in 1..Len(frames) :
           /\ frames'[i].line = frames[i].line /\ frames'[i].class = frames[i].class
           /\ frames'[i].qobject = frames[i].qobject /\ frames[i].at <= frames'[i].at,
         \A l \in Lines : enumCollector[l] # Nobody =>
           \A j \in Len(frames) + 1 .. Len(frames') : l < frames'[j].line
  PROVE  EnumsWait'
<1> SUFFICES ASSUME NEW l \in Lines, enumCollector[l] # Nobody
             PROVE  \E i \in 1..Len(frames') : WaitsFor(l, i)'
  BY DEF EnumsWait
<1>1. PICK i \in 1..Len(frames) : WaitsFor(l, i)
  BY DEF EnumsWait
<1>2. i \in 1..Len(frames')
  OBVIOUS
<1>3. l < frames'[i].at
  <2>1. frames[i] \in Frame /\ frames'[i] \in Frame
    BY <1>2, ElementOfSeq DEF ClassBodyTypeOK
  <2>2. l \in Nat /\ frames[i].at \in Nat /\ frames'[i].at \in Nat
    BY <2>1, FrameNumbers DEF Lines
  <2>3. l < frames[i].at
    BY <1>1 DEF WaitsFor
  <2>4. frames[i].at <= frames'[i].at
    OBVIOUS
  <2> QED
    BY <2>2, <2>3, <2>4
<1>4. \A j \in i + 1 .. Len(frames') : l < frames'[j].line
  <2> SUFFICES ASSUME NEW j \in i + 1 .. Len(frames') PROVE l < frames'[j].line
    OBVIOUS
  <2>1. CASE j \in i + 1 .. Len(frames)
    <3>1. l < frames[j].line
      BY <1>1, <2>1 DEF WaitsFor
    <3>2. j \in 1..Len(frames)
      BY <2>1
    <3> QED
      BY <3>1, <3>2
  <2>2. CASE j \notin i + 1 .. Len(frames)
    <3>1. j \in Len(frames) + 1 .. Len(frames')
      BY <2>2
    <3> QED
      BY <3>1
  <2> QED
    BY <2>1, <2>2
<1>5. WaitsFor(l, i)'
  BY <1>1, <1>3, <1>4 DEF WaitsFor
<1> QED
  BY <1>2, <1>5

-----------------------------------------------------------------------------
(* The steps *)

LEMMA BeginClassKeeps ==
  ASSUME BodyInv, NEW qobject \in BOOLEAN, NEW line \in Lines, BeginClass(qobject, line)
  PROVE  BodyInv'
<1> DEFINE n == Len(frames)
           g == [module |-> Top.module, class |-> begun + 1, line |-> line, at |-> line + 1, qobject |-> qobject]
<1>1. ClassBodyTypeOK /\ FramesInOrder /\ InfosSound /\ (Disciplined => EnumsWait /\ EnumsReceived) /\ SlotsAsWritten
  BY DEF BodyInv
<1>2. /\ Runs /\ begun < MaxClasses /\ (line # Top.at => "factories" \in habit)
      /\ begun' = begun + 1 /\ frames' = Append(Advanced, g)
      /\ UNCHANGED <<habit, enumCollector, imported, classes, received, slots, decorators, alreadyWrapped>>
  BY DEF BeginClass
<1>3. /\ n \in Nat /\ n >= 1 /\ frames # <<>> /\ Top = frames[n] /\ Top \in Frame /\ Top.at \in Lines
      /\ Advanced \in Seq(Frame) /\ Len(Advanced) = n
      /\ \A i \in 1..n :
           /\ Advanced[i].line = frames[i].line /\ Advanced[i].class = frames[i].class
           /\ Advanced[i].qobject = frames[i].qobject
           /\ Advanced[i].at = (IF i = n THEN frames[i].at + 1 ELSE frames[i].at)
  BY <1>1, <1>2, Advances
<1>4. begun \in Nat /\ begun + 1 \in 0..MaxClasses
  BY <1>1, <1>2, ClassBodyAssumption DEF ClassBodyTypeOK
<1>5. g \in Frame /\ g.line = line /\ g.at = line + 1 /\ g.class = begun + 1
  BY <1>3, <1>4, ClassBodyAssumption DEF Frame, Lines
<1> HIDE DEF g
<1>6. /\ frames' \in Seq(Frame) /\ Len(frames') = n + 1 /\ frames'[n + 1] = g
      /\ \A i \in 1..n : frames'[i] = Advanced[i]
  BY <1>2, <1>3, <1>5, StackPush
<1>7. \A i \in 1..n : frames[i] \in Frame /\ frames[i].line < frames[i].at /\ frames[i].class <= begun
      /\ frames[i].line \in Nat /\ frames[i].at \in Nat /\ frames[i].class \in Nat
  <2>1. \A i \in 1..n : frames[i] \in Frame
    BY <1>1, <1>3, ElementOfSeq DEF ClassBodyTypeOK
  <2> QED
    BY <1>1, <2>1, ClassBodyAssumption DEF FramesInOrder, Frame, Lines
<1> HIDE DEF n
<1>8. \A i \in 1..n :
        /\ frames'[i].line = frames[i].line /\ frames'[i].class = frames[i].class
        /\ frames'[i].qobject = frames[i].qobject /\ frames[i].at <= frames'[i].at
  <2> SUFFICES ASSUME NEW i \in 1..n
               PROVE  /\ frames'[i].line = frames[i].line /\ frames'[i].class = frames[i].class
                      /\ frames'[i].qobject = frames[i].qobject /\ frames[i].at <= frames'[i].at
    OBVIOUS
  <2>1. frames'[i] = Advanced[i]
    BY <1>6
  <2>2. /\ Advanced[i].line = frames[i].line /\ Advanced[i].class = frames[i].class
        /\ Advanced[i].qobject = frames[i].qobject
        /\ Advanced[i].at = (IF i = n THEN frames[i].at + 1 ELSE frames[i].at)
    BY <1>3
  <2>3. frames[i].at \in Nat
    BY <1>7
  <2>4. frames[i].at <= Advanced[i].at
    BY <2>2, <2>3
  <2> QED
    BY <2>1, <2>2, <2>4
<1>9. ClassBodyTypeOK'
  <2>1. classes \subseteq 1..begun'
    BY <1>1, <1>2, <1>4 DEF ClassBodyTypeOK
  <2> QED
    BY <1>1, <1>2, <1>4, <1>6, <2>1 DEF ClassBodyTypeOK
<1>10. FramesInOrder'
  <2> SUFFICES ASSUME NEW i \in 1..n + 1 PROVE frames'[i].line < frames'[i].at /\ frames'[i].class <= begun'
    BY <1>6 DEF FramesInOrder
  <2>1. CASE i = n + 1
    <3>1. line \in Nat
      BY DEF Lines
    <3> QED
      BY <1>2, <1>4, <1>5, <1>6, <2>1, <3>1
  <2>2. CASE i # n + 1
    <3>1. i \in 1..n
      BY <1>3, <2>2
    <3>2. /\ frames'[i].line = frames[i].line /\ frames'[i].class = frames[i].class /\ frames[i].at <= frames'[i].at
          /\ frames[i].line < frames[i].at /\ frames[i].class <= begun
          /\ frames[i].line \in Nat /\ frames[i].at \in Nat /\ frames[i].class \in Nat
      BY <1>7, <1>8, <3>1
    <3>3. frames'[i].at \in Nat
      <4>1. frames'[i] \in Frame
        BY <1>6, <3>1, ElementOfSeq
      <4> QED
        BY <4>1, FrameNumbers
    <3>4. begun' = begun + 1
      BY <1>2
    <3>5. frames'[i].class <= begun'
      <4>1. frames[i].class <= begun + 1
        BY <1>4, <3>2
      <4> QED
        BY <3>2, <3>4, <4>1
    <3>6. frames'[i].line < frames'[i].at
      <4>1. frames[i].line < frames'[i].at
        BY <3>2, <3>3
      <4> QED
        BY <3>2, <4>1
    <3> QED
      BY <3>5, <3>6
  <2> QED
    BY <2>1, <2>2
<1>11. ASSUME Disciplined PROVE EnumsWait'
  <2>1. EnumsWait /\ line = Top.at
    BY <1>1, <1>2, <1>11 DEF Disciplined
  <2>2. \A l \in Lines : enumCollector[l] # Nobody => l < line
    BY <1>1, <1>3, <2>1, WaitsAbove
  <2>3. \A l \in Lines : enumCollector[l] # Nobody => \A j \in Len(frames) + 1 .. Len(frames') : l < frames'[j].line
    BY <1>3, <1>5, <1>6, <2>2 DEF n
  <2>4. Len(frames) \in Nat /\ Len(frames') \in Nat /\ Len(frames) <= Len(frames')
    BY <1>3, <1>6 DEF n
  <2> QED
    BY <1>1, <1>2, <1>6, <1>8, <2>1, <2>3, <2>4, FramesGoOn DEF n
<1>12. InfosSound' /\ (Disciplined' => Disciplined) /\ (EnumsReceived => EnumsReceived') /\ SlotsAsWritten'
  BY <1>1, <1>2 DEF InfosSound, Disciplined, EnumsReceived, SlotsAsWritten
<1> QED
  BY <1>1, <1>9, <1>10, <1>11, <1>12 DEF BodyInv

LEMMA QEnumKeeps ==
  ASSUME BodyInv, QEnum
  PROVE  BodyInv'
<1> DEFINE n == Len(frames)
           at == Top.at
<1>1. ClassBodyTypeOK /\ FramesInOrder /\ InfosSound /\ (Disciplined => EnumsWait /\ EnumsReceived) /\ SlotsAsWritten
  BY DEF BodyInv
<1>2. /\ Runs /\ Top.class # 0 /\ (Top.qobject \/ "plain" \in habit)
      /\ enumCollector' = [enumCollector EXCEPT ![at] = [class |-> Top.class, line |-> at]]
      /\ frames' = Advanced
      /\ UNCHANGED <<habit, begun, imported, classes, received, slots, decorators, alreadyWrapped>>
  BY DEF QEnum
<1>3. /\ n \in Nat /\ n >= 1 /\ frames # <<>> /\ Top = frames[n] /\ Top \in Frame /\ at \in Lines
      /\ frames' \in Seq(Frame) /\ Len(frames') = n
      /\ \A i \in 1..n :
           /\ frames'[i].line = frames[i].line /\ frames'[i].class = frames[i].class
           /\ frames'[i].qobject = frames[i].qobject
           /\ frames'[i].at = (IF i = n THEN frames[i].at + 1 ELSE frames[i].at)
  BY <1>1, <1>2, Advances
<1>4. [class |-> Top.class, line |-> at] \in Enum
  BY <1>2, <1>3, ClassBodyAssumption DEF Enum, Frame, ClassNumber
<1>5. \A i \in 1..n : frames[i] \in Frame /\ frames[i].line < frames[i].at /\ frames[i].class <= begun
      /\ frames[i].line \in Nat /\ frames[i].at \in Nat
  <2>1. \A i \in 1..n : frames[i] \in Frame
    BY <1>1, <1>3, ElementOfSeq DEF ClassBodyTypeOK
  <2> QED
    BY <1>1, <2>1, ClassBodyAssumption DEF FramesInOrder, Frame, Lines
<1>6. ClassBodyTypeOK'
  BY <1>1, <1>2, <1>3, <1>4 DEF ClassBodyTypeOK
<1>7. FramesInOrder'
  BY <1>2, <1>3, <1>5 DEF FramesInOrder
<1>8. ASSUME Disciplined PROVE EnumsWait'
  <2>1. EnumsWait /\ Top.qobject
    BY <1>1, <1>2, <1>8 DEF Disciplined
  <2> SUFFICES ASSUME NEW l \in Lines, enumCollector'[l] # Nobody
               PROVE  \E i \in 1..Len(frames') : WaitsFor(l, i)'
    BY DEF EnumsWait
  <2>2. CASE l = at
    <3>1. PICK k : k = n
      OBVIOUS
    <3>2. enumCollector'[l].class = Top.class
      BY <1>1, <1>2, <1>3, <2>2 DEF ClassBodyTypeOK
    <3>3. k + 1 .. Len(frames') = {} /\ k \in 1..Len(frames')
      BY <1>3, <3>1
    <3>4. frames'[k].line < l /\ l < frames'[k].at
      BY <1>3, <1>5, <2>2, <3>1
    <3>5. frames'[k].class = Top.class /\ frames'[k].qobject /\ Top.class # 0
      BY <1>2, <1>3, <2>1, <3>1
    <3>6. WaitsFor(l, k)'
      BY <3>2, <3>3, <3>4, <3>5 DEF WaitsFor
    <3> QED
      BY <3>3, <3>6
  <2>3. CASE l # at
    <3>1. enumCollector'[l] = enumCollector[l]
      BY <1>1, <1>2, <2>3 DEF ClassBodyTypeOK
    <3>2. PICK i \in 1..n : WaitsFor(l, i)
      BY <2>1, <3>1 DEF EnumsWait
    <3>3. l < frames[i].at /\ l \in Nat /\ frames[i].at <= frames'[i].at /\ frames'[i].at \in Nat
      BY <1>3, <1>5, <3>2 DEF WaitsFor, Lines
    <3>4. l < frames'[i].at
      BY <1>5, <3>3
    <3>5. \A j \in i + 1 .. Len(frames') : l < frames'[j].line
      BY <1>3, <3>2 DEF WaitsFor
    <3>6. WaitsFor(l, i)'
      BY <1>3, <3>1, <3>2, <3>4, <3>5 DEF WaitsFor
    <3> QED
      BY <1>3, <3>6
  <2> QED
    BY <2>2, <2>3
<1>9. InfosSound' /\ (Disciplined' => Disciplined) /\ (EnumsReceived => EnumsReceived') /\ SlotsAsWritten'
  BY <1>1, <1>2 DEF InfosSound, Disciplined, EnumsReceived, SlotsAsWritten
<1> QED
  BY <1>1, <1>6, <1>7, <1>8, <1>9 DEF BodyInv

\* What waits when a body ends is written in it, or above it.
LEMMA EndClassKeeps ==
  ASSUME BodyInv, EndClass
  PROVE  BodyInv'
<1> DEFINE n == Len(frames)
<1>1. ClassBodyTypeOK /\ FramesInOrder /\ InfosSound /\ (Disciplined => EnumsWait /\ EnumsReceived) /\ SlotsAsWritten
  BY DEF BodyInv
<1>2. /\ frames' = Left(Top) /\ n > 0 /\ Top.class # 0
      /\ UNCHANGED <<habit, begun, imported, slots, decorators, alreadyWrapped>>
  BY DEF EndClass
<1>3. n \in Nat /\ n >= 1 /\ frames # <<>> /\ Top = frames[n] /\ Top \in Frame
  <2>1. frames # <<>>
    BY <1>2, EmptySeq
  <2> QED
    BY <1>1, <2>1, TopFrame
<1>4. PICK top \in Frame : top = Top
  BY <1>3
<1>5. /\ top.class \in ClassNumber /\ top.class <= begun /\ top.line \in Lines /\ top.line < top.at
      /\ top.at \in Nat /\ begun \in Nat /\ top.class \in Nat
  <2>1. top.class <= begun /\ top.line < top.at
    BY <1>1, <1>3, <1>4 DEF FramesInOrder
  <2>2. top.at \in Nat /\ top.class \in Nat /\ top.class # 0 /\ top.line \in Lines
    BY <1>2, <1>4, FrameNumbers DEF Frame
  <2>3. begun \in 0..MaxClasses
    BY <1>1 DEF ClassBodyTypeOK
  <2> QED
    BY <2>1, <2>2, <2>3, ClassBodyAssumption DEF ClassNumber
<1>6. /\ frames' \in Seq(Frame) /\ Len(frames') = n - 1
      /\ \A i \in 1..n - 1 :
           /\ frames'[i].line = frames[i].line /\ frames'[i].class = frames[i].class
           /\ frames'[i].qobject = frames[i].qobject
           /\ frames'[i].line < frames'[i].at
           /\ \A l \in Lines : l < frames[i].at /\ l < top.line => l < frames'[i].at
  BY <1>1, <1>2, <1>3, <1>4, BodyIsLeft
<1>7. \/ /\ top.qobject /\ classes' = classes \cup {top.class}
         /\ received' = [received EXCEPT ![top.class] = {enumCollector[l] : l \in Resolved(top.line)}]
         /\ enumCollector' = [l \in Lines |-> IF l \in Resolved(top.line) THEN Nobody ELSE enumCollector[l]]
      \/ ~ top.qobject /\ UNCHANGED <<classes, received, enumCollector>>
  BY <1>4 DEF EndClass
<1> HIDE DEF n
<1>8. FramesInOrder'
  <2>1. \A i \in 1..n - 1 : frames[i].class <= begun
    BY <1>1, <1>3 DEF FramesInOrder, n
  <2> QED
    BY <1>2, <1>6, <2>1 DEF FramesInOrder
<1>9. ClassBodyTypeOK'
  <2>a. top.class \in 1..begun
    BY <1>5 DEF ClassNumber
  <2>b. classes \subseteq 1..begun
    BY <1>1 DEF ClassBodyTypeOK
  <2>1. classes' \subseteq 1..begun
    BY <1>7, <2>a, <2>b
  <2>2. {enumCollector[l] : l \in Resolved(top.line)} \subseteq Enum
    BY <1>1 DEF ClassBodyTypeOK, Resolved
  <2>3. received' \in [ClassNumber -> SUBSET Enum]
    BY <1>1, <1>5, <1>7, <2>2 DEF ClassBodyTypeOK
  <2>4. enumCollector' \in [Lines -> Enum \cup {Nobody}]
    BY <1>1, <1>7 DEF ClassBodyTypeOK
  <2>5. \A d \in 1..Len(decorators) : decorators[d] \subseteq classes'
    BY <1>1, <1>7 DEF ClassBodyTypeOK
  <2> QED
    BY <1>1, <1>2, <1>6, <2>1, <2>3, <2>4, <2>5 DEF ClassBodyTypeOK
\* What waits is of the body that ends, or of one around it and above it.
<1>10. ASSUME Disciplined, NEW l \in Lines, enumCollector[l] # Nobody, NEW i \in 1..n, WaitsFor(l, i)
       PROVE  /\ i = n => top.qobject /\ top.line < l /\ enumCollector[l].class = top.class
              /\ i # n => l < top.line
  <2>1. CASE i = n
    BY <1>3, <1>4, <1>10, <2>1 DEF WaitsFor
  <2>2. CASE i # n
    <3>1. n \in i + 1 .. n
      BY <1>3, <2>2
    <3>2. l < frames[n].line
      BY <1>10, <3>1 DEF WaitsFor, n
    <3> QED
      BY <1>3, <1>4, <2>2, <3>2
  <2> QED
    BY <2>1, <2>2
<1>11. ASSUME Disciplined, NEW l \in Lines, enumCollector'[l] # Nobody
       PROVE  \E i \in 1..Len(frames') : WaitsFor(l, i)'
  <2>1. enumCollector[l] # Nobody /\ enumCollector'[l] = enumCollector[l] /\ (top.qobject => ~ (l >= top.line))
    BY <1>7, <1>11 DEF Resolved
  <2>2. PICK i \in 1..n : WaitsFor(l, i)
    BY <1>1, <1>11, <2>1 DEF EnumsWait, n
  <2>3. l \in Nat /\ top.line \in Nat
    BY <1>5 DEF Lines
  <2>4. i # n /\ l < top.line
    BY <1>10, <1>11, <2>1, <2>2, <2>3
  <2>5. i \in 1..n - 1 /\ i \in 1..Len(frames')
    BY <1>3, <1>6, <2>4
  <2>6. l < frames[i].at
    BY <2>2 DEF WaitsFor
  <2>7. l < frames'[i].at
    BY <1>6, <2>4, <2>5, <2>6
  <2>8. \A j \in i + 1 .. Len(frames') : l < frames'[j].line
    <3> SUFFICES ASSUME NEW j \in i + 1 .. n - 1 PROVE l < frames'[j].line
      BY <1>6
    <3>1. j \in 1..n - 1 /\ j \in i + 1 .. n
      BY <1>3
    <3>2. l < frames[j].line
      BY <2>2, <3>1 DEF WaitsFor, n
    <3> QED
      BY <1>6, <3>1, <3>2
  <2>9. WaitsFor(l, i)'
    BY <1>6, <2>1, <2>2, <2>5, <2>7, <2>8 DEF WaitsFor
  <2> QED
    BY <2>5, <2>9
<1>12. ASSUME Disciplined PROVE EnumsWait'
  BY <1>11, <1>12 DEF EnumsWait
<1>13. ASSUME Disciplined PROVE EnumsReceived'
  <2>1. EnumsWait /\ EnumsReceived
    BY <1>1, <1>13
  <2>2. CASE top.qobject
    <3>1. ASSUME NEW l \in Resolved(top.line) PROVE enumCollector[l].class = top.class
      <4>1. l \in Lines /\ enumCollector[l] # Nobody /\ l >= top.line
        BY <3>1 DEF Resolved
      <4>2. PICK i \in 1..n : WaitsFor(l, i)
        BY <2>1, <4>1 DEF EnumsWait, n
      <4>3. l \in Nat /\ top.line \in Nat
        BY <1>5, <4>1 DEF Lines
      <4>4. i = n
        BY <1>10, <1>13, <4>1, <4>2, <4>3
      <4> QED
        BY <1>10, <1>13, <4>1, <4>2, <4>4
    <3>2. received' = [received EXCEPT ![top.class] = {enumCollector[l] : l \in Resolved(top.line)}]
      BY <1>7, <2>2
    <3>3. \A e \in {enumCollector[l] : l \in Resolved(top.line)} : e.class = top.class
      BY <3>1
    <3> QED
      BY <1>1, <1>5, <2>1, <3>2, <3>3 DEF EnumsReceived, ClassBodyTypeOK
  <2>3. CASE ~ top.qobject
    BY <1>7, <2>1, <2>3 DEF EnumsReceived
  <2> QED
    BY <2>2, <2>3
<1>14. InfosSound' /\ (Disciplined' => Disciplined) /\ SlotsAsWritten'
  BY <1>1, <1>2 DEF InfosSound, Disciplined, SlotsAsWritten
<1> QED
  BY <1>8, <1>9, <1>12, <1>13, <1>14 DEF BodyInv

LEMMA EnumRefusedKeeps ==
  ASSUME BodyInv, EnumRefused
  PROVE  BodyInv'
<1> DEFINE n == Len(frames)
<1>1. ClassBodyTypeOK /\ FramesInOrder /\ InfosSound /\ SlotsAsWritten
  BY DEF BodyInv
<1>2. /\ frames' = Left(Top) /\ n > 0 /\ "refuses" \in habit
      /\ UNCHANGED <<habit, begun, imported, classes, received, slots, decorators, alreadyWrapped>>
      /\ \E l \in Resolved(Top.line) :
           enumCollector' = [k \in Lines |-> IF k \in Resolved(Top.line) /\ k < l THEN Nobody ELSE enumCollector[k]]
  BY DEF EnumRefused
<1>3. frames # <<>> /\ n \in Nat
  BY <1>1, <1>2, EmptySeq, TopFrame
<1>4. /\ frames' \in Seq(Frame) /\ Len(frames') = n - 1
      /\ \A i \in 1..n - 1 : frames'[i].class = frames[i].class /\ frames'[i].line < frames'[i].at
  BY <1>1, <1>2, <1>3, BodyIsLeft
<1>5. FramesInOrder'
  <2>1. \A i \in 1..n - 1 : frames[i].class <= begun
    BY <1>1, <1>3 DEF FramesInOrder
  <2> QED
    BY <1>2, <1>4, <2>1 DEF FramesInOrder
<1>6. ClassBodyTypeOK'
  <2>1. enumCollector' \in [Lines -> Enum \cup {Nobody}]
    BY <1>1, <1>2 DEF ClassBodyTypeOK
  <2> QED
    BY <1>1, <1>2, <1>4, <2>1 DEF ClassBodyTypeOK
<1>7. ~ Disciplined'
  BY <1>2 DEF Disciplined
<1>8. InfosSound' /\ SlotsAsWritten'
  BY <1>1, <1>2 DEF InfosSound, SlotsAsWritten, Disciplined
<1> QED
  BY <1>5, <1>6, <1>7, <1>8 DEF BodyInv

LEMMA BodyRaisesKeeps ==
  ASSUME BodyInv, BodyRaises
  PROVE  BodyInv'
<1> DEFINE n == Len(frames)
<1>1. ClassBodyTypeOK /\ FramesInOrder /\ InfosSound /\ SlotsAsWritten
  BY DEF BodyInv
<1>2. /\ frames' = Left(Top) /\ n > 0 /\ "raises" \in habit
      /\ UNCHANGED <<habit, enumCollector, begun, imported, classes, received, slots, decorators, alreadyWrapped>>
  BY DEF BodyRaises
<1>3. frames # <<>> /\ n \in Nat
  BY <1>1, <1>2, EmptySeq, TopFrame
<1>4. /\ frames' \in Seq(Frame) /\ Len(frames') = n - 1
      /\ \A i \in 1..n - 1 : frames'[i].class = frames[i].class /\ frames'[i].line < frames'[i].at
  BY <1>1, <1>2, <1>3, BodyIsLeft
<1>5. FramesInOrder'
  <2>1. \A i \in 1..n - 1 : frames[i].class <= begun
    BY <1>1, <1>3 DEF FramesInOrder
  <2> QED
    BY <1>2, <1>4, <2>1 DEF FramesInOrder
<1>6. ClassBodyTypeOK'
  BY <1>1, <1>2, <1>4 DEF ClassBodyTypeOK
<1>7. ~ Disciplined'
  BY <1>2 DEF Disciplined
<1>8. InfosSound' /\ SlotsAsWritten'
  BY <1>1, <1>2 DEF InfosSound, SlotsAsWritten, Disciplined
<1> QED
  BY <1>5, <1>6, <1>7, <1>8 DEF BodyInv

\* A module is imported by careful programs where nothing waits.
LEMMA ImportKeeps ==
  ASSUME BodyInv, NEW m \in Modules, Import(m)
  PROVE  BodyInv'
<1> DEFINE n == Len(frames)
           g == ModuleFrame(m)
<1>1. ClassBodyTypeOK /\ FramesInOrder /\ InfosSound /\ (Disciplined => EnumsWait /\ EnumsReceived) /\ SlotsAsWritten
  BY DEF BodyInv
<1>2. /\ Runs /\ (Bodies # {} => "imports" \in habit) /\ imported' = imported \cup {m}
      /\ frames' = Append(Advanced, g)
      /\ UNCHANGED <<habit, enumCollector, begun, classes, received, slots, decorators, alreadyWrapped>>
  BY DEF Import
<1>3. /\ n \in Nat /\ n >= 1 /\ frames # <<>> /\ Top = frames[n] /\ Top \in Frame /\ Top.at \in Lines
      /\ Advanced \in Seq(Frame) /\ Len(Advanced) = n
      /\ \A i \in 1..n :
           /\ Advanced[i].line = frames[i].line /\ Advanced[i].class = frames[i].class
           /\ Advanced[i].qobject = frames[i].qobject
           /\ Advanced[i].at = (IF i = n THEN frames[i].at + 1 ELSE frames[i].at)
  BY <1>1, <1>2, Advances
<1>4. g \in Frame /\ g.line = 1 /\ g.at = 2 /\ g.class = 0 /\ begun \in Nat
  BY <1>1, ClassBodyAssumption DEF ModuleFrame, Frame, Lines, ClassBodyTypeOK
<1> HIDE DEF g
<1>5. /\ frames' \in Seq(Frame) /\ Len(frames') = n + 1 /\ frames'[n + 1] = g
      /\ \A i \in 1..n : frames'[i] = Advanced[i]
  BY <1>2, <1>3, <1>4, StackPush
<1>6. \A i \in 1..n : frames[i].line < frames[i].at /\ frames[i].class <= begun
      /\ frames[i].line \in Nat /\ frames[i].at \in Nat
  <2>1. \A i \in 1..n : frames[i] \in Frame
    BY <1>1, <1>3, ElementOfSeq DEF ClassBodyTypeOK
  <2> QED
    BY <1>1, <2>1, FrameNumbers DEF FramesInOrder
<1>7. FramesInOrder'
  <2> SUFFICES ASSUME NEW i \in 1..Len(frames') PROVE frames'[i].line < frames'[i].at /\ frames'[i].class <= begun'
    BY DEF FramesInOrder
  <2>1. CASE i = n + 1
    BY <1>2, <1>4, <1>5, <2>1
  <2>2. CASE i # n + 1
    <3>1. i \in 1..n
      BY <1>3, <1>5, <2>2
    <3>2. Advanced[i].line < Advanced[i].at /\ Advanced[i].class <= begun
      BY <1>3, <1>6, <3>1
    <3>3. frames'[i] = Advanced[i] /\ begun' = begun
      BY <1>2, <1>5, <3>1
    <3> QED
      BY <3>2, <3>3
  <2> QED
    BY <2>1, <2>2
<1>8. ClassBodyTypeOK'
  BY <1>1, <1>2, <1>5 DEF ClassBodyTypeOK
<1>9. ASSUME Disciplined PROVE EnumsWait'
  <2>1. Bodies = {} /\ EnumsWait
    BY <1>1, <1>2, <1>9 DEF Disciplined
  <2>2. \A i \in 1..Len(frames) : frames[i].class = 0
    BY <2>1 DEF Bodies
  <2>3. \A l \in Lines : enumCollector[l] = Nobody
    BY <2>1, <2>2 DEF EnumsWait, WaitsFor
  <2> QED
    BY <1>2, <2>3 DEF EnumsWait
<1>10. InfosSound' /\ (Disciplined' => Disciplined) /\ (EnumsReceived => EnumsReceived') /\ SlotsAsWritten'
  BY <1>1, <1>2 DEF InfosSound, Disciplined, EnumsReceived, SlotsAsWritten
<1> QED
  BY <1>1, <1>7, <1>8, <1>9, <1>10 DEF BodyInv

LEMMA EndModuleKeeps ==
  ASSUME BodyInv, EndModule
  PROVE  BodyInv'
<1> DEFINE n == Len(frames)
<1>1. ClassBodyTypeOK /\ FramesInOrder /\ InfosSound /\ (Disciplined => EnumsWait /\ EnumsReceived) /\ SlotsAsWritten
  BY DEF BodyInv
<1>2. /\ n > 0 /\ Top.class = 0 /\ frames' = Front(frames)
      /\ UNCHANGED <<habit, enumCollector, begun, imported, classes, received, slots, decorators, alreadyWrapped>>
  BY DEF EndModule
<1>3. frames # <<>> /\ n \in Nat /\ n >= 1 /\ Top = frames[n] /\ frames \in Seq(Frame)
  <2>1. frames # <<>>
    BY <1>2, EmptySeq
  <2> QED
    BY <1>1, <2>1, TopFrame DEF ClassBodyTypeOK
<1>4. frames' \in Seq(Frame) /\ Len(frames') = n - 1 /\ \A i \in 1..n - 1 : frames'[i] = frames[i]
  BY <1>2, <1>3, StackPop
<1> HIDE DEF n
<1>5. FramesInOrder'
  <2>1. \A i \in 1..n - 1 : frames[i].line < frames[i].at /\ frames[i].class <= begun
    BY <1>1, <1>3 DEF FramesInOrder, n
  <2> QED
    BY <1>2, <1>4, <2>1 DEF FramesInOrder
<1>6. ClassBodyTypeOK'
  BY <1>1, <1>2, <1>4 DEF ClassBodyTypeOK
<1>7. ASSUME EnumsWait PROVE EnumsWait'
  <2> SUFFICES ASSUME NEW l \in Lines, enumCollector[l] # Nobody PROVE \E i \in 1..Len(frames') : WaitsFor(l, i)'
    BY <1>2 DEF EnumsWait
  <2>1. PICK i \in 1..n : WaitsFor(l, i)
    BY <1>7 DEF EnumsWait, n
  <2>2. i # n
    BY <1>2, <1>3, <2>1 DEF WaitsFor
  <2>3. i \in 1..n - 1
    BY <1>3, <2>2
  <2>4. \A j \in i + 1 .. Len(frames') : l < frames'[j].line
    <3> SUFFICES ASSUME NEW j \in i + 1 .. n - 1 PROVE l < frames'[j].line
      BY <1>4
    <3>1. j \in 1..n - 1 /\ j \in i + 1 .. n
      BY <1>3
    <3>2. l < frames[j].line
      BY <2>1, <3>1 DEF WaitsFor, n
    <3> QED
      BY <1>4, <3>1, <3>2
  <2>5. WaitsFor(l, i)'
    BY <1>2, <1>4, <2>1, <2>3, <2>4 DEF WaitsFor
  <2> QED
    BY <1>4, <2>3, <2>5
<1>8. InfosSound' /\ (Disciplined' => Disciplined) /\ (EnumsReceived => EnumsReceived') /\ SlotsAsWritten'
  BY <1>1, <1>2 DEF InfosSound, Disciplined, EnumsReceived, SlotsAsWritten
<1> QED
  BY <1>1, <1>5, <1>6, <1>7, <1>8 DEF BodyInv

LEMMA SlotKeeps ==
  ASSUME BodyInv, NEW ts, ts \in {"int", "none"}, NEW again, Slot(ts, again)
  PROVE  BodyInv'
<1> DEFINE n == Len(frames)
           w == [written |-> ts, args |-> IF again THEN "none" ELSE ts]
<1>1. ClassBodyTypeOK /\ FramesInOrder /\ InfosSound /\ (Disciplined => EnumsWait /\ EnumsReceived) /\ SlotsAsWritten
  BY DEF BodyInv
<1>2. /\ Runs /\ Top.class # 0 /\ (again => "reuses" \in habit)
      /\ slots' = [slots EXCEPT ![Top.class] = Append(slots[Top.class], w)]
      /\ frames' = Advanced
      /\ UNCHANGED <<habit, enumCollector, begun, imported, classes, received, decorators, alreadyWrapped>>
  BY DEF Slot
<1>3. /\ n \in Nat /\ n >= 1 /\ frames # <<>> /\ Top = frames[n] /\ Top \in Frame
      /\ frames' \in Seq(Frame) /\ Len(frames') = n
      /\ \A i \in 1..n :
           /\ frames'[i].line = frames[i].line /\ frames'[i].class = frames[i].class
           /\ frames'[i].qobject = frames[i].qobject
           /\ frames'[i].at = (IF i = n THEN frames[i].at + 1 ELSE frames[i].at)
  BY <1>1, <1>2, Advances
<1>4. PICK c \in ClassNumber : c = Top.class
  <2>1. Top.class \in 0..MaxClasses /\ Top.class # 0
    BY <1>2, <1>3 DEF Frame
  <2>2. Top.class \in ClassNumber
    BY <2>1, ClassBodyAssumption DEF ClassNumber
  <2> QED
    BY <2>2
<1>5. w \in SlotEntry /\ (Disciplined => w.args = w.written)
  BY <1>2 DEF SlotEntry, Disciplined
<1> HIDE DEF w
<1>6. slots[c] \in Seq(SlotEntry) /\ slots \in [ClassNumber -> Seq(SlotEntry)]
  BY <1>1 DEF ClassBodyTypeOK
<1>7. /\ Append(slots[c], w) \in Seq(SlotEntry) /\ Len(Append(slots[c], w)) = Len(slots[c]) + 1
      /\ Append(slots[c], w)[Len(slots[c]) + 1] = w
      /\ \A i \in 1..Len(slots[c]) : Append(slots[c], w)[i] = slots[c][i]
  BY <1>5, <1>6, StackPush
<1>8. slots' = [slots EXCEPT ![c] = Append(slots[c], w)]
  BY <1>2, <1>4
<1>9. ClassBodyTypeOK'
  <2>1. slots' \in [ClassNumber -> Seq(SlotEntry)]
    BY <1>6, <1>7, <1>8
  <2> QED
    BY <1>1, <1>2, <1>3, <2>1 DEF ClassBodyTypeOK
<1>10. \A i \in 1..n : frames[i].line < frames[i].at /\ frames[i].class <= begun
      /\ frames[i].line \in Nat /\ frames[i].at \in Nat
  <2>1. \A i \in 1..n : frames[i] \in Frame
    BY <1>1, <1>3, ElementOfSeq DEF ClassBodyTypeOK
  <2> QED
    BY <1>1, <2>1, FrameNumbers DEF FramesInOrder
<1> HIDE DEF n
<1>11. ASSUME NEW i \in 1..n
       PROVE  frames'[i].line < frames'[i].at /\ frames'[i].class <= begun /\ frames[i].at <= frames'[i].at
  <2>1. /\ frames'[i].line = frames[i].line /\ frames'[i].class = frames[i].class
        /\ frames'[i].at = (IF i = n THEN frames[i].at + 1 ELSE frames[i].at)
    BY <1>3
  <2>2. frames[i].line < frames[i].at /\ frames[i].class <= begun /\ frames[i].line \in Nat /\ frames[i].at \in Nat
    BY <1>10
  <2>3. frames[i].at <= frames'[i].at /\ frames[i].line < frames'[i].at
    BY <2>1, <2>2
  <2>4. frames'[i].line < frames'[i].at
    BY <2>1, <2>3
  <2>5. frames'[i].class <= begun
    BY <2>1, <2>2
  <2> QED
    BY <2>3, <2>4, <2>5
<1>a. FramesInOrder'
  BY <1>2, <1>3, <1>11 DEF FramesInOrder
<1>12. ASSUME Disciplined PROVE EnumsWait'
  <2>1. \A i \in 1..Len(frames) :
          /\ frames'[i].line = frames[i].line /\ frames'[i].class = frames[i].class
          /\ frames'[i].qobject = frames[i].qobject /\ frames[i].at <= frames'[i].at
    BY <1>3, <1>11 DEF n
  <2>2. Len(frames) + 1 .. Len(frames') = {} /\ Len(frames) \in Nat /\ Len(frames') \in Nat /\ Len(frames) <= Len(frames')
    BY <1>3 DEF n
  <2>3. EnumsWait /\ enumCollector' = enumCollector
    BY <1>1, <1>2, <1>12
  <2> QED
    BY <1>1, <1>3, <2>1, <2>2, <2>3, FramesGoOn
<1>13. SlotsAsWritten'
  <2> SUFFICES ASSUME Disciplined, NEW d \in ClassNumber, NEW i \in 1..Len(slots'[d])
               PROVE  slots'[d][i].args = slots'[d][i].written
    BY <1>2 DEF SlotsAsWritten, Disciplined
  <2>1. \A e \in ClassNumber : \A k \in 1..Len(slots[e]) : slots[e][k].args = slots[e][k].written
    BY <1>1 DEF SlotsAsWritten
  <2>2. CASE d # c
    <3>1. slots'[d] = slots[d]
      BY <1>6, <1>8, <2>2
    <3> QED
      BY <2>1, <3>1
  <2>3. CASE d = c
    <3>1. slots'[d] = Append(slots[c], w)
      BY <1>6, <1>8, <2>3
    <3>2. Len(slots[c]) \in Nat
      BY <1>6, LenProperties
    <3> DEFINE k == Len(slots[c])
    <3>3. k \in Nat /\ Len(slots'[d]) = k + 1
      BY <1>7, <3>1, <3>2
    <3>4. Append(slots[c], w)[k + 1] = w /\ \A x \in 1..k : Append(slots[c], w)[x] = slots[c][x]
      BY <1>7
    <3>5. \A x \in 1..k : slots[c][x].args = slots[c][x].written
      BY <2>1
    <3> HIDE DEF k
    <3>6. i \in 1..k \/ i = k + 1
      BY <3>3
    <3> QED
      BY <1>5, <3>1, <3>4, <3>5, <3>6
  <2> QED
    BY <2>2, <2>3
<1>14. InfosSound' /\ (Disciplined' => Disciplined) /\ (EnumsReceived => EnumsReceived')
  BY <1>1, <1>2 DEF InfosSound, Disciplined, EnumsReceived
<1> QED
  BY <1>1, <1>9, <1>a, <1>12, <1>13, <1>14 DEF BodyInv

\* Decorator objects do not touch class bodies.
LEMMA NewClassInfoKeeps ==
  ASSUME BodyInv, NewClassInfo
  PROVE  BodyInv'
<1> DEFINE n == Len(decorators)
<1>1. ClassBodyTypeOK /\ FramesInOrder /\ InfosSound /\ (Disciplined => EnumsWait /\ EnumsReceived) /\ SlotsAsWritten
  BY DEF BodyInv
<1>2. /\ decorators' = Append(decorators, {})
      /\ UNCHANGED <<habit, frames, enumCollector, begun, imported, classes, received, slots, alreadyWrapped>>
  BY DEF NewClassInfo
<1>3. decorators \in Seq(SUBSET ClassNumber) /\ n \in Nat /\ {} \in SUBSET ClassNumber
  BY <1>1, LenProperties DEF InfosSound
<1>4. /\ decorators' \in Seq(SUBSET ClassNumber) /\ Len(decorators') = n + 1 /\ decorators'[n + 1] = {}
      /\ \A d \in 1..n : decorators'[d] = decorators[d]
  BY <1>2, <1>3, StackPush
<1> HIDE DEF n
<1>5. \A d \in 1..n + 1 : d \in 1..n \/ d = n + 1
  BY <1>3
<1>6. \A d \in 1..n : decorators[d] = {} \/ (d \in alreadyWrapped /\ \E c \in ClassNumber : decorators[d] = {c})
  BY <1>1 DEF InfosSound, n
<1>7. InfosSound'
  BY <1>2, <1>4, <1>5, <1>6 DEF InfosSound
<1>8. alreadyWrapped \subseteq 1..n /\ \A d \in 1..n : decorators[d] \subseteq classes
  BY <1>1 DEF ClassBodyTypeOK, n
<1>9. alreadyWrapped' \subseteq 1..Len(decorators') /\ \A d \in 1..Len(decorators') : decorators'[d] \subseteq classes'
  BY <1>2, <1>3, <1>4, <1>5, <1>8
<1>10. ClassBodyTypeOK'
  BY <1>1, <1>2, <1>9 DEF ClassBodyTypeOK
<1>11. /\ FramesInOrder' /\ (Disciplined' => Disciplined) /\ (EnumsWait => EnumsWait')
       /\ (EnumsReceived => EnumsReceived') /\ SlotsAsWritten'
  BY <1>1, <1>2 DEF FramesInOrder, Disciplined, EnumsWait, WaitsFor, EnumsReceived, SlotsAsWritten
<1> QED
  BY <1>1, <1>7, <1>10, <1>11 DEF BodyInv

LEMMA ClassInfoKeeps ==
  ASSUME BodyInv, NEW d \in 1..Len(decorators), NEW c \in ClassNumber, ClassInfo(d, c)
  PROVE  BodyInv'
<1>1. ClassBodyTypeOK /\ FramesInOrder /\ InfosSound /\ (Disciplined => EnumsWait /\ EnumsReceived) /\ SlotsAsWritten
  BY DEF BodyInv
<1>2. /\ c \in classes /\ d \notin alreadyWrapped
      /\ decorators' = [decorators EXCEPT ![d] = decorators[d] \cup {c}]
      /\ alreadyWrapped' = alreadyWrapped \cup {d}
      /\ UNCHANGED <<habit, frames, enumCollector, begun, imported, classes, received, slots>>
  BY DEF ClassInfo, Wrapped
<1>3. decorators \in Seq(SUBSET ClassNumber) /\ decorators[d] = {}
  BY <1>1, <1>2 DEF InfosSound
<1>4. decorators' = [decorators EXCEPT ![d] = {c}]
  BY <1>2, <1>3
<1>5. decorators' \in Seq(SUBSET ClassNumber) /\ Len(decorators') = Len(decorators) /\ decorators'[d] = {c}
      /\ \A k \in 1..Len(decorators) : k # d => decorators'[k] = decorators[k]
  <2>1. DOMAIN decorators = 1..Len(decorators)
    BY <1>3, LenProperties
  <2>2. {c} \in SUBSET ClassNumber
    OBVIOUS
  <2>3. decorators' \in Seq(SUBSET ClassNumber) /\ Len(decorators') = Len(decorators)
    BY <1>3, <1>4, <2>2, ExceptSeq
  <2> QED
    BY <1>4, <2>1, <2>3
<1>6. InfosSound'
  BY <1>1, <1>2, <1>5 DEF InfosSound
<1>7. ClassBodyTypeOK'
  <2>1. alreadyWrapped' \subseteq 1..Len(decorators') /\ \A k \in 1..Len(decorators') : decorators'[k] \subseteq classes'
    BY <1>1, <1>2, <1>5 DEF ClassBodyTypeOK
  <2> QED
    BY <1>1, <1>2, <2>1 DEF ClassBodyTypeOK
<1>8. /\ FramesInOrder' /\ (Disciplined' => Disciplined) /\ (EnumsWait => EnumsWait')
      /\ (EnumsReceived => EnumsReceived') /\ SlotsAsWritten'
  BY <1>1, <1>2 DEF FramesInOrder, Disciplined, EnumsWait, WaitsFor, EnumsReceived, SlotsAsWritten
<1> QED
  BY <1>1, <1>6, <1>7, <1>8 DEF BodyInv

LEMMA BodyInvInit == ClassBodyInit => BodyInv
<1> SUFFICES ASSUME ClassBodyInit PROVE BodyInv
  OBVIOUS
<1>1. PICK m \in Modules : frames = <<ModuleFrame(m)>> /\ imported = {m}
  BY DEF ClassBodyInit
<1> DEFINE g == ModuleFrame(m)
<1>2. g \in Frame /\ g.line = 1 /\ g.at = 2 /\ g.class = 0
  BY ClassBodyAssumption DEF ModuleFrame, Frame, Lines
<1> HIDE DEF g
<1>3. frames \in Seq(Frame) /\ Len(frames) = 1 /\ frames[1] = g
  BY <1>1, <1>2 DEF g
<1>4. /\ <<>> \in Seq(SlotEntry) /\ <<>> \in Seq(SUBSET ClassNumber) /\ Len(<<>>) = 0 /\ 1..0 = {}
  BY EmptySeq
<1>5. /\ habit \in ClassPrograms /\ enumCollector = [l \in Lines |-> Nobody] /\ begun = 0 /\ classes = {}
      /\ received = [c \in ClassNumber |-> {}] /\ slots = [c \in ClassNumber |-> <<>>]
      /\ decorators = <<>> /\ alreadyWrapped = {}
  BY DEF ClassBodyInit
<1>6. ClassBodyTypeOK
  BY <1>1, <1>3, <1>4, <1>5, ClassBodyAssumption DEF ClassBodyTypeOK
<1>7. FramesInOrder
  BY <1>2, <1>3, <1>5 DEF FramesInOrder
<1>8. InfosSound
  BY <1>4, <1>5 DEF InfosSound
<1>9. EnumsWait /\ EnumsReceived
  BY <1>5 DEF EnumsWait, EnumsReceived
<1>10. SlotsAsWritten
  BY <1>4, <1>5 DEF SlotsAsWritten
<1> QED
  BY <1>6, <1>7, <1>8, <1>9, <1>10 DEF BodyInv

LEMMA BodyInvNext ==
  ASSUME BodyInv, [ClassBodyNext]_classBodyVars
  PROVE  BodyInv'
<1>1. ASSUME NEW qobject \in BOOLEAN, NEW line \in Lines, BeginClass(qobject, line) PROVE BodyInv'
  BY <1>1, BeginClassKeeps
<1>2. ASSUME QEnum PROVE BodyInv'
  BY <1>2, QEnumKeeps
<1>3. ASSUME EndClass PROVE BodyInv'
  BY <1>3, EndClassKeeps
<1>4. ASSUME BodyRaises PROVE BodyInv'
  BY <1>4, BodyRaisesKeeps
<1>5. ASSUME NEW m \in Modules, Import(m) PROVE BodyInv'
  BY <1>5, ImportKeeps
<1>6. ASSUME EndModule PROVE BodyInv'
  BY <1>6, EndModuleKeeps
<1>7. ASSUME NEW ts \in {"int", "none"}, NEW again \in BOOLEAN, Slot(ts, again) PROVE BodyInv'
  BY <1>7, SlotKeeps
<1>8. ASSUME NewClassInfo PROVE BodyInv'
  BY <1>8, NewClassInfoKeeps
<1>9. ASSUME NEW d \in 1..Len(decorators), NEW c \in ClassNumber, ClassInfo(d, c) PROVE BodyInv'
  BY <1>9, ClassInfoKeeps
<1>11. ASSUME EnumRefused PROVE BodyInv'
  BY <1>11, EnumRefusedKeeps
<1>10. ASSUME UNCHANGED classBodyVars PROVE BodyInv'
  BY <1>10 DEF classBodyVars, BodyInv, ClassBodyTypeOK, FramesInOrder, InfosSound, Disciplined, EnumsWait,
               WaitsFor, EnumsReceived, SlotsAsWritten
<1> QED
  BY <1>1, <1>2, <1>3, <1>4, <1>5, <1>6, <1>7, <1>8, <1>9, <1>10, <1>11 DEF ClassBodyNext

LEMMA BodyInvariant == ClassBodySpec => []BodyInv
BY BodyInvInit, BodyInvNext, PTL DEF ClassBodySpec

-----------------------------------------------------------------------------
(* What it shows *)

\* For every length of module: the types of what decorators and the enum collector keep.
THEOREM ClassBodyTypeCorrect == ClassBodySpec => []ClassBodyTypeOK
<1>1. BodyInv => ClassBodyTypeOK
  BY DEF BodyInv
<1> QED
  BY <1>1, BodyInvariant, PTL

\* For every length of module and class bodies nested in any way: class infos go to one
\* class, and in Disciplined modules slots and enumerations to the one they are written in.
THEOREM DeclarationsArrive == ClassBodySpec => []DeclarationsReachTheirClass
<1>1. BodyInv => DeclarationsReachTheirClass
  <2> SUFFICES ASSUME BodyInv PROVE DeclarationsReachTheirClass
    OBVIOUS
  <2>1. SlotsAsWritten
    BY DEF BodyInv
  <2>2. InfosForOneClass
    <3> SUFFICES ASSUME NEW d \in 1..Len(decorators) PROVE Cardinality(decorators[d]) <= 1
      BY DEF InfosForOneClass
    <3>1. decorators[d] = {} \/ \E c \in ClassNumber : decorators[d] = {c}
      BY DEF BodyInv, InfosSound
    <3>2. CASE decorators[d] = {}
      <4>1. Cardinality(decorators[d]) = 0
        BY <3>2, FS_EmptySet
      <4> QED
        BY <4>1
    <3>3. CASE \E c \in ClassNumber : decorators[d] = {c}
      <4>1. PICK c \in ClassNumber : decorators[d] = {c}
        BY <3>3
      <4>2. Cardinality(decorators[d]) = 1
        BY <4>1, FS_Singleton
      <4> QED
        BY <4>2
    <3> QED
      BY <3>1, <3>2, <3>3
  <2>3. EnumsReachTheirClass
    <3> SUFFICES ASSUME Disciplined
                 PROVE  /\ \A c \in classes : \A e \in received[c] : e.class = c
                        /\ Bodies = {} => \A l \in Lines : enumCollector[l] = Nobody
      BY DEF EnumsReachTheirClass
    <3>1. EnumsWait /\ EnumsReceived /\ ClassBodyTypeOK
      BY DEF BodyInv
    <3>2. classes \subseteq ClassNumber
      BY <3>1, ClassBodyAssumption DEF ClassBodyTypeOK, ClassNumber
    <3>3. \A c \in classes : \A e \in received[c] : e.class = c
      BY <3>1, <3>2 DEF EnumsReceived
    <3>4. Bodies = {} => \A l \in Lines : enumCollector[l] = Nobody
      BY <3>1 DEF EnumsWait, WaitsFor, Bodies
    <3> QED
      BY <3>3, <3>4
  <2> QED
    BY <2>1, <2>2, <2>3 DEF DeclarationsReachTheirClass
<1> QED
  BY <1>1, BodyInvariant, PTL

-----------------------------------------------------------------------------
(* RemoteObjects *)

(* Types and their capsules *)

Weight(t) == IF pyTypes[t].alive THEN pyTypes[t].cleanups ELSE 0
Weights == [t \in 1..Len(pyTypes) |-> Weight(t)]

FilesOK == /\ files \in Seq(RepFile) /\ Len(files) <= MaxFiles
           /\ \A f \in 1..Len(files) : files[f].at >= 1

\* What C++ has for a type is there as long as the type is, unless it was leaked, which only
\* a POD can be.
TypeSound(t) ==
  /\ t.alive /\ ~t.leaked => t.meta
  /\ t.kind = "source" => ~t.leaked
  /\ "mistakes" \notin conduct => ~t.leaked

TypesOK ==
  /\ pyTypes \in Seq(PyType) /\ capsule_count = Total(Weights)
  /\ \A t \in 1..Len(pyTypes) : TypeSound(pyTypes[t])

SourceSound(o) ==
  sources[o].alive => LET t == sources[o].type IN
    t \in 1..Len(pyTypes) /\ pyTypes[t].alive /\ pyTypes[t].kind = "source"

SourcesOK == sources \in [Sources -> Source] /\ \A o \in Sources : SourceSound(o)

ProgramOK == conduct \in RemotePrograms /\ bound \in Bindings

\* What is misused has its reason in the program.
ReasonsOK ==
  /\ pyLocals \in {"none", "made", "freed"} /\ methods \subseteq Sources
  /\ misused \subseteq {"locals", "properties", "self"}
  /\ pyLocals = "freed" \/ "locals" \in misused => "mistakes" \in conduct
  /\ "properties" \in misused => "keywords" \in conduct
  /\ "self" \in misused \/ (\E o \in methods : ~sources[o].alive) => "keeps" \in conduct

RemoteInv == /\ ProgramOK /\ FilesOK /\ TypesOK /\ SourcesOK /\ ReasonsOK
             /\ setters \in Seq(SetterCall)

USE RemoteAssumption

LEMMA FileFields ==
  ASSUME NEW f \in RepFile
  PROVE  f.ast \in Asts /\ f.at \in Nat /\ f.replica \in BOOLEAN
BY DEF RepFile

LEMMA TypeFields ==
  ASSUME NEW t \in PyType
  PROVE  /\ t.kind \in {"pod", "source", "replica"} /\ t.file \in 1..MaxFiles /\ t.alive \in BOOLEAN
         /\ t.leaked \in BOOLEAN /\ t.meta \in BOOLEAN /\ t.cleanups \in Nat
BY DEF PyType

LEMMA WeightsAreNumbers ==
  ASSUME NEW s \in Seq(PyType)
  PROVE  LET w == [t \in 1..Len(s) |-> IF s[t].alive THEN s[t].cleanups ELSE 0]
         IN  w \in Seq(Nat) /\ Len(w) = Len(s)
<1>1. Len(s) \in Nat
  BY LenProperties
<1>2. \A t \in 1..Len(s) : s[t].cleanups \in Nat
  BY ElementOfSeq, TypeFields
<1> QED
  BY <1>1, <1>2

LEMMA CountIsNumber ==
  ASSUME TypesOK
  PROVE  capsule_count \in Nat /\ Weights \in Seq(Nat) /\ Len(Weights) = Len(pyTypes)
<1>1. Weights \in Seq(Nat) /\ Len(Weights) = Len(pyTypes)
  BY WeightsAreNumbers DEF TypesOK, Weights, Weight
<1> QED
  BY <1>1, TotalIsNumber DEF TypesOK

\* A declaration that is next in a file
LEMMA DeclarationNext ==
  ASSUME FilesOK, NEW f \in 1..Len(files), Loads(f)
  PROVE  DeclarationOf(f) \in Declaration /\ Cleanups(DeclarationOf(f)) \in Nat
<1>1. files[f] \in RepFile
  BY ElementOfSeq DEF FilesOK
<1>2. files[f].ast \in Seq(Declaration) /\ files[f].at \in Nat /\ files[f].at >= 1
  BY <1>1, FileFields DEF FilesOK
<1>3. files[f].at \in 1..Len(files[f].ast)
  BY <1>2, LenProperties DEF Loads
<1>4. DeclarationOf(f) \in Declaration
  BY <1>2, <1>3, ElementOfSeq DEF DeclarationOf
<1>5. DeclarationOf(f).enums \in Nat
  BY <1>4 DEF Declaration
<1> QED
  BY <1>4, <1>5 DEF Cleanups

\* A new type
LEMMA TypeAdded ==
  ASSUME TypesOK, SourcesOK, NEW t \in PyType, t.alive, TypeSound(t),
         pyTypes' = Append(pyTypes, t), capsule_count' = capsule_count + t.cleanups,
         UNCHANGED <<sources, conduct>>
  PROVE  TypesOK' /\ SourcesOK'
<1> DEFINE n == Len(pyTypes)
<1>1. /\ pyTypes' \in Seq(PyType) /\ Len(pyTypes') = n + 1 /\ pyTypes'[n + 1] = t /\ n \in Nat
      /\ \A i \in 1..n : pyTypes'[i] = pyTypes[i]
  BY AppendProperties, LenProperties DEF TypesOK
<1>2. t.cleanups \in Nat
  BY TypeFields
<1> HIDE DEF n
<1>3. Weights' = Append(Weights, t.cleanups)
  <2>1. Weights' = [i \in 1..(n + 1) |-> IF i = n + 1 THEN t.cleanups ELSE Weight(i)]
    BY <1>1 DEF Weights, Weight
  <2>2. Weights = [i \in 1..n |-> Weight(i)]
    BY DEF Weights, n
  <2>3. Weights \in Seq(Nat) /\ Len(Weights) = n
    BY CountIsNumber DEF n
  <2>4. Append(Weights, t.cleanups) = [i \in 1..(n + 1) |-> IF i = n + 1 THEN t.cleanups ELSE Weights[i]]
    BY <1>1, <1>2, <2>3
  <2>5. \A i \in 1..(n + 1) : i # n + 1 => Weights[i] = Weight(i)
    BY <1>1, <2>2
  <2> QED
    BY <2>1, <2>4, <2>5
<1>4. Total(Weights') = Total(Weights) + t.cleanups
  BY <1>2, <1>3, CountIsNumber, TotalOfAppended
<1>5. ASSUME NEW i \in 1..Len(pyTypes') PROVE TypeSound(pyTypes[i])'
  <2>1. i \in 1..n \/ i = n + 1
    BY <1>1
  <2> QED
    BY <1>1, <2>1 DEF TypesOK, TypeSound, n
<1>6. TypesOK'
  BY <1>1, <1>4, <1>5 DEF TypesOK
<1>7. 1..n \subseteq 1..Len(pyTypes')
  BY <1>1
<1> QED
  BY <1>1, <1>6, <1>7 DEF SourcesOK, SourceSound, n

\* A type goes that no source is of.
LEMMA TypeCollected ==
  ASSUME TypesOK, SourcesOK, NEW t \in 1..Len(pyTypes), pyTypes[t].alive,
         \A o \in Sources : ~ (sources[o].alive /\ sources[o].type = t),
         pyTypes' = [pyTypes EXCEPT ![t].alive = FALSE, ![t].meta = FALSE],
         capsule_count' = capsule_count - pyTypes[t].cleanups, UNCHANGED <<sources, conduct>>
  PROVE  TypesOK' /\ SourcesOK'
<1>1. pyTypes \in Seq(PyType) /\ pyTypes[t] \in PyType /\ Len(pyTypes) \in Nat
  BY ElementOfSeq, LenProperties DEF TypesOK
<1>2. PICK x : x = [pyTypes[t] EXCEPT !.alive = FALSE, !.meta = FALSE]
  OBVIOUS
<1>3. /\ x \in PyType /\ ~x.alive /\ x.leaked = pyTypes[t].leaked /\ x.kind = pyTypes[t].kind
  BY <1>1, <1>2 DEF PyType
<1>4. pyTypes' = [pyTypes EXCEPT ![t] = x]
  BY <1>1, <1>2
<1>5. /\ pyTypes' \in Seq(PyType) /\ Len(pyTypes') = Len(pyTypes) /\ pyTypes'[t] = x
      /\ \A i \in 1..Len(pyTypes) : i # t => pyTypes'[i] = pyTypes[i]
  <2>1. LET r == [pyTypes EXCEPT ![t] = x]
        IN  /\ r \in Seq(PyType) /\ Len(r) = Len(pyTypes) /\ r[t] = x
            /\ \A i \in 1..Len(pyTypes) : i # t => r[i] = pyTypes[i]
    BY <1>1, <1>3, ElementReplaced
  <2> QED
    BY <1>4, <2>1
<1>6. Weights' \in Seq(Nat) /\ Len(Weights') = Len(pyTypes)
  BY <1>5, WeightsAreNumbers DEF Weights, Weight
<1>7. Weights \in Seq(Nat) /\ Len(Weights) = Len(pyTypes) /\ capsule_count \in Nat
  BY CountIsNumber
<1>8. \A i \in 1..Len(pyTypes) : Weights[i] = Weight(i) /\ Weights'[i] = Weight(i)'
  BY <1>5 DEF Weights
<1>9. Weights[t] = pyTypes[t].cleanups /\ Weights'[t] = 0
  BY <1>3, <1>5, <1>8 DEF Weight
<1>10. \A i \in 1..Len(pyTypes) : i # t => Weights'[i] = Weights[i]
  BY <1>5, <1>8 DEF Weight
<1>11. Total(Weights') + pyTypes[t].cleanups = Total(Weights)
  <2>1. PICK w \in Seq(Nat) : w = Weights'
    BY <1>6
  <2>2. Total(w) + Weights[t] = Total(Weights) + w[t]
    BY <1>6, <1>7, <1>10, <2>1, TotalOfChanged
  <2>3. Total(w) \in Nat /\ Total(Weights) \in Nat
    BY <1>7, TotalIsNumber
  <2> QED
    BY <1>9, <2>1, <2>2, <2>3
<1>12. capsule_count' = Total(Weights')
  <2>1. Total(Weights') \in Nat /\ pyTypes[t].cleanups \in Nat
    BY <1>1, <1>6, TotalIsNumber, TypeFields
  <2> QED
    BY <1>11, <2>1 DEF TypesOK
<1>13. ASSUME NEW i \in 1..Len(pyTypes') PROVE TypeSound(pyTypes[i])'
  BY <1>3, <1>5 DEF TypesOK, TypeSound
<1>14. TypesOK'
  BY <1>5, <1>12, <1>13 DEF TypesOK
<1> QED
  BY <1>5, <1>14 DEF SourcesOK, SourceSound

-----------------------------------------------------------------------------
(* The actions *)

Types == <<pyTypes, capsule_count>>

LEMMA FileAdvances ==
  ASSUME FilesOK, NEW f \in 1..Len(files), NEW g \in RepFile, g.at >= 1,
         files' = [files EXCEPT ![f] = g]
  PROVE  FilesOK'
<1>1. LET r == [files EXCEPT ![f] = g]
      IN  /\ r \in Seq(RepFile) /\ Len(r) = Len(files) /\ r[f] = g
          /\ \A i \in 1..Len(files) : i # f => r[i] = files[i]
  BY ElementReplaced DEF FilesOK
<1> QED
  BY <1>1 DEF FilesOK

\* One field of a file changes, or two.
LEMMA FileChanges ==
  ASSUME FilesOK, NEW f \in 1..Len(files)
  PROVE  /\ \A x \in {"loading", "loaded", "gone"} : files' = [files EXCEPT ![f].state = x] => FilesOK'
         /\ files' = [files EXCEPT ![f].at = @ + 1] => FilesOK'
         /\ \A b \in BOOLEAN :
              files' = [files EXCEPT ![f].at = IF b THEN @ + 1 ELSE @, ![f].replica = ~@] => FilesOK'
<1>1. /\ files \in Seq(RepFile) /\ files[f] \in RepFile /\ files[f].at >= 1
      /\ files[f].at \in Nat /\ files[f].replica \in BOOLEAN
  BY ElementOfSeq, FileFields DEF FilesOK
<1>2. ASSUME NEW x \in {"loading", "loaded", "gone"}, files' = [files EXCEPT ![f].state = x]
      PROVE  FilesOK'
  <2>1. PICK g : g = [files[f] EXCEPT !.state = x]
    OBVIOUS
  <2>2. g \in RepFile /\ g.at >= 1
    BY <1>1, <2>1 DEF RepFile
  <2>3. files' = [files EXCEPT ![f] = g]
    BY <1>1, <1>2, <2>1
  <2> QED
    BY <2>2, <2>3, FileAdvances
<1>3. ASSUME files' = [files EXCEPT ![f].at = @ + 1]
      PROVE  FilesOK'
  <2>1. PICK n \in Nat : n = files[f].at + 1 /\ n >= 1
    BY <1>1
  <2>2. PICK g : g = [files[f] EXCEPT !.at = n]
    OBVIOUS
  <2>3. g \in RepFile /\ g.at >= 1
    BY <1>1, <2>1, <2>2 DEF RepFile
  <2>4. files' = [files EXCEPT ![f] = g]
    BY <1>1, <1>3, <2>1, <2>2
  <2> QED
    BY <2>3, <2>4, FileAdvances
<1>4. ASSUME NEW b \in BOOLEAN,
             files' = [files EXCEPT ![f].at = IF b THEN @ + 1 ELSE @, ![f].replica = ~@]
      PROVE  FilesOK'
  <2>1. PICK n \in Nat : n = (IF b THEN files[f].at + 1 ELSE files[f].at) /\ n >= 1
    BY <1>1
  <2>2. PICK c \in BOOLEAN : c = ~files[f].replica
    OBVIOUS
  <2>3. PICK g : g = [files[f] EXCEPT !.at = n, !.replica = c]
    OBVIOUS
  <2>4. g \in RepFile /\ g.at >= 1
    BY <1>1, <2>1, <2>3 DEF RepFile
  <2>5. files' = [files EXCEPT ![f] = g]
    BY <1>1, <1>4, <2>1, <2>2, <2>3
  <2> QED
    BY <2>4, <2>5, FileAdvances
<1> QED
  BY <1>2, <1>3, <1>4

LEMMA NewFileStep ==
  ASSUME RemoteInv, NEW ast \in Asts, NewRepFile(ast)
  PROVE  RemoteInv'
<1> USE DEF RemoteInv
<1>1. PICK g : g = [ast |-> ast, at |-> 1, replica |-> FALSE, state |-> "loading"]
  OBVIOUS
<1>2. g \in RepFile /\ g.at = 1
  BY <1>1 DEF RepFile
<1>3. files' = Append(files, g) /\ Len(files) < MaxFiles
      /\ UNCHANGED <<conduct, bound, pyTypes, capsule_count, pyLocals, sources, methods, setters, misused>>
  BY <1>1 DEF NewRepFile
<1>4. /\ files' \in Seq(RepFile) /\ Len(files') = Len(files) + 1 /\ files'[Len(files) + 1] = g
      /\ \A i \in 1..Len(files) : files'[i] = files[i]
  BY <1>2, <1>3, AppendProperties DEF FilesOK
<1>5. FilesOK'
  <2>1. Len(files) \in Nat
    BY LenProperties DEF FilesOK
  <2> QED
    BY <1>2, <1>3, <1>4, <2>1 DEF FilesOK
<1> QED
  BY <1>3, <1>5 DEF ProgramOK, TypesOK, TypeSound, Weights, Weight, SourcesOK, SourceSound, ReasonsOK

LEMMA PodStep ==
  ASSUME RemoteInv, NEW f \in 1..Len(files), LoadPod(f)
  PROVE  RemoteInv'
<1> USE DEF RemoteInv
<1>1. PICK d \in Declaration : d = DeclarationOf(f) /\ Cleanups(d) \in Nat
  BY DeclarationNext DEF LoadPod
<1>2. d.enums \in Nat /\ d.known \in BOOLEAN
  BY <1>1 DEF Declaration
<1>3. PICK made \in Nat : made = IF d.known THEN Cleanups(d) ELSE d.enums
  BY <1>1, <1>2
<1>4. PICK t : t = NewPyType(f, "pod", made, ~d.known)
  OBVIOUS
<1>5. /\ d.known \/ "mistakes" \in conduct
      /\ pyTypes' = Append(pyTypes, t) /\ capsule_count' = capsule_count + made
      /\ files' = IF d.known THEN [files EXCEPT ![f].at = @ + 1] ELSE [files EXCEPT ![f].state = "gone"]
      /\ UNCHANGED <<conduct, bound, pyLocals, sources, methods, setters, misused>>
  BY <1>1, <1>3, <1>4 DEF LoadPod, Failed
<1>6. f \in 1..MaxFiles
  <2>1. Len(files) \in Nat /\ Len(files) <= MaxFiles
    BY LenProperties DEF FilesOK
  <2> QED
    BY <2>1
<1>7. t \in PyType /\ t.alive /\ t.cleanups = made /\ TypeSound(t)
  BY <1>2, <1>3, <1>4, <1>5, <1>6 DEF NewPyType, PyType, TypeSound
<1>8. TypesOK' /\ SourcesOK'
  BY <1>5, <1>7, TypeAdded
<1>9. FilesOK'
  BY <1>5, FileChanges
<1> QED
  BY <1>5, <1>8, <1>9 DEF ProgramOK, ReasonsOK

LEMMA ClassStep ==
  ASSUME RemoteInv, NEW f \in 1..Len(files), LoadClass(f)
  PROVE  RemoteInv'
<1> USE DEF RemoteInv
<1>1. PICK d \in Declaration : d = DeclarationOf(f) /\ Cleanups(d) \in Nat
  BY DeclarationNext DEF LoadClass
<1>2. d.default \in {"none", "good", "bad"}
  BY <1>1 DEF Declaration
<1>3. PICK kind \in {"replica", "source"} : kind = IF files[f].replica THEN "replica" ELSE "source"
  OBVIOUS
<1>4. PICK t : t = NewPyType(f, kind, Cleanups(d), FALSE)
  OBVIOUS
<1>5. /\ d.default = "bad" => "mistakes" \in conduct
      /\ pyLocals' = Evaluated(d.default)
      /\ misused' = misused \cup (IF d.default # "none" /\ pyLocals = "freed" THEN {"locals"} ELSE {})
      /\ UNCHANGED <<conduct, bound, sources, methods, setters>>
  BY <1>1 DEF LoadClass
<1>6. ReasonsOK'
  <2>1. pyLocals' \in {"none", "made", "freed"} /\ (pyLocals' = "freed" => pyLocals = "freed" \/ d.default = "bad")
    BY <1>2, <1>5 DEF ReasonsOK, Evaluated
  <2> QED
    BY <1>5, <2>1 DEF ReasonsOK
<1>7. CASE d.default = "bad"
  <2>1. files' = [files EXCEPT ![f].state = "gone"] /\ UNCHANGED <<pyTypes, capsule_count>>
    BY <1>1, <1>7 DEF LoadClass, Failed
  <2>2. FilesOK'
    BY <2>1, FileChanges
  <2> QED
    BY <1>5, <1>6, <2>1, <2>2 DEF ProgramOK, TypesOK, TypeSound, Weights, Weight, SourcesOK, SourceSound
<1>8. CASE d.default # "bad"
  <2>1. /\ pyTypes' = Append(pyTypes, t) /\ capsule_count' = capsule_count + Cleanups(d)
        /\ files' = [files EXCEPT ![f].at = IF files[f].replica THEN @ + 1 ELSE @, ![f].replica = ~@]
    BY <1>1, <1>3, <1>4, <1>8 DEF LoadClass
  <2>2. f \in 1..MaxFiles
    <3>1. Len(files) \in Nat /\ Len(files) <= MaxFiles
      BY LenProperties DEF FilesOK
    <3> QED
      BY <3>1
  <2>3. t \in PyType /\ t.alive /\ t.cleanups = Cleanups(d) /\ TypeSound(t)
    BY <1>1, <1>3, <1>4, <2>2 DEF NewPyType, PyType, TypeSound
  <2>4. TypesOK' /\ SourcesOK'
    BY <1>5, <2>1, <2>3, TypeAdded
  <2>5. files[f].replica \in BOOLEAN
    BY ElementOfSeq, FileFields DEF FilesOK
  <2>6. FilesOK'
    BY <2>1, <2>5, FileChanges
  <2> QED
    BY <1>5, <1>6, <2>4, <2>6 DEF ProgramOK
<1> QED
  BY <1>7, <1>8

LEMMA FileStep ==
  ASSUME RemoteInv, NEW f \in 1..Len(files), Loaded(f) \/ DropFile(f)
  PROVE  RemoteInv'
<1> USE DEF RemoteInv
<1>1. PICK x \in {"loading", "loaded", "gone"} : files' = [files EXCEPT ![f].state = x]
  BY DEF Loaded, DropFile
<1>2. UNCHANGED <<conduct, bound, pyTypes, capsule_count, pyLocals, sources, methods, setters, misused>>
  BY DEF Loaded, DropFile
<1>3. FilesOK'
  BY <1>1, FileChanges
<1> QED
  BY <1>2, <1>3 DEF ProgramOK, TypesOK, TypeSound, Weights, Weight, SourcesOK, SourceSound, ReasonsOK

LEMMA CollectStep ==
  ASSUME RemoteInv, NEW t \in 1..Len(pyTypes), CollectType(t)
  PROVE  RemoteInv'
<1> USE DEF RemoteInv
<1>1. /\ pyTypes[t].alive /\ \A o \in Sources : ~ (sources[o].alive /\ sources[o].type = t)
      /\ pyTypes' = [pyTypes EXCEPT ![t].alive = FALSE, ![t].meta = FALSE]
      /\ capsule_count' = capsule_count - pyTypes[t].cleanups
      /\ UNCHANGED <<conduct, bound, files, pyLocals, sources, methods, setters, misused>>
  BY DEF CollectType, InUse, Uncounted
<1>2. TypesOK' /\ SourcesOK'
  BY <1>1, TypeCollected
<1> QED
  BY <1>1, <1>2 DEF ProgramOK, FilesOK, ReasonsOK

LEMMA NewSourceStep ==
  ASSUME RemoteInv, NEW o \in Sources, NEW t \in 1..Len(pyTypes), NEW keyword \in BOOLEAN,
         NewSource(o, t, keyword)
  PROVE  RemoteInv'
<1> USE DEF RemoteInv
<1>1. PICK x : x = [alive |-> TRUE, type |-> t, hasProperties |-> TRUE, value |-> Default, shared |-> TRUE]
  OBVIOUS
<1>2. /\ o \notin methods /\ pyTypes[t].alive /\ pyTypes[t].kind = "source"
      /\ (keyword => "keywords" \in conduct)
      /\ sources' = [sources EXCEPT ![o] = x]
      /\ misused' = misused \cup (IF keyword THEN {"properties"} ELSE {})
      /\ UNCHANGED <<conduct, bound, files, pyTypes, capsule_count, pyLocals, methods, setters>>
  BY <1>1 DEF NewSource
<1>3. t \in Nat
  BY LenProperties DEF TypesOK
<1>4. x \in Source /\ x.type = t
  BY <1>1, <1>3 DEF Source
<1>5. SourcesOK'
  BY <1>2, <1>4 DEF SourcesOK, SourceSound
<1>6. \A p \in methods : sources'[p] = sources[p]
  BY <1>2 DEF ReasonsOK, SourcesOK
<1>7. ReasonsOK'
  BY <1>2, <1>6 DEF ReasonsOK
<1> QED
  BY <1>2, <1>5, <1>7 DEF ProgramOK, FilesOK, TypesOK, TypeSound, Weights, Weight

\* One or two fields of a source change.
LEMMA SourceChanges ==
  ASSUME SourcesOK, NEW o \in Sources, UNCHANGED pyTypes
  PROVE  /\ sources' = [sources EXCEPT ![o].alive = FALSE] => SourcesOK'
         /\ \A v \in Values : sources' = [sources EXCEPT ![o].value = v, ![o].shared = FALSE] =>
              SourcesOK' /\ \A p \in Sources : sources'[p].alive = sources[p].alive
<1>1. sources[o] \in Source /\ \A p \in Sources : SourceSound(p)
  BY DEF SourcesOK
<1>2. sources \in [Sources -> Source]
  BY DEF SourcesOK
<1>3. ASSUME NEW x \in Source, x.alive => sources[o].alive, x.type = sources[o].type,
             sources' = [sources EXCEPT ![o] = x]
      PROVE  SourcesOK'
  <2>1. sources' \in [Sources -> Source] /\ sources'[o] = x /\ \A p \in Sources : p # o => sources'[p] = sources[p]
    BY <1>2, <1>3
  <2> QED
    BY <1>1, <1>3, <2>1 DEF SourcesOK, SourceSound
<1>4. ASSUME sources' = [sources EXCEPT ![o].alive = FALSE] PROVE SourcesOK'
  <2>1. PICK x : x = [sources[o] EXCEPT !.alive = FALSE]
    OBVIOUS
  <2>2. x \in Source /\ ~x.alive /\ x.type = sources[o].type
    BY <1>1, <2>1 DEF Source
  <2>3. sources' = [sources EXCEPT ![o] = x]
    BY <1>2, <1>4, <2>1
  <2> QED
    BY <1>3, <2>2, <2>3
<1>5. ASSUME NEW v \in Values, sources' = [sources EXCEPT ![o].value = v, ![o].shared = FALSE]
      PROVE  SourcesOK' /\ \A p \in Sources : sources'[p].alive = sources[p].alive
  <2>1. PICK x : x = [sources[o] EXCEPT !.value = v, !.shared = FALSE]
    OBVIOUS
  <2>2. x \in Source /\ x.alive = sources[o].alive /\ x.type = sources[o].type
    BY <1>1, <2>1 DEF Source
  <2>3. sources' = [sources EXCEPT ![o] = x]
    BY <1>2, <1>5, <2>1
  <2>4. SourcesOK'
    BY <1>3, <2>2, <2>3
  <2> QED
    BY <1>2, <2>2, <2>3, <2>4
<1> QED
  BY <1>4, <1>5

LEMMA DropSourceStep ==
  ASSUME RemoteInv, NEW o \in Sources, DropSource(o)
  PROVE  RemoteInv'
<1> USE DEF RemoteInv
<1>1. /\ o \in methods => "keeps" \in conduct
      /\ sources' = [sources EXCEPT ![o].alive = FALSE]
      /\ UNCHANGED <<conduct, bound, files, pyTypes, capsule_count, pyLocals, methods, setters, misused>>
  BY DEF DropSource
<1>2. SourcesOK'
  BY <1>1, SourceChanges
<1>3. \A p \in Sources : p # o => sources'[p] = sources[p]
  BY <1>1 DEF SourcesOK
<1>4. ReasonsOK'
  BY <1>1, <1>3 DEF ReasonsOK
<1> QED
  BY <1>1, <1>2, <1>4 DEF ProgramOK, FilesOK, TypesOK, TypeSound, Weights, Weight

LEMMA CallIsSetter ==
  ASSUME SourcesOK, NEW o \in Sources, NEW v \in Values
  PROVE  Called(o, v) \in SetterCall
<1>1. sources[o].shared \in BOOLEAN
  BY DEF SourcesOK, Source
<1> QED
  BY <1>1 DEF Called, SetterCall

LEMMA MethodStep ==
  ASSUME RemoteInv, NEW o \in Sources, BindMethod(o) \/ \E v \in Values : SetProperty(o, v) \/ CallMethod(o, v)
  PROVE  RemoteInv'
<1> USE DEF RemoteInv
<1>1. UNCHANGED <<conduct, bound, files, pyTypes, capsule_count, pyLocals, sources>>
  BY DEF BindMethod, SetProperty, CallMethod
<1>2. CASE BindMethod(o)
  BY <1>1, <1>2 DEF BindMethod, ProgramOK, FilesOK, TypesOK, TypeSound, Weights, Weight, SourcesOK, SourceSound, ReasonsOK
<1>3. ASSUME NEW v \in Values, SetProperty(o, v) PROVE RemoteInv'
  <2>1. setters' = Append(setters, Called(o, v)) /\ UNCHANGED <<methods, misused>>
    BY <1>3 DEF SetProperty
  <2>2. setters' \in Seq(SetterCall)
    BY <2>1, CallIsSetter, AppendProperties
  <2> QED
    BY <1>1, <2>1, <2>2 DEF ProgramOK, FilesOK, TypesOK, TypeSound, Weights, Weight, SourcesOK, SourceSound, ReasonsOK
<1>4. ASSUME NEW v \in Values, CallMethod(o, v) PROVE RemoteInv'
  <2>1. /\ o \in methods /\ methods' = methods \ {o}
        /\ misused' = misused \cup (IF sources[o].alive THEN {} ELSE {"self"})
        /\ setters' = IF sources[o].alive THEN <<Called(o, v)>> ELSE <<>>
    BY <1>4 DEF CallMethod
  <2>2. setters' \in Seq(SetterCall)
    BY <2>1, CallIsSetter
  <2>3. ReasonsOK'
    BY <1>1, <2>1 DEF ReasonsOK
  <2> QED
    BY <1>1, <2>2, <2>3 DEF ProgramOK, FilesOK, TypesOK, TypeSound, Weights, Weight, SourcesOK, SourceSound
<1> QED
  BY <1>2, <1>3, <1>4

LEMMA SetterFields ==
  ASSUME NEW s \in SetterCall
  PROVE  /\ s.object \in Sources /\ s.value \in Values /\ s.shared \in BOOLEAN
         /\ s.step \in {"convert", "notify"} /\ s.left \subseteq Sources
         /\ \A L \in SUBSET Sources :
              [s EXCEPT !.step = "notify", !.left = L] \in SetterCall /\ [s EXCEPT !.left = L] \in SetterCall
BY DEF SetterCall

LEMMA StoreStep ==
  ASSUME RemoteInv, StoreProperty
  PROVE  RemoteInv'
<1> USE DEF RemoteInv
<1>1. setters # <<>> /\ UNCHANGED <<conduct, bound, files, pyTypes, capsule_count, pyLocals, methods, misused>>
  BY DEF StoreProperty
<1>2. PICK s \in SetterCall : s = Last(setters)
  BY <1>1, StackTop
<1>3. Front(setters) \in Seq(SetterCall)
  BY <1>1, StackPop
<1>4. CASE Unchanged(s)
  BY <1>1, <1>2, <1>3, <1>4 DEF StoreProperty, ProgramOK, FilesOK, TypesOK, TypeSound, Weights, Weight,
    SourcesOK, SourceSound, ReasonsOK
<1>5. CASE ~Unchanged(s)
  <2>1. PICK L \in SUBSET Sources : L = {p \in Sources : <<s.object, p>> \in bound}
    OBVIOUS
  <2>2. /\ sources' = [sources EXCEPT ![s.object].value = s.value, ![s.object].shared = FALSE]
        /\ setters' = Append(Front(setters), [s EXCEPT !.step = "notify", !.left = L])
    BY <1>2, <1>5, <2>1 DEF StoreProperty
  <2>3. setters' \in Seq(SetterCall)
    BY <1>3, <2>2, SetterFields, AppendProperties
  <2>4. SourcesOK' /\ \A o \in Sources : sources'[o].alive = sources[o].alive
    BY <1>1, <2>2, SetterFields, SourceChanges
  <2> QED
    BY <1>1, <2>3, <2>4 DEF ProgramOK, FilesOK, TypesOK, TypeSound, Weights, Weight, ReasonsOK
<1> QED
  BY <1>4, <1>5

LEMMA NotifyStep ==
  ASSUME RemoteInv, NotifyNext
  PROVE  RemoteInv'
<1> USE DEF RemoteInv
<1>1. setters # <<>>
      /\ UNCHANGED <<conduct, bound, files, pyTypes, capsule_count, pyLocals, sources, methods, misused>>
  BY DEF NotifyNext
<1>2. PICK s \in SetterCall : s = Last(setters)
  BY <1>1, StackTop
<1>3. Front(setters) \in Seq(SetterCall)
  BY <1>1, StackPop
<1>4. setters' \in Seq(SetterCall)
  <2>1. CASE s.left = {}
    BY <1>2, <1>3, <2>1 DEF NotifyNext
  <2>2. CASE s.left # {}
    <3>1. PICK p \in s.left :
            LET rest == Append(Front(setters), [s EXCEPT !.left = @ \ {p}]) IN
            setters' = IF sources[p].alive THEN Append(rest, Called(p, s.value)) ELSE rest
      BY <1>2, <2>2 DEF NotifyNext
    <3>2. PICK rest : rest = Append(Front(setters), [s EXCEPT !.left = @ \ {p}])
      OBVIOUS
    <3>3. [s EXCEPT !.left = @ \ {p}] \in SetterCall /\ p \in Sources /\ s.value \in Values
      BY SetterFields
    <3>4. rest \in Seq(SetterCall)
      BY <1>3, <3>2, <3>3, AppendProperties
    <3>5. Append(rest, Called(p, s.value)) \in Seq(SetterCall)
      BY <3>3, <3>4, CallIsSetter, AppendProperties
    <3> QED
      BY <3>1, <3>2, <3>4, <3>5
  <2> QED
    BY <2>1, <2>2
<1> QED
  BY <1>1, <1>4 DEF ProgramOK, FilesOK, TypesOK, TypeSound, Weights, Weight, SourcesOK, SourceSound, ReasonsOK

LEMMA RemoteInitial == RemoteInit => RemoteInv
<1> SUFFICES ASSUME RemoteInit PROVE RemoteInv
  OBVIOUS
<1>1. files = <<>> /\ pyTypes = <<>> /\ setters = <<>> /\ Len(<<>>) = 0 /\ <<>> \in Seq(Nat)
  BY DEF RemoteInit
<1>2. FilesOK
  BY <1>1 DEF FilesOK
<1>3. Total(<<>>) = 0
  <2>1. PICK e \in Seq(Nat) : e = <<>> /\ Len(e) = 0
    BY <1>1
  <2>2. \E u : Total(e) = u[Len(e)] /\ u[0] = 0
    BY TotalSteps
  <2> QED
    BY <2>1, <2>2
<1>4. Weights = <<>>
  BY <1>1 DEF Weights
<1>5. TypesOK
  BY <1>1, <1>3, <1>4 DEF TypesOK, RemoteInit
<1>6. SourcesOK
  BY DEF SourcesOK, SourceSound, RemoteInit, Source
<1> QED
  BY <1>1, <1>2, <1>5, <1>6 DEF RemoteInv, RemoteInit, ProgramOK, ReasonsOK

LEMMA RemoteStep == RemoteInv /\ [RemoteNext]_remoteVars => RemoteInv'
<1> SUFFICES ASSUME RemoteInv, [RemoteNext]_remoteVars PROVE RemoteInv'
  OBVIOUS
<1>1. CASE \E ast \in Asts : NewRepFile(ast)
  BY <1>1, NewFileStep
<1>2. CASE \E f \in 1..Len(files) : LoadPod(f) \/ LoadClass(f) \/ Loaded(f) \/ DropFile(f)
  BY <1>2, PodStep, ClassStep, FileStep
<1>3. CASE \E t \in 1..Len(pyTypes) : CollectType(t)
  BY <1>3, CollectStep
<1>4. CASE \E o \in Sources, t \in 1..Len(pyTypes), keyword \in BOOLEAN : NewSource(o, t, keyword)
  BY <1>4, NewSourceStep
<1>5. CASE \E o \in Sources : DropSource(o) \/ BindMethod(o)
  BY <1>5, DropSourceStep, MethodStep
<1>6. CASE \E o \in Sources, v \in Values : SetProperty(o, v) \/ CallMethod(o, v)
  BY <1>6, MethodStep
<1>7. CASE StoreProperty
  BY <1>7, StoreStep
<1>8. CASE NotifyNext
  BY <1>8, NotifyStep
<1>9. CASE UNCHANGED remoteVars
  BY <1>9 DEF remoteVars, RemoteInv, ProgramOK, FilesOK, TypesOK, TypeSound, Weights, Weight, SourcesOK,
    SourceSound, ReasonsOK
<1> QED
  BY <1>1, <1>2, <1>3, <1>4, <1>5, <1>6, <1>7, <1>8, <1>9 DEF RemoteNext

LEMMA RemoteInvariant == RemoteSpec => []RemoteInv
BY RemoteInitial, RemoteStep, PTL DEF RemoteSpec

\* For every set of .rep files and sources: the types of what the extension keeps.
THEOREM RemoteTypeCorrect == RemoteSpec => []RemoteTypeOK
<1>1. RemoteInv => RemoteTypeOK
  BY CountIsNumber DEF RemoteInv, RemoteTypeOK, ProgramOK, FilesOK, TypesOK, SourcesOK, ReasonsOK
<1> QED
  BY <1>1, RemoteInvariant, PTL

\* For every set of .rep files, loaded in whole or in part: the capsules that are counted are
\* those of the types that live, and no source is without the meta object of its type.
THEOREM CapsulesAreReturned == RemoteSpec => []CapsulesReturn
<1>1. RemoteInv => CapsulesReturn
  <2> SUFFICES ASSUME RemoteInv PROVE CapsulesReturn
    OBVIOUS
  <2>1. DOMAIN pyTypes = 1..Len(pyTypes)
    BY LenProperties DEF RemoteInv, TypesOK
  <2>2. capsule_count = Total([t \in 1..Len(pyTypes) |-> IF pyTypes[t].alive THEN pyTypes[t].cleanups ELSE 0])
    BY DEF RemoteInv, TypesOK, Weights, Weight
  <2>3. \A o \in Sources : sources[o].alive => pyTypes[sources[o].type].meta
    BY DEF RemoteInv, SourcesOK, SourceSound, TypesOK, TypeSound
  <2>4. \A t \in 1..Len(pyTypes) : "mistakes" \notin conduct => ~pyTypes[t].leaked
    BY DEF RemoteInv, TypesOK, TypeSound
  <2> QED
    BY <2>1, <2>2, <2>3, <2>4 DEF CapsulesReturn
<1> QED
  BY <1>1, RemoteInvariant, PTL

-----------------------------------------------------------------------------
(* Setters *)

Notifies(i) == setters[i].step = "notify"

\* Setters that run inside each other have one value; all but the last notify of it, which
\* their objects have, each of them once.
Nested ==
  /\ \A i, j \in 1..Len(setters) : setters[i].value = setters[j].value
  /\ \A i \in 1..Len(setters) :
       /\ i < Len(setters) => Notifies(i)
       /\ Notifies(i) => sources[setters[i].object].value = setters[i].value
       /\ ~Notifies(i) => setters[i].shared = sources[setters[i].object].shared
  /\ \A i, j \in 1..Len(setters) : Notifies(i) /\ Notifies(j) /\ setters[i].object = setters[j].object => i = j

\* A change of o has yet to reach p.
Waits(o, p) ==
  \E i \in 1..Len(setters) :
    IF Notifies(i) THEN setters[i].object = o /\ p \in setters[i].left
                   ELSE setters[i].object = p /\ setters[i].value = sources[o].value

Bound(o, p) == /\ <<o, p>> \in bound /\ <<p, o>> \in bound /\ sources[o].alive /\ sources[p].alive
               /\ ~sources[o].shared /\ ~sources[p].shared

Settling == \A o, p \in Sources :
              Bound(o, p) => sources[o].value = sources[p].value \/ Waits(o, p) \/ Waits(p, o)

SettleInv == "converts" \notin conduct => Nested /\ Settling

LEMMA QuietSteps ==
  ASSUME SettleInv, UNCHANGED <<conduct, bound, sources, setters>>
  PROVE  SettleInv'
BY DEF SettleInv, Nested, Notifies, Settling, Bound, Waits

\* No setter runs: all agree.
LEMMA NoSetters ==
  ASSUME SettleInv, "converts" \notin conduct, setters = <<>>, NEW o \in Sources, NEW p \in Sources, Bound(o, p)
  PROVE  sources[o].value = sources[p].value
<1>1. 1..Len(setters) = {}
  <2>1. Len(setters) = 0
    OBVIOUS
  <2> QED
    BY <2>1
<1> QED
  BY <1>1 DEF SettleInv, Settling, Waits

LEMMA IdleSteps ==
  ASSUME RemoteInv, SettleInv, setters = <<>>, setters' = <<>>, NEW o \in Sources,
         sources' \in [Sources -> Source],
         \A p \in Sources : p # o => sources'[p] = sources[p],
         ~sources'[o].alive \/ sources'[o].shared \/ sources'[o] = sources[o], UNCHANGED <<conduct, bound>>
  PROVE  SettleInv'
<1> SUFFICES ASSUME "converts" \notin conduct PROVE Nested' /\ Settling'
  BY DEF SettleInv
<1>1. Nested'
  <2>1. Len(setters') = 0
    OBVIOUS
  <2> QED
    BY <2>1 DEF Nested
<1>2. ASSUME NEW p \in Sources, NEW q \in Sources, Bound(p, q)'
      PROVE  sources'[p].value = sources'[q].value
  <2>1. sources'[p] = sources[p] /\ sources'[q] = sources[q]
    BY <1>2 DEF Bound
  <2> QED
    BY <1>2, <2>1, NoSetters DEF Bound
<1> QED
  BY <1>1, <1>2 DEF Settling

\* The first setter
LEMMA FirstSetter ==
  ASSUME RemoteInv, SettleInv, setters = <<>>, NEW o \in Sources, NEW v \in Values, setters' = <<Called(o, v)>>,
         UNCHANGED <<conduct, bound, sources>>
  PROVE  SettleInv'
<1> SUFFICES ASSUME "converts" \notin conduct PROVE Nested' /\ Settling'
  BY DEF SettleInv
<1>1. Len(setters') = 1 /\ setters'[1] = Called(o, v)
  OBVIOUS
<1>2. Called(o, v).object = o /\ Called(o, v).step = "convert" /\ Called(o, v).shared = sources[o].shared
  BY DEF Called
<1>3. \A i \in 1..Len(setters') : i = 1 /\ setters'[i] = Called(o, v)
  BY <1>1
<1>4. Nested'
  BY <1>1, <1>2, <1>3 DEF Nested, Notifies
<1>5. \A p, q \in Sources : Bound(p, q)' => sources'[p].value = sources'[q].value
  BY NoSetters DEF Bound
<1> QED
  BY <1>4, <1>5 DEF Settling

LEMMA FrontOfSetters ==
  ASSUME setters \in Seq(SetterCall), setters # <<>>
  PROVE  /\ Len(setters) \in Nat /\ Len(setters) >= 1 /\ Last(setters) = setters[Len(setters)]
         /\ Front(setters) \in Seq(SetterCall) /\ Len(Front(setters)) = Len(setters) - 1
         /\ \A i \in 1..(Len(setters) - 1) : Front(setters)[i] = setters[i]
         /\ \A x \in SetterCall : LET t == Append(Front(setters), x) IN
              /\ t \in Seq(SetterCall) /\ Len(t) = Len(setters) /\ t[Len(setters)] = x
              /\ \A i \in 1..(Len(setters) - 1) : t[i] = setters[i]
<1>1. /\ Len(setters) \in Nat /\ Len(setters) >= 1 /\ Last(setters) = setters[Len(setters)]
      /\ Front(setters) \in Seq(SetterCall) /\ Len(Front(setters)) = Len(setters) - 1
      /\ \A i \in 1..(Len(setters) - 1) : Front(setters)[i] = setters[i]
  BY StackTop, StackPop
<1>2. ASSUME NEW x \in SetterCall
      PROVE  LET t == Append(Front(setters), x) IN
               /\ t \in Seq(SetterCall) /\ Len(t) = Len(setters) /\ t[Len(setters)] = x
               /\ \A i \in 1..(Len(setters) - 1) : t[i] = setters[i]
  <2>1. PICK t : t = Append(Front(setters), x)
    OBVIOUS
  <2>2. /\ t \in Seq(SetterCall) /\ Len(t) = (Len(setters) - 1) + 1 /\ t[(Len(setters) - 1) + 1] = x
        /\ \A i \in 1..(Len(setters) - 1) : t[i] = Front(setters)[i]
    BY <1>1, <2>1, StackPush
  <2>3. (Len(setters) - 1) + 1 = Len(setters)
    BY <1>1
  <2> QED
    BY <1>1, <2>1, <2>2, <2>3
<1> QED
  BY <1>1, <1>2

\* The setter that runs compares with what its object has.
LEMMA ComparesRight ==
  ASSUME RemoteInv, Nested, setters # <<>>, Last(setters).step = "convert"
  PROVE  Unchanged(Last(setters)) <=> Last(setters).value = sources[Last(setters).object].value
<1>1. Len(setters) \in 1..Len(setters) /\ Last(setters) = setters[Len(setters)]
  BY FrontOfSetters DEF RemoteInv
<1>2. ~Notifies(Len(setters))
  BY <1>1 DEF Notifies
<1>3. Last(setters).shared = sources[Last(setters).object].shared
  BY <1>1, <1>2 DEF Nested
<1> QED
  BY <1>3 DEF Unchanged

\* The last setter returns, having found nothing to do or notified everyone.
LEMMA SetterReturns ==
  ASSUME RemoteInv, Nested, Settling, setters # <<>>, setters' = Front(setters), UNCHANGED <<conduct, bound, sources>>,
         IF Last(setters).step = "notify" THEN Last(setters).left = {}
         ELSE Last(setters).value = sources[Last(setters).object].value
  PROVE  Nested' /\ Settling'
<1> DEFINE n == Len(setters)
<1>1. n \in Nat /\ n >= 1 /\ Last(setters) = setters[n] /\ Len(setters') = n - 1
      /\ \A i \in 1..(n - 1) : setters'[i] = setters[i]
  BY FrontOfSetters DEF RemoteInv
<1>2. \A i \in 1..Len(setters') : i \in 1..n /\ i < n /\ setters'[i] = setters[i]
  BY <1>1
<1>3. Nested'
  BY <1>2 DEF Nested, Notifies
<1>4. ASSUME NEW o \in Sources, NEW p \in Sources, Waits(o, p), sources[o].value # sources[p].value
      PROVE  Waits(o, p)'
  <2>1. PICK i \in 1..n :
          IF Notifies(i) THEN setters[i].object = o /\ p \in setters[i].left
          ELSE setters[i].object = p /\ setters[i].value = sources[o].value
    BY <1>4 DEF Waits
  <2>2. i # n
    BY <1>1, <1>4, <2>1 DEF Notifies
  <2>3. i \in 1..Len(setters') /\ setters'[i] = setters[i]
    BY <1>1, <2>2
  <2> QED
    BY <2>1, <2>3 DEF Waits, Notifies
<1>5. Settling'
  BY <1>4 DEF Settling, Bound
<1> QED
  BY <1>3, <1>5

\* A value is stored in its object, which notifies of it.
LEMMA SetterStores ==
  ASSUME RemoteInv, Nested, Settling, setters # <<>>, UNCHANGED <<conduct, bound>>,
         NEW s \in SetterCall, s = Last(setters), s.step = "convert", s.value # sources[s.object].value,
         NEW x \in SetterCall, x.step = "notify", x.object = s.object, x.value = s.value,
         \A p \in Sources : <<s.object, p>> \in bound => p \in x.left,
         NEW o \in Sources, o = s.object, sources'[o].value = s.value,
         \A p \in Sources : p # o => sources'[p] = sources[p], setters' = Append(Front(setters), x)
  PROVE  Nested' /\ Settling'
<1> DEFINE n == Len(setters)
<1>2. x.step = "notify" /\ x.object = o /\ x.value = s.value
      /\ \A p \in Sources : <<o, p>> \in bound => p \in x.left
  OBVIOUS
<1>3. n \in Nat /\ n >= 1 /\ s = setters[n] /\ Len(setters') = n /\ setters'[n] = x
      /\ \A i \in 1..(n - 1) : setters'[i] = setters[i]
  BY FrontOfSetters DEF RemoteInv
<1>4. /\ o \in Sources /\ sources'[o].value = s.value
      /\ \A p \in Sources : p # o => sources'[p] = sources[p]
  OBVIOUS
<1>5. \A i \in 1..n : i = n \/ (i \in 1..(n - 1) /\ i < n)
  BY <1>3
<1>6. n \in 1..n
  BY <1>3
<1>7. \A i \in 1..n : i # n => Notifies(i) /\ setters'[i] = setters[i] /\ setters[i].value = s.value
                                /\ sources[setters[i].object].value = s.value
  BY <1>3, <1>5, <1>6 DEF Nested
<1>8. \A i \in 1..n : i # n => setters[i].object # o /\ setters[i].object \in Sources
  <2>1. \A i \in 1..n : setters[i] \in SetterCall
    BY ElementOfSeq DEF RemoteInv
  <2>2. \A i \in 1..n : setters[i].object \in Sources
    BY <2>1, SetterFields
  <2>3. ASSUME NEW i \in 1..n, i # n
        PROVE  setters[i].object # o
    BY <1>7, <2>3
  <2> QED
    BY <2>2, <2>3
<1>9. Nested'
  BY <1>2, <1>3, <1>4, <1>5, <1>7, <1>8 DEF Nested, Notifies
<1>10. ASSUME NEW p \in Sources, NEW q \in Sources, p # o, q # o, Waits(p, q)
       PROVE  Waits(p, q)'
  <2>1. PICK i \in 1..n :
          IF Notifies(i) THEN setters[i].object = p /\ q \in setters[i].left
          ELSE setters[i].object = q /\ setters[i].value = sources[p].value
    BY <1>10 DEF Waits
  <2>2. i # n
    BY <1>3, <1>10, <2>1 DEF Notifies
  <2> QED
    BY <1>3, <1>7, <2>1, <2>2 DEF Waits, Notifies
<1>11. ASSUME NEW p \in Sources, <<o, p>> \in bound
       PROVE  Waits(o, p)'
  BY <1>2, <1>3, <1>6, <1>11 DEF Waits, Notifies
<1>12. Settling'
  <2> SUFFICES ASSUME NEW p \in Sources, NEW q \in Sources, Bound(p, q)'
               PROVE  sources'[p].value = sources'[q].value \/ Waits(p, q)' \/ Waits(q, p)'
    BY DEF Settling
  <2>1. CASE p = o \/ q = o
    BY <1>11, <2>1 DEF Bound
  <2>2. CASE p # o /\ q # o
    <3>1. Bound(p, q) /\ sources'[p] = sources[p] /\ sources'[q] = sources[q]
      BY <1>4, <2>2 DEF Bound
    <3> QED
      BY <1>10, <2>2, <3>1 DEF Settling
  <2> QED
    BY <2>1, <2>2
<1> QED
  BY <1>9, <1>12

\* A slot is called, or is one of an object that is gone.
LEMMA SetterNotifies ==
  ASSUME RemoteInv, Nested, Settling, setters # <<>>, UNCHANGED <<conduct, bound, sources>>,
         NEW s \in SetterCall, s = Last(setters), s.step = "notify", NEW p \in Sources, p \in s.left,
         NEW x \in SetterCall, x.step = s.step, \A q \in s.left : q # p => q \in x.left, x.object = s.object, x.value = s.value,
         x.shared = s.shared, NEW rest \in Seq(SetterCall), rest = Append(Front(setters), x),
         NEW c \in SetterCall, c = Called(p, s.value),
         sources[p].alive => setters' = Append(rest, c), ~sources[p].alive => setters' = rest
  PROVE  Nested' /\ Settling'
<1> DEFINE n == Len(setters)
<1>2. x.step = "notify" /\ (\A q \in s.left : q # p => q \in x.left) /\ x.object = s.object /\ x.value = s.value /\ x.shared = s.shared
      /\ p \in Sources /\ s.value \in Values
  BY SetterFields
<1>3. n \in Nat /\ n >= 1 /\ s = setters[n] /\ rest \in Seq(SetterCall) /\ Len(rest) = n /\ rest[n] = x
      /\ \A i \in 1..(n - 1) : rest[i] = setters[i]
  BY FrontOfSetters DEF RemoteInv
<1>5. c.object = p /\ c.value = s.value /\ c.step = "convert" /\ c.shared = sources[p].shared
  BY DEF Called
<1>6. \A i \in 1..n : /\ rest[i].object = setters[i].object /\ rest[i].value = setters[i].value
                      /\ rest[i].step = setters[i].step /\ rest[i].shared = setters[i].shared
                      /\ i # n => rest[i].left = setters[i].left
  <2>1. \A i \in 1..n : i = n \/ i \in 1..(n - 1)
    BY <1>3
  <2> QED
    BY <1>2, <1>3, <2>1
<1>7. n \in 1..n /\ Notifies(n) /\ \A i \in 1..n : Notifies(i)
  <2>1. n \in 1..n /\ \A i \in 1..n : i = n \/ i < n
    BY <1>3
  <2> QED
    BY <1>3, <2>1 DEF Nested, Notifies
<1>8. sources[s.object].value = s.value
  BY <1>3, <1>7 DEF Nested
<1>9. ASSUME NEW m \in {n, n + 1}, Len(setters') = m, \A i \in 1..n : setters'[i] = rest[i],
             m = n + 1 => setters'[n + 1] = c
      PROVE  Nested'
  <2>1. \A i \in 1..m : i \in 1..n \/ (i = n + 1 /\ setters'[i] = c)
    BY <1>3, <1>9
  <2>2. ASSUME NEW i \in 1..n
        PROVE  /\ setters'[i].object = setters[i].object /\ setters'[i].value = setters[i].value
               /\ setters'[i].step = "notify"
    <3>1. setters'[i] = rest[i]
      BY <1>9
    <3>2. setters[i].step = "notify"
      BY <1>7 DEF Notifies
    <3>3. rest[i].object = setters[i].object /\ rest[i].value = setters[i].value /\ rest[i].step = setters[i].step
      BY <1>6
    <3> QED
      BY <3>1, <3>2, <3>3
  <2>3. \A i \in 1..m : setters'[i].value = s.value
    <3>1. \A i \in 1..n : setters[i].value = s.value
      BY <1>3, <1>7 DEF Nested
    <3>2. ASSUME NEW i \in 1..m
          PROVE  setters'[i].value = s.value
      <4>1. CASE i \in 1..n
        BY <2>2, <3>1, <4>1
      <4>2. CASE i = n + 1 /\ setters'[i] = c
        BY <1>5, <4>2
      <4> QED
        BY <2>1, <4>1, <4>2
    <3> QED
      BY <3>2
  <2>4. \A i \in 1..n : sources[setters[i].object].value = setters[i].value
    BY <1>7 DEF Nested
  <2>5. \A i \in 1..m : i < m => i \in 1..n
    BY <1>3
  <2>6. \A i, j \in 1..n : setters[i].object = setters[j].object => i = j
    BY <1>7 DEF Nested
  <2>7. \A i \in 1..m : setters'[i].step = "notify" => i \in 1..n
    BY <1>5, <2>1
  <2> QED
    BY <1>5, <1>9, <2>1, <2>2, <2>3, <2>4, <2>5, <2>6, <2>7 DEF Nested, Notifies
<1>10. ASSUME NEW q \in Sources, NEW r \in Sources, Waits(q, r), sources[r].alive,
              1..n \subseteq 1..Len(setters'), \A i \in 1..n : setters'[i] = rest[i],
              sources[p].alive => n + 1 \in 1..Len(setters') /\ setters'[n + 1] = c
       PROVE  Waits(q, r)'
  <2>1. PICK i \in 1..n : setters[i].object = q /\ r \in setters[i].left
    BY <1>7, <1>10 DEF Waits
  <2>2. CASE i # n \/ r # p
    <3>1. i \in 1..Len(setters') /\ setters'[i].step = "notify" /\ setters'[i].object = q
      BY <1>6, <1>7, <1>10, <2>1 DEF Notifies
    <3>2. r \in setters'[i].left
      BY <1>2, <1>3, <1>6, <1>10, <2>1, <2>2
    <3> QED
      BY <3>1, <3>2 DEF Waits, Notifies
  <2>3. CASE i = n /\ r = p
    <3>1. n + 1 \in 1..Len(setters') /\ setters'[n + 1] = c /\ q = s.object
      BY <1>3, <1>10, <2>1, <2>3
    <3>2. sources'[q].value = s.value
      BY <1>8, <3>1
    <3>3. setters'[n + 1].step # "notify" /\ setters'[n + 1].object = r /\ setters'[n + 1].value = sources'[q].value
      BY <1>5, <2>3, <3>1, <3>2
    <3> QED
      BY <3>1, <3>3 DEF Waits, Notifies
  <2> QED
    BY <2>2, <2>3
<1>11. ASSUME 1..n \subseteq 1..Len(setters'), \A i \in 1..n : setters'[i] = rest[i],
              sources[p].alive => n + 1 \in 1..Len(setters') /\ setters'[n + 1] = c
       PROVE  Settling'
  <2>1. \A q, r \in Sources : sources[r].alive /\ Waits(q, r) => Waits(q, r)'
    BY <1>10, <1>11
  <2>2. \A q, r \in Sources : Bound(q, r)' <=> Bound(q, r)
    BY DEF Bound
  <2>3. \A q, r \in Sources : Bound(q, r) => sources[q].alive /\ sources[r].alive
    BY DEF Bound
  <2> QED
    BY <2>1, <2>2, <2>3 DEF Settling
<1>12. CASE sources[p].alive
  <2>1. setters' = Append(rest, c)
    BY <1>12
  <2>2. /\ Len(setters') = n + 1 /\ setters'[n + 1] = c
        /\ \A i \in 1..n : setters'[i] = rest[i]
    BY <1>3, <2>1, StackPush
  <2>3. 1..n \subseteq 1..Len(setters') /\ n + 1 \in 1..Len(setters')
    BY <1>3, <2>2
  <2> QED
    BY <1>9, <1>11, <2>2, <2>3
<1>13. CASE ~sources[p].alive
  <2>1. setters' = rest /\ Len(setters') = n
    BY <1>3, <1>13
  <2>2. n # n + 1
    BY <1>3
  <2> QED
    BY <1>9, <1>11, <1>13, <2>1, <2>2
<1> QED
  BY <1>12, <1>13

LEMMA SettleStep ==
  ASSUME RemoteInv, SettleInv, [RemoteNext]_remoteVars
  PROVE  SettleInv'
<1>1. CASE \E ast \in Asts : NewRepFile(ast)
  BY <1>1, QuietSteps DEF NewRepFile
<1>2. CASE \E f \in 1..Len(files) : LoadPod(f) \/ LoadClass(f) \/ Loaded(f) \/ DropFile(f)
  BY <1>2, QuietSteps DEF LoadPod, LoadClass, Loaded, DropFile
<1>3. CASE \E t \in 1..Len(pyTypes) : CollectType(t)
  BY <1>3, QuietSteps DEF CollectType
<1>4. ASSUME NEW o \in Sources, NEW t \in 1..Len(pyTypes), NEW keyword \in BOOLEAN, NewSource(o, t, keyword)
      PROVE  SettleInv'
  <2>1. /\ setters = <<>> /\ setters' = setters /\ UNCHANGED <<conduct, bound>>
        /\ sources' = [sources EXCEPT ![o] = [alive |-> TRUE, type |-> t, hasProperties |-> TRUE,
                                              value |-> Default, shared |-> TRUE]]
    BY <1>4 DEF NewSource, Free
  <2>2. RemoteInv'
    BY <1>4, NewSourceStep
  <2>3. sources' \in [Sources -> Source] /\ sources'[o].shared /\ \A p \in Sources : p # o => sources'[p] = sources[p]
    BY <2>1, <2>2 DEF RemoteInv, SourcesOK
  <2> QED
    BY <2>1, <2>3, IdleSteps
<1>5. ASSUME NEW o \in Sources, DropSource(o)
      PROVE  SettleInv'
  <2>1. /\ setters = <<>> /\ setters' = setters /\ UNCHANGED <<conduct, bound>>
        /\ sources' = [sources EXCEPT ![o].alive = FALSE]
    BY <1>5 DEF DropSource, Free
  <2>2. RemoteInv'
    BY <1>5, DropSourceStep
  <2>3. sources' \in [Sources -> Source] /\ ~sources'[o].alive /\ \A p \in Sources : p # o => sources'[p] = sources[p]
    BY <2>1, <2>2 DEF RemoteInv, SourcesOK, Source
  <2> QED
    BY <2>1, <2>3, IdleSteps
<1>6. CASE \E o \in Sources : BindMethod(o)
  BY <1>6, QuietSteps DEF BindMethod
<1>7. ASSUME NEW o \in Sources, NEW v \in Values, SetProperty(o, v), "converts" \notin conduct
      PROVE  SettleInv'
  <2>1. setters = <<>> /\ setters' = Append(setters, Called(o, v)) /\ UNCHANGED <<conduct, bound, sources>>
    BY <1>7 DEF SetProperty, Free
  <2>2. setters' = <<Called(o, v)>>
    BY <2>1
  <2> QED
    BY <2>1, <2>2, FirstSetter
<1>8. ASSUME NEW o \in Sources, NEW v \in Values, CallMethod(o, v)
      PROVE  SettleInv'
  <2>1. /\ setters = <<>> /\ UNCHANGED <<conduct, bound, sources>>
        /\ setters' = IF sources[o].alive THEN <<Called(o, v)>> ELSE <<>>
    BY <1>8 DEF CallMethod, Free
  <2> QED
    BY <2>1, FirstSetter, QuietSteps
<1>9. ASSUME StoreProperty, "converts" \notin conduct
      PROVE  SettleInv'
  <2>1. setters # <<>> /\ Last(setters).step = "convert" /\ UNCHANGED <<conduct, bound>>
    BY <1>9 DEF StoreProperty
  <2>2. Nested /\ Settling
    BY <1>9 DEF SettleInv
  <2>3. PICK s \in SetterCall : s = Last(setters)
    BY <2>1, StackTop DEF RemoteInv
  <2>4. Unchanged(s) <=> s.value = sources[s.object].value
    BY <2>1, <2>2, <2>3, ComparesRight
  <2>5. CASE Unchanged(s)
    BY <1>9, <2>1, <2>2, <2>3, <2>4, <2>5, SetterReturns DEF StoreProperty, SettleInv
  <2>6. CASE ~Unchanged(s)
    <3>1. PICK L \in SUBSET Sources : L = {p \in Sources : <<s.object, p>> \in bound}
      OBVIOUS
    <3>2. /\ sources' = [sources EXCEPT ![s.object].value = s.value, ![s.object].shared = FALSE]
          /\ setters' = Append(Front(setters), [s EXCEPT !.step = "notify", !.left = L])
      BY <1>9, <2>3, <2>6, <3>1 DEF StoreProperty
    <3>3. PICK x \in SetterCall : x = [s EXCEPT !.step = "notify", !.left = L]
      BY SetterFields
    <3>4. x.step = "notify" /\ x.left = L /\ x.object = s.object /\ x.value = s.value
      BY <3>3 DEF SetterCall
    <3>5. PICK o \in Sources : o = s.object
      BY SetterFields
    <3>6. sources'[o].value = s.value /\ \A p \in Sources : p # o => sources'[p] = sources[p]
      BY <3>2, <3>5 DEF RemoteInv, SourcesOK, Source
    <3>7. s.step = "convert" /\ s.value # sources[s.object].value /\ setters' = Append(Front(setters), x)
      BY <2>1, <2>3, <2>4, <2>6, <3>2, <3>3
    <3>8. \A p \in Sources : <<s.object, p>> \in bound => p \in x.left
      BY <3>1, <3>4
    <3>9. sources'[o].value = s.value
      BY <3>6
    <3>10. \A p \in Sources : p # o => sources'[p] = sources[p]
      BY <3>6
    <3>11. Nested' /\ Settling'
      BY <2>1, <2>2, <2>3, <3>4, <3>5, <3>7, <3>8, <3>9, <3>10, SetterStores
    <3> QED
      BY <3>11 DEF SettleInv
  <2> QED
    BY <2>5, <2>6
<1>10. ASSUME NotifyNext, "converts" \notin conduct
       PROVE  SettleInv'
  <2>1. setters # <<>> /\ Last(setters).step = "notify" /\ UNCHANGED <<conduct, bound, sources>>
    BY <1>10 DEF NotifyNext
  <2>2. Nested /\ Settling
    BY <1>10 DEF SettleInv
  <2>3. PICK s \in SetterCall : s = Last(setters)
    BY <2>1, StackTop DEF RemoteInv
  <2>4. CASE s.left = {}
    BY <1>10, <2>1, <2>2, <2>3, <2>4, SetterReturns DEF NotifyNext, SettleInv
  <2>5. CASE s.left # {}
    <3>1. PICK p \in s.left :
            LET rest == Append(Front(setters), [s EXCEPT !.left = @ \ {p}]) IN
            setters' = IF sources[p].alive THEN Append(rest, Called(p, s.value)) ELSE rest
      BY <1>10, <2>3, <2>5 DEF NotifyNext
    <3>2. PICK L \in SUBSET Sources : L = s.left \ {p}
      BY <2>3, SetterFields
    <3>3. PICK x \in SetterCall : x = [s EXCEPT !.left = L]
      BY SetterFields
    <3>4. x.step = s.step /\ x.left = s.left \ {p} /\ x.object = s.object /\ x.value = s.value /\ x.shared = s.shared
      BY <3>2, <3>3 DEF SetterCall
    <3>5. [s EXCEPT !.left = @ \ {p}] = x
      BY <3>2, <3>3 DEF SetterCall
    <3>6. PICK rest \in Seq(SetterCall) : rest = Append(Front(setters), x)
      BY <2>1, FrontOfSetters DEF RemoteInv
    <3>7. setters' = IF sources[p].alive THEN Append(rest, Called(p, s.value)) ELSE rest
      BY <3>1, <3>5, <3>6
    <3>8. s.step = "notify"
      BY <2>1, <2>3
    <3>9. \A q \in s.left : q # p => q \in x.left
      BY <3>4
    <3>10. x.step = s.step /\ x.object = s.object /\ x.value = s.value /\ x.shared = s.shared
      BY <3>4
    <3>11. p \in Sources /\ s.value \in Values
      BY <2>3, SetterFields
    <3>12. PICK c \in SetterCall : c = Called(p, s.value)
      BY <3>11, CallIsSetter DEF RemoteInv
    <3>13. (sources[p].alive => setters' = Append(rest, c)) /\ (~sources[p].alive => setters' = rest)
      BY <3>7, <3>12
    <3>14. setters # <<>> /\ UNCHANGED <<conduct, bound, sources>> /\ p \in Sources /\ p \in s.left
           /\ (sources[p].alive => setters' = Append(rest, c)) /\ (~sources[p].alive => setters' = rest)
      BY <2>1, <3>1, <3>11, <3>13
    <3>15. Nested' /\ Settling'
      BY <2>2, <2>3, <3>6, <3>8, <3>9, <3>10, <3>12, <3>14, SetterNotifies, SMTT(60)
    <3> QED
      BY <3>15 DEF SettleInv
  <2> QED
    BY <2>4, <2>5
<1>11. CASE UNCHANGED remoteVars
  BY <1>11, QuietSteps DEF remoteVars
<1>12. conduct' = conduct
  BY DEF RemoteNext, remoteVars, NewRepFile, LoadPod, LoadClass, Loaded, DropFile, CollectType, NewSource,
    DropSource, BindMethod, SetProperty, CallMethod, StoreProperty, NotifyNext
<1>13. CASE "converts" \in conduct
  BY <1>12, <1>13 DEF SettleInv
<1> QED
  BY <1>1, <1>2, <1>3, <1>4, <1>5, <1>6, <1>7, <1>8, <1>9, <1>10, <1>11, <1>13 DEF RemoteNext

\* So many setters can run inside each other.
LEMMA SettersAreFew ==
  ASSUME RemoteInv, Nested
  PROVE  Len(setters) <= Cardinality(Sources) + 1
<1> DEFINE n == Len(setters)
<1>1. n \in Nat /\ Cardinality(Sources) \in Nat
  BY LenProperties, FS_CardinalityType DEF RemoteInv
<1> SUFFICES ASSUME n # 0 PROVE n - 1 <= Cardinality(Sources)
  BY <1>1
<1> DEFINE objects == [i \in 1..(n - 1) |-> setters[i].object]
<1>2. \A i \in 1..(n - 1) : i \in 1..n /\ i < n
  BY <1>1
<1>3. \A i \in 1..(n - 1) : Notifies(i) /\ setters[i].object \in Sources
  BY <1>2, ElementOfSeq, SetterFields DEF Nested, RemoteInv
<1>4. \A i, j \in 1..(n - 1) : setters[i].object = setters[j].object => i = j
  BY <1>2, <1>3 DEF Nested
<1>5. objects \in Injection(1..(n - 1), Sources)
  BY <1>3, <1>4 DEF Injection, IsInjective
<1>6. Cardinality(1..(n - 1)) <= Cardinality(Sources)
  BY <1>5, FS_Injection
<1>7. Cardinality(1..(n - 1)) = n - 1
  BY <1>1, FS_Interval
<1> QED
  BY <1>6, <1>7

LEMMA SettleInvariant == RemoteSpec => [](RemoteInv /\ SettleInv)
<1>1. RemoteInit => SettleInv
  <2> SUFFICES ASSUME RemoteInit PROVE Nested /\ Settling
    BY DEF SettleInv
  <2>1. Len(setters) = 0
    BY DEF RemoteInit
  <2>2. Nested
    BY <2>1 DEF Nested
  <2>3. Settling
    BY DEF RemoteInit, Settling, Bound
  <2> QED
    BY <2>2, <2>3
<1>2. RemoteInv /\ SettleInv /\ [RemoteNext]_remoteVars => SettleInv'
  BY SettleStep
<1> QED
  BY <1>1, <1>2, RemoteInvariant, PTL DEF RemoteSpec

\* For every number of sources, bound to each other in any way: setters nest no deeper than
\* sources are many, and when they have returned bound sources agree.
THEOREM BindingsAreSettled == RemoteSpec => []BindingsSettle
<1>1. RemoteInv /\ SettleInv => BindingsSettle
  <2> SUFFICES ASSUME RemoteInv, SettleInv, "converts" \notin conduct
               PROVE  /\ Len(setters) <= Cardinality(Sources) + 1
                      /\ setters = <<>> =>
                           \A o, p \in Sources :
                             <<o, p>> \in bound /\ <<p, o>> \in bound /\ sources[o].alive /\ sources[p].alive
                               /\ ~sources[o].shared /\ ~sources[p].shared => sources[o].value = sources[p].value
    BY DEF BindingsSettle
  <2>1. Len(setters) <= Cardinality(Sources) + 1
    BY SettersAreFew DEF SettleInv
  <2>2. setters = <<>> => \A o, p \in Sources : Bound(o, p) => sources[o].value = sources[p].value
    BY NoSetters
  <2> QED
    BY <2>1, <2>2 DEF Bound
<1> QED
  BY <1>1, SettleInvariant, PTL

-----------------------------------------------------------------------------
(* Properties: hierarchies *)

HIDE RemoteAssumption

Ranked(h, rank, n) ==
  n \in Nat /\ rank \in [DOMAIN h -> 1..n] /\ \A c \in DOMAIN h : \A b \in ToSet(h[c]) : rank[b] < rank[c]

LEMMA HierarchyIs ==
  ASSUME NEW h \in Hierarchies
  PROVE  /\ \E n, rank : Ranked(h, rank, n)
         /\ Root \in DOMAIN h /\ h[Root] = <<>>
         /\ \A c \in DOMAIN h : /\ h[c] \in Seq(DOMAIN h) /\ ToSet(h[c]) \subseteq DOMAIN h
                                /\ ToSet(h[c]) = {h[c][i] : i \in 1..Len(h[c])}
                                /\ c \in QObjectTypes <=> c = Root \/ ToSet(h[c]) \cap QObjectTypes # {}
<1>1. Cardinality(DOMAIN h) \in Nat
  BY HierarchyAssumption, FS_CardinalityType
<1>2. \E n, rank : Ranked(h, rank, n)
  <2>1. PICK rank \in [DOMAIN h -> 1..Cardinality(DOMAIN h)] :
               \A c \in DOMAIN h : \A b \in ToSet(h[c]) : rank[b] < rank[c]
    BY HierarchyAssumption
  <2>2. Ranked(h, rank, Cardinality(DOMAIN h))
    BY <1>1, <2>1 DEF Ranked
  <2> QED
    BY <2>2
<1>3. /\ Root \in DOMAIN h /\ h[Root] = <<>>
      /\ \A c \in DOMAIN h : /\ h[c] \in Seq(DOMAIN h)
                             /\ c \in QObjectTypes <=> c = Root \/ ToSet(h[c]) \cap QObjectTypes # {}
  BY HierarchyAssumption
<1>4. ASSUME NEW c \in DOMAIN h
      PROVE  ToSet(h[c]) \subseteq DOMAIN h /\ ToSet(h[c]) = {h[c][i] : i \in 1..Len(h[c])}
  <2>1. DOMAIN h[c] = 1..Len(h[c]) /\ \A i \in 1..Len(h[c]) : h[c][i] \in DOMAIN h
    BY <1>3, ElementOfSeq, LenProperties
  <2> QED
    BY <2>1 DEF ToSet
<1> QED
  BY <1>2, <1>3, <1>4

\* The search in depth is well defined, as no class is above itself.
LEMMA AboveSteps ==
  ASSUME NEW h \in Hierarchies
  PROVE  \A c \in DOMAIN h : Above[h][c] = <<c>> \o FlattenSeq([i \in 1..Len(h[c]) |-> Above[h][h[c][i]]])
<1> DEFINE C == DOMAIN h
           Up(g, d) == <<d>> \o FlattenSeq([i \in 1..Len(h[d]) |-> g[h[d][i]]])
<1>1. PICK n, rank : Ranked(h, rank, n)
  BY HierarchyIs
<1>2. ASSUME NEW f, NEW g, NEW d \in C, \A b \in ToSet(h[d]) : f[b] = g[b]
      PROVE  Up(f, d) = Up(g, d)
  <2>1. \A i \in 1..Len(h[d]) : f[h[d][i]] = g[h[d][i]]
    BY <1>2, HierarchyIs
  <2>2. [i \in 1..Len(h[d]) |-> f[h[d][i]]] = [i \in 1..Len(h[d]) |-> g[h[d][i]]]
    BY <2>1
  <2> QED
    BY <2>2
<1>3. \A d \in C : h[d] \in Seq(C) /\ ToSet(h[d]) \subseteq C /\ \A i \in 1..Len(h[d]) : h[d][i] \in C
  BY HierarchyIs
<1>4. Above[h] = [c \in C |-> (CHOOSE f : f = [d \in C |-> Up(f, d)])[c]]
  BY DEF Above
<1> HIDE DEF Up
<1> DEFINE K == {k \in Nat : \E g : \A d \in C : rank[d] <= k => g[d] = Up(g, d)}
<1>5. 0 \in K
  <2>1. \A d \in C : ~ (rank[d] <= 0)
    BY <1>1 DEF Ranked
  <2> QED
    BY <2>1
<1>6. ASSUME NEW k \in K PROVE k + 1 \in K
  <2>1. PICK g : \A d \in C : rank[d] <= k => g[d] = Up(g, d)
    BY <1>6
  <2>2. PICK f : f = [d \in C |-> IF rank[d] <= k THEN g[d] ELSE Up(g, d)]
    OBVIOUS
  <2>3. ASSUME NEW d \in C, rank[d] <= k + 1 PROVE f[d] = Up(f, d)
    <3>1. \A b \in ToSet(h[d]) : b \in C /\ rank[b] <= k
      BY <1>1, <1>3, <2>3 DEF Ranked
    <3>2. \A b \in ToSet(h[d]) : f[b] = g[b]
      BY <2>2, <3>1
    <3>3. Up(f, d) = Up(g, d)
      BY <1>2, <3>2
    <3> QED
      BY <2>1, <2>2, <3>3
  <2> QED
    BY <2>3
<1>7. K = Nat
  <2> HIDE DEF K
  <2>1. K \in SUBSET Nat
    BY DEF K
  <2> QED
    BY <1>5, <1>6, <2>1, AllNumbers
<1>8. PICK g : \A d \in C : g[d] = Up(g, d)
  <2>1. n \in Nat /\ \A d \in C : rank[d] <= n
    BY <1>1 DEF Ranked
  <2>2. n \in K
    <3> HIDE DEF K
    <3> QED
      BY <1>7, <2>1
  <2> QED
    BY <2>1, <2>2
<1>9. PICK f : f = [d \in C |-> g[d]]
  OBVIOUS
<1>10. f = [d \in C |-> Up(f, d)]
  <2>1. ASSUME NEW d \in C PROVE f[d] = Up(f, d)
    <3>1. \A b \in ToSet(h[d]) : f[b] = g[b]
      BY <1>3, <1>9
    <3>2. Up(f, d) = Up(g, d)
      BY <1>2, <3>1
    <3> QED
      BY <1>8, <1>9, <3>2
  <2> QED
    BY <1>9, <2>1
<1>11. PICK up : up = CHOOSE x : x = [d \in C |-> Up(x, d)]
  OBVIOUS
<1>12. up = [d \in C |-> Up(up, d)]
  BY <1>10, <1>11
<1>13. \A c \in C : Above[h][c] = up[c] /\ up[c] = Up(up, c)
  <2>1. Above[h] = [c \in C |-> up[c]]
    BY <1>4, <1>11
  <2> QED
    BY <1>12, <2>1
<1>14. ASSUME NEW c \in C PROVE Above[h][c] = Up(Above[h], c)
  <2>1. \A b \in ToSet(h[c]) : Above[h][b] = up[b]
    BY <1>3, <1>13
  <2>2. Up(Above[h], c) = Up(up, c)
    BY <1>2, <2>1
  <2> QED
    BY <1>13, <2>2
<1> QED
  BY <1>14 DEF Up

LEMMA AboveClasses ==
  ASSUME NEW h \in Hierarchies, NEW c \in DOMAIN h
  PROVE  /\ Above[h][c] \in Seq(DOMAIN h)
         /\ c \in ToSet(Above[h][c])
         /\ \A b \in ToSet(h[c]) : ToSet(Above[h][b]) \subseteq ToSet(Above[h][c])
         /\ \A d \in ToSet(Above[h][c]) : d = c \/ \E b \in ToSet(h[c]) : d \in ToSet(Above[h][b])
<1> DEFINE C == DOMAIN h
           A == Above[h]
           parts(d) == [i \in 1..Len(h[d]) |-> A[h[d][i]]]
<1>1. PICK n, rank : Ranked(h, rank, n)
  BY HierarchyIs
<1>2. \A d \in C : A[d] = <<d>> \o FlattenSeq(parts(d))
  BY AboveSteps
<1>3. \A d \in C : /\ h[d] \in Seq(C) /\ ToSet(h[d]) = {h[d][i] : i \in 1..Len(h[d])}
                   /\ Len(h[d]) \in Nat /\ \A i \in 1..Len(h[d]) : h[d][i] \in C
  BY HierarchyIs, ElementOfSeq, LenProperties
<1> HIDE DEF A
<1>4. ASSUME NEW d \in C, \A b \in ToSet(h[d]) : A[b] \in Seq(C)
      PROVE  parts(d) \in Seq(Seq(C)) /\ Len(parts(d)) = Len(h[d])
  <2>1. \A i \in 1..Len(h[d]) : A[h[d][i]] \in Seq(C)
    BY <1>3, <1>4
  <2> QED
    BY <1>3, <2>1, IsASeq, LenProperties
<1> DEFINE K == {k \in Nat : \A d \in C : rank[d] <= k => A[d] \in Seq(C)}
<1>5. 0 \in K
  <2>1. \A d \in C : ~ (rank[d] <= 0)
    BY <1>1 DEF Ranked
  <2> QED
    BY <2>1
<1>6. ASSUME NEW k \in K PROVE k + 1 \in K
  <2>1. ASSUME NEW d \in C, rank[d] <= k + 1 PROVE A[d] \in Seq(C)
    <3>1. \A b \in ToSet(h[d]) : b \in C /\ rank[b] <= k
      <4>1. ToSet(h[d]) \subseteq C
        BY HierarchyIs
      <4> QED
        BY <1>1, <2>1, <4>1 DEF Ranked
    <3>2. parts(d) \in Seq(Seq(C))
      BY <1>4, <1>6, <3>1
    <3>3. FlattenSeq(parts(d)) \in Seq(C)
      <4> HIDE DEF parts
      <4> QED
        BY <3>2, FlattenedIsSequence
    <3>4. <<d>> \in Seq(C)
      OBVIOUS
    <3> QED
      BY <1>2, <3>3, <3>4, ConcatProperties
  <2> QED
    BY <2>1
<1>7. K = Nat
  <2> HIDE DEF K
  <2>1. K \in SUBSET Nat
    BY DEF K
  <2> QED
    BY <1>5, <1>6, <2>1, AllNumbers
<1>8. \A d \in C : A[d] \in Seq(C)
  <2>1. n \in K /\ \A d \in C : rank[d] <= n
    BY <1>1, <1>7 DEF Ranked
  <2> QED
    BY <2>1
<1>9. parts(c) \in Seq(Seq(C)) /\ Len(parts(c)) = Len(h[c])
  <2>1. \A b \in ToSet(h[c]) : b \in C
    BY HierarchyIs
  <2> HIDE DEF parts
  <2> QED
    BY <1>4, <1>8, <2>1
<1>10. ToSet(FlattenSeq(parts(c))) = UNION {ToSet(A[b]) : b \in ToSet(h[c])}
  <2>1. ToSet(FlattenSeq(parts(c))) = UNION {ToSet(parts(c)[i]) : i \in 1..Len(h[c])}
    BY <1>9, FlattenedSet
  <2>2. UNION {ToSet(parts(c)[i]) : i \in 1..Len(h[c])} = UNION {ToSet(A[h[c][i]]) : i \in 1..Len(h[c])}
    OBVIOUS
  <2>3. UNION {ToSet(A[h[c][i]]) : i \in 1..Len(h[c])} = UNION {ToSet(A[b]) : b \in {h[c][i] : i \in 1..Len(h[c])}}
    OBVIOUS
  <2> HIDE DEF parts
  <2> QED
    BY <1>3, <2>1, <2>2, <2>3
<1>11. ToSet(A[c]) = {c} \cup ToSet(FlattenSeq(parts(c)))
  <2>1. FlattenSeq(parts(c)) \in Seq(C)
    <3> HIDE DEF parts
    <3> QED
      BY <1>9, FlattenedIsSequence
  <2>3. PICK t : t = FlattenSeq(parts(c))
    OBVIOUS
  <2>4. A[c] = <<c>> \o t
    BY <1>2, <2>3
  <2>5. t \in Seq(C)
    BY <2>1, <2>3
  <2>6. ToSet(<<c>> \o t) = {c} \cup ToSet(t)
    BY <2>5, HeadSet
  <2> HIDE DEF parts
  <2> QED
    BY <2>3, <2>4, <2>6
<1>12. ToSet(A[c]) = {c} \cup UNION {ToSet(A[b]) : b \in ToSet(h[c])}
  BY <1>10, <1>11
<1> QED
  BY <1>8, <1>12 DEF A

\* A set of classes with the bases of each has all that is above one of them.
LEMMA AboveClosed ==
  ASSUME NEW h \in Hierarchies, NEW D \in SUBSET DOMAIN h, \A d \in D : ToSet(h[d]) \subseteq D, NEW c \in D
  PROVE  ToSet(Above[h][c]) \subseteq D
<1>1. PICK n, rank : Ranked(h, rank, n)
  BY HierarchyIs
<1> DEFINE K == {k \in Nat : \A d \in D : rank[d] <= k => ToSet(Above[h][d]) \subseteq D}
<1>2. 0 \in K
  <2>1. \A d \in D : ~ (rank[d] <= 0)
    BY <1>1 DEF Ranked
  <2> QED
    BY <2>1
<1>3. ASSUME NEW k \in K PROVE k + 1 \in K
  <2>1. ASSUME NEW d \in D, rank[d] <= k + 1, NEW x \in ToSet(Above[h][d]) PROVE x \in D
    <3>1. x = d \/ \E b \in ToSet(h[d]) : x \in ToSet(Above[h][b])
      BY AboveClasses
    <3>2. \A b \in ToSet(h[d]) : b \in D /\ rank[b] <= k
      BY <1>1, <2>1 DEF Ranked
    <3> QED
      BY <1>3, <3>1, <3>2
  <2> QED
    BY <2>1
<1>4. K = Nat
  <2> HIDE DEF K
  <2>1. K \in SUBSET Nat
    BY DEF K
  <2> QED
    BY <1>2, <1>3, <2>1, AllNumbers
<1>5. n \in K /\ rank[c] <= n
  BY <1>1, <1>4 DEF Ranked
<1> QED
  BY <1>5

LEMMA AboveTransitive ==
  ASSUME NEW h \in Hierarchies, NEW c \in DOMAIN h, NEW d \in ToSet(Above[h][c])
  PROVE  d \in DOMAIN h /\ ToSet(Above[h][d]) \subseteq ToSet(Above[h][c])
<1> DEFINE C == DOMAIN h
           Closed(x) == \A y \in ToSet(Above[h][x]) : y \in C /\ ToSet(h[y]) \subseteq ToSet(Above[h][x])
<1>1. PICK n, rank : Ranked(h, rank, n)
  BY HierarchyIs
<1> DEFINE K == {k \in Nat : \A x \in C : rank[x] <= k => Closed(x)}
<1>2. 0 \in K
  <2>1. \A x \in C : ~ (rank[x] <= 0)
    BY <1>1 DEF Ranked
  <2> QED
    BY <2>1
<1>3. ASSUME NEW k \in K PROVE k + 1 \in K
  <2>1. ASSUME NEW x \in C, rank[x] <= k + 1, NEW y \in ToSet(Above[h][x])
        PROVE  y \in C /\ ToSet(h[y]) \subseteq ToSet(Above[h][x])
    <3>1. \A b \in ToSet(h[x]) : b \in C /\ rank[b] <= k /\ b \in ToSet(Above[h][b])
                                 /\ ToSet(Above[h][b]) \subseteq ToSet(Above[h][x])
      <4>1. ToSet(h[x]) \subseteq C
        BY HierarchyIs
      <4>2. \A b \in ToSet(h[x]) : rank[b] <= k
        BY <1>1, <2>1, <4>1 DEF Ranked
      <4> QED
        BY <4>1, <4>2, AboveClasses
    <3>2. CASE y = x
      BY <3>1, <3>2
    <3>3. CASE \E b \in ToSet(h[x]) : y \in ToSet(Above[h][b])
      <4>1. PICK b \in ToSet(h[x]) : y \in ToSet(Above[h][b])
        BY <3>3
      <4>2. Closed(b)
        BY <1>3, <3>1
      <4> QED
        BY <3>1, <4>1, <4>2
    <3> QED
      BY <3>2, <3>3, AboveClasses
  <2> QED
    BY <2>1
<1>4. K = Nat
  <2> HIDE DEF K
  <2>1. K \in SUBSET Nat
    BY DEF K
  <2> QED
    BY <1>2, <1>3, <2>1, AllNumbers
<1>5. Closed(c)
  <2>1. n \in K /\ rank[c] <= n
    BY <1>1, <1>4 DEF Ranked
  <2> QED
    BY <2>1
<1> QED
  BY <1>5, AboveClosed

\* A meta object stands on that of a base that is a QObject.
LEMMA BaseIs ==
  ASSUME NEW h \in Hierarchies, NEW c \in DOMAIN h, ofQObject(c)
  PROVE  FirstQObject(h[c]) \in ToSet(h[c]) \cap QObjectTypes
<1> DEFINE s == h[c]
           I == {i \in 1..Len(s) : s[i] \in QObjectTypes}
<1>1. I # {}
  <2>1. ToSet(s) = {s[i] : i \in 1..Len(s)} /\ ToSet(s) \cap QObjectTypes # {}
    BY HierarchyIs DEF ofQObject
  <2> HIDE DEF s
  <2> QED
    BY <2>1
<1>2. I \in SUBSET Nat
  OBVIOUS
<1>3. PICK m \in I : \A y \in I : m <= y
  BY <1>1, <1>2, LeastNumber
<1>4. SelectInSeq(s, LAMBDA b : b \in QObjectTypes) = Min(I)
  BY <1>1 DEF SelectInSeq
<1>5. Min(I) \in I
  BY <1>3 DEF Min
<1>6. FirstQObject(h[c]) = s[Min(I)]
  BY <1>4 DEF FirstQObject
<1>7. s[Min(I)] \in QObjectTypes /\ Min(I) \in 1..Len(s)
  BY <1>5
<1> HIDE DEF I
<1> QED
  BY <1>6, <1>7, HierarchyIs

LEMMA LineSteps ==
  ASSUME NEW h \in Hierarchies
  PROVE  \A c \in DOMAIN h :
           MetaLines[h][c] = IF ofQObject(c) THEN <<c>> \o MetaLines[h][FirstQObject(h[c])] ELSE <<c>>
<1> DEFINE C == DOMAIN h
           Up(g, d) == IF ofQObject(d) THEN <<d>> \o g[FirstQObject(h[d])] ELSE <<d>>
<1>1. PICK n, rank : Ranked(h, rank, n)
  BY HierarchyIs
<1>2. ASSUME NEW f, NEW g, NEW d \in C, \A b \in ToSet(h[d]) : f[b] = g[b]
      PROVE  Up(f, d) = Up(g, d)
  BY <1>2, BaseIs
<1>3. \A d \in C : ToSet(h[d]) \subseteq C
  BY HierarchyIs
<1>4. MetaLines[h] = [c \in C |-> (CHOOSE f : f = [d \in C |-> Up(f, d)])[c]]
  BY DEF MetaLines
<1> HIDE DEF Up
<1> DEFINE K == {k \in Nat : \E g : \A d \in C : rank[d] <= k => g[d] = Up(g, d)}
<1>5. 0 \in K
  <2>1. \A d \in C : ~ (rank[d] <= 0)
    BY <1>1 DEF Ranked
  <2> QED
    BY <2>1
<1>6. ASSUME NEW k \in K PROVE k + 1 \in K
  <2>1. PICK g : \A d \in C : rank[d] <= k => g[d] = Up(g, d)
    BY <1>6
  <2>2. PICK f : f = [d \in C |-> IF rank[d] <= k THEN g[d] ELSE Up(g, d)]
    OBVIOUS
  <2>3. ASSUME NEW d \in C, rank[d] <= k + 1 PROVE f[d] = Up(f, d)
    <3>1. \A b \in ToSet(h[d]) : b \in C /\ rank[b] <= k
      BY <1>1, <1>3, <2>3 DEF Ranked
    <3>2. \A b \in ToSet(h[d]) : f[b] = g[b]
      BY <2>2, <3>1
    <3>3. Up(f, d) = Up(g, d)
      BY <1>2, <3>2
    <3> QED
      BY <2>1, <2>2, <3>3
  <2> QED
    BY <2>3
<1>7. K = Nat
  <2> HIDE DEF K
  <2>1. K \in SUBSET Nat
    BY DEF K
  <2> QED
    BY <1>5, <1>6, <2>1, AllNumbers
<1>8. PICK g : \A d \in C : g[d] = Up(g, d)
  <2>1. n \in Nat /\ \A d \in C : rank[d] <= n
    BY <1>1 DEF Ranked
  <2>2. n \in K
    <3> HIDE DEF K
    <3> QED
      BY <1>7, <2>1
  <2> QED
    BY <2>1, <2>2
<1>9. PICK f : f = [d \in C |-> g[d]]
  OBVIOUS
<1>10. f = [d \in C |-> Up(f, d)]
  <2>1. ASSUME NEW d \in C PROVE f[d] = Up(f, d)
    <3>1. \A b \in ToSet(h[d]) : f[b] = g[b]
      BY <1>3, <1>9
    <3>2. Up(f, d) = Up(g, d)
      BY <1>2, <3>1
    <3> QED
      BY <1>8, <1>9, <3>2
  <2> QED
    BY <1>9, <2>1
<1>11. PICK up : up = CHOOSE x : x = [d \in C |-> Up(x, d)]
  OBVIOUS
<1>12. up = [d \in C |-> Up(up, d)]
  BY <1>10, <1>11
<1>13. \A c \in C : MetaLines[h][c] = up[c] /\ up[c] = Up(up, c)
  <2>1. MetaLines[h] = [c \in C |-> up[c]]
    BY <1>4, <1>11
  <2> QED
    BY <1>12, <2>1
<1>14. ASSUME NEW c \in C PROVE MetaLines[h][c] = Up(MetaLines[h], c)
  <2>1. \A b \in ToSet(h[c]) : MetaLines[h][b] = up[b]
    BY <1>3, <1>13
  <2>2. Up(MetaLines[h], c) = Up(up, c)
    BY <1>2, <2>1
  <2> QED
    BY <1>13, <2>2
<1> QED
  BY <1>14 DEF Up

LEMMA LineClasses ==
  ASSUME NEW h \in Hierarchies, NEW c \in DOMAIN h
  PROVE  /\ MetaLines[h][c] \in Seq(DOMAIN h)
         /\ ToSet(MetaLines[h][c]) \subseteq ToSet(Above[h][c])
         /\ ToSet(MetaLines[h][c]) = IF ofQObject(c) THEN {c} \cup ToSet(MetaLines[h][FirstQObject(h[c])]) ELSE {c}
         /\ c \in QObjectTypes => ToSet(MetaLines[h][c]) \subseteq QObjectTypes
         /\ \A d \in ToSet(MetaLines[h][c]) : ToSet(MetaLines[h][d]) \subseteq ToSet(MetaLines[h][c])
<1> DEFINE C == DOMAIN h
           L == MetaLines[h]
           base(d) == FirstQObject(h[d])
           Fits(d) ==
             /\ L[d] \in Seq(C)
             /\ ToSet(L[d]) \subseteq ToSet(Above[h][d])
             /\ ToSet(L[d]) = IF ofQObject(d) THEN {d} \cup ToSet(L[base(d)]) ELSE {d}
             /\ d \in QObjectTypes => ToSet(L[d]) \subseteq QObjectTypes
             /\ \A x \in ToSet(L[d]) : ToSet(L[x]) \subseteq ToSet(L[d])
<1>1. PICK n, rank : Ranked(h, rank, n)
  BY HierarchyIs
<1>2. \A d \in C : L[d] = IF ofQObject(d) THEN <<d>> \o L[base(d)] ELSE <<d>>
  BY LineSteps
<1>3. \A d \in C : ofQObject(d) => base(d) \in ToSet(h[d]) \cap C \cap QObjectTypes
  BY BaseIs, HierarchyIs
<1>4. \A d \in C : d \in ToSet(Above[h][d]) /\ \A b \in ToSet(h[d]) : ToSet(Above[h][b]) \subseteq ToSet(Above[h][d])
  BY AboveClasses
<1> HIDE DEF L, base
<1>5. ASSUME NEW d \in C, ofQObject(d) => Fits(base(d)) PROVE Fits(d)
  <2>1. CASE ofQObject(d)
    <3>1. L[base(d)] \in Seq(C) /\ Fits(base(d))
      BY <1>5, <2>1
    <3>2. L[d] \in Seq(C) /\ ToSet(L[d]) = {d} \cup ToSet(L[base(d)])
      <4>1. PICK t : t = L[base(d)]
        OBVIOUS
      <4>2. <<d>> \o t \in Seq(C) /\ ToSet(<<d>> \o t) = {d} \cup ToSet(t)
        BY <3>1, <4>1, HeadSet
      <4>3. L[d] = <<d>> \o t
        BY <1>2, <2>1, <4>1
      <4> QED
        BY <4>1, <4>2, <4>3
    <3>3. d \in QObjectTypes /\ base(d) \in QObjectTypes /\ base(d) \in ToSet(h[d])
      BY <1>3, <2>1 DEF ofQObject
    <3> QED
      BY <1>4, <2>1, <3>1, <3>2, <3>3
  <2>2. CASE ~ofQObject(d)
    <3>1. PICK u : u = <<d>>
      OBVIOUS
    <3>2. u \in Seq(C) /\ ToSet(u) = {d}
      BY <3>1 DEF ToSet
    <3>3. L[d] = u
      BY <1>2, <2>2, <3>1
    <3> QED
      BY <1>4, <2>2, <3>2, <3>3
  <2> QED
    BY <2>1, <2>2
<1> HIDE DEF Fits
<1> DEFINE K == {k \in Nat : \A d \in C : rank[d] <= k => Fits(d)}
<1>6. 0 \in K
  <2>1. \A d \in C : ~ (rank[d] <= 0)
    BY <1>1 DEF Ranked
  <2> QED
    BY <2>1
<1>7. ASSUME NEW k \in K PROVE k + 1 \in K
  <2>1. ASSUME NEW d \in C, rank[d] <= k + 1 PROVE Fits(d)
    <3>1. ofQObject(d) => base(d) \in C /\ rank[base(d)] <= k
      BY <1>1, <1>3, <2>1 DEF Ranked
    <3> QED
      BY <1>5, <1>7, <3>1
  <2> QED
    BY <2>1
<1>8. K = Nat
  <2> HIDE DEF K
  <2>1. K \in SUBSET Nat
    BY DEF K
  <2> QED
    BY <1>6, <1>7, <2>1, AllNumbers
<1>9. Fits(c)
  <2>1. n \in Nat /\ rank[c] <= n
    BY <1>1 DEF Ranked
  <2>2. n \in K
    <3> HIDE DEF K
    <3> QED
      BY <1>8, <2>1
  <2> QED
    BY <2>1, <2>2
<1> QED
  BY <1>9 DEF Fits, L, base

\* What is first in a table is something if there is something.
LEMMA FirstIs ==
  ASSUME NEW S, NEW s \in Seq(S), NEW table, NEW nothing
  PROVE  /\ (\E d \in ToSet(s) : table[d] # nothing)
              => FirstOf(s, table, nothing) # nothing
                 /\ \E d \in ToSet(s) : FirstOf(s, table, nothing) = table[d]
         /\ (\A d \in ToSet(s) : table[d] = nothing) => FirstOf(s, table, nothing) = nothing
<1> DEFINE I == {i \in 1..Len(s) : table[s[i]] # nothing}
           m == SelectInSeq(s, LAMBDA d : table[d] # nothing)
<1>1. m = IF I # {} THEN Min(I) ELSE 0
  BY DEF SelectInSeq
<1>2. FirstOf(s, table, nothing) = IF m = 0 THEN nothing ELSE table[s[m]]
  BY DEF FirstOf
<1>3. DOMAIN s = 1..Len(s)
  BY LenProperties
<1> HIDE DEF m
<1>4. CASE I = {}
  <2>1. \A d \in ToSet(s) : table[d] = nothing
    BY <1>3, <1>4 DEF ToSet
  <2> QED
    BY <1>1, <1>2, <1>4, <2>1
<1>5. CASE I # {}
  <2>1. I \in SUBSET Nat
    OBVIOUS
  <2>2. PICK x \in I : \A y \in I : x <= y
    BY <1>5, <2>1, LeastNumber
  <2>3. Min(I) \in I
    BY <2>2 DEF Min
  <2>4. m \in 1..Len(s) /\ table[s[m]] # nothing
    BY <1>1, <1>5, <2>3
  <2>5. s[m] \in ToSet(s)
    BY <1>3, <2>4 DEF ToSet
  <2>6. FirstOf(s, table, nothing) = table[s[m]]
    BY <1>2, <2>4
  <2> QED
    BY <2>4, <2>5, <2>6
<1> QED
  BY <1>4, <1>5

-----------------------------------------------------------------------------
(* Properties: classes *)

AboveOf(c) == ToSet(Above[bases][c])

LEMMA CheckedIs ==
  ASSUME bases \in Hierarchies, NEW c \in DOMAIN bases
  PROVE  /\ Checked(c) \in Seq(DOMAIN bases)
         /\ ToSet(Checked(c)) = AboveOf(c) \cap ({c} \cup (DOMAIN bases \ QObjectTypes))
         /\ c \in ToSet(Checked(c)) /\ ToSet(Checked(c)) \subseteq AboveOf(c)
<1> DEFINE M == {c} \cup (DOMAIN bases \ QObjectTypes)
<1>1. Mro(c) \in Seq(DOMAIN bases) /\ ToSet(Mro(c)) = AboveOf(c)
  BY MroAssumption DEF Mro, AboveOf
<1>2. Checked(c) = Chosen(Mro(c), M)
  BY DEF Checked
<1>3. M \subseteq DOMAIN bases
  OBVIOUS
<1>4. c \in AboveOf(c)
  BY AboveClasses DEF AboveOf
<1>5. c \in M
  OBVIOUS
<1>6. Checked(c) \in Seq(M) /\ ToSet(Checked(c)) = AboveOf(c) \cap M
  <2> HIDE DEF M
  <2>1. PICK m : m = Mro(c)
    OBVIOUS
  <2>2. m \in Seq(DOMAIN bases)
    BY <1>1, <2>1
  <2>3. Chosen(m, M) \in Seq(M) /\ ToSet(Chosen(m, M)) = ToSet(m) \cap M
    BY <2>2, ChosenAreChosen, ChosenSet
  <2> QED
    BY <1>1, <1>2, <2>1, <2>3
<1>7. Checked(c) \in Seq(DOMAIN bases)
  <2> HIDE DEF M
  <2> QED
    BY <1>3, <1>6, SeqMonotonic
<1> QED
  BY <1>4, <1>5, <1>6, <1>7

LEMMA LineIs ==
  ASSUME bases \in Hierarchies, NEW c \in DOMAIN bases
  PROVE  /\ Line(c) \in Seq(DOMAIN bases) /\ c \in ToSet(Line(c))
         /\ ToSet(Line(c)) \subseteq AboveOf(c) /\ ToSet(Line(c)) \subseteq DOMAIN bases
         /\ c \in QObjectTypes => ToSet(Line(c)) \subseteq QObjectTypes
         /\ ofQObject(c) => /\ BaseOf(c) \in ToSet(bases[c]) /\ BaseOf(c) \in DOMAIN bases
                            /\ BaseOf(c) \in QObjectTypes
                            /\ ToSet(Line(c)) = {c} \cup ToSet(Line(BaseOf(c)))
         /\ ~ofQObject(c) => ToSet(Line(c)) = {c}
         /\ \A d \in ToSet(Line(c)) : /\ ToSet(Line(d)) \subseteq ToSet(Line(c))
                                      /\ AboveOf(d) \subseteq AboveOf(c)
<1>1. /\ Line(c) \in Seq(DOMAIN bases) /\ ToSet(Line(c)) \subseteq AboveOf(c)
      /\ c \in QObjectTypes => ToSet(Line(c)) \subseteq QObjectTypes
      /\ ToSet(Line(c)) = IF ofQObject(c) THEN {c} \cup ToSet(Line(BaseOf(c))) ELSE {c}
      /\ \A d \in ToSet(Line(c)) : ToSet(Line(d)) \subseteq ToSet(Line(c))
  BY LineClasses DEF Line, AboveOf, BaseOf
<1>2. \A d \in AboveOf(c) : d \in DOMAIN bases /\ AboveOf(d) \subseteq AboveOf(c)
  BY AboveTransitive DEF AboveOf
<1>3. ofQObject(c) => BaseOf(c) \in ToSet(bases[c]) /\ BaseOf(c) \in DOMAIN bases /\ BaseOf(c) \in QObjectTypes
  BY BaseIs, HierarchyIs DEF BaseOf
<1> QED
  BY <1>1, <1>2, <1>3

LEMMA RootIs ==
  ASSUME bases \in Hierarchies
  PROVE  Root \in DOMAIN bases /\ AboveOf(Root) = {Root} /\ ToSet(Checked(Root)) = {Root}
<1>1. Root \in DOMAIN bases /\ ToSet(bases[Root]) = {}
  BY HierarchyIs, EmptySeq DEF ToSet
<1>2. AboveOf(Root) = {Root}
  <2>1. /\ Root \in ToSet(Above[bases][Root])
        /\ \A d \in ToSet(Above[bases][Root]) :
             d = Root \/ \E b \in ToSet(bases[Root]) : d \in ToSet(Above[bases][b])
    BY <1>1, AboveClasses
  <2> QED
    BY <1>1, <2>1 DEF AboveOf
<1> QED
  BY <1>1, <1>2, CheckedIs

-----------------------------------------------------------------------------
(* Properties: signals and entries *)

\* Where some class of a line has the signals, one of the line adds them.
LEMMA SomeClassAdds ==
  ASSUME bases \in Hierarchies, NEW S, Root \notin S, NEW c \in DOMAIN bases, c \in QObjectTypes,
         NEW x \in ToSet(Line(c)), ToSet(Checked(x)) \cap S # {}
  PROVE  \E d \in ToSet(Line(c)) : ofQObject(d) /\ Adds(d, S)
<1> DEFINE C == DOMAIN bases
           Has(d) == ToSet(Checked(d)) \cap S # {}
           Added(d) == \E y \in ToSet(Line(d)) : ofQObject(y) /\ Adds(y, S)
           Fits(d) == d \in QObjectTypes /\ (\E y \in ToSet(Line(d)) : Has(y)) => Added(d)
<1>1. PICK n, rank : Ranked(bases, rank, n)
  BY HierarchyIs
<1>2. ASSUME NEW d \in C, ofQObject(d) => Fits(BaseOf(d)) PROVE Fits(d)
  <2> SUFFICES ASSUME d \in QObjectTypes, NEW y \in ToSet(Line(d)), Has(y) PROVE Added(d)
    OBVIOUS
  <2>1. CASE d = Root
    <3>1. y = Root
      BY <2>1, LineIs DEF ofQObject
    <3> QED
      BY <3>1, RootIs
  <2>2. CASE ofQObject(d) /\ \E z \in ToSet(Line(BaseOf(d))) : Has(z)
    <3>1. Added(BaseOf(d)) /\ ToSet(Line(BaseOf(d))) \subseteq ToSet(Line(d))
      BY <1>2, <2>2, LineIs
    <3> QED
      BY <3>1
  <2>3. CASE ofQObject(d) /\ \A z \in ToSet(Line(BaseOf(d))) : ~Has(z)
    <3>1. y = d /\ d \in ToSet(Line(d))
      BY <2>3, LineIs
    <3>2. Adds(d, S)
      BY <2>3, <3>1 DEF Adds
    <3> QED
      BY <2>3, <3>1, <3>2
  <2> QED
    BY <2>1, <2>2, <2>3 DEF ofQObject
<1> HIDE DEF Fits
<1> DEFINE K == {k \in Nat : \A d \in C : rank[d] <= k => Fits(d)}
<1>3. 0 \in K
  <2>1. \A d \in C : ~ (rank[d] <= 0)
    BY <1>1 DEF Ranked
  <2> QED
    BY <2>1
<1>4. ASSUME NEW k \in K PROVE k + 1 \in K
  <2>1. ASSUME NEW d \in C, rank[d] <= k + 1 PROVE Fits(d)
    <3>1. ofQObject(d) => BaseOf(d) \in C /\ rank[BaseOf(d)] <= k
      <4>1. ofQObject(d) => BaseOf(d) \in C /\ BaseOf(d) \in ToSet(bases[d])
        BY LineIs
      <4> QED
        BY <1>1, <2>1, <4>1 DEF Ranked
    <3> QED
      BY <1>2, <1>4, <3>1
  <2> QED
    BY <2>1
<1>5. K = Nat
  <2> HIDE DEF K
  <2>1. K \in SUBSET Nat
    BY DEF K
  <2> QED
    BY <1>3, <1>4, <2>1, AllNumbers
<1>6. Fits(c)
  <2>1. n \in Nat /\ rank[c] <= n
    BY <1>1 DEF Ranked
  <2>2. n \in K
    <3> HIDE DEF K
    <3> QED
      BY <1>5, <2>1
  <2> QED
    BY <2>1, <2>2
<1> QED
  BY <1>6 DEF Fits

LEMMA CountIs ==
  ASSUME bases \in Hierarchies, NEW c \in DOMAIN bases, NEW S
  PROVE  /\ MethodCount(c, S) \in Nat /\ MethodCount(c, S) >= RootMethods
         /\ (\E d \in ToSet(Line(c)) : ofQObject(d) /\ Adds(d, S)) => MethodCount(c, S) > RootMethods
<1> DEFINE A == {d \in ToSet(Line(c)) : ofQObject(d) /\ Adds(d, S)}
<1>1. IsFiniteSet(ToSet(Line(c)))
  <2>1. ToSet(Line(c)) \subseteq DOMAIN bases /\ IsFiniteSet(DOMAIN bases)
    BY LineIs, HierarchyAssumption
  <2> QED
    BY <2>1, FS_Subset
<1>2. IsFiniteSet(A)
  BY <1>1, FS_Subset
<1>3. MethodCount(c, S) = RootMethods + Cardinality(A)
  BY DEF MethodCount
<1> HIDE DEF A
<1>4. Cardinality(A) \in Nat /\ (A # {} => Cardinality(A) # 0)
  BY <1>2, FS_CardinalityType, FS_EmptySet
<1>5. /\ MethodCount(c, S) \in Nat /\ MethodCount(c, S) >= RootMethods
      /\ A # {} => MethodCount(c, S) > RootMethods
  BY <1>3, <1>4 DEF RootMethods
<1> QED
  BY <1>5 DEF A

\* What is counted for a class depends on signals above it.
LEMMA CountStays ==
  ASSUME bases \in Hierarchies, NEW c \in DOMAIN bases, NEW S, NEW T, S \cap AboveOf(c) = T \cap AboveOf(c)
  PROVE  MethodCount(c, S) = MethodCount(c, T)
<1>1. ASSUME NEW d \in ToSet(Line(c)) PROVE ToSet(Checked(d)) \cap S = ToSet(Checked(d)) \cap T
  <2>1. d \in DOMAIN bases /\ AboveOf(d) \subseteq AboveOf(c)
    BY LineIs
  <2>2. ToSet(Checked(d)) \subseteq AboveOf(c)
    BY <2>1, CheckedIs
  <2> QED
    BY <2>2
<1>2. ASSUME NEW d \in ToSet(Line(c)), ofQObject(d) PROVE Adds(d, S) <=> Adds(d, T)
  <2>1. d \in DOMAIN bases /\ ToSet(Line(d)) \subseteq ToSet(Line(c))
    BY LineIs
  <2>2. ToSet(Line(BaseOf(d))) \subseteq ToSet(Line(c))
    BY <1>2, <2>1, LineIs
  <2> QED
    BY <1>1, <2>2 DEF Adds
<1>3. {d \in ToSet(Line(c)) : ofQObject(d) /\ Adds(d, S)} = {d \in ToSet(Line(c)) : ofQObject(d) /\ Adds(d, T)}
  BY <1>2
<1> QED
  BY <1>3 DEF MethodCount

LEMMA EntryStays ==
  ASSUME bases \in Hierarchies, NEW c \in DOMAIN bases, ofQObject(c), NEW S, NEW T,
         S \cap AboveOf(c) = T \cap AboveOf(c), NEW p
  PROVE  EntryFor(c, p, S) = EntryFor(c, p, T)
<1>1. BaseOf(c) \in DOMAIN bases /\ AboveOf(BaseOf(c)) \subseteq AboveOf(c)
  BY LineIs, AboveClasses DEF AboveOf
<1>2. MethodCount(c, S) = MethodCount(c, T)
  BY CountStays
<1>3. MethodCount(BaseOf(c), S) = MethodCount(BaseOf(c), T)
  <2>1. S \cap AboveOf(BaseOf(c)) = T \cap AboveOf(BaseOf(c))
    BY <1>1
  <2> QED
    BY <1>1, <2>1, CountStays
<1> QED
  BY <1>2, <1>3 DEF EntryFor, NotifyId

LEMMA EntryIs ==
  ASSUME bases \in Hierarchies, NEW c \in DOMAIN bases, ofQObject(c), NEW S, NEW p
  PROVE  EntryFor(c, p, S) \in MetaProperty /\ EntryFor(c, p, S) # NoEntry
<1>1. MethodCount(BaseOf(c), S) \in Nat /\ MethodCount(BaseOf(c), S) >= RootMethods
  BY LineIs, CountIs
<1>2. NotifyId(c, S) \in Int /\ NotifyId(c, S) <= 0
  BY <1>1 DEF NotifyId, SignalIndex, RootMethods
<1>3. EntryFor(c, p, S).notify \in Int /\ EntryFor(c, p, S).notify <= 0
  BY <1>2 DEF EntryFor, Silent
<1>4. NoEntry.notify = 99
  BY DEF NoEntry
<1>5. EntryFor(c, p, S) # NoEntry
  BY <1>3, <1>4
<1>6. EntryFor(c, p, S) \in MetaProperty
  BY <1>3 DEF EntryFor, MetaProperty
<1> QED
  BY <1>5, <1>6

-----------------------------------------------------------------------------
(* Properties: the invariant *)

Declares(c) == dict[c] # 0

\* Classes are defined after their bases; what is not defined has nothing.
ClassesSound ==
  /\ Root \in defined \ signalled /\ dict[Root] = 0
  /\ \A c \in defined : ToSet(bases[c]) \subseteq defined
  /\ \A c \in DOMAIN bases \ defined : ~Declares(c) /\ metaProperty[c] = NoEntry

OneDeclares ==
  "redeclares" \notin manner => \A c, d \in DOMAIN bases : Declares(c) /\ Declares(d) => c = d

SignalsNear ==
  "inherits" \notin manner =>
    \A c \in DOMAIN bases : Declares(c) /\ properties[dict[c]].notify => c \in signalled

\* An entry is of a property that the class or a mixin declares, with the signals of today;
\* and a class with such a property has an entry, which may be a base's.
EntriesSound ==
  manner = {} => \A c \in defined :
    /\ metaProperty[c] # NoEntry =>
         ofQObject(c) /\ \E d \in ToSet(Checked(c)) :
           Declares(d) /\ metaProperty[c] = EntryFor(c, properties[dict[d]], signalled)
    /\ ofQObject(c) /\ (\E d \in ToSet(Checked(c)) : Declares(d)) => EntryOf(c) # NoEntry

PropertyInv == PropertyTypeOK /\ ClassesSound /\ OneDeclares /\ SignalsNear /\ EntriesSound

LEMMA DefinedAbove ==
  ASSUME PropertyTypeOK, ClassesSound, NEW c \in defined
  PROVE  AboveOf(c) \subseteq defined
BY AboveClosed DEF PropertyTypeOK, ClassesSound, AboveOf

LEMMA PropertyInvInit == PropertyInit => PropertyInv
<1> SUFFICES ASSUME PropertyInit PROVE PropertyInv
  OBVIOUS
<1>1. /\ manner \in PropertyPrograms /\ bases \in Hierarchies /\ properties = <<>> /\ signalled = {}
      /\ dict = [c \in DOMAIN bases |-> 0] /\ metaProperty = [c \in DOMAIN bases |-> NoEntry]
      /\ defined = {Root}
  BY DEF PropertyInit
<1>2. Root \in DOMAIN bases /\ ToSet(bases[Root]) = {}
  BY <1>1, HierarchyIs, EmptySeq DEF ToSet
<1>3. NoEntry \in MetaProperty
  BY DEF NoEntry, MetaProperty
<1>4. Len(properties) = 0 /\ properties \in Seq(PropertyObject) /\ MaxProperties \in Nat
  BY <1>1, EmptySeq, PropertyAssumption
<1>5. PropertyTypeOK
  BY <1>1, <1>2, <1>3, <1>4 DEF PropertyTypeOK
<1>6. ClassesSound
  BY <1>1, <1>2 DEF ClassesSound, Declares
<1>7. OneDeclares /\ SignalsNear
  BY <1>1 DEF OneDeclares, SignalsNear, Declares
<1>8. EntriesSound
  BY <1>1, <1>2 DEF EntriesSound, ofQObject
<1> QED
  BY <1>5, <1>6, <1>7, <1>8 DEF PropertyInv

\* The hierarchy does not change.
LEMMA HierarchyStays ==
  ASSUME bases' = bases
  PROVE  EntriesSound' <=>
           (manner' = {} => \A c \in defined' :
              /\ metaProperty'[c] # NoEntry =>
                   ofQObject(c) /\ \E d \in ToSet(Checked(c)) :
                     dict'[d] # 0 /\ metaProperty'[c] = EntryFor(c, properties'[dict'[d]], signalled')
              /\ ofQObject(c) /\ (\E d \in ToSet(Checked(c)) : dict'[d] # 0)
                   => FirstOf(Line(c), metaProperty', NoEntry) # NoEntry)
<1>1. \A c : Checked(c)' = Checked(c) /\ Line(c)' = Line(c) /\ BaseOf(c)' = BaseOf(c)
  BY DEF Checked, Mro, Line, BaseOf
<1> QED
  BY <1>1 DEF EntriesSound, EntryFor, EntryOf, MethodCount, NotifyId, Adds, Declares

LEMMA CopiedIs ==
  ASSUME NEW p \in PropertyObject, NEW role \in {"fset", "freset"}
  PROVE  Copied(p, role) \in PropertyObject
<1>1. DOMAIN p = {"fget", "fset", "freset", "fdel", "notify", "constant"}
  BY DEF PropertyObject
<1>2. /\ p.fget \in Accessor /\ p.fset \in Accessor /\ p.freset \in Accessor /\ p.fdel \in Accessor
      /\ p.notify \in BOOLEAN /\ p.constant \in BOOLEAN
  BY DEF PropertyObject
<1>3. /\ "function" \in Accessor /\ "None" \in Accessor
  BY DEF Accessor
<1> QED
  BY <1>1, <1>2, <1>3 DEF Copied, PropertyObject, Roles

LEMMA NewPropertyStep ==
  ASSUME PropertyInv, NEW p \in PropertyObject, NewProperty(p)
  PROVE  PropertyInv'
<1>1. /\ Len(properties) < MaxProperties /\ properties' = Append(properties, p)
      /\ manner' = manner /\ bases' = bases /\ dict' = dict /\ signalled' = signalled
      /\ metaProperty' = metaProperty /\ defined' = defined
  BY DEF NewProperty
<1>2. PropertyTypeOK /\ ClassesSound /\ OneDeclares /\ SignalsNear /\ EntriesSound
  BY DEF PropertyInv
<1>3. /\ properties \in Seq(PropertyObject) /\ Len(properties) \in Nat
      /\ dict \in [DOMAIN bases -> 0..Len(properties)] /\ MaxProperties \in Nat
  BY <1>2, PropertyAssumption, LenProperties DEF PropertyTypeOK
<1>4. /\ properties' \in Seq(PropertyObject) /\ Len(properties') = Len(properties) + 1
      /\ \A i \in 1..Len(properties) : properties'[i] = properties[i]
  BY <1>1, <1>3, StackPush
<1>5. \A c \in DOMAIN bases : Declares(c) => dict[c] \in 1..Len(properties) /\ properties'[dict[c]] = properties[dict[c]]
  BY <1>3, <1>4 DEF Declares
<1>6. PropertyTypeOK'
  <2>1. dict \in [DOMAIN bases -> 0..Len(properties')] /\ Len(properties') <= MaxProperties
    BY <1>1, <1>3, <1>4
  <2> QED
    BY <1>1, <1>2, <1>4, <2>1 DEF PropertyTypeOK
<1>7. ClassesSound' /\ OneDeclares'
  BY <1>1, <1>2 DEF ClassesSound, OneDeclares, Declares
<1>8. SignalsNear'
  BY <1>1, <1>2, <1>5 DEF SignalsNear, Declares
<1>9. EntriesSound'
  <2> SUFFICES ASSUME manner = {}, NEW c \in defined
               PROVE  /\ metaProperty[c] # NoEntry =>
                           ofQObject(c) /\ \E d \in ToSet(Checked(c)) :
                             Declares(d) /\ metaProperty[c] = EntryFor(c, properties'[dict[d]], signalled)
                      /\ ofQObject(c) /\ (\E d \in ToSet(Checked(c)) : Declares(d)) => EntryOf(c) # NoEntry
    BY <1>1, HierarchyStays DEF EntryOf, Declares
  <2>1. c \in DOMAIN bases /\ bases \in Hierarchies
    BY <1>2 DEF PropertyTypeOK
  <2>2. \A d \in ToSet(Checked(c)) : d \in DOMAIN bases
    BY <2>1, CheckedIs, AboveTransitive DEF AboveOf
  <2>3. \A d \in ToSet(Checked(c)) : Declares(d) => properties'[dict[d]] = properties[dict[d]]
    BY <1>5, <2>2
  <2> QED
    BY <1>2, <2>3 DEF EntriesSound
<1> QED
  BY <1>6, <1>7, <1>8, <1>9 DEF PropertyInv

\* The class that is defined, and what becomes of the other classes
LEMMA DefineClassStep ==
  ASSUME PropertyInv, NEW k \in DOMAIN bases, NEW i \in 0..Len(properties), NEW s \in BOOLEAN, DefineClass(k, i, s)
  PROVE  PropertyInv'
<1> DEFINE found == FirstOf(Checked(k), dict', 0)
           Parses == ofQObject(k) /\ found # 0 /\ EntryOf(BaseOf(k)) = NoEntry
<1>1. /\ k \notin defined /\ ToSet(bases[k]) \subseteq defined
      /\ i # 0 /\ "redeclares" \notin manner => \A d \in defined : dict[d] = 0
      /\ ("inherits" \notin manner /\ i # 0 /\ properties[i].notify) => s
      /\ dict' = [dict EXCEPT ![k] = i]
      /\ signalled' = IF s THEN signalled \cup {k} ELSE signalled
      /\ defined' = defined \cup {k}
      /\ metaProperty' = IF Parses THEN [metaProperty EXCEPT ![k] = EntryFor(k, properties[found], signalled')]
                         ELSE metaProperty
      /\ manner' = manner /\ bases' = bases /\ properties' = properties
  BY DEF DefineClass
<1>2. PropertyTypeOK /\ ClassesSound /\ OneDeclares /\ SignalsNear /\ EntriesSound
  BY DEF PropertyInv
<1>3. /\ bases \in Hierarchies /\ properties \in Seq(PropertyObject) /\ Len(properties) \in Nat
      /\ dict \in [DOMAIN bases -> 0..Len(properties)] /\ signalled \subseteq defined
      /\ defined \subseteq DOMAIN bases /\ metaProperty \in [DOMAIN bases -> MetaProperty]
      /\ dict' \in [DOMAIN bases -> 0..Len(properties)] /\ dict'[k] = i
      /\ \A c \in DOMAIN bases : c # k => dict'[c] = dict[c]
  BY <1>1, <1>2, LenProperties DEF PropertyTypeOK
<1>4. ofQObject(k) => EntryFor(k, properties[found], signalled') \in MetaProperty
                      /\ EntryFor(k, properties[found], signalled') # NoEntry
  BY <1>3, EntryIs
<1>5. /\ metaProperty' \in [DOMAIN bases -> MetaProperty]
      /\ \A c \in DOMAIN bases : c # k => metaProperty'[c] = metaProperty[c]
      /\ metaProperty'[k] = IF Parses THEN EntryFor(k, properties[found], signalled') ELSE NoEntry
  <2>1. metaProperty[k] = NoEntry
    BY <1>1, <1>2 DEF ClassesSound
  <2> HIDE DEF found
  <2> QED
    BY <1>1, <1>3, <1>4, <2>1
<1>6. Checked(k) \in Seq(DOMAIN bases) /\ ToSet(Checked(k)) \subseteq DOMAIN bases
      /\ k \in ToSet(Checked(k))
  BY <1>3, CheckedIs, AboveTransitive DEF AboveOf
<1>7. /\ (\E d \in ToSet(Checked(k)) : dict'[d] # 0) => found # 0
      /\ found # 0 => \E d \in ToSet(Checked(k)) : dict'[d] # 0 /\ found = dict'[d]
  BY <1>6, FirstIs
<1> HIDE DEF found
<1>8. PropertyTypeOK'
  <2>1. signalled' \subseteq defined' /\ defined' \subseteq DOMAIN bases
    BY <1>1, <1>3
  <2> QED
    BY <1>1, <1>2, <1>3, <1>5, <2>1 DEF PropertyTypeOK
<1>9. ClassesSound'
  <2>1. Root \in defined \ signalled /\ Root # k /\ dict[Root] = 0 /\ Root \in DOMAIN bases
    BY <1>1, <1>2, <1>3 DEF ClassesSound
  <2>2. Root \in defined' \ signalled' /\ dict'[Root] = 0
    BY <1>1, <1>3, <2>1
  <2>3. \A c \in defined' : ToSet(bases[c]) \subseteq defined'
    BY <1>1, <1>2 DEF ClassesSound
  <2>4. \A c \in DOMAIN bases \ defined' : dict'[c] = 0 /\ metaProperty'[c] = NoEntry
    BY <1>1, <1>2, <1>3, <1>5 DEF ClassesSound, Declares
  <2> QED
    BY <1>1, <2>2, <2>3, <2>4 DEF ClassesSound, Declares
<1>10. OneDeclares'
  <2> SUFFICES ASSUME "redeclares" \notin manner, NEW c \in DOMAIN bases, NEW d \in DOMAIN bases,
                      dict'[c] # 0, dict'[d] # 0
               PROVE  c = d
    BY <1>1 DEF OneDeclares, Declares
  <2>1. CASE i # 0
    <3>1. \A x \in DOMAIN bases : dict[x] = 0
      BY <1>1, <1>2, <2>1 DEF ClassesSound, Declares
    <3> QED
      BY <1>3, <3>1
  <2>2. CASE i = 0
    BY <1>2, <1>3, <2>2 DEF OneDeclares, Declares
  <2> QED
    BY <2>1, <2>2
<1>11. SignalsNear'
  <2> SUFFICES ASSUME "inherits" \notin manner, NEW c \in DOMAIN bases, dict'[c] # 0, properties[dict'[c]].notify
               PROVE  c \in signalled'
    BY <1>1 DEF SignalsNear, Declares
  <2>1. CASE c = k
    BY <1>1, <1>3, <2>1
  <2>2. CASE c # k
    <3>1. c \in signalled
      BY <1>2, <1>3, <2>2 DEF SignalsNear, Declares
    <3> QED
      BY <1>1, <3>1
  <2> QED
    BY <2>1, <2>2
<1>12. EntriesSound'
  <2> SUFFICES ASSUME manner = {}, NEW c \in defined'
               PROVE  /\ metaProperty'[c] # NoEntry =>
                           ofQObject(c) /\ \E d \in ToSet(Checked(c)) :
                             dict'[d] # 0 /\ metaProperty'[c] = EntryFor(c, properties[dict'[d]], signalled')
                      /\ ofQObject(c) /\ (\E d \in ToSet(Checked(c)) : dict'[d] # 0)
                           => FirstOf(Line(c), metaProperty', NoEntry) # NoEntry
    BY <1>1, HierarchyStays
  <2>1. c \in DOMAIN bases /\ Line(c) \in Seq(DOMAIN bases) /\ ToSet(Line(c)) \subseteq DOMAIN bases
        /\ ToSet(Line(c)) \subseteq AboveOf(c) /\ c \in ToSet(Line(c))
    BY <1>1, <1>3, LineIs
  <2>2. (\E x \in ToSet(Line(c)) : metaProperty'[x] # NoEntry) => FirstOf(Line(c), metaProperty', NoEntry) # NoEntry
    BY <2>1, FirstIs
  <2>3. \A x : EntryOf(x) = FirstOf(Line(x), metaProperty, NoEntry)
    BY DEF EntryOf
  <2>4. CASE c # k
    <3>1. c \in defined /\ AboveOf(c) \subseteq defined /\ k \notin AboveOf(c)
      BY <1>1, <1>2, <2>4, DefinedAbove
    <3>2. ToSet(Checked(c)) \subseteq AboveOf(c)
      BY <1>3, <2>1, CheckedIs
    <3>3. \A d \in ToSet(Checked(c)) : dict'[d] = dict[d]
      BY <1>3, <3>1, <3>2
    <3>4. ofQObject(c) => \A p : EntryFor(c, p, signalled') = EntryFor(c, p, signalled)
      <4>1. signalled' \cap AboveOf(c) = signalled \cap AboveOf(c)
        BY <1>1, <3>1
      <4>2. PICK S : S = signalled'
        OBVIOUS
      <4>3. ofQObject(c) => \A p : EntryFor(c, p, S) = EntryFor(c, p, signalled)
        BY <1>3, <2>1, <4>1, <4>2, EntryStays
      <4> QED
        BY <4>2, <4>3
    <3>5. \A x \in ToSet(Line(c)) : metaProperty'[x] = metaProperty[x]
      BY <1>5, <2>1, <3>1
    <3>6. EntryOf(c) # NoEntry => \E x \in ToSet(Line(c)) : metaProperty[x] # NoEntry
      BY <2>1, <2>3, FirstIs
    <3>7. /\ metaProperty[c] # NoEntry =>
               ofQObject(c) /\ \E d \in ToSet(Checked(c)) :
                 dict[d] # 0 /\ metaProperty[c] = EntryFor(c, properties[dict[d]], signalled)
          /\ ofQObject(c) /\ (\E d \in ToSet(Checked(c)) : dict[d] # 0) => EntryOf(c) # NoEntry
      BY <1>2, <3>1 DEF EntriesSound, Declares
    <3> QED
      BY <2>1, <2>2, <3>3, <3>4, <3>5, <3>6, <3>7
  <2>5. CASE c = k
    <3>1. metaProperty'[k] # NoEntry =>
            ofQObject(k) /\ \E d \in ToSet(Checked(k)) :
              dict'[d] # 0 /\ metaProperty'[k] = EntryFor(k, properties[dict'[d]], signalled')
      BY <1>5, <1>7
    <3>2. ASSUME ofQObject(k), \E d \in ToSet(Checked(k)) : dict'[d] # 0
          PROVE  \E x \in ToSet(Line(k)) : metaProperty'[x] # NoEntry
      <4>1. found # 0
        BY <1>7, <3>2
      <4>2. CASE EntryOf(BaseOf(k)) = NoEntry
        BY <1>4, <1>5, <2>1, <2>5, <3>2, <4>1, <4>2
      <4>3. CASE EntryOf(BaseOf(k)) # NoEntry
        <5>1. BaseOf(k) \in DOMAIN bases /\ ToSet(Line(BaseOf(k))) \subseteq ToSet(Line(k))
          BY <1>3, <3>2, LineIs
        <5>2. PICK x \in ToSet(Line(BaseOf(k))) : metaProperty[x] # NoEntry
          <6>1. Line(BaseOf(k)) \in Seq(DOMAIN bases)
            BY <1>3, <5>1, LineIs
          <6> QED
            BY <2>3, <4>3, <6>1, FirstIs
        <5>3. x # k /\ x \in DOMAIN bases
          BY <1>1, <1>2, <2>1, <2>5, <5>1, <5>2 DEF ClassesSound
        <5> QED
          BY <1>5, <5>1, <5>2, <5>3
      <4> QED
        BY <4>2, <4>3
    <3> QED
      BY <2>2, <2>5, <3>1, <3>2
  <2> QED
    BY <2>4, <2>5
<1> QED
  BY <1>8, <1>9, <1>10, <1>11, <1>12 DEF PropertyInv

LEMMA PropertyInvStep == PropertyInv /\ [PropertyNext]_propertyVars => PropertyInv'
<1> SUFFICES ASSUME PropertyInv, [PropertyNext]_propertyVars PROVE PropertyInv'
  OBVIOUS
<1>1. ASSUME NEW p \in Offered, NewProperty(p) PROVE PropertyInv'
  BY <1>1, NewPropertyStep, OfferedAssumption
<1>2. ASSUME NEW i \in 1..Len(properties), NEW role \in {"fset", "freset"}, Decorate(i, role) PROVE PropertyInv'
  <2>1. properties[i] \in PropertyObject
    BY ElementOfSeq DEF PropertyInv, PropertyTypeOK
  <2> QED
    BY <1>2, <2>1, CopiedIs, NewPropertyStep DEF Decorate
<1>3. ASSUME NEW c \in DOMAIN bases, NEW i \in 0..Len(properties), NEW s \in BOOLEAN, DefineClass(c, i, s)
      PROVE  PropertyInv'
  BY <1>3, DefineClassStep
<1>4. CASE UNCHANGED propertyVars
  <2>1. /\ manner' = manner /\ bases' = bases /\ properties' = properties /\ dict' = dict
        /\ signalled' = signalled /\ metaProperty' = metaProperty /\ defined' = defined
    BY <1>4 DEF propertyVars
  <2>2. PropertyTypeOK' /\ ClassesSound' /\ OneDeclares' /\ SignalsNear'
    BY <2>1 DEF PropertyInv, PropertyTypeOK, ClassesSound, OneDeclares, SignalsNear, Declares
  <2>3. EntriesSound'
    <3>1. manner = {} => \A c \in defined :
            /\ metaProperty[c] # NoEntry =>
                 ofQObject(c) /\ \E d \in ToSet(Checked(c)) :
                   dict[d] # 0 /\ metaProperty[c] = EntryFor(c, properties[dict[d]], signalled)
            /\ ofQObject(c) /\ (\E d \in ToSet(Checked(c)) : dict[d] # 0)
                 => FirstOf(Line(c), metaProperty, NoEntry) # NoEntry
      BY DEF PropertyInv, EntriesSound, Declares, EntryOf
    <3> QED
      BY <2>1, <3>1, HierarchyStays
  <2> QED
    BY <2>2, <2>3 DEF PropertyInv
<1> QED
  BY <1>1, <1>2, <1>3, <1>4 DEF PropertyNext

-----------------------------------------------------------------------------
(* Properties: what Qt and Python find *)

LEMMA FindIs ==
  ASSUME PropertyTypeOK, NEW c \in DOMAIN bases
  PROVE  /\ Above[bases][c] \in Seq(DOMAIN bases) /\ Mro(c) \in Seq(DOMAIN bases)
         /\ ToSet(Mro(c)) = AboveOf(c) /\ AboveOf(c) \subseteq DOMAIN bases
         /\ IsInjective(Above[bases][c]) => Mro(c) = Above[bases][c]
         /\ (\E d \in AboveOf(c) : Declares(d)) =>
              (\E d \in AboveOf(c) : Declares(d) /\ getFromType(c) = dict[d])
              /\ (\E d \in AboveOf(c) : Declares(d) /\ Attribute(c) = dict[d])
         /\ (\A d \in AboveOf(c) : ~Declares(d)) => getFromType(c) = 0 /\ Attribute(c) = 0
<1>1. bases \in Hierarchies
  BY DEF PropertyTypeOK
<1>2. /\ Above[bases][c] \in Seq(DOMAIN bases) /\ Mro(c) \in Seq(DOMAIN bases)
      /\ ToSet(Mro(c)) = AboveOf(c) /\ AboveOf(c) \subseteq DOMAIN bases
      /\ IsInjective(Above[bases][c]) => Mro(c) = Above[bases][c]
  BY <1>1, MroAssumption, AboveClasses, AboveTransitive DEF Mro, AboveOf
<1>3. /\ (\E d \in AboveOf(c) : dict[d] # 0) => getFromType(c) # 0 /\ \E d \in AboveOf(c) : getFromType(c) = dict[d]
      /\ (\A d \in AboveOf(c) : dict[d] = 0) => getFromType(c) = 0
  BY <1>2, FirstIs DEF getFromType, AboveOf
<1>4. /\ (\E d \in ToSet(Mro(c)) : dict[d] # 0) => Attribute(c) # 0 /\ \E d \in ToSet(Mro(c)) : Attribute(c) = dict[d]
      /\ (\A d \in ToSet(Mro(c)) : dict[d] = 0) => Attribute(c) = 0
  BY <1>2, FirstIs DEF Attribute
<1> QED
  BY <1>2, <1>3, <1>4 DEF Declares

LEMMA ReadAndWriteAgree == PropertyInv => ReadAndWriteMeet
<1> SUFFICES ASSUME PropertyInv, NEW c \in defined,
                    IsInjective(Above[bases][c]) \/ "redeclares" \notin manner
             PROVE  getFromType(c) = Attribute(c)
  BY DEF ReadAndWriteMeet
<1>1. PropertyTypeOK /\ OneDeclares /\ c \in DOMAIN bases
  BY DEF PropertyInv, PropertyTypeOK
<1>2. CASE IsInjective(Above[bases][c])
  BY <1>1, <1>2, FindIs DEF getFromType, Attribute
<1>3. CASE "redeclares" \notin manner
  <2>1. AboveOf(c) \subseteq DOMAIN bases
    BY <1>1, FindIs
  <2>2. \A d, e \in AboveOf(c) : Declares(d) /\ Declares(e) => d = e
    BY <1>1, <1>3, <2>1 DEF OneDeclares
  <2> QED
    BY <1>1, <2>2, FindIs
<1> QED
  BY <1>2, <1>3

LEMMA EntriesAreTrue == PropertyInv => MetaPropertyTruthful
<1> SUFFICES ASSUME PropertyInv, manner = {}, NEW c \in defined, ofQObject(c),
                    NEW b \in ToSet(Line(c)), NEW d0 \in ToSet(Checked(b)), Declares(d0)
             PROVE  LET e == EntryOf(c)  i == getFromType(c) IN
                    /\ properties[i].fset = "function" => e.writable
                    /\ properties[i].fset = "null" => ~e.writable
                    /\ properties[i].freset = "function" => e.resettable
                    /\ properties[i].notify =>
                         \E d \in ToSet(Line(c)) : metaProperty[d] = e /\ MethodCount(BaseOf(d), signalled) + e.notify = SignalIndex
  BY DEF MetaPropertyTruthful, Declares
<1>1. /\ PropertyTypeOK /\ ClassesSound /\ OneDeclares /\ SignalsNear /\ EntriesSound
      /\ c \in DOMAIN bases /\ bases \in Hierarchies
  BY DEF PropertyInv, PropertyTypeOK
<1>2. AboveOf(c) \subseteq defined
  BY <1>1, DefinedAbove
<1>3. /\ Line(c) \in Seq(DOMAIN bases) /\ ToSet(Line(c)) \subseteq AboveOf(c) /\ ToSet(Line(c)) \subseteq DOMAIN bases
      /\ ToSet(Line(c)) \subseteq QObjectTypes
      /\ \A d \in ToSet(Line(c)) : ToSet(Line(d)) \subseteq ToSet(Line(c)) /\ AboveOf(d) \subseteq AboveOf(c)
  BY <1>1, LineIs DEF ofQObject
<1>4. \A d \in ToSet(Line(c)) : ToSet(Checked(d)) \subseteq AboveOf(c) /\ ToSet(Checked(d)) \subseteq DOMAIN bases
  <2>1. AboveOf(c) \subseteq DOMAIN bases
    BY <1>1, FindIs
  <2> QED
    BY <1>1, <1>3, <2>1, CheckedIs
<1>5. \A d \in DOMAIN bases : Declares(d) => d = d0
  BY <1>1, <1>4 DEF OneDeclares
<1>6. getFromType(c) = dict[d0]
  <2>1. d0 \in AboveOf(c)
    BY <1>4
  <2>2. \E d \in AboveOf(c) : Declares(d) /\ getFromType(c) = dict[d]
    BY <1>1, <2>1, FindIs
  <2> QED
    BY <1>1, <1>5, <2>2, FindIs
<1>7. ofQObject(b) /\ b \in defined /\ b \in DOMAIN bases
  <2>1. b # Root
    BY <1>1, RootIs DEF ClassesSound, Declares
  <2> QED
    BY <1>2, <1>3, <2>1 DEF ofQObject
<1>8. PICK x \in ToSet(Line(c)) : metaProperty[x] # NoEntry /\ EntryOf(c) = metaProperty[x]
  <2>1. EntryOf(b) # NoEntry
    BY <1>1, <1>7 DEF EntriesSound
  <2>2. Line(b) \in Seq(DOMAIN bases)
    BY <1>1, <1>7, LineIs
  <2>3. \E y \in ToSet(Line(b)) : metaProperty[y] # NoEntry
    BY <2>1, <2>2, FirstIs DEF EntryOf
  <2>4. \E y \in ToSet(Line(c)) : metaProperty[y] # NoEntry
    BY <1>3, <2>3
  <2>5. EntryOf(c) # NoEntry /\ \E y \in ToSet(Line(c)) : EntryOf(c) = metaProperty[y]
    BY <1>3, <2>4, FirstIs DEF EntryOf
  <2> QED
    BY <2>5
<1>9. x \in defined /\ x \in DOMAIN bases
  BY <1>2, <1>3
<1>10. ofQObject(x) /\ d0 \in ToSet(Checked(x)) /\ metaProperty[x] = EntryFor(x, properties[dict[d0]], signalled)
  <2>1. ofQObject(x) /\ \E d \in ToSet(Checked(x)) :
           Declares(d) /\ metaProperty[x] = EntryFor(x, properties[dict[d]], signalled)
    BY <1>1, <1>8, <1>9 DEF EntriesSound
  <2> QED
    BY <1>4, <1>5, <2>1
<1> DEFINE p == properties[dict[d0]]
           e == EntryFor(x, p, signalled)
<1>11. /\ p.fset = "function" => e.writable
       /\ p.fset = "null" => ~e.writable
       /\ p.freset = "function" => e.resettable
  BY DEF EntryFor
<1>12. ASSUME p.notify PROVE MethodCount(BaseOf(x), signalled) + e.notify = SignalIndex
  <2>1. d0 \in signalled
    BY <1>1, <1>4, <1>12 DEF SignalsNear
  <2>2. Root \notin signalled
    BY <1>1 DEF ClassesSound
  <2>3. \E d \in ToSet(Line(x)) : ofQObject(d) /\ Adds(d, signalled)
    <3>1. x \in ToSet(Line(x)) /\ x \in QObjectTypes
      BY <1>1, <1>9, <1>10, LineIs DEF ofQObject
    <3>2. ToSet(Checked(x)) \cap signalled # {}
      BY <1>10, <2>1
    <3> QED
      BY <1>1, <1>9, <2>2, <3>1, <3>2, SomeClassAdds
  <2>4. MethodCount(x, signalled) > RootMethods
    BY <1>1, <1>9, <2>3, CountIs
  <2>5. e.notify = SignalIndex - MethodCount(BaseOf(x), signalled)
    BY <1>12, <2>4 DEF EntryFor, NotifyId
  <2>6. MethodCount(BaseOf(x), signalled) \in Nat
    BY <1>1, <1>9, <1>10, LineIs, CountIs
  <2> QED
    BY <2>5, <2>6 DEF SignalIndex, RootMethods
<1> HIDE DEF p, e
<1>13. EntryOf(c) = e /\ metaProperty[x] = e /\ properties[getFromType(c)] = p
  BY <1>6, <1>8, <1>10 DEF p, e
<1> QED
  BY <1>11, <1>12, <1>13

\* For all hierarchies and all programs: property objects stay well-formed and within
\* their bound, and dicts name ones that exist, whatever is decorated and defined.
THEOREM PropertyTypeCorrect == PropertySpec => []PropertyTypeOK
<1>1. PropertyInv => PropertyTypeOK
  BY DEF PropertyInv
<1> QED
  BY PropertyInvInit, PropertyInvStep, <1>1, PTL DEF PropertySpec

\* For all hierarchies, with mixins, diamonds and several QObject bases: Qt's search of the
\* bases and Python's of the mro end at one property object, unless it was declared again
\* in a diamond; and where it is declared once, its entry in the meta object tells the
\* truth of its accessors and has the index of its signal, in derived classes too.
THEOREM PropertiesAlwaysAgree == PropertySpec => []PropertiesAgree
<1>1. PropertyInv => PropertiesAgree
  BY ReadAndWriteAgree, EntriesAreTrue DEF PropertiesAgree
<1> QED
  BY PropertyInvInit, PropertyInvStep, <1>1, PTL DEF PropertySpec

=============================================================================
