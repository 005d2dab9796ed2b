---------------------------- MODULE Construction ----------------------------
(***************************************************************************)
(* Keywords of a constructor (libpyside/pyside.cpp, fillQtProperties()):    *)
(* QTimer(interval=100, timeout=f) sets properties and connects signals.    *)
(*                                                                         *)
(* A keyword is spelled as the selected features ask for. Names of C++ are *)
(* unmangled to find the property, and mangled to find its setter. Setters *)
(* may be overridden in Python; what they do may select other features for *)
(* the class, as every access from another module does.                    *)
(***************************************************************************)
EXTENDS Naturals, FiniteSets, SequencesExt

CONSTANTS
  Lower,        \* the letters: lower case -> upper case
  Mros,         \* mros looked at
  Keywords,     \* a name each, given to constructors
  MaxKeywords,  \* bound: of a call
  Visits        \* whether code run by setters enters modules with other features

\* A name is a sequence of letters and underscores, a property string is name:read:write
\* or name:read, with parts that may be empty. A class has
\*   wrapped: it is one of C++,
\*   props: its property strings,
\*   overloaded: names of properties whose getter has overloads with arguments,
\*   signals: names,
\*   methods: those it defines in Python, setters it overrides,
\*   objects: names of QtCore.Property it has.
ASSUME ConstructionAssumption == MaxKeywords \in Nat /\ Visits \in BOOLEAN

VARIABLES
  mro,        \* of the class; it does not change
  features,   \* selected for the class: [snake, true]
  filling,    \* a constructor runs
  rest,       \* its keywords that are left
  start,      \* features the caller had selected
  lenient,    \* the constructor allows errors, as a Python class with an __init__ does
  outcomes    \* history of this call: what became of each keyword

constructionVars == <<mro, features, filling, rest, start, lenient, outcomes>>

Features == [snake : BOOLEAN, true : BOOLEAN]

Upper == {Lower[c] : c \in DOMAIN Lower}
LowerOf(c) == CHOOSE d \in DOMAIN Lower : Lower[d] = c

-----------------------------------------------------------------------------
(* Names *)

CapitalsMeet(s) == \E i \in 2..Len(s) : s[i] \in Upper /\ s[i - 1] \in Upper

\* The rule for names of methods and properties in dicts; and, in _sigWithMangledName(),
\* for a property string as a whole.
SnakeCase(s) ==
  IF Len(s) < 3 \/ CapitalsMeet(s) THEN s
  ELSE FlattenSeq([i \in 1..Len(s) |->
         IF s[i] \notin Upper THEN <<s[i]>>
         ELSE IF i = 1 THEN <<LowerOf(s[i])>> ELSE <<"_", LowerOf(s[i])>>])

sigWithMangledName(s, mangle) == IF mangle THEN SnakeCase(s) ELSE s

\* Mutation of sigWithOrigName: capitals are left as they are.
OrigOfAnything(s, mangle) ==
  FlattenSeq([i \in 1..Len(s) |->
    CASE mangle /\ i > 1 /\ s[i - 1] = "_" /\ s[i] \in DOMAIN Lower -> <<Lower[s[i]]>>
      [] mangle /\ i < Len(s) /\ s[i] = "_" /\ s[i + 1] \in DOMAIN Lower -> <<>>
      [] OTHER -> <<s[i]>>])

\* A name with capitals was not converted: nothing is returned, but for two at the start.
sigWithOrigName(s, mangle) ==
  IF mangle /\ \E i \in 2..Len(s) : s[i] \in Upper
  THEN IF s[1] \in Upper /\ s[2] \in Upper THEN s ELSE <<>>
  ELSE OrigOfAnything(s, mangle)

Split(s) ==
  LET colons == SetToSortSeq({i \in 1..Len(s) : s[i] = ":"}, <)
      cuts == <<0>> \o colons \o <<Len(s) + 1>>
  IN [k \in 1..Len(cuts) - 1 |-> SubSeq(s, cuts[k] + 1, cuts[k + 1] - 1)]

Setter(name, snake) ==
  IF snake THEN <<"s", "e", "t", "_">> \o name
  ELSE <<"s", "e", "t">> \o (IF Head(name) \in DOMAIN Lower THEN <<Lower[Head(name)]>> ELSE <<Head(name)>>) \o Tail(name)

\* parseFields(): defaults for what is empty
parseFields(s, snake) ==
  LET list == Split(s)  name == list[1] IN
  [k \in 1..Len(list) |->
     CASE list[k] # <<>> -> list[k]
       [] list[k] = <<>> /\ k = 2 -> name
       [] list[k] = <<>> /\ k = 3 -> Setter(name, snake)]

-----------------------------------------------------------------------------
(* Classes *)

NameOf(p) == Split(p)[1]

\* What the dict of a class has under a name, with the features selected. C++ classes: the
\* methods of properties; with true properties the properties instead, and setters that
\* are not named after the rule. (feature_02_true_property())
Dict(c, n, f) ==
  LET Spelled(x) == sigWithMangledName(x, f.snake)
      Renamed(p) == Spelled(NameOf(p)) \o (IF NameOf(p) \in c.overloaded THEN <<"_">> ELSE <<>>)
      fields(p) == parseFields(p, FALSE)
      HasSetter(p) == Len(fields(p)) = 3 /\ n = Spelled(fields(p)[3])
  IN  CASE c.wrapped ->
             {<<"property", p>> : p \in {q \in c.props : f.true /\ n = Renamed(q)}} \cup
             {<<"setter", p>> : p \in {q \in c.props : HasSetter(q) /\ (f.true => Split(q)[3] # <<>>)}} \cup
             {<<"getter", p>> : p \in {q \in c.props : n = Spelled(fields(q)[2]) /\
                                                       (f.true => NameOf(q) \in c.overloaded /\ fields(q)[2] = NameOf(q))}}
        [] OTHER ->
             {<<"override", n>> : m \in {n} \cap c.methods} \cup
             {<<"object", n>> : m \in {n} \cap c.objects}

\* _PepType_Lookup(): the first class of the mro that has the name
Nothing == <<"nothing", <<>>>>
InMro(n, f) ==
  LET i == SelectInSeq(mro, LAMBDA c : Dict(c, n, f) # {}) IN
  IF i = 0 THEN Nothing ELSE CHOOSE d \in Dict(mro[i], n, f) : TRUE

\* QMetaObject::indexOfProperty() and findSignal(), with the names of C++
IsProperty(n) == \E i \in 1..Len(mro) : n \in mro[i].objects \/ \E p \in mro[i].props : NameOf(p) = n
IsSignal(n) == \E i \in 1..Len(mro) : n \in mro[i].signals

\* _SbkType_LookupProperty(), without fields if there is none. The empty name matches no
\* property string.
LookupProperty(n, f) ==
  LET orig == sigWithOrigName(n, f.snake)
      Has(c) == \E p \in c.props : NameOf(p) = orig
      i == SelectInSeq(mro, LAMBDA c : c.wrapped /\ Has(c))
  IN  IF orig = <<>> \/ i = 0 THEN <<>>
      ELSE parseFields(sigWithMangledName(CHOOSE p \in mro[i].props : NameOf(p) = orig, f.snake), f.snake)

\* _SbkType_FakeProperty()
FakeProperty(n, f) == parseFields(sigWithMangledName(n \o <<":", ":">>, f.snake), f.snake)

-----------------------------------------------------------------------------
(* The constructor *)

\* The name that is looked up in the dicts: the true property, or the setter.
LookedUp(n, fields, f) ==
  IF fields = <<>> THEN FakeProperty(n, f)[3] ELSE IF f.true THEN fields[1] ELSE fields[3]

\* What a call of what was found does to a property with these fields, or none.
SetBy(n, fields, look, f) ==
  CASE Len(fields) = 2 -> <<"silent", n>>
    [] Len(fields) = 3 /\ f.true /\ look # Nothing ->
         IF look[1] = "property" THEN <<"set", NameOf(look[2])>> ELSE <<"error", n>>
    [] Len(fields) \in {0, 3} /\ (fields = <<>> \/ ~f.true) /\ look # Nothing ->
         CASE look[1] = "setter" -> <<"set", NameOf(look[2])>>
           [] look[1] = "override" -> <<"override", n>>
           [] OTHER -> <<"error", n>>
    [] OTHER -> IF InMro(n, f)[1] = "object" THEN <<"override", n>> ELSE <<"refused", n>>

SetFields(n, fields, f) == SetBy(n, fields, InMro(LookedUp(n, fields, f), f), f)

\* What _setProperty() does: a setter is called; it raises an error, a silent one if the
\* property has no setter; or there is none to be called.
setProperty(n, f) == SetFields(n, LookupProperty(n, f), f)

\* One round of fillQtProperties(). (The second try of _setProperty() repeats the first.)
Filled(n, f) ==
  LET orig == sigWithOrigName(n, start.snake) IN
  CASE orig = <<>> -> <<"refused", n>>
    [] orig # <<>> /\ ~IsProperty(orig) /\ IsSignal(n) -> <<"connected", n>>
    [] OTHER -> setProperty(n, f)

Fails(o) == o[1] \in {"silent", "error"} \/ (o[1] = "refused" /\ ~lenient)

\* The class is accessed from a module with these features.
SelectFeatures(f) ==
  /\ ~filling
  /\ features' = f
  /\ UNCHANGED <<mro, filling, rest, start, lenient, outcomes>>

Construct(kwds, allowErrors) ==
  /\ ~filling
  /\ filling' = TRUE
  /\ rest' = kwds
  /\ start' = features
  /\ lenient' = allowErrors
  /\ outcomes' = <<>>
  /\ UNCHANGED <<mro, features>>

\* The next keyword; Python may run in setters and in Property objects.
FillNext ==
  /\ filling /\ rest # <<>>
  /\ LET o == Filled(Head(rest), features) IN
       /\ outcomes' = Append(outcomes, o)
       /\ filling' = ~Fails(o)
       /\ rest' = Tail(rest)
       /\ features' \in IF Visits /\ o[1] = "override" THEN Features ELSE {features}
  /\ UNCHANGED <<mro, start, lenient>>

ConstructionReturns ==
  /\ filling /\ rest = <<>>
  /\ filling' = FALSE
  /\ UNCHANGED <<mro, features, rest, start, lenient, outcomes>>

ConstructionInit ==
  /\ mro \in Mros
  /\ features = [snake |-> FALSE, true |-> FALSE]
  /\ filling = FALSE /\ rest = <<>> /\ start = features /\ lenient = FALSE /\ outcomes = <<>>

ConstructionNext ==
  \/ \E f \in Features : SelectFeatures(f)
  \/ \E n \in 1..MaxKeywords, allowErrors \in BOOLEAN :
       \E kwds \in [1..n -> Keywords] : IsInjective(kwds) /\ Construct(kwds, allowErrors)
  \/ FillNext
  \/ ConstructionReturns

ConstructionSpec == ConstructionInit /\ [][ConstructionNext]_constructionVars

-----------------------------------------------------------------------------
(* Properties *)

ConstructionTypeOK ==
  /\ mro \in Mros /\ features \in Features /\ start \in Features
  /\ filling \in BOOLEAN /\ rest \in UNION {[1..n -> Keywords] : n \in 0..MaxKeywords}
  /\ lenient \in BOOLEAN
  /\ Len(outcomes) <= MaxKeywords

\* The properties of C++ that can be written; as the caller spells them
Writable == {p \in UNION {mro[i].props : i \in 1..Len(mro)} : Len(Split(p)) = 3}
Spelling(p) == sigWithMangledName(NameOf(p), start.snake)

\* A keyword that names a property as the features of the caller spell it reaches the
\* setter of that property, or what overrides it, in a constructor that runs Python code
\* for the keywords before; a name in another spelling sets no property of C++. (Among true
\* properties, one whose getter has overloads with arguments has another name. A name like
\* xOffset, with a setter setXOffset that is not mangled, cannot be set with snake_case.)
KeywordsReachSetters ==
  [][filling /\ rest' # rest =>
       LET n == Head(rest)  o == Last(outcomes') IN
       /\ \A p \in Writable :
            Spelling(p) = n /\ (start.true => \A i \in 1..Len(mro) : NameOf(p) \notin mro[i].overloaded)
              => o \in {<<"set", NameOf(p)>>, <<"override", n>>}
       /\ o[1] = "set" => \E p \in Writable : Spelling(p) = n /\ o[2] = NameOf(p)]_constructionVars
=============================================================================
