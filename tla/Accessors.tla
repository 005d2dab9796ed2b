----------------------------- MODULE Accessors -----------------------------
(***************************************************************************)
(* The functions that property objects hold (libpyside/pysideproperty.cpp, *)
(* libpysideqml/pysideqmllistproperty.cpp), and their reference counts.    *)
(*                                                                         *)
(* A Property counts its accessors once its arguments were found good; a   *)
(* ListProperty never does, and QML keeps a pointer to it. Functions may   *)
(* refer to a property, so that the garbage collector has to end cycles.   *)
(* An object whose count is 0 is freed before anything else happens.       *)
(***************************************************************************)
EXTENDS Integers, FiniteSets, SequencesExt, Functions

CONSTANTS
  Accessor,         \* the functions
  PropertyObjects,
  RefersTo,         \* function -> the property object it refers to, or Null
  Null,
  MaxAccesses,      \* bound: calls inside each other
  AccessorPrograms  \* the programs looked at

NoDoc == "none"
Given == "given"

\* What a program may do: have ListProperty objects (lists), whose functions it keeps;
\* give a property arguments that cannot be parsed (mistakes); let go of a ListProperty
\* that QML has (drops).
ASSUME AccessorAssumption ==
  /\ Null \notin Accessor \cup PropertyObjects /\ Accessor \cap PropertyObjects = {}
  /\ IsFiniteSet(Accessor \cup PropertyObjects)
  /\ RefersTo \in [Accessor -> PropertyObjects \cup {Null}]
  /\ {NoDoc, Given} \cap Accessor = {}
  /\ MaxAccesses \in Nat
  /\ AccessorPrograms \subseteq SUBSET {"lists", "mistakes", "drops"}

\* fget stands for the four accessors and the type, append for the six of a list. (What
\* differs is that the notify signal of a list is released with it, too.)
Role == {"fget", "notify"}
Args == [Role -> Accessor \cup {Null}]
NoArgs == [r \in Role |-> Null]

VARIABLES
  ways,       \* of the program; it does not change
  existing,   \* objects that are not freed
  tried,      \* functions that were made at some time
  refs,       \* reference counts
  known,      \* objects the program refers to
  data,       \* property object -> its fields; cleared by the garbage collector or not
  listed,     \* those that are ListProperty objects
  docs,       \* property object -> where the text of __doc__ is from
  entering,   \* the __init__() that runs
  accesses,   \* calls that run, the innermost last: [f, p]
  handles,    \* ListProperty objects that QML has
  touched     \* history: objects used when they were freed

accessorVars == <<ways, existing, tried, refs, known, data, listed, docs, entering, accesses, handles, touched>>

Data == [cleared : BOOLEAN, fields : Args, fresh : BOOLEAN]
NoInit == [on |-> Null, args |-> NoArgs]

-----------------------------------------------------------------------------
(* References *)

Times(o, args) == Cardinality({r \in Role : args[r] = o})

\* The count of references of each object, changed by some that come and some that go.
Counted(come, go) == [o \in Accessor \cup PropertyObjects |-> refs[o] + come[o] - go[o]]
None == [o \in Accessor \cup PropertyObjects |-> 0]
Of(args) == [o \in Accessor \cup PropertyObjects |-> Times(o, args)]
One(o) == [None EXCEPT ![o] = 1]

Due == {o \in existing : refs[o] <= 0}
\* Python code runs, in a call or outside, when no object is being freed.
Runs == Due = {}

FieldsOf(p) == data[p].fields
FieldsHeld(p) == IF data[p].cleared THEN NoArgs ELSE FieldsOf(p)

\* qpropertyClear(): what it releases. A list has nothing in the fields of a property but
\* the notify signal.
Released(p) == Of(IF p \in listed THEN [FieldsHeld(p) EXCEPT !["fget"] = Null] ELSE FieldsHeld(p))

-----------------------------------------------------------------------------
(* The program *)

NewFunction(f) ==
  /\ Runs /\ f \notin tried
  /\ RefersTo[f] # Null => RefersTo[f] \in known
  /\ existing' = existing \cup {f} /\ tried' = tried \cup {f} /\ known' = known \cup {f}
  /\ refs' = Counted(IF RefersTo[f] = Null THEN One(f) ELSE [One(f) EXCEPT ![RefersTo[f]] = 1], None)
  /\ UNCHANGED <<ways, data, listed, docs, entering, accesses, handles, touched>>

\* A program keeps the functions of its lists, and the lists that QML has.
Keeps(o) ==
  \/ \E p \in listed \cap existing : \E r \in Role : FieldsOf(p)[r] = o
  \/ o \in handles /\ "drops" \notin ways
Forget(o) ==
  /\ Runs /\ o \in known /\ o # entering.on /\ ~Keeps(o)
  /\ known' = known \ {o} /\ refs' = Counted(None, One(o))
  /\ UNCHANGED <<ways, existing, tried, data, listed, docs, entering, accesses, handles, touched>>

\* p.fget and its like return a new reference.
GetAccessor(p, r) ==
  /\ Runs /\ p \in known /\ p \notin listed /\ FieldsOf(p)[r] # Null
  /\ LET f == FieldsOf(p)[r] IN
       /\ f \notin known
       /\ known' = known \cup {f} /\ refs' = Counted(One(f), None)
  /\ UNCHANGED <<ways, existing, tried, data, listed, docs, entering, accesses, handles, touched>>

\* p.__doc__: the first time from the getter, for a property that has none of its own
GetDoc(p) ==
  /\ Runs /\ p \in known \ listed /\ docs[p] = NoDoc
  /\ entering.on # p /\ FieldsOf(p)["fget"] # Null
  /\ docs' = [docs EXCEPT ![p] = FieldsOf(p)["fget"]]
  /\ UNCHANGED <<ways, existing, tried, refs, known, data, listed, entering, accesses, handles, touched>>

-----------------------------------------------------------------------------
(* __init__() *)

\* The arguments are parsed into the fields: references that are borrowed until the call
\* is found good. Property clears its fields first; ListProperty writes over them.
Enter(p, args, come, kind) ==
  /\ entering = NoInit
  /\ entering' = [on |-> p, args |-> args]
  /\ data' = [data EXCEPT ![p] = [cleared |-> FALSE, fields |-> args, fresh |-> kind = "fresh"]]
  /\ refs' = Counted([o \in DOMAIN come |-> come[o] + Times(o, args)],
                     IF kind = "fresh" \/ p \in listed THEN None ELSE Released(p))
  /\ UNCHANGED <<ways, tried, accesses, handles, touched>>

\* The signal of a list is released, and was not counted.
MayNotify(args) == args["notify"] # Null => "mistakes" \in ways

\* Property(...), ListProperty(...)
New(p, args, list, doc) ==
  /\ Runs /\ p \notin existing
  /\ list => "lists" \in ways /\ MayNotify(args)
  /\ existing' = existing \cup {p} /\ known' = known \cup {p}
  /\ listed' = IF list THEN listed \cup {p} ELSE listed \ {p}
  /\ docs' = [docs EXCEPT ![p] = doc]
  /\ Enter(p, args, One(p), "fresh")

OfTheProgram(args) == \A r \in Role : args[r] # Null => args[r] \in known

\* p.__init__(...), called again by the program
InitAgain(p, args) ==
  /\ Runs /\ p \in known /\ ~data[p].fresh /\ OfTheProgram(args)
  /\ p \in listed => MayNotify(args)
  /\ docs' = [docs EXCEPT ![p] = NoDoc]
  /\ Enter(p, args, None, "again")
  /\ UNCHANGED <<existing, known, listed>>

\* A text from the getter is not copied; the copy asks its own.
DocOfCopy(p) == IF docs[p] \in Accessor THEN NoDoc ELSE docs[p]

\* p.getter(f) and its like: _property_copy()
Decorated(p, q, r, f) ==
  /\ p \in known \ listed /\ entering = NoInit
  /\ New(q, [FieldsOf(p) EXCEPT ![r] = f], FALSE, DocOfCopy(p))

\* Mutation of Kept: the notify signal is not counted.
KeptWithoutNotify(p) == Of([FieldsOf(p) EXCEPT !["notify"] = Null])

\* What __init__() counts at its end
Kept(p) == IF p \in listed THEN None ELSE Of(FieldsOf(p))

\* The call was good; or there is no such type, or a constant one with a setter or a
\* signal, and Property clears its fields; or an argument could not be parsed, and
\* they stay as they are. The object of a call that failed is let go of.
InitEnds(outcome) ==
  LET p == entering.on
      gone == IF outcome # "good" /\ data[p].fresh /\ p \in known THEN {p} ELSE {}
  IN
  /\ Runs /\ entering # NoInit
  /\ outcome = "unparsed" => "mistakes" \in ways
  /\ outcome = "refused" => "mistakes" \in ways \/ p \notin listed
  /\ data' = [data EXCEPT ![p] = [cleared |-> data[p].cleared, fresh |-> FALSE,
                fields |-> IF outcome = "refused" /\ p \notin listed THEN NoArgs ELSE FieldsOf(p)]]
  /\ refs' = Counted(IF outcome = "good" THEN Kept(p) ELSE None,
                     [o \in DOMAIN refs |-> Times(o, entering.args) + (IF o \in gone THEN 1 ELSE 0)])
  /\ known' = known \ gone
  /\ entering' = NoInit
  /\ UNCHANGED <<ways, existing, tried, listed, docs, accesses, handles, touched>>

-----------------------------------------------------------------------------
(* Calls *)

\* metaCall(): Qt reads or writes a property, or Python does. The property is held by the
\* call; the function that runs is held, too.
CallAccessor(p, r) ==
  /\ Runs /\ p \in known \ listed /\ entering.on # p /\ FieldsOf(p)[r] # Null
  /\ Len(accesses) < MaxAccesses
  /\ accesses' = Append(accesses, [f |-> FieldsOf(p)[r], p |-> p])
  /\ refs' = Counted([One(p) EXCEPT ![FieldsOf(p)[r]] = 1], None)
  /\ UNCHANGED <<ways, existing, tried, known, data, listed, docs, entering, handles, touched>>

\* metaCall() of a list: QML gets a QQmlListProperty, with a pointer to its data.
ReadList(p) ==
  /\ Runs /\ p \in known \cap listed /\ p \notin handles /\ entering.on # p
  /\ handles' = handles \cup {p}
  /\ UNCHANGED <<ways, existing, tried, refs, known, data, listed, docs, entering, accesses, touched>>

\* propListAppender() and its like: the data is not held by the call.
CallList(p) ==
  /\ Runs /\ p \in handles /\ FieldsOf(p)["fget"] # Null
  /\ Len(accesses) < MaxAccesses
  /\ touched' = touched \cup ({p, FieldsOf(p)["fget"]} \ existing)
  /\ IF touched' # touched THEN UNCHANGED <<accesses, refs>>
     ELSE /\ accesses' = Append(accesses, [f |-> FieldsOf(p)["fget"], p |-> p])
          /\ refs' = Counted(One(FieldsOf(p)["fget"]), None)
  /\ UNCHANGED <<ways, existing, tried, known, data, listed, docs, entering, handles>>

\* propListAt() looks at the type in the data when the function has returned.
AccessReturns ==
  /\ Runs /\ accesses # <<>>
  /\ LET c == Last(accesses) IN
       /\ refs' = Counted(None, IF c.p \in listed THEN One(c.f) ELSE [One(c.p) EXCEPT ![c.f] = 1])
       /\ touched' = touched \cup ({c.p} \ existing)
  /\ accesses' = Front(accesses)
  /\ UNCHANGED <<ways, existing, tried, known, data, listed, docs, entering, handles>>

DropHandle(p) ==
  /\ Runs /\ p \in handles
  /\ \A i \in 1..Len(accesses) : accesses[i].p # p
  /\ handles' = handles \ {p}
  /\ UNCHANGED <<ways, existing, tried, refs, known, data, listed, docs, entering, accesses, touched>>

-----------------------------------------------------------------------------
(* The end of objects *)

FreeFunction(f) ==
  /\ f \in Due
  /\ existing' = existing \ {f}
  /\ refs' = Counted(None, IF RefersTo[f] = Null THEN None ELSE One(RefersTo[f]))
  /\ UNCHANGED <<ways, tried, known, data, listed, docs, entering, accesses, handles, touched>>

\* qpropertyDeAlloc()
Dealloc(p) ==
  /\ p \in Due
  /\ existing' = existing \ {p}
  /\ refs' = Counted(None, Released(p))
  /\ data' = [data EXCEPT ![p].cleared = TRUE]
  /\ UNCHANGED <<ways, tried, known, listed, docs, entering, accesses, handles, touched>>

\* What is reached from the program and from calls, by fields and closures
Roots == known \cup {entering.on} \cup UNION {{accesses[i].f, accesses[i].p} : i \in 1..Len(accesses)}
ReferredBy(S) == S \cup {FieldsHeld(p)[r] : p \in S \cap PropertyObjects, r \in Role} \cup {RefersTo[f] : f \in S \cap Accessor}
Reached == LET after[n \in 0..Cardinality(Accessor \cup PropertyObjects)] ==
                 IF n = 0 THEN Roots ELSE ReferredBy(after[n - 1])
           IN  after[Cardinality(Accessor \cup PropertyObjects)]

\* The garbage collector finds a cycle: qpropertyTraverse(), qpropertyClear(). The object
\* stays until the functions that refer to it are gone.
ClearGarbage(p) ==
  /\ Runs /\ p \in existing \ Reached /\ p \notin listed /\ ~data[p].cleared
  /\ refs' = Counted(None, Released(p))
  /\ data' = [data EXCEPT ![p].cleared = TRUE]
  /\ UNCHANGED <<ways, existing, tried, known, listed, docs, entering, accesses, handles, touched>>

-----------------------------------------------------------------------------
AccessorInit ==
  /\ ways \in AccessorPrograms
  /\ existing = {} /\ tried = {} /\ known = {} /\ listed = {} /\ handles = {} /\ touched = {}
  /\ refs = None
  /\ data = [p \in PropertyObjects |-> [cleared |-> TRUE, fields |-> NoArgs, fresh |-> FALSE]]
  /\ docs = [p \in PropertyObjects |-> NoDoc]
  /\ entering = NoInit /\ accesses = <<>>

AccessorNext ==
  \/ \E f \in Accessor : NewFunction(f) \/ FreeFunction(f)
  \/ \E o \in Accessor \cup PropertyObjects : Forget(o)
  \/ \E p \in PropertyObjects, r \in Role : GetAccessor(p, r) \/ CallAccessor(p, r)
  \/ \E p \in PropertyObjects, args \in Args :
       \/ \E list \in BOOLEAN, doc \in {NoDoc, Given} : OfTheProgram(args) /\ New(p, args, list, doc)
       \/ InitAgain(p, args)
  \/ \E p, q \in PropertyObjects, r \in Role, f \in known \cap Accessor : Decorated(p, q, r, f)
  \/ \E outcome \in {"good", "refused", "unparsed"} : InitEnds(outcome)
  \/ \E p \in PropertyObjects : GetDoc(p) \/ ReadList(p) \/ CallList(p) \/ DropHandle(p) \/ Dealloc(p) \/ ClearGarbage(p)
  \/ AccessReturns

AccessorSpec == AccessorInit /\ [][AccessorNext]_accessorVars

-----------------------------------------------------------------------------
(* Properties *)

AccessorTypeOK ==
  /\ ways \in AccessorPrograms
  /\ existing \cup known \cup listed \cup handles \subseteq Accessor \cup PropertyObjects
  /\ tried \subseteq Accessor
  /\ refs \in [Accessor \cup PropertyObjects -> Int]
  /\ data \in [PropertyObjects -> Data]
  /\ docs \in [PropertyObjects -> {NoDoc, Given} \cup Accessor]
  /\ Len(accesses) <= MaxAccesses

\* Who refers to an object: the program; a Property whose fields are counted; a call.
Referrers(o) ==
  (IF o \in known THEN 1 ELSE 0)
  + Times(o, entering.args)
  + Cardinality({x \in (existing \cap PropertyObjects) \X Role :
                   x[1] \notin listed /\ entering.on # x[1] /\ FieldsHeld(x[1])[x[2]] = o})
  + Cardinality({f \in existing \cap Accessor : RefersTo[f] = o})
  + Cardinality({i \in 1..Len(accesses) : o = accesses[i].f \/ (o = accesses[i].p /\ o \notin listed)})

\* An accessor is counted once for each that refers to it, however properties are made,
\* copied, initialized again, refused, and collected while their functions run; so that
\* no property refers to a function that was freed, no list is used after its end, and no
\* text is kept of a getter that was replaced. (The program keeps the functions of lists;
\* arguments that cannot be parsed and lists with a notify signal release what they did
\* not count.)
AccessorsHeld ==
  /\ \A o \in existing : refs[o] = Referrers(o)
  /\ \A p \in existing \cap PropertyObjects, r \in Role : FieldsHeld(p)[r] # Null => FieldsHeld(p)[r] \in existing
  /\ touched = {}
  /\ \A p \in existing \cap PropertyObjects : docs[p] \in Accessor => data[p].cleared \/ docs[p] = FieldsHeld(p)["fget"]
=============================================================================
