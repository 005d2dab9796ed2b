----------------------------- MODULE FeatureSelect -----------------------------
(***************************************************************************)
(* Feature selection of libpyside (feature_select.cpp): modules that say   *)
(* "from __feature__ import ..." see other names in the Qt classes.  Every *)
(* class has one dict per combination of features (select_id), the dicts   *)
(* are linked into a ring, and right before an attribute of a class is     *)
(* looked up the dicts of the whole mro are exchanged for those of the     *)
(* features of the running module.  Two caches make this cheap: the        *)
(* features of the module that ran last, and the last selection.           *)
(*                                                                         *)
(* Types are addresses: a user class dies and another may take its         *)
(* address.  A step is what a thread does while it holds the GIL.  Filling *)
(* a dict with true properties calls Python code (get_signature_intern),   *)
(* where the GIL may change hands: there a selection is split.             *)
(***************************************************************************)
EXTENDS Naturals, FiniteSets, SequencesExt

CONSTANTS
  Wrapped,        \* the wrapped C++ classes (they have tp_methods)
  WrappedMro,     \* their mro, without Shiboken.Object and object
  UserTypes,      \* addresses a class written in Python can have
  NoType,         \* nullptr as last_type
  Modules,        \* the globals of Python modules
  NoModule,       \* nullptr as cached_globals
  Ids,            \* select ids, combinations of features; 0 is among them
  TrueProperty,   \* the ids with feature 0x02
  Plain,          \* the class dict has not been replaced yet
  NoDict,         \* no dict of that id in the ring
  Inherit,        \* feature_dict has no entry for the module, or -1
  Threads,
  Idle            \* the thread is not in a selection

CONSTANTS         \* each TRUE or FALSE
  TypesDie,       \* user classes are collected and their addresses reused
  Switches        \* the GIL changes hands while a dict is filled

Types == Wrapped \cup UserTypes

ASSUME TypesAssumption ==
  /\ Wrapped \cap UserTypes = {}
  /\ NoType \notin Types
  /\ WrappedMro \in [Wrapped -> Seq(Wrapped)]
  /\ \A t \in Wrapped : t \in ToSet(WrappedMro[t])
ASSUME IdsAssumption ==
  /\ Ids \subseteq 0 .. 255
  /\ 0 \in Ids
  /\ TrueProperty \subseteq Ids \ {0}
  /\ {Plain, NoDict, Inherit} \cap Ids = {}
ASSUME ModulesAssumption == NoModule \notin Modules
ASSUME ProgramAssumption == {TypesDie, Switches} \subseteq BOOLEAN

\* A selection that waits for the dict of the first class of todo.
Job == [type : Types, todo : Seq(Types), id : Ids, assign : BOOLEAN]

ASSUME IdleAssumption == Idle \notin Job

VARIABLES
  alive,          \* the classes that exist
  mro,            \* their method resolution order
  tp_dict,        \* the id of the dict in place, or Plain
  dict_ring,      \* the ring of dicts of a class: id -> id of the next one
  finished,       \* the dicts whose content is complete
  assigned,       \* the dicts that hold a certain attribute the program sets
  features,       \* feature_dict: the features of a module, or Inherit
  is_initialized,
  enabled,        \* featurePointer and the hook of Shiboken are set
  cached_globals, \* getFeatureSelectId(): the module that ran last...
  current_id,     \* ... and its features
  last_type,      \* SelectFeatureSet(): the last class selected...
  last_select_id, \* ... and for which features
  work            \* thread -> the selection it is in

typeVars == <<alive, mro>>
dictVars == <<tp_dict, dict_ring, finished, assigned>>
idVars == <<cached_globals, current_id>>
cacheVars == <<last_type, last_select_id>>
vars == <<typeVars, dictVars, features, is_initialized, enabled, idVars, cacheVars, work>>

NoRing == [i \in Ids |-> NoDict]

-----------------------------------------------------------------------------
(* Rings of dicts *)

\* replaceClassDict(): on first touch a class gets a ring of one dict, id 0.
Touched(t, rings) ==
  IF tp_dict[t] = Plain THEN [i \in Ids |-> IF i = 0 THEN 0 ELSE NoDict] ELSE rings[t]

Current(t) == IF tp_dict[t] = Plain THEN 0 ELSE tp_dict[t]

\* What nextInCircle() visits, starting from i: all that is in each set of dicts
\* that holds i and is closed under going to the next one.
Closed(ring, dicts) == \A i \in dicts : ring[i] \in dicts \cup {NoDict}
Circle(ring, i) ==
  {j \in Ids : \A dicts \in SUBSET Ids : i \in dicts /\ Closed(ring, dicts) => j \in dicts}

\* moveToFeatureSet() finds the dict.
Has(ring, i, id) == id \in Circle(ring, i)

\* Mutation of Inserted: the next dict is read after it was overwritten.
InsertedLate(ring, at, id) == [ring EXCEPT ![at] = id, ![id] = id]

\* addNewDict(): the new dict is inserted after the dict at.
Inserted(ring, at, id) == [ring EXCEPT ![at] = id, ![id] = ring[at]]

\* The ring of t after SelectFeatureSetSubtype(): createNewFeatureSet() inserts
\* after dict 0, to which it has moved.
RingFor(t, id) ==
  LET ring == Touched(t, dict_ring) IN
  IF Has(ring, Current(t), id) THEN ring ELSE Inserted(ring, 0, id)

Created(t, id) == ~Has(Touched(t, dict_ring), Current(t), id)

\* Filling the dict runs Python code: only for classes that have methods.
Slow(t, id) == Switches /\ Created(t, id) /\ id \in TrueProperty /\ t \in Wrapped

-----------------------------------------------------------------------------
(* SelectFeatureSet *)

\* The classes whose dicts are exchanged: the mro, but for the two roots.
Loop(t) == mro[t]

\* getFeatureSelectId()
SelectId(m) ==
  IF m = cached_globals \/ features[m] = Inherit THEN current_id ELSE features[m]

\* The cached pair is that of a module with features of its own.
Remember(m) ==
  IF m = cached_globals \/ features[m] = Inherit THEN UNCHANGED idVars
  ELSE cached_globals' = m /\ current_id' = features[m]

\* The first n classes a job has to do, which take no time, and the next one, if
\* there is one, whose dict is made but has to be filled slowly.
Quick(job, n) == {job.todo[k] : k \in 1 .. n}
Seen(job, n) == {job.todo[k] : k \in (1 .. n + 1) \cap DOMAIN job.todo}

StopsAt(job, n) ==
  /\ n \in 0 .. Len(job.todo)
  /\ \A t \in Quick(job, n) : ~Slow(t, job.id)
  /\ n < Len(job.todo) => Slow(job.todo[n + 1], job.id)

\* The rest of the job, with the slow class first.
Rest(job, n) ==
  IF n = Len(job.todo) THEN Idle
  ELSE [type |-> job.type, todo |-> SubSeq(job.todo, n + 1, Len(job.todo)),
        id |-> job.id, assign |-> job.assign]

\* The loop over the mro until it is through or has to wait. The classes of done
\* are complete by now; the attribute, if one is to be set, goes into the dict the
\* class has in the end.
Walk(th, job, done) ==
  \E n \in 0 .. Len(job.todo) :
    LET id == job.id
        seen == Seen(job, n)
        filled == done \cup {t \in Quick(job, n) : Created(t, id)}
        copied == {t \in seen : Created(t, id) /\ 0 \in assigned[t]}
        set == {t \in {job.type} : Rest(job, n) = Idle /\ job.assign}
    IN /\ StopsAt(job, n)
       /\ tp_dict' = [t \in Types |-> IF t \in seen THEN id ELSE tp_dict[t]]
       /\ dict_ring' = [t \in Types |-> IF t \in seen THEN RingFor(t, id) ELSE dict_ring[t]]
       /\ finished' = [t \in Types |-> finished[t] \cup {i \in {id} : t \in filled}]
       /\ assigned' = [t \in Types |->
            assigned[t] \cup {i \in {id} : t \in copied}
              \cup {i \in {IF t \in seen THEN id ELSE Current(t)} : t \in set}]
       /\ work' = [work EXCEPT ![th] = Rest(job, n)]

\* Mutation of Cached: the class is not compared.
CachedById(t, id) == last_type # NoType /\ id = last_select_id

\* The cache: the class was the last one and the features are the same.
Cached(t, id) == t = last_type /\ id = last_select_id

\* An attribute of class t is looked up, or set (SbkObjectType_meta_setattro), by
\* code of module m: Select() and, unless it has to wait for a dict, the access.
Select(th, m, t, assign) ==
  LET id == SelectId(m) IN
  /\ enabled
  /\ work[th] = Idle
  /\ t \in alive
  /\ Remember(m)
  /\ IF Cached(t, id)
     THEN /\ tp_dict' = [tp_dict EXCEPT ![t] = Current(t)]
          /\ dict_ring' = [dict_ring EXCEPT ![t] = Touched(t, dict_ring)]
          /\ assigned' = [assigned EXCEPT ![t] = @ \cup (IF assign THEN {Current(t)} ELSE {})]
          /\ UNCHANGED <<finished, cacheVars, work>>
     ELSE /\ last_type' = t
          /\ last_select_id' = id
          /\ Walk(th, [type |-> t, todo |-> Loop(t), id |-> id, assign |-> assign], {})
  /\ UNCHANGED <<typeVars, features, is_initialized, enabled>>

\* The Python code called for the first class of todo has returned: its dict is
\* complete and the loop goes on. (After createNewFeatureSet() nothing looks
\* again at which dict is in place.)
Resume(th) ==
  LET job == work[th] IN
  /\ job # Idle
  /\ Walk(th, [type |-> job.type, todo |-> Tail(job.todo), id |-> job.id,
               assign |-> job.assign], {Head(job.todo)})
  /\ UNCHANGED <<typeVars, features, is_initialized, enabled, idVars, cacheVars>>

-----------------------------------------------------------------------------
(* Modules and classes come and go *)

\* init() resets the features remembered.
ResetIds == current_id' = 0 /\ cached_globals' = NoModule

\* "from __feature__ import ..." in module m: init() is called.
FeatureImport(m, f) ==
  /\ features' = [features EXCEPT ![m] = f]
  /\ is_initialized' = TRUE
  /\ enabled' = (enabled \/ ~is_initialized)
  /\ ResetIds
  /\ UNCHANGED <<typeVars, dictVars, cacheVars, work>>

\* Module m is unloaded; its globals are taken by a module without features.
NewModule(m) ==
  /\ features[m] # Inherit
  /\ features' = [features EXCEPT ![m] = Inherit]
  /\ UNCHANGED <<typeVars, dictVars, is_initialized, enabled, idVars, cacheVars, work>>

\* featureEnableCallback(): Shiboken switches the hook off for a while.
featureEnableCallback(enable) ==
  /\ is_initialized
  /\ enabled' = enable
  /\ UNCHANGED <<typeVars, dictVars, features, is_initialized, idVars, cacheVars, work>>

\* A class derived from base is created: its dict is plain. The selection is
\* disabled and enabled again around the work on its meta object.
NewType(t, base) ==
  /\ t \in UserTypes \ alive
  /\ base \in alive
  /\ alive' = alive \cup {t}
  /\ mro' = [mro EXCEPT ![t] = <<t>> \o mro[base]]
  /\ tp_dict' = [tp_dict EXCEPT ![t] = Plain]
  /\ dict_ring' = [dict_ring EXCEPT ![t] = NoRing]
  /\ finished' = [finished EXCEPT ![t] = {0}]
  /\ assigned' = [assigned EXCEPT ![t] = {}]
  /\ enabled' = is_initialized
  /\ UNCHANGED <<features, is_initialized, idVars, cacheVars, work>>

\* A class that nobody uses is collected; last_type is not told.
DestroyType(t) ==
  /\ TypesDie
  /\ t \in UserTypes \cap alive
  /\ \A u \in alive \ {t} : t \notin ToSet(mro[u])
  /\ \A th \in Threads : work[th] # Idle => work[th].type # t
  /\ alive' = alive \ {t}
  /\ UNCHANGED <<mro, dictVars, features, is_initialized, enabled, idVars, cacheVars, work>>

-----------------------------------------------------------------------------

Init ==
  /\ alive = Wrapped
  /\ mro = [t \in Types |-> IF t \in Wrapped THEN WrappedMro[t] ELSE <<t>>]
  /\ tp_dict = [t \in Types |-> Plain]
  /\ dict_ring = [t \in Types |-> NoRing]
  /\ finished = [t \in Types |-> {0}]
  /\ assigned = [t \in Types |-> {}]
  /\ features = [m \in Modules |-> Inherit]
  /\ is_initialized = FALSE
  /\ enabled = FALSE
  /\ cached_globals = NoModule
  /\ current_id = 0
  /\ last_type = NoType
  /\ last_select_id = 0
  /\ work = [th \in Threads |-> Idle]

Next ==
  \/ \E th \in Threads :
       \/ \E m \in Modules, t \in Types, assign \in BOOLEAN : Select(th, m, t, assign)
       \/ Resume(th)
  \/ \E m \in Modules : \/ \E f \in Ids : FeatureImport(m, f)
                        \/ NewModule(m)
  \/ \E enable \in BOOLEAN : featureEnableCallback(enable)
  \/ \E t \in UserTypes : \/ \E base \in Types : NewType(t, base)
                          \/ DestroyType(t)

Spec == Init /\ [][Next]_vars

-----------------------------------------------------------------------------
(* Properties *)

TypeOK ==
  /\ alive \in SUBSET Types
  /\ mro \in [Types -> Seq(Types)]
  /\ tp_dict \in [Types -> Ids \cup {Plain}]
  /\ dict_ring \in [Types -> [Ids -> Ids \cup {NoDict}]]
  /\ finished \in [Types -> SUBSET Ids]
  /\ assigned \in [Types -> SUBSET Ids]
  /\ features \in [Modules -> Ids \cup {Inherit}]
  /\ is_initialized \in BOOLEAN
  /\ enabled \in BOOLEAN
  /\ cached_globals \in Modules \cup {NoModule}
  /\ current_id \in Ids
  /\ last_type \in Types \cup {NoType}
  /\ last_select_id \in Ids
  /\ work \in [Threads -> Job \cup {Idle}]
  /\ \A th \in Threads : work[th] # Idle => work[th].todo # <<>>

\* What is in place for an access to class t with features id.
InPlace(t, id) == \A u \in ToSet(mro[t]) : tp_dict[u] = id

Access(th, m, t, assign) == Select(th, m, t, assign) /\ work'[th] = Idle

AccessRight ==
  \A th \in Threads, m \in Modules, t \in Types, assign \in BOOLEAN :
    Access(th, m, t, assign) /\ features[m] # Inherit =>
      /\ \A u \in ToSet(mro[t]) : tp_dict'[u] = features[m] /\ features[m] \in finished'[u]
      /\ assign => features[m] \in assigned'[t]

\* Code of a module that has features of its own finds in a class and in all its
\* bases the names of exactly these features, in dicts that are complete, and
\* what it assigns goes where it will find it again: whatever other modules
\* selected before and whichever classes came and went.
AccessSeesItsFeatures == [][AccessRight]_vars

\* "A very simple but effective cache that cannot fail": when no selection is
\* under way, the dicts in place for the last class are those last selected.
CacheTruthful ==
  (\A th \in Threads : work[th] = Idle) /\ last_type \in alive
    => InPlace(last_type, last_select_id)

\* What the cache is for: while the last selection is not repeated, the wrapped
\* bases of the last class show the names it was selected for.
CacheServesBases ==
  (\A th \in Threads : work[th] = Idle) /\ last_type \in alive
    => \A u \in ToSet(mro[last_type]) \cap Wrapped : Current(u) = last_select_id

\* The features remembered are those of the module they were read for, so code
\* that comes back after modules without features ran gets its own again.
RememberedFeatures ==
  cached_globals # NoModule /\ features[cached_globals] # Inherit
    => current_id = features[cached_globals]

DictsOf(ring) == {i \in Ids : ring[i] # NoDict}

\* The dicts of a class that was touched form one ring, whichever way they were
\* made: from each of them one gets to all, to dict 0, from which the others are
\* made, and to the one in place.
RingWhole ==
  \A t \in Types : tp_dict[t] # Plain =>
    LET dicts == DictsOf(dict_ring[t])
    IN /\ {0, tp_dict[t]} \subseteq dicts
       /\ \A i \in dicts : Circle(dict_ring[t], i) = dicts

=============================================================================
