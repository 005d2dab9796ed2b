-------------------------- MODULE FeatureSelect_proofs --------------------------
(***************************************************************************)
(* Proofs about FeatureSelect, for every set of classes, modules, features *)
(* and threads.                                                            *)
(*                                                                         *)
(* The rings of dicts are whole whatever threads do and whichever classes  *)
(* die, and the features remembered are those of their module.  The cache  *)
(* is right, and every access finds the names its module asked for, under  *)
(* Quiet: no class is collected and no other thread runs while a dict is   *)
(* filled.                                                                 *)
(***************************************************************************)
EXTENDS FeatureSelect, SequenceTheorems, TLAPS

USE TypesAssumption, IdsAssumption, ModulesAssumption, IdleAssumption

LEMMA PrependElements ==
  ASSUME NEW S, NEW x \in S, NEW seq \in Seq(S)
  PROVE  /\ <<x>> \o seq \in Seq(S)
         /\ ToSet(<<x>> \o seq) = {x} \cup ToSet(seq)
<1> DEFINE new == <<x>> \o seq
<1>1. /\ new \in Seq(S)
      /\ Len(new) = 1 + Len(seq)
      /\ \A i \in 1 .. Len(new) : new[i] = IF i <= 1 THEN x ELSE seq[i - 1]
  BY <<x>> \in Seq(S), Len(<<x>>) = 1, <<x>>[1] = x, ConcatProperties
<1>2. ASSUME NEW y \in ToSet(new) PROVE y \in {x} \cup ToSet(seq)
  BY <1>1, <1>2 DEF ToSet
<1>3. x \in ToSet(new)
  BY <1>1, SMTT(20) DEF ToSet
<1>4. ASSUME NEW i \in 1 .. Len(seq) PROVE seq[i] \in ToSet(new)
  <2>0. Len(seq) \in Nat /\ i \in Int
    OBVIOUS
  <2>1. i + 1 \in 1 .. Len(new) /\ ~(i + 1 <= 1) /\ (i + 1) - 1 = i
    BY <1>1, <2>0
  <2>2. new[i + 1] = seq[i]
    BY <1>1, <2>1
  <2>3. DOMAIN new = 1 .. Len(new)
    BY <1>1
  <2> QED
    BY <2>1, <2>2, <2>3 DEF ToSet
<1>5. \A y \in ToSet(seq) : y \in ToSet(new)
  BY <1>4 DEF ToSet
<1>6. ToSet(new) = {x} \cup ToSet(seq)
  BY <1>2, <1>3, <1>5
<1> QED
  BY <1>1, <1>6

-----------------------------------------------------------------------------
(* Types *)

\* What Walk needs to know of its job.
LEMMA RingType ==
  ASSUME TypeOK, NEW t \in Types, NEW id \in Ids
  PROVE  /\ Touched(t, dict_ring) \in [Ids -> Ids \cup {NoDict}]
         /\ RingFor(t, id) \in [Ids -> Ids \cup {NoDict}]
         /\ Current(t) \in Ids
<1>1. Touched(t, dict_ring) \in [Ids -> Ids \cup {NoDict}]
  BY DEF TypeOK, Touched
<1>2. Inserted(Touched(t, dict_ring), 0, id) \in [Ids -> Ids \cup {NoDict}]
  BY <1>1 DEF Inserted
<1> QED
  BY <1>1, <1>2 DEF RingFor, Current, TypeOK

LEMMA RestType ==
  ASSUME NEW job \in Job, NEW n \in 0 .. Len(job.todo)
  PROVE  /\ Rest(job, n) \in Job \cup {Idle}
         /\ Rest(job, n) # Idle => Rest(job, n).todo # <<>>
<1>1. /\ job.type \in Types /\ job.todo \in Seq(Types) /\ job.id \in Ids /\ job.assign \in BOOLEAN
      /\ Len(job.todo) \in Nat
      /\ \A k \in 1 .. Len(job.todo) : job.todo[k] \in Types
  BY DEF Job
<1>2. CASE n = Len(job.todo)
  BY <1>2 DEF Rest
<1>3. CASE n # Len(job.todo)
  <2>0. /\ n + 1 \in Int /\ Len(job.todo) \in Int /\ n + 1 <= Len(job.todo)
        /\ \A k \in n + 1 .. Len(job.todo) : job.todo[k] \in Types
    BY <1>1, <1>3
  <2> DEFINE q == SubSeq(job.todo, n + 1, Len(job.todo))
             rest == [type |-> job.type, todo |-> q, id |-> job.id, assign |-> job.assign]
  <2>1. q \in Seq(Types) /\ Len(q) = Len(job.todo) - (n + 1) + 1
    BY <2>0, SubSeqProperties
  <2>3. Rest(job, n) = rest
    BY <1>3 DEF Rest
  <2> HIDE DEF q
  <2>2. q # <<>>
    <3>1. Len(q) # 0
      BY <2>0, <2>1
    <3>2. Len(<<>>) = 0
      OBVIOUS
    <3> QED
      BY <3>1, <3>2
  <2>4. rest \in Job /\ rest.todo # <<>>
    BY <1>1, <2>1, <2>2 DEF Job
  <2> QED
    BY <2>3, <2>4
<1> QED
  BY <1>2, <1>3

LEMMA WalkType ==
  ASSUME TypeOK, NEW th \in Threads, NEW job \in Job, NEW done, Walk(th, job, done)
  PROVE  /\ tp_dict' \in [Types -> Ids \cup {Plain}]
         /\ dict_ring' \in [Types -> [Ids -> Ids \cup {NoDict}]]
         /\ finished' \in [Types -> SUBSET Ids]
         /\ assigned' \in [Types -> SUBSET Ids]
         /\ work' \in [Threads -> Job \cup {Idle}]
         /\ \A u \in Threads : work'[u] # Idle => work'[u].todo # <<>>
<1>0. job.id \in Ids /\ Len(job.todo) \in Nat
  BY DEF Job
<1>1. PICK n \in 0 .. Len(job.todo) :
        /\ tp_dict' = [t \in Types |-> IF t \in Seen(job, n) THEN job.id ELSE tp_dict[t]]
        /\ dict_ring' = [t \in Types |-> IF t \in Seen(job, n) THEN RingFor(t, job.id)
                                         ELSE dict_ring[t]]
        /\ finished' = [t \in Types |-> finished[t] \cup
             {i \in {job.id} : t \in done \cup {u \in Quick(job, n) : Created(u, job.id)}}]
        /\ assigned' = [t \in Types |->
             assigned[t]
               \cup {i \in {job.id} : t \in {u \in Seen(job, n) :
                                               Created(u, job.id) /\ 0 \in assigned[u]}}
               \cup {i \in {IF t \in Seen(job, n) THEN job.id ELSE Current(t)} :
                       t \in {u \in {job.type} : Rest(job, n) = Idle /\ job.assign}}]
        /\ work' = [work EXCEPT ![th] = Rest(job, n)]
  BY DEF Walk
<1>2. tp_dict' \in [Types -> Ids \cup {Plain}]
  BY <1>0, <1>1 DEF TypeOK
<1>3. dict_ring' \in [Types -> [Ids -> Ids \cup {NoDict}]]
  <2>1. \A t \in Types : RingFor(t, job.id) \in [Ids -> Ids \cup {NoDict}]
    BY <1>0, RingType
  <2> QED
    BY <1>1, <2>1 DEF TypeOK
<1>4. finished' \in [Types -> SUBSET Ids]
  BY <1>0, <1>1 DEF TypeOK
<1>5. assigned' \in [Types -> SUBSET Ids]
  <2>1. \A t \in Types : assigned[t] \subseteq Ids /\ Current(t) \in Ids
    BY RingType, <1>0 DEF TypeOK
  <2>2. \A t \in Types : assigned'[t] \subseteq Ids
    BY <1>0, <1>1, <2>1
  <2>3. assigned' = [t \in Types |-> assigned'[t]]
    BY <1>1
  <2> QED
    BY <2>2, <2>3
<1>6. /\ work' \in [Threads -> Job \cup {Idle}]
      /\ \A u \in Threads : work'[u] # Idle => work'[u].todo # <<>>
  BY <1>1, RestType DEF TypeOK
<1> QED
  BY <1>2, <1>3, <1>4, <1>5, <1>6

LEMMA SelectIdType == TypeOK => \A m \in Modules : SelectId(m) \in Ids
BY DEF TypeOK, SelectId

LEMMA RememberType ==
  ASSUME TypeOK, NEW m \in Modules, Remember(m)
  PROVE  cached_globals' \in Modules \cup {NoModule} /\ current_id' \in Ids
BY DEF TypeOK, Remember, idVars

\* Every variable keeps its type.
LEMMA TypeStep == TypeOK /\ [Next]_vars => TypeOK'
<1> SUFFICES ASSUME TypeOK, [Next]_vars PROVE TypeOK'
  OBVIOUS
<1> USE DEF typeVars, dictVars, idVars, cacheVars
<1>1. ASSUME NEW th \in Threads, NEW m \in Modules, NEW t \in Types, NEW assign \in BOOLEAN,
             Select(th, m, t, assign)
      PROVE  TypeOK'
  <2>1. cached_globals' \in Modules \cup {NoModule} /\ current_id' \in Ids
    BY <1>1, RememberType DEF Select
  <2>2. SelectId(m) \in Ids
    BY SelectIdType
  <2>3. CASE Cached(t, SelectId(m))
    <3>1. Touched(t, dict_ring) \in [Ids -> Ids \cup {NoDict}] /\ Current(t) \in Ids
      BY RingType, <2>2
    <3>2. /\ tp_dict' = [tp_dict EXCEPT ![t] = Current(t)]
          /\ dict_ring' = [dict_ring EXCEPT ![t] = Touched(t, dict_ring)]
          /\ assigned' = [assigned EXCEPT ![t] = @ \cup (IF assign THEN {Current(t)} ELSE {})]
          /\ UNCHANGED <<finished, cacheVars, work>>
      BY <1>1, <2>3 DEF Select
    <3>3. /\ tp_dict' \in [Types -> Ids \cup {Plain}]
          /\ dict_ring' \in [Types -> [Ids -> Ids \cup {NoDict}]]
          /\ assigned' \in [Types -> SUBSET Ids]
      BY <3>1, <3>2 DEF TypeOK
    <3> QED
      BY <1>1, <2>1, <3>2, <3>3 DEF Select, TypeOK
  <2>4. CASE ~Cached(t, SelectId(m))
    <3> DEFINE job == [type |-> t, todo |-> Loop(t), id |-> SelectId(m), assign |-> assign]
    <3>1. job \in Job
      BY <2>2 DEF Job, Loop, TypeOK
    <3>2. last_type' = t /\ last_select_id' = SelectId(m) /\ Walk(th, job, {})
      BY <1>1, <2>4 DEF Select
    <3> HIDE DEF job
    <3>3. /\ tp_dict' \in [Types -> Ids \cup {Plain}]
          /\ dict_ring' \in [Types -> [Ids -> Ids \cup {NoDict}]]
          /\ finished' \in [Types -> SUBSET Ids]
          /\ assigned' \in [Types -> SUBSET Ids]
          /\ work' \in [Threads -> Job \cup {Idle}]
          /\ \A u \in Threads : work'[u] # Idle => work'[u].todo # <<>>
      BY <3>1, <3>2, WalkType
    <3> QED
      BY <1>1, <2>1, <2>2, <3>2, <3>3 DEF Select, TypeOK
  <2> QED
    BY <2>3, <2>4
<1>2. ASSUME NEW th \in Threads, Resume(th) PROVE TypeOK'
  <2> DEFINE old == work[th]
             job == [type |-> old.type, todo |-> Tail(old.todo), id |-> old.id,
                     assign |-> old.assign]
  <2>1. old \in Job /\ old.todo # <<>>
    BY <1>2 DEF Resume, TypeOK
  <2>2. job \in Job
    BY <2>1 DEF Job
  <2>3. Walk(th, job, {Head(old.todo)})
    BY <1>2 DEF Resume
  <2> HIDE DEF job
  <2>4. /\ tp_dict' \in [Types -> Ids \cup {Plain}]
        /\ dict_ring' \in [Types -> [Ids -> Ids \cup {NoDict}]]
        /\ finished' \in [Types -> SUBSET Ids]
        /\ assigned' \in [Types -> SUBSET Ids]
        /\ work' \in [Threads -> Job \cup {Idle}]
        /\ \A u \in Threads : work'[u] # Idle => work'[u].todo # <<>>
    BY <2>2, <2>3, WalkType
  <2> QED
    BY <1>2, <2>4 DEF Resume, TypeOK
<1>3. ASSUME NEW m \in Modules, NEW f \in Ids, FeatureImport(m, f) PROVE TypeOK'
  BY <1>3 DEF TypeOK, FeatureImport, ResetIds
<1>4. ASSUME NEW m \in Modules, NewModule(m) PROVE TypeOK'
  BY <1>4 DEF TypeOK, NewModule
<1>5. ASSUME NEW enable \in BOOLEAN, featureEnableCallback(enable) PROVE TypeOK'
  BY <1>5 DEF TypeOK, featureEnableCallback
<1>6. ASSUME NEW t \in UserTypes, NEW b \in Types, NewType(t, b) PROVE TypeOK'
  <2>1. t \in Types /\ <<t>> \o mro[b] \in Seq(Types)
    BY PrependElements DEF TypeOK, Types
  <2>2. mro' \in [Types -> Seq(Types)]
    BY <1>6, <2>1 DEF NewType, TypeOK
  <2>3. /\ tp_dict' \in [Types -> Ids \cup {Plain}]
        /\ dict_ring' \in [Types -> [Ids -> Ids \cup {NoDict}]]
        /\ finished' \in [Types -> SUBSET Ids]
        /\ assigned' \in [Types -> SUBSET Ids]
    BY <1>6, <2>1 DEF NewType, TypeOK, NoRing
  <2> QED
    BY <1>6, <2>1, <2>2, <2>3 DEF NewType, TypeOK
<1>7. ASSUME NEW t \in UserTypes, DestroyType(t) PROVE TypeOK'
  BY <1>7 DEF TypeOK, DestroyType
<1>8. CASE UNCHANGED vars
  BY <1>8 DEF TypeOK, vars
<1> QED
  BY <1>1, <1>2, <1>3, <1>4, <1>5, <1>6, <1>7, <1>8 DEF Next

LEMMA TypeInit == Init => TypeOK
<1> SUFFICES ASSUME Init PROVE TypeOK
  OBVIOUS
<1>1. mro \in [Types -> Seq(Types)]
  <2>1. \A t \in Wrapped : WrappedMro[t] \in Seq(Types)
    BY DEF Types
  <2>2. \A t \in Types : <<t>> \in Seq(Types)
    OBVIOUS
  <2> QED
    BY <2>1, <2>2 DEF Init
<1>2. /\ dict_ring \in [Types -> [Ids -> Ids \cup {NoDict}]]
      /\ tp_dict \in [Types -> Ids \cup {Plain}]
      /\ finished \in [Types -> SUBSET Ids]
      /\ assigned \in [Types -> SUBSET Ids]
      /\ work \in [Threads -> Job \cup {Idle}]
  BY DEF Init, NoRing
<1> QED
  BY <1>1, <1>2 DEF Init, TypeOK, Types

\* Type correctness of the feature selection.
THEOREM TypeCorrect == Spec => []TypeOK
BY TypeInit, TypeStep, PTL DEF Spec

-----------------------------------------------------------------------------
(* Rings *)

RingOk(ring) ==
  /\ 0 \in DictsOf(ring)
  /\ \A i \in DictsOf(ring) : Circle(ring, i) = DictsOf(ring)

\* A dict is its own ring at first.
LEMMA SingletonRing ==
  LET ring == [i \in Ids |-> IF i = 0 THEN 0 ELSE NoDict]
  IN RingOk(ring) /\ DictsOf(ring) = {0}
<1> DEFINE ring == [i \in Ids |-> IF i = 0 THEN 0 ELSE NoDict]
<1>1. DictsOf(ring) = {0}
  BY DEF DictsOf
<1>2. 0 \in Circle(ring, 0)
  BY DEF Circle
<1>3. ASSUME NEW j \in Circle(ring, 0) PROVE j = 0
  <2>1. {0} \in SUBSET Ids /\ 0 \in {0} /\ Closed(ring, {0})
    BY DEF Closed
  <2> QED
    BY <1>3, <2>1 DEF Circle
<1>4. Circle(ring, 0) = {0}
  BY <1>2, <1>3
<1> QED
  BY <1>1, <1>4 DEF RingOk

\* Inserting a dict after dict 0 makes a ring of one dict more.
LEMMA InsertKeepsRing ==
  ASSUME NEW ring \in [Ids -> Ids \cup {NoDict}], RingOk(ring),
         NEW id \in Ids, id \notin DictsOf(ring)
  PROVE  /\ DictsOf(Inserted(ring, 0, id)) = DictsOf(ring) \cup {id}
         /\ RingOk(Inserted(ring, 0, id))
<1> DEFINE new == Inserted(ring, 0, id)
           dicts == DictsOf(ring)
<1>0. 0 \in dicts /\ dicts \in SUBSET Ids /\ id # 0
  BY DEF RingOk, DictsOf
<1>1. /\ new \in [Ids -> Ids \cup {NoDict}]
      /\ new[0] = id
      /\ new[id] = ring[0]
      /\ \A i \in Ids \ {0, id} : new[i] = ring[i]
  BY <1>0 DEF Inserted
<1>2. ASSUME NEW i \in dicts PROVE ring[i] \in dicts
  <2>1. Circle(ring, i) = dicts /\ ring[i] \in Ids
    BY <1>2 DEF RingOk, DictsOf
  <2>2. ring[i] \in Circle(ring, i)
    <3> SUFFICES ASSUME NEW set \in SUBSET Ids, i \in set, Closed(ring, set)
                 PROVE  ring[i] \in set
      BY <2>1 DEF Circle
    <3> QED
      BY <2>1 DEF Closed
  <2> QED
    BY <2>1, <2>2
<1>3. DictsOf(new) = dicts \cup {id}
  <2>1. ring[0] # NoDict
    BY <1>0 DEF DictsOf
  <2>2. \A i \in Ids : new[i] # NoDict <=> i \in dicts \cup {id}
    BY <1>0, <1>1, <2>1 DEF DictsOf
  <2> QED
    BY <2>2, <1>0 DEF DictsOf
<1> HIDE DEF new
<1>4. ASSUME NEW i \in dicts \cup {id} PROVE Circle(new, i) \subseteq dicts \cup {id}
  <2>1. Closed(new, dicts \cup {id})
    <3> SUFFICES ASSUME NEW j \in dicts \cup {id}
                 PROVE  new[j] \in dicts \cup {id}
      BY DEF Closed
    <3>1. CASE j = id \/ j = 0
      BY <1>0, <1>1, <1>2, <3>1
    <3>2. CASE j # id /\ j # 0
      BY <1>0, <1>1, <1>2, <3>2
    <3> QED
      BY <3>1, <3>2
  <2>2. dicts \cup {id} \in SUBSET Ids
    BY <1>0
  <2> QED
    BY <1>4, <2>1, <2>2 DEF Circle
<1>5. ASSUME NEW i \in dicts \cup {id},
             NEW set \in SUBSET Ids, i \in set, Closed(new, set)
      PROVE  dicts \cup {id} \subseteq set
  <2> DEFINE rest == set \ {id}
  <2>1. Closed(ring, rest)
    <3> SUFFICES ASSUME NEW j \in rest, ring[j] # NoDict PROVE ring[j] \in rest
      BY DEF Closed
    <3>1. j \in dicts /\ ring[j] \in dicts
      BY <1>2 DEF DictsOf
    <3>2. ring[j] # id
      BY <3>1
    <3>3. CASE j = 0
      <4>1. id \in set
        BY <1>0, <1>1, <1>5, <3>3 DEF Closed
      <4> QED
        BY <1>1, <1>5, <3>1, <3>2, <3>3, <4>1 DEF Closed
    <3>4. CASE j # 0
      BY <1>1, <1>5, <3>2, <3>4 DEF Closed
    <3> QED
      BY <3>3, <3>4
  <2>2. \E j \in dicts : j \in rest
    <3>1. CASE i = id
      <4>1. ring[0] \in dicts
        BY <1>0, <1>2
      <4>2. ring[0] \in set
        BY <1>1, <1>5, <3>1, <4>1, <1>0 DEF Closed
      <4> QED
        BY <4>1, <4>2
    <3>2. CASE i # id
      BY <1>5, <3>2
    <3> QED
      BY <3>1, <3>2
  <2>3. dicts \subseteq rest
    <3>1. PICK j \in dicts : j \in rest
      BY <2>2
    <3>2. Circle(ring, j) = dicts
      BY DEF RingOk
    <3>3. rest \in SUBSET Ids
      OBVIOUS
    <3>4. Circle(ring, j) \subseteq rest
      BY <2>1, <3>1, <3>3 DEF Circle
    <3> QED
      BY <3>2, <3>4
  <2>4. id \in set
    BY <1>0, <1>1, <1>5, <2>3 DEF Closed
  <2> QED
    BY <2>3, <2>4
<1>6. ASSUME NEW i \in dicts \cup {id} PROVE dicts \cup {id} \subseteq Circle(new, i)
  BY <1>0, <1>5 DEF Circle
<1>7. \A i \in dicts \cup {id} : Circle(new, i) = dicts \cup {id}
  BY <1>4, <1>6
<1> QED
  BY <1>0, <1>3, <1>7 DEF RingOk, new

\* What RingWhole gives for the ring of one class.
LEMMA TouchedRing ==
  ASSUME TypeOK, RingWhole, NEW t \in Types
  PROVE  RingOk(Touched(t, dict_ring)) /\ Current(t) \in DictsOf(Touched(t, dict_ring))
<1>1. CASE tp_dict[t] = Plain
  BY <1>1, SingletonRing DEF Touched, Current
<1>2. CASE tp_dict[t] # Plain
  BY <1>2 DEF RingWhole, RingOk, Touched, Current
<1> QED
  BY <1>1, <1>2

LEMMA RingForOk ==
  ASSUME TypeOK, RingWhole, NEW t \in Types, NEW id \in Ids
  PROVE  /\ RingOk(RingFor(t, id))
         /\ id \in DictsOf(RingFor(t, id))
         /\ DictsOf(RingFor(t, id)) = DictsOf(Touched(t, dict_ring)) \cup {id}
         /\ Created(t, id) <=> id \notin DictsOf(Touched(t, dict_ring))
<1> DEFINE ring == Touched(t, dict_ring)
<1>1. ring \in [Ids -> Ids \cup {NoDict}]
  BY RingType
<1>2. RingOk(ring) /\ Circle(ring, Current(t)) = DictsOf(ring)
  BY TouchedRing DEF RingOk
<1>3. Has(ring, Current(t), id) <=> id \in DictsOf(ring)
  BY <1>2 DEF Has
<1>4. Created(t, id) <=> id \notin DictsOf(ring)
  BY <1>3 DEF Created
<1>5. RingFor(t, id) = IF id \in DictsOf(ring) THEN ring ELSE Inserted(ring, 0, id)
  BY <1>3 DEF RingFor
<1> HIDE DEF ring
<1>6. CASE id \in DictsOf(ring)
  BY <1>2, <1>4, <1>5, <1>6 DEF ring
<1>7. CASE id \notin DictsOf(ring)
  BY <1>1, <1>2, <1>4, <1>5, <1>7, InsertKeepsRing DEF ring
<1> QED
  BY <1>6, <1>7

LEMMA WalkKeepsRings ==
  ASSUME TypeOK, RingWhole, NEW th \in Threads, NEW job \in Job, NEW done, Walk(th, job, done)
  PROVE  RingWhole'
<1>1. PICK n \in 0 .. Len(job.todo) :
        /\ tp_dict' = [t \in Types |-> IF t \in Seen(job, n) THEN job.id ELSE tp_dict[t]]
        /\ dict_ring' = [t \in Types |-> IF t \in Seen(job, n) THEN RingFor(t, job.id)
                                         ELSE dict_ring[t]]
  BY DEF Walk
<1> SUFFICES ASSUME NEW t \in Types, tp_dict'[t] # Plain
             PROVE  RingOk(dict_ring'[t]) /\ tp_dict'[t] \in DictsOf(dict_ring'[t])
  BY DEF RingWhole, RingOk
<1>2. CASE t \in Seen(job, n)
  BY <1>1, <1>2, RingForOk DEF Job
<1>3. CASE t \notin Seen(job, n)
  BY <1>1, <1>3 DEF RingWhole, RingOk
<1> QED
  BY <1>2, <1>3

LEMMA RingStep == TypeOK /\ RingWhole /\ [Next]_vars => RingWhole'
<1> SUFFICES ASSUME TypeOK, RingWhole, [Next]_vars PROVE RingWhole'
  OBVIOUS
<1> USE DEF typeVars, dictVars, idVars, cacheVars
<1>1. ASSUME NEW th \in Threads, NEW m \in Modules, NEW t \in Types, NEW assign \in BOOLEAN,
             Select(th, m, t, assign)
      PROVE  RingWhole'
  <2>1. CASE Cached(t, SelectId(m))
    <3>1. /\ tp_dict' = [tp_dict EXCEPT ![t] = Current(t)]
          /\ dict_ring' = [dict_ring EXCEPT ![t] = Touched(t, dict_ring)]
      BY <1>1, <2>1 DEF Select
    <3>2. RingOk(dict_ring'[t]) /\ tp_dict'[t] \in DictsOf(dict_ring'[t])
      BY <3>1, TouchedRing DEF TypeOK
    <3>3. \A u \in Types \ {t} : tp_dict'[u] = tp_dict[u] /\ dict_ring'[u] = dict_ring[u]
      BY <3>1 DEF TypeOK
    <3> QED
      BY <3>2, <3>3 DEF RingWhole, RingOk
  <2>2. CASE ~Cached(t, SelectId(m))
    <3> DEFINE job == [type |-> t, todo |-> Loop(t), id |-> SelectId(m), assign |-> assign]
    <3>1. job \in Job
      BY SelectIdType DEF Job, Loop, TypeOK
    <3>2. Walk(th, job, {})
      BY <1>1, <2>2 DEF Select
    <3> QED
      BY <3>1, <3>2, WalkKeepsRings
  <2> QED
    BY <2>1, <2>2
<1>2. ASSUME NEW th \in Threads, Resume(th) PROVE RingWhole'
  <2> DEFINE old == work[th]
             job == [type |-> old.type, todo |-> Tail(old.todo), id |-> old.id,
                     assign |-> old.assign]
  <2>1. old \in Job /\ old.todo # <<>>
    BY <1>2 DEF Resume, TypeOK
  <2>2. job \in Job
    BY <2>1 DEF Job
  <2>3. Walk(th, job, {Head(old.todo)})
    BY <1>2 DEF Resume
  <2> QED
    BY <2>2, <2>3, WalkKeepsRings
<1>3. ASSUME NEW t \in UserTypes, NEW b \in Types, NewType(t, b) PROVE RingWhole'
  <2>1. \A u \in Types : IF u = t THEN tp_dict'[u] = Plain
                         ELSE tp_dict'[u] = tp_dict[u] /\ dict_ring'[u] = dict_ring[u]
    BY <1>3 DEF NewType, TypeOK
  <2> QED
    BY <2>1 DEF RingWhole
<1>4. ASSUME UNCHANGED dictVars PROVE RingWhole'
  BY <1>4 DEF RingWhole
<1>5. ASSUME NEW m \in Modules, NEW f \in Ids, FeatureImport(m, f) PROVE RingWhole'
  BY <1>4, <1>5 DEF FeatureImport
<1>6. ASSUME NEW m \in Modules, NewModule(m) PROVE RingWhole'
  BY <1>4, <1>6 DEF NewModule
<1>7. ASSUME NEW enable \in BOOLEAN, featureEnableCallback(enable) PROVE RingWhole'
  BY <1>4, <1>7 DEF featureEnableCallback
<1>8. ASSUME NEW t \in UserTypes, DestroyType(t) PROVE RingWhole'
  BY <1>4, <1>8 DEF DestroyType
<1>9. CASE UNCHANGED vars
  BY <1>4, <1>9 DEF vars
<1> QED
  BY <1>1, <1>2, <1>3, <1>5, <1>6, <1>7, <1>8, <1>9 DEF Next

\* The dicts of a class form one ring that holds dict 0 and the dict in place,
\* whatever threads do meanwhile and whichever classes die.
THEOREM RingsWhole == Spec => []RingWhole
<1>1. Init => RingWhole
  BY DEF Init, RingWhole
<1>2. (TypeOK /\ RingWhole) /\ [Next]_vars => (TypeOK /\ RingWhole)'
  BY TypeStep, RingStep
<1>3. Init => TypeOK
  BY TypeInit
<1> QED
  BY <1>1, <1>2, <1>3, PTL DEF Spec

-----------------------------------------------------------------------------
(* The cache *)

Quiet == ~Switches /\ ~TypesDie

NobodyWaits == \A th \in Threads : work[th] = Idle

BasesLive == \A t \in alive : t \in ToSet(mro[t]) /\ ToSet(mro[t]) \subseteq alive

RingsComplete ==
  \A t \in Types : 0 \in finished[t] /\ DictsOf(dict_ring[t]) \subseteq finished[t]

CacheInv ==
  /\ TypeOK
  /\ RingWhole
  /\ NobodyWaits
  /\ BasesLive
  /\ RingsComplete
  /\ RememberedFeatures
  /\ last_type \in alive \cup {NoType}
  /\ CacheTruthful

\* Nothing being slow, a walk goes through.
LEMMA WholeWalk ==
  ASSUME TypeOK, NobodyWaits, ~Switches, NEW th \in Threads, NEW job \in Job,
         Walk(th, job, {})
  PROVE  /\ \A t \in Types :
              /\ t \in ToSet(job.todo) =>
                   /\ tp_dict'[t] = job.id
                   /\ dict_ring'[t] = RingFor(t, job.id)
                   /\ finished'[t] = finished[t] \cup (IF Created(t, job.id) THEN {job.id} ELSE {})
              /\ t \notin ToSet(job.todo) =>
                   /\ tp_dict'[t] = tp_dict[t]
                   /\ dict_ring'[t] = dict_ring[t]
                   /\ finished'[t] = finished[t]
         /\ job.assign /\ job.type \in ToSet(job.todo) => job.id \in assigned'[job.type]
         /\ work' = work
<1>0. /\ job.type \in Types /\ job.todo \in Seq(Types) /\ Len(job.todo) \in Nat
      /\ DOMAIN job.todo = 1 .. Len(job.todo)
  BY DEF Job
<1>1. PICK n \in 0 .. Len(job.todo) :
        /\ StopsAt(job, n)
        /\ tp_dict' = [t \in Types |-> IF t \in Seen(job, n) THEN job.id ELSE tp_dict[t]]
        /\ dict_ring' = [t \in Types |-> IF t \in Seen(job, n) THEN RingFor(t, job.id)
                                         ELSE dict_ring[t]]
        /\ finished' = [t \in Types |-> finished[t] \cup
             {i \in {job.id} : t \in {} \cup {u \in Quick(job, n) : Created(u, job.id)}}]
        /\ assigned' = [t \in Types |->
             assigned[t]
               \cup {i \in {job.id} : t \in {u \in Seen(job, n) :
                                               Created(u, job.id) /\ 0 \in assigned[u]}}
               \cup {i \in {IF t \in Seen(job, n) THEN job.id ELSE Current(t)} :
                       t \in {u \in {job.type} : Rest(job, n) = Idle /\ job.assign}}]
        /\ work' = [work EXCEPT ![th] = Rest(job, n)]
  BY DEF Walk
<1>2. n = Len(job.todo)
  BY <1>0, <1>1 DEF StopsAt, Slow
<1>3. Seen(job, n) = ToSet(job.todo) /\ Quick(job, n) = ToSet(job.todo)
  <2>1. (1 .. n + 1) \cap DOMAIN job.todo = DOMAIN job.todo /\ 1 .. n = DOMAIN job.todo
    BY <1>0, <1>2
  <2> QED
    BY <2>1 DEF Seen, Quick, ToSet
<1>4. Rest(job, n) = Idle
  BY <1>2 DEF Rest
<1>5. work' = work
  BY <1>1, <1>4 DEF NobodyWaits, TypeOK
<1>6. job.assign /\ job.type \in ToSet(job.todo) => job.id \in assigned'[job.type]
  BY <1>0, <1>1, <1>3, <1>4
<1>7. ASSUME NEW t \in Types
      PROVE  /\ t \in ToSet(job.todo) =>
                  /\ tp_dict'[t] = job.id
                  /\ dict_ring'[t] = RingFor(t, job.id)
                  /\ finished'[t] = finished[t] \cup (IF Created(t, job.id) THEN {job.id} ELSE {})
             /\ t \notin ToSet(job.todo) =>
                  /\ tp_dict'[t] = tp_dict[t]
                  /\ dict_ring'[t] = dict_ring[t]
                  /\ finished'[t] = finished[t]
  BY <1>1, <1>3
<1> QED
  BY <1>5, <1>6, <1>7

\* An access puts in place what it has selected and keeps the cache right.
LEMMA SelectRight ==
  ASSUME CacheInv, TypeOK', RingWhole', ~Switches,
         NEW th \in Threads, NEW m \in Modules, NEW t \in Types, NEW assign \in BOOLEAN,
         Select(th, m, t, assign)
  PROVE  /\ \A u \in ToSet(mro[t]) : tp_dict'[u] = SelectId(m) /\ SelectId(m) \in finished'[u]
         /\ assign => SelectId(m) \in assigned'[t]
         /\ RingsComplete' /\ NobodyWaits' /\ CacheTruthful'
         /\ last_type' \in alive
<1> DEFINE id == SelectId(m)
<1> USE DEF typeVars, cacheVars
<1>0. /\ id \in Ids /\ TypeOK /\ RingWhole /\ NobodyWaits /\ RingsComplete
      /\ t \in alive /\ alive \subseteq Types /\ t \in ToSet(mro[t])
      /\ ToSet(mro[t]) \subseteq Types
      /\ UNCHANGED <<alive, mro>>
  BY SelectIdType DEF CacheInv, BasesLive, Select, TypeOK
<1>1. CASE Cached(t, id)
  <2>1. \A u \in ToSet(mro[t]) : tp_dict[u] = id
    BY <1>0, <1>1 DEF CacheInv, CacheTruthful, NobodyWaits, InPlace, Cached
  <2>2. tp_dict[t] = id /\ tp_dict[t] # Plain
    BY <1>0, <2>1
  <2>3. /\ tp_dict' = [tp_dict EXCEPT ![t] = Current(t)]
        /\ dict_ring' = [dict_ring EXCEPT ![t] = Touched(t, dict_ring)]
        /\ assigned' = [assigned EXCEPT ![t] = @ \cup (IF assign THEN {Current(t)} ELSE {})]
        /\ UNCHANGED <<finished, last_type, last_select_id, work>>
    BY <1>1 DEF Select
  <2>4. tp_dict' = tp_dict /\ dict_ring' = dict_ring
    BY <1>0, <2>2, <2>3 DEF Current, Touched, TypeOK
  <2>5. assign => id \in assigned'[t]
    BY <1>0, <2>2, <2>3 DEF Current, TypeOK
  <2>6. \A u \in ToSet(mro[t]) : id \in finished[u]
    BY <1>0, <2>1 DEF RingWhole, RingsComplete
  <2>7. RingsComplete' /\ NobodyWaits' /\ CacheTruthful'
    BY <1>0, <2>3, <2>4 DEF RingsComplete, NobodyWaits, CacheInv, CacheTruthful, InPlace
  <2> QED
    BY <1>0, <1>1, <2>1, <2>3, <2>4, <2>5, <2>6, <2>7 DEF Cached
<1>2. CASE ~Cached(t, id)
  <2> DEFINE job == [type |-> t, todo |-> Loop(t), id |-> id, assign |-> assign]
  <2>1. job \in Job
    BY <1>0 DEF Job, Loop, TypeOK
  <2>2. Walk(th, job, {}) /\ last_type' = t /\ last_select_id' = id
    BY <1>2 DEF Select
  <2>3. job.id = id /\ job.todo = mro[t] /\ job.type = t /\ job.assign = assign
    BY DEF Loop
  <2> HIDE DEF job, id
  <2>4. /\ \A u \in Types :
              /\ u \in ToSet(mro[t]) =>
                   /\ tp_dict'[u] = id
                   /\ dict_ring'[u] = RingFor(u, id)
                   /\ finished'[u] = finished[u] \cup (IF Created(u, id) THEN {id} ELSE {})
              /\ u \notin ToSet(mro[t]) =>
                   /\ tp_dict'[u] = tp_dict[u]
                   /\ dict_ring'[u] = dict_ring[u]
                   /\ finished'[u] = finished[u]
        /\ assign => id \in assigned'[t]
        /\ work' = work
    BY <1>0, <2>1, <2>2, <2>3, WholeWalk
  <2>5. ASSUME NEW u \in Types
        PROVE  DictsOf(Touched(u, dict_ring)) \subseteq finished[u]
    <3>1. CASE tp_dict[u] = Plain
      <4>1. DictsOf(Touched(u, dict_ring)) = {0}
        BY <3>1, SingletonRing DEF Touched
      <4> QED
        BY <1>0, <4>1 DEF RingsComplete
    <3>2. CASE tp_dict[u] # Plain
      BY <1>0, <3>2 DEF RingsComplete, Touched
    <3> QED
      BY <3>1, <3>2
  <2>6. ASSUME NEW u \in ToSet(mro[t])
        PROVE  DictsOf(RingFor(u, id)) \subseteq finished'[u] /\ id \in finished'[u]
    <3>1. /\ u \in Types
          /\ DictsOf(RingFor(u, id)) = DictsOf(Touched(u, dict_ring)) \cup {id}
          /\ Created(u, id) <=> id \notin DictsOf(Touched(u, dict_ring))
      BY <1>0, RingForOk
    <3> QED
      BY <2>4, <2>5, <3>1
  <2>7. RingsComplete'
    BY <1>0, <2>4, <2>6 DEF RingsComplete
  <2>8. CacheTruthful' /\ NobodyWaits'
    BY <1>0, <2>2, <2>4 DEF CacheTruthful, InPlace, NobodyWaits
  <2> QED
    BY <1>0, <2>2, <2>4, <2>6, <2>7, <2>8 DEF id
<1> QED
  BY <1>1, <1>2

LEMMA CacheStep ==
  ASSUME Quiet
  PROVE  CacheInv /\ [Next]_vars => CacheInv'
<1> SUFFICES ASSUME CacheInv, [Next]_vars PROVE CacheInv'
  OBVIOUS
<1>0. TypeOK' /\ RingWhole'
  BY TypeStep, RingStep DEF CacheInv
<1> USE DEF typeVars, dictVars, idVars, cacheVars
<1>1. ASSUME NEW th \in Threads, NEW m \in Modules, NEW t \in Types, NEW assign \in BOOLEAN,
             Select(th, m, t, assign)
      PROVE  CacheInv'
  <2>1. /\ RingsComplete' /\ NobodyWaits' /\ CacheTruthful'
        /\ last_type' \in alive
    BY <1>0, <1>1, SelectRight DEF Quiet
  <2>2. UNCHANGED <<alive, mro, features>> /\ Remember(m)
    BY <1>1 DEF Select
  <2>3. BasesLive'
    BY <2>2 DEF CacheInv, BasesLive
  <2>4. RememberedFeatures'
    BY <2>2 DEF CacheInv, RememberedFeatures, Remember
  <2> QED
    BY <1>0, <2>1, <2>2, <2>3, <2>4 DEF CacheInv
<1>2. ASSUME NEW th \in Threads, Resume(th) PROVE FALSE
  BY <1>2 DEF Resume, CacheInv, NobodyWaits
<1>3. ASSUME NEW m \in Modules, NEW f \in Ids, FeatureImport(m, f) PROVE CacheInv'
  BY <1>0, <1>3 DEF FeatureImport, ResetIds, CacheInv, BasesLive, RingsComplete, NobodyWaits,
                    RememberedFeatures, CacheTruthful, InPlace
<1>4. ASSUME NEW m \in Modules, NewModule(m) PROVE CacheInv'
  <2>1. RememberedFeatures'
    BY <1>4 DEF NewModule, CacheInv, RememberedFeatures, TypeOK
  <2> QED
    BY <1>0, <1>4, <2>1 DEF NewModule, CacheInv, BasesLive, RingsComplete, NobodyWaits,
                            CacheTruthful, InPlace
<1>5. ASSUME NEW enable \in BOOLEAN, featureEnableCallback(enable) PROVE CacheInv'
  BY <1>0, <1>5 DEF featureEnableCallback, CacheInv, BasesLive, RingsComplete, NobodyWaits,
                    RememberedFeatures, CacheTruthful, InPlace
<1>6. ASSUME NEW t \in UserTypes, NEW b \in Types, NewType(t, b) PROVE CacheInv'
  <2>1. /\ t \notin alive /\ b \in alive /\ alive' = alive \cup {t} /\ t \in Types
        /\ UNCHANGED <<features, cached_globals, current_id, last_type, last_select_id, work>>
    BY <1>6 DEF NewType, Types
  <2>2. mro'[t] = <<t>> \o mro[b] /\ \A u \in Types \ {t} : mro'[u] = mro[u]
    BY <1>6, <2>1 DEF NewType, CacheInv, TypeOK
  <2>3. ToSet(mro'[t]) = {t} \cup ToSet(mro[b])
    BY <2>1, <2>2, PrependElements DEF CacheInv, TypeOK
  <2>4. /\ finished'[t] = {0} /\ dict_ring'[t] = NoRing
        /\ \A u \in Types \ {t} : /\ tp_dict'[u] = tp_dict[u]
                                  /\ finished'[u] = finished[u]
                                  /\ dict_ring'[u] = dict_ring[u]
    BY <1>6, <2>1 DEF NewType, CacheInv, TypeOK
  <2>5. BasesLive'
    BY <2>1, <2>2, <2>3 DEF CacheInv, BasesLive, TypeOK
  <2>6. RingsComplete'
    <3>1. DictsOf(NoRing) = {}
      BY DEF DictsOf, NoRing
    <3> QED
      BY <2>4, <3>1 DEF CacheInv, RingsComplete
  <2>7. CacheTruthful'
    <3> SUFFICES ASSUME last_type' \in alive'
                 PROVE  InPlace(last_type, last_select_id)'
      BY DEF CacheTruthful
    <3>1. last_type \in alive /\ last_type # t /\ last_type' = last_type
      BY <2>1 DEF CacheInv
    <3>2. InPlace(last_type, last_select_id)
      BY <3>1 DEF CacheInv, CacheTruthful, NobodyWaits
    <3>3. mro'[last_type] = mro[last_type] /\ t \notin ToSet(mro[last_type])
      BY <2>1, <2>2, <3>1 DEF CacheInv, BasesLive, TypeOK
    <3>4. ToSet(mro[last_type]) \subseteq Types
      BY <3>1 DEF CacheInv, BasesLive, TypeOK
    <3> QED
      BY <2>1, <2>4, <3>2, <3>3, <3>4 DEF InPlace
  <2> QED
    BY <1>0, <2>1, <2>5, <2>6, <2>7 DEF CacheInv, NobodyWaits, RememberedFeatures
<1>7. ASSUME NEW t \in UserTypes, DestroyType(t) PROVE FALSE
  BY <1>7 DEF DestroyType, Quiet
<1>8. CASE UNCHANGED vars
  BY <1>0, <1>8 DEF vars, CacheInv, BasesLive, RingsComplete, NobodyWaits,
                    RememberedFeatures, CacheTruthful, InPlace
<1> QED
  BY <1>1, <1>2, <1>3, <1>4, <1>5, <1>6, <1>7, <1>8 DEF Next

LEMMA CacheInit == Init => CacheInv
<1> SUFFICES ASSUME Init PROVE CacheInv
  OBVIOUS
<1>1. BasesLive
  <2>1. \A t \in Wrapped : ToSet(WrappedMro[t]) \subseteq Wrapped
    BY DEF ToSet
  <2> QED
    BY <2>1 DEF Init, BasesLive, Types
<1>2. RingsComplete
  BY DEF Init, RingsComplete, DictsOf, NoRing
<1>3. RingWhole
  BY DEF Init, RingWhole
<1>4. last_type \notin alive
  BY DEF Init, Types
<1> QED
  BY TypeInit, <1>1, <1>2, <1>3, <1>4
  DEF Init, CacheInv, NobodyWaits, RememberedFeatures, CacheTruthful

\* What getFeatureSelectId() remembers is never outdated: whatever threads do and
\* whichever classes die, it is what the module that it was read for has asked for.
THEOREM FeaturesRemembered == Spec => []RememberedFeatures
<1>1. Init => RememberedFeatures
  BY DEF Init, RememberedFeatures
<1>2. TypeOK /\ RememberedFeatures /\ [Next]_vars => RememberedFeatures'
  <2> SUFFICES ASSUME TypeOK, RememberedFeatures, [Next]_vars PROVE RememberedFeatures'
    OBVIOUS
  <2>1. UNCHANGED <<features, idVars>> => RememberedFeatures'
    BY DEF RememberedFeatures, idVars
  <2>2. ASSUME NEW th \in Threads, NEW m \in Modules, NEW t \in Types, NEW assign \in BOOLEAN,
               Select(th, m, t, assign)
        PROVE  RememberedFeatures'
    BY <2>2 DEF Select, Remember, RememberedFeatures, idVars
  <2>3. ASSUME NEW th \in Threads, Resume(th) PROVE RememberedFeatures'
    BY <2>1, <2>3 DEF Resume
  <2>4. ASSUME NEW m \in Modules, NEW f \in Ids, FeatureImport(m, f) PROVE RememberedFeatures'
    BY <2>4 DEF FeatureImport, ResetIds, RememberedFeatures
  <2>5. ASSUME NEW m \in Modules, NewModule(m) PROVE RememberedFeatures'
    BY <2>5 DEF NewModule, RememberedFeatures, TypeOK, idVars
  <2>6. ASSUME NEW enable \in BOOLEAN, featureEnableCallback(enable)
        PROVE  RememberedFeatures'
    BY <2>1, <2>6 DEF featureEnableCallback
  <2>7. ASSUME NEW t \in UserTypes, NEW base \in Types, NewType(t, base)
        PROVE  RememberedFeatures'
    BY <2>1, <2>7 DEF NewType
  <2>8. ASSUME NEW t \in UserTypes, DestroyType(t) PROVE RememberedFeatures'
    BY <2>1, <2>8 DEF DestroyType
  <2>9. CASE UNCHANGED vars
    BY <2>1, <2>9 DEF vars
  <2> QED
    BY <2>2, <2>3, <2>4, <2>5, <2>6, <2>7, <2>8, <2>9 DEF Next
<1> QED
  BY <1>1, <1>2, TypeCorrect, PTL DEF Spec

\* The cache of the last selection cannot fail, if nothing is collected and no
\* other thread runs during a selection.
THEOREM CacheCannotFail ==
  ASSUME Quiet
  PROVE  Spec => []CacheTruthful
<1>1. CacheInv /\ [Next]_vars => CacheInv'
  BY CacheStep
<1>2. CacheInv => CacheTruthful
  BY DEF CacheInv
<1> QED
  BY CacheInit, <1>1, <1>2, PTL DEF Spec

\* And then every access finds the features of the module that makes it.
THEOREM FeaturesRespected ==
  ASSUME Quiet
  PROVE  Spec => AccessSeesItsFeatures
<1>1. CacheInv /\ [Next]_vars => CacheInv'
  BY CacheStep
<1>2. CacheInv /\ CacheInv' => AccessRight
  <2> SUFFICES ASSUME CacheInv, CacheInv',
                      NEW th \in Threads, NEW m \in Modules, NEW t \in Types, NEW assign \in BOOLEAN,
                      Select(th, m, t, assign), features[m] # Inherit
               PROVE  /\ \A u \in ToSet(mro[t]) :
                           tp_dict'[u] = features[m] /\ features[m] \in finished'[u]
                      /\ assign => features[m] \in assigned'[t]
    BY DEF AccessRight, Access
  <2>1. SelectId(m) = features[m]
    BY DEF SelectId, CacheInv, RememberedFeatures
  <2> QED
    BY <2>1, SelectRight DEF CacheInv, Quiet
<1> QED
  BY CacheInit, <1>1, <1>2, PTL DEF Spec, AccessSeesItsFeatures

=============================================================================
