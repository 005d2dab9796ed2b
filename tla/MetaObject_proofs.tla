--------------------------- MODULE MetaObject_proofs ---------------------------
(***************************************************************************)
(* Proofs about MetaObject, for all classes, objects, methods and threads. *)
(*                                                                         *)
(* The meta objects of an object only grow, wherever Python code takes the *)
(* GIL away, and those of a class have its signals first.  That the        *)
(* indexes handed out stay right and unique is proved where Python code    *)
(* does not take it (the runs of MetaObject show that it fails else).      *)
(***************************************************************************)
EXTENDS MetaObject, CommonLemmas, SequenceTheorems, TLAPS

USE ClassAssumption, SpecialAssumption

-----------------------------------------------------------------------------
(* Builders *)

\* All methods a builder knows of.
Full(b) == b.base \o b.own

\* The methods last built are those the builder has, but for the latest.
Sound(b) ==
  /\ IsPrefix(b.cached, b.own)
  /\ ~b.made => b.own = <<>> /\ b.cached = <<>>

LEMMA PrefixOfConcat ==
  ASSUME NEW S, NEW s \in Seq(S), NEW t \in Seq(S), NEW u \in Seq(S), IsPrefix(t, u)
  PROVE  IsPrefix(s \o t, s \o u)
<1>1. /\ s \o t \in Seq(S) /\ Len(s \o t) = Len(s) + Len(t)
      /\ s \o u \in Seq(S) /\ Len(s \o u) = Len(s) + Len(u)
      /\ \A i \in 1 .. Len(s) + Len(t) : (s \o t)[i] = IF i <= Len(s) THEN s[i] ELSE t[i - Len(s)]
      /\ \A i \in 1 .. Len(s) + Len(u) : (s \o u)[i] = IF i <= Len(s) THEN s[i] ELSE u[i - Len(s)]
  BY ConcatProperties
<1>2. Len(s) \in Nat /\ Len(t) \in Nat /\ Len(u) \in Nat
  OBVIOUS
<1>3. /\ Len(t) <= Len(u)
      /\ \A i \in 1 .. Len(t) : t[i] = u[i]
  <2>1. Len(t) <= Len(u) /\ SubSeq(t, 1, Len(t)) = SubSeq(u, 1, Len(t))
    BY DEF IsPrefix
  <2>2. \A i \in 1 .. Len(t) : SubSeq(u, 1, Len(t))[i] = u[i]
    BY <1>2, <2>1
  <2>3. SubSeq(t, 1, Len(t)) = t
    BY SubSeqFull
  <2> QED
    BY <2>1, <2>2, <2>3
<1>4. \A i \in 1 .. Len(s) + Len(t) : (s \o t)[i] = (s \o u)[i]
  BY <1>1, <1>2, <1>3
<1> DEFINE st == s \o t
           su == s \o u
           p == SubSeq(su, 1, Len(st))
<1>5. p \in Seq(S) /\ Len(p) = Len(st) /\ \A i \in 1 .. Len(st) : p[i] = su[i]
  BY <1>1, <1>2, <1>3
<1>6. SubSeq(st, 1, Len(st)) = st
  BY <1>1, SubSeqFull
<1>7. st = p
  BY <1>1, <1>4, <1>5, SeqEqual
<1> QED
  BY <1>1, <1>2, <1>3, <1>6, <1>7 DEF IsPrefix

LEMMA PrefixRefl ==
  ASSUME NEW S, NEW s \in Seq(S)
  PROVE  IsPrefix(s, s) /\ IsPrefix(<<>>, s)
BY DEF IsPrefix

LEMMA PrefixElements ==
  ASSUME NEW S, NEW s \in Seq(S), NEW t \in Seq(S)
  PROVE  IsPrefix(s, t) <=> Len(s) <= Len(t) /\ \A i \in 1 .. Len(s) : s[i] = t[i]
<1>1. Len(s) \in Nat /\ Len(t) \in Nat /\ SubSeq(s, 1, Len(s)) = s
  BY SubSeqFull
<1>2. ASSUME Len(s) <= Len(t)
      PROVE  /\ SubSeq(t, 1, Len(s)) \in Seq(S) /\ Len(SubSeq(t, 1, Len(s))) = Len(s)
             /\ \A i \in 1 .. Len(s) : SubSeq(t, 1, Len(s))[i] = t[i]
  BY <1>1, <1>2
<1>3. ASSUME Len(s) <= Len(t), \A i \in 1 .. Len(s) : s[i] = t[i]
      PROVE  s = SubSeq(t, 1, Len(s))
  <2> DEFINE p == SubSeq(t, 1, Len(s))
  <2>1. p \in Seq(S) /\ Len(p) = Len(s) /\ \A i \in 1 .. Len(s) : p[i] = s[i]
    BY <1>2, <1>3
  <2> HIDE DEF p
  <2>2. p = s
    BY <2>1, SeqEqual
  <2> QED
    BY <2>2 DEF p
<1> QED
  BY <1>1, <1>2, <1>3 DEF IsPrefix

LEMMA PrefixTransitive ==
  ASSUME NEW S, NEW s \in Seq(S), NEW t \in Seq(S), NEW u \in Seq(S),
         IsPrefix(s, t), IsPrefix(t, u)
  PROVE  IsPrefix(s, u)
<1>1. Len(s) \in Nat /\ Len(t) \in Nat /\ Len(u) \in Nat
  OBVIOUS
<1>2. /\ Len(s) <= Len(t) /\ \A i \in 1 .. Len(s) : s[i] = t[i]
      /\ Len(t) <= Len(u) /\ \A i \in 1 .. Len(t) : t[i] = u[i]
  BY PrefixElements
<1>3. Len(s) <= Len(u) /\ \A i \in 1 .. Len(s) : s[i] = u[i]
  BY <1>1, <1>2
<1> QED
  BY <1>3, PrefixElements

LEMMA PrefixAppend ==
  ASSUME NEW S, NEW s \in Seq(S), NEW t \in Seq(S), NEW x \in S, IsPrefix(s, t)
  PROVE  IsPrefix(s, Append(t, x))
<1>1. /\ Append(t, x) \in Seq(S) /\ Len(Append(t, x)) = Len(t) + 1
      /\ \A i \in 1 .. Len(t) : Append(t, x)[i] = t[i]
  BY AppendProperties
<1>2. Len(s) <= Len(t) /\ SubSeq(s, 1, Len(s)) = SubSeq(t, 1, Len(s))
  BY DEF IsPrefix
<1>3. SubSeq(Append(t, x), 1, Len(s)) = SubSeq(t, 1, Len(s))
  BY <1>1, <1>2
<1> QED
  BY <1>1, <1>2, <1>3 DEF IsPrefix

LEMMA AppendToFull ==
  ASSUME NEW b \in Builder, NEW m \in Method
  PROVE  Full(Added(b, m)) = Append(Full(b), m)
<1> DEFINE s == b.base
           t == b.own
<1>1. s \in Seq(Method) /\ t \in Seq(Method)
  BY DEF Builder
<1>2. Full(Added(b, m)) = s \o Append(t, m) /\ Full(b) = s \o t
  BY DEF Full, Added, Builder
<1> HIDE DEF s, t
<1>3. Append(t, m) = t \o <<m>> /\ Append(s \o t, m) = (s \o t) \o <<m>> /\ <<m>> \in Seq(Method)
  BY <1>1, AppendIsConcat, ConcatProperties
<1>4. (s \o t) \o <<m>> = s \o (t \o <<m>>)
  BY <1>1, <1>3, ConcatAssociative
<1> QED
  BY <1>2, <1>3, <1>4

\* What the operators on builders give.
LEMMA BuilderFacts ==
  ASSUME NEW b \in Builder
  PROVE  /\ Returned(b) \in Seq(Method)
         /\ Full(b) \in Seq(Method)
         /\ Built(b) \in Builder /\ Updated(b) \in Builder
         /\ [b EXCEPT !.dirty = FALSE] \in Builder
         /\ Full(Built(b)) = Full(b) /\ Full(Updated(b)) = Full(b)
         /\ \A m \in Method : Added(b, m) \in Builder
         /\ NewIndex(b) = Len(Full(b)) + 1 /\ NewIndex(b) \in Nat \ {0}
<1>1. b.base \in Seq(Method) /\ b.own \in Seq(Method) /\ b.cached \in Seq(Method)
  BY DEF Builder
<1>2. b.base \o b.own \in Seq(Method) /\ b.base \o b.cached \in Seq(Method)
      /\ Len(b.base \o b.own) = Len(b.base) + Len(b.own)
  BY <1>1, ConcatProperties
<1>3. Returned(b) \in Seq(Method) /\ Full(b) \in Seq(Method)
  BY <1>1, <1>2 DEF Returned, Full
<1>4. Built(b) \in Builder /\ Full(Built(b)) = Full(b)
  BY <1>1 DEF Built, Builder, Full
<1>5. Updated(b) \in Builder /\ Full(Updated(b)) = Full(b)
  BY <1>1 DEF Updated, Built, Builder, Full
<1>6. [b EXCEPT !.dirty = FALSE] \in Builder
  BY DEF Builder
<1>7. ASSUME NEW m \in Method PROVE Added(b, m) \in Builder
  <2>1. Append(b.own, m) \in Seq(Method)
    BY <1>1, AppendProperties
  <2> QED
    BY <1>1, <2>1 DEF Added, Builder
<1>8. NewIndex(b) = Len(Full(b)) + 1 /\ NewIndex(b) \in Nat \ {0}
  <2>1. Len(b.base) \in Nat /\ Len(b.own) \in Nat
    BY <1>1, LenProperties
  <2>2. NewIndex(b) = Len(b.base) + Len(b.own) + 1
    BY DEF NewIndex
  <2>3. Len(Full(b)) = Len(b.base) + Len(b.own)
    BY <1>2 DEF Full
  <2>4. \A x, y \in Nat : x + y + 1 \in Nat \ {0}
    OBVIOUS
  <2>5. NewIndex(b) \in Nat \ {0}
    BY <2>1, <2>2, <2>4
  <2>6. NewIndex(b) = Len(Full(b)) + 1
    BY <2>1, <2>2, <2>3
  <2> QED
    BY <2>5, <2>6
<1> QED
  BY <1>3, <1>4, <1>5, <1>6, <1>7, <1>8

LEMMA PlainFacts ==
  ASSUME NEW methods \in Seq(Method)
  PROVE  /\ Plain(methods) \in Builder /\ Sound(Plain(methods))
         /\ Returned(Plain(methods)) = methods /\ Full(Plain(methods)) = methods
         /\ ~Plain(methods).made
<1>1. <<>> \in Seq(Method) /\ methods \o <<>> = methods
  BY ConcatEmptySeq
<1>2. IsPrefix(<<>>, <<>>)
  BY DEF IsPrefix
<1> QED
  BY <1>1, <1>2 DEF Plain, Builder, Sound, Returned, Full

\* Building makes what is returned grow, and keeps a builder sound.
LEMMA SoundFacts ==
  ASSUME NEW b \in Builder, Sound(b)
  PROVE  /\ Sound(Built(b)) /\ Sound(Updated(b)) /\ Sound([b EXCEPT !.dirty = FALSE])
         /\ \A m \in Method : Sound(Added(b, m))
         /\ IsPrefix(Returned(b), Returned(Built(b)))
         /\ IsPrefix(Returned(b), Returned(Updated(b)))
         /\ Returned([b EXCEPT !.dirty = FALSE]) = Returned(b)
         /\ \A m \in Method : IsPrefix(Returned(b), Returned(Added(b, m)))
<1>1. b.base \in Seq(Method) /\ b.own \in Seq(Method) /\ b.cached \in Seq(Method)
      /\ b.made \in BOOLEAN /\ b.dirty \in BOOLEAN
  BY DEF Builder
<1>2. /\ IsPrefix(b.cached, b.own) /\ IsPrefix(b.own, b.own)
      /\ IsPrefix(b.base, b.base) /\ b.base \o <<>> = b.base
  BY <1>1, PrefixRefl, ConcatEmptySeq DEF Sound
<1>3. /\ Built(b).made = b.made /\ Built(b).base = b.base
      /\ Built(b).own = b.own /\ Built(b).cached = b.own
  BY DEF Built, Builder
<1>4. /\ Updated(b).made = b.made /\ Updated(b).base = b.base /\ Updated(b).own = b.own
      /\ Updated(b).cached = IF NeedsUpdate(b) THEN b.own ELSE b.cached
  BY DEF Updated, Built, Builder
<1>5. Sound(Built(b)) /\ Sound(Updated(b)) /\ Sound([b EXCEPT !.dirty = FALSE])
  <2>1. Sound(Built(b))
    BY <1>2, <1>3 DEF Sound
  <2>2. Sound(Updated(b))
    BY <1>2, <1>4 DEF Sound, NeedsUpdate
  <2>3. Sound([b EXCEPT !.dirty = FALSE])
    BY DEF Sound, Builder
  <2> QED
    BY <2>1, <2>2, <2>3
<1>6. IsPrefix(b.base \o b.cached, b.base \o b.own)
      /\ IsPrefix(b.base \o b.cached, b.base \o b.cached)
  <2>1. b.base \o b.cached \in Seq(Method)
    BY <1>1, ConcatProperties
  <2> QED
    BY <1>1, <1>2, <2>1, PrefixOfConcat, PrefixRefl
<1>7. IsPrefix(Returned(b), Returned(Built(b))) /\ IsPrefix(Returned(b), Returned(Updated(b)))
  BY <1>2, <1>3, <1>4, <1>6 DEF Returned
<1>8. Returned([b EXCEPT !.dirty = FALSE]) = Returned(b)
  BY DEF Returned, Builder
<1>9. ASSUME NEW m \in Method
      PROVE  Sound(Added(b, m)) /\ IsPrefix(Returned(b), Returned(Added(b, m)))
  <2>1. /\ Added(b, m).made /\ Added(b, m).base = b.base
        /\ Added(b, m).own = Append(b.own, m) /\ Added(b, m).cached = b.cached
    BY DEF Added, Builder
  <2>2. IsPrefix(b.cached, Append(b.own, m))
    BY <1>1, <1>2, PrefixAppend
  <2>3. ~b.made => b.cached = <<>>
    BY DEF Sound
  <2> QED
    BY <1>2, <1>6, <2>1, <2>2, <2>3 DEF Sound, Returned
<1> QED
  BY <1>5, <1>7, <1>8, <1>9

-----------------------------------------------------------------------------
(* What parsing a class yields *)

\* parsePythonType() puts the signals before the slots.
LEMMA ParsedFacts ==
  ASSUME NEW base \in Seq(Method), NEW body \in Bodies
  PROVE  Parsed(base, body) \in Seq(Method) /\ Ordered(Parsed(base, body))
<1> DEFINE A == [kind : {"signal"}, name : Names]
           B == [kind : {"slot"}, name : Names]
           U == Unknown(base, FlattenSeq(body))
           s == Signals(U)
           t == Slots(U)
<1>1. FlattenSeq(body) \in Seq(Method)
  BY FlattenedIsSequence
<1>2. U \in Seq({m \in Method : \A i \in DOMAIN base : base[i] # m})
  BY <1>1, ChosenAreChosen DEF Unknown
<1>3. s \in Seq(A) /\ t \in Seq(B)
  BY <1>2, ChosenAreChosen DEF Signals, Slots
<1>4. Parsed(base, body) = s \o t
  BY DEF Parsed
<1> HIDE DEF U, s, t
<1>5. A \subseteq Method /\ B \subseteq Method
  BY DEF Method, Kinds
<1>6. s \in Seq(Method) /\ t \in Seq(Method)
  <2> HIDE DEF A, B
  <2> QED
    BY <1>3, <1>5, SeqMonotonic
<1>7. /\ s \o t \in Seq(Method) /\ Len(s \o t) = Len(s) + Len(t)
      /\ \A i \in 1 .. Len(s) + Len(t) : (s \o t)[i] = IF i <= Len(s) THEN s[i] ELSE t[i - Len(s)]
  BY <1>6, ConcatProperties
<1>8. Len(s) \in Nat /\ Len(t) \in Nat
  BY <1>6
<1>9. /\ \A i \in 1 .. Len(s) : s[i].kind = "signal"
      /\ \A i \in 1 .. Len(t) : t[i].kind = "slot"
  <2>1. (\A x \in A : x.kind = "signal") /\ (\A x \in B : x.kind = "slot")
    OBVIOUS
  <2> HIDE DEF A, B
  <2> QED
    BY <1>3, <2>1, ElementOfSeq
<1>10. Ordered(s \o t)
  <2> SUFFICES ASSUME NEW i \in 1 .. Len(s \o t) - 1,
                      (s \o t)[i].kind = "slot", (s \o t)[i + 1].kind = "signal"
               PROVE  FALSE
    BY DEF Ordered
  <2>1. i \in 1 .. Len(s) + Len(t) /\ i + 1 \in 1 .. Len(s) + Len(t)
    BY <1>7, <1>8
  <2>2. i > Len(s)
    BY <1>7, <1>8, <1>9, <2>1
  <2>3. i + 1 > Len(s) /\ (i + 1) - Len(s) \in 1 .. Len(t)
    BY <1>8, <2>1, <2>2
  <2>4. (s \o t)[i + 1] = t[(i + 1) - Len(s)]
    BY <1>7, <1>8, <2>1, <2>3
  <2> QED
    BY <1>9, <2>3, <2>4
<1> QED
  BY <1>4, <1>7, <1>10

-----------------------------------------------------------------------------
(* The type invariant, and growth *)

BuilderInv ==
  /\ mo \in [Classes -> Builder \cup {NoBuilder}]
  /\ classOf \in [Objects -> Classes \cup {NoClass}]
  /\ dmo \in [Objects -> Builder \cup {NoBuilder}]
  /\ \A c \in Classes : mo[c] # NoBuilder => Sound(mo[c])
  /\ \A o \in Objects : dmo[o] # NoBuilder => Sound(dmo[o])
  /\ \A o \in Objects : classOf[o] # NoClass => mo[classOf[o]] # NoBuilder

CallInv ==
  /\ calls \in [Threads -> Call \cup {Idle}]
  /\ \A t \in Threads : calls[t] # Idle =>
       /\ classOf[calls[t].object] # NoClass
       /\ calls[t].step = "adding" => dmo[calls[t].object] # NoBuilder

HandedOK == handed \subseteq [object : Objects, method : Method, index : Nat \ {0}]

TypeInv == BuilderInv /\ CallInv /\ HandedOK

\* No class and no object loses its builder.
BuildersStay ==
  /\ \A c \in Classes : mo[c] # NoBuilder => mo'[c] # NoBuilder
  /\ \A o \in Objects : dmo[o] # NoBuilder => dmo'[o] # NoBuilder

LEMMA BuilderOfObject ==
  ASSUME BuilderInv, NEW o \in Objects, classOf[o] # NoClass
  PROVE  /\ BuilderOf(o) \in Builder /\ Sound(BuilderOf(o)) /\ classOf[o] \in Classes
         /\ dmo[o] # NoBuilder => BuilderOf(o) = dmo[o]
         /\ dmo[o] = NoBuilder => BuilderOf(o) = mo[classOf[o]]
BY DEF BuilderInv, BuilderOf

\* What an action does to the builders when it replaces some by others that
\* have all their methods.
Grown(b, c) == c \in Builder /\ Sound(c) /\ IsPrefix(Returned(b), Returned(c))

LEMMA GrownRefl ==
  ASSUME NEW b \in Builder, Sound(b)
  PROVE  Grown(b, b)
BY BuilderFacts, PrefixRefl DEF Grown

\* The builder of an object or of a class, or both, are replaced by others.
LEMMA Replaced ==
  ASSUME BuilderInv, UNCHANGED classOf,
         mo' \in [Classes -> Builder \cup {NoBuilder}],
         dmo' \in [Objects -> Builder \cup {NoBuilder}],
         \A c \in Classes : mo'[c] = mo[c] \/ (mo'[c] # NoBuilder /\ Sound(mo'[c])),
         \A p \in Objects : dmo'[p] = dmo[p] \/ (dmo'[p] # NoBuilder /\ Sound(dmo'[p])),
         \A p \in Objects : classOf[p] # NoClass =>
           IsPrefix(Returned(BuilderOf(p)), Returned(BuilderOf(p)'))
  PROVE  BuilderInv' /\ MethodsGrow /\ BuildersStay
<1>1. BuilderInv'
  BY DEF BuilderInv
<1>2. MethodsGrow
  BY DEF MethodsGrow
<1>3. BuildersStay
  BY DEF BuildersStay
<1> QED
  BY <1>1, <1>2, <1>3

LEMMA SetBuilderStep ==
  ASSUME BuilderInv, UNCHANGED classOf,
         NEW o \in Objects, classOf[o] # NoClass,
         NEW b, Grown(BuilderOf(o), b), SetBuilder(o, b)
  PROVE  BuilderInv' /\ MethodsGrow /\ BuildersStay
<1>1. BuilderOf(o) \in Builder /\ b \in Builder /\ b # NoBuilder /\ Sound(b) /\ classOf[o] \in Classes
  BY BuilderOfObject DEF Grown
<1>2. mo' \in [Classes -> Builder \cup {NoBuilder}] /\ dmo' \in [Objects -> Builder \cup {NoBuilder}]
  BY <1>1 DEF SetBuilder, BuilderInv
<1>3. ASSUME NEW p \in Objects, classOf[p] # NoClass
      PROVE  BuilderOf(p)' = BuilderOf(p) \/ (BuilderOf(p) = BuilderOf(o) /\ BuilderOf(p)' = b)
  BY <1>1, <1>3 DEF SetBuilder, BuilderOf, BuilderInv
<1>4. ASSUME NEW p \in Objects, classOf[p] # NoClass
      PROVE  IsPrefix(Returned(BuilderOf(p)), Returned(BuilderOf(p)'))
  <2>1. Grown(BuilderOf(p), BuilderOf(p))
    BY <1>4, BuilderOfObject, GrownRefl
  <2> QED
    BY <2>1, <1>3, <1>4 DEF Grown
<1>5. \A c \in Classes : mo'[c] = mo[c] \/ (mo'[c] # NoBuilder /\ Sound(mo'[c]))
  BY <1>1 DEF SetBuilder, BuilderInv
<1>6. \A p \in Objects : dmo'[p] = dmo[p] \/ (dmo'[p] # NoBuilder /\ Sound(dmo'[p]))
  BY <1>1 DEF SetBuilder, BuilderInv
<1> QED
  BY <1>2, <1>4, <1>5, <1>6, Replaced

\* Calls other than that of thread t go on as before.
LEMMA CallsStay ==
  ASSUME BuilderInv, CallInv, UNCHANGED classOf, BuildersStay,
         NEW t \in Threads, NEW c \in Call \cup {Idle},
         calls' = [calls EXCEPT ![t] = c],
         c # Idle => classOf[c.object] # NoClass /\ (c.step = "adding" => dmo'[c.object] # NoBuilder)
  PROVE  CallInv'
<1>1. calls' \in [Threads -> Call \cup {Idle}]
  BY DEF CallInv
<1>2. ASSUME NEW u \in Threads, calls'[u] # Idle
      PROVE  /\ classOf'[calls'[u].object] # NoClass
             /\ calls'[u].step = "adding" => dmo'[calls'[u].object] # NoBuilder
  <2>1. CASE u = t
    BY <1>2, <2>1 DEF CallInv
  <2>2. CASE u # t
    <3>1. calls'[u] = calls[u] /\ calls[u] # Idle /\ calls[u] \in Call
      BY <1>2, <2>2 DEF CallInv
    <3>2. calls[u].object \in Objects
      BY <3>1 DEF Call
    <3> QED
      BY <3>1, <3>2 DEF CallInv, BuildersStay
  <2> QED
    BY <2>1, <2>2
<1> QED
  BY <1>1, <1>2 DEF CallInv

LEMMA HandedStep ==
  ASSUME HandedOK, NEW o \in Objects, NEW m \in Method, NEW i \in Nat \ {0}, Handed(o, m, i)
  PROVE  HandedOK'
BY DEF HandedOK, Handed


\* An object gets builder d of its own; that of its class is replaced by b first.
LEMMA OwnBuilderStep ==
  ASSUME BuilderInv, UNCHANGED classOf,
         NEW o \in Objects, classOf[o] # NoClass,
         NEW b, Grown(BuilderOf(o), b), NEW d, Grown(BuilderOf(o), d),
         mo' = IF dmo[o] # NoBuilder THEN mo ELSE [mo EXCEPT ![classOf[o]] = b],
         dmo' = [dmo EXCEPT ![o] = d]
  PROVE  BuilderInv' /\ MethodsGrow /\ BuildersStay /\ dmo'[o] # NoBuilder
<1>1. /\ BuilderOf(o) \in Builder /\ classOf[o] \in Classes
      /\ b \in Builder /\ b # NoBuilder /\ Sound(b)
      /\ d \in Builder /\ d # NoBuilder /\ Sound(d)
  BY BuilderOfObject DEF Grown
<1>2. mo' \in [Classes -> Builder \cup {NoBuilder}] /\ dmo' \in [Objects -> Builder \cup {NoBuilder}]
      /\ dmo'[o] = d
  BY <1>1 DEF BuilderInv
<1>3. ASSUME NEW p \in Objects, classOf[p] # NoClass
      PROVE  \/ BuilderOf(p)' = BuilderOf(p)
             \/ BuilderOf(p) = BuilderOf(o) /\ (BuilderOf(p)' = b \/ BuilderOf(p)' = d)
  BY <1>1, <1>3 DEF BuilderOf, BuilderInv
<1>4. ASSUME NEW p \in Objects, classOf[p] # NoClass
      PROVE  IsPrefix(Returned(BuilderOf(p)), Returned(BuilderOf(p)'))
  <2>1. Grown(BuilderOf(p), BuilderOf(p))
    BY <1>4, BuilderOfObject, GrownRefl
  <2> QED
    BY <2>1, <1>3, <1>4 DEF Grown
<1>5. \A c \in Classes : mo'[c] = mo[c] \/ (mo'[c] # NoBuilder /\ Sound(mo'[c]))
  BY <1>1 DEF BuilderInv
<1>6. \A p \in Objects : dmo'[p] = dmo[p] \/ (dmo'[p] # NoBuilder /\ Sound(dmo'[p]))
  BY <1>1 DEF BuilderInv
<1>7. BuilderInv' /\ MethodsGrow /\ BuildersStay
  BY <1>2, <1>4, <1>5, <1>6, Replaced
<1> QED
  BY <1>1, <1>2, <1>7

\* The builder a method is added to has the methods the object had.
LEMMA OwnBuilder ==
  ASSUME BuilderInv, NEW o \in Objects, classOf[o] # NoClass,
         NEW b, Grown(BuilderOf(o), b), NEW m \in Method
  PROVE  LET own == IF dmo[o] # NoBuilder THEN b ELSE Plain(Returned(b))
         IN Grown(BuilderOf(o), own) /\ Grown(BuilderOf(o), Added(own, m))
<1> DEFINE own == IF dmo[o] # NoBuilder THEN b ELSE Plain(Returned(b))
<1>1. b \in Builder /\ Sound(b) /\ IsPrefix(Returned(BuilderOf(o)), Returned(b))
  BY DEF Grown
<1>2. Returned(b) \in Seq(Method)
  BY <1>1, BuilderFacts
<1>3. own \in Builder /\ Sound(own) /\ Returned(own) = Returned(b)
  BY <1>1, <1>2, PlainFacts
<1> HIDE DEF own
<1>4. Added(own, m) \in Builder /\ Sound(Added(own, m))
      /\ IsPrefix(Returned(own), Returned(Added(own, m)))
  BY <1>3, BuilderFacts, SoundFacts
<1>5. IsPrefix(Returned(BuilderOf(o)), Returned(Added(own, m)))
  BY <1>1, <1>3, <1>4, BuilderOfObject, BuilderFacts, PrefixTransitive
<1>6. Grown(BuilderOf(o), own) /\ Grown(BuilderOf(o), Added(own, m))
  BY <1>1, <1>3, <1>4, <1>5 DEF Grown
<1> QED
  BY <1>6 DEF own

LEMMA LookupStep ==
  ASSUME TypeInv, UNCHANGED classOf, NEW t \in Threads,
         NEW o \in Objects, classOf[o] # NoClass, NEW m \in Method,
         NEW b, Grown(BuilderOf(o), b), Lookup(t, o, m, b)
  PROVE  TypeInv' /\ MethodsGrow
<1> USE DEF TypeInv
<1>0. b \in Builder /\ Sound(b) /\ Returned(b) \in Seq(Method)
  BY BuilderFacts DEF Grown
<1>1. CASE /\ \E i \in DOMAIN Returned(b) : IsIndexOf(i, Returned(b), m) /\ Handed(o, m, i)
           /\ SetBuilder(o, b)
           /\ calls' = [calls EXCEPT ![t] = Idle]
  <2>1. BuilderInv' /\ MethodsGrow /\ BuildersStay
    BY <1>1, SetBuilderStep
  <2>2. CallInv'
    BY <1>1, <2>1, CallsStay
  <2>3. HandedOK'
    <3>1. PICK i \in DOMAIN Returned(b) : Handed(o, m, i)
      BY <1>1
    <3>2. i \in Nat \ {0}
      BY <1>0, <3>1
    <3> QED
      BY <3>1, <3>2, HandedStep
  <2> QED
    BY <2>1, <2>2, <2>3
<1> DEFINE own == IF dmo[o] # NoBuilder THEN b ELSE Plain(Returned(b))
<1>2. Grown(BuilderOf(o), own) /\ Grown(BuilderOf(o), Added(own, m))
  BY OwnBuilder
<1>3. NewIndex(own) \in Nat \ {0}
  BY <1>2, BuilderFacts DEF Grown
<1> HIDE DEF own
<1>4. CASE /\ mo' = IF dmo[o] # NoBuilder THEN mo ELSE [mo EXCEPT ![classOf[o]] = b]
           /\ dmo' = [dmo EXCEPT ![o] = own]
           /\ calls' = [calls EXCEPT ![t] = [step |-> "adding", object |-> o, method |-> m]]
           /\ UNCHANGED handed
  <2>1. BuilderInv' /\ MethodsGrow /\ BuildersStay /\ dmo'[o] # NoBuilder
    BY <1>2, <1>4, OwnBuilderStep
  <2> DEFINE c == [step |-> "adding", object |-> o, method |-> m]
  <2>2. c \in Call /\ c.object = o
    BY DEF Call
  <2>3. CallInv'
    BY <1>4, <2>1, <2>2, CallsStay
  <2>4. HandedOK'
    BY <1>4 DEF HandedOK
  <2> QED
    BY <2>1, <2>3, <2>4
<1>5. CASE /\ mo' = IF dmo[o] # NoBuilder THEN mo ELSE [mo EXCEPT ![classOf[o]] = b]
           /\ dmo' = [dmo EXCEPT ![o] = Added(own, m)]
           /\ Handed(o, m, NewIndex(own))
           /\ calls' = [calls EXCEPT ![t] = Idle]
  <2>1. BuilderInv' /\ MethodsGrow /\ BuildersStay
    BY <1>2, <1>5, OwnBuilderStep
  <2>2. CallInv'
    BY <1>5, <2>1, CallsStay
  <2>3. HandedOK'
    BY <1>3, <1>5, HandedStep
  <2> QED
    BY <2>1, <2>2, <2>3
<1> QED
  BY <1>1, <1>4, <1>5 DEF Lookup, own

-----------------------------------------------------------------------------
(* The steps *)

LEMMA DefineClassStep ==
  ASSUME TypeInv, NEW c \in Classes, NEW base \in Classes, NEW body \in Bodies,
         DefineClass(c, base, body)
  PROVE  TypeInv' /\ MethodsGrow
<1> USE DEF TypeInv
<1> DEFINE b == Updated(mo[base])
           own == Parsed(Returned(b), body)
           new == [base |-> Returned(b), own |-> own, made |-> TRUE, dirty |-> FALSE, cached |-> own]
<1>1. mo[base] \in Builder /\ Sound(mo[base]) /\ mo[c] = NoBuilder /\ c # base
  BY DEF DefineClass, BuilderInv
<1>2. Grown(mo[base], b)
  BY <1>1, BuilderFacts, SoundFacts DEF Grown
<1>3. own \in Seq(Method) /\ mo' = [mo EXCEPT ![base] = b, ![c] = new]
      /\ UNCHANGED <<classOf, dmo, calls, handed>>
  <2>1. Returned(b) \in Seq(Method)
    BY <1>2, BuilderFacts DEF Grown
  <2>2. own \in Seq(Method)
    BY <2>1, ParsedFacts
  <2> QED
    BY <2>2 DEF DefineClass
<1>4. new \in Builder /\ Sound(new)
  <2>1. Returned(b) \in Seq(Method)
    BY <1>2, BuilderFacts DEF Grown
  <2> HIDE DEF b, own
  <2>2. new \in Builder
    BY <1>3, <2>1 DEF Builder
  <2>3. Sound(new)
    BY <1>3, PrefixRefl DEF Sound
  <2> QED
    BY <2>2, <2>3
<1> HIDE DEF b, own, new
<1>5. b \in Builder /\ Sound(b)
  BY <1>2 DEF Grown
<1>6. /\ mo' \in [Classes -> Builder \cup {NoBuilder}] /\ mo'[base] = b /\ mo'[c] = new
      /\ \A k \in Classes : k # base /\ k # c => mo'[k] = mo[k]
  BY <1>1, <1>3, <1>4, <1>5 DEF BuilderInv
<1>7. ASSUME NEW p \in Objects, classOf[p] # NoClass
      PROVE  IsPrefix(Returned(BuilderOf(p)), Returned(BuilderOf(p)'))
  <2>1. Grown(BuilderOf(p), BuilderOf(p))
    BY <1>7, BuilderOfObject, GrownRefl
  <2>2. classOf[p] # c
    BY <1>1, <1>7 DEF BuilderInv
  <2>3. BuilderOf(p)' = BuilderOf(p) \/ (BuilderOf(p) = mo[base] /\ BuilderOf(p)' = b)
    BY <1>3, <1>6, <1>7, <2>2, BuilderOfObject DEF BuilderOf, BuilderInv
  <2> QED
    BY <1>2, <2>1, <2>3 DEF Grown
<1>8. \A k \in Classes : mo'[k] = mo[k] \/ (mo'[k] # NoBuilder /\ Sound(mo'[k]))
  BY <1>4, <1>5, <1>6
<1>9. BuilderInv' /\ MethodsGrow /\ BuildersStay
  BY <1>3, <1>6, <1>7, <1>8, Replaced DEF BuilderInv
<1>10. CallInv' /\ HandedOK'
  BY <1>3 DEF CallInv, HandedOK
<1> QED
  BY <1>9, <1>10

LEMMA ClassInfoStep ==
  ASSUME TypeInv, NEW c \in Classes, setClassInfo(c)
  PROVE  TypeInv' /\ MethodsGrow
<1> USE DEF TypeInv
<1> DEFINE b == [mo[c] EXCEPT !.made = TRUE, !.dirty = TRUE]
<1>1. mo[c] \in Builder /\ Sound(mo[c]) /\ mo' = [mo EXCEPT ![c] = b]
      /\ UNCHANGED <<classOf, dmo, calls, handed>>
  BY DEF setClassInfo, BuilderInv
<1>2. b \in Builder /\ Sound(b)
  BY <1>1 DEF Builder, Sound
<1>3. Returned(b) = Returned(mo[c])
  <2>1. /\ b.base = mo[c].base /\ b.cached = mo[c].cached /\ b.made
        /\ mo[c].base \in Seq(Method)
    BY <1>1 DEF Builder
  <2>2. mo[c].base \o <<>> = mo[c].base
    BY <2>1, ConcatEmptySeq
  <2>3. ~mo[c].made => mo[c].cached = <<>>
    BY <1>1 DEF Sound
  <2> HIDE DEF b
  <2>4. Returned(b) = mo[c].base \o mo[c].cached
    BY <2>1 DEF Returned
  <2>5. Returned(mo[c]) = mo[c].base \o mo[c].cached
    BY <2>1, <2>2, <2>3 DEF Returned
  <2> QED
    BY <2>4, <2>5
<1> HIDE DEF b
<1>4. mo' \in [Classes -> Builder \cup {NoBuilder}] /\ mo'[c] = b
      /\ \A k \in Classes : k # c => mo'[k] = mo[k]
  BY <1>1, <1>2 DEF BuilderInv
<1>5. ASSUME NEW p \in Objects, classOf[p] # NoClass
      PROVE  IsPrefix(Returned(BuilderOf(p)), Returned(BuilderOf(p)'))
  <2>1. Grown(BuilderOf(p), BuilderOf(p))
    BY <1>5, BuilderOfObject, GrownRefl
  <2>2. BuilderOf(p)' = BuilderOf(p) \/ (BuilderOf(p) = mo[c] /\ BuilderOf(p)' = b)
    BY <1>1, <1>4, <1>5, BuilderOfObject DEF BuilderOf
  <2> QED
    BY <1>3, <2>1, <2>2 DEF Grown
<1>6. \A k \in Classes : mo'[k] = mo[k] \/ (mo'[k] # NoBuilder /\ Sound(mo'[k]))
  BY <1>2, <1>4
<1>7. BuilderInv' /\ MethodsGrow /\ BuildersStay
  BY <1>1, <1>4, <1>5, <1>6, Replaced DEF BuilderInv
<1>8. CallInv' /\ HandedOK'
  BY <1>1 DEF CallInv, HandedOK
<1> QED
  BY <1>7, <1>8


LEMMA ObjectSteps ==
  ASSUME TypeInv, NEW o \in Objects,
         (\E c \in Classes : NewObject(o, c)) \/ DeleteObject(o)
  PROVE  TypeInv' /\ MethodsGrow
<1> USE DEF TypeInv
<1>1. CASE \E c \in Classes : NewObject(o, c)
  <2>1. PICK c \in Classes : NewObject(o, c)
    BY <1>1
  <2>2. BuilderInv'
    BY <2>1 DEF NewObject, BuilderInv
  <2>3. CallInv' /\ HandedOK'
    BY <2>1 DEF NewObject, BuilderInv, CallInv, HandedOK, Call
  <2>4. MethodsGrow
    <3> SUFFICES ASSUME NEW p \in Objects, classOf[p] # NoClass
                 PROVE  IsPrefix(Returned(BuilderOf(p)), Returned(BuilderOf(p)'))
      BY DEF MethodsGrow
    <3>1. BuilderOf(p)' = BuilderOf(p)
      BY <2>1 DEF NewObject, BuilderInv, BuilderOf
    <3>2. Grown(BuilderOf(p), BuilderOf(p))
      BY BuilderOfObject, GrownRefl
    <3> QED
      BY <3>1, <3>2 DEF Grown
  <2> QED
    BY <2>2, <2>3, <2>4
<1>2. CASE DeleteObject(o)
  <2>1. BuilderInv'
    BY <1>2 DEF DeleteObject, BuilderInv
  <2>2. CallInv'
    BY <1>2 DEF DeleteObject, BuilderInv, CallInv, Call
  <2>3. HandedOK'
    BY <1>2 DEF DeleteObject, HandedOK
  <2>4. MethodsGrow
    <3> SUFFICES ASSUME NEW p \in Objects, classOf[p] # NoClass, classOf'[p] # NoClass
                 PROVE  IsPrefix(Returned(BuilderOf(p)), Returned(BuilderOf(p)'))
      BY DEF MethodsGrow
    <3>1. BuilderOf(p)' = BuilderOf(p)
      BY <1>2 DEF DeleteObject, BuilderInv, BuilderOf
    <3>2. Grown(BuilderOf(p), BuilderOf(p))
      BY BuilderOfObject, GrownRefl
    <3> QED
      BY <3>1, <3>2 DEF Grown
  <2> QED
    BY <2>1, <2>2, <2>3, <2>4
<1> QED
  BY <1>1, <1>2

LEMMA metaObjectStep ==
  ASSUME TypeInv, NEW o \in Objects, metaObject(o)
  PROVE  TypeInv' /\ MethodsGrow
<1> USE DEF TypeInv
<1>1. classOf[o] # NoClass /\ SetBuilder(o, Updated(BuilderOf(o)))
      /\ UNCHANGED <<classOf, calls, handed>>
  BY DEF metaObject
<1>2. Grown(BuilderOf(o), Updated(BuilderOf(o)))
  BY <1>1, BuilderOfObject, BuilderFacts, SoundFacts DEF Grown
<1>3. BuilderInv' /\ MethodsGrow /\ BuildersStay
  BY <1>1, <1>2, SetBuilderStep
<1>4. CallInv'
  BY <1>1, <1>3 DEF CallInv, BuildersStay, Call
<1>5. HandedOK'
  BY <1>1 DEF HandedOK
<1> QED
  BY <1>3, <1>4, <1>5

\* Nothing changes for the builders.
LEMMA SameBuilders ==
  ASSUME BuilderInv, UNCHANGED <<mo, classOf, dmo>>
  PROVE  BuilderInv' /\ MethodsGrow /\ BuildersStay
<1>1. \A p \in Objects : classOf[p] # NoClass =>
        IsPrefix(Returned(BuilderOf(p)), Returned(BuilderOf(p)'))
  <2> SUFFICES ASSUME NEW p \in Objects, classOf[p] # NoClass
               PROVE  IsPrefix(Returned(BuilderOf(p)), Returned(BuilderOf(p)'))
    OBVIOUS
  <2>1. BuilderOf(p)' = BuilderOf(p)
    BY DEF BuilderOf
  <2>2. Grown(BuilderOf(p), BuilderOf(p))
    BY BuilderOfObject, GrownRefl
  <2> QED
    BY <2>1, <2>2 DEF Grown
<1> QED
  BY <1>1, Replaced DEF BuilderInv

LEMMA RegisterForeignStep ==
  ASSUME TypeInv, NEW o \in Objects, NEW m \in Method, RegisterForeign(o, m)
  PROVE  TypeInv' /\ MethodsGrow
<1> USE DEF TypeInv
<1>1. BuilderInv' /\ MethodsGrow /\ BuildersStay
  BY SameBuilders DEF RegisterForeign
<1>2. CallInv'
  BY DEF RegisterForeign, CallInv
<1>3. HandedOK'
  <2>1. PICK i \in DOMAIN QtMethods : Handed(o, m, i)
    BY DEF RegisterForeign
  <2>2. i \in Nat \ {0}
    BY <2>1
  <2> QED
    BY <2>1, <2>2, HandedStep
<1> QED
  BY <1>1, <1>2, <1>3

LEMMA RegisterStep ==
  ASSUME TypeInv, NEW t \in Threads, NEW o \in Objects, NEW m \in Method,
         registerMetaMethodGetIndex(t, o, m)
  PROVE  TypeInv' /\ MethodsGrow
<1> USE DEF TypeInv
<1>1. classOf[o] # NoClass /\ UNCHANGED classOf
  BY DEF registerMetaMethodGetIndex
<1>2. BuilderOf(o) \in Builder /\ Sound(BuilderOf(o))
  BY <1>1, BuilderOfObject
<1>3. CASE Pauses(BuilderOf(o))
  <2>1. /\ SetBuilder(o, Built(BuilderOf(o)))
        /\ calls' = [calls EXCEPT ![t] = [step |-> "warned", object |-> o, method |-> m]]
        /\ UNCHANGED handed
    BY <1>3 DEF registerMetaMethodGetIndex
  <2>2. Grown(BuilderOf(o), Built(BuilderOf(o)))
    BY <1>2, BuilderFacts, SoundFacts DEF Grown
  <2>3. BuilderInv' /\ MethodsGrow /\ BuildersStay
    BY <1>1, <2>1, <2>2, SetBuilderStep
  <2> DEFINE c == [step |-> "warned", object |-> o, method |-> m]
  <2>4. c \in Call /\ c.object = o /\ c.step # "adding"
    BY DEF Call
  <2>5. CallInv'
    BY <1>1, <2>1, <2>3, <2>4, CallsStay
  <2>6. HandedOK'
    BY <2>1 DEF HandedOK
  <2> QED
    BY <2>3, <2>5, <2>6
<1>4. CASE ~Pauses(BuilderOf(o))
  <2>1. Lookup(t, o, m, Updated(BuilderOf(o)))
    BY <1>4 DEF registerMetaMethodGetIndex
  <2>2. Grown(BuilderOf(o), Updated(BuilderOf(o)))
    BY <1>2, BuilderFacts, SoundFacts DEF Grown
  <2> QED
    BY <1>1, <2>1, <2>2, LookupStep
<1> QED
  BY <1>3, <1>4

LEMMA WarnedStep ==
  ASSUME TypeInv, NEW t \in Threads, Warned(t)
  PROVE  TypeInv' /\ MethodsGrow
<1> USE DEF TypeInv
<1> DEFINE o == calls[t].object
           m == calls[t].method
           b == [BuilderOf(o) EXCEPT !.dirty = FALSE]
<1>1. o \in Objects /\ m \in Method /\ classOf[o] # NoClass
  BY DEF Warned, CallInv, Call
<1>2. Lookup(t, o, m, b) /\ UNCHANGED classOf
  BY DEF Warned
<1> HIDE DEF o, m
<1>3. Grown(BuilderOf(o), b)
  <2>1. BuilderOf(o) \in Builder /\ Sound(BuilderOf(o))
    BY <1>1, BuilderOfObject
  <2>2. b \in Builder /\ Sound(b) /\ Returned(b) = Returned(BuilderOf(o))
    BY <2>1, BuilderFacts, SoundFacts
  <2>3. IsPrefix(Returned(BuilderOf(o)), Returned(b))
    BY <2>1, <2>2, BuilderFacts, PrefixRefl
  <2> QED
    BY <2>2, <2>3 DEF Grown
<1> HIDE DEF b
<1> QED
  BY <1>1, <1>2, <1>3, LookupStep

LEMMA AddingStep ==
  ASSUME TypeInv, NEW t \in Threads, Adding(t)
  PROVE  TypeInv' /\ MethodsGrow
<1> USE DEF TypeInv
<1> DEFINE o == calls[t].object
           m == calls[t].method
           d == Added(dmo[o], m)
<1>1. o \in Objects /\ m \in Method /\ classOf[o] # NoClass /\ dmo[o] # NoBuilder
  BY DEF Adding, CallInv, Call
<1>2. /\ dmo' = [dmo EXCEPT ![o] = d] /\ Handed(o, m, NewIndex(dmo[o]))
      /\ calls' = [calls EXCEPT ![t] = Idle] /\ UNCHANGED <<mo, classOf>>
  BY DEF Adding
<1> HIDE DEF o, m, d
<1>3. BuilderOf(o) \in Builder /\ Sound(BuilderOf(o)) /\ BuilderOf(o) = dmo[o]
  BY <1>1, BuilderOfObject
<1>4. Grown(BuilderOf(o), d)
  BY <1>1, <1>3, BuilderFacts, SoundFacts DEF Grown, d
<1>5. BuilderInv' /\ MethodsGrow /\ BuildersStay
  BY <1>1, <1>2, <1>4, OwnBuilderStep
<1>6. CallInv'
  BY <1>2, <1>5, CallsStay
<1>7. HandedOK'
  <2>1. NewIndex(dmo[o]) \in Nat \ {0}
    BY <1>3, BuilderFacts
  <2> QED
    BY <1>1, <1>2, <2>1, HandedStep
<1> QED
  BY <1>5, <1>6, <1>7

LEMMA TypeInit == Init => TypeInv
<1> SUFFICES ASSUME Init PROVE TypeInv
  OBVIOUS
<1>1. Plain(QtMethods) \in Builder /\ Sound(Plain(QtMethods))
  BY PlainFacts
<1>2. BuilderInv
  BY <1>1 DEF Init, BuilderInv, Classes
<1>3. CallInv /\ HandedOK
  BY DEF Init, CallInv, HandedOK
<1> QED
  BY <1>2, <1>3 DEF TypeInv

LEMMA TypeStep == TypeInv /\ [Next]_vars => TypeInv' /\ (MethodsGrow \/ UNCHANGED vars)
<1> SUFFICES ASSUME TypeInv, [Next]_vars PROVE TypeInv' /\ (MethodsGrow \/ UNCHANGED vars)
  OBVIOUS
<1>1. CASE UNCHANGED vars
  BY <1>1 DEF vars, TypeInv, BuilderInv, CallInv, HandedOK
<1>2. CASE \E c, base \in Classes, body \in Bodies : DefineClass(c, base, body)
  BY <1>2, DefineClassStep
<1>3. CASE \E c \in Classes : setClassInfo(c)
  BY <1>3, ClassInfoStep
<1>4. CASE \E o \in Objects : (\E c \in Classes : NewObject(o, c)) \/ DeleteObject(o)
  BY <1>4, ObjectSteps
<1>5. CASE \E o \in Objects : metaObject(o)
  BY <1>5, metaObjectStep
<1>6. CASE \E o \in Objects, m \in Method : RegisterForeign(o, m)
  BY <1>6, RegisterForeignStep
<1>7. CASE \E t \in Threads, o \in Objects, m \in Method : registerMetaMethodGetIndex(t, o, m)
  BY <1>7, RegisterStep
<1>8. CASE \E t \in Threads : Warned(t)
  BY <1>8, WarnedStep
<1>9. CASE \E t \in Threads : Adding(t)
  BY <1>9, AddingStep
<1> QED
  BY <1>1, <1>2, <1>3, <1>4, <1>5, <1>6, <1>7, <1>8, <1>9 DEF Next

LEMMA TypeInvariant == Spec => []TypeInv
BY TypeInit, TypeStep, PTL DEF Spec

\* Builders, classes, objects and calls are well-formed in every state: whatever
\* Python code runs in the middle of update() and of addMetaMethod().
THEOREM TypeCorrect == Spec => []TypeOK
<1>1. TypeInv => TypeOK
  BY DEF TypeInv, BuilderInv, CallInv, HandedOK, TypeOK
<1> QED
  BY <1>1, TypeInvariant, PTL

\* The methods an object shows to Qt never change their index while it lives,
\* whether or not the GIL is handed over (update(), ensureBuilder(),
\* addMetaMethod(), setClassInfo()).
THEOREM OnlyGrow == Spec => MethodsOnlyGrow
<1>1. TypeInv /\ [Next]_vars => [MethodsGrow]_vars
  BY TypeStep
<1> QED
  BY <1>1, TypeInvariant, PTL DEF Spec, MethodsOnlyGrow


-----------------------------------------------------------------------------
(* The indexes, when no Python code runs in the middle of a step *)

Quiet == ~PythonRuns

\* A builder that is not dirty has been built with all its methods.
Fresh(b) == b.made /\ ~b.dirty => b.cached = b.own

QtInv ==
  /\ mo[QtClass] # NoBuilder
  /\ Full(mo[QtClass]) = QtMethods
  /\ \A o \in Foreign : classOf[o] \in {NoClass, QtClass} /\ dmo[o] = NoBuilder

IdleInv == \A t \in Threads : calls[t] = Idle

FreshInv ==
  /\ \A c \in Classes : mo[c] # NoBuilder => Fresh(mo[c])
  /\ \A o \in Objects : dmo[o] # NoBuilder => Fresh(dmo[o])

\* What was handed out is the index of the method in the builder of the object.
HandedInv ==
  \A h \in handed :
    /\ classOf[h.object] # NoClass
    /\ IsIndexOf(h.index, Full(BuilderOf(h.object)), h.method)

GilInv == IdleInv /\ FreshInv /\ QtInv /\ HandedInv

\* The methods of the objects that live on stay as they are, of all or but for o.
SameMethods(but) ==
  \A p \in Objects \ but : classOf[p] # NoClass =>
     classOf'[p] = classOf[p] /\ Full(BuilderOf(p)') = Full(BuilderOf(p))

LEMMA FreshFacts ==
  ASSUME NEW b \in Builder, Sound(b), Fresh(b)
  PROVE  /\ Returned(Updated(b)) = Full(b) /\ Fresh(Updated(b))
         /\ \A m \in Method : Fresh(Added(b, m))
<1>1. b.base \in Seq(Method) /\ b.base \o <<>> = b.base /\ b.made \in BOOLEAN /\ b.dirty \in BOOLEAN
  BY ConcatEmptySeq DEF Builder
<1>2. /\ Updated(b).made = b.made /\ Updated(b).base = b.base /\ Updated(b).own = b.own
      /\ Updated(b).cached = IF NeedsUpdate(b) THEN b.own ELSE b.cached
  BY DEF Updated, Built, Builder
<1>3. Returned(Updated(b)) = Full(b)
  <2>1. CASE b.made
    <3>1. Updated(b).cached = b.own
      BY <1>2, <2>1 DEF NeedsUpdate, Fresh
    <3>2. Returned(Updated(b)) = b.base \o b.own
      BY <1>2, <2>1, <3>1 DEF Returned
    <3> QED
      BY <3>2 DEF Full
  <2>2. CASE ~b.made
    <3>1. b.own = <<>> /\ Returned(Updated(b)) = b.base
      BY <1>2, <2>2 DEF Sound, Returned
    <3> QED
      BY <1>1, <3>1 DEF Full
  <2> QED
    BY <2>1, <2>2
<1>4. Fresh(Updated(b))
  BY DEF Fresh, Updated, Built, NeedsUpdate, Builder
<1>5. \A m \in Method : Fresh(Added(b, m))
  BY DEF Fresh, Added, Builder
<1> QED
  BY <1>3, <1>4, <1>5

\* A method with a new name gets an index and takes none away.
LEMMA IndexInAppend ==
  ASSUME NEW F \in Seq(Method), NEW m \in Method, Found(F, m) = {}
  PROVE  /\ IsIndexOf(Len(F) + 1, Append(F, m), m)
         /\ \A k \in Method : \A i : IsIndexOf(i, F, k) => IsIndexOf(i, Append(F, m), k)
<1> DEFINE G == Append(F, m)
<1>1. /\ Len(F) \in Nat /\ G \in Seq(Method) /\ Len(G) = Len(F) + 1
      /\ DOMAIN F = 1 .. Len(F) /\ DOMAIN G = 1 .. Len(F) + 1
      /\ \A i \in 1 .. Len(F) : G[i] = F[i]
      /\ G[Len(F) + 1] = m
  BY AppendProperties
<1> HIDE DEF G
<1>2. Found(G, m) = {Len(F) + 1}
  BY <1>1 DEF Found
<1>3. IsIndexOf(Len(F) + 1, G, m)
  BY <1>1, <1>2 DEF IsIndexOf
<1>4. ASSUME NEW k \in Method, NEW i, IsIndexOf(i, F, k)
      PROVE  IsIndexOf(i, G, k)
  <2>1. i \in Found(F, k)
    BY <1>4 DEF IsIndexOf
  <2>2. k.name # m.name
    BY <2>1 DEF Found
  <2>3. Found(G, k) = Found(F, k)
    BY <1>1, <2>2 DEF Found
  <2> QED
    BY <1>4, <2>3 DEF IsIndexOf
<1> QED
  BY <1>3, <1>4 DEF G

LEMMA HandedKept ==
  ASSUME HandedOK, HandedInv, SameMethods({}), handed' = handed
  PROVE  HandedInv'
<1> SUFFICES ASSUME NEW h \in handed
             PROVE  /\ classOf'[h.object] # NoClass
                    /\ IsIndexOf(h.index, Full(BuilderOf(h.object)'), h.method)
  BY DEF HandedInv
<1>1. h.object \in Objects /\ classOf[h.object] # NoClass
      /\ IsIndexOf(h.index, Full(BuilderOf(h.object)), h.method)
  BY DEF HandedOK, HandedInv
<1>2. classOf'[h.object] = classOf[h.object] /\ Full(BuilderOf(h.object)') = Full(BuilderOf(h.object))
  BY <1>1 DEF SameMethods
<1> QED
  BY <1>1, <1>2

LEMMA HandedFound ==
  ASSUME HandedOK, HandedInv, SameMethods({}),
         NEW o \in Objects, classOf[o] # NoClass, NEW m \in Method, NEW i,
         IsIndexOf(i, Full(BuilderOf(o)), m), Handed(o, m, i)
  PROVE  HandedInv'
<1> SUFFICES ASSUME NEW h \in handed'
             PROVE  /\ classOf'[h.object] # NoClass
                    /\ IsIndexOf(h.index, Full(BuilderOf(h.object)'), h.method)
  BY DEF HandedInv
<1>1. h.object \in Objects /\ classOf[h.object] # NoClass
      /\ IsIndexOf(h.index, Full(BuilderOf(h.object)), h.method)
  BY DEF HandedOK, HandedInv, Handed
<1>2. classOf'[h.object] = classOf[h.object] /\ Full(BuilderOf(h.object)') = Full(BuilderOf(h.object))
  BY <1>1 DEF SameMethods
<1> QED
  BY <1>1, <1>2

LEMMA HandedAdded ==
  ASSUME HandedOK, HandedInv, NEW o \in Objects, classOf[o] # NoClass,
         SameMethods({o}), classOf'[o] = classOf[o],
         NEW F \in Seq(Method), NEW m \in Method, Found(F, m) = {},
         Full(BuilderOf(o)) = F, Full(BuilderOf(o)') = Append(F, m),
         Handed(o, m, Len(F) + 1)
  PROVE  HandedInv'
<1> SUFFICES ASSUME NEW h \in handed'
             PROVE  /\ classOf'[h.object] # NoClass
                    /\ IsIndexOf(h.index, Full(BuilderOf(h.object)'), h.method)
  BY DEF HandedInv
<1>1. CASE h \in handed
  <2>1. h.object \in Objects /\ h.method \in Method /\ classOf[h.object] # NoClass
        /\ IsIndexOf(h.index, Full(BuilderOf(h.object)), h.method)
    BY <1>1 DEF HandedOK, HandedInv
  <2>2. CASE h.object = o
    BY <2>1, <2>2, IndexInAppend
  <2>3. CASE h.object # o
    <3>1. classOf'[h.object] = classOf[h.object]
          /\ Full(BuilderOf(h.object)') = Full(BuilderOf(h.object))
      BY <2>1, <2>3 DEF SameMethods
    <3> QED
      BY <2>1, <3>1
  <2> QED
    BY <2>2, <2>3
<1>2. CASE h = [object |-> o, method |-> m, index |-> Len(F) + 1]
  BY <1>2, IndexInAppend
<1> QED
  BY <1>1, <1>2 DEF Handed


\* Builders replaced by others with the same methods.
LEMMA UpdatedStep ==
  ASSUME BuilderInv, FreshInv, QtInv, UNCHANGED classOf,
         NEW o \in Objects, classOf[o] # NoClass, o \notin Foreign,
         SetBuilder(o, Updated(BuilderOf(o)))
  PROVE  FreshInv' /\ QtInv' /\ SameMethods({})
<1> DEFINE b == Updated(BuilderOf(o))
<1>1. /\ BuilderOf(o) \in Builder /\ Sound(BuilderOf(o)) /\ Fresh(BuilderOf(o))
      /\ classOf[o] \in Classes
  BY BuilderOfObject DEF FreshInv
<1>2. b \in Builder /\ b # NoBuilder /\ Full(b) = Full(BuilderOf(o)) /\ Fresh(b)
  BY <1>1, BuilderFacts, FreshFacts
<1>3. SetBuilder(o, b)
  OBVIOUS
<1> HIDE DEF b
<1>4. FreshInv'
  BY <1>1, <1>2, <1>3 DEF SetBuilder, FreshInv, BuilderInv
<1>5. QtInv'
  <2>1. mo'[QtClass] # NoBuilder /\ Full(mo'[QtClass]) = QtMethods
    <3>1. mo'[QtClass] = mo[QtClass] \/ (mo[QtClass] = BuilderOf(o) /\ mo'[QtClass] = b)
      BY <1>1, <1>3, BuilderOfObject DEF SetBuilder, BuilderInv, Classes
    <3> QED
      BY <1>2, <3>1 DEF QtInv
  <2>2. \A p \in Foreign : dmo'[p] = NoBuilder
    BY <1>3, ObjectAssumption DEF SetBuilder, QtInv, BuilderInv
  <2> QED
    BY <2>1, <2>2 DEF QtInv
<1>6. SameMethods({})
  <2> SUFFICES ASSUME NEW p \in Objects, classOf[p] # NoClass
               PROVE  Full(BuilderOf(p)') = Full(BuilderOf(p))
    BY DEF SameMethods
  <2>1. BuilderOf(p)' = BuilderOf(p) \/ (BuilderOf(p) = BuilderOf(o) /\ BuilderOf(p)' = b)
    BY <1>1, <1>2, <1>3 DEF SetBuilder, BuilderOf, BuilderInv
  <2> QED
    BY <1>2, <2>1
<1> QED
  BY <1>4, <1>5, <1>6

LEMMA GilDefineClass ==
  ASSUME TypeInv, GilInv, NEW c \in Classes, NEW base \in Classes, NEW body \in Bodies,
         DefineClass(c, base, body)
  PROVE  GilInv'
<1> USE DEF TypeInv, GilInv
<1> DEFINE b == Updated(mo[base])
           own == Parsed(Returned(b), body)
           new == [base |-> Returned(b), own |-> own, made |-> TRUE, dirty |-> FALSE, cached |-> own]
<1>1. /\ mo[base] \in Builder /\ Sound(mo[base]) /\ Fresh(mo[base])
      /\ mo[c] = NoBuilder /\ c # base /\ c # QtClass
  BY DEF DefineClass, BuilderInv, FreshInv, QtInv
<1>2. mo' = [mo EXCEPT ![base] = b, ![c] = new] /\ UNCHANGED <<classOf, dmo, calls, handed>>
  BY DEF DefineClass
<1>3. Fresh(new)
  BY DEF Fresh
<1> HIDE DEF own, new
<1>4. b \in Builder /\ b # NoBuilder /\ Full(b) = Full(mo[base]) /\ Fresh(b)
  BY <1>1, BuilderFacts, FreshFacts
<1> HIDE DEF b
<1>5. /\ mo'[base] = b /\ mo'[c] = new
      /\ \A k \in Classes : k # base /\ k # c => mo'[k] = mo[k]
  BY <1>1, <1>2 DEF BuilderInv
<1>6. FreshInv'
  BY <1>2, <1>3, <1>4, <1>5 DEF FreshInv
<1>7. QtInv'
  <2>1. QtClass \in Classes
    BY DEF Classes
  <2> QED
    BY <1>1, <1>2, <1>4, <1>5, <2>1 DEF QtInv
<1>8. SameMethods({})
  <2> SUFFICES ASSUME NEW p \in Objects, classOf[p] # NoClass
               PROVE  Full(BuilderOf(p)') = Full(BuilderOf(p))
    BY <1>2 DEF SameMethods
  <2>1. classOf[p] # c
    BY <1>1 DEF BuilderInv
  <2>2. BuilderOf(p)' = BuilderOf(p) \/ (BuilderOf(p) = mo[base] /\ BuilderOf(p)' = b)
    BY <1>2, <1>5, <2>1, BuilderOfObject DEF BuilderOf, BuilderInv
  <2> QED
    BY <1>4, <2>2
<1>9. HandedInv'
  BY <1>2, <1>8, HandedKept
<1> QED
  BY <1>2, <1>6, <1>7, <1>9 DEF IdleInv

LEMMA GilClassInfo ==
  ASSUME TypeInv, GilInv, NEW c \in Classes, setClassInfo(c)
  PROVE  GilInv'
<1> USE DEF TypeInv, GilInv
<1> DEFINE b == [mo[c] EXCEPT !.made = TRUE, !.dirty = TRUE]
<1>1. mo[c] \in Builder /\ mo' = [mo EXCEPT ![c] = b]
      /\ UNCHANGED <<classOf, dmo, calls, handed>>
  BY DEF setClassInfo, BuilderInv
<1>2. b # NoBuilder /\ Fresh(b) /\ Full(b) = Full(mo[c])
  <2>1. b \in Builder /\ b.dirty /\ b.base = mo[c].base /\ b.own = mo[c].own
    BY <1>1 DEF Builder
  <2> QED
    BY <2>1 DEF Fresh, Full
<1> HIDE DEF b
<1>3. mo'[c] = b /\ \A k \in Classes : k # c => mo'[k] = mo[k]
  BY <1>1 DEF BuilderInv
<1>4. FreshInv'
  BY <1>1, <1>2, <1>3 DEF FreshInv
<1>5. QtInv'
  <2>1. QtClass \in Classes
    BY DEF Classes
  <2> QED
    BY <1>1, <1>2, <1>3, <2>1 DEF QtInv
<1>6. SameMethods({})
  <2> SUFFICES ASSUME NEW p \in Objects, classOf[p] # NoClass
               PROVE  Full(BuilderOf(p)') = Full(BuilderOf(p))
    BY <1>1 DEF SameMethods
  <2>1. BuilderOf(p)' = BuilderOf(p) \/ (BuilderOf(p) = mo[c] /\ BuilderOf(p)' = b)
    BY <1>1, <1>3, BuilderOfObject DEF BuilderOf
  <2> QED
    BY <1>2, <2>1
<1>7. HandedInv'
  BY <1>1, <1>6, HandedKept
<1> QED
  BY <1>1, <1>4, <1>5, <1>7 DEF IdleInv

LEMMA GilObjects ==
  ASSUME TypeInv, GilInv, NEW o \in Objects,
         (\E c \in Classes : NewObject(o, c)) \/ DeleteObject(o)
  PROVE  GilInv'
<1> USE DEF TypeInv, GilInv
<1>1. CASE \E c \in Classes : NewObject(o, c)
  <2>1. PICK c \in Classes : NewObject(o, c)
    BY <1>1
  <2>2. FreshInv' /\ IdleInv'
    BY <2>1 DEF NewObject, FreshInv, IdleInv
  <2>3. QtInv'
    BY <2>1, ObjectAssumption DEF NewObject, QtInv, BuilderInv
  <2>4. SameMethods({})
    BY <2>1 DEF NewObject, SameMethods, BuilderOf, BuilderInv
  <2>5. HandedInv'
    BY <2>1, <2>4, HandedKept DEF NewObject
  <2> QED
    BY <2>2, <2>3, <2>5
<1>2. CASE DeleteObject(o)
  <2>1. FreshInv' /\ IdleInv'
    BY <1>2 DEF DeleteObject, FreshInv, IdleInv, BuilderInv
  <2>2. QtInv'
    BY <1>2, ObjectAssumption DEF DeleteObject, QtInv, BuilderInv
  <2>3. HandedInv'
    <3> SUFFICES ASSUME NEW h \in handed'
                 PROVE  /\ classOf'[h.object] # NoClass
                        /\ IsIndexOf(h.index, Full(BuilderOf(h.object)'), h.method)
      BY DEF HandedInv
    <3>1. h \in handed /\ h.object \in Objects /\ h.object # o
      BY <1>2 DEF DeleteObject, HandedOK
    <3>2. classOf'[h.object] = classOf[h.object] /\ BuilderOf(h.object)' = BuilderOf(h.object)
      BY <1>2, <3>1 DEF DeleteObject, BuilderInv, BuilderOf
    <3> QED
      BY <3>1, <3>2 DEF HandedInv
  <2> QED
    BY <2>1, <2>2, <2>3
<1> QED
  BY <1>1, <1>2

LEMMA GilmetaObject ==
  ASSUME TypeInv, GilInv, NEW o \in Objects, metaObject(o)
  PROVE  GilInv'
<1> USE DEF TypeInv, GilInv
<1>1. /\ classOf[o] # NoClass /\ o \notin Foreign /\ SetBuilder(o, Updated(BuilderOf(o)))
      /\ UNCHANGED <<classOf, calls, handed>>
  BY DEF metaObject
<1>2. FreshInv' /\ QtInv' /\ SameMethods({})
  BY <1>1, UpdatedStep
<1>3. HandedInv'
  BY <1>1, <1>2, HandedKept
<1> QED
  BY <1>1, <1>2, <1>3 DEF IdleInv

LEMMA GilForeign ==
  ASSUME TypeInv, GilInv, NEW o \in Objects, NEW m \in Method, RegisterForeign(o, m)
  PROVE  GilInv'
<1> USE DEF TypeInv, GilInv
<1>1. /\ classOf[o] # NoClass /\ o \in Foreign /\ UNCHANGED <<mo, classOf, dmo, calls>>
  BY DEF RegisterForeign
<1>2. PICK i \in DOMAIN QtMethods : IsIndexOf(i, QtMethods, m) /\ Handed(o, m, i)
  BY DEF RegisterForeign
<1>3. Full(BuilderOf(o)) = QtMethods
  BY <1>1 DEF QtInv, BuilderOf
<1>4. SameMethods({})
  BY <1>1 DEF SameMethods, BuilderOf
<1>5. HandedInv'
  BY <1>1, <1>2, <1>3, <1>4, HandedFound
<1> QED
  BY <1>1, <1>5 DEF IdleInv, FreshInv, QtInv


LEMMA GilRegister ==
  ASSUME Quiet, TypeInv, GilInv, NEW t \in Threads, NEW o \in Objects, NEW m \in Method,
         registerMetaMethodGetIndex(t, o, m)
  PROVE  GilInv'
<1> USE DEF TypeInv, GilInv
<1> DEFINE B == BuilderOf(o)
           b == Updated(B)
           own == IF dmo[o] # NoBuilder THEN b ELSE Plain(Returned(b))
           d == Added(own, m)
<1>1. /\ classOf[o] # NoClass /\ o \notin Foreign /\ UNCHANGED classOf
      /\ Lookup(t, o, m, b)
  BY DEF registerMetaMethodGetIndex, Pauses, Quiet
<1>2. /\ B \in Builder /\ Sound(B) /\ Fresh(B) /\ classOf[o] \in Classes
  BY <1>1, BuilderOfObject DEF FreshInv
<1>3. /\ b \in Builder /\ b # NoBuilder /\ Sound(b) /\ Fresh(b)
      /\ Full(b) = Full(B) /\ Returned(b) = Full(B) /\ Full(B) \in Seq(Method)
  BY <1>2, BuilderFacts, SoundFacts, FreshFacts
<1>4. own \in Builder /\ Sound(own) /\ Fresh(own) /\ Full(own) = Full(B)
  BY <1>3, PlainFacts DEF Fresh
<1>5. /\ d \in Builder /\ d # NoBuilder /\ Fresh(d) /\ Full(d) = Append(Full(B), m)
      /\ NewIndex(own) = Len(Full(B)) + 1
  <2> HIDE DEF own
  <2> QED
    BY <1>4, BuilderFacts, FreshFacts, AppendToFull
<1>6. CASE /\ \E i \in DOMAIN Returned(b) : IsIndexOf(i, Returned(b), m) /\ Handed(o, m, i)
           /\ SetBuilder(o, b)
           /\ calls' = [calls EXCEPT ![t] = Idle]
  <2>1. FreshInv' /\ QtInv' /\ SameMethods({})
    BY <1>1, <1>6, UpdatedStep
  <2>2. HandedInv'
    BY <1>1, <1>3, <1>6, <2>1, HandedFound
  <2>3. IdleInv'
    BY <1>6 DEF IdleInv, CallInv
  <2> QED
    BY <2>1, <2>2, <2>3
<1> HIDE DEF B, b, own, d
<1>7. CASE /\ Found(Returned(b), m) = {}
           /\ mo' = IF dmo[o] # NoBuilder THEN mo ELSE [mo EXCEPT ![classOf[o]] = b]
           /\ dmo' = [dmo EXCEPT ![o] = d]
           /\ Handed(o, m, NewIndex(own))
           /\ calls' = [calls EXCEPT ![t] = Idle]
  <2>1. dmo'[o] = d /\ \A p \in Objects : p # o => dmo'[p] = dmo[p]
    BY <1>7 DEF BuilderInv
  <2>2. \A c \in Classes : mo'[c] = mo[c] \/ (mo[c] = B /\ mo'[c] = b)
    BY <1>1, <1>2, <1>7, BuilderOfObject DEF BuilderInv, B
  <2>3. FreshInv'
    BY <1>3, <1>5, <2>1, <2>2 DEF FreshInv
  <2>4. QtInv'
    <3>1. mo'[QtClass] # NoBuilder /\ Full(mo'[QtClass]) = QtMethods
      BY <1>3, <2>2 DEF QtInv, Classes
    <3>2. \A p \in Foreign : dmo'[p] = NoBuilder
      BY <1>1, <2>1, ObjectAssumption DEF QtInv
    <3> QED
      BY <1>1, <3>1, <3>2 DEF QtInv
  <2>5. SameMethods({o})
    <3> SUFFICES ASSUME NEW p \in Objects, p # o, classOf[p] # NoClass
                 PROVE  Full(BuilderOf(p)') = Full(BuilderOf(p))
      BY <1>1 DEF SameMethods
    <3>1. classOf[p] \in Classes
      BY BuilderOfObject
    <3>2. BuilderOf(p)' = BuilderOf(p) \/ (BuilderOf(p) = B /\ BuilderOf(p)' = b)
      BY <1>1, <2>1, <2>2, <3>1 DEF BuilderOf
    <3> QED
      BY <1>3, <3>2
  <2>6. BuilderOf(o)' = d
    BY <1>5, <2>1 DEF BuilderOf
  <2>7. HandedInv'
    <3>1. Found(Full(B), m) = {} /\ Handed(o, m, Len(Full(B)) + 1)
      BY <1>3, <1>5, <1>7
    <3>2. Full(BuilderOf(o)) = Full(B) /\ Full(BuilderOf(o)') = Append(Full(B), m)
      BY <1>5, <2>6 DEF B
    <3> QED
      BY <1>1, <1>3, <2>5, <3>1, <3>2, HandedAdded
  <2>8. IdleInv'
    BY <1>7 DEF IdleInv, CallInv
  <2> QED
    BY <2>3, <2>4, <2>7, <2>8
<1>8. ~Interrupted(o, m)
  BY DEF Interrupted, Quiet
<1> QED
  BY <1>1, <1>6, <1>7, <1>8 DEF Lookup, B, b, own, d

LEMMA GilInit == Init => GilInv
<1> SUFFICES ASSUME Init PROVE GilInv
  OBVIOUS
<1>1. Full(Plain(QtMethods)) = QtMethods /\ Fresh(Plain(QtMethods))
  BY PlainFacts DEF Fresh
<1>2. mo[QtClass] = Plain(QtMethods) /\ QtClass \in Classes
  BY DEF Init, Classes
<1>3. QtInv
  <2>1. Plain(QtMethods) # NoBuilder
    BY PlainFacts
  <2> QED
    BY <1>1, <1>2, <2>1, ObjectAssumption DEF Init, QtInv
<1>4. FreshInv /\ IdleInv /\ HandedInv
  BY <1>1 DEF Init, FreshInv, IdleInv, HandedInv
<1> QED
  BY <1>3, <1>4 DEF GilInv

LEMMA GilStep ==
  ASSUME Quiet, TypeInv, GilInv, [Next]_vars
  PROVE  GilInv'
<1>1. CASE UNCHANGED vars
  BY <1>1 DEF vars, GilInv, IdleInv, FreshInv, QtInv, HandedInv, BuilderOf
<1>2. CASE \E c, base \in Classes, body \in Bodies : DefineClass(c, base, body)
  BY <1>2, GilDefineClass
<1>3. CASE \E c \in Classes : setClassInfo(c)
  BY <1>3, GilClassInfo
<1>4. CASE \E o \in Objects : (\E c \in Classes : NewObject(o, c)) \/ DeleteObject(o)
  BY <1>4, GilObjects
<1>5. CASE \E o \in Objects : metaObject(o)
  BY <1>5, GilmetaObject
<1>6. CASE \E o \in Objects, m \in Method : RegisterForeign(o, m)
  BY <1>6, GilForeign
<1>7. CASE \E t \in Threads, o \in Objects, m \in Method : registerMetaMethodGetIndex(t, o, m)
  BY <1>7, GilRegister
<1>8. CASE \E t \in Threads : Warned(t) \/ Adding(t)
  BY <1>8 DEF GilInv, IdleInv, Warned, Adding
<1> QED
  BY <1>1, <1>2, <1>3, <1>4, <1>5, <1>6, <1>7, <1>8 DEF Next

LEMMA GilInvariant ==
  ASSUME Quiet
  PROVE  Spec => [](TypeInv /\ GilInv)
<1>1. Init => TypeInv /\ GilInv
  BY TypeInit, GilInit
<1>2. TypeInv /\ GilInv /\ [Next]_vars => (TypeInv /\ GilInv)'
  BY TypeStep, GilStep
<1> QED
  BY <1>1, <1>2, PTL DEF Spec

\* An index that registerMetaMethodGetIndex() returned leads to its signature in
\* the meta object of the object from then on, if no Python code takes the GIL
\* in the middle of update() or addMetaMethod().
THEOREM IndexesHold ==
  ASSUME Quiet
  PROVE  Spec => []IndexHolds
<1>1. TypeInv /\ GilInv => IndexHolds
  <2> SUFFICES ASSUME TypeInv, GilInv, NEW h \in handed
               PROVE  /\ h.index \in DOMAIN Current(h.object)
                      /\ Current(h.object)[h.index].name = h.method.name
    BY DEF IndexHolds
  <2>1. h.object \in Objects /\ classOf[h.object] # NoClass
        /\ IsIndexOf(h.index, Full(BuilderOf(h.object)), h.method)
    BY DEF TypeInv, HandedOK, GilInv, HandedInv
  <2>2. BuilderOf(h.object) \in Builder /\ Sound(BuilderOf(h.object)) /\ Fresh(BuilderOf(h.object))
    BY <2>1, BuilderOfObject DEF TypeInv, GilInv, FreshInv
  <2>3. Current(h.object) = Full(BuilderOf(h.object))
    BY <2>2, FreshFacts DEF Current
  <2> QED
    BY <2>1, <2>3 DEF IsIndexOf, Found
<1> QED
  BY <1>1, GilInvariant, PTL

\* A signature of an object is never registered under two indexes, under the same
\* condition (registerMetaMethodGetIndex(), addMetaMethod()).
THEOREM OneIndexEach ==
  ASSUME Quiet
  PROVE  Spec => []OneIndex
<1>1. TypeInv /\ GilInv => OneIndex
  <2> SUFFICES ASSUME TypeInv, GilInv, NEW h \in handed, NEW k \in handed,
                      h.object = k.object, h.method.name = k.method.name
               PROVE  h.index = k.index
    BY DEF OneIndex
  <2> DEFINE F == Full(BuilderOf(h.object))
  <2>1. IsIndexOf(h.index, F, h.method) /\ IsIndexOf(k.index, F, k.method)
    BY DEF GilInv, HandedInv
  <2>2. h.index \in Nat /\ k.index \in Nat
    BY DEF TypeInv, HandedOK
  <2> HIDE DEF F
  <2>3. Found(F, h.method) = Found(F, k.method)
    BY DEF Found
  <2>4. h.index <= k.index /\ k.index <= h.index
    BY <2>1, <2>3 DEF IsIndexOf
  <2> QED
    BY <2>2, <2>4
<1> QED
  BY <1>1, GilInvariant, PTL

-----------------------------------------------------------------------------
(* The order of the methods of a class *)

\* A builder replaced by one with the same methods of its own.
SameOwn(b, d) == d # NoBuilder /\ d.own = b.own /\ (b.cached = b.own => d.cached = d.own)

\* What an action does to the builders of classes that there are.
ClassesKept == \A c \in Classes : mo[c] # NoBuilder => mo'[c] = mo[c] \/ SameOwn(mo[c], mo'[c])

LEMMA SameOwnFacts ==
  ASSUME NEW b \in Builder
  PROVE  /\ SameOwn(b, b) /\ SameOwn(b, Built(b)) /\ SameOwn(b, Updated(b))
         /\ SameOwn(b, [b EXCEPT !.dirty = FALSE])
         /\ SameOwn(b, [b EXCEPT !.made = TRUE, !.dirty = TRUE])
<1>1. /\ Built(b) \in Builder /\ Updated(b) \in Builder /\ [b EXCEPT !.dirty = FALSE] \in Builder
      /\ [b EXCEPT !.made = TRUE, !.dirty = TRUE] \in Builder
  BY BuilderFacts DEF Builder
<1> QED
  BY <1>1 DEF SameOwn, Built, Updated, Builder

\* update() for an object leaves the methods of its class alone.
LEMMA SetBuilderKeeps ==
  ASSUME BuilderInv, NEW o \in Objects, classOf[o] # NoClass,
         NEW b, SameOwn(BuilderOf(o), b), SetBuilder(o, b)
  PROVE  ClassesKept
<1>1. BuilderOf(o) \in Builder /\ classOf[o] \in Classes
  BY BuilderOfObject
<1> QED
  BY <1>1 DEF SetBuilder, BuilderOf, BuilderInv, ClassesKept

LEMMA LookupKeeps ==
  ASSUME BuilderInv, NEW t \in Threads, NEW o \in Objects, NEW m \in Method, classOf[o] # NoClass,
         NEW b, SameOwn(BuilderOf(o), b), Lookup(t, o, m, b)
  PROVE  ClassesKept
<1>1. CASE SetBuilder(o, b)
  BY <1>1, SetBuilderKeeps
<1>2. CASE mo' = IF dmo[o] # NoBuilder THEN mo ELSE [mo EXCEPT ![classOf[o]] = b]
  BY <1>2, BuilderOfObject DEF BuilderOf, BuilderInv, ClassesKept
<1> QED
  BY <1>1, <1>2 DEF Lookup

LEMMA KeptInOrder ==
  ASSUME ClassesOrdered, ClassesKept,
         \A c \in PyClasses : mo'[c] # NoBuilder => mo[c] # NoBuilder
  PROVE  ClassesOrdered'
BY DEF ClassesOrdered, ClassesKept, SameOwn, Ordered, Classes

LEMMA OrderDefineClass ==
  ASSUME TypeInv, ClassesOrdered, NEW c \in Classes, NEW base \in Classes, NEW body \in Bodies,
         DefineClass(c, base, body)
  PROVE  ClassesOrdered'
<1> USE DEF TypeInv
<1> DEFINE b == Updated(mo[base])
           own == Parsed(Returned(b), body)
           new == [base |-> Returned(b), own |-> own, made |-> TRUE, dirty |-> FALSE, cached |-> own]
<1>1. mo[base] \in Builder /\ mo[c] = NoBuilder /\ c # base
  BY DEF DefineClass, BuilderInv
<1>2. SameOwn(mo[base], b) /\ Returned(b) \in Seq(Method)
  BY <1>1, SameOwnFacts, BuilderFacts
<1>3. Ordered(own)
  BY <1>2, ParsedFacts
<1>4. mo' = [mo EXCEPT ![base] = b, ![c] = new]
  BY DEF DefineClass
<1> HIDE DEF b, own
<1>5. /\ mo'[base] = b /\ mo'[c].own = own /\ mo'[c].cached = own
      /\ \A k \in Classes : k # base /\ k # c => mo'[k] = mo[k]
  BY <1>1, <1>4 DEF BuilderInv
<1>6. ASSUME NEW k \in PyClasses, mo'[k] # NoBuilder
      PROVE  Ordered(mo'[k].own) /\ mo'[k].cached = mo'[k].own
  <2>1. CASE k = c
    BY <1>3, <1>5, <2>1
  <2>2. CASE k = base
    BY <1>1, <1>2, <1>5, <1>6, <2>2, SpecialAssumption DEF ClassesOrdered, SameOwn
  <2>3. CASE k # c /\ k # base
    BY <1>5, <1>6, <2>3 DEF ClassesOrdered, Classes
  <2> QED
    BY <2>1, <2>2, <2>3
<1>7. \A k \in PyClasses : mo'[k] # NoBuilder => Ordered(mo'[k].own) /\ mo'[k].cached = mo'[k].own
  BY <1>6
<1> QED
  BY <1>7 DEF ClassesOrdered, Ordered

LEMMA OrderClassInfo ==
  ASSUME TypeInv, ClassesOrdered, NEW c \in Classes, setClassInfo(c)
  PROVE  ClassesOrdered'
<1> USE DEF TypeInv
<1> DEFINE b == [mo[c] EXCEPT !.made = TRUE, !.dirty = TRUE]
<1>1. mo[c] \in Builder /\ mo[c] # NoBuilder /\ mo' = [mo EXCEPT ![c] = b]
  BY DEF setClassInfo, BuilderInv
<1>2. SameOwn(mo[c], b)
  BY <1>1, SameOwnFacts
<1> HIDE DEF b
<1>3. ClassesKept /\ \A k \in PyClasses : mo'[k] # NoBuilder => mo[k] # NoBuilder
  BY <1>1, <1>2 DEF ClassesKept, BuilderInv, Classes
<1> QED
  BY <1>3, KeptInOrder

LEMMA OrderUpdates ==
  ASSUME TypeInv, ClassesOrdered, NEW o \in Objects,
         \/ metaObject(o)
         \/ \E t \in Threads, m \in Method : registerMetaMethodGetIndex(t, o, m)
         \/ \E t \in Threads : Warned(t) /\ calls[t].object = o
  PROVE  ClassesOrdered'
<1> USE DEF TypeInv
<1>1. classOf[o] # NoClass
  BY DEF metaObject, registerMetaMethodGetIndex, Warned, CallInv
<1>2. BuilderOf(o) \in Builder /\ classOf[o] \in Classes
  BY <1>1, BuilderOfObject
<1>3. /\ SameOwn(BuilderOf(o), Updated(BuilderOf(o))) /\ SameOwn(BuilderOf(o), Built(BuilderOf(o)))
      /\ SameOwn(BuilderOf(o), [BuilderOf(o) EXCEPT !.dirty = FALSE])
  BY <1>2, SameOwnFacts
<1>4. \A b : SetBuilder(o, b) \/ (\E t \in Threads, m \in Method : Lookup(t, o, m, b))
              => mo' = mo \/ mo' = [mo EXCEPT ![classOf[o]] = b]
  BY DEF SetBuilder, Lookup
<1>5. CASE metaObject(o)
  <2>1. SetBuilder(o, Updated(BuilderOf(o)))
    BY <1>5 DEF metaObject
  <2>2. ClassesKept
    BY <1>1, <1>3, <2>1, SetBuilderKeeps
  <2>3. \A c \in PyClasses : mo'[c] # NoBuilder => mo[c] # NoBuilder
    BY <1>1, <1>4, <2>1 DEF BuilderInv, Classes
  <2> QED
    BY <2>2, <2>3, KeptInOrder
<1>6. CASE \E t \in Threads, m \in Method : registerMetaMethodGetIndex(t, o, m)
  <2>1. PICK t \in Threads, m \in Method : registerMetaMethodGetIndex(t, o, m)
    BY <1>6
  <2>2. \/ SetBuilder(o, Built(BuilderOf(o)))
        \/ Lookup(t, o, m, Updated(BuilderOf(o)))
    BY <2>1 DEF registerMetaMethodGetIndex
  <2>3. ClassesKept
    BY <1>1, <1>3, <2>2, SetBuilderKeeps, LookupKeeps
  <2>4. \A c \in PyClasses : mo'[c] # NoBuilder => mo[c] # NoBuilder
    BY <1>1, <1>4, <2>2 DEF BuilderInv, Classes
  <2> QED
    BY <2>3, <2>4, KeptInOrder
<1>7. CASE \E t \in Threads : Warned(t) /\ calls[t].object = o
  <2>1. PICK t \in Threads : Warned(t) /\ calls[t].object = o
    BY <1>7
  <2>2. calls[t].method \in Method
    BY <2>1 DEF Warned, CallInv, Call
  <2>3. Lookup(t, o, calls[t].method, [BuilderOf(o) EXCEPT !.dirty = FALSE])
    BY <2>1 DEF Warned
  <2>4. ClassesKept
    BY <1>1, <1>3, <2>2, <2>3, LookupKeeps
  <2>5. \A c \in PyClasses : mo'[c] # NoBuilder => mo[c] # NoBuilder
    BY <1>1, <1>4, <2>2, <2>3 DEF BuilderInv, Classes
  <2> QED
    BY <2>4, <2>5, KeptInOrder
<1> QED
  BY <1>5, <1>6, <1>7

LEMMA OrderStep == TypeInv /\ ClassesOrdered /\ [Next]_vars => ClassesOrdered'
<1> SUFFICES ASSUME TypeInv, ClassesOrdered, [Next]_vars PROVE ClassesOrdered'
  OBVIOUS
<1>1. CASE UNCHANGED mo
  BY <1>1 DEF ClassesOrdered, Ordered
<1>2. CASE \E c, base \in Classes, body \in Bodies : DefineClass(c, base, body)
  BY <1>2, OrderDefineClass
<1>3. CASE \E c \in Classes : setClassInfo(c)
  BY <1>3, OrderClassInfo
<1>4. CASE \E o \in Objects : \/ metaObject(o)
                              \/ \E t \in Threads, m \in Method : registerMetaMethodGetIndex(t, o, m)
  BY <1>4, OrderUpdates
<1>5. CASE \E t \in Threads : Warned(t)
  <2>1. PICK t \in Threads : Warned(t)
    BY <1>5
  <2>2. calls[t].object \in Objects
    BY <2>1 DEF Warned, TypeInv, CallInv, Call
  <2> QED
    BY <2>1, <2>2, OrderUpdates
<1>6. ASSUME UNCHANGED vars \/ (\E o \in Objects : \/ \E c \in Classes : NewObject(o, c)
                                                   \/ DeleteObject(o)
                                                   \/ \E m \in Method : RegisterForeign(o, m))
             \/ (\E t \in Threads : Adding(t))
      PROVE  UNCHANGED mo
  BY <1>6 DEF vars, NewObject, DeleteObject, RegisterForeign, Adding
<1> QED
  BY <1>1, <1>2, <1>3, <1>4, <1>5, <1>6 DEF Next

\* Every class has its signals before its slots, as checkMethodOrder() wants, and
\* its meta object has all of them, whatever its mixins and whatever is connected
\* to its objects, and wherever Python code takes the GIL away.
THEOREM ClassesInOrder == Spec => []ClassesOrdered
<1>1. Init => ClassesOrdered
  BY ClassAssumption DEF Init, ClassesOrdered, Classes
<1>2. TypeInv /\ ClassesOrdered /\ [Next]_vars => ClassesOrdered'
  BY OrderStep
<1> QED
  BY <1>1, <1>2, TypeInvariant, PTL DEF Spec

=============================================================================
