----------------------------- MODULE CommonLemmas -----------------------------
(***************************************************************************)
(* Lemmas for the proofs of several components: sequences that are used as *)
(* stacks of calls (what a push, a pop and a change of the last element    *)
(* leave in each place), sequences put one after the other, the parts and  *)
(* totals of Selection, and sets of numbers.                               *)
(***************************************************************************)
EXTENDS Integers, SequencesExt, Selection, SequenceTheorems, FiniteSetTheorems, TLAPS

LEMMA StackTop ==
  ASSUME NEW S, NEW s \in Seq(S), s # <<>>
  PROVE  Len(s) \in Nat /\ Len(s) >= 1 /\ Last(s) = s[Len(s)] /\ Last(s) \in S
<1>1. Len(s) \in Nat /\ Len(s) # 0
  BY EmptySeq
<1> QED
  BY <1>1, ElementOfSeq DEF Last

LEMMA StackPush ==
  ASSUME NEW S, NEW s \in Seq(S), NEW e \in S
  PROVE  /\ Append(s, e) \in Seq(S) /\ Append(s, e) # <<>>
         /\ Len(Append(s, e)) = Len(s) + 1 /\ Last(Append(s, e)) = e
         /\ Append(s, e)[Len(s) + 1] = e
         /\ \A i \in 1..Len(s) : Append(s, e)[i] = s[i]
<1>1. /\ Append(s, e) \in Seq(S) /\ Append(s, e) # <<>>
      /\ Len(Append(s, e)) = Len(s) + 1 /\ Append(s, e)[Len(s) + 1] = e
      /\ \A i \in 1..Len(s) : Append(s, e)[i] = s[i]
  BY AppendProperties
<1> QED
  BY <1>1 DEF Last

LEMMA StackPop ==
  ASSUME NEW S, NEW s \in Seq(S), s # <<>>
  PROVE  /\ Front(s) \in Seq(S) /\ Len(Front(s)) = Len(s) - 1
         /\ \A i \in 1..(Len(s) - 1) : Front(s)[i] = s[i]
<1>1. Len(s) \in Nat /\ Len(s) >= 1
  BY StackTop
<1> DEFINE n == Len(s) - 1
<1>2. n \in Int /\ n >= 0 /\ \A i \in 1 .. n : s[i] \in S
  BY <1>1, ElementOfSeq
<1> HIDE DEF n
<1>3. /\ SubSeq(s, 1, n) \in Seq(S) /\ Len(SubSeq(s, 1, n)) = n
      /\ \A i \in 1..n : SubSeq(s, 1, n)[i] = s[i]
  <2>1. Len(SubSeq(s, 1, n)) = IF 1 <= n THEN n - 1 + 1 ELSE 0
    BY <1>2, SubSeqProperties
  <2>2. SubSeq(s, 1, n) \in Seq(S)
    BY <1>2, SubSeqProperties
  <2>3. \A i \in 1..(n - 1 + 1) : SubSeq(s, 1, n)[i] = s[1 + i - 1]
    BY <1>2, SubSeqProperties
  <2> QED
    BY <1>2, <2>1, <2>2, <2>3
<1> QED
  BY <1>3 DEF Front, n

LEMMA StackChange ==
  ASSUME NEW S, NEW s \in Seq(S), s # <<>>, NEW e \in S
  PROVE  LET r == [s EXCEPT ![Len(s)] = e]
         IN  /\ r \in Seq(S) /\ r # <<>> /\ Len(r) = Len(s) /\ Last(r) = e
             /\ r[Len(s)] = e /\ \A i \in 1..Len(s) : i # Len(s) => r[i] = s[i]
<1> DEFINE r == [s EXCEPT ![Len(s)] = e]
<1>1. Len(s) \in Nat /\ Len(s) >= 1
  BY StackTop
<1>2. r \in Seq(S) /\ Len(r) = Len(s)
  BY ExceptSeq, <1>1
<1>3. DOMAIN s = 1..Len(s) /\ Len(s) \in DOMAIN s
  BY <1>1, LenProperties
<1>4. r[Len(s)] = e
  BY <1>3
<1>5. \A i \in 1..Len(s) : i # Len(s) => r[i] = s[i]
  BY <1>3
<1>6. r # <<>>
  BY <1>1, <1>2
<1> QED
  BY <1>2, <1>4, <1>5, <1>6 DEF Last

LEMMA ElementReplaced ==
  ASSUME NEW S, NEW s \in Seq(S), NEW n \in 1..Len(s), NEW e \in S
  PROVE  LET r == [s EXCEPT ![n] = e]
         IN  /\ r \in Seq(S) /\ Len(r) = Len(s) /\ r[n] = e
             /\ \A i \in 1..Len(s) : i # n => r[i] = s[i]
<1> DEFINE r == [s EXCEPT ![n] = e]
<1>1. Len(s) \in Nat /\ s = [i \in 1..Len(s) |-> s[i]] /\ \A i \in 1..Len(s) : s[i] \in S
  BY LenProperties, ElementOfSeq
<1>2. r = [i \in 1..Len(s) |-> IF i = n THEN e ELSE s[i]]
  BY <1>1
<1> QED
  BY <1>1, <1>2

LEMMA LeastNumber ==
  ASSUME NEW S \in SUBSET Nat, S # {}
  PROVE  \E x \in S : \A y \in S : x <= y
<1> DEFINE R == OpToRel(<, Nat)
<1>1. \A x, y \in Nat : x < y => <<x, y>> \in R
  BY DEF OpToRel
<1>2. IsWellFoundedOn(R, Nat)
  BY NatLessThanWellFounded
<1> HIDE DEF R
<1>3. PICK x \in S : \A y \in S : ~ (<<y, x>> \in R)
  BY <1>2, WFMin
<1>4. \A y \in S : ~ (y < x)
  BY <1>1, <1>3
<1> QED
  BY <1>3, <1>4

LEMMA GreatestNumber ==
  ASSUME NEW n \in Nat, NEW S \in SUBSET (1..n), S # {}
  PROVE  \E x \in S : \A y \in S : y <= x
<1> DEFINE T == {z \in Nat : n - z \in S}
<1>1. \A y \in S : n - y \in Nat /\ n - (n - y) = y
  OBVIOUS
<1>2. T \in SUBSET Nat /\ T # {}
  BY <1>1
<1>3. PICK z \in T : \A y \in T : z <= y
  BY <1>2, LeastNumber
<1>4. \A y \in S : z <= n - y
  BY <1>1, <1>3
<1>5. \A y \in S : y <= n - z
  BY <1>1, <1>3, <1>4
<1> QED
  BY <1>3, <1>5

\* Induction for a set that is given.
LEMMA AllNumbers ==
  ASSUME NEW S \in SUBSET Nat, 0 \in S, \A n \in S : n + 1 \in S
  PROVE  S = Nat
<1> SUFFICES ASSUME Nat \ S # {} PROVE FALSE
  OBVIOUS
<1>1. PICK x \in Nat \ S : \A y \in Nat \ S : x <= y
  BY LeastNumber
<1>2. x # 0 /\ x - 1 \in Nat /\ x - 1 < x
  BY <1>1
<1>3. x - 1 \in S
  BY <1>1, <1>2
<1>4. (x - 1) + 1 = x
  BY <1>1
<1> QED
  BY <1>1, <1>3, <1>4

LEMMA FirstPart ==
  ASSUME NEW S, NEW s \in Seq(S), NEW n \in 0..Len(s)
  PROVE  /\ SubSeq(s, 1, n) \in Seq(S) /\ Len(SubSeq(s, 1, n)) = n
         /\ \A i \in 1..n : SubSeq(s, 1, n)[i] = s[i]
<1>1. Len(s) \in Nat /\ n \in Int /\ n >= 0 /\ \A i \in 1..n : s[i] \in S
  BY LenProperties, ElementOfSeq
<1>2. Len(SubSeq(s, 1, n)) = IF 1 <= n THEN n - 1 + 1 ELSE 0
  BY <1>1, SubSeqProperties
<1>3. SubSeq(s, 1, n) \in Seq(S)
  BY <1>1, SubSeqProperties
<1>4. \A i \in 1..(n - 1 + 1) : SubSeq(s, 1, n)[i] = s[1 + i - 1]
  BY <1>1, SubSeqProperties
<1> QED
  BY <1>1, <1>2, <1>3, <1>4

LEMMA SecondPart ==
  ASSUME NEW S, NEW s \in Seq(S), NEW n \in 0..Len(s)
  PROVE  /\ SubSeq(s, n + 1, Len(s)) \in Seq(S) /\ Len(SubSeq(s, n + 1, Len(s))) = Len(s) - n
         /\ \A i \in 1..(Len(s) - n) : SubSeq(s, n + 1, Len(s))[i] = s[n + i]
<1> DEFINE m == n + 1
           l == Len(s)
<1>1. l \in Nat /\ m \in Int /\ m >= 1 /\ m <= l + 1 /\ \A i \in m..l : s[i] \in S
  BY LenProperties, ElementOfSeq
<1> HIDE DEF m, l
<1>2. Len(SubSeq(s, m, l)) = IF m <= l THEN l - m + 1 ELSE 0
  BY <1>1, SubSeqProperties
<1>3. SubSeq(s, m, l) \in Seq(S)
  BY <1>1, SubSeqProperties
<1>4. \A i \in 1..(l - m + 1) : SubSeq(s, m, l)[i] = s[m + i - 1]
  BY <1>1, SubSeqProperties
<1>5. Len(SubSeq(s, m, l)) = l - n /\ l - m + 1 = l - n /\ \A i \in Nat : m + i - 1 = n + i
  BY <1>1, <1>2 DEF m
<1>6. \A i \in 1..(l - n) : SubSeq(s, m, l)[i] = s[n + i]
  BY <1>1, <1>4, <1>5
<1> QED
  BY <1>3, <1>5, <1>6 DEF m, l

LEMMA PartsOfWhole ==
  ASSUME NEW S, NEW s \in Seq(S), NEW n \in 0..Len(s)
  PROVE  SubSeq(s, 1, n) \o SubSeq(s, n + 1, Len(s)) = s
<1> DEFINE a == SubSeq(s, 1, n)
           b == SubSeq(s, n + 1, Len(s))
<1>1. a \in Seq(S) /\ Len(a) = n /\ \A i \in 1..n : a[i] = s[i]
  BY FirstPart
<1>2. b \in Seq(S) /\ Len(b) = Len(s) - n /\ \A i \in 1..(Len(s) - n) : b[i] = s[n + i]
  BY SecondPart
<1>3. Len(s) \in Nat
  BY LenProperties
<1> HIDE DEF a, b
<1>4. /\ a \o b \in Seq(S) /\ Len(a \o b) = Len(a) + Len(b)
      /\ \A i \in 1 .. Len(a) + Len(b) : (a \o b)[i] = IF i <= Len(a) THEN a[i] ELSE b[i - Len(a)]
  BY <1>1, <1>2, ConcatProperties
<1>5. Len(a \o b) = Len(s)
  BY <1>1, <1>2, <1>3, <1>4
<1>6. \A i \in 1..Len(a \o b) : (a \o b)[i] = s[i]
  <2> SUFFICES ASSUME NEW i \in 1..Len(s) PROVE (a \o b)[i] = s[i]
    BY <1>5
  <2>1. CASE i <= n
    BY <1>1, <1>2, <1>3, <1>4, <2>1
  <2>2. CASE ~ (i <= n)
    <3>1. i - n \in 1..(Len(s) - n) /\ n + (i - n) = i
      BY <1>3, <2>2
    <3>2. b[i - n] = s[i]
      BY <1>2, <3>1
    <3> QED
      BY <1>1, <1>2, <1>3, <1>4, <2>2, <3>2
  <2> QED
    BY <2>1, <2>2
<1>7. a \o b = s
  BY <1>4, <1>5, <1>6, SeqEqual
<1> QED
  BY <1>7 DEF a, b

\* Cutting a concatenation in its first part.
LEMMA PartsOfConcat ==
  ASSUME NEW S, NEW s \in Seq(S), NEW t \in Seq(S), NEW n \in 0..Len(s)
  PROVE  /\ n \in 0..Len(s \o t)
         /\ SubSeq(s \o t, 1, n) = SubSeq(s, 1, n)
         /\ SubSeq(s \o t, n + 1, Len(s \o t)) = SubSeq(s, n + 1, Len(s)) \o t
<1> DEFINE w == s \o t
           a == SubSeq(s, 1, n)
           b == SubSeq(s, n + 1, Len(s))
<1>1. Len(s) \in Nat /\ Len(t) \in Nat
  BY LenProperties
<1>2. /\ w \in Seq(S) /\ Len(w) = Len(s) + Len(t)
      /\ \A i \in 1 .. Len(s) + Len(t) : w[i] = IF i <= Len(s) THEN s[i] ELSE t[i - Len(s)]
  BY ConcatProperties
<1>3. a \in Seq(S) /\ Len(a) = n /\ \A i \in 1..n : a[i] = s[i]
  BY FirstPart
<1>4. b \in Seq(S) /\ Len(b) = Len(s) - n
  BY SecondPart
<1>5. a \o b = s
  BY PartsOfWhole
<1> HIDE DEF w, a, b
<1>6. n \in 0..Len(w)
  BY <1>1, <1>2
<1>7. /\ SubSeq(w, 1, n) \in Seq(S) /\ Len(SubSeq(w, 1, n)) = n
      /\ \A i \in 1..n : SubSeq(w, 1, n)[i] = w[i]
  BY <1>2, <1>6, FirstPart
<1>8. \A i \in 1..n : w[i] = s[i]
  BY <1>1, <1>2
<1>9. SubSeq(w, 1, n) = a
  BY <1>3, <1>7, <1>8, SeqEqual
<1>10. a \o SubSeq(w, n + 1, Len(w)) = w
  BY <1>2, <1>6, <1>9, PartsOfWhole
<1>11. SubSeq(w, n + 1, Len(w)) \in Seq(S)
  BY <1>2, <1>6, SecondPart
<1>12. w = a \o (b \o t) /\ b \o t \in Seq(S)
  <2>1. (a \o b) \o t = a \o (b \o t)
    <3>1. \A x, y, z \in Seq(S) : (x \o y) \o z = x \o (y \o z)
      BY ConcatAssociative
    <3> QED
      BY <1>3, <1>4, <3>1, Zenon
  <2>2. b \o t \in Seq(S)
    BY <1>4, ConcatProperties
  <2>3. w = s \o t
    BY DEF w
  <2> QED
    BY <1>5, <2>1, <2>2, <2>3
<1>13. SubSeq(w, n + 1, Len(w)) = b \o t
  <2>1. \A x, y, z \in Seq(S) : x \o y = x \o z => y = z
    BY ConcatSimplifications
  <2> QED
    BY <1>3, <1>10, <1>11, <1>12, <2>1
<1> QED
  BY <1>6, <1>9, <1>13 DEF w, a, b

LEMMA ChosenSteps ==
  ASSUME NEW S, NEW s \in Seq(S), NEW M
  PROVE  \E c : /\ Chosen(s, M) = c[Len(s)] /\ c[0] = <<>>
                /\ \A i \in 1 .. Len(s) :
                     c[i] = IF s[i] \in M THEN Append(c[i - 1], s[i]) ELSE c[i - 1]
<1> DEFINE L == Len(s)
           IsChosen(f, k) == f = [i \in 0 .. k |->
             IF i = 0 THEN <<>> ELSE IF s[i] \in M THEN Append(f[i - 1], s[i]) ELSE f[i - 1]]
           K == {k \in Nat : \E f : IsChosen(f, k)}
<1>1. 0 \in K
  <2>1. IsChosen([i \in 0 .. 0 |-> <<>>], 0)
    OBVIOUS
  <2> QED
    BY <2>1
<1>2. ASSUME NEW k \in K PROVE k + 1 \in K
  <2>1. PICK f : IsChosen(f, k)
    BY <1>2
  <2>2. PICK x : x = IF s[k + 1] \in M THEN Append(f[k], s[k + 1]) ELSE f[k]
    OBVIOUS
  <2>3. PICK g : g = [i \in 0 .. k + 1 |-> IF i <= k THEN f[i] ELSE x]
    OBVIOUS
  <2>4. \A i \in 0 .. k : f[i] = IF i = 0 THEN <<>>
                                 ELSE IF s[i] \in M THEN Append(f[i - 1], s[i]) ELSE f[i - 1]
    BY <2>1
  <2>5. ASSUME NEW i \in 0 .. k + 1
        PROVE  g[i] = IF i = 0 THEN <<>>
                      ELSE IF s[i] \in M THEN Append(g[i - 1], s[i]) ELSE g[i - 1]
    <3>1. CASE i <= k
      <4>1. i \in 0 .. k /\ g[i] = f[i] /\ (i # 0 => g[i - 1] = f[i - 1])
        BY <2>3, <3>1
      <4> QED
        BY <2>4, <4>1
    <3>2. CASE i = k + 1
      <4>1. g[i] = x /\ g[i - 1] = f[k] /\ i # 0
        BY <2>3, <3>2
      <4> QED
        BY <2>2, <3>2, <4>1
    <3> QED
      BY <3>1, <3>2
  <2>6. IsChosen(g, k + 1)
    BY <2>3, <2>5
  <2> HIDE DEF IsChosen
  <2>7. k + 1 \in Nat
    OBVIOUS
  <2> QED
    BY <2>6, <2>7
<1>3. K = Nat
  <2> HIDE DEF K
  <2>1. K \in SUBSET Nat
    BY DEF K
  <2> QED
    BY <1>1, <1>2, <2>1, AllNumbers
<1>4. L \in Nat
  OBVIOUS
<1>5. PICK f : IsChosen(f, L)
  BY <1>3, <1>4
<1>6. PICK c : c = CHOOSE g : IsChosen(g, L)
  OBVIOUS
<1>7. IsChosen(c, L)
  BY <1>5, <1>6
<1>8. Chosen(s, M) = c[L]
  BY <1>6 DEF Chosen
<1>9. \A i \in 0 .. L : c[i] = IF i = 0 THEN <<>>
                              ELSE IF s[i] \in M THEN Append(c[i - 1], s[i]) ELSE c[i - 1]
  BY <1>7
<1>10. c[0] = <<>>
  BY <1>4, <1>9
<1>11. \A i \in 1 .. L : c[i] = IF s[i] \in M THEN Append(c[i - 1], s[i]) ELSE c[i - 1]
  BY <1>4, <1>9
<1> HIDE DEF IsChosen
<1> QED
  BY <1>8, <1>10, <1>11

LEMMA ChosenAreChosen ==
  ASSUME NEW S, NEW s \in Seq(S), NEW M
  PROVE  Chosen(s, M) \in Seq(M)
<1> DEFINE L == Len(s)
<1>1. PICK c : /\ Chosen(s, M) = c[L] /\ c[0] = <<>>
               /\ \A i \in 1 .. L : c[i] = IF s[i] \in M THEN Append(c[i - 1], s[i]) ELSE c[i - 1]
  BY ChosenSteps
<1>2. L \in Nat
  OBVIOUS
<1> HIDE DEF L
<1> DEFINE T == {k \in Nat : k <= L => c[k] \in Seq(M)}
<1>3. 0 \in T
  <2>1. c[0] \in Seq(M)
    BY <1>1, EmptySeq
  <2> QED
    BY <2>1
<1>4. ASSUME NEW k \in T PROVE k + 1 \in T
  <2> SUFFICES ASSUME k + 1 <= L PROVE c[k + 1] \in Seq(M)
    OBVIOUS
  <2>1. k + 1 \in 1 .. L /\ (k + 1) - 1 = k /\ c[k] \in Seq(M)
    BY <1>2
  <2>2. c[k + 1] = IF s[k + 1] \in M THEN Append(c[k], s[k + 1]) ELSE c[k]
    BY <1>1, <2>1
  <2>3. \A x \in M : Append(c[k], x) \in Seq(M)
    BY <2>1, AppendProperties
  <2> QED
    BY <2>1, <2>2, <2>3
<1>5. T = Nat
  <2> HIDE DEF T
  <2>1. T \in SUBSET Nat
    BY DEF T
  <2> QED
    BY <1>3, <1>4, <2>1, AllNumbers
<1> QED
  BY <1>1, <1>2, <1>5

LEMMA SomeChosen ==
  ASSUME NEW S, NEW s \in Seq(S), NEW M, NEW n \in 1 .. Len(s), s[n] \in M
  PROVE  Chosen(s, M) # <<>>
<1> DEFINE L == Len(s)
<1>1. PICK c : /\ Chosen(s, M) = c[L] /\ c[0] = <<>>
               /\ \A i \in 1 .. L : c[i] = IF s[i] \in M THEN Append(c[i - 1], s[i]) ELSE c[i - 1]
  BY ChosenSteps
<1>2. L \in Nat /\ n \in 1 .. L
  OBVIOUS
<1> HIDE DEF L
<1> DEFINE T == {k \in Nat : k <= L => c[k] \in Seq(M) /\ (n <= k => c[k] # <<>>)}
<1>3. 0 \in T
  <2>1. c[0] \in Seq(M) /\ ~(n <= 0)
    BY <1>1, <1>2, EmptySeq
  <2> QED
    BY <2>1
<1>4. ASSUME NEW k \in T PROVE k + 1 \in T
  <2> SUFFICES ASSUME k + 1 <= L PROVE c[k + 1] \in Seq(M) /\ (n <= k + 1 => c[k + 1] # <<>>)
    OBVIOUS
  <2>1. k + 1 \in 1 .. L /\ (k + 1) - 1 = k /\ c[k] \in Seq(M) /\ (n <= k => c[k] # <<>>)
    BY <1>2
  <2>2. c[k + 1] = IF s[k + 1] \in M THEN Append(c[k], s[k + 1]) ELSE c[k]
    BY <1>1, <2>1
  <2>3. \A x \in M : Append(c[k], x) \in Seq(M) /\ Append(c[k], x) # <<>>
    BY <2>1, AppendProperties
  <2>4. n <= k + 1 => n <= k \/ n = k + 1
    BY <1>2
  <2> QED
    BY <2>1, <2>2, <2>3, <2>4
<1>5. T = Nat
  <2> HIDE DEF T
  <2>1. T \in SUBSET Nat
    BY DEF T
  <2> QED
    BY <1>3, <1>4, <2>1, AllNumbers
<1> QED
  BY <1>1, <1>2, <1>5

\* A concatenation of sequences, step by step.
LEMMA FlattenSteps ==
  ASSUME NEW S, NEW s \in Seq(Seq(S)), s # <<>>
  PROVE  \E c : /\ FlattenSeq(s) = c[Len(s)]
                /\ \A i \in 1 .. Len(s) : c[i] = IF i = 1 THEN s[i] ELSE c[i - 1] \o s[i]
<1> DEFINE L == Len(s)
           IsFlat(f, k) == f = [i \in 1 .. k |-> IF i = 1 THEN s[i] ELSE f[i - 1] \o s[i]]
           K == {k \in Nat : \E f : IsFlat(f, k)}
<1>1. 0 \in K
  <2>1. IsFlat([i \in 1 .. 0 |-> <<>>], 0)
    OBVIOUS
  <2> QED
    BY <2>1
<1>2. ASSUME NEW k \in K PROVE k + 1 \in K
  <2>1. PICK f : IsFlat(f, k)
    BY <1>2
  <2>2. PICK x : x = IF k = 0 THEN s[1] ELSE f[k] \o s[k + 1]
    OBVIOUS
  <2>3. PICK g : g = [i \in 1 .. k + 1 |-> IF i <= k THEN f[i] ELSE x]
    OBVIOUS
  <2>4. \A i \in 1 .. k : f[i] = IF i = 1 THEN s[i] ELSE f[i - 1] \o s[i]
    BY <2>1
  <2>5. ASSUME NEW i \in 1 .. k + 1
        PROVE  g[i] = IF i = 1 THEN s[i] ELSE g[i - 1] \o s[i]
    <3>1. CASE i <= k
      <4>1. i \in 1 .. k /\ g[i] = f[i] /\ (i # 1 => g[i - 1] = f[i - 1])
        BY <2>3, <3>1
      <4> QED
        BY <2>4, <4>1
    <3>2. CASE i = k + 1
      <4>1. g[i] = x /\ (k # 0 => g[i - 1] = f[k]) /\ (i = 1 <=> k = 0)
        BY <2>3, <3>2
      <4> QED
        BY <2>2, <3>2, <4>1
    <3> QED
      BY <3>1, <3>2
  <2>6. IsFlat(g, k + 1)
    BY <2>3, <2>5
  <2> HIDE DEF IsFlat
  <2>7. k + 1 \in Nat
    OBVIOUS
  <2> QED
    BY <2>6, <2>7
<1>3. K = Nat
  <2> HIDE DEF K
  <2>1. K \in SUBSET Nat
    BY DEF K
  <2> QED
    BY <1>1, <1>2, <2>1, AllNumbers
<1>4. L \in Nat /\ L # 0
  BY EmptySeq
<1>5. PICK f : IsFlat(f, L)
  BY <1>3, <1>4
<1>6. PICK c : c = CHOOSE g : IsFlat(g, L)
  OBVIOUS
<1>7. IsFlat(c, L)
  BY <1>5, <1>6
<1>8. FlattenSeq(s) = c[L]
  BY <1>4, <1>6 DEF FlattenSeq
<1>9. \A i \in 1 .. L : c[i] = IF i = 1 THEN s[i] ELSE c[i - 1] \o s[i]
  BY <1>7
<1> QED
  BY <1>8, <1>9

LEMMA FlattenedIsSequence ==
  ASSUME NEW S, NEW s \in Seq(Seq(S))
  PROVE  FlattenSeq(s) \in Seq(S)
<1> DEFINE L == Len(s)
<1>1. CASE s = <<>>
  BY <1>1, EmptySeq DEF FlattenSeq
<1>2. CASE s # <<>>
  <2>1. L \in Nat /\ L >= 1
    BY <1>2, EmptySeq
  <2>2. PICK c : /\ FlattenSeq(s) = c[L]
                 /\ \A i \in 1 .. L : c[i] = IF i = 1 THEN s[i] ELSE c[i - 1] \o s[i]
    BY <1>2, FlattenSteps
  <2>3. \A i \in 1 .. L : s[i] \in Seq(S)
    BY ElementOfSeq
  <2> DEFINE T == {k \in Nat : k + 1 <= L => c[k + 1] \in Seq(S)}
  <2> HIDE DEF L
  <2>4. 0 \in T
    BY <2>1, <2>2, <2>3
  <2>5. ASSUME NEW k \in T PROVE k + 1 \in T
    <3> SUFFICES ASSUME (k + 1) + 1 <= L PROVE c[(k + 1) + 1] \in Seq(S)
      OBVIOUS
    <3>1. /\ (k + 1) + 1 \in 1 .. L /\ (k + 1) + 1 # 1 /\ ((k + 1) + 1) - 1 = k + 1
          /\ k + 1 <= L
      BY <2>1
    <3>2. c[(k + 1) + 1] = c[k + 1] \o s[(k + 1) + 1]
      BY <2>2, <3>1
    <3>3. c[k + 1] \in Seq(S) /\ s[(k + 1) + 1] \in Seq(S)
      BY <2>3, <3>1
    <3> QED
      BY <3>2, <3>3, ConcatProperties
  <2>6. T = Nat
    <3> HIDE DEF T
    <3>1. T \in SUBSET Nat
      BY DEF T
    <3> QED
      BY <2>4, <2>5, <3>1, AllNumbers
  <2>7. L - 1 \in T /\ (L - 1) + 1 = L
    <3>1. L - 1 \in Nat /\ (L - 1) + 1 = L
      BY <2>1
    <3> HIDE DEF T
    <3> QED
      BY <2>6, <3>1
  <2> QED
    BY <2>2, <2>7
<1> QED
  BY <1>1, <1>2

LEMMA ConcatSet ==
  ASSUME NEW S, NEW s \in Seq(S), NEW t \in Seq(S)
  PROVE  ToSet(s \o t) = ToSet(s) \cup ToSet(t)
<1> DEFINE w == s \o t
<1>1. /\ Len(s) \in Nat /\ Len(t) \in Nat /\ DOMAIN s = 1 .. Len(s) /\ DOMAIN t = 1 .. Len(t)
      /\ DOMAIN w = 1 .. Len(s) + Len(t)
      /\ \A i \in 1 .. Len(s) + Len(t) : w[i] = IF i <= Len(s) THEN s[i] ELSE t[i - Len(s)]
  BY ConcatProperties, LenProperties
<1> HIDE DEF w
<1>2. ASSUME NEW x \in ToSet(w) PROVE x \in ToSet(s) \cup ToSet(t)
  <2>1. PICK i \in 1 .. Len(s) + Len(t) : x = w[i]
    BY <1>1 DEF ToSet
  <2>2. CASE i <= Len(s)
    BY <1>1, <2>1, <2>2 DEF ToSet
  <2>3. CASE ~ (i <= Len(s))
    <3>1. i - Len(s) \in 1 .. Len(t)
      BY <1>1, <2>3
    <3> QED
      BY <1>1, <2>1, <2>3, <3>1 DEF ToSet
  <2> QED
    BY <2>2, <2>3
<1>3. ASSUME NEW x \in ToSet(s) PROVE x \in ToSet(w)
  <2>1. PICK i \in 1 .. Len(s) : x = s[i]
    BY <1>1 DEF ToSet
  <2>2. i \in 1 .. Len(s) + Len(t) /\ i <= Len(s)
    BY <1>1
  <2> QED
    BY <1>1, <2>1, <2>2 DEF ToSet
<1>4. ASSUME NEW x \in ToSet(t) PROVE x \in ToSet(w)
  <2>1. PICK i \in 1 .. Len(t) : x = t[i]
    BY <1>1 DEF ToSet
  <2>2. i + Len(s) \in 1 .. Len(s) + Len(t) /\ ~ (i + Len(s) <= Len(s)) /\ (i + Len(s)) - Len(s) = i
    BY <1>1
  <2> QED
    BY <1>1, <2>1, <2>2 DEF ToSet
<1> QED
  BY <1>2, <1>3, <1>4 DEF w

LEMMA HeadSet ==
  ASSUME NEW S, NEW x \in S, NEW t \in Seq(S)
  PROVE  <<x>> \o t \in Seq(S) /\ ToSet(<<x>> \o t) = {x} \cup ToSet(t)
<1>1. PICK u : u = <<x>>
  OBVIOUS
<1>2. u \in Seq(S) /\ ToSet(u) = {x}
  BY <1>1 DEF ToSet
<1>3. u \o t \in Seq(S) /\ ToSet(u \o t) = {x} \cup ToSet(t)
  BY <1>2, ConcatSet, ConcatProperties
<1> QED
  BY <1>1, <1>3

LEMMA FlattenedSet ==
  ASSUME NEW S, NEW s \in Seq(Seq(S))
  PROVE  ToSet(FlattenSeq(s)) = UNION {ToSet(s[i]) : i \in 1 .. Len(s)}
<1> DEFINE L == Len(s)
           Upto(n) == UNION {ToSet(s[i]) : i \in 1 .. n}
<1>1. CASE s = <<>>
  <2>1. Len(s) = 0 /\ FlattenSeq(s) = <<>>
    BY <1>1, EmptySeq DEF FlattenSeq
  <2> QED
    BY <2>1 DEF ToSet
<1>2. CASE s # <<>>
  <2>1. L \in Nat /\ L >= 1
    BY <1>2, EmptySeq
  <2>2. PICK c : /\ FlattenSeq(s) = c[L]
                 /\ \A i \in 1 .. L : c[i] = IF i = 1 THEN s[i] ELSE c[i - 1] \o s[i]
    BY <1>2, FlattenSteps
  <2>3. \A i \in 1 .. L : s[i] \in Seq(S)
    BY ElementOfSeq
  <2> DEFINE T == {k \in Nat : k + 1 <= L => c[k + 1] \in Seq(S) /\ ToSet(c[k + 1]) = Upto(k + 1)}
  <2> HIDE DEF L
  <2>4. 0 \in T
    <3>1. c[1] = s[1] /\ s[1] \in Seq(S)
      BY <2>1, <2>2, <2>3
    <3>2. Upto(0 + 1) = ToSet(s[1])
      <4>1. 1 .. 0 + 1 = {1}
        OBVIOUS
      <4> QED
        BY <4>1
    <3> QED
      BY <3>1, <3>2
  <2>5. ASSUME NEW k \in T PROVE k + 1 \in T
    <3> SUFFICES ASSUME (k + 1) + 1 <= L
                 PROVE  c[(k + 1) + 1] \in Seq(S) /\ ToSet(c[(k + 1) + 1]) = Upto((k + 1) + 1)
      OBVIOUS
    <3>1. /\ (k + 1) + 1 \in 1 .. L /\ (k + 1) + 1 # 1 /\ ((k + 1) + 1) - 1 = k + 1
          /\ k + 1 <= L
      BY <2>1
    <3>2. c[(k + 1) + 1] = c[k + 1] \o s[(k + 1) + 1]
      BY <2>2, <3>1
    <3>3. c[k + 1] \in Seq(S) /\ ToSet(c[k + 1]) = Upto(k + 1) /\ s[(k + 1) + 1] \in Seq(S)
      BY <2>3, <3>1
    <3>4. ToSet(c[(k + 1) + 1]) = Upto(k + 1) \cup ToSet(s[(k + 1) + 1])
      BY <3>2, <3>3, ConcatSet
    <3>5. Upto((k + 1) + 1) = Upto(k + 1) \cup ToSet(s[(k + 1) + 1])
      <4>1. 1 .. (k + 1) + 1 = (1 .. k + 1) \cup {(k + 1) + 1}
        OBVIOUS
      <4> QED
        BY <4>1
    <3> QED
      BY <3>2, <3>3, <3>4, <3>5, ConcatProperties
  <2>6. T = Nat
    <3> HIDE DEF T
    <3>1. T \in SUBSET Nat
      BY DEF T
    <3> QED
      BY <2>4, <2>5, <3>1, AllNumbers
  <2>7. L - 1 \in T /\ (L - 1) + 1 = L
    <3>1. L - 1 \in Nat /\ (L - 1) + 1 = L
      BY <2>1
    <3> HIDE DEF T
    <3> QED
      BY <2>6, <3>1
  <2>8. ToSet(c[L]) = Upto(L)
    BY <2>1, <2>7
  <2> QED
    BY <2>2, <2>8 DEF L
<1> QED
  BY <1>1, <1>2

LEMMA ChosenSet ==
  ASSUME NEW S, NEW s \in Seq(S), NEW M
  PROVE  ToSet(Chosen(s, M)) = ToSet(s) \cap M
<1> DEFINE L == Len(s)
           Upto(n) == {s[i] : i \in 1 .. n} \cap M
<1>1. PICK c : /\ Chosen(s, M) = c[L] /\ c[0] = <<>>
               /\ \A i \in 1 .. L : c[i] = IF s[i] \in M THEN Append(c[i - 1], s[i]) ELSE c[i - 1]
  BY ChosenSteps
<1>2. L \in Nat /\ DOMAIN s = 1 .. L
  BY LenProperties
<1> HIDE DEF L
<1> DEFINE T == {k \in Nat : k <= L => c[k] \in Seq(M) /\ ToSet(c[k]) = Upto(k)}
<1>3. 0 \in T
  <2>1. c[0] \in Seq(M) /\ ToSet(<<>>) = {} /\ 1 .. 0 = {}
    BY <1>1, EmptySeq DEF ToSet
  <2> QED
    BY <1>1, <2>1
<1>4. ASSUME NEW k \in T PROVE k + 1 \in T
  <2> SUFFICES ASSUME k + 1 <= L PROVE c[k + 1] \in Seq(M) /\ ToSet(c[k + 1]) = Upto(k + 1)
    OBVIOUS
  <2>1. k + 1 \in 1 .. L /\ (k + 1) - 1 = k /\ c[k] \in Seq(M) /\ ToSet(c[k]) = Upto(k)
    BY <1>2
  <2>2. c[k + 1] = IF s[k + 1] \in M THEN Append(c[k], s[k + 1]) ELSE c[k]
    BY <1>1, <2>1
  <2>3. {s[i] : i \in 1 .. k + 1} = {s[i] : i \in 1 .. k} \cup {s[k + 1]}
    <3>1. 1 .. k + 1 = (1 .. k) \cup {k + 1}
      OBVIOUS
    <3> QED
      BY <3>1
  <2>4. CASE s[k + 1] \in M
    <3>1. PICK x \in M : x = s[k + 1]
      BY <2>4
    <3>2. PICK e \in Seq(M) : e = c[k]
      BY <2>1
    <3>3. PICK u : u = <<x>>
      OBVIOUS
    <3>4. u \in Seq(M) /\ ToSet(u) = {x}
      BY <3>1, <3>3 DEF ToSet
    <3>5. Append(e, x) = e \o u /\ Append(e, x) \in Seq(M)
      BY <3>1, <3>2, <3>3, AppendIsConcat, AppendProperties
    <3>6. ToSet(e \o u) = ToSet(e) \cup ToSet(u)
      BY <3>2, <3>4, ConcatSet
    <3>7. c[k + 1] = Append(e, x)
      BY <2>2, <2>4, <3>1, <3>2
    <3>8. Upto(k + 1) = Upto(k) \cup {x}
      BY <2>3, <2>4, <3>1
    <3> QED
      BY <2>1, <3>2, <3>4, <3>5, <3>6, <3>7, <3>8
  <2>5. CASE s[k + 1] \notin M
    BY <2>1, <2>2, <2>3, <2>5
  <2> QED
    BY <2>4, <2>5
<1>5. T = Nat
  <2> HIDE DEF T
  <2>1. T \in SUBSET Nat
    BY DEF T
  <2> QED
    BY <1>3, <1>4, <2>1, AllNumbers
<1>6. ToSet(c[L]) = Upto(L)
  BY <1>2, <1>5
<1>7. ToSet(s) = {s[i] : i \in 1 .. L}
  BY <1>2 DEF ToSet
<1> QED
  BY <1>1, <1>6, <1>7

-----------------------------------------------------------------------------
(* Totals *)

LEMMA TotalSteps ==
  ASSUME NEW s \in Seq(Nat)
  PROVE  \E u : /\ Total(s) = u[Len(s)] /\ u[0] = 0
                /\ \A i \in 1 .. Len(s) : u[i] = u[i - 1] + s[i]
                /\ \A i \in 0 .. Len(s) : u[i] \in Nat
<1> DEFINE L == Len(s)
           IsTotal(f, k) == f = [i \in 0 .. k |-> IF i = 0 THEN 0 ELSE f[i - 1] + s[i]]
           K == {k \in Nat : \E f : IsTotal(f, k)}
<1>1. 0 \in K
  <2>1. IsTotal([i \in 0 .. 0 |-> 0], 0)
    OBVIOUS
  <2> QED
    BY <2>1
<1>2. ASSUME NEW k \in K PROVE k + 1 \in K
  <2>1. PICK f : IsTotal(f, k)
    BY <1>2
  <2>2. PICK x : x = f[k] + s[k + 1]
    OBVIOUS
  <2>3. PICK g : g = [i \in 0 .. k + 1 |-> IF i <= k THEN f[i] ELSE x]
    OBVIOUS
  <2>4. \A i \in 0 .. k : f[i] = IF i = 0 THEN 0 ELSE f[i - 1] + s[i]
    BY <2>1
  <2>5. ASSUME NEW i \in 0 .. k + 1
        PROVE  g[i] = IF i = 0 THEN 0 ELSE g[i - 1] + s[i]
    <3>1. CASE i <= k
      <4>1. i \in 0 .. k /\ g[i] = f[i] /\ (i # 0 => g[i - 1] = f[i - 1])
        BY <2>3, <3>1
      <4> QED
        BY <2>4, <4>1
    <3>2. CASE i = k + 1
      <4>1. g[i] = x /\ g[i - 1] = f[k] /\ i # 0
        BY <2>3, <3>2
      <4> QED
        BY <2>2, <3>2, <4>1
    <3> QED
      BY <3>1, <3>2
  <2>6. IsTotal(g, k + 1)
    BY <2>3, <2>5
  <2> QED
    BY <2>6
<1>3. K = Nat
  <2> HIDE DEF K
  <2>1. K \in SUBSET Nat
    BY DEF K
  <2> QED
    BY <1>1, <1>2, <2>1, AllNumbers
<1>4. L \in Nat
  OBVIOUS
<1>5. PICK f : IsTotal(f, L)
  BY <1>3, <1>4
<1>6. PICK u : u = CHOOSE g : IsTotal(g, L)
  OBVIOUS
<1>7. IsTotal(u, L)
  BY <1>5, <1>6
<1>8. Total(s) = u[L]
  BY <1>6 DEF Total
<1>9. \A i \in 0 .. L : u[i] = IF i = 0 THEN 0 ELSE u[i - 1] + s[i]
  BY <1>7
<1>10. u[0] = 0
  BY <1>4, <1>9
<1>11. \A i \in 1 .. L : u[i] = u[i - 1] + s[i]
  BY <1>4, <1>9
<1> HIDE DEF IsTotal
<1> DEFINE T == {k \in Nat : k <= L => u[k] \in Nat}
<1>12. 0 \in T
  BY <1>10
<1>13. ASSUME NEW k \in T PROVE k + 1 \in T
  <2> SUFFICES ASSUME k + 1 <= L PROVE u[k + 1] \in Nat
    OBVIOUS
  <2>1. k + 1 \in 1 .. L /\ (k + 1) - 1 = k /\ u[k] \in Nat
    BY <1>4
  <2>2. s[k + 1] \in Nat /\ u[k + 1] = u[k] + s[k + 1]
    BY <1>11, <2>1, ElementOfSeq
  <2> QED
    BY <2>1, <2>2
<1>14. T = Nat
  <2> HIDE DEF T
  <2>1. T \in SUBSET Nat
    BY DEF T
  <2> QED
    BY <1>12, <1>13, <2>1, AllNumbers
<1>15. \A i \in 0 .. L : u[i] \in Nat
  BY <1>4, <1>14
<1> QED
  BY <1>8, <1>10, <1>11, <1>15

LEMMA TotalIsNumber ==
  ASSUME NEW s \in Seq(Nat)
  PROVE  Total(s) \in Nat
<1>1. Len(s) \in 0 .. Len(s)
  BY LenProperties
<1> QED
  BY <1>1, TotalSteps

LEMMA TotalOfAppended ==
  ASSUME NEW s \in Seq(Nat), NEW x \in Nat
  PROVE  Total(Append(s, x)) = Total(s) + x
<1> DEFINE L == Len(s)
           t == Append(s, x)
<1>1. /\ t \in Seq(Nat) /\ Len(t) = L + 1 /\ t[L + 1] = x /\ L \in Nat
      /\ \A i \in 1 .. L : t[i] = s[i]
  BY AppendProperties, LenProperties
<1>2. PICK u : /\ Total(s) = u[L] /\ u[0] = 0
               /\ \A i \in 1 .. L : u[i] = u[i - 1] + s[i]
               /\ \A i \in 0 .. L : u[i] \in Nat
  BY TotalSteps
<1> HIDE DEF t
<1>3. PICK w : /\ Total(t) = w[Len(t)] /\ w[0] = 0
               /\ \A i \in 1 .. Len(t) : w[i] = w[i - 1] + t[i]
               /\ \A i \in 0 .. Len(t) : w[i] \in Nat
  BY <1>1, TotalSteps
<1> HIDE DEF L
<1> DEFINE T == {k \in Nat : k <= L => w[k] = u[k]}
<1>4. 0 \in T
  BY <1>2, <1>3
<1>5. ASSUME NEW k \in T PROVE k + 1 \in T
  <2> SUFFICES ASSUME k + 1 <= L PROVE w[k + 1] = u[k + 1]
    OBVIOUS
  <2>1. k + 1 \in 1 .. L /\ k + 1 \in 1 .. Len(t) /\ (k + 1) - 1 = k /\ w[k] = u[k]
    BY <1>1
  <2> QED
    BY <1>1, <1>2, <1>3, <2>1
<1>6. T = Nat
  <2> HIDE DEF T
  <2>1. T \in SUBSET Nat
    BY DEF T
  <2> QED
    BY <1>4, <1>5, <2>1, AllNumbers
<1>7. w[L] = u[L] /\ L + 1 \in 1 .. Len(t) /\ (L + 1) - 1 = L
  BY <1>1, <1>6
<1> QED
  BY <1>1, <1>2, <1>3, <1>7 DEF t

LEMMA TotalOfChanged ==
  ASSUME NEW s \in Seq(Nat), NEW t \in Seq(Nat), Len(t) = Len(s), NEW n \in 1 .. Len(s),
         \A i \in 1 .. Len(s) : i # n => t[i] = s[i]
  PROVE  Total(t) + s[n] = Total(s) + t[n]
<1> DEFINE L == Len(s)
<1>1. PICK u : /\ Total(s) = u[L] /\ u[0] = 0
               /\ \A i \in 1 .. L : u[i] = u[i - 1] + s[i]
               /\ \A i \in 0 .. L : u[i] \in Nat
  BY TotalSteps
<1>2. PICK w : /\ Total(t) = w[L] /\ w[0] = 0
               /\ \A i \in 1 .. L : w[i] = w[i - 1] + t[i]
               /\ \A i \in 0 .. L : w[i] \in Nat
  BY TotalSteps
<1>3. L \in Nat /\ n \in 1 .. L /\ s[n] \in Nat /\ t[n] \in Nat
      /\ \A i \in 1 .. L : s[i] \in Nat /\ t[i] \in Nat
  BY ElementOfSeq, LenProperties
<1>4. \A i \in 1 .. L : i # n => t[i] = s[i]
  OBVIOUS
<1> HIDE DEF L
<1> DEFINE T == {k \in Nat : k <= L => IF k < n THEN w[k] = u[k] ELSE w[k] + s[n] = u[k] + t[n]}
<1>5. 0 \in T
  BY <1>1, <1>2, <1>3
<1>6. ASSUME NEW k \in T PROVE k + 1 \in T
  <2> SUFFICES ASSUME k + 1 <= L
               PROVE  IF k + 1 < n THEN w[k + 1] = u[k + 1] ELSE w[k + 1] + s[n] = u[k + 1] + t[n]
    OBVIOUS
  <2>1. k + 1 \in 1 .. L /\ (k + 1) - 1 = k /\ k \in 0 .. L
    BY <1>3
  <2>2. IF k < n THEN w[k] = u[k] ELSE w[k] + s[n] = u[k] + t[n]
    BY <2>1
  <2>3. w[k + 1] = w[k] + t[k + 1] /\ u[k + 1] = u[k] + s[k + 1]
    BY <1>1, <1>2, <2>1
  <2>4. w[k] \in Nat /\ u[k] \in Nat /\ s[k + 1] \in Nat /\ t[k + 1] \in Nat
    BY <1>1, <1>2, <1>3, <2>1
  <2>5. CASE k + 1 = n
    BY <1>3, <2>2, <2>3, <2>4, <2>5
  <2>6. CASE k + 1 # n
    <3>1. t[k + 1] = s[k + 1]
      BY <1>4, <2>1, <2>6
    <3>2. PICK x \in Nat : x = t[k + 1]
      BY <2>4
    <3>3. PICK y \in Nat, z \in Nat : y = w[k] /\ z = u[k]
      BY <2>4
    <3>4. w[k + 1] = y + x /\ u[k + 1] = z + x
      BY <2>3, <3>1, <3>2, <3>3
    <3>5. PICK b \in Nat, d \in Nat : b = s[n] /\ d = t[n]
      BY <1>3
    <3>6. CASE k + 1 < n
      <4>1. k < n /\ y = z
        BY <1>3, <2>2, <3>3, <3>6
      <4> QED
        BY <3>4, <3>6, <4>1
    <3>7. CASE ~ (k + 1 < n)
      <4>1. ~ (k < n)
        BY <1>3, <2>6, <3>7
      <4>2. y + b = z + d
        BY <2>2, <3>3, <3>5, <4>1
      <4>3. (y + x) + b = (z + x) + d
        BY <4>2
      <4> QED
        BY <3>4, <3>5, <3>7, <4>3
    <3> QED
      BY <3>6, <3>7
  <2> QED
    BY <2>5, <2>6
<1>7. T = Nat
  <2> HIDE DEF T
  <2>1. T \in SUBSET Nat
    BY DEF T
  <2> QED
    BY <1>5, <1>6, <2>1, AllNumbers
<1>8. L \in T /\ ~ (L < n)
  BY <1>3, <1>7
<1> QED
  BY <1>1, <1>2, <1>8

=============================================================================
