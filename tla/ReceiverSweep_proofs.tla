------------------------- MODULE ReceiverSweep_proofs -------------------------
(***************************************************************************)
(* Proofs about ReceiverSweep, for every set of receivers and keys, every  *)
(* number of buckets and hash function, and any depth of nesting.          *)
(*                                                                         *)
(* That a sweep leaves no entry of its receiver although what it erases    *)
(* may be another's rests on two facts. erase() moves an entry only towards*)
(* the bucket that was erased: what is not before the iterator does not    *)
(* come before it. And as long as no code connects, the hash that is as    *)
(* large as before is the same hash: only then the loop goes on from where *)
(* it is.                                                                  *)
(***************************************************************************)
EXTENDS ReceiverSweep, CommonLemmas

USE KeysAssumption

-----------------------------------------------------------------------------
(* erase() of a QHash *)

\* No two entries share a bucket.
Apart == \A e, f \in hash : place[e] = place[f] => e = f

HashOK == hash \subseteq Keys /\ place \in [hash -> Bucket] /\ Apart

LEMMA DistanceFacts ==
  ASSUME NEW b \in Bucket
  PROVE  /\ \A q \in Bucket : /\ Distance(b, q) \in Bucket
                              /\ Past(b, Distance(b, q)) = q
                              /\ Distance(b, q) = 0 <=> q = b
         /\ \A d \in Bucket : Past(b, d) \in Bucket /\ Distance(b, Past(b, d)) = d
BY DEF Bucket, Distance, Past

\* A set of distances has a greatest.
LEMMA GreatestDistance ==
  ASSUME NEW S \in SUBSET Bucket, 0 \in S
  PROVE  Max(S) \in S /\ \A d \in S : d <= Max(S)
<1> DEFINE T == {x \in 1 .. Buckets : x - 1 \in S}
<1>1. T \in SUBSET (1 .. Buckets) /\ 1 \in T
  BY DEF Bucket
<1>2. PICK x \in T : \A y \in T : y <= x
  BY <1>1, GreatestNumber
<1>3. \A d \in S : d + 1 \in T
  BY DEF Bucket
<1>4. x - 1 \in S /\ \A d \in S : x - 1 >= d
  BY <1>2, <1>3 DEF Bucket
<1> QED
  BY <1>4 DEF Max, Bucket

\* The gap is the last bucket before the entry that an entry was moved out of.
LEMMA GapFacts ==
  ASSUME HashOK, NEW b \in Bucket, NEW moved \in SUBSET Behind(b), NEW k \in Behind(b)
  PROVE  /\ Gap(b, moved, k) \in Bucket
         /\ Gap(b, moved, k) < Distance(b, place[k])
         /\ Gap(b, moved, k) = 0 \/ \E m \in moved : Gap(b, moved, k) = Distance(b, place[m])
         /\ \A m \in moved : Distance(b, place[m]) < Distance(b, place[k]) =>
                               Distance(b, place[m]) <= Gap(b, moved, k)
<1> DEFINE D == {d \in {Distance(b, place[m]) : m \in moved} : d < Distance(b, place[k])}
<1>1. \A e \in Behind(b) : Distance(b, place[e]) \in Bucket /\ Distance(b, place[e]) # 0
  BY DistanceFacts DEF HashOK, Behind
<1>2. {0} \cup D \in SUBSET Bucket
  BY <1>1 DEF Bucket
<1>3. Max({0} \cup D) \in {0} \cup D /\ \A d \in {0} \cup D : d <= Max({0} \cup D)
  BY <1>2, GreatestDistance
<1>4. Gap(b, moved, k) = Max({0} \cup D)
  BY DEF Gap
<1>5. 0 < Distance(b, place[k])
  BY <1>1 DEF Bucket
<1> DEFINE g == Gap(b, moved, k)
<1>6. g \in {0} \cup D /\ \A d \in D : d <= g
  BY <1>3, <1>4
<1> HIDE DEF g
<1> QED
  BY <1>2, <1>5, <1>6 DEF g

\* What erase(b) does: the entry of b goes, the others stay once each, and those
\* that were not before b are not before b.
LEMMA EraseFacts ==
  ASSUME HashOK, NEW b \in Bucket, NEW p \in Erased(b)
  PROVE  /\ DOMAIN p = {e \in hash : place[e] # b}
         /\ p \in [DOMAIN p -> Bucket]
         /\ \A e, f \in DOMAIN p : p[e] = p[f] => e = f
         /\ \A e \in DOMAIN p : place[e] >= b => p[e] >= b
<1>1. PICK moved \in Moved(b) : p = Closed(b, moved)
  BY DEF Erased
<1> DEFINE R == {e \in hash : place[e] # b}
           D(e) == Distance(b, place[e])
           g(e) == Gap(b, moved, e)
<1>2. moved \in SUBSET Behind(b) /\ Behind(b) \subseteq R
  BY DEF Moved, Behind
<1>3. DOMAIN p = R /\ \A e \in R : p[e] = IF e \in moved THEN Past(b, g(e)) ELSE place[e]
  BY <1>1 DEF Closed
<1>4. \A e \in R : /\ place[e] \in Bucket /\ D(e) \in Bucket /\ D(e) # 0
                   /\ Past(b, D(e)) = place[e]
  BY DistanceFacts DEF HashOK
<1>5. \A e \in moved : /\ g(e) \in Bucket /\ g(e) < D(e)
                       /\ g(e) = 0 \/ \E m \in moved : g(e) = D(m)
                       /\ \A m \in moved : D(m) < D(e) => D(m) <= g(e)
  BY <1>2, GapFacts
<1> DEFINE to(e) == IF e \in moved THEN g(e) ELSE D(e)
<1>6. \A e \in R : to(e) \in Bucket /\ p[e] = Past(b, to(e)) /\ to(e) <= D(e)
  <2> SUFFICES ASSUME NEW e \in R PROVE to(e) \in Bucket /\ p[e] = Past(b, to(e)) /\ to(e) <= D(e)
    OBVIOUS
  <2> HIDE DEF D, g
  <2>1. CASE e \in moved
    BY <1>3, <1>4, <1>5, <2>1 DEF Bucket
  <2>2. CASE e \notin moved
    BY <1>3, <1>4, <2>2 DEF Bucket
  <2> QED
    BY <2>1, <2>2
<1>7. \A e \in R : p[e] \in Bucket /\ Distance(b, p[e]) = to(e)
  BY <1>6, DistanceFacts
<1>8. \A e, f \in R : D(e) = D(f) => e = f
  BY <1>4 DEF HashOK, Apart
<1>9. ASSUME NEW e \in R, NEW f \in R, to(e) = to(f) PROVE e = f
  <2> HIDE DEF D, g
  <2>1. CASE e \in moved /\ f \in moved
    <3>1. ~(D(e) < D(f)) /\ ~(D(f) < D(e))
      BY <1>4, <1>5, <1>9, <2>1 DEF Bucket
    <3> QED
      BY <1>4, <1>8, <3>1 DEF Bucket
  <2>2. ASSUME NEW m \in moved, NEW n \in R, n \notin moved, g(m) = D(n) PROVE FALSE
    BY <1>2, <1>4, <1>5, <1>8, <2>2
  <2>3. CASE e \in moved /\ f \notin moved
    BY <1>9, <2>2, <2>3
  <2>4. CASE e \notin moved /\ f \in moved
    BY <1>9, <2>2, <2>4
  <2>5. CASE e \notin moved /\ f \notin moved
    BY <1>8, <1>9, <2>5
  <2> QED
    BY <2>1, <2>3, <2>4, <2>5
<1>10. \A e, f \in R : p[e] = p[f] => e = f
  BY <1>7, <1>9
<1>11. ASSUME NEW e \in R, place[e] >= b PROVE p[e] >= b
  <2>1. D(e) = place[e] - b /\ to(e) \in Bucket /\ to(e) <= D(e) /\ place[e] \in Bucket
    BY <1>4, <1>6, <1>11 DEF Distance
  <2> HIDE DEF D, to
  <2>2. Past(b, to(e)) >= b
    BY <2>1 DEF Past, Bucket
  <2> QED
    BY <1>6, <2>2
<1>12. p \in [R -> Bucket]
  <2>1. p = [e \in R |-> p[e]]
    BY <1>1, <1>3 DEF Closed
  <2> HIDE DEF R
  <2> QED
    BY <1>7, <2>1
<1> HIDE DEF R
<1> QED
  BY <1>3, <1>10, <1>11, <1>12 DEF R

\* One entry fewer.
LEMMA EraseCounts ==
  ASSUME HashOK, NEW b \in Bucket, Used(b), NEW p \in Erased(b)
  PROVE  /\ Cardinality(hash) \in Nat /\ Cardinality(DOMAIN p) \in Nat
         /\ Cardinality(DOMAIN p) + 1 = Cardinality(hash)
<1>1. PICK k \in hash : place[k] = b
  BY DEF Used
<1>2. DOMAIN p = hash \ {k}
  <2>1. DOMAIN p = {e \in hash : place[e] # b}
    BY EraseFacts
  <2>2. \A e \in hash : place[e] = b <=> e = k
    BY <1>1 DEF HashOK, Apart
  <2> QED
    BY <1>1, <2>1, <2>2
<1>3. IsFiniteSet(hash)
  BY FS_Subset DEF HashOK
<1>4. Cardinality(hash \ {k}) = Cardinality(hash) - 1 /\ Cardinality(hash) \in Nat
      /\ Cardinality(hash \ {k}) \in Nat
  BY <1>1, <1>3, FS_RemoveElement, FS_CardinalityType, FS_Subset
<1> QED
  BY <1>2, <1>4

-----------------------------------------------------------------------------
(* The invariant *)

\* No entry of the receiver of a call is before its iterator, with hash h.
NoneBefore(f, h) == \A k \in DOMAIN h : ObjectOf[k] = f.pythonSelf => h[k] >= f.at

\* While a call disconnects, the hash h does not grow; if it is as large as before,
\* nothing has changed. a are the receivers that live.
Sound(f, a, h) ==
  /\ f.pythonSelf \notin a
  /\ f.step = "loop" => NoneBefore(f, h)
  /\ f.step # "loop" => /\ f.at \in Bucket
                        /\ Cardinality(DOMAIN h) <= f.oldSize
                        /\ Cardinality(DOMAIN h) = f.oldSize => NoneBefore(f, h)

CallsSound == \A i \in 1 .. Len(sweeps) : Sound(sweeps[i], living, place)

\* Only the innermost call is in its loop; the others disconnect.
OthersWait == \A i \in 1 .. Len(sweeps) - 1 : sweeps[i].step # "loop"

\* A dead receiver that still has entries is being swept.
DeadAreSwept ==
  \A k \in hash :
    ObjectOf[k] \notin living =>
      \E i \in 1 .. Len(sweeps) : sweeps[i].pythonSelf = ObjectOf[k]

SweepInv ==
  /\ SweepTypeOK
  /\ Apart
  /\ OthersWait
  /\ ~connects => CallsSound /\ DeadAreSwept

LEMMA SweepInvInit == SweepInit => SweepInv
<1> SUFFICES ASSUME SweepInit PROVE SweepInv
  OBVIOUS
<1>1. hash = {} /\ Len(sweeps) = 0
  BY DEF SweepInit, hash
<1> HIDE DEF hash
<1>2. place \in [hash -> Bucket]
  BY <1>1 DEF SweepInit, hash
<1>3. SweepTypeOK
  BY <1>1, <1>2, EmptySeq DEF SweepInit, SweepTypeOK
<1>4. OthersWait /\ CallsSound /\ Apart /\ DeadAreSwept
  BY <1>1 DEF Apart, OthersWait, CallsSound, DeadAreSwept
<1> QED
  BY <1>3, <1>4 DEF SweepInv

\* The innermost call.
LEMMA InnermostFacts ==
  ASSUME SweepInv, Sweeping
  PROVE  /\ Innermost \in SweepCall /\ Innermost = sweeps[Len(sweeps)]
         /\ Len(sweeps) \in Nat /\ Len(sweeps) >= 1
BY StackTop DEF SweepInv, SweepTypeOK, Sweeping, Innermost

LEMMA InvHash == SweepInv => HashOK
BY DEF SweepInv, SweepTypeOK, HashOK

LEMMA CardinalityOfHash ==
  ASSUME SweepInv
  PROVE  IsFiniteSet(hash) /\ Cardinality(hash) \in Nat
BY FS_Subset, FS_CardinalityType DEF SweepInv, SweepTypeOK

\* A call that disconnects is sound with an entry fewer.
LEMMA FewerIsSound ==
  ASSUME SweepInv, NEW b \in Bucket, Used(b), place' \in Erased(b),
         UNCHANGED living, NEW f \in SweepCall, f.step # "loop", Sound(f, living, place)
  PROVE  Sound(f, living', place')
<1>1. /\ Cardinality(hash) \in Nat /\ Cardinality(hash') \in Nat
      /\ Cardinality(hash') + 1 = Cardinality(hash)
  BY EraseCounts, InvHash DEF hash
<1>2. f.oldSize \in Nat /\ f.at \in Bucket /\ Cardinality(hash) <= f.oldSize
  BY DEF Sound, SweepCall, hash
<1>3. Cardinality(hash') <= f.oldSize /\ Cardinality(hash') # f.oldSize
  BY <1>1, <1>2
<1> QED
  BY <1>2, <1>3 DEF Sound, hash

LEMMA HashAfterErase ==
  ASSUME SweepInv, NEW b \in Bucket, place' \in Erased(b)
  PROVE  hash' \subseteq hash /\ place' \in [hash' -> Bucket] /\ Apart'
         /\ \A e \in hash' : place[e] # b /\ (place[e] >= b => place'[e] >= b)
<1>1. /\ DOMAIN place' = {e \in hash : place[e] # b}
      /\ place' \in [DOMAIN place' -> Bucket]
      /\ \A e, f \in DOMAIN place' : place'[e] = place'[f] => e = f
      /\ \A e \in DOMAIN place' : place[e] >= b => place'[e] >= b
  BY EraseFacts, InvHash
<1>2. hash' = DOMAIN place'
  BY DEF hash
<1> QED
  BY <1>1, <1>2 DEF Apart

LEMMA ConnectKeeps ==
  ASSUME SweepInv, NEW k \in Keys, ConnectSlot(k)
  PROVE  SweepInv'
<1>1. PICK d \in Bucket :
        /\ ~Used(Past(hashed[k], d))
        /\ place' = [e \in hash \cup {k} |-> IF e = k THEN Past(hashed[k], d) ELSE place[e]]
  BY DEF ConnectSlot
<1> DEFINE b == Past(hashed[k], d)
<1>2. b \in Bucket
  BY DistanceFacts DEF SweepInv, SweepTypeOK
<1>3. /\ hash' = hash \cup {k} /\ k \notin hash
      /\ \A e \in hash : place'[e] = place[e] /\ place[e] \in Bucket /\ place[e] # b
      /\ place'[k] = b
  BY <1>1 DEF hash, Used, ConnectSlot, SweepInv, SweepTypeOK
<1>4. place' \in [hash' -> Bucket]
  <2>1. place' = [e \in hash' |-> place'[e]]
    BY <1>1, <1>3
  <2> HIDE DEF b
  <2> QED
    BY <1>2, <1>3, <2>1
<1> HIDE DEF b
<1>5. Apart'
  BY <1>3 DEF Apart, SweepInv
<1>6. SweepTypeOK' /\ OthersWait'
  BY <1>3, <1>4 DEF SweepInv, SweepTypeOK, OthersWait, ConnectSlot
<1>7. ASSUME ~connects' PROVE CallsSound' /\ DeadAreSwept'
  <2>1. sweeps' = <<>> /\ ~connects /\ Len(sweeps) = 0 /\ UNCHANGED <<living, sweeps>>
    BY <1>7 DEF ConnectSlot, Sweeping
  <2>2. ObjectOf[k] \in living
    BY DEF ConnectSlot
  <2> QED
    BY <1>3, <2>1, <2>2 DEF CallsSound, DeadAreSwept, SweepInv
<1> QED
  BY <1>5, <1>6, <1>7 DEF SweepInv

LEMMA EntryKeeps ==
  ASSUME SweepInv, NEW k \in Keys, EntryGoes(k)
  PROVE  SweepInv'
<1> DEFINE b == place[k]
<1>1. b \in Bucket /\ Used(b) /\ place' \in Erased(b)
  BY DEF EntryGoes, Used, SweepInv, SweepTypeOK
<1> HIDE DEF b
<1>2. hash' \subseteq hash /\ place' \in [hash' -> Bucket] /\ Apart'
  BY <1>1, HashAfterErase
<1>3. SweepTypeOK' /\ OthersWait'
  BY <1>2 DEF SweepInv, SweepTypeOK, OthersWait, EntryGoes
<1>4. \A i \in 1 .. Len(sweeps) : sweeps[i] \in SweepCall /\ sweeps[i].step # "loop"
  <2>1. CASE Sweeping
    <3>1. Innermost.step # "loop" /\ Innermost = sweeps[Len(sweeps)] /\ Len(sweeps) \in Nat
      BY <2>1, InnermostFacts DEF EntryGoes, CodeRuns
    <3>2. \A i \in 1 .. Len(sweeps) : i = Len(sweeps) \/ i \in 1 .. Len(sweeps) - 1
      BY <3>1
    <3>3. \A i \in 1 .. Len(sweeps) : sweeps[i] \in SweepCall
      BY ElementOfSeq DEF SweepInv, SweepTypeOK
    <3> QED
      BY <3>1, <3>2, <3>3 DEF SweepInv, OthersWait
  <2>2. CASE ~Sweeping
    BY <2>2 DEF Sweeping
  <2> QED
    BY <2>1, <2>2
<1>5. ASSUME ~connects' PROVE CallsSound' /\ DeadAreSwept'
  <2>1. ~connects /\ UNCHANGED <<living, sweeps>>
    BY <1>5 DEF EntryGoes
  <2>2. \A i \in 1 .. Len(sweeps) : Sound(sweeps[i], living', place')
    <3> SUFFICES ASSUME NEW i \in 1 .. Len(sweeps) PROVE Sound(sweeps[i], living', place')
      OBVIOUS
    <3>1. PICK f : f = sweeps[i]
      OBVIOUS
    <3>2. f \in SweepCall /\ f.step # "loop" /\ Sound(f, living, place)
      BY <1>4, <2>1, <3>1 DEF SweepInv, CallsSound
    <3>3. Sound(f, living', place')
      BY <1>1, <2>1, <3>2, FewerIsSound
    <3> QED
      BY <3>1, <3>3
  <2> QED
    BY <1>2, <2>1, <2>2 DEF CallsSound, DeadAreSwept, SweepInv
<1> QED
  BY <1>2, <1>3, <1>5 DEF SweepInv

\* A receiver dies: its sweep has the whole hash before it.
LEMMA DeathKeeps ==
  ASSUME SweepInv, NEW o \in Receivers, ReceiverDies(o)
  PROVE  SweepInv'
<1> DEFINE f == [pythonSelf |-> o, at |-> 0, step |-> "loop", oldSize |-> 0]
           n == Len(sweeps)
<1>1. f \in SweepCall /\ f.pythonSelf = o /\ f.step = "loop" /\ f.at = 0
  BY DEF SweepCall
<1>2. /\ sweeps' = Append(sweeps, f) /\ sweeps \in Seq(SweepCall)
      /\ living' = living \ {o} /\ o \in living
      /\ hash' = hash /\ UNCHANGED <<place, hashed, connected, connects, broken>>
  BY DEF ReceiverDies, SweepInv, SweepTypeOK, hash
<1> HIDE DEF f
<1>3. /\ sweeps' \in Seq(SweepCall) /\ Len(sweeps') = n + 1 /\ n \in Nat /\ sweeps'[n + 1] = f
      /\ \A i \in 1 .. n : sweeps'[i] = sweeps[i]
  BY <1>1, <1>2, StackPush, LenProperties
<1> HIDE DEF hash, n
<1>4. \A i \in 1 .. n : sweeps[i].step # "loop"
  <2>1. CASE Sweeping
    BY <2>1, InnermostFacts DEF ReceiverDies, CodeRuns, SweepInv, OthersWait, n
  <2>2. CASE ~Sweeping
    BY <2>2 DEF Sweeping, n
  <2> QED
    BY <2>1, <2>2
<1>5. OthersWait'
  <2>1. \A i \in 1 .. (n + 1) - 1 : i \in 1 .. n
    BY <1>3
  <2> QED
    BY <1>3, <1>4, <2>1 DEF OthersWait
<1>6. SweepTypeOK' /\ Apart'
  BY <1>2, <1>3 DEF SweepInv, SweepTypeOK, Apart
<1>7. ASSUME ~connects' PROVE CallsSound'
  <2>1. \A i \in 1 .. n : Sound(sweeps[i], living, place)
    BY <1>2, <1>7 DEF SweepInv, CallsSound, n
  <2>2. \A k \in hash : place[k] \in Bucket /\ place[k] >= 0
    BY DEF SweepInv, SweepTypeOK, Bucket
  <2>3. \A i \in 1 .. n + 1 : Sound(sweeps'[i], living', place')
    <3> SUFFICES ASSUME NEW i \in 1 .. n + 1 PROVE Sound(sweeps'[i], living', place')
      OBVIOUS
    <3>1. CASE i = n + 1
      BY <1>1, <1>2, <1>3, <2>2, <3>1 DEF Sound, NoneBefore, hash
    <3>2. CASE i # n + 1
      <4>1. i \in 1 .. n
        BY <1>3, <3>2
      <4>2. sweeps'[i] = sweeps[i] /\ Sound(sweeps[i], living, place)
        BY <1>3, <2>1, <4>1
      <4> QED
        BY <1>2, <4>2 DEF Sound, NoneBefore
    <3> QED
      BY <3>1, <3>2
  <2> QED
    BY <1>3, <2>3 DEF CallsSound
<1>8. ASSUME ~connects' PROVE DeadAreSwept'
  <2> SUFFICES ASSUME NEW k \in hash, ObjectOf[k] \notin living'
               PROVE  \E i \in 1 .. n + 1 : sweeps'[i].pythonSelf = ObjectOf[k]
    BY <1>2, <1>3 DEF DeadAreSwept
  <2>1. CASE ObjectOf[k] = o
    BY <1>1, <1>3, <2>1
  <2>2. CASE ObjectOf[k] # o
    <3>1. PICK i \in 1 .. n : sweeps[i].pythonSelf = ObjectOf[k]
      BY <1>2, <1>8, <2>2 DEF SweepInv, DeadAreSwept, n
    <3>2. i \in 1 .. n + 1
      BY <1>3
    <3> QED
      BY <1>3, <3>1, <3>2
  <2> QED
    BY <2>1, <2>2
<1> QED
  BY <1>5, <1>6, <1>7, <1>8 DEF SweepInv

\* The innermost call becomes f: what is left to show.
LEMMA InnermostChanges ==
  ASSUME SweepInv, Sweeping, NEW f \in SweepCall, f.pythonSelf = Innermost.pythonSelf,
         sweeps' = WithInnermost(f), hash' \subseteq hash, place' \in [hash' -> Bucket], Apart',
         UNCHANGED <<living, hashed, connects, broken>>, connected' \subseteq connected,
         ~connects => Sound(f, living', place'),
         ~connects => \A i \in 1 .. Len(sweeps) - 1 : Sound(sweeps[i], living, place) => Sound(sweeps[i], living', place')
  PROVE  SweepInv'
<1> DEFINE n == Len(sweeps)
<1>1. Innermost = sweeps[n] /\ n \in Nat /\ n >= 1
  BY InnermostFacts
<1>2. /\ sweeps' \in Seq(SweepCall) /\ Len(sweeps') = n /\ sweeps'[n] = f
      /\ \A i \in 1 .. n : i # n => sweeps'[i] = sweeps[i]
  BY StackChange DEF WithInnermost, Sweeping, SweepInv, SweepTypeOK
<1>3. \A i \in 1 .. n - 1 : i \in 1 .. n /\ i # n
  BY <1>1
<1> HIDE DEF n, hash
<1>4. SweepTypeOK'
  BY <1>2 DEF SweepInv, SweepTypeOK
<1>5. OthersWait'
  BY <1>2, <1>3 DEF SweepInv, OthersWait, n
<1>6. ASSUME ~connects PROVE CallsSound'
  <2> SUFFICES ASSUME NEW i \in 1 .. n PROVE Sound(sweeps'[i], living', place')
    BY <1>2 DEF CallsSound
  <2>1. CASE i = n
    BY <1>2, <1>6, <2>1 DEF Sound, NoneBefore
  <2>2. CASE i # n
    <3>1. i \in 1 .. n - 1 /\ sweeps'[i] = sweeps[i]
      BY <1>1, <1>2, <2>2
    <3>2. Sound(sweeps[i], living', place')
      BY <1>6, <3>1 DEF SweepInv, CallsSound, n
    <3> QED
      BY <3>1, <3>2 DEF Sound, NoneBefore
  <2> QED
    BY <2>1, <2>2
<1>7. \A i \in 1 .. n : sweeps'[i].pythonSelf = sweeps[i].pythonSelf
  BY <1>1, <1>2
<1>8. ASSUME ~connects PROVE DeadAreSwept'
  BY <1>2, <1>7, <1>8 DEF SweepInv, DeadAreSwept, n
<1> QED
  BY <1>4, <1>5, <1>6, <1>8 DEF SweepInv

\* A connection of the receiver is cut; the first of its entries is still there.
LEMMA CutKeeps ==
  ASSUME SweepInv, NEW k \in Keys, Cut(k)
  PROVE  SweepInv'
<1> DEFINE s == IF k \in connected THEN "disconnect" ELSE "erase"
           f == [Innermost EXCEPT !.at = place[k], !.oldSize = Cardinality(hash), !.step = s]
<1>1. Sweeping /\ k \in hash /\ k \in Before(Innermost) /\ Innermost.step = "loop"
  BY DEF Cut, Before
<1>2. Innermost \in SweepCall /\ Innermost = sweeps[Len(sweeps)] /\ Len(sweeps) \in Nat /\ Len(sweeps) >= 1
  BY <1>1, InnermostFacts
<1>3. Cardinality(hash) \in Nat /\ place[k] \in Bucket /\ place[k] \in 0 .. Buckets
  BY <1>1, CardinalityOfHash DEF SweepInv, SweepTypeOK, Bucket
<1>4. s \in {"disconnect", "erase"}
  OBVIOUS
<1> HIDE DEF s
<1>5. /\ f \in SweepCall /\ f.pythonSelf = Innermost.pythonSelf /\ f.at = place[k]
      /\ f.oldSize = Cardinality(hash) /\ f.step # "loop"
  BY <1>2, <1>3, <1>4 DEF SweepCall
<1>6. sweeps' = WithInnermost(f) /\ connected' \subseteq connected
  BY DEF Cut, s
<1>7. /\ hash' = hash
      /\ UNCHANGED <<living, hashed, place, connects, broken>>
  BY DEF Cut, hash
<1> HIDE DEF f, hash
<1>8. ASSUME ~connects PROVE Sound(f, living', place')
  <2>1. Sound(Innermost, living, place)
    BY <1>2, <1>8 DEF SweepInv, CallsSound
  <2>2. \A e \in hash : ObjectOf[e] = Innermost.pythonSelf => place[e] >= Innermost.at
    BY <1>1, <2>1 DEF Sound, NoneBefore, hash
  <2>3. \A e \in Before(Innermost) : place[k] <= place[e]
    BY DEF Cut
  <2>4. \A e \in hash : ObjectOf[e] = f.pythonSelf => place[e] >= f.at
    BY <1>3, <1>5, <2>2, <2>3 DEF Before, SweepInv, SweepTypeOK, Bucket
  <2> QED
    BY <1>3, <1>5, <1>7, <2>1, <2>4 DEF Sound, NoneBefore, hash
<1>9. \A i \in 1 .. Len(sweeps) - 1 : Sound(sweeps[i], living, place) => Sound(sweeps[i], living', place')
  BY <1>7 DEF Sound, NoneBefore
<1>10. place' \in [hash' -> Bucket] /\ Apart'
  BY <1>7 DEF SweepInv, SweepTypeOK, Apart
<1> QED
  BY <1>1, <1>5, <1>6, <1>7, <1>8, <1>9, <1>10, InnermostChanges

\* Whatever entry is erased: if the hash is the one that was left, the entries of
\* the receiver are where the iterator will come; if not, it starts again.
LEMMA EraseKeeps ==
  ASSUME SweepInv, Erase
  PROVE  SweepInv'
<1> DEFINE b == Innermost.at
           retry == Retry(Innermost, Cardinality(DOMAIN place'))
           next == IF retry THEN 0 ELSE NextAfter(b)
           f == [Innermost EXCEPT !.step = "loop", !.at = next]
<1>1. Sweeping /\ Used(b) /\ place' \in Erased(b) /\ Innermost.step # "loop"
  BY DEF Erase
<1>2. Innermost \in SweepCall /\ Innermost = sweeps[Len(sweeps)] /\ Len(sweeps) \in Nat /\ Len(sweeps) >= 1
  BY <1>1, InnermostFacts
<1>3. b \in Bucket
  BY <1>1 DEF Used, SweepInv, SweepTypeOK
<1>4. next \in 0 .. Buckets
  BY <1>3 DEF NextAfter, Bucket
<1>5. sweeps' = WithInnermost(f) /\ UNCHANGED <<living, hashed, connected, connects, broken>>
  BY DEF Erase
<1> HIDE DEF next
<1>6. f \in SweepCall /\ f.pythonSelf = Innermost.pythonSelf /\ f.at = next /\ f.step = "loop"
  BY <1>2, <1>4 DEF SweepCall
<1>7. /\ hash' \subseteq hash /\ place' \in [hash' -> Bucket] /\ Apart'
      /\ \A e \in hash' : place[e] # b /\ (place[e] >= b => place'[e] >= b)
  BY <1>1, <1>3, HashAfterErase
<1>8. /\ Cardinality(hash) \in Nat /\ Cardinality(hash') \in Nat
      /\ Cardinality(hash') + 1 = Cardinality(hash)
  BY <1>1, <1>3, EraseCounts, InvHash DEF hash
<1>9. retry <=> Cardinality(hash') + 1 < Innermost.oldSize
  BY DEF Retry, hash
<1> HIDE DEF f, retry, b, hash
<1>10. ASSUME ~connects PROVE Sound(f, living', place')
  <2>1. Sound(Innermost, living, place)
    BY <1>2, <1>10 DEF SweepInv, CallsSound
  <2>2. \A e \in hash' : place'[e] \in Bucket /\ place[e] \in Bucket
    BY <1>7 DEF SweepInv, SweepTypeOK
  <2>3. \A e \in hash' : ObjectOf[e] = f.pythonSelf => place'[e] >= next
    <3>1. CASE retry
      BY <2>2, <3>1 DEF next, Bucket
    <3>2. CASE ~retry
      <4>1. Cardinality(hash) = Innermost.oldSize
        BY <1>1, <1>2, <1>8, <1>9, <2>1, <3>2 DEF Sound, SweepCall, hash
      <4>2. \A e \in hash : ObjectOf[e] = Innermost.pythonSelf => place[e] >= b
        BY <1>1, <2>1, <4>1 DEF Sound, NoneBefore, b, hash
      <4>3. \A e \in hash' : ObjectOf[e] = f.pythonSelf =>
              place[e] >= b /\ place[e] # b /\ place'[e] >= b
        BY <1>6, <1>7, <4>2
      <4>4. next = IF b = Buckets - 1 THEN Buckets ELSE b
        BY <3>2 DEF next, NextAfter
      <4>5. CASE b = Buckets - 1
        BY <1>3, <2>2, <4>3, <4>5 DEF Bucket
      <4>6. CASE b # Buckets - 1
        BY <4>3, <4>4, <4>6
      <4> QED
        BY <4>5, <4>6
    <3> QED
      BY <3>1, <3>2
  <2> QED
    BY <1>5, <1>6, <2>1, <2>3 DEF Sound, NoneBefore, hash
<1>11. ASSUME ~connects, NEW i \in 1 .. Len(sweeps) - 1, Sound(sweeps[i], living, place) PROVE Sound(sweeps[i], living', place')
  <2>1. PICK g : g = sweeps[i]
    OBVIOUS
  <2>2. i \in 1 .. Len(sweeps)
    BY <1>2
  <2>3. sweeps[i] \in SweepCall
    BY <2>2, ElementOfSeq DEF SweepInv, SweepTypeOK
  <2>4. g \in SweepCall /\ g.step # "loop" /\ Sound(g, living, place)
    BY <1>11, <2>1, <2>3 DEF SweepInv, OthersWait
  <2>5. Sound(g, living', place')
    BY <1>1, <1>3, <1>5, <2>4, FewerIsSound
  <2> QED
    BY <1>11, <2>1, <2>4, <2>5, <1>1, <1>3, <1>5 DEF Sound, NoneBefore
<1> QED
  BY <1>1, <1>5, <1>6, <1>7, <1>10, <1>11, InnermostChanges

\* A call that returns leaves no entry of its receiver.
LEMMA ReturnKeeps ==
  ASSUME SweepInv, SweepReturns
  PROVE  SweepInv'
<1> DEFINE n == Len(sweeps)
<1>1. Sweeping /\ Before(Innermost) = {} /\ Innermost.step = "loop"
  BY DEF SweepReturns
<1>2. Innermost = sweeps[n] /\ n \in Nat /\ n >= 1
  BY <1>1, InnermostFacts
<1>3. /\ sweeps' \in Seq(SweepCall) /\ Len(sweeps') = n - 1
      /\ \A i \in 1 .. n - 1 : sweeps'[i] = sweeps[i]
  BY StackPop DEF SweepReturns, Sweeping, SweepInv, SweepTypeOK
<1>4. hash' = hash /\ UNCHANGED <<living, hashed, place, connected, connects, broken>>
  BY DEF SweepReturns, hash
<1> HIDE DEF n, hash
<1>5. SweepTypeOK' /\ Apart'
  BY <1>3, <1>4 DEF SweepInv, SweepTypeOK, Apart
<1>6. OthersWait'
  <2>1. \A i \in 1 .. (n - 1) - 1 : i \in 1 .. n - 1
    BY <1>2
  <2> QED
    BY <1>3, <2>1 DEF SweepInv, OthersWait, n
<1>7. ASSUME ~connects PROVE CallsSound' /\ DeadAreSwept'
  <2>1. \A i \in 1 .. n : Sound(sweeps[i], living, place)
    BY <1>7 DEF SweepInv, CallsSound, n
  <2>2. \A i \in 1 .. n - 1 : i \in 1 .. n
    BY <1>2
  <2>3. CallsSound'
    BY <1>3, <1>4, <2>1, <2>2 DEF CallsSound, Sound, NoneBefore, hash
  <2>4. \A k \in hash : ObjectOf[k] # Innermost.pythonSelf
    BY <1>1, <1>2, <2>1 DEF Sound, NoneBefore, Before, hash
  <2>5. DeadAreSwept'
    <3> SUFFICES ASSUME NEW k \in hash, ObjectOf[k] \notin living
                 PROVE  \E i \in 1 .. n - 1 : sweeps'[i].pythonSelf = ObjectOf[k]
      BY <1>3, <1>4 DEF DeadAreSwept
    <3>1. PICK i \in 1 .. n : sweeps[i].pythonSelf = ObjectOf[k]
      BY <1>7 DEF SweepInv, DeadAreSwept, n
    <3>2. i # n
      BY <1>2, <2>4, <3>1
    <3>3. i \in 1 .. n - 1
      BY <1>2, <3>2
    <3> QED
      BY <1>3, <3>1, <3>3
  <2> QED
    BY <2>3, <2>5
<1> QED
  BY <1>4, <1>5, <1>6, <1>7 DEF SweepInv

LEMMA SweepInvStep == SweepInv /\ [SweepNext]_sweepVars => SweepInv'
<1> SUFFICES ASSUME SweepInv, [SweepNext]_sweepVars PROVE SweepInv'
  OBVIOUS
<1>1. ASSUME NEW k \in Keys, ConnectSlot(k) PROVE SweepInv'
  BY <1>1, ConnectKeeps
<1>2. ASSUME NEW k \in Keys, EntryGoes(k) PROVE SweepInv'
  BY <1>2, EntryKeeps
<1>3. ASSUME NEW o \in Receivers, ReceiverDies(o) PROVE SweepInv'
  BY <1>3, DeathKeeps
<1>4. ASSUME NEW k \in Keys, Cut(k) PROVE SweepInv'
  BY <1>4, CutKeeps
<1>5. CASE Erase
  BY <1>5, EraseKeeps
<1>6. CASE SweepReturns
  BY <1>6, ReturnKeeps
<1>7. CASE EraseBreaks \/ UNCHANGED sweepVars
  <2>1. hash' = hash /\ UNCHANGED <<living, hashed, place, connected, sweeps, connects>> /\ broken' \in BOOLEAN
    BY <1>7 DEF EraseBreaks, sweepVars, hash, SweepInv, SweepTypeOK
  <2> HIDE DEF hash
  <2> QED
    BY <2>1 DEF SweepInv, SweepTypeOK, Apart, OthersWait, CallsSound, DeadAreSwept, Sound, NoneBefore
<1> QED
  BY <1>1, <1>2, <1>3, <1>4, <1>5, <1>6, <1>7 DEF SweepNext, Sweep

\* The stack of calls and the hash are well-formed, and no two entries share a
\* bucket, wherever iterators go.
THEOREM TypeCorrect == SweepSpec => [](SweepTypeOK /\ Apart)
<1>1. SweepInv => SweepTypeOK /\ Apart
  BY DEF SweepInv
<1> QED
  BY SweepInvInit, SweepInvStep, <1>1, PTL DEF SweepSpec

\* When all calls have returned, dead receivers have no entries - for every hash
\* function, however entries collide, whatever the calls in between removed, and
\* although an iterator may erase another entry than the one it stood at - unless
\* code inside a sweep connected.
THEOREM SweepsComplete == SweepSpec => []SweepIsComplete
<1>1. SweepInv => SweepIsComplete
  <2>1. ~Sweeping => Len(sweeps) = 0
    BY DEF Sweeping
  <2> QED
    BY <2>1 DEF SweepInv, SweepIsComplete, DeadAreSwept
<1> QED
  BY SweepInvInit, SweepInvStep, <1>1, PTL DEF SweepSpec

=============================================================================
