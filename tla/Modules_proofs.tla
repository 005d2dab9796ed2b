---------------------------- MODULE Modules_proofs ----------------------------
(***************************************************************************)
(* Proofs about QmlCreation, RemoteCalls, IOPipe, HeldCallables and        *)
(* WidgetLayouts.                                                          *)
(*                                                                         *)
(* QmlCreation: for any number of threads and blocks, and wherever Python  *)
(* hands the GIL over, the address that is left belongs to a call of the   *)
(* thread that has the mutex; so creations keep out of each other's memory. *)
(* IOPipe: each end is a FIFO of the bytes read ahead and those in the     *)
(* buffer.                                                                 *)
(* RemoteCalls: a replica is behind its source by the packets on their     *)
(* way, and every packet means the property or method it has the index of. *)
(* HeldCallables: a callable has at least one reference for each of its    *)
(* holders, counted kind by kind, and no more unless the program drops     *)
(* calls, adds routines late or moves values.                              *)
(* WidgetLayouts: widgets and layouts form trees. A widget in a layout has *)
(* the layout's window as parent; without window, the layout keeps it, or  *)
(* its own window, which the program refers to.                            *)
(***************************************************************************)
EXTENDS QmlCreation, RemoteCalls, IOPipe, HeldCallables, WidgetLayouts, CommonLemmas

-----------------------------------------------------------------------------
(* QmlCreation *)

USE ThreadAssumption, CreationAssumption

-----------------------------------------------------------------------------
(* The calls of a thread *)

Others(t) == \A u \in Threads \ {t} : entries'[u] = entries[u]
Places(t) == 1..Len(entries[t])

\* All calls but one stay where they are.
Stay(t, n) ==
  \A u \in Threads, i \in Nat :
    u # t \/ i # n =>
      /\ i \in Places(u)' <=> i \in Places(u)
      /\ i \in Places(u) => entries'[u][i] = entries[u][i]

\* The call a thread is in changes.
LEMMA Changes ==
  ASSUME CreationTypeOK, NEW t \in Threads, Busy(t), NEW e \in Entry,
         entries' = [entries EXCEPT ![t] = [entries[t] EXCEPT ![Len(entries[t])] = e]]
  PROVE  /\ entries' \in [Threads -> Seq(Entry)] /\ Stay(t, Len(entries[t]))
         /\ Busy(t)' /\ Len(entries'[t]) = Len(entries[t]) /\ Current(t)' = e
<1> DEFINE s == entries[t]
<1>1. s \in Seq(Entry) /\ s # <<>> /\ entries \in [Threads -> Seq(Entry)]
  BY DEF CreationTypeOK, Busy
<1>2. entries'[t] = [s EXCEPT ![Len(s)] = e] /\ Others(t)
  BY <1>1 DEF Others
<1>3. /\ entries'[t] \in Seq(Entry) /\ entries'[t] # <<>>
      /\ Len(entries'[t]) = Len(s) /\ Last(entries'[t]) = e
      /\ \A i \in 1..Len(s) : i # Len(s) => entries'[t][i] = s[i]
  <2> DEFINE r == [s EXCEPT ![Len(s)] = e]
  <2> HIDE DEF s
  <2>1. /\ r \in Seq(Entry) /\ r # <<>> /\ Len(r) = Len(s) /\ Last(r) = e
        /\ \A i \in 1..Len(s) : i # Len(s) => r[i] = s[i]
    BY <1>1, StackChange
  <2> HIDE DEF r
  <2>2. entries'[t] = r
    BY <1>2 DEF r
  <2> QED
    BY <2>1, <2>2
<1>4. entries' \in [Threads -> Seq(Entry)]
  BY <1>1, <1>2, <1>3 DEF Others
<1>5. Stay(t, Len(s))
  BY <1>2, <1>3 DEF Stay, Others, Places
<1> QED
  BY <1>3, <1>4, <1>5 DEF Busy, Current

LEMMA CurrentCall ==
  ASSUME CreationTypeOK, NEW t \in Threads, Busy(t)
  PROVE  /\ Current(t) \in Entry /\ Current(t) = entries[t][Len(entries[t])]
         /\ Len(entries[t]) \in Nat /\ Len(entries[t]) >= 1
<1>1. entries[t] \in Seq(Entry) /\ entries[t] # <<>>
  BY DEF CreationTypeOK, Busy
<1> QED
  BY <1>1, StackTop DEF Current

\* It waits for something else.
LEMMA Continues ==
  ASSUME CreationTypeOK, NEW t \in Threads, Busy(t), NEW step \in Steps,
         entries' = Continued(t, step)
  PROVE  /\ entries' \in [Threads -> Seq(Entry)] /\ Stay(t, Len(entries[t]))
         /\ Busy(t)' /\ Len(entries'[t]) = Len(entries[t])
         /\ Current(t)' = [Current(t) EXCEPT !.step = step]
<1> DEFINE e == [Current(t) EXCEPT !.step = step]
<1>1. e \in Entry
  BY CurrentCall DEF Entry
<1>2. entries' = [entries EXCEPT ![t] = [entries[t] EXCEPT ![Len(entries[t])] = e]]
  BY CurrentCall DEF Continued
<1> HIDE DEF e
<1>3. /\ entries' \in [Threads -> Seq(Entry)] /\ Stay(t, Len(entries[t]))
      /\ Busy(t)' /\ Len(entries'[t]) = Len(entries[t]) /\ Current(t)' = e
  BY <1>1, <1>2, Changes
<1> QED
  BY <1>3 DEF e

\* Its object exists, or will not.
LEMMA IsDone ==
  ASSUME CreationTypeOK, NEW t \in Threads, Busy(t),
         entries' = [entries EXCEPT ![t][Len(entries[t])].done = TRUE]
  PROVE  /\ entries' \in [Threads -> Seq(Entry)] /\ Stay(t, Len(entries[t]))
         /\ Busy(t)' /\ Len(entries'[t]) = Len(entries[t])
         /\ Current(t)' = [Current(t) EXCEPT !.done = TRUE]
<1> DEFINE e == [Current(t) EXCEPT !.done = TRUE]
<1>1. e \in Entry
  BY CurrentCall DEF Entry
<1>2. entries' = [entries EXCEPT ![t] = [entries[t] EXCEPT ![Len(entries[t])] = e]]
  BY CurrentCall
<1> HIDE DEF e
<1>3. /\ entries' \in [Threads -> Seq(Entry)] /\ Stay(t, Len(entries[t]))
      /\ Busy(t)' /\ Len(entries'[t]) = Len(entries[t]) /\ Current(t)' = e
  BY <1>1, <1>2, Changes
<1> QED
  BY <1>3 DEF e

LEMMA Enters ==
  ASSUME CreationTypeOK, NEW t \in Threads, NEW e \in Entry, entries' = Called(t, e)
  PROVE  /\ entries' \in [Threads -> Seq(Entry)] /\ Stay(t, Len(entries[t]) + 1)
         /\ Busy(t)' /\ Len(entries'[t]) = Len(entries[t]) + 1 /\ Current(t)' = e
<1>1. entries[t] \in Seq(Entry) /\ entries \in [Threads -> Seq(Entry)]
  BY DEF CreationTypeOK
<1>2. entries'[t] = Append(entries[t], e) /\ Others(t)
  BY <1>1 DEF Called, Others
<1>3. /\ entries'[t] \in Seq(Entry) /\ entries'[t] # <<>>
      /\ Len(entries'[t]) = Len(entries[t]) + 1 /\ Last(entries'[t]) = e
      /\ \A i \in 1..Len(entries[t]) : entries'[t][i] = entries[t][i]
  BY <1>1, <1>2, StackPush
<1>4. entries' \in [Threads -> Seq(Entry)]
  BY <1>1, <1>2, <1>3 DEF Called
<1>5. Len(entries[t]) \in Nat
  BY <1>1, LenProperties
<1>6. Stay(t, Len(entries[t]) + 1)
  BY <1>2, <1>3, <1>5 DEF Stay, Others, Places
<1> QED
  BY <1>3, <1>4, <1>6 DEF Busy, Current

LEMMA Leaves ==
  ASSUME CreationTypeOK, NEW t \in Threads, Busy(t), entries' = Left(t)
  PROVE  /\ entries' \in [Threads -> Seq(Entry)] /\ Stay(t, Len(entries[t]))
         /\ Len(entries'[t]) = Len(entries[t]) - 1
<1>1. entries[t] \in Seq(Entry) /\ entries[t] # <<>> /\ entries \in [Threads -> Seq(Entry)]
  BY DEF CreationTypeOK, Busy
<1>2. entries'[t] = Front(entries[t]) /\ Others(t)
  BY <1>1 DEF Left, Others
<1>3. /\ entries'[t] \in Seq(Entry) /\ Len(entries'[t]) = Len(entries[t]) - 1
      /\ \A i \in 1..(Len(entries[t]) - 1) : entries'[t][i] = entries[t][i]
  BY <1>1, <1>2, StackPop
<1>4. Len(entries[t]) \in Nat
  BY <1>1, LenProperties
<1>5. Stay(t, Len(entries[t]))
  BY <1>2, <1>3, <1>4 DEF Stay, Others, Places
<1> QED
  BY <1>1, <1>2, <1>3, <1>5 DEF Left

\* What a call waits for
LEMMA WaitsFor ==
  ASSUME NEW b
  PROVE  /\ After("call", b) = IF b = NoBlock THEN "gil" ELSE "lock"
         /\ After("lock", b) = "gil" /\ After("gil", b) = "python"
BY DEF After
-----------------------------------------------------------------------------
(* Types *)

LEMMA InitTypes == CreationInit => CreationTypeOK
BY DEF CreationInit, CreationTypeOK, Fates

LEMMA StepTypes == CreationTypeOK /\ [CreationNext]_creationVars => CreationTypeOK'
<1> SUFFICES ASSUME CreationTypeOK, [CreationNext]_creationVars
             PROVE  CreationTypeOK'
  OBVIOUS
<1>1. ASSUME NEW t \in Threads, NEW b \in Blocks, BeginCreate(t, b)
      PROVE  CreationTypeOK'
  <2> DEFINE e == [step |-> After("call", b), block |-> b, had |-> gil = t, done |-> FALSE]
  <2>1. e \in Entry /\ entries' = Called(t, e)
    BY <1>1, WaitsFor DEF BeginCreate, Entry, Steps
  <2> HIDE DEF e
  <2>2. entries' \in [Threads -> Seq(Entry)]
    BY <2>1, Enters
  <2> QED
    BY <1>1, <2>2 DEF BeginCreate, CreationTypeOK, Fates
<1>2. ASSUME NEW t \in Threads, NEW makes \in BOOLEAN, BeginCallback(t, makes)
      PROVE  CreationTypeOK'
  <2> DEFINE e == [step |-> After("call", NoBlock), block |-> NoBlock, had |-> gil = t, done |-> ~makes]
  <2>1. e \in Entry /\ entries' = Called(t, e)
    BY <1>2, WaitsFor DEF BeginCallback, Entry, Steps
  <2> HIDE DEF e
  <2>2. entries' \in [Threads -> Seq(Entry)]
    BY <2>1, Enters
  <2> QED
    BY <1>2, <2>2 DEF BeginCallback, CreationTypeOK
<1>3. ASSUME NEW t \in Threads, SetNext(t)
      PROVE  CreationTypeOK'
  <2>1. Busy(t) /\ Current(t) \in Entry
    BY <1>3, CurrentCall DEF SetNext, AtStep
  <2>2. entries' = Continued(t, "gil") /\ "gil" \in Steps
    BY <1>3, WaitsFor DEF SetNext, Steps
  <2>3. entries' \in [Threads -> Seq(Entry)]
    BY <2>1, <2>2, Continues
  <2> QED
    BY <1>3, <2>1, <2>3 DEF SetNext, CreationTypeOK, Entry
<1>4. ASSUME NEW t \in Threads, AcquireGil(t)
      PROVE  CreationTypeOK'
  <2>1. Busy(t)
    BY <1>4 DEF AcquireGil, AtStep
  <2>2. entries' = Continued(t, "python") /\ "python" \in Steps
    BY <1>4, WaitsFor DEF AcquireGil, Steps
  <2>3. entries' \in [Threads -> Seq(Entry)]
    BY <2>1, <2>2, Continues
  <2> QED
    BY <1>4, <2>3 DEF AcquireGil, CreationTypeOK
<1>5. ASSUME NEW t \in Threads, ConstructBase(t)
      PROVE  CreationTypeOK'
  <2>1. entries' \in [Threads -> Seq(Entry)]
    BY <1>5, IsDone DEF ConstructBase, Running, AtStep
  <2>2. fate' \in [Blocks -> Fates] /\ nextAddr' = NoBlock
    BY <1>5 DEF ConstructBase, Constructed, CreationTypeOK, Fates
  <2> QED
    BY <1>5, <2>1, <2>2 DEF ConstructBase, CreationTypeOK
<1>6. ASSUME NEW t \in Threads, ConstructHelper(t) \/ ConstructOther(t)
      PROVE  CreationTypeOK'
  <2>1. fate' \in [Blocks -> Fates] /\ nextAddr' = NoBlock
    BY <1>6 DEF ConstructHelper, ConstructOther, Constructed, CreationTypeOK, Fates
  <2> QED
    BY <1>6, <2>1 DEF ConstructHelper, ConstructOther, CreationTypeOK
<1>7. ASSUME NEW t \in Threads, ConstructorFails(t)
      PROVE  CreationTypeOK'
  <2>1. entries' \in [Threads -> Seq(Entry)]
    BY <1>7, IsDone DEF ConstructorFails, Running, AtStep
  <2> QED
    BY <1>7, <2>1 DEF ConstructorFails, CreationTypeOK, Fates
<1>8. ASSUME NEW t \in Threads, ReturnToQml(t)
      PROVE  CreationTypeOK'
  <2>1. Busy(t) /\ "unlock" \in Steps
    BY <1>8 DEF ReturnToQml, Running, AtStep, Steps
  <2>2. entries' \in [Threads -> Seq(Entry)]
    BY <1>8, <2>1, Leaves, Continues DEF ReturnToQml
  <2> QED
    BY <1>8, <2>2 DEF ReturnToQml, CreationTypeOK
<1>9. ASSUME NEW t \in Threads, Unlock(t)
      PROVE  CreationTypeOK'
  <2>1. entries' \in [Threads -> Seq(Entry)]
    BY <1>9, Leaves DEF Unlock, AtStep
  <2> QED
    BY <1>9, <2>1 DEF Unlock, CreationTypeOK
<1>10. ASSUME NEW t \in Threads, YieldGil(t) \/ Regain(t)
       PROVE  CreationTypeOK'
  BY <1>10 DEF YieldGil, Regain, CreationTypeOK
<1>11. ASSUME NEW b \in Blocks, Reuse(b)
       PROVE  CreationTypeOK'
  BY <1>11 DEF Reuse, CreationTypeOK, Fates
<1>12. CASE UNCHANGED creationVars
  BY <1>12 DEF creationVars, CreationTypeOK
<1> QED
  BY <1>1, <1>2, <1>3, <1>4, <1>5, <1>6, <1>7, <1>8, <1>9, <1>10, <1>11, <1>12
     DEF CreationNext, CreationStep

\* All states are well-formed, with any threads, blocks and programs.
THEOREM TypeCorrect == CreationSpec => []CreationTypeOK
BY InitTypes, StepTypes, PTL DEF CreationSpec

-----------------------------------------------------------------------------
(* The memory *)

\* From leaving the address until it has come back, a call has the mutex.
Holds(e) == e.block # NoBlock /\ e.step # "lock"

\* The mutex is that of one call, calls are for different blocks, and a block is in use as
\* long as its call is. A call that has left no address waits for memory that is unused.
CallsSound ==
  \A t \in Threads : \A i \in Places(t) :
    LET e == entries[t][i] IN
    /\ Holds(e) => mutex = t
    /\ e.step \in {"lock", "unlock"} => e.block # NoBlock
    /\ e.block # NoBlock => fate[e.block] # "free"
    /\ e.step = "lock" => fate[e.block] = "asked"
    /\ \A u \in Threads : \A j \in Places(u) :
         u # t \/ j # i =>
           /\ entries[u][j].block # NoBlock => entries[u][j].block # e.block
           /\ ~(Holds(e) /\ Holds(entries[u][j]))

\* The address that is left is that of a call that has not returned, and nothing is there.
AddressSound ==
  nextAddr # NoBlock =>
    /\ fate[nextAddr] \in {"asked", "failed"}
    /\ \E t \in Threads : \E i \in Places(t) :
         entries[t][i].block = nextAddr /\ entries[t][i].step \in {"gil", "python"}

CreationInv == CreationTypeOK /\ CallsSound /\ AddressSound /\ MemoryKeptApart

LEMMA InitInv == CreationInit => CreationInv
<1> SUFFICES ASSUME CreationInit PROVE CreationInv
  OBVIOUS
<1>1. \A t \in Threads : Places(t) = {}
  <2> SUFFICES ASSUME NEW t \in Threads PROVE Places(t) = {}
    OBVIOUS
  <2>1. entries[t] = <<>>
    BY DEF CreationInit
  <2>2. Len(entries[t]) = 0
    BY <2>1
  <2> QED
    BY <2>2 DEF Places
<1>2. MemoryKeptApart /\ AddressSound
  BY DEF CreationInit, MemoryKeptApart, AddressSound
<1> QED
  BY <1>1, <1>2, InitTypes DEF CreationInv, CallsSound

\* The innermost call of a thread
LEMMA Innermost ==
  ASSUME CreationTypeOK, NEW t \in Threads, Busy(t)
  PROVE  /\ Current(t) = entries[t][Len(entries[t])] /\ Current(t) \in Entry
         /\ Len(entries[t]) \in Nat /\ Len(entries[t]) \in Places(t)
BY CurrentCall DEF Places

\* A call is a record.
LEMMA CallIs ==
  ASSUME CreationTypeOK, NEW t \in Threads, NEW i \in Places(t)
  PROVE  entries[t][i] \in Entry /\ i \in Nat
BY ElementOfSeq DEF CreationTypeOK, Places

\* What the call at a place means for itself and the others
Apart(t, n, e) ==
  /\ Holds(e) => mutex = t
  /\ e.step \in {"lock", "unlock"} => e.block # NoBlock
  /\ e.block # NoBlock => fate[e.block] # "free"
  /\ e.step = "lock" => fate[e.block] = "asked"
  /\ \A u \in Threads : \A i \in Places(u) :
       u # t \/ i # n =>
         /\ entries[u][i].block # NoBlock => entries[u][i].block # e.block
         /\ ~(Holds(e) /\ Holds(entries[u][i]))

LEMMA OneCall == CallsSound => \A t \in Threads : \A n \in Places(t) : Apart(t, n, entries[t][n])
BY DEF CallsSound, Apart

\* What every call means for itself
LEMMA EachCall ==
  ASSUME CallsSound
  PROVE  \A u \in Threads : \A i \in Places(u) :
           /\ Holds(entries[u][i]) => mutex = u
           /\ entries[u][i].step \in {"lock", "unlock"} => entries[u][i].block # NoBlock
           /\ entries[u][i].block # NoBlock => fate[entries[u][i].block] # "free"
           /\ entries[u][i].step = "lock" => fate[entries[u][i].block] = "asked"
BY DEF CallsSound

\* A step that changes one call only, and what it says of the other parts
LEMMA CallsStaySound ==
  ASSUME CreationTypeOK, CreationTypeOK', CallsSound, NEW t \in Threads, NEW n \in Nat, Stay(t, n),
         \* The others keep the mutex and their fates.
         \A u \in Threads : \A i \in Places(u) :
           (u # t \/ i # n) =>
             /\ Holds(entries[u][i]) => mutex' = u
             /\ entries[u][i].block # NoBlock => fate'[entries[u][i].block] # "free"
             /\ entries[u][i].step = "lock" => fate'[entries[u][i].block] = "asked",
         \* The one is as it must be.
         n \in Places(t)' =>
           /\ Holds(entries'[t][n]) => mutex' = t
           /\ entries'[t][n].step \in {"lock", "unlock"} => entries'[t][n].block # NoBlock
           /\ entries'[t][n].block # NoBlock => fate'[entries'[t][n].block] # "free"
           /\ entries'[t][n].step = "lock" => fate'[entries'[t][n].block] = "asked"
           /\ \A u \in Threads : \A i \in Places(u) :
                u # t \/ i # n =>
                  /\ entries[u][i].block # NoBlock => entries[u][i].block # entries'[t][n].block
                  /\ ~(Holds(entries'[t][n]) /\ Holds(entries[u][i]))
  PROVE  CallsSound'
<1>1. ASSUME NEW u \in Threads, NEW i \in Places(u)', u # t \/ i # n
      PROVE  /\ Holds(entries'[u][i]) => mutex' = u
             /\ entries'[u][i].step \in {"lock", "unlock"} => entries'[u][i].block # NoBlock
             /\ entries'[u][i].block # NoBlock => fate'[entries'[u][i].block] # "free"
             /\ entries'[u][i].step = "lock" => fate'[entries'[u][i].block] = "asked"
             /\ \A w \in Threads : \A j \in Places(w)' :
                  w # u \/ j # i =>
                    /\ entries'[w][j].block # NoBlock => entries'[w][j].block # entries'[u][i].block
                    /\ ~(Holds(entries'[u][i]) /\ Holds(entries'[w][j]))
  <2>1. i \in Nat
    BY <1>1 DEF Places
  <2>2. i \in Places(u) /\ entries'[u][i] = entries[u][i]
    BY <1>1, <2>1 DEF Stay
  <2>3. ASSUME NEW w \in Threads, NEW j \in Places(w)', w # u \/ j # i
        PROVE  /\ entries'[w][j].block # NoBlock => entries'[w][j].block # entries'[u][i].block
               /\ ~(Holds(entries'[u][i]) /\ Holds(entries'[w][j]))
    <3>1. CASE w = t /\ j = n
      BY <1>1, <2>2, <3>1
    <3>2. CASE w # t \/ j # n
      <4>1. j \in Nat
        BY <2>3 DEF Places
      <4>2. j \in Places(w) /\ entries'[w][j] = entries[w][j]
        BY <3>2, <4>1 DEF Stay
      <4> QED
        BY <2>2, <2>3, <4>2 DEF CallsSound
    <3> QED
      BY <3>1, <3>2
  <2> QED
    BY <1>1, <2>2, <2>3 DEF CallsSound
<1>2. ASSUME n \in Places(t)', NEW w \in Threads, NEW j \in Places(w)', w # t \/ j # n
      PROVE  /\ entries'[w][j].block # NoBlock => entries'[w][j].block # entries'[t][n].block
             /\ ~(Holds(entries'[t][n]) /\ Holds(entries'[w][j]))
  <2>1. j \in Nat
    BY <1>2 DEF Places
  <2>2. j \in Places(w) /\ entries'[w][j] = entries[w][j]
    BY <1>2, <2>1 DEF Stay
  <2> QED
    BY <1>2, <2>2
<1>3. \A e : Holds(e)' = Holds(e)
  BY DEF Holds
<1> QED
  BY <1>1, <1>2, <1>3 DEF CallsSound, Holds

\* An address that stays, of a call that stays
LEMMA AddressStaysSound ==
  ASSUME CreationTypeOK, AddressSound, NEW t \in Threads, NEW n \in Nat, Stay(t, n),
         nextAddr' = nextAddr,
         nextAddr # NoBlock => fate'[nextAddr] \in {"asked", "failed"},
         nextAddr # NoBlock /\ n \in Places(t) /\ entries[t][n].block = nextAddr /\ entries[t][n].step \in {"gil", "python"} =>
           n \in Places(t)' /\ entries'[t][n].block = nextAddr /\ entries'[t][n].step \in {"gil", "python"}
  PROVE  AddressSound'
<1> SUFFICES ASSUME nextAddr # NoBlock
             PROVE  \E u \in Threads : \E i \in Places(u)' :
                      entries'[u][i].block = nextAddr /\ entries'[u][i].step \in {"gil", "python"}
  BY DEF AddressSound
<1>0. PICK u \in Threads : \E i \in Places(u) :
         entries[u][i].block = nextAddr /\ entries[u][i].step \in {"gil", "python"}
  BY DEF AddressSound
<1>1. PICK i \in Places(u) : entries[u][i].block = nextAddr /\ entries[u][i].step \in {"gil", "python"}
  BY <1>0
<1>2. i \in Nat
  BY DEF Places
<1>3. CASE u = t /\ i = n
  BY <1>1, <1>3
<1>4. CASE u # t \/ i # n
  BY <1>1, <1>2, <1>4 DEF Stay
<1> QED
  BY <1>3, <1>4

\* Who runs the constructor for a block that has left the address has left it himself.
LEMMA OwnAddress ==
  ASSUME CreationInv, NEW t \in Threads, NEW i \in Places(t), Holds(entries[t][i]), nextAddr # NoBlock
  PROVE  nextAddr = entries[t][i].block
<1>0. PICK u \in Threads : \E j \in Places(u) :
         entries[u][j].block = nextAddr /\ entries[u][j].step \in {"gil", "python"}
  BY DEF CreationInv, AddressSound
<1>1. PICK j \in Places(u) : entries[u][j].block = nextAddr /\ entries[u][j].step \in {"gil", "python"}
  BY <1>0
<1>2. Holds(entries[u][j])
  BY <1>1 DEF Holds
<1> QED
  BY <1>1, <1>2 DEF CreationInv, CallsSound

\* What a constructor does, of the innermost call of a thread or outside all calls
LEMMA ConstructedSound ==
  ASSUME CreationInv, NEW own \in Blocks \cup {NoBlock}, Constructed(own),
         own # NoBlock => \E t \in Threads : \E i \in Places(t) :
                            entries[t][i].block = own /\ entries[t][i].step = "python"
  PROVE  /\ MemoryKeptApart' /\ AddressSound'
         /\ \A u \in Threads : \A i \in Places(u) :
              /\ entries[u][i].block # NoBlock => fate'[entries[u][i].block] # "free"
              /\ entries[u][i].step = "lock" => fate'[entries[u][i].block] = "asked"
<1>1. AddressSound'
  BY DEF Constructed, AddressSound
<1>2. own # NoBlock /\ nextAddr # NoBlock => nextAddr = own
  BY OwnAddress DEF Holds
<1>3. nextAddr # NoBlock => fate[nextAddr] \in {"asked", "failed"}
  BY DEF CreationInv, AddressSound
<1>4. \A b \in Blocks : fate'[b] \in {"right", "other", "elsewhere"} \/ fate'[b] = fate[b]
  BY <1>2, <1>3 DEF Constructed
<1>5. MemoryKeptApart'
  BY <1>4 DEF MemoryKeptApart, CreationInv
<1>6. ASSUME NEW u \in Threads, NEW i \in Places(u)
      PROVE  /\ entries[u][i].block # NoBlock => fate'[entries[u][i].block] # "free"
             /\ entries[u][i].step = "lock" => fate'[entries[u][i].block] = "asked"
  <2>1. entries[u][i].block \in Blocks \cup {NoBlock}
    BY <1>6, CallIs DEF CreationInv, Entry
  <2>2. entries[u][i].block # NoBlock => fate'[entries[u][i].block] # "free"
    BY <1>4, <2>1 DEF CreationInv, CallsSound
  <2>3. ASSUME entries[u][i].step = "lock"
        PROVE  fate'[entries[u][i].block] = "asked"
    <3>1. entries[u][i].block \in Blocks /\ fate[entries[u][i].block] = "asked"
      BY <2>1, <2>3 DEF CreationInv, CallsSound
    <3>2. entries[u][i].block # nextAddr
      BY <2>3, <3>1 DEF CreationInv, CallsSound, AddressSound
    <3>3. entries[u][i].block # own
      BY <2>3, <3>1 DEF CreationInv, CallsSound
    <3> QED
      BY <3>1, <3>2, <3>3 DEF Constructed
  <2> QED
    BY <2>2, <2>3
<1> QED
  BY <1>1, <1>5, <1>6

LEMMA StepInv == CreationInv /\ [CreationNext]_creationVars => CreationInv'
<1> SUFFICES ASSUME CreationInv, [CreationNext]_creationVars, CreationTypeOK, CreationTypeOK',
                    CallsSound, AddressSound, MemoryKeptApart
             PROVE  CallsSound' /\ AddressSound' /\ MemoryKeptApart'
  BY StepTypes DEF CreationInv
<1> USE DEF Holds
<1>1. ASSUME NEW t \in Threads, NEW b \in Blocks, BeginCreate(t, b)
      PROVE  CallsSound' /\ AddressSound' /\ MemoryKeptApart'
  <2> DEFINE e == [step |-> After("call", b), block |-> b, had |-> gil = t, done |-> FALSE]
  <2>1. e \in Entry /\ entries' = Called(t, e) /\ e.step = "lock" /\ e.block = b
    BY <1>1, WaitsFor DEF BeginCreate, Entry, Steps
  <2> HIDE DEF e
  <2>2. PICK n : n = Len(entries[t]) + 1
    OBVIOUS
  <2>3. /\ Stay(t, n) /\ entries'[t][n] = e /\ n \in Nat /\ n \notin Places(t)
        /\ Len(entries'[t]) = n
    <3>1. Len(entries[t]) \in Nat
      BY LenProperties DEF CreationTypeOK
    <3>2. Stay(t, n) /\ Len(entries'[t]) = n /\ Current(t)' = e /\ Busy(t)'
      BY <2>1, <2>2, Enters
    <3>3. Current(t)' = entries'[t][Len(entries'[t])]
      BY DEF Current, Last
    <3> QED
      BY <2>2, <3>1, <3>2, <3>3 DEF Places
  <2>4. fate[b] = "free" /\ fate' = [fate EXCEPT ![b] = "asked"] /\ mutex' = mutex /\ nextAddr' = nextAddr
    BY <1>1 DEF BeginCreate
  <2>5. fate'[b] = "asked" /\ \A c \in Blocks : c # b => fate'[c] = fate[c]
    BY <2>4 DEF CreationTypeOK
  <2>6. \A u \in Threads : \A i \in Places(u) : entries[u][i].block # b
    BY <2>4 DEF CallsSound
  <2>7. \A u \in Threads : \A i \in Places(u) : entries[u][i].block \in Blocks \cup {NoBlock}
    BY CallIs DEF Entry
  <2>8. \A u \in Threads : \A i \in Places(u) :
          entries[u][i].block # NoBlock => fate'[entries[u][i].block] = fate[entries[u][i].block]
    BY <2>5, <2>6, <2>7
  <2>9. CallsSound'
    <3>1. \A u \in Threads : \A i \in Places(u) :
            /\ Holds(entries[u][i]) => mutex' = u
            /\ entries[u][i].block # NoBlock => fate'[entries[u][i].block] # "free"
            /\ entries[u][i].step = "lock" => fate'[entries[u][i].block] = "asked"
      BY <2>4, <2>8 DEF CallsSound
    <3>2. /\ ~Holds(entries'[t][n]) /\ entries'[t][n].block = b /\ entries'[t][n].step = "lock"
          /\ fate'[b] = "asked" /\ b # NoBlock
      BY <2>1, <2>3, <2>5
    <3> HIDE DEF Holds
    <3> QED
      BY <2>3, <2>6, <3>1, <3>2, CallsStaySound
  <2>10. AddressSound'
    <3>1. nextAddr # NoBlock => fate'[nextAddr] \in {"asked", "failed"}
      BY <2>4, <2>5 DEF AddressSound, CreationTypeOK
    <3> QED
      BY <2>3, <2>4, <3>1, AddressStaysSound
  <2>11. MemoryKeptApart'
    BY <2>5 DEF MemoryKeptApart
  <2> QED
    BY <2>9, <2>10, <2>11
<1>2. ASSUME NEW t \in Threads, NEW makes \in BOOLEAN, BeginCallback(t, makes)
      PROVE  CallsSound' /\ AddressSound' /\ MemoryKeptApart'
  <2> DEFINE e == [step |-> After("call", NoBlock), block |-> NoBlock, had |-> gil = t, done |-> ~makes]
  <2>1. e \in Entry /\ entries' = Called(t, e) /\ e.step = "gil" /\ e.block = NoBlock
    BY <1>2, WaitsFor DEF BeginCallback, Entry, Steps
  <2> HIDE DEF e
  <2>2. PICK n : n = Len(entries[t]) + 1
    OBVIOUS
  <2>3. /\ Stay(t, n) /\ entries'[t][n] = e /\ n \in Nat /\ n \notin Places(t)
        /\ Len(entries'[t]) = n
    <3>1. Len(entries[t]) \in Nat
      BY LenProperties DEF CreationTypeOK
    <3>2. Stay(t, n) /\ Len(entries'[t]) = n /\ Current(t)' = e /\ Busy(t)'
      BY <2>1, <2>2, Enters
    <3>3. Current(t)' = entries'[t][Len(entries'[t])]
      BY DEF Current, Last
    <3> QED
      BY <2>2, <3>1, <3>2, <3>3 DEF Places
  <2>4. fate' = fate /\ mutex' = mutex /\ nextAddr' = nextAddr
    BY <1>2 DEF BeginCallback
  <2>5. CallsSound'
    <3>1. \A u \in Threads : \A i \in Places(u) :
            /\ Holds(entries[u][i]) => mutex' = u
            /\ entries[u][i].block # NoBlock => fate'[entries[u][i].block] # "free"
            /\ entries[u][i].step = "lock" => fate'[entries[u][i].block] = "asked"
      BY <2>4 DEF CallsSound
    <3>2. entries'[t][n].block = NoBlock /\ entries'[t][n].step = "gil" /\ ~Holds(entries'[t][n])
      BY <2>1, <2>3
    <3> HIDE DEF Holds
    <3> QED
      BY <2>3, <3>1, <3>2, CallsStaySound
  <2>6. AddressSound'
    <3>1. nextAddr # NoBlock => fate'[nextAddr] \in {"asked", "failed"}
      BY <2>4 DEF AddressSound
    <3> QED
      BY <2>3, <2>4, <3>1, AddressStaysSound
  <2> QED
    BY <2>4, <2>5, <2>6 DEF MemoryKeptApart
<1>3. ASSUME NEW t \in Threads, SetNext(t) \/ AcquireGil(t)
      PROVE  CallsSound' /\ AddressSound' /\ MemoryKeptApart'
  <2>1. Busy(t) /\ fate' = fate
    BY <1>3 DEF SetNext, AcquireGil, AtStep
  <2>2. PICK n, e, step : /\ n = Len(entries[t]) /\ e = entries[t][n]
                          /\ step = (IF SetNext(t) THEN "gil" ELSE "python")
    OBVIOUS
  <2>3. n \in Places(t) /\ n \in Nat /\ e \in Entry /\ e = Current(t)
    BY <2>1, <2>2, Innermost
  <2>a. Apart(t, n, e)
    BY <2>2, <2>3, OneCall
  <2>4. /\ SetNext(t) => /\ e.step = "lock" /\ mutex = NoThread /\ mutex' = t /\ nextAddr' = e.block
                         /\ step = "gil" /\ entries' = Continued(t, "gil")
        /\ ~SetNext(t) => /\ e.step = "gil" /\ mutex' = mutex /\ nextAddr' = nextAddr
                          /\ step = "python" /\ entries' = Continued(t, "python")
    BY <1>3, <2>2, <2>3, WaitsFor DEF SetNext, AcquireGil, AtStep, MutexFree
  <2>5. step \in Steps /\ entries' = Continued(t, step)
    BY <2>4 DEF Steps
  <2>6. /\ Stay(t, n) /\ n \in Places(t)'
        /\ entries'[t][n].step = step /\ entries'[t][n].block = e.block
    <3>1. /\ Stay(t, n) /\ Len(entries'[t]) = n /\ Current(t)' = [Current(t) EXCEPT !.step = step]
      BY <2>1, <2>2, <2>5, Continues
    <3>2. Current(t)' = entries'[t][n]
      BY <3>1 DEF Current, Last
    <3>3. Current(t)' = [e EXCEPT !.step = step]
      BY <2>3, <3>1
    <3> QED
      BY <2>3, <3>1, <3>2, <3>3 DEF Places, Entry
  <2>7. CASE SetNext(t)
    <3>1. \A u \in Threads : \A i \in Places(u) : ~Holds(entries[u][i])
      BY <2>4, <2>7, ThreadAssumption DEF CallsSound
    <3>2. /\ e.block # NoBlock /\ fate[e.block] = "asked" /\ nextAddr' = e.block /\ mutex' = t
          /\ entries'[t][n].step = "gil"
      <4>1. e.block # NoBlock /\ fate[e.block] = "asked"
        BY <2>a, <2>3, <2>4, <2>7 DEF Apart
      <4> QED
        BY <2>4, <2>6, <2>7, <4>1
    <3>3. \A u \in Threads : \A i \in Places(u) :
            u # t \/ i # n =>
              /\ entries[u][i].block # NoBlock => entries[u][i].block # e.block /\ fate'[entries[u][i].block] # "free"
              /\ entries[u][i].step = "lock" => fate'[entries[u][i].block] = "asked"
      BY <2>a, <2>1, <2>3, EachCall DEF Apart
    <3>4. CallsSound'
      <4> HIDE DEF Holds
      <4>1. \A u \in Threads : \A i \in Places(u) :
              (u # t \/ i # n) =>
                /\ Holds(entries[u][i]) => mutex' = u
                /\ entries[u][i].block # NoBlock => fate'[entries[u][i].block] # "free"
                /\ entries[u][i].step = "lock" => fate'[entries[u][i].block] = "asked"
        BY <3>1, <3>3
      <4>2. /\ Holds(entries'[t][n]) => mutex' = t
            /\ entries'[t][n].step \in {"lock", "unlock"} => entries'[t][n].block # NoBlock
            /\ entries'[t][n].block # NoBlock => fate'[entries'[t][n].block] # "free"
            /\ entries'[t][n].step = "lock" => fate'[entries'[t][n].block] = "asked"
        BY <2>1, <2>6, <3>2
      <4>3. \A u \in Threads : \A i \in Places(u) :
              u # t \/ i # n =>
                /\ entries[u][i].block # NoBlock => entries[u][i].block # entries'[t][n].block
                /\ ~(Holds(entries'[t][n]) /\ Holds(entries[u][i]))
        BY <2>6, <3>1, <3>3
      <4> QED
        BY <2>3, <2>6, <4>1, <4>2, <4>3, CallsStaySound
    <3>5. AddressSound'
      BY <2>1, <2>6, <3>2 DEF AddressSound
    <3> QED
      BY <2>1, <3>4, <3>5 DEF MemoryKeptApart
  <2>8. CASE ~SetNext(t)
    <3>1. /\ Holds(e) => mutex' = t
          /\ e.block # NoBlock => fate'[e.block] # "free"
          /\ \A u \in Threads : \A i \in Places(u) :
               u # t \/ i # n =>
                 /\ entries[u][i].block # NoBlock => entries[u][i].block # e.block /\ fate'[entries[u][i].block] # "free"
                 /\ entries[u][i].step = "lock" => fate'[entries[u][i].block] = "asked"
                 /\ Holds(entries[u][i]) => mutex' = u
                 /\ ~(Holds(e) /\ Holds(entries[u][i]))
      <4> HIDE DEF Holds
      <4> QED
        BY <2>a, <2>1, <2>3, <2>4, <2>8, EachCall DEF Apart
    <3>2. entries'[t][n].step = "python" /\ (Holds(entries'[t][n]) <=> Holds(e))
      BY <2>4, <2>6, <2>8
    <3>3. CallsSound'
      <4> HIDE DEF Holds
      <4> QED
        BY <2>6, <2>3, <3>1, <3>2, CallsStaySound
    <3>4. AddressSound'
      <4>1. nextAddr # NoBlock => fate'[nextAddr] \in {"asked", "failed"}
        BY <2>1 DEF AddressSound
      <4> QED
        BY <2>2, <2>3, <2>4, <2>6, <2>8, <3>2, <4>1, AddressStaysSound
    <3> QED
      BY <2>1, <3>3, <3>4 DEF MemoryKeptApart
  <2> QED
    BY <2>7, <2>8
<1>4. ASSUME NEW t \in Threads, ConstructBase(t) \/ ConstructorFails(t)
      PROVE  CallsSound' /\ AddressSound' /\ MemoryKeptApart'
  <2>1. Busy(t) /\ mutex' = mutex /\ AtStep(t, "python")
    BY <1>4 DEF ConstructBase, ConstructorFails, Running, AtStep
  <2>2. PICK n, e : n = Len(entries[t]) /\ e = entries[t][n]
    OBVIOUS
  <2>3. n \in Places(t) /\ n \in Nat /\ e \in Entry /\ e = Current(t) /\ e.step = "python"
    BY <2>1, <2>2, Innermost DEF AtStep
  <2>a. Apart(t, n, e)
    BY <2>2, <2>3, OneCall
  <2>4. /\ Stay(t, n) /\ n \in Places(t)'
        /\ entries'[t][n].step = "python" /\ entries'[t][n].block = e.block
    <3>1. /\ Stay(t, n) /\ Len(entries'[t]) = n /\ Current(t)' = [Current(t) EXCEPT !.done = TRUE]
      BY <1>4, <2>1, <2>2, IsDone DEF ConstructBase, ConstructorFails
    <3>2. Current(t)' = entries'[t][n]
      BY <3>1 DEF Current, Last
    <3>3. Current(t)' = [e EXCEPT !.done = TRUE]
      BY <2>3, <3>1
    <3> QED
      BY <2>3, <3>1, <3>2, <3>3 DEF Places, Entry
  <2>5. /\ MemoryKeptApart' /\ AddressSound'
        /\ \A u \in Threads : \A i \in Places(u) :
             /\ entries[u][i].block # NoBlock => fate'[entries[u][i].block] # "free"
             /\ entries[u][i].step = "lock" => fate'[entries[u][i].block] = "asked"
    <3>1. CASE ConstructBase(t)
      <4>1. Constructed(e.block) /\ e.block \in Blocks \cup {NoBlock}
        BY <2>3, <3>1 DEF ConstructBase, Entry
      <4> QED
        BY <2>2, <2>3, <4>1, ConstructedSound
    <3>2. CASE ConstructorFails(t)
      <4>1. \A b \in Blocks : fate'[b] = fate[b] \/ (b = e.block /\ fate[b] = "asked" /\ fate'[b] = "failed")
        BY <2>3, <3>2 DEF ConstructorFails
      <4>2. nextAddr' = nextAddr
        BY <3>2 DEF ConstructorFails
      <4>3. MemoryKeptApart'
        BY <4>1 DEF MemoryKeptApart
      <4>4. nextAddr # NoBlock => fate'[nextAddr] \in {"asked", "failed"}
        BY <4>1 DEF AddressSound, CreationTypeOK
      <4>5. AddressSound'
        BY <2>2, <2>3, <2>4, <4>2, <4>4, AddressStaysSound
      <4>6. \A u \in Threads : \A i \in Places(u) :
              /\ entries[u][i].block \in Blocks \cup {NoBlock}
              /\ entries[u][i].step = "lock" => entries[u][i].block # NoBlock /\ entries[u][i].block # e.block
        <5> SUFFICES ASSUME NEW u \in Threads, NEW i \in Places(u)
                     PROVE  /\ entries[u][i].block \in Blocks \cup {NoBlock}
                            /\ entries[u][i].step = "lock" => entries[u][i].block # NoBlock /\ entries[u][i].block # e.block
          OBVIOUS
        <5>1. entries[u][i] \in Entry
          BY CallIs
        <5>2. entries[u][i].step = "lock" => u # t \/ i # n
          BY <2>2, <2>3
        <5>3. u # t \/ i # n => (entries[u][i].block # NoBlock => entries[u][i].block # e.block)
          BY <2>a, <2>3 DEF Apart
        <5>4. entries[u][i].step = "lock" => entries[u][i].block # NoBlock
          BY EachCall
        <5> QED
          BY <5>1, <5>2, <5>3, <5>4 DEF Entry
      <4> QED
        BY <4>1, <4>3, <4>5, <4>6 DEF CallsSound
    <3> QED
      BY <1>4, <3>1, <3>2
  <2>6. /\ Holds(e) => mutex' = t
        /\ e.block # NoBlock => fate'[e.block] # "free"
        /\ \A u \in Threads : \A i \in Places(u) :
             u # t \/ i # n =>
               /\ Holds(entries[u][i]) => mutex' = u
               /\ entries[u][i].block # NoBlock => entries[u][i].block # e.block
               /\ ~(Holds(e) /\ Holds(entries[u][i]))
    <3>1. e.block # NoBlock => fate'[e.block] # "free"
      BY <2>2, <2>3, <2>5
    <3> HIDE DEF Holds
    <3>2. \A u \in Threads : \A i \in Places(u) : Holds(entries[u][i]) => mutex' = u
      BY <2>1, EachCall
    <3> QED
      BY <2>a, <2>1, <3>1, <3>2 DEF Apart
  <2>7. Holds(entries'[t][n]) <=> Holds(e)
    BY <2>3, <2>4
  <2>8. CallsSound'
    <3> HIDE DEF Holds
    <3> QED
      BY <2>3, <2>4, <2>5, <2>6, <2>7, CallsStaySound
  <2> QED
    BY <2>5, <2>8
<1>5. ASSUME NEW t \in Threads, ConstructHelper(t) \/ ConstructOther(t)
      PROVE  CallsSound' /\ AddressSound' /\ MemoryKeptApart'
  <2>1. Constructed(NoBlock) /\ mutex' = mutex /\ entries' = entries
    BY <1>5 DEF ConstructHelper, ConstructOther
  <2>2. /\ MemoryKeptApart' /\ AddressSound'
        /\ \A u \in Threads : \A i \in Places(u) :
             /\ entries[u][i].block # NoBlock => fate'[entries[u][i].block] # "free"
             /\ entries[u][i].step = "lock" => fate'[entries[u][i].block] = "asked"
    BY <2>1, ConstructedSound
  <2> QED
    BY <2>1, <2>2 DEF CallsSound, Places
<1>6. ASSUME NEW t \in Threads, ReturnToQml(t)
      PROVE  CallsSound' /\ AddressSound' /\ MemoryKeptApart'
  <2>1. Busy(t) /\ mutex' = mutex /\ fate' = fate /\ AtStep(t, "python")
    BY <1>6 DEF ReturnToQml, Running, AtStep
  <2>2. PICK n, e : n = Len(entries[t]) /\ e = entries[t][n]
    OBVIOUS
  <2>3. n \in Places(t) /\ n \in Nat /\ e \in Entry /\ e = Current(t) /\ e.step = "python"
    BY <2>1, <2>2, Innermost DEF AtStep
  <2>a. Apart(t, n, e)
    BY <2>2, <2>3, OneCall
  <2>4. CASE e.block = NoBlock
    <3>1. entries' = Left(t) /\ nextAddr' = nextAddr
      BY <1>6, <2>3, <2>4 DEF ReturnToQml
    <3>2. Stay(t, n) /\ n \notin Places(t)'
      <4>1. Stay(t, n) /\ Len(entries'[t]) = n - 1
        BY <2>1, <2>2, <3>1, Leaves
      <4> QED
        BY <2>3, <4>1 DEF Places
    <3>3. \A u \in Threads : \A i \in Places(u) :
            /\ Holds(entries[u][i]) => mutex' = u
            /\ entries[u][i].block # NoBlock => fate'[entries[u][i].block] # "free"
            /\ entries[u][i].step = "lock" => fate'[entries[u][i].block] = "asked"
      BY <2>1 DEF CallsSound
    <3>4. CallsSound'
      <4> HIDE DEF Holds
      <4> QED
        BY <2>3, <3>2, <3>3, CallsStaySound
    <3>5. nextAddr # NoBlock => fate'[nextAddr] \in {"asked", "failed"}
      BY <2>1 DEF AddressSound
    <3>6. AddressSound'
      BY <2>2, <2>3, <2>4, <3>1, <3>2, <3>5, AddressStaysSound
    <3> QED
      BY <2>1, <3>4, <3>6 DEF MemoryKeptApart
  <2>5. CASE e.block # NoBlock
    <3>1. entries' = Continued(t, "unlock") /\ nextAddr' = NoBlock
      BY <1>6, <2>3, <2>5 DEF ReturnToQml
    <3>2. /\ Stay(t, n) /\ n \in Places(t)'
          /\ entries'[t][n].step = "unlock" /\ entries'[t][n].block = e.block
      <4>1. /\ Stay(t, n) /\ Len(entries'[t]) = n /\ Current(t)' = [Current(t) EXCEPT !.step = "unlock"]
        BY <2>1, <2>2, <3>1, Continues DEF Steps
      <4>2. Current(t)' = entries'[t][n]
        BY <4>1 DEF Current, Last
      <4>3. Current(t)' = [e EXCEPT !.step = "unlock"]
        BY <2>3, <4>1
      <4> QED
        BY <2>3, <4>1, <4>2, <4>3 DEF Places, Entry
    <3>3. /\ Holds(e) /\ mutex' = t /\ fate'[e.block] # "free"
          /\ \A u \in Threads : \A i \in Places(u) :
               u # t \/ i # n =>
                 /\ Holds(entries[u][i]) => mutex' = u
                 /\ entries[u][i].block # NoBlock => entries[u][i].block # e.block /\ fate'[entries[u][i].block] # "free"
                 /\ entries[u][i].step = "lock" => fate'[entries[u][i].block] = "asked"
                 /\ ~Holds(entries[u][i])
      <4>1. mutex' = mutex /\ fate' = fate /\ Holds(e)
        BY <2>1, <2>3, <2>5
      <4> HIDE DEF Holds
      <4>2. mutex' = t /\ fate'[e.block] # "free"
        BY <2>a, <2>5, <4>1 DEF Apart
      <4>3. \A u \in Threads : \A i \in Places(u) :
              /\ Holds(entries[u][i]) => mutex' = u
              /\ entries[u][i].block # NoBlock => fate'[entries[u][i].block] # "free"
              /\ entries[u][i].step = "lock" => fate'[entries[u][i].block] = "asked"
        BY <4>1, EachCall
      <4> QED
        BY <2>a, <4>1, <4>2, <4>3 DEF Apart
    <3>4. CallsSound'
      <4> HIDE DEF Holds
      <4> QED
        BY <2>3, <2>5, <3>2, <3>3, CallsStaySound
    <3>5. AddressSound'
      BY <3>1 DEF AddressSound
    <3> QED
      BY <2>1, <3>4, <3>5 DEF MemoryKeptApart
  <2> QED
    BY <2>4, <2>5
<1>7. ASSUME NEW t \in Threads, Unlock(t)
      PROVE  CallsSound' /\ AddressSound' /\ MemoryKeptApart'
  <2>1. Busy(t) /\ mutex' = NoThread /\ fate' = fate /\ nextAddr' = nextAddr /\ AtStep(t, "unlock") /\ entries' = Left(t)
    BY <1>7 DEF Unlock, AtStep
  <2>2. PICK n, e : n = Len(entries[t]) /\ e = entries[t][n]
    OBVIOUS
  <2>3. n \in Places(t) /\ n \in Nat /\ e \in Entry /\ e = Current(t) /\ e.step = "unlock"
    BY <2>1, <2>2, Innermost DEF AtStep
  <2>a. Apart(t, n, e)
    BY <2>2, <2>3, OneCall
  <2>4. Stay(t, n) /\ n \notin Places(t)'
    <3>1. Stay(t, n) /\ Len(entries'[t]) = n - 1
      BY <2>1, <2>2, Leaves
    <3> QED
      BY <2>3, <3>1 DEF Places
  <2>5. Holds(e)
    BY <2>a, <2>3 DEF Apart
  <2>6. \A u \in Threads : \A i \in Places(u) : u # t \/ i # n => ~Holds(entries[u][i])
    BY <2>a, <2>3, <2>5 DEF Apart
  <2>7. nextAddr = NoBlock
    BY <2>2, <2>3, <2>6 DEF AddressSound
  <2>8. \A u \in Threads : \A i \in Places(u) :
          /\ entries[u][i].block # NoBlock => fate'[entries[u][i].block] # "free"
          /\ entries[u][i].step = "lock" => fate'[entries[u][i].block] = "asked"
    BY <2>1 DEF CallsSound
  <2>9. CallsSound'
    <3> HIDE DEF Holds
    <3> QED
      BY <2>3, <2>4, <2>6, <2>8, CallsStaySound
  <2> QED
    BY <2>1, <2>7, <2>9 DEF AddressSound, MemoryKeptApart
<1>8. ASSUME NEW b \in Blocks, Reuse(b)
      PROVE  CallsSound' /\ AddressSound' /\ MemoryKeptApart'
  <2>1. /\ UNCHANGED <<mutex, nextAddr, entries>> /\ fate' = [fate EXCEPT ![b] = "free"]
        /\ \A t \in Threads : \A i \in Places(t) : entries[t][i].block # b
    BY <1>8 DEF Reuse, Places
  <2>2. \A c \in Blocks : c # b => fate'[c] = fate[c]
    BY <2>1 DEF CreationTypeOK
  <2>3. \A t \in Threads : \A i \in Places(t) : entries[t][i].block \in Blocks \cup {NoBlock}
    BY CallIs DEF Entry
  <2>4. \A t \in Threads : \A i \in Places(t) :
          entries[t][i].block # NoBlock => fate'[entries[t][i].block] = fate[entries[t][i].block]
    BY <2>1, <2>2, <2>3
  <2>5. CallsSound'
    BY <2>1, <2>4 DEF CallsSound, Places
  <2>6. AddressSound'
    BY <2>1, <2>4 DEF AddressSound, Places
  <2> QED
    BY <2>1, <2>2, <2>5, <2>6 DEF MemoryKeptApart, CreationTypeOK
<1>9. CASE UNCHANGED creationVars \/ \E t \in Threads : YieldGil(t) \/ Regain(t)
  <2>1. UNCHANGED <<mutex, nextAddr, entries, fate>>
    BY <1>9 DEF creationVars, YieldGil, Regain
  <2> QED
    BY <2>1 DEF CallsSound, AddressSound, MemoryKeptApart, Places
<1> QED
  BY <1>1, <1>2, <1>3, <1>4, <1>5, <1>6, <1>7, <1>8, <1>9 DEF CreationNext, CreationStep

\* With any number of threads and blocks, whatever constructors, callbacks and other threads
\* make, and wherever the GIL is handed over: creations keep out of each other's memory, and
\* no address is used when its call has ended or when an object is there.
THEOREM MemoryIsKeptApart == CreationSpec => []MemoryKeptApart
<1>1. CreationInv => MemoryKeptApart
  BY DEF CreationInv
<1> QED
  BY <1>1, InitInv, StepInv, PTL DEF CreationSpec

HIDE ThreadAssumption
HIDE CreationAssumption

-----------------------------------------------------------------------------
(* IOPipe *)

Byte == 0..2
WriteCall == [end : End, step : {"bytesWritten", "readyRead"}]

\* What the pipe is for those at its ends.
Way == [e \in End |-> ahead[e] \o m_buffer[e]]
Untold == {Other(writes[i].end) : i \in {j \in 1..Len(writes) : writes[j].step = "bytesWritten"}}

PipeInv ==
  /\ opened \in Nat /\ opened <= MaxOpens
  /\ mode \in [End -> Mode \cup {"closed"}] /\ exists \subseteq End
  /\ m_buffer \in [End -> Seq(Byte)] /\ ahead \in [End -> Seq(Byte)] /\ taken \in [End -> Seq(Byte)]
  /\ \A e \in End : Len(m_buffer[e]) <= MaxBuffer
  /\ writes \in Seq(WriteCall) /\ Len(writes) <= MaxWrites

LEMMA OtherEnd == \A e \in End : Other(e) \in End
BY DEF End, Other

LEMMA PipeBounds == MaxBuffer \in Nat /\ Chunk \in Nat /\ MaxWrites \in Nat /\ MaxOpens \in Nat
BY PipeAssumption

LEMMA PipeInvInit == PipeInit => PipeInv
<1> SUFFICES ASSUME PipeInit PROVE PipeInv
  OBVIOUS
<1>1. <<>> \in Seq(Byte) /\ <<>> \in Seq(WriteCall) /\ Len(<<>>) = 0
  BY EmptySeq
<1> QED
  BY <1>1, PipeBounds DEF PipeInit, PipeInv

\* The bytes of a write, and what they are to the other end.
LEMMA WriteEffect ==
  ASSUME PipeInv, NEW e \in End, NEW len \in 1..2, Write(e, len)
  PROVE  \E n \in 1..2 : \E s \in [1..n -> Byte] :
           /\ s \in Seq(Byte) /\ Len(m_buffer[Other(e)]) + Len(s) <= MaxBuffer
           /\ m_buffer' = [m_buffer EXCEPT ![Other(e)] = @ \o s]
<1> DEFINE o == Other(e)
           n == Accepted(e, len)
           s == NextBytes(e, n)
<1>1. o \in End /\ m_buffer[o] \in Seq(Byte) /\ Len(m_buffer[o]) \in Nat /\ Len(m_buffer[o]) <= MaxBuffer
  BY OtherEnd, LenProperties DEF PipeInv
<1>2. n > 0 /\ m_buffer' = [m_buffer EXCEPT ![o] = @ \o s]
  BY DEF Write
<1>3. n \in 1..2 /\ Len(m_buffer[o]) + n <= MaxBuffer
  <2> DEFINE l == Len(m_buffer[o])
             k == n
  <2>1. k = IF len < MaxBuffer - l THEN len ELSE MaxBuffer - l
    BY DEF Accepted, Smaller
  <2>2. l \in Nat /\ l <= MaxBuffer /\ MaxBuffer \in Nat /\ len \in 1..2 /\ k > 0
    BY <1>1, <1>2, PipeBounds
  <2> HIDE DEF l, k
  <2>3. k \in 1..2 /\ l + k <= MaxBuffer
    BY <2>1, <2>2
  <2> QED
    BY <2>3 DEF l, k
<1>4. Written(e) \in Nat
  <2>1. taken[o] \in Seq(Byte) /\ ahead[o] \in Seq(Byte)
    BY <1>1 DEF PipeInv
  <2>2. Len(taken[o]) \in Nat /\ Len(ahead[o]) \in Nat
    BY <2>1, LenProperties
  <2> DEFINE a == Len(taken[o])
             b == Len(ahead[o])
             c == Len(m_buffer[o])
  <2>3. a \in Nat /\ b \in Nat /\ c \in Nat /\ Written(e) = a + b + c
    BY <1>1, <2>2 DEF Written
  <2> HIDE DEF a, b, c
  <2> QED
    BY <2>3
<1>5. \A k \in Nat : k % 3 \in Byte
  BY SMT DEF Byte
<1> HIDE DEF n
<1>6. s \in [1..n -> Byte]
  <2>1. \A i \in 1..n : Written(e) + i \in Nat
    BY <1>3, <1>4
  <2> QED
    BY <1>5, <2>1 DEF NextBytes
<1>7. s \in Seq(Byte) /\ Len(s) = n
  <2>1. n \in Nat
    BY <1>3
  <2> QED
    BY <1>6, <2>1, SeqDef
<1> HIDE DEF s
<1> QED
  BY <1>2, <1>3, <1>6, <1>7

LEMMA WritesBegun ==
  ASSUME PipeInv, NEW e \in End, writes' = Append(writes, [end |-> e, step |-> "bytesWritten"])
  PROVE  writes' \in Seq(WriteCall) /\ Len(writes') = Len(writes) + 1 /\ Untold' = Untold \cup {Other(e)}
<1> DEFINE w == [end |-> e, step |-> "bytesWritten"]
           n == Len(writes)
<1>1. w \in WriteCall /\ writes \in Seq(WriteCall) /\ n \in Nat
  BY LenProperties DEF WriteCall, PipeInv
<1>2. w.end = e /\ w.step = "bytesWritten"
  OBVIOUS
<1> HIDE DEF w
<1>3. /\ writes' \in Seq(WriteCall) /\ Len(writes') = n + 1 /\ writes'[n + 1] = w
      /\ \A i \in 1..n : writes'[i] = writes[i]
  BY <1>1, StackPush DEF w
<1> HIDE DEF n
<1>4. {j \in 1..(n + 1) : writes'[j].step = "bytesWritten"} = {j \in 1..n : writes[j].step = "bytesWritten"} \cup {n + 1}
  BY <1>1, <1>2, <1>3
<1>5. Untold' = {Other(writes'[i].end) : i \in {j \in 1..n : writes[j].step = "bytesWritten"} \cup {n + 1}}
  BY <1>3, <1>4 DEF Untold
<1>6. Untold = {Other(writes[i].end) : i \in {j \in 1..n : writes[j].step = "bytesWritten"}}
  BY DEF Untold, n
<1>7. Untold' = Untold \cup {Other(e)}
  BY <1>2, <1>3, <1>5, <1>6
<1> QED
  BY <1>3, <1>7 DEF n

LEMMA WritesTold ==
  ASSUME PipeInv, ReadyRead
  PROVE  /\ writes' \in Seq(WriteCall) /\ Len(writes') = Len(writes)
         /\ Untold' = Untold \/ \E e \in Untold : e \in End /\ Untold' = Untold \ {e}
<1> DEFINE n == Len(writes)
           f == [writes[n] EXCEPT !.step = "readyRead"]
           r == [writes EXCEPT ![n] = f]
<1>1. writes \in Seq(WriteCall) /\ writes # <<>> /\ Last(writes).step = "bytesWritten"
  BY DEF PipeInv, ReadyRead
<1>2. n \in Nat /\ n >= 1 /\ writes[n] \in WriteCall /\ writes[n].step = "bytesWritten"
  BY <1>1, StackTop
<1>3. f \in WriteCall /\ f.end = writes[n].end /\ f.step = "readyRead"
  BY <1>2 DEF WriteCall
<1>4. writes' = r
  BY DEF ReadyRead
<1> HIDE DEF f
<1>5. r \in Seq(WriteCall) /\ Len(r) = n /\ r[n] = f /\ \A i \in 1..n : i # n => r[i] = writes[i]
  BY <1>1, <1>3, StackChange
<1> HIDE DEF r
<1> DEFINE o == Other(writes[n].end)
<1>6. o \in End
  BY <1>2, OtherEnd DEF WriteCall
<1> HIDE DEF n
<1>7. {j \in 1..n : writes'[j].step = "bytesWritten"} = {j \in 1..n : writes[j].step = "bytesWritten"} \ {n}
  BY <1>2, <1>3, <1>4, <1>5
<1>8. Untold' = {Other(writes'[i].end) : i \in {j \in 1..n : writes[j].step = "bytesWritten"} \ {n}}
  BY <1>4, <1>5, <1>7 DEF Untold
<1>9. Untold = {Other(writes[i].end) : i \in {j \in 1..n : writes[j].step = "bytesWritten"}}
  BY DEF Untold, n
<1>10. o \in Untold
  BY <1>2, <1>9
<1>11. \A i \in 1..n : i # n => writes'[i] = writes[i]
  BY <1>4, <1>5
<1>12. Untold' = {Other(writes[i].end) : i \in {j \in 1..n : writes[j].step = "bytesWritten"} \ {n}}
  BY <1>8, <1>11
<1>13. Untold' = Untold \/ Untold' = Untold \ {o}
  BY <1>9, <1>12
<1> QED
  BY <1>4, <1>5, <1>6, <1>10, <1>13 DEF n

LEMMA WritesReturned ==
  ASSUME PipeInv, WriteReturns
  PROVE  writes' \in Seq(WriteCall) /\ Len(writes') <= Len(writes) /\ Untold' = Untold
<1> DEFINE n == Len(writes)
<1>1. writes \in Seq(WriteCall) /\ writes # <<>> /\ Last(writes).step = "readyRead" /\ writes' = Front(writes)
  BY DEF PipeInv, WriteReturns
<1>2. n \in Nat /\ n >= 1 /\ writes[n].step = "readyRead"
  BY <1>1, StackTop
<1>3. writes' \in Seq(WriteCall) /\ Len(writes') = n - 1 /\ \A i \in 1..(n - 1) : writes'[i] = writes[i]
  BY <1>1, StackPop
<1> HIDE DEF n
<1>4. {j \in 1..(n - 1) : writes'[j].step = "bytesWritten"} = {j \in 1..n : writes[j].step = "bytesWritten"}
  BY <1>2, <1>3
<1>5. Untold' = {Other(writes'[i].end) : i \in {j \in 1..n : writes[j].step = "bytesWritten"}}
  BY <1>3, <1>4 DEF Untold
<1>6. Untold = {Other(writes[i].end) : i \in {j \in 1..n : writes[j].step = "bytesWritten"}}
  BY DEF Untold, n
<1>7. \A i \in {j \in 1..n : writes[j].step = "bytesWritten"} : writes'[i] = writes[i]
  BY <1>2, <1>3
<1> QED
  BY <1>2, <1>3, <1>5, <1>6, <1>7 DEF n

\* What QIODevice takes from the buffer is its beginning.
LEMMA BufferIsDivided ==
  ASSUME PipeInv, NEW e \in End, NEW maxlen \in Nat
  PROVE  /\ ReadData(e, maxlen).got \in Seq(Byte) /\ ReadData(e, maxlen).left \in Seq(Byte)
         /\ ReadData(e, maxlen).got \o ReadData(e, maxlen).left = m_buffer[e]
         /\ Len(ReadData(e, maxlen).left) <= Len(m_buffer[e])
<1> DEFINE b == m_buffer[e]
           k == Smaller(maxlen, Len(b))
<1>1. b \in Seq(Byte) /\ Len(b) \in Nat
  BY LenProperties DEF PipeInv
<1>2. k \in 0..Len(b)
  BY <1>1 DEF Smaller
<1>3. ReadData(e, maxlen).got = SubSeq(b, 1, k) /\ ReadData(e, maxlen).left = SubSeq(b, k + 1, Len(b))
  BY DEF ReadData
<1> HIDE DEF k, b
<1>4. SubSeq(b, 1, k) \in Seq(Byte)
  BY <1>1, <1>2, FirstPart
<1>5. SubSeq(b, k + 1, Len(b)) \in Seq(Byte) /\ Len(SubSeq(b, k + 1, Len(b))) = Len(b) - k
  BY <1>1, <1>2, SecondPart
<1>6. SubSeq(b, 1, k) \o SubSeq(b, k + 1, Len(b)) = b
  BY <1>1, <1>2, PartsOfWhole
<1>7. Len(b) - k <= Len(b)
  BY <1>1, <1>2
<1> QED
  BY <1>3, <1>4, <1>5, <1>6, <1>7 DEF b

LEMMA ReadEffect ==
  ASSUME PipeInv, NEW e \in End, NEW len \in 1..2, Read(e, len)
  PROVE  \E got \in Seq(Byte), left \in Seq(Byte) : \E n \in 1..Len(ahead[e] \o got) :
           /\ got \o left = m_buffer[e] /\ Len(left) <= Len(m_buffer[e])
           /\ m_buffer' = [m_buffer EXCEPT ![e] = left]
           /\ taken' = [taken EXCEPT ![e] = @ \o SubSeq(ahead[e] \o got, 1, n)]
           /\ ahead' = [ahead EXCEPT ![e] = SubSeq(ahead[e] \o got, n + 1, Len(ahead[e] \o got))]
<1> DEFINE want == IF len - Len(ahead[e]) > Chunk THEN len - Len(ahead[e]) ELSE Chunk
           more == IF Len(ahead[e]) >= len THEN [got |-> <<>>, left |-> m_buffer[e]] ELSE ReadData(e, want)
           all == ahead[e] \o more.got
           n == Smaller(len, Len(all))
<1>1. ahead[e] \in Seq(Byte) /\ Len(ahead[e]) \in Nat /\ m_buffer[e] \in Seq(Byte) /\ Len(m_buffer[e]) \in Nat
  BY LenProperties DEF PipeInv
<1>2. /\ n > 0
      /\ m_buffer' = [m_buffer EXCEPT ![e] = more.left]
      /\ taken' = [taken EXCEPT ![e] = @ \o SubSeq(all, 1, n)]
      /\ ahead' = [ahead EXCEPT ![e] = SubSeq(all, n + 1, Len(all))]
  BY DEF Read
<1>3. /\ more.got \in Seq(Byte) /\ more.left \in Seq(Byte) /\ more.got \o more.left = m_buffer[e]
      /\ Len(more.left) <= Len(m_buffer[e])
  <2>1. CASE Len(ahead[e]) >= len
    <3>1. more.got = <<>> /\ more.left = m_buffer[e]
      BY <2>1
    <3> HIDE DEF more
    <3>2. <<>> \in Seq(Byte) /\ <<>> \o m_buffer[e] = m_buffer[e]
      BY <1>1, EmptySeq, ConcatEmptySeq
    <3> QED
      BY <1>1, <3>1, <3>2
  <2>2. CASE ~ (Len(ahead[e]) >= len)
    <3>1. want \in Nat
      BY <1>1, PipeBounds
    <3>2. more = ReadData(e, want)
      BY <2>2
    <3> HIDE DEF more, want
    <3> QED
      BY <3>1, <3>2, BufferIsDivided
  <2> QED
    BY <2>1, <2>2
<1> HIDE DEF more
<1>4. all \in Seq(Byte) /\ Len(all) \in Nat
  BY <1>1, <1>3, ConcatProperties, LenProperties
<1>5. n \in 1..Len(all)
  <2> DEFINE l == Len(all)
  <2>1. l \in Nat /\ len \in 1..2 /\ n = (IF len < l THEN len ELSE l) /\ n > 0
    BY <1>2, <1>4 DEF Smaller
  <2> HIDE DEF l, n
  <2>2. n \in 1..l
    BY <2>1
  <2> QED
    BY <2>2 DEF l
<1> HIDE DEF n
<1> QED
  BY <1>2, <1>3, <1>5

-----------------------------------------------------------------------------
(* The steps of a FIFO *)

\* A read takes from the beginning of what is on its way.
LEMMA ReadTakes ==
  ASSUME PipeInv, NEW e \in End, NEW len \in 1..2, Read(e, len)
  PROVE  PipeInv' /\ Queue!Take(e)
<1>a. PICK got \in Seq(Byte), left \in Seq(Byte) : \E n \in 1..Len(ahead[e] \o got) :
        /\ got \o left = m_buffer[e] /\ Len(left) <= Len(m_buffer[e])
        /\ m_buffer' = [m_buffer EXCEPT ![e] = left]
        /\ taken' = [taken EXCEPT ![e] = @ \o SubSeq(ahead[e] \o got, 1, n)]
        /\ ahead' = [ahead EXCEPT ![e] = SubSeq(ahead[e] \o got, n + 1, Len(ahead[e] \o got))]
  BY ReadEffect
<1>1. PICK n \in 1..Len(ahead[e] \o got) :
        /\ got \o left = m_buffer[e] /\ Len(left) <= Len(m_buffer[e])
        /\ m_buffer' = [m_buffer EXCEPT ![e] = left]
        /\ taken' = [taken EXCEPT ![e] = @ \o SubSeq(ahead[e] \o got, 1, n)]
        /\ ahead' = [ahead EXCEPT ![e] = SubSeq(ahead[e] \o got, n + 1, Len(ahead[e] \o got))]
  BY <1>a
<1>2. UNCHANGED <<opened, mode, exists, writes>>
  BY DEF Read
<1>3. /\ m_buffer \in [End -> Seq(Byte)] /\ ahead \in [End -> Seq(Byte)] /\ taken \in [End -> Seq(Byte)]
      /\ ahead[e] \in Seq(Byte) /\ m_buffer[e] \in Seq(Byte) /\ taken[e] \in Seq(Byte)
  BY DEF PipeInv
<1> DEFINE all == ahead[e] \o got
           first == SubSeq(all, 1, n)
           rest == SubSeq(all, n + 1, Len(all))
<1>4. all \in Seq(Byte) /\ Len(all) \in Nat /\ n \in 0..Len(all)
  BY <1>3, ConcatProperties, LenProperties
<1>5. m_buffer' = [m_buffer EXCEPT ![e] = left] /\ taken' = [taken EXCEPT ![e] = taken[e] \o first]
      /\ ahead' = [ahead EXCEPT ![e] = rest]
  BY <1>1
<1>6. Way[e] = all \o left
  <2>1. (ahead[e] \o got) \o left = ahead[e] \o (got \o left)
    BY <1>3, ConcatAssociative
  <2> QED
    BY <1>1, <2>1 DEF Way
<1> HIDE DEF all
<1>7. /\ n \in 0..Len(Way[e])
      /\ SubSeq(Way[e], 1, n) = first
      /\ SubSeq(Way[e], n + 1, Len(Way[e])) = rest \o left
  <2>1. PICK w : w = Way[e]
    OBVIOUS
  <2>2. PICK t \in Seq(Byte) : t = left
    BY <1>3
  <2>3. PICK s \in Seq(Byte) : s = all
    BY <1>4
  <2>4. n \in 0..Len(s) /\ w = s \o t
    BY <1>4, <1>6, <2>1, <2>2, <2>3
  <2>5. /\ n \in 0..Len(s \o t)
        /\ SubSeq(s \o t, 1, n) = SubSeq(s, 1, n)
        /\ SubSeq(s \o t, n + 1, Len(s \o t)) = SubSeq(s, n + 1, Len(s)) \o t
    BY <2>4, PartsOfConcat
  <2> QED
    BY <2>1, <2>2, <2>3, <2>4, <2>5
<1>8. first \in Seq(Byte) /\ rest \in Seq(Byte) /\ taken[e] \o first \in Seq(Byte)
  BY <1>3, <1>4, FirstPart, SecondPart, ConcatProperties
<1> HIDE DEF first, rest
<1>9. Len(left) \in Nat /\ Len(m_buffer[e]) \in Nat /\ MaxBuffer \in Nat
  BY <1>3, LenProperties, PipeBounds
<1>10. \A f \in End : Len(m_buffer'[f]) <= MaxBuffer
  <2>1. Len(m_buffer[e]) <= MaxBuffer /\ \A f \in End : Len(m_buffer[f]) <= MaxBuffer
    BY DEF PipeInv
  <2>2. Len(left) <= MaxBuffer
    BY <1>1, <1>9, <2>1
  <2> QED
    BY <1>3, <1>5, <2>1, <2>2
<1>11. PipeInv'
  BY <1>2, <1>3, <1>5, <1>8, <1>10 DEF PipeInv
<1>12. Way' = [Way EXCEPT ![e] = SubSeq(Way[e], n + 1, Len(Way[e]))]
  <2>1. Way' = [f \in End |-> ahead'[f] \o m_buffer'[f]]
    BY DEF Way
  <2>2. \A f \in End : f # e => ahead'[f] = ahead[f] /\ m_buffer'[f] = m_buffer[f]
    BY <1>5
  <2>3. ahead'[e] = rest /\ m_buffer'[e] = left
    BY <1>3, <1>5
  <2> QED
    BY <1>7, <2>1, <2>2, <2>3 DEF Way
<1>13. taken' = [taken EXCEPT ![e] = taken[e] \o SubSeq(Way[e], 1, n)]
  BY <1>5, <1>7
<1>14. n \in 1..Len(Way[e])
  BY <1>4, <1>7
<1>15. UNCHANGED <<Untold, opened>>
  BY <1>2 DEF Untold
<1>16. Queue!Take(e)
  BY <1>12, <1>13, <1>14, <1>15 DEF Queue!Take, Way, Untold
<1> QED
  BY <1>11, <1>16

LEMMA WritePuts ==
  ASSUME PipeInv, NEW e \in End, NEW len \in 1..2, Write(e, len)
  PROVE  PipeInv' /\ Queue!Put(Other(e))
<1> DEFINE o == Other(e)
<1>a. PICK n \in 1..2 : \E s \in [1..n -> Byte] :
        /\ s \in Seq(Byte) /\ Len(m_buffer[o]) + Len(s) <= MaxBuffer
        /\ m_buffer' = [m_buffer EXCEPT ![o] = @ \o s]
  BY WriteEffect
<1>1. PICK s \in [1..n -> Byte] :
        /\ s \in Seq(Byte) /\ Len(m_buffer[o]) + Len(s) <= MaxBuffer
        /\ m_buffer' = [m_buffer EXCEPT ![o] = @ \o s]
  BY <1>a
<1>2. /\ writes' = Append(writes, [end |-> e, step |-> "bytesWritten"]) /\ Len(writes) < MaxWrites
      /\ UNCHANGED <<opened, mode, exists, ahead, taken>>
  BY DEF Write
<1>3. writes' \in Seq(WriteCall) /\ Len(writes') = Len(writes) + 1 /\ Untold' = Untold \cup {o}
  BY <1>2, WritesBegun
<1>4. o \in End /\ m_buffer \in [End -> Seq(Byte)] /\ m_buffer[o] \in Seq(Byte) /\ ahead[o] \in Seq(Byte)
  BY OtherEnd DEF PipeInv
<1> HIDE DEF o
<1>5. m_buffer[o] \o s \in Seq(Byte) /\ Len(m_buffer[o] \o s) = Len(m_buffer[o]) + Len(s)
  BY <1>1, <1>4, ConcatProperties
<1>6. \A f \in End : Len(m_buffer'[f]) <= MaxBuffer
  BY <1>1, <1>4, <1>5 DEF PipeInv
<1>7. Len(writes') <= MaxWrites
  <2>1. Len(writes) \in Nat
    BY LenProperties DEF PipeInv
  <2> DEFINE l == Len(writes)
  <2>2. l \in Nat /\ l < MaxWrites /\ Len(writes') = l + 1
    BY <1>2, <1>3, <2>1
  <2> HIDE DEF l
  <2> QED
    BY <2>2, PipeBounds
<1>8. PipeInv'
  BY <1>1, <1>2, <1>3, <1>4, <1>5, <1>6, <1>7 DEF PipeInv
<1>9. Way' = [Way EXCEPT ![o] = Way[o] \o s]
  <2>1. Way' = [f \in End |-> ahead[f] \o m_buffer'[f]]
    BY <1>2 DEF Way
  <2>2. \A f \in End : f # o => m_buffer'[f] = m_buffer[f]
    BY <1>1
  <2>3. m_buffer'[o] = m_buffer[o] \o s
    BY <1>1, <1>4
  <2>4. ahead[o] \o (m_buffer[o] \o s) = Way[o] \o s
    <3>2. \A x, y, z \in Seq(Byte) : (x \o y) \o z = x \o (y \o z)
      BY ConcatAssociative
    <3>3. s \in Seq(Byte)
      BY <1>1
    <3>1. (ahead[o] \o m_buffer[o]) \o s = ahead[o] \o (m_buffer[o] \o s)
      BY <1>4, <3>2, <3>3, Zenon
    <3> QED
      BY <1>4, <3>1 DEF Way
  <2> QED
    BY <2>1, <2>2, <2>3, <2>4 DEF Way
<1>11. \E k \in 1..2 : \E r \in [1..k -> Byte] : Way' = [Way EXCEPT ![o] = Way[o] \o r]
  BY <1>9
<1>12. Queue!Put(o)
  BY <1>2, <1>3, <1>11 DEF Queue!Put, Way, Untold, Byte
<1> QED
  BY <1>8, <1>12 DEF o

\* Opening loses what was read ahead.
LEMMA OpenLoses ==
  ASSUME PipeInv, NEW m \in Mode, Open(m)
  PROVE  PipeInv' /\ Queue!Open
<1>1. /\ opened' = opened + 1 /\ opened < MaxOpens /\ mode' = <<m, Opposite(m)>>
      /\ ahead' = [e \in End |-> <<>>]
      /\ UNCHANGED <<exists, m_buffer, taken, writes>>
  BY DEF Open
<1>2. mode' \in [End -> Mode \cup {"closed"}]
  <2>1. Opposite(m) \in Mode
    BY DEF Opposite, Mode
  <2> QED
    BY <1>1, <2>1 DEF End
<1>3. <<>> \in Seq(Byte)
  BY EmptySeq
<1>4. PipeInv'
  <2>1. opened' \in Nat /\ opened' <= MaxOpens
    BY <1>1, PipeBounds DEF PipeInv
  <2>2. ahead' \in [End -> Seq(Byte)]
    BY <1>1, <1>3
  <2> QED
    BY <1>1, <1>2, <2>1, <2>2 DEF PipeInv
<1>5. DOMAIN Way' = End
  BY DEF Way
<1>6. ASSUME NEW e \in End
      PROVE  \E n \in 0..Len(Way[e]) : Way'[e] = SubSeq(Way[e], n + 1, Len(Way[e]))
  <2>1. ahead[e] \in Seq(Byte) /\ m_buffer[e] \in Seq(Byte)
    BY DEF PipeInv
  <2> DEFINE n == Len(ahead[e])
  <2>2. n \in Nat /\ n \in 0..Len(ahead[e]) /\ n = Len(ahead[e])
    BY <2>1, LenProperties
  <2> HIDE DEF n
  <2>3. /\ n \in 0..Len(ahead[e] \o m_buffer[e])
        /\ SubSeq(ahead[e] \o m_buffer[e], n + 1, Len(ahead[e] \o m_buffer[e]))
             = SubSeq(ahead[e], n + 1, Len(ahead[e])) \o m_buffer[e]
    BY <2>1, <2>2, PartsOfConcat
  <2>4. SubSeq(ahead[e], n + 1, Len(ahead[e])) = <<>>
    <3> DEFINE r == SubSeq(ahead[e], n + 1, Len(ahead[e]))
    <3>1. r \in Seq(Byte) /\ Len(r) = Len(ahead[e]) - n
      BY <2>1, <2>2, SecondPart
    <3> HIDE DEF r
    <3>2. Len(r) = 0
      BY <2>2, <3>1
    <3>3. r = <<>>
      BY <3>1, <3>2, EmptySeq
    <3> QED
      BY <3>3 DEF r
  <2>5. <<>> \o m_buffer[e] = m_buffer[e]
    BY <2>1, ConcatEmptySeq
  <2>6. Way'[e] = <<>> \o m_buffer[e] /\ Way[e] = ahead[e] \o m_buffer[e]
    BY <1>1 DEF Way
  <2> QED
    BY <2>3, <2>4, <2>5, <2>6
<1>7. UNCHANGED <<taken, Untold>>
  BY <1>1 DEF Untold
<1>8. Queue!Open
  BY <1>1, <1>5, <1>6, <1>7 DEF Queue!Open, Way, Untold
<1> QED
  BY <1>4, <1>8

PipeMapped == <<Way, taken, Untold, opened>>

\* The reader is told when the last write for it that had not told yet does.
LEMMA ReadyReadTells ==
  ASSUME PipeInv, ReadyRead
  PROVE  PipeInv' /\ ((\E e \in End : Queue!Tell(e)) \/ UNCHANGED PipeMapped)
<1>1. UNCHANGED <<opened, mode, exists, m_buffer, ahead, taken>>
  BY DEF ReadyRead
<1>2. /\ writes' \in Seq(WriteCall) /\ Len(writes') = Len(writes)
      /\ Untold' = Untold \/ \E e \in Untold : e \in End /\ Untold' = Untold \ {e}
  BY WritesTold
<1>3. PipeInv'
  BY <1>1, <1>2 DEF PipeInv
<1>4. UNCHANGED <<Way, taken, opened>>
  BY <1>1 DEF Way
<1>5. CASE Untold' = Untold
  BY <1>3, <1>4, <1>5 DEF PipeMapped
<1>6. CASE \E e \in Untold : e \in End /\ Untold' = Untold \ {e}
  <2>1. PICK e \in Untold : e \in End /\ Untold' = Untold \ {e}
    BY <1>6
  <2>2. Queue!Tell(e)
    BY <1>4, <2>1 DEF Queue!Tell, Way, Untold
  <2> QED
    BY <1>3, <2>1, <2>2
<1> QED
  BY <1>2, <1>5, <1>6

LEMMA ReturnsAreUnseen ==
  ASSUME PipeInv, WriteReturns
  PROVE  PipeInv' /\ UNCHANGED PipeMapped
<1>1. UNCHANGED <<opened, mode, exists, m_buffer, ahead, taken>>
  BY DEF WriteReturns
<1>2. writes' \in Seq(WriteCall) /\ Len(writes') <= Len(writes) /\ Untold' = Untold
  BY WritesReturned
<1>3. Len(writes') <= MaxWrites
  <2>1. Len(writes) \in Nat /\ Len(writes') \in Nat /\ Len(writes) <= MaxWrites
    BY <1>2, LenProperties DEF PipeInv
  <2> QED
    BY <1>2, <2>1, PipeBounds
<1> QED
  BY <1>1, <1>2, <1>3 DEF PipeInv, PipeMapped, Way

\* Every step of the pipe is one of the FIFO, or none.
LEMMA PipeStep ==
  ASSUME PipeInv, [PipeNext]_pipeVars
  PROVE  PipeInv' /\ (Queue!FifoNext \/ UNCHANGED PipeMapped)
<1> DEFINE Goal == PipeInv' /\ (Queue!FifoNext \/ UNCHANGED PipeMapped)
<1>1. ASSUME NEW m \in Mode, Open(m) PROVE Goal
  BY <1>1, OpenLoses DEF Queue!FifoNext
<1>2. ASSUME NEW e \in End, NEW len \in 1..2, Write(e, len) PROVE Goal
  BY <1>2, WritePuts, OtherEnd DEF Queue!FifoNext
<1>3. ASSUME NEW e \in End, NEW len \in 1..2, Read(e, len) PROVE Goal
  BY <1>3, ReadTakes DEF Queue!FifoNext
<1>4. ASSUME ReadyRead PROVE Goal
  BY <1>4, ReadyReadTells DEF Queue!FifoNext
<1>5. ASSUME WriteReturns PROVE Goal
  BY <1>5, ReturnsAreUnseen
<1>6. ASSUME NEW e \in End, DestroyEnd(e) PROVE Goal
  BY <1>6 DEF DestroyEnd, PipeInv, PipeMapped, Way, Untold
<1>7. ASSUME UNCHANGED pipeVars PROVE Goal
  BY <1>7 DEF pipeVars, PipeInv, PipeMapped, Way, Untold
<1> HIDE DEF Goal
<1>8. Goal
  BY <1>1, <1>2, <1>3, <1>4, <1>5, <1>6, <1>7 DEF PipeNext
<1> QED
  BY <1>8 DEF Goal

LEMMA PipeInvariant == PipeSpec => []PipeInv
<1>1. PipeInv /\ [PipeNext]_pipeVars => PipeInv'
  BY PipeStep
<1> QED
  BY PipeInvInit, <1>1, PTL DEF PipeSpec

\* For every buffer size, chunk and number of opens: the types of what the pipe keeps, and no
\* buffer above its bound.
THEOREM PipeTypeCorrect == PipeSpec => []PipeTypeOK
<1>1. PipeInv => PipeTypeOK
  BY PipeBounds DEF PipeInv, PipeTypeOK
<1> QED
  BY <1>1, PipeInvariant, PTL

\* For every buffer size, chunk and number of opens: what each end has read is what the other
\* end has written, in order, without loss or repetition. (The safety part of PipeIsFifo.)
THEOREM PipeImplementsFifo == PipeSpec => Queue!FifoInit /\ [][Queue!FifoNext]_(Queue!fifoVars)
<1>1. PipeInit => Queue!FifoInit
  <2> SUFFICES ASSUME PipeInit PROVE Queue!FifoInit
    OBVIOUS
  <2>1. <<>> \o <<>> = <<>>
    BY EmptySeq, ConcatEmptySeq
  <2>2. \A e \in End : ahead[e] \o m_buffer[e] = <<>>
    BY <2>1 DEF PipeInit
  <2>3. Len(writes) = 0
    BY EmptySeq DEF PipeInit
  <2>4. 1..Len(writes) = {}
    BY <2>3
  <2> QED
    BY <2>2, <2>4 DEF PipeInit, Queue!FifoInit
<1>2. PipeInv /\ [PipeNext]_pipeVars => [Queue!FifoNext]_(Queue!fifoVars)
  <2> SUFFICES ASSUME PipeInv, [PipeNext]_pipeVars PROVE [Queue!FifoNext]_(Queue!fifoVars)
    OBVIOUS
  <2>1. Queue!FifoNext \/ UNCHANGED PipeMapped
    BY PipeStep
  <2>2. UNCHANGED PipeMapped => UNCHANGED Queue!fifoVars
    BY DEF PipeMapped, Way, Untold, Queue!fifoVars
  <2> QED
    BY <2>1, <2>2
<1> QED
  BY <1>1, <1>2, PipeInvariant, PTL DEF PipeSpec

-----------------------------------------------------------------------------
(* RemoteCalls *)

OneValue(p) == [1..rep.props[p].size -> Items]
AllValues == {f \in [Props -> Seq(Items)] : \A p \in Props : f[p] \in OneValue(p)}

\* Packets to the source: of what they mean, they have the index.
Writes == {k \in [kind : {"write"}, index : Int, value : Seq(Items), meant : Nat, call : Nat] :
             k.meant \in Props /\ PropertyAt(k.index) = k.meant /\ k.value \in OneValue(k.meant)}
Invokes == {k \in [kind : {"invoke"}, index : Int, value : Seq(Given), meant : Nat, call : Nat] :
              /\ k.meant \in Methods /\ MethodAt(k.index) = k.meant
              /\ rep.methods[k.meant].of # 0 => k.value \in GivenTo(rep.methods[k.meant].of)}
Asks == Writes \cup Invokes

\* Packets to the replica
Inits == [kind : {"init"}, values : AllValues]
ChangePackets == {k \in [kind : {"change"}, prop : Nat, value : Seq(Items)] :
              k.prop \in Props /\ k.value \in OneValue(k.prop)}
Replies == [kind : {"reply"}, call : Nat]
Tells == Inits \cup ChangePackets \cup Replies

Touches(k, p) == k.kind = "init" \/ (k.kind = "change" /\ k.prop = p)
Shown(k, p) == IF k.kind = "init" THEN k.values[p] ELSE k.value

\* A replica that has the values f has v for p, once all packets of s have come.
ArrivesAs(s, f, p, v) ==
  \/ (\A i \in 1..Len(s) : ~Touches(s[i], p)) /\ v = f[p]
  \/ \E i \in 1..Len(s) :
       Touches(s[i], p) /\ Shown(s[i], p) = v /\ \A j \in 1..Len(s) : j > i => ~Touches(s[j], p)

Notified == {p \in Props : rep.props[p].notifies}

\* What a replica shows, for every property it is told of.
Follows(s, f, values) == \A p \in Notified : ArrivesAs(s, f, p, values[p])

RemoteInv ==
  /\ rep \in Reps
  /\ requests \in 0..MaxRequests /\ connections \in 0..MaxConnections
  /\ connected \in BOOLEAN /\ acquired \in BOOLEAN
  /\ source \in AllValues /\ replica \in AllValues
  /\ awaited \subseteq 1..MaxRequests
  /\ toSource \in Seq(Asks) /\ toReplica \in Seq(Tells)
  /\ strayed = {}
  /\ connected => acquired
  /\ ~connected => toSource = <<>> /\ toReplica = <<>>
  /\ connected => Follows(toReplica, replica, source)

-----------------------------------------------------------------------------
LEMMA RepIs ==
  ASSUME rep \in Reps
  PROVE  /\ rep.props \in Seq(RepProperty)
         /\ rep.methods \in Seq(RepMethod(Len(rep.props)))
         /\ \A m \in ToSet(rep.methods) : Pushes(rep, m)
BY RemoteCallAssumption

LEMMA PropIs ==
  ASSUME rep \in Reps
  PROVE  /\ Len(rep.props) \in Nat /\ Props = 1..Len(rep.props)
         /\ \A p \in Props : rep.props[p].size \in Nat /\ rep.props[p].size # 0
<1>1. Len(rep.props) \in Nat
  BY RepIs, LenProperties
<1>2. \A p \in Props : rep.props[p] \in RepProperty
  BY RepIs, ElementOfSeq DEF Props
<1>3. \A p \in Props : rep.props[p].size \in Nat \ {0}
  BY <1>2 DEF RepProperty
<1> QED
  BY <1>1, <1>3 DEF Props

LEMMA MethodIs ==
  ASSUME rep \in Reps, NEW m \in Methods
  PROVE  /\ m \in Nat
         /\ rep.methods[m].of \in 0..Len(rep.props) /\ rep.methods[m].count \in Nat
         /\ rep.methods[m].push \in BOOLEAN
         /\ rep.methods[m].of # 0 => rep.methods[m].push /\ rep.methods[m].count = 1 /\ rep.methods[m].of \in Props
         /\ rep.methods[m].push =>
              \A p \in Props :
                 (rep.props[p].name \in {rep.methods[m].name, <<"lower", rep.methods[m].name[2]>>}) <=> (p = rep.methods[m].of)
<1>1. Len(rep.props) \in Nat /\ Len(rep.methods) \in Nat
  BY RepIs, LenProperties
<1>2. rep.methods[m] \in RepMethod(Len(rep.props))
  BY RepIs, ElementOfSeq DEF Methods
<1>3. rep.methods[m] \in ToSet(rep.methods)
  BY RepIs, <1>1, LenProperties DEF ToSet, Methods
<1>4. Pushes(rep, rep.methods[m])
  BY RepIs, <1>3
<1>5. m \in Nat
  BY <1>1 DEF Methods
<1>6. /\ rep.methods[m].of \in 0..Len(rep.props) /\ rep.methods[m].count \in Nat
      /\ rep.methods[m].push \in BOOLEAN
  BY <1>2 DEF RepMethod
<1> QED
  BY <1>1, <1>4, <1>5, <1>6 DEF Pushes, Props

LEMMA SignalsCounted == ASSUME rep \in Reps PROVE Signals \in Nat
<1>1. Props = 1..Len(rep.props) /\ Len(rep.props) \in Nat
  BY PropIs
<1> DEFINE S == {p \in Props : rep.props[p].notifies}
<1>2. IsFiniteSet(Props)
  BY <1>1, FS_Interval
<1>3. S \subseteq Props
  OBVIOUS
<1>4. IsFiniteSet(S)
  BY <1>2, <1>3, FS_Subset
<1>5. Cardinality(S) \in Nat
  BY <1>4, FS_CardinalityType
<1> QED
  BY <1>5 DEF Signals

LEMMA SameRep ==
  ASSUME rep' = rep
  PROVE  /\ Props' = Props /\ Methods' = Methods /\ Signals' = Signals
         /\ AllValues' = AllValues /\ Asks' = Asks /\ Tells' = Tells /\ Notified' = Notified
<1>1. Props' = Props /\ Methods' = Methods
  BY DEF Props, Methods
<1>2. Signals' = Signals
  BY <1>1 DEF Signals
<1>3. \A p : OneValue(p)' = OneValue(p)
  BY DEF OneValue
<1>4. AllValues' = AllValues
  BY <1>1, <1>3 DEF AllValues
<1>5. Writes' = Writes
  BY <1>1, <1>3 DEF Writes, PropertyAt
<1>6. \A i : MethodAt(i)' = MethodAt(i) /\ GivenTo(i)' = GivenTo(i)
  BY <1>2 DEF MethodAt, GivenTo
<1>7. Invokes' = Invokes
  BY <1>1, <1>6 DEF Invokes
<1>8. ChangePackets' = ChangePackets /\ Inits' = Inits
  BY <1>1, <1>3, <1>4 DEF ChangePackets, Inits
<1> QED
  BY <1>1, <1>2, <1>4, <1>5, <1>7, <1>8 DEF Asks, Tells, Notified, Replies

LEMMA ConvertedIs ==
  ASSUME rep \in Reps, NEW p \in Props, NEW given \in GivenTo(p)
  PROVE  Converted(given, p) # Error => Converted(given, p) \in OneValue(p)
<1>1. rep.props[p].size \in Nat
  BY PropIs
<1>2. PICK n \in Nat : given \in [1..n -> Given]
  BY <1>1 DEF GivenTo
<1>3. given \in Seq(Given) /\ Len(given) = n
  <2>1. given \in Seq(Given)
    BY <1>2, SeqDef
  <2>2. DOMAIN given = 1..n /\ DOMAIN given = 1..Len(given) /\ Len(given) \in Nat
    BY <1>2, <2>1, LenProperties
  <2> QED
    BY <1>2, <2>1, <2>2
<1>4. \A i \in 1..n : given[i][2] \in Items
  <2>1. (CHOOSE v \in Items : TRUE) \in Items
    BY RemoteCallAssumption
  <2>2. \A g \in Given : g[2] \in Items
    BY <2>1 DEF Given
  <2> QED
    BY <1>2, <2>2
<1> QED
  BY <1>3, <1>4 DEF Converted, OneValue

LEMMA GivenIsSequence ==
  ASSUME rep \in Reps, NEW p \in Props
  PROVE  GivenTo(p) \subseteq Seq(Given)
<1>1. rep.props[p].size \in Nat
  BY PropIs
<1> QED
  BY <1>1, SeqDef DEF GivenTo

LEMMA OneValueIsSequence ==
  ASSUME rep \in Reps, NEW p \in Props
  PROVE  OneValue(p) \subseteq Seq(Items)
<1>1. rep.props[p].size \in Nat
  BY PropIs
<1> QED
  BY <1>1, SeqDef DEF OneValue

LEMMA DefaultIs == ASSUME rep \in Reps PROVE Default \in AllValues
<1>1. (CHOOSE v \in Items : TRUE) \in Items
  BY RemoteCallAssumption
<1>2. \A p \in Props : Default[p] \in OneValue(p)
  BY <1>1 DEF Default, OneValue
<1>3. \A p \in Props : Default[p] \in Seq(Items)
  BY <1>2, OneValueIsSequence
<1>4. Default = [p \in Props |-> Default[p]]
  BY DEF Default
<1> QED
  BY <1>2, <1>3, <1>4 DEF AllValues

-----------------------------------------------------------------------------
(* The first property of a name *)

LEMMA NamedIs ==
  ASSUME rep \in Reps, NEW name
  PROVE  /\ (\A p \in Props : rep.props[p].name # name) => Named(name) = 0
         /\ \A o \in Props : (\A p \in Props : (rep.props[p].name = name) <=> (p = o)) => Named(name) = o
<1> DEFINE I == {i \in 1..Len(rep.props) : rep.props[i].name = name}
<1>1. Named(name) = IF I # {} THEN Min(I) ELSE 0
  BY DEF Named, SelectInSeq
<1>2. (\A p \in Props : rep.props[p].name # name) => I = {}
  BY DEF Props
<1>3. ASSUME NEW o \in Props, \A p \in Props : (rep.props[p].name = name) <=> (p = o)
      PROVE  I = {o} /\ Min({o}) = o
  <2>1. I = {o}
    BY <1>3 DEF Props
  <2>2. o \in Nat
    BY PropIs
  <2>3. Min({o}) = o
    BY <2>2 DEF Min
  <2> QED
    BY <2>1, <2>3
<1> HIDE DEF I
<1>4. ASSUME NEW o \in Props, \A p \in Props : (rep.props[p].name = name) <=> (p = o)
      PROVE  Named(name) = o
  BY <1>1, <1>3, <1>4
<1> QED
  BY <1>1, <1>2, <1>4

LEMMA PushedIs ==
  ASSUME rep \in Reps, NEW m \in Methods
  PROVE  PushedBy(m) = rep.methods[m].of
<1> DEFINE name == rep.methods[m].name
           lower == Lowered(name)
           o == rep.methods[m].of
<1>1. PushedBy(m) = IF rep.methods[m].push THEN IF Named(name) # 0 THEN Named(name) ELSE Named(lower) ELSE 0
  BY DEF PushedBy
<1>2. CASE ~rep.methods[m].push
  <2>1. o = 0
    BY <1>2, MethodIs
  <2> QED
    BY <1>1, <1>2, <2>1
<1>3. CASE rep.methods[m].push
  <2>1. /\ \A p \in Props : (rep.props[p].name = name \/ rep.props[p].name = lower) <=> (p = o)
        /\ o # 0 => o \in Props
    BY <1>3, MethodIs DEF Lowered
  <2>0. \A p \in Props : p # 0
    BY PropIs
  <2> HIDE DEF name, lower, o
  <2>2. CASE o = 0
    <3>1. \A p \in Props : rep.props[p].name # name /\ rep.props[p].name # lower
      BY <2>0, <2>1, <2>2
    <3>2. Named(name) = 0 /\ Named(lower) = 0
      BY <3>1, NamedIs
    <3> QED
      BY <1>1, <3>2, <2>2 DEF o
  <2>3. CASE o # 0 /\ rep.props[o].name = name
    <3>1. o \in Props /\ \A p \in Props : (rep.props[p].name = name) <=> (p = o)
      BY <2>1, <2>3
    <3>2. Named(name) = o
      BY <3>1, NamedIs
    <3> QED
      BY <1>1, <1>3, <2>3, <3>2 DEF o
  <2>4. CASE o # 0 /\ rep.props[o].name # name
    <3>1. o \in Props /\ rep.props[o].name = lower /\ \A p \in Props : rep.props[p].name # name
      BY <2>1, <2>4
    <3>2. \A p \in Props : (rep.props[p].name = lower) <=> (p = o)
      BY <2>1, <3>1
    <3>3. Named(name) = 0 /\ Named(lower) = o
      BY <3>1, <3>2, NamedIs
    <3> QED
      BY <1>1, <1>3, <3>3 DEF o
  <2> QED
    BY <2>2, <2>3, <2>4
<1> QED
  BY <1>2, <1>3

-----------------------------------------------------------------------------
(* What a replica will have *)

LEMMA ArrivingIs ==
  ASSUME toReplica \in Seq(Tells), NEW p, NEW v, ArrivesAs(toReplica, replica, p, v)
  PROVE  Arriving(p) = v
<1> DEFINE s == toReplica
           I == {i \in 1..Len(s) : Touches(s[i], p)}
<1>1. Arriving(p) = IF I = {} THEN replica[p] ELSE Shown(s[Max(I)], p)
  <2> DEFINE k == SelectLastInSeq(toReplica, LAMBDA q : q.kind = "init" \/ (q.kind = "change" /\ q.prop = p))
  <2>1. k = IF I # {} THEN Max(I) ELSE 0
    BY DEF SelectLastInSeq, Touches
  <2>2. Arriving(p) = IF k = 0 THEN replica[p] ELSE Shown(toReplica[k], p)
    BY DEF Arriving, Shown
  <2>3. I # {} => Max(I) # 0
    <3> SUFFICES ASSUME I # {} PROVE Max(I) # 0
      OBVIOUS
    <3>1. Len(s) \in Nat /\ I \in SUBSET (1..Len(s))
      BY LenProperties
    <3>2. \E x \in I : \A y \in I : y <= x
      BY <3>1, GreatestNumber
    <3>3. \E x \in I : \A y \in I : x >= y
      BY <3>1, <3>2
    <3>4. Max(I) \in I
      BY <3>3 DEF Max
    <3> QED
      BY <3>1, <3>4
  <2> QED
    BY <2>1, <2>2, <2>3
<1>2. CASE \A i \in 1..Len(s) : ~Touches(s[i], p)
  BY <1>1, <1>2 DEF ArrivesAs
<1>3. CASE ~\A i \in 1..Len(s) : ~Touches(s[i], p)
  <2>1. PICK i \in 1..Len(s) :
          Touches(s[i], p) /\ Shown(s[i], p) = v /\ \A j \in 1..Len(s) : j > i => ~Touches(s[j], p)
    BY <1>3 DEF ArrivesAs
  <2>2. i \in I /\ \A y \in I : i >= y
    BY <2>1
  <2>3. Max(I) \in I /\ \A y \in I : Max(I) >= y
    BY <2>2 DEF Max
  <2>4. Max(I) = i
    BY <2>2, <2>3
  <2> QED
    BY <1>1, <2>1, <2>2, <2>4
<1> QED
  BY <1>2, <1>3

\* A packet more
LEMMA ArrivesAfter ==
  ASSUME NEW S, NEW s \in Seq(S), NEW k \in S, NEW f, NEW p, NEW v, ArrivesAs(s, f, p, v)
  PROVE  /\ ~Touches(k, p) => ArrivesAs(s \o <<k>>, f, p, v)
         /\ Touches(k, p) => ArrivesAs(s \o <<k>>, f, p, Shown(k, p))
<1> DEFINE r == s \o <<k>>
           l == Len(s)
<1>1. l \in Nat /\ Len(r) = l + 1 /\ r[l + 1] = k /\ \A i \in 1..l : r[i] = s[i]
  <2>1. r = Append(s, k)
    BY AppendIsConcat
  <2> QED
    BY <2>1, StackPush, LenProperties
<1> HIDE DEF r
<1>2. \A i \in 1..Len(r) : i \in 1..l \/ i = l + 1
  BY <1>1
<1>3. l + 1 \in 1..Len(r) /\ 1..l \subseteq 1..Len(r)
  BY <1>1
<1>4. ASSUME Touches(k, p) PROVE ArrivesAs(r, f, p, Shown(k, p))
  <2>1. Touches(r[l + 1], p) /\ Shown(r[l + 1], p) = Shown(k, p) /\ \A j \in 1..Len(r) : ~(j > l + 1)
    BY <1>1, <1>4
  <2> QED
    BY <1>3, <2>1 DEF ArrivesAs
<1>5. ASSUME ~Touches(k, p) PROVE ArrivesAs(r, f, p, v)
  <2>1. CASE (\A i \in 1..Len(s) : ~Touches(s[i], p)) /\ v = f[p]
    <3>1. \A i \in 1..Len(r) : ~Touches(r[i], p)
      BY <1>1, <1>2, <1>5, <2>1
    <3> QED
      BY <2>1, <3>1 DEF ArrivesAs
  <2>2. CASE \E i \in 1..Len(s) :
               Touches(s[i], p) /\ Shown(s[i], p) = v /\ \A j \in 1..Len(s) : j > i => ~Touches(s[j], p)
    <3>1. PICK i \in 1..l : Touches(s[i], p) /\ Shown(s[i], p) = v /\ \A j \in 1..l : j > i => ~Touches(s[j], p)
      BY <2>2
    <3>2. Touches(r[i], p) /\ Shown(r[i], p) = v
      BY <1>1, <3>1
    <3>3. \A j \in 1..Len(r) : j > i => ~Touches(r[j], p)
      BY <1>1, <1>2, <1>5, <3>1
    <3>4. i \in 1..Len(r)
      BY <1>3
    <3> QED
      BY <3>2, <3>3, <3>4 DEF ArrivesAs
  <2> QED
    BY <2>1, <2>2 DEF ArrivesAs
<1> QED
  BY <1>4, <1>5 DEF r

\* The first packet has come.
LEMMA ArrivesStill ==
  ASSUME NEW S, NEW s \in Seq(S), s # <<>>, NEW f, NEW g, NEW p, NEW v, ArrivesAs(s, f, p, v),
         g[p] = IF Touches(Head(s), p) THEN Shown(Head(s), p) ELSE f[p]
  PROVE  ArrivesAs(Tail(s), g, p, v)
<1> DEFINE r == Tail(s)
           l == Len(s)
<1>1. l \in Nat /\ l >= 1 /\ Len(r) = l - 1 /\ \A i \in 1..(l - 1) : r[i] = s[i + 1]
  BY HeadTailProperties, EmptySeq, LenProperties
<1>2. Head(s) = s[1]
  OBVIOUS
<1> HIDE DEF r
<1>3. ASSUME \A i \in 1..l : ~Touches(s[i], p), v = f[p]
      PROVE  ArrivesAs(r, g, p, v)
  <2>1. 1 \in 1..l /\ \A i \in 1..Len(r) : i + 1 \in 1..l
    BY <1>1
  <2>2. g[p] = v
    BY <1>2, <1>3, <2>1
  <2>3. \A i \in 1..Len(r) : ~Touches(r[i], p)
    BY <1>1, <1>3, <2>1
  <2> QED
    BY <2>2, <2>3 DEF ArrivesAs
<1>4. ASSUME NEW i \in 1..l, Touches(s[i], p), Shown(s[i], p) = v, \A j \in 1..l : j > i => ~Touches(s[j], p)
      PROVE  ArrivesAs(r, g, p, v)
  <2>1. \A j \in 1..Len(r) : j + 1 \in 1..l /\ r[j] = s[j + 1]
    BY <1>1
  <2>2. CASE i = 1
    <3>1. g[p] = v
      BY <1>2, <1>4, <2>2
    <3>2. \A j \in 1..Len(r) : j + 1 > i
      BY <2>2
    <3>3. \A j \in 1..Len(r) : ~Touches(r[j], p)
      BY <1>4, <2>1, <3>2
    <3> QED
      BY <3>1, <3>3 DEF ArrivesAs
  <2>3. CASE i # 1
    <3>1. i - 1 \in 1..Len(r) /\ (i - 1) + 1 = i
      BY <1>1, <2>3
    <3>2. r[i - 1] = s[i]
      BY <2>1, <3>1
    <3>3. \A j \in 1..Len(r) : j > i - 1 => j + 1 > i
      OBVIOUS
    <3>4. \A j \in 1..Len(r) : j > i - 1 => ~Touches(r[j], p)
      BY <1>4, <2>1, <3>3
    <3> QED
      BY <1>4, <3>1, <3>2, <3>4 DEF ArrivesAs
  <2> QED
    BY <2>2, <2>3
<1> QED
  BY <1>3, <1>4 DEF ArrivesAs, r

\* A connection begins.
LEMMA ArrivesFirst ==
  ASSUME NEW k, k.kind = "init", NEW f, NEW p
  PROVE  ArrivesAs(<<k>>, f, p, k.values[p])
<1>1. Len(<<k>>) = 1 /\ <<k>>[1] = k
  OBVIOUS
<1>2. Touches(<<k>>[1], p) /\ Shown(<<k>>[1], p) = k.values[p]
  BY <1>1 DEF Touches, Shown
<1>3. 1 \in 1..Len(<<k>>) /\ \A j \in 1..Len(<<k>>) : ~(j > 1)
  BY <1>1
<1> QED
  BY <1>2, <1>3 DEF ArrivesAs

-----------------------------------------------------------------------------
(* Packets *)

LEMMA FollowsAfterReply ==
  ASSUME NEW s \in Seq(Tells), NEW k \in Replies, NEW f, NEW values, Follows(s, f, values)
  PROVE  s \o <<k>> \in Seq(Tells) /\ Follows(s \o <<k>>, f, values)
<1>1. k \in Tells /\ \A p : ~Touches(k, p)
  BY DEF Tells, Replies, Touches
<1>2. <<k>> \in Seq(Tells)
  BY <1>1
<1> QED
  BY <1>1, <1>2, ArrivesAfter, ConcatProperties DEF Follows

\* SetSource() without what follows
LEMMA SetKeeps ==
  ASSUME RemoteInv, NEW p \in Props, NEW value \in OneValue(p)
  PROVE  LET f == [source EXCEPT ![p] = value]
             s == toReplica \o Change(p, value)
         IN  /\ f \in AllValues /\ s \in Seq(Tells)
             /\ connected => Follows(s, replica, f)
             /\ ~connected => s = <<>>
<1> DEFINE f == [source EXCEPT ![p] = value]
           s == toReplica \o Change(p, value)
<1>1. /\ rep \in Reps /\ source \in AllValues /\ toReplica \in Seq(Tells) /\ connected \in BOOLEAN
      /\ (~connected => toReplica = <<>>) /\ (connected => Follows(toReplica, replica, source))
  BY DEF RemoteInv
<1>2. value \in Seq(Items)
  BY <1>1, OneValueIsSequence
<1>3. DOMAIN source = Props /\ source \in [Props -> Seq(Items)] /\ \A q \in Props : source[q] \in OneValue(q)
  BY <1>1 DEF AllValues
<1>4. f[p] = value /\ \A q \in Props : q # p => f[q] = source[q]
  BY <1>3
<1>5. f \in AllValues
  <2>1. f \in [Props -> Seq(Items)]
    BY <1>2, <1>3
  <2>2. \A q \in Props : f[q] \in OneValue(q)
    BY <1>3, <1>4
  <2> HIDE DEF f
  <2> QED
    BY <2>1, <2>2 DEF AllValues
<1> HIDE DEF f
<1>6. CASE ~(connected /\ rep.props[p].notifies)
  <2>1. s = toReplica
    BY <1>1, <1>6, ConcatEmptySeq DEF Change
  <2>2. \A q \in Notified : connected => f[q] = source[q]
    BY <1>4, <1>6 DEF Notified
  <2>3. connected => Follows(s, replica, f)
    BY <1>1, <2>1, <2>2 DEF Follows
  <2> QED
    BY <1>1, <1>5, <2>1, <2>3 DEF f
<1>7. CASE connected /\ rep.props[p].notifies
  <2> DEFINE k == [kind |-> "change", prop |-> p, value |-> value]
  <2>1. s = toReplica \o <<k>>
    BY <1>7 DEF Change
  <2>2. p \in Nat
    BY <1>1, PropIs
  <2>3. k \in ChangePackets
    BY <1>2, <2>2 DEF ChangePackets
  <2>4. k \in Tells /\ <<k>> \in Seq(Tells)
    BY <2>3 DEF Tells
  <2>5. \A q : (Touches(k, q) <=> q = p) /\ Shown(k, q) = value
    BY DEF Touches, Shown
  <2> HIDE DEF k
  <2>6. Follows(toReplica \o <<k>>, replica, f)
    <3> SUFFICES ASSUME NEW q \in Notified PROVE ArrivesAs(toReplica \o <<k>>, replica, q, f[q])
      BY DEF Follows
    <3>1. ArrivesAs(toReplica, replica, q, source[q]) /\ q \in Props
      BY <1>1, <1>7 DEF Follows, Notified
    <3>2. CASE q = p
      BY <1>1, <1>4, <2>4, <2>5, <3>1, <3>2, ArrivesAfter
    <3>3. CASE q # p
      BY <1>1, <1>4, <2>4, <2>5, <3>1, <3>3, ArrivesAfter
    <3> QED
      BY <3>2, <3>3
  <2>7. s \in Seq(Tells)
    BY <1>1, <2>1, <2>4, ConcatProperties
  <2> HIDE DEF s
  <2> QED
    BY <1>5, <1>7, <2>1, <2>6, <2>7 DEF f, s
<1> QED
  BY <1>6, <1>7

\* Setting the source, and a reply, if the connection is there.
LEMMA SetSourceKeeps ==
  ASSUME RemoteInv, NEW p \in Props, NEW value, value = Error \/ value \in OneValue(p), NEW then,
         then = <<>> \/ (connected /\ \E k \in Replies : then = <<k>>), SetSource(p, value, then)
  PROVE  /\ source' \in AllValues /\ toReplica' \in Seq(Tells)
         /\ connected => Follows(toReplica', replica, source')
         /\ ~connected => toReplica' = <<>>
<1>1. /\ rep \in Reps /\ source \in AllValues /\ toReplica \in Seq(Tells) /\ connected \in BOOLEAN
      /\ (~connected => toReplica = <<>>) /\ (connected => Follows(toReplica, replica, source))
  BY DEF RemoteInv
<1>2. PICK f, s : /\ source' = f /\ toReplica' = s \o then /\ f \in AllValues /\ s \in Seq(Tells)
                  /\ (connected => Follows(s, replica, f)) /\ (~connected => s = <<>>)
  <2>1. CASE value \in {Error, source[p]}
    BY <1>1, <2>1 DEF SetSource
  <2>2. CASE value \notin {Error, source[p]}
    <3>1. /\ source' = [source EXCEPT ![p] = value]
          /\ toReplica' = toReplica \o Change(p, value) \o then
      BY <2>2 DEF SetSource
    <3>2. value \in OneValue(p)
      BY <2>2
    <3> QED
      BY <3>1, <3>2, SetKeeps
  <2> QED
    BY <2>1, <2>2
<1>3. CASE then = <<>>
  <2>1. s \o then = s
    BY <1>2, <1>3, ConcatEmptySeq
  <2> QED
    BY <1>2, <2>1
<1>4. CASE connected /\ \E k \in Replies : then = <<k>>
  <2>1. PICK k \in Replies : then = <<k>>
    BY <1>4
  <2>2. s \o <<k>> \in Seq(Tells) /\ Follows(s \o <<k>>, replica, f)
    BY <1>2, <1>4, <2>1, FollowsAfterReply
  <2> QED
    BY <1>2, <1>4, <2>1, <2>2
<1> QED
  BY <1>3, <1>4

-----------------------------------------------------------------------------
(* Steps *)

LEMMA RemoteInvInit == RemoteCallInit => RemoteInv
<1> SUFFICES ASSUME RemoteCallInit PROVE RemoteInv
  OBVIOUS
<1>1. rep \in Reps /\ source = Default /\ replica = Default
  BY DEF RemoteCallInit
<1>2. Default \in AllValues
  BY <1>1, DefaultIs
<1>3. <<>> \in Seq(Asks) /\ <<>> \in Seq(Tells)
  BY EmptySeq
<1>4. MaxRequests \in Nat /\ MaxConnections \in Nat
  BY RemoteCallAssumption
<1>5. requests \in 0..MaxRequests /\ connections \in 0..MaxConnections
  BY <1>4 DEF RemoteCallInit
<1>6. source \in AllValues /\ replica \in AllValues
  BY <1>1, <1>2
<1>7. toSource \in Seq(Asks) /\ toReplica \in Seq(Tells) /\ toSource = <<>> /\ toReplica = <<>>
  BY <1>3 DEF RemoteCallInit
<1>8. ~connected /\ connected \in BOOLEAN /\ acquired \in BOOLEAN /\ awaited = {} /\ strayed = {}
  BY DEF RemoteCallInit
<1> QED
  BY <1>1, <1>5, <1>6, <1>7, <1>8 DEF RemoteInv

LEMMA AskedBound == ASSUME RemoteInv, Asked PROVE requests' \in 0..MaxRequests /\ requests' \in 1..MaxRequests
BY RemoteCallAssumption DEF RemoteInv, Asked

LEMMA AcquireKeeps == ASSUME RemoteInv, Acquire PROVE RemoteInv'
<1>1. rep' = rep /\ rep \in Reps
  BY DEF Acquire, RemoteInv
<1>2. Default \in AllValues
  BY <1>1, DefaultIs
<1>3. ~connected
  BY DEF Acquire, RemoteInv
<1> QED
  BY <1>1, <1>2, <1>3, SameRep DEF Acquire, RemoteInv

LEMMA ConnectKeeps == ASSUME RemoteInv, Connect PROVE RemoteInv'
<1>1. rep' = rep /\ source \in AllValues /\ source' = source /\ replica' = replica /\ acquired' = TRUE /\ connected' = TRUE
  BY DEF Connect, RemoteInv
<1> DEFINE k == [kind |-> "init", values |-> source]
<1>2. toReplica' = <<k>> /\ toSource' = <<>>
  BY DEF Connect
<1>3. k \in Tells
  BY <1>1 DEF Tells, Inits
<1>4. PICK r : r = k
  OBVIOUS
<1>5. <<r>> \in Seq(Tells) /\ <<>> \in Seq(Asks)
  BY <1>3, <1>4, EmptySeq
<1>6. r.kind = "init" /\ r.values = source
  BY <1>4
<1> HIDE DEF k
<1>7. Follows(<<r>>, replica, source)
  BY <1>6, ArrivesFirst DEF Follows
<1>8. Follows(toReplica, replica, source)'
  BY <1>1, <1>2, <1>4, <1>7, SameRep DEF Follows
<1>9. connections' \in 0..MaxConnections
  BY RemoteCallAssumption DEF Connect, RemoteInv
<1>10. toReplica' \in Seq(Tells') /\ toSource' \in Seq(Asks')
  BY <1>1, <1>2, <1>4, <1>5, SameRep
<1>11. /\ rep' \in Reps /\ requests' = requests /\ awaited' = awaited /\ strayed' = strayed
  BY DEF Connect, RemoteInv
<1> QED
  BY <1>1, <1>8, <1>9, <1>10, <1>11, SameRep DEF RemoteInv

LEMMA DisconnectKeeps == ASSUME RemoteInv, Disconnect PROVE RemoteInv'
<1>1. rep' = rep /\ <<>> \in Seq(Asks) /\ <<>> \in Seq(Tells)
  BY EmptySeq DEF Disconnect
<1> QED
  BY <1>1, SameRep DEF Disconnect, RemoteInv

LEMMA SourceSetsKeeps ==
  ASSUME RemoteInv, NEW p \in Props, NEW given \in GivenTo(p), SourceSets(p, given)
  PROVE  RemoteInv'
<1> DEFINE v == Converted(given, p)
<1>1. /\ rep' = rep /\ rep \in Reps /\ connected' = connected /\ replica' = replica
      /\ acquired' = acquired /\ toSource' = toSource /\ awaited' = awaited /\ strayed' = strayed
      /\ connections' = connections
  BY DEF SourceSets, RemoteInv
<1>2. PICK value : value = v
  OBVIOUS
<1>3. value = Error \/ value \in OneValue(p)
  BY <1>1, <1>2, ConvertedIs
<1>4. SetSource(p, value, <<>>)
  BY <1>2 DEF SourceSets
<1>5. /\ source' \in AllValues /\ toReplica' \in Seq(Tells)
      /\ connected => Follows(toReplica', replica, source')
      /\ ~connected => toReplica' = <<>>
  BY <1>3, <1>4, SetSourceKeeps
<1>6. connected' => Follows(toReplica, replica, source)'
  BY <1>1, <1>5, SameRep DEF Follows
<1>7. requests' \in 0..MaxRequests
  BY AskedBound DEF SourceSets
<1> QED
  BY <1>1, <1>5, <1>6, <1>7, SameRep DEF RemoteInv

\* A packet to the source
LEMMA SendKeeps ==
  ASSUME RemoteInv, NEW k \in Asks, Send(k)
  PROVE  toSource' \in Seq(Asks) /\ (~connected => toSource' = <<>>)
<1>1. toSource \in Seq(Asks) /\ (~connected => toSource = <<>>)
  BY DEF RemoteInv
<1>2. Append(toSource, k) \in Seq(Asks)
  BY <1>1, AppendProperties
<1> QED
  BY <1>1, <1>2 DEF Send

LEMMA ReplicaWritesKeeps ==
  ASSUME RemoteInv, NEW p \in Props, NEW given \in GivenTo(p), ReplicaWrites(p, given)
  PROVE  RemoteInv'
<1>1. /\ rep' = rep /\ rep \in Reps /\ connected' = connected /\ source' = source
      /\ acquired' = acquired /\ toReplica' = toReplica /\ awaited' = awaited /\ strayed' = strayed
      /\ connections' = connections
  BY DEF ReplicaWrites, RemoteInv
<1>2. PICK value : value = Converted(given, p)
  OBVIOUS
<1>3. replica' = replica
  BY DEF ReplicaWrites, ShownAfterWrite
<1>4. toSource' \in Seq(Asks) /\ (~connected => toSource' = <<>>)
  <2>1. CASE value = Error
    BY <1>2, <2>1 DEF ReplicaWrites, RemoteInv
  <2>2. CASE value # Error
    <3>1. PICK k : k = [kind |-> "write", index |-> Sent(PropertyIndex("replica", p)), value |-> value,
                        meant |-> p, call |-> 0]
      OBVIOUS
    <3>2. Send(k)
      BY <1>2, <2>2, <3>1 DEF ReplicaWrites
    <3>3. value \in OneValue(p) /\ value \in Seq(Items)
      BY <1>1, <1>2, <2>2, ConvertedIs, OneValueIsSequence
    <3>4. p \in Nat
      BY <1>1, PropIs
    <3>5. PICK i : i = Sent(PropertyIndex("replica", p))
      OBVIOUS
    <3>6. i \in Int /\ PropertyAt(i) = p
      BY <3>4, <3>5 DEF Sent, PropertyIndex, Below, PropertyAt
    <3>7. k \in Writes
      BY <3>1, <3>3, <3>4, <3>5, <3>6 DEF Writes
    <3>8. k \in Asks
      BY <3>7 DEF Asks
    <3> QED
      BY <3>2, <3>8, SendKeeps
  <2> QED
    BY <2>1, <2>2
<1>5. connected' => Follows(toReplica, replica, source)'
  BY <1>1, <1>3, SameRep DEF Follows, RemoteInv
<1>6. requests' \in 0..MaxRequests
  BY AskedBound DEF ReplicaWrites
<1> QED
  BY <1>1, <1>3, <1>4, <1>5, <1>6, SameRep DEF RemoteInv

Args(m, n) == [1..n -> IF rep.methods[m].of = 0 THEN {<<>>} ELSE GivenTo(rep.methods[m].of)]

LEMMA ReplicaCallsKeeps ==
  ASSUME RemoteInv, NEW m \in Methods, NEW n \in {0, rep.methods[m].count}, NEW args \in Args(m, n),
         ReplicaCalls(m, args)
  PROVE  RemoteInv'
<1>1. /\ rep' = rep /\ rep \in Reps /\ connected' = connected /\ source' = source
      /\ acquired' = acquired /\ toReplica' = toReplica /\ replica' = replica /\ strayed' = strayed
      /\ connections' = connections
  BY DEF ReplicaCalls, RemoteInv
<1>2. requests' \in 0..MaxRequests /\ requests' \in 1..MaxRequests /\ requests' \in Nat
  BY AskedBound DEF ReplicaCalls
<1> DEFINE of == rep.methods[m].of
<1>3. PICK value, call, refused :
        /\ value = (IF of = 0 THEN <<>> ELSE args[1])
        /\ call = (IF rep.methods[m].returns THEN requests' ELSE 0)
        /\ refused = (Len(args) # rep.methods[m].count)
  OBVIOUS
<1>4. IF refused THEN UNCHANGED <<toSource, awaited>>
      ELSE /\ Send([kind |-> "invoke", index |-> Sent(MethodIndex("replica", m)), value |-> value,
                    meant |-> m, call |-> call])
           /\ awaited' = IF rep.methods[m].returns /\ connected THEN awaited \cup {requests'} ELSE awaited
  BY <1>3 DEF ReplicaCalls
<1>5. awaited' \subseteq 1..MaxRequests
  BY <1>2, <1>4 DEF RemoteInv
<1>6. toSource' \in Seq(Asks) /\ (~connected => toSource' = <<>>)
  <2>1. CASE refused
    BY <1>4, <2>1 DEF RemoteInv
  <2>2. CASE ~refused
    <3>1. PICK k, i : /\ i = Sent(MethodIndex("replica", m))
                      /\ k = [kind |-> "invoke", index |-> i, value |-> value, meant |-> m, call |-> call]
      OBVIOUS
    <3>2. Send(k)
      BY <1>4, <2>2, <3>1
    <3>3. m \in Nat /\ n \in Nat /\ (of # 0 => of \in Props /\ rep.methods[m].count = 1)
      BY <1>1, MethodIs
    <3>4. of # 0 => value \in GivenTo(of)
      <4> SUFFICES ASSUME of # 0 PROVE value \in GivenTo(of)
        OBVIOUS
      <4>1. args \in [1..n -> GivenTo(of)]
        BY DEF Args
      <4>2. args \in Seq(GivenTo(of))
        BY <3>3, <4>1, SeqDef
      <4>3. Len(args) = 1
        BY <1>3, <2>2, <3>3
      <4>4. 1 \in 1..n
        <5>1. DOMAIN args = 1..n
          BY <4>1
        <5>2. DOMAIN args = 1..Len(args)
          <6>1. PICK S : S = GivenTo(of)
            OBVIOUS
          <6>2. args \in Seq(S)
            BY <4>2, <6>1
          <6> HIDE DEF of
          <6> QED
            BY <6>2, LenProperties
        <5> QED
          BY <4>3, <5>1, <5>2
      <4>5. args[1] \in GivenTo(of)
        BY <4>1, <4>4
      <4> QED
        BY <1>3, <4>5
    <3>5. value \in Seq(Given)
      <4>1. of = 0 => value = <<>>
        BY <1>3
      <4> QED
        BY <1>1, <3>3, <3>4, <4>1, GivenIsSequence, EmptySeq
    <3>6. i \in Int /\ MethodAt(i) = m
      <4>1. PICK s : s = Signals /\ s \in Nat
        BY <1>1, SignalsCounted
      <4>2. i = ((3 + s + m) - 3) + 1
        BY <3>1, <4>1 DEF Sent, MethodIndex, Below
      <4>3. MethodAt(i) = i - 1 - s
        BY <4>1 DEF MethodAt, Below
      <4> QED
        BY <3>3, <4>1, <4>2, <4>3
    <3>7. call \in Nat
      BY <1>2, <1>3
    <3>8. k \in Invokes
      BY <3>1, <3>3, <3>4, <3>5, <3>6, <3>7 DEF Invokes
    <3>9. k \in Asks
      BY <3>8 DEF Asks
    <3> QED
      BY <3>2, <3>9, SendKeeps
  <2> QED
    BY <2>1, <2>2
<1>7. connected' => Follows(toReplica, replica, source)'
  BY <1>1, SameRep DEF Follows, RemoteInv
<1> QED
  BY <1>1, <1>2, <1>5, <1>6, <1>7, SameRep DEF RemoteInv

LEMMA HeadOf ==
  ASSUME NEW S, NEW s \in Seq(S), s # <<>>
  PROVE  Head(s) \in S /\ Tail(s) \in Seq(S)
BY HeadTailProperties

LEMMA DeliverWriteKeeps == ASSUME RemoteInv, DeliverWrite PROVE RemoteInv'
<1>1. /\ rep' = rep /\ rep \in Reps /\ connected' = connected /\ replica' = replica
      /\ acquired' = acquired /\ awaited' = awaited /\ requests' = requests /\ connections' = connections
      /\ connected /\ toSource # <<>> /\ toSource' = Tail(toSource) /\ toSource \in Seq(Asks)
  BY DEF DeliverWrite, RemoteInv
<1>2. PICK k, p : k = Head(toSource) /\ p = PropertyAt(k.index)
  OBVIOUS
<1>3. k \in Asks /\ toSource' \in Seq(Asks)
  BY <1>1, <1>2, HeadOf
<1>4. k.kind = "write"
  BY <1>2 DEF DeliverWrite
<1>5. k \in Writes
  BY <1>3, <1>4 DEF Asks, Invokes
<1>6. p = k.meant /\ p \in Props /\ k.value \in OneValue(p)
  BY <1>2, <1>5 DEF Writes
<1>7. strayed' = strayed
  BY <1>2, <1>6 DEF DeliverWrite
<1>8. SetSource(p, k.value, <<>>)
  BY <1>2 DEF DeliverWrite
<1>9. PICK value : value = k.value
  OBVIOUS
<1>10. /\ source' \in AllValues /\ toReplica' \in Seq(Tells)
       /\ connected => Follows(toReplica', replica, source')
  <2>1. SetSource(p, value, <<>>) /\ value \in OneValue(p)
    BY <1>6, <1>8, <1>9
  <2> QED
    BY <1>6, <2>1, SetSourceKeeps
<1>11. Follows(toReplica, replica, source)'
  BY <1>1, <1>10, SameRep DEF Follows
<1> QED
  BY <1>1, <1>3, <1>7, <1>10, <1>11, SameRep DEF RemoteInv

LEMMA DeliverCallKeeps == ASSUME RemoteInv, DeliverCall PROVE RemoteInv'
<1>1. /\ rep' = rep /\ rep \in Reps /\ connected' = connected /\ replica' = replica
      /\ acquired' = acquired /\ awaited' = awaited /\ requests' = requests /\ connections' = connections
      /\ connected /\ toSource # <<>> /\ toSource' = Tail(toSource) /\ toSource \in Seq(Asks)
      /\ toReplica \in Seq(Tells) /\ source \in AllValues /\ Follows(toReplica, replica, source)
  BY DEF DeliverCall, RemoteInv
<1>2. PICK k, m, p : k = Head(toSource) /\ m = MethodAt(k.index) /\ p = PushedBy(m)
  OBVIOUS
<1>3. k \in Asks /\ toSource' \in Seq(Asks)
  BY <1>1, <1>2, HeadOf
<1>4. k.kind = "invoke"
  BY <1>2 DEF DeliverCall
<1>5. k \in Invokes
  BY <1>3, <1>4 DEF Asks, Writes
<1>6. m = k.meant /\ m \in Methods /\ k.call \in Nat
  BY <1>2, <1>5 DEF Invokes
<1>7. p = rep.methods[m].of /\ (p # 0 => p \in Props /\ k.value \in GivenTo(p))
  <2>1. p = rep.methods[m].of
    BY <1>1, <1>2, <1>6, PushedIs
  <2>2. p # 0 => k.value \in GivenTo(p)
    BY <1>5, <1>6, <2>1 DEF Invokes
  <2>3. p # 0 => p \in Props
    BY <1>1, <1>6, <2>1, MethodIs
  <2> QED
    BY <2>1, <2>2, <2>3
<1>8. strayed' = strayed
  BY <1>2, <1>6, <1>7 DEF DeliverCall
<1>9. PICK value, then : value = Converted(k.value, p) /\ then = Reply(m, k.call)
  OBVIOUS
<1>10. IF m \in Methods /\ ~rep.methods[m].overridden /\ p # 0
       THEN SetSource(p, value, then)
       ELSE UNCHANGED source /\ toReplica' = toReplica \o then
  BY <1>2, <1>9 DEF DeliverCall
<1>11. then = <<>> \/ \E r \in Replies : then = <<r>>
  <2>1. CASE k.call = 0
    BY <1>9, <2>1 DEF Reply
  <2>2. CASE k.call # 0
    <3>1. then = <<[kind |-> "reply", call |-> k.call]>>
      BY <1>9, <2>2 DEF Reply
    <3>2. [kind |-> "reply", call |-> k.call] \in Replies
      BY <1>6 DEF Replies
    <3> QED
      BY <3>1, <3>2
  <2> QED
    BY <2>1, <2>2
<1>12. /\ source' \in AllValues /\ toReplica' \in Seq(Tells)
       /\ Follows(toReplica', replica, source')
  <2>1. CASE ~rep.methods[m].overridden /\ p # 0
    <3>1. p \in Props /\ (value = Error \/ value \in OneValue(p))
      BY <1>1, <1>7, <1>9, <2>1, ConvertedIs
    <3>2. SetSource(p, value, then)
      BY <1>6, <1>10, <2>1
    <3> QED
      BY <1>1, <1>11, <3>1, <3>2, SetSourceKeeps
  <2>2. CASE ~(~rep.methods[m].overridden /\ p # 0)
    <3>1. source' = source /\ toReplica' = toReplica \o then
      BY <1>10, <2>2
    <3>2. CASE then = <<>>
      <4>1. toReplica \o <<>> = toReplica
        BY <1>1, ConcatEmptySeq
      <4> QED
        BY <1>1, <3>1, <3>2, <4>1
    <3>3. CASE \E r \in Replies : then = <<r>>
      <4>1. PICK r \in Replies : then = <<r>>
        BY <3>3
      <4>2. toReplica \o <<r>> \in Seq(Tells) /\ Follows(toReplica \o <<r>>, replica, source)
        BY <1>1, FollowsAfterReply
      <4> QED
        BY <1>1, <3>1, <4>1, <4>2
    <3> QED
      BY <1>11, <3>2, <3>3
  <2> QED
    BY <2>1, <2>2
<1>13. Follows(toReplica, replica, source)'
  BY <1>1, <1>12, SameRep DEF Follows
<1> QED
  BY <1>1, <1>3, <1>8, <1>12, <1>13, SameRep DEF RemoteInv

LEMMA DeliverToReplicaKeeps == ASSUME RemoteInv, DeliverToReplica PROVE RemoteInv'
<1>1. /\ rep' = rep /\ rep \in Reps /\ connected' = connected /\ source' = source /\ toSource' = toSource
      /\ acquired' = acquired /\ requests' = requests /\ connections' = connections /\ strayed' = strayed
      /\ toReplica # <<>> /\ toReplica' = Tail(toReplica)
      /\ toReplica \in Seq(Tells) /\ source \in AllValues /\ replica \in AllValues
      /\ connected /\ Follows(toReplica, replica, source)
  BY DEF DeliverToReplica, RemoteInv
<1>2. PICK k : k = Head(toReplica)
  OBVIOUS
<1>3. k \in Tells /\ toReplica' \in Seq(Tells)
  BY <1>1, <1>2, HeadOf
<1>4. /\ replica' = CASE k.kind = "init" -> k.values
                      [] k.kind = "change" -> [replica EXCEPT ![k.prop] = k.value]
                      [] k.kind = "reply" -> replica
      /\ awaited' = IF k.kind = "reply" THEN awaited \ {k.call} ELSE awaited
  BY <1>2 DEF DeliverToReplica
<1>5. awaited' \subseteq 1..MaxRequests
  BY <1>4 DEF RemoteInv
<1>6. /\ replica' \in AllValues
      /\ \A p \in Props : replica'[p] = IF Touches(k, p) THEN Shown(k, p) ELSE replica[p]
  <2>1. CASE k \in Inits
    <3>1. k.kind = "init" /\ replica' = k.values /\ k.values \in AllValues
      BY <1>4, <2>1 DEF Inits
    <3> QED
      BY <3>1 DEF Touches, Shown
  <2>2. CASE k \in ChangePackets
    <3>1. k.kind = "change" /\ k.prop \in Props /\ k.value \in OneValue(k.prop) /\ k.value \in Seq(Items)
      BY <2>2 DEF ChangePackets
    <3>2. replica' = [replica EXCEPT ![k.prop] = k.value]
      BY <1>4, <3>1
    <3>3. replica \in [Props -> Seq(Items)] /\ \A p \in Props : replica[p] \in OneValue(p)
      BY <1>1 DEF AllValues
    <3>4. replica' \in [Props -> Seq(Items)]
      BY <3>1, <3>2, <3>3
    <3>5. \A p \in Props : replica'[p] = IF p = k.prop THEN k.value ELSE replica[p]
      BY <3>2, <3>3
    <3>6. \A p \in Props : replica'[p] \in OneValue(p)
      BY <3>1, <3>3, <3>5
    <3>7. replica' \in AllValues
      BY <3>4, <3>6 DEF AllValues
    <3>8. \A p : (Touches(k, p) <=> p = k.prop) /\ Shown(k, p) = k.value
      BY <3>1 DEF Touches, Shown
    <3> QED
      BY <3>5, <3>7, <3>8
  <2>3. CASE k \in Replies
    <3>1. k.kind = "reply" /\ \A p : ~Touches(k, p)
      BY <2>3 DEF Replies, Touches
    <3>2. replica' = replica
      BY <1>4, <3>1
    <3> QED
      BY <1>1, <3>1, <3>2
  <2> QED
    BY <1>3, <2>1, <2>2, <2>3 DEF Tells
<1>7. \A p \in Notified : ArrivesAs(Tail(toReplica), replica', p, source[p])
  <2> SUFFICES ASSUME NEW p \in Notified PROVE ArrivesAs(Tail(toReplica), replica', p, source[p])
    OBVIOUS
  <2>1. ArrivesAs(toReplica, replica, p, source[p]) /\ p \in Props
    BY <1>1 DEF Follows, Notified
  <2>2. PICK f, g, s, v : f = replica /\ g = replica' /\ s = toReplica /\ v = source[p]
    OBVIOUS
  <2>3. /\ s \in Seq(Tells) /\ s # <<>> /\ ArrivesAs(s, f, p, v)
        /\ g[p] = IF Touches(Head(s), p) THEN Shown(Head(s), p) ELSE f[p]
    BY <1>1, <1>2, <1>6, <2>1, <2>2
  <2>4. ArrivesAs(Tail(s), g, p, v)
    BY <2>3, ArrivesStill
  <2> QED
    BY <2>2, <2>4
<1>8. Follows(toReplica, replica, source)'
  BY <1>1, <1>7, SameRep DEF Follows
<1> QED
  BY <1>1, <1>3, <1>5, <1>6, <1>8, SameRep DEF RemoteInv

LEMMA RemoteInvStutter == ASSUME RemoteInv, UNCHANGED remoteCallVars PROVE RemoteInv'
<1>1. Follows(toReplica, replica, source)' = Follows(toReplica, replica, source)
  BY SameRep DEF Follows, remoteCallVars
<1> QED
  BY <1>1, SameRep DEF RemoteInv, remoteCallVars

LEMMA RemoteInvNext == ASSUME RemoteInv, [RemoteCallNext]_remoteCallVars PROVE RemoteInv'
<1>1. ASSUME NEW p \in Props, NEW given \in GivenTo(p), SourceSets(p, given) \/ ReplicaWrites(p, given)
      PROVE  RemoteInv'
  BY <1>1, SourceSetsKeeps, ReplicaWritesKeeps
<1>2. ASSUME NEW m \in Methods, NEW n \in {0, rep.methods[m].count}, NEW args \in Args(m, n), ReplicaCalls(m, args)
      PROVE  RemoteInv'
  BY <1>2, ReplicaCallsKeeps
<1> QED
  BY <1>1, <1>2, AcquireKeeps, ConnectKeeps, DisconnectKeeps, DeliverWriteKeeps, DeliverCallKeeps,
     DeliverToReplicaKeeps, RemoteInvStutter DEF RemoteCallNext, Args

-----------------------------------------------------------------------------
LEMMA RemoteInvariant == RemoteCallSpec => []RemoteInv
<1>1. RemoteInv /\ [RemoteCallNext]_remoteCallVars => RemoteInv'
  BY RemoteInvNext
<1> QED
  BY RemoteInvInit, <1>1, PTL DEF RemoteCallSpec

\* For every .rep file: the types of what is kept, and values that have the items of their property.
THEOREM RemoteCallTypeCorrect == RemoteCallSpec => []RemoteCallTypeOK
<1>1. RemoteInv => RemoteCallTypeOK
  BY DEF RemoteInv, RemoteCallTypeOK, AllValues, OneValue
<1> QED
  BY <1>1, RemoteInvariant, PTL

\* For every .rep file, any number of requests and connections lost on the way: requests
\* reach what they are made of, and the replica is behind the source by what is on its way.
THEOREM ReplicaFollows == RemoteCallSpec => []ReplicaFollowsSource
<1>1. ASSUME RemoteInv PROVE ReplicaFollowsSource
  <2>1. strayed = {} /\ toReplica \in Seq(Tells) /\ (connected => Follows(toReplica, replica, source))
    BY <1>1 DEF RemoteInv
  <2>2. ASSUME connected, NEW p \in Props, rep.props[p].notifies PROVE Arriving(p) = source[p]
    <3>1. PICK v : v = source[p]
      OBVIOUS
    <3>2. ArrivesAs(toReplica, replica, p, v)
      BY <2>1, <2>2, <3>1 DEF Follows, Notified
    <3> QED
      BY <2>1, <3>1, <3>2, ArrivingIs
  <2> QED
    BY <2>1, <2>2 DEF ReplicaFollowsSource
<1>2. RemoteInv => ReplicaFollowsSource
  BY <1>1
<1> QED
  BY <1>2, RemoteInvariant, PTL

-----------------------------------------------------------------------------
(* HeldCallables *)

USE HoldAssumption

Kinds == {"functor", "pointer", "timer", "holder"}
CallToCome == [kind : Kinds, function : Functions, running : BOOLEAN]
Maybe == Functions \cup {NoFunction}

HeldTypes ==
  /\ conduct \in HoldPrograms
  /\ count \in [Functions -> Int] /\ known \subseteq Functions
  /\ curve \in [Curves -> [alive : BOOLEAN, attribute : Maybe, custom : 0..MaxFunctions]]
  /\ custom \in [1..MaxFunctions -> [parent : Curves \cup {NoFunction}, function : Maybe]]
  /\ animation \in [of : Curves \cup {NoFunction}, custom : 0..MaxFunctions, wanted : Maybe]
  /\ due \in [Calls -> {NoCall} \cup CallToCome]
  /\ routines \in Seq(Functions) /\ factories \in Seq(Functions)
  /\ loop \in [at : Nat, end : Nat]
  /\ app \in BOOLEAN /\ hooked \in BOOLEAN /\ logging \in BOOLEAN /\ error \in BOOLEAN
  /\ handler \in Maybe
  /\ payload \in [Values -> Functions \cup {NoFunction, Unmade}]

\* What keeps counts exact
Exact == conduct \cap {"drops", "adds", "moves"} = {}

CountsRight ==
  \A f \in Functions :
    /\ IsFiniteSet(Holders(f)) /\ count[f] >= Cardinality(Holders(f))
    /\ Exact => count[f] = Cardinality(Holders(f))

CurvesRight ==
  /\ \A c \in Curves : curve[c].custom # 0 =>
       /\ curve[c].alive /\ curve[c].attribute \in Functions
       /\ custom[curve[c].custom] = [parent |-> c, function |-> curve[c].attribute]
  /\ "copies" \notin conduct /\ animation.custom # 0 =>
       /\ animation.of \in Curves /\ curve[animation.of].custom = animation.custom
       /\ curve[animation.of].attribute = animation.wanted
  /\ \A i \in 1..MaxFunctions :
       custom[i] # FreeSlot => custom[i].parent \in Curves /\ curve[custom[i].parent].alive

RoutinesRight ==
  /\ loop.at # 0 =>
       /\ ~app /\ loop.at <= loop.end + 1 /\ loop.end <= Len(routines)
       /\ "adds" \notin conduct => loop.end = Len(routines)
  /\ hooked => app
  /\ "apps" \notin conduct /\ ~hooked /\ loop.at = 0 => routines = <<>>
  /\ ~app => factories = <<>>

HandlerRight == logging => "threads" \in conduct /\ ("removes" \notin conduct => handler # NoFunction)

ErrorRight == conduct \cap {"raises", "plain"} = {} => ~error

HeldInv == HeldTypes /\ CountsRight /\ CurvesRight /\ RoutinesRight /\ HandlerRight /\ ErrorRight

-----------------------------------------------------------------------------
(* Who refers to a function, by kind *)

Program(f) == {<<"program">> : g \in known \cap {f}}
OfCurves(f) == {<<"curve", c>> : c \in {d \in Curves : curve[d].attribute = f}}
OfCalls(f) == {<<"call", k>> : k \in {j \in Calls : due[j] # NoCall /\ due[j].function = f}}
OfRoutines(f) == {<<"routine", i>> : i \in {j \in DOMAIN routines : routines[j] = f /\ j >= loop.at}}
OfFactories(f) == {<<"factory", i>> : i \in {j \in DOMAIN factories : factories[j] = f}}
OfHandler(f) == {<<"handler">> : h \in {handler} \cap {f}}
OfValues(f) == {<<"value", v>> : v \in {w \in Values : payload[w] = f}}

LEMMA HoldersAre ==
  \A f : Holders(f) = Program(f) \cup OfCurves(f) \cup OfCalls(f) \cup OfRoutines(f)
                      \cup OfFactories(f) \cup OfHandler(f) \cup OfValues(f)
BY DEF Holders, Program, OfCurves, OfCalls, OfRoutines, OfFactories, OfHandler, OfValues

LEMMA Tags ==
  ASSUME NEW f
  PROVE  /\ \A t \in Program(f) : t[1] = "program"
         /\ \A t \in OfCurves(f) : t[1] = "curve"
         /\ \A t \in OfCalls(f) : t[1] = "call"
         /\ \A t \in OfRoutines(f) : t[1] = "routine"
         /\ \A t \in OfFactories(f) : t[1] = "factory"
         /\ \A t \in OfHandler(f) : t[1] = "handler"
         /\ \A t \in OfValues(f) : t[1] = "value"
BY DEF Program, OfCurves, OfCalls, OfRoutines, OfFactories, OfHandler, OfValues

\* One more, one less.
LEMMA OneLess ==
  ASSUME NEW H, IsFiniteSet(H), NEW a, a \in H, NEW G, G = H \ {a}
  PROVE  IsFiniteSet(G) /\ Cardinality(G) \in Nat /\ Cardinality(G) = Cardinality(H) - 1
BY FS_RemoveElement, FS_CardinalityType

LEMMA OneMore ==
  ASSUME NEW G, IsFiniteSet(G), NEW b, b \notin G, NEW I, I = G \cup {b}
  PROVE  IsFiniteSet(I) /\ Cardinality(I) \in Nat /\ Cardinality(I) = Cardinality(G) + 1
BY FS_AddElement, FS_CardinalityType

\* What new came to be held by b, and old is no longer held by a.
LEMMA Recount ==
  ASSUME HeldTypes, NEW f \in Functions, NEW a, NEW b, NEW old, NEW new,
         IsFiniteSet(Holders(f)), count[f] >= Cardinality(Holders(f)), Exact => count[f] = Cardinality(Holders(f)),
         Holders(f)' = (Holders(f) \ (IF f = old THEN {a} ELSE {})) \cup (IF f = new THEN {b} ELSE {}),
         f = old => a \in Holders(f), f = new => b \notin Holders(f) \ (IF f = old THEN {a} ELSE {}),
         count' = Counted(new, old)
  PROVE  /\ IsFiniteSet(Holders(f)') /\ count'[f] >= Cardinality(Holders(f)')
         /\ Exact => count'[f] = Cardinality(Holders(f)')
<1>1. PICK H, I, n, m : H = Holders(f) /\ I = Holders(f)' /\ n = count[f] /\ m = count'[f]
  OBVIOUS
<1>2. PICK G : G = H \ (IF f = old THEN {a} ELSE {})
  OBVIOUS
<1>3. IsFiniteSet(H) /\ Cardinality(H) \in Nat
  BY <1>1, FS_CardinalityType
<1>4. /\ n \in Int /\ n >= Cardinality(H) /\ (Exact => n = Cardinality(H))
      /\ m = n + (IF f = new THEN 1 ELSE 0) - (IF f = old THEN 1 ELSE 0)
  BY <1>1 DEF HeldTypes, Counted
<1>5. PICK g : g = n - (IF f = old THEN 1 ELSE 0)
  OBVIOUS
<1>6. IsFiniteSet(G) /\ Cardinality(G) \in Nat /\ g \in Int /\ g >= Cardinality(G) /\ (Exact => g = Cardinality(G))
  <2>1. CASE f = old
    <3>1. a \in H /\ G = H \ {a}
      BY <1>1, <1>2, <2>1
    <3>2. IsFiniteSet(G) /\ Cardinality(G) \in Nat /\ Cardinality(G) = Cardinality(H) - 1
      BY <1>3, <3>1, OneLess
    <3>3. g = n - 1
      BY <1>5, <2>1
    <3> QED
      BY <1>3, <1>4, <3>2, <3>3
  <2>2. CASE f # old
    <3>1. G = H
      BY <1>2, <2>2
    <3>2. g = n
      BY <1>4, <1>5, <2>2
    <3> QED
      BY <1>3, <1>4, <3>1, <3>2
  <2> QED
    BY <2>1, <2>2
<1>7. IsFiniteSet(I) /\ m >= Cardinality(I) /\ (Exact => m = Cardinality(I))
  <2>1. CASE f = new
    <3>1. b \notin G /\ I = G \cup {b}
      BY <1>1, <1>2, <2>1
    <3>2. IsFiniteSet(I) /\ Cardinality(I) \in Nat /\ Cardinality(I) = Cardinality(G) + 1
      BY <1>6, <3>1, OneMore
    <3>3. m = g + 1
      BY <1>4, <1>5, <2>1
    <3> QED
      BY <1>6, <3>2, <3>3
  <2>2. CASE f # new
    <3>1. I = G
      BY <1>1, <1>2, <2>2
    <3>2. m = g
      BY <1>4, <1>5, <2>2
    <3> QED
      BY <1>6, <3>1, <3>2
  <2> QED
    BY <2>1, <2>2
<1> QED
  BY <1>1, <1>7

LEMMA CountedType == ASSUME HeldTypes, NEW new, NEW old PROVE Counted(new, old) \in [Functions -> Int]
BY DEF HeldTypes, Counted

LEMMA PartsStay ==
  ASSUME NEW f
  PROVE  /\ known' = known => Program(f)' = Program(f)
         /\ curve' = curve => OfCurves(f)' = OfCurves(f)
         /\ due' = due => OfCalls(f)' = OfCalls(f)
         /\ routines' = routines /\ loop' = loop => OfRoutines(f)' = OfRoutines(f)
         /\ factories' = factories => OfFactories(f)' = OfFactories(f)
         /\ handler' = handler => OfHandler(f)' = OfHandler(f)
         /\ payload' = payload => OfValues(f)' = OfValues(f)
BY DEF Program, OfCurves, OfCalls, OfRoutines, OfFactories, OfHandler, OfValues

LEMMA HoldersAfter ==
  ASSUME NEW f
  PROVE  Holders(f)' = Program(f)' \cup OfCurves(f)' \cup OfCalls(f)' \cup OfRoutines(f)'
                       \cup OfFactories(f)' \cup OfHandler(f)' \cup OfValues(f)'
BY DEF Holders, Program, OfCurves, OfCalls, OfRoutines, OfFactories, OfHandler, OfValues

\* Nobody takes or leaves anything.
LEMMA CountsStay ==
  ASSUME CountsRight, conduct' = conduct, count' = count, \A f \in Functions : Holders(f)' = Holders(f)
  PROVE  CountsRight'
<1>1. \A f \in Functions :
        /\ IsFiniteSet(Holders(f)') /\ count'[f] >= Cardinality(Holders(f)')
        /\ Exact => count'[f] = Cardinality(Holders(f)')
  BY DEF CountsRight
<1> QED
  BY <1>1 DEF CountsRight, Exact

LEMMA CountsMove ==
  ASSUME HeldTypes, CountsRight, conduct' = conduct, NEW a, NEW b, NEW old, NEW new, count' = Counted(new, old),
         \A f \in Functions :
           /\ Holders(f)' = (Holders(f) \ (IF f = old THEN {a} ELSE {})) \cup (IF f = new THEN {b} ELSE {})
           /\ f = old => a \in Holders(f)
           /\ f = new => b \notin Holders(f) \ (IF f = old THEN {a} ELSE {})
  PROVE  CountsRight'
<1>1. ASSUME NEW f \in Functions
      PROVE  /\ IsFiniteSet(Holders(f)') /\ count'[f] >= Cardinality(Holders(f)')
             /\ Exact => count'[f] = Cardinality(Holders(f)')
  BY Recount DEF CountsRight
<1> QED
  BY <1>1 DEF CountsRight, Exact

\* One holder goes and one comes.
Moves(a, b, old, new) ==
  \A f \in Functions :
    /\ Holders(f)' = (Holders(f) \ (IF f = old THEN {a} ELSE {})) \cup (IF f = new THEN {b} ELSE {})
    /\ f = old => a \in Holders(f)
    /\ f = new => b \notin Holders(f) \ (IF f = old THEN {a} ELSE {})

LEMMA CountsMoved ==
  ASSUME HeldTypes, CountsRight, conduct' = conduct, NEW a, NEW b, NEW old, NEW new, count' = Counted(new, old), Moves(a, b, old, new)
  PROVE  CountsRight'
<1>1. \A f \in Functions :
        /\ Holders(f)' = (Holders(f) \ (IF f = old THEN {a} ELSE {})) \cup (IF f = new THEN {b} ELSE {})
        /\ f = old => a \in Holders(f)
        /\ f = new => b \notin Holders(f) \ (IF f = old THEN {a} ELSE {})
  BY DEF Moves
<1> QED
  BY <1>1, CountsMove

\* References are left over, or holders leave without releasing theirs.
LeavesCount(a, b, old, new) ==
  \A f \in Functions :
    /\ Holders(f)' \subseteq (Holders(f) \ (IF f = old THEN {a} ELSE {})) \cup (IF f = new THEN {b} ELSE {})
    /\ f = old => a \in Holders(f)

LEMMA CountsLeft ==
  ASSUME HeldTypes, CountsRight, conduct' = conduct, ~Exact,
         NEW a, NEW b, NEW old, NEW new, count' = Counted(new, old), LeavesCount(a, b, old, new)
  PROVE  CountsRight'
<1>1. ASSUME NEW f \in Functions
      PROVE  IsFiniteSet(Holders(f)') /\ count'[f] >= Cardinality(Holders(f)')
  <2>1. PICK H, I, J : H = Holders(f) /\ I = Holders(f)' /\ J = H \ (IF f = old THEN {a} ELSE {})
    OBVIOUS
  <2>2. I \subseteq J \cup (IF f = new THEN {b} ELSE {}) /\ (f = old => a \in H)
    BY <2>1 DEF LeavesCount
  <2>3. IsFiniteSet(H) /\ count[f] >= Cardinality(H) /\ Cardinality(H) \in Nat /\ count[f] \in Int
    BY <2>1, FS_CardinalityType DEF CountsRight, HeldTypes
  <2>4. IsFiniteSet(J) /\ Cardinality(J) = Cardinality(H) - (IF f = old THEN 1 ELSE 0)
    <3>1. CASE f = old
      BY <2>1, <2>2, <2>3, <3>1, FS_RemoveElement
    <3>2. CASE f # old
      BY <2>1, <2>3, <3>2
    <3> QED
      BY <3>1, <3>2
  <2>5. PICK K : K = J \cup (IF f = new THEN {b} ELSE {})
    OBVIOUS
  <2>6. Cardinality(J) \in Nat
    BY <2>4, FS_CardinalityType
  <2>7. IsFiniteSet(K) /\ Cardinality(K) <= Cardinality(J) + (IF f = new THEN 1 ELSE 0)
    <3>1. CASE f = new /\ b \in J
      <4>1. K = J
        BY <2>5, <3>1
      <4> QED
        BY <2>4, <2>6, <3>1, <4>1
    <3>2. CASE f = new /\ b \notin J
      <4>1. K = J \cup {b}
        BY <2>5, <3>2
      <4>2. IsFiniteSet(K) /\ Cardinality(K) = Cardinality(J) + 1
        BY <2>4, <3>2, <4>1, FS_AddElement
      <4> QED
        BY <2>6, <3>2, <4>2
    <3>3. CASE f # new
      <4>1. K = J
        BY <2>5, <3>3
      <4> QED
        BY <2>4, <2>6, <3>3, <4>1
    <3> QED
      BY <3>1, <3>2, <3>3
  <2>8. IsFiniteSet(I) /\ Cardinality(I) <= Cardinality(K)
    BY <2>2, <2>5, <2>7, FS_Subset
  <2>9. Cardinality(I) \in Nat /\ Cardinality(K) \in Nat
    BY <2>7, <2>8, FS_CardinalityType
  <2>10. count'[f] = count[f] + (IF f = new THEN 1 ELSE 0) - (IF f = old THEN 1 ELSE 0)
    BY DEF Counted
  <2> QED
    BY <2>1, <2>3, <2>4, <2>6, <2>7, <2>8, <2>9, <2>10
<1>2. ~Exact'
  BY DEF Exact
<1> QED
  BY <1>1, <1>2 DEF CountsRight

LEMMA CountedNothing == ASSUME HeldTypes PROVE count = Counted(NoFunction, NoFunction)
BY DEF HeldTypes, Counted

LEMMA ProgramMoves ==
  ASSUME HeldTypes, CountsRight, conduct' = conduct, NEW g \in Functions, NEW new, NEW old,
         \/ new = g /\ old = NoFunction /\ g \notin known /\ known' = known \cup {g}
         \/ new = NoFunction /\ old = g /\ g \in known /\ known' = known \ {g},
         count' = Counted(new, old), UNCHANGED <<curve, due, routines, loop, factories, handler, payload>>
  PROVE  CountsRight'
<1> DEFINE t == <<"program">>
<1>1. ASSUME NEW f \in Functions
      PROVE  /\ Holders(f)' = (Holders(f) \ (IF f = old THEN {t} ELSE {})) \cup (IF f = new THEN {t} ELSE {})
             /\ f = old => t \in Holders(f)
             /\ f = new => t \notin Holders(f) \ (IF f = old THEN {t} ELSE {})
  <2>1. PICK Q : Q = OfCurves(f) \cup OfCalls(f) \cup OfRoutines(f) \cup OfFactories(f) \cup OfHandler(f) \cup OfValues(f)
    OBVIOUS
  <2>2. t \notin Q
    BY <2>1, Tags
  <2>3. Holders(f) = Program(f) \cup Q
    BY <2>1, HoldersAre
  <2>4. Holders(f)' = Program(f)' \cup Q
    BY <2>1, HoldersAfter, PartsStay
  <2>5. Program(f) = (IF f \in known THEN {t} ELSE {})
    BY DEF Program
  <2>6. Program(f)' = (IF f \in known' THEN {t} ELSE {})
    BY DEF Program
  <2> HIDE DEF t
  <2>7. NoFunction # f
    OBVIOUS
  <2>8. CASE f = g /\ new = g
    BY <2>2, <2>3, <2>4, <2>5, <2>6, <2>7, <2>8
  <2>9. CASE f = g /\ old = g
    BY <2>2, <2>3, <2>4, <2>5, <2>6, <2>7, <2>9
  <2>10. CASE f # g
    BY <2>2, <2>3, <2>4, <2>5, <2>6, <2>7, <2>10
  <2> QED
    BY <2>8, <2>9, <2>10
<1> HIDE DEF t
<1> QED
  BY <1>1, CountsMove

\* What is held by one curve, call or value.
LEMMA CurveMoves ==
  ASSUME HeldTypes, CountsRight, conduct' = conduct, NEW c \in Curves, NEW new, NEW old,
         \A d \in Curves : curve'[d].attribute = IF d = c THEN new ELSE curve[d].attribute,
         old = curve[c].attribute,
         count' = Counted(new, old), UNCHANGED <<known, due, routines, loop, factories, handler, payload>>
  PROVE  CountsRight'
<1> DEFINE t == <<"curve", c>>
<1>1. ASSUME NEW f \in Functions
      PROVE  /\ Holders(f)' = (Holders(f) \ (IF f = old THEN {t} ELSE {})) \cup (IF f = new THEN {t} ELSE {})
             /\ f = old => t \in Holders(f)
             /\ f = new => t \notin Holders(f) \ (IF f = old THEN {t} ELSE {})
  <2>1. PICK Q : Q = Program(f) \cup OfCalls(f) \cup OfRoutines(f) \cup OfFactories(f) \cup OfHandler(f) \cup OfValues(f)
    OBVIOUS
  <2>2. t \notin Q
    BY <2>1, Tags
  <2>3. Holders(f) = OfCurves(f) \cup Q
    BY <2>1, HoldersAre
  <2>4. Holders(f)' = OfCurves(f)' \cup Q
    BY <2>1, HoldersAfter, PartsStay
  <2>5. OfCurves(f)' = (OfCurves(f) \ (IF f = old THEN {t} ELSE {})) \cup (IF f = new THEN {t} ELSE {})
    <3>1. \A x : x \in OfCurves(f) <=> \E d \in Curves : curve[d].attribute = f /\ x = <<"curve", d>>
      BY DEF OfCurves
    <3>2. \A x : x \in OfCurves(f)' <=> \E d \in Curves : curve'[d].attribute = f /\ x = <<"curve", d>>
      BY DEF OfCurves
    <3> QED
      BY <3>1, <3>2
  <2>6. t \in OfCurves(f) <=> f = old
    BY DEF OfCurves
  <2> HIDE DEF t
  <2> QED
    BY <2>2, <2>3, <2>4, <2>5, <2>6
<1> HIDE DEF t
<1> QED
  BY <1>1, CountsMove

LEMMA CallMoves ==
  ASSUME HeldTypes, CountsRight, conduct' = conduct, NEW k \in Calls, NEW call \in {NoCall} \cup CallToCome, NEW new, NEW old,
         due' = [due EXCEPT ![k] = call],
         new = (IF call = NoCall THEN NoFunction ELSE call.function),
         old = (IF due[k] = NoCall THEN NoFunction ELSE due[k].function),
         count' = Counted(new, old), UNCHANGED <<known, curve, routines, loop, factories, handler, payload>>
  PROVE  CountsRight'
<1> DEFINE t == <<"call", k>>
<1>1. ASSUME NEW f \in Functions
      PROVE  /\ Holders(f)' = (Holders(f) \ (IF f = old THEN {t} ELSE {})) \cup (IF f = new THEN {t} ELSE {})
             /\ f = old => t \in Holders(f)
             /\ f = new => t \notin Holders(f) \ (IF f = old THEN {t} ELSE {})
  <2>1. PICK Q : Q = Program(f) \cup OfCurves(f) \cup OfRoutines(f) \cup OfFactories(f) \cup OfHandler(f) \cup OfValues(f)
    OBVIOUS
  <2>2. t \notin Q
    BY <2>1, Tags
  <2>3. Holders(f) = OfCalls(f) \cup Q
    BY <2>1, HoldersAre
  <2>4. Holders(f)' = OfCalls(f)' \cup Q
    BY <2>1, HoldersAfter, PartsStay
  <2>0. \A j \in Calls : due'[j] = IF j = k THEN call ELSE due[j]
    BY DEF HeldTypes
  <2>7. f # NoFunction
    OBVIOUS
  <2>5. OfCalls(f)' = (OfCalls(f) \ (IF f = old THEN {t} ELSE {})) \cup (IF f = new THEN {t} ELSE {})
    <3>1. \A x : x \in OfCalls(f) <=> \E d \in Calls : due[d] # NoCall /\ due[d].function = f /\ x = <<"call", d>>
      BY DEF OfCalls
    <3>2. \A x : x \in OfCalls(f)' <=> \E d \in Calls : due'[d] # NoCall /\ due'[d].function = f /\ x = <<"call", d>>
      BY DEF OfCalls
    <3>3. due'[k] # NoCall /\ due'[k].function = f <=> f = new
      BY <2>0, <2>7
    <3>4. due[k] # NoCall /\ due[k].function = f <=> f = old
      BY <2>7
    <3> QED
      BY <2>0, <3>1, <3>2, <3>3, <3>4
  <2>6. t \in OfCalls(f) <=> f = old
    BY <2>7 DEF OfCalls
  <2> HIDE DEF t
  <2> QED
    BY <2>2, <2>3, <2>4, <2>5, <2>6
<1> HIDE DEF t
<1> QED
  BY <1>1, CountsMove

LEMMA ValueMoves ==
  ASSUME HeldTypes, CountsRight, conduct' = conduct, NEW v \in Values, NEW content, NEW new, NEW old,
         Hold(v, content, new, old),
         \A f \in Functions : (f = old <=> f = payload[v]) /\ (f = new <=> f = content)
  PROVE  CountsRight'
<1>0. /\ payload' = [payload EXCEPT ![v] = content]
      /\ count' = Counted(new, old) /\ UNCHANGED <<known, curve, due, routines, loop, factories, handler>>
  BY DEF Hold, curveVars, routineVars, handlerVars
<1> DEFINE t == <<"value", v>>
<1>1. ASSUME NEW f \in Functions
      PROVE  /\ Holders(f)' = (Holders(f) \ (IF f = old THEN {t} ELSE {})) \cup (IF f = new THEN {t} ELSE {})
             /\ f = old => t \in Holders(f)
             /\ f = new => t \notin Holders(f) \ (IF f = old THEN {t} ELSE {})
  <2>1. PICK Q : Q = Program(f) \cup OfCurves(f) \cup OfCalls(f) \cup OfRoutines(f) \cup OfFactories(f) \cup OfHandler(f)
    OBVIOUS
  <2>2. t \notin Q
    BY <2>1, Tags
  <2>3. Holders(f) = OfValues(f) \cup Q
    BY <2>1, HoldersAre
  <2>4. Holders(f)' = OfValues(f)' \cup Q
    BY <1>0, <2>1, HoldersAfter, PartsStay
  <2>0. \A w \in Values : payload'[w] = IF w = v THEN content ELSE payload[w]
    BY <1>0 DEF HeldTypes
  <2>5. OfValues(f)' = (OfValues(f) \ (IF f = old THEN {t} ELSE {})) \cup (IF f = new THEN {t} ELSE {})
    <3>1. \A x : x \in OfValues(f) <=> \E d \in Values : payload[d] = f /\ x = <<"value", d>>
      BY DEF OfValues
    <3>2. \A x : x \in OfValues(f)' <=> \E d \in Values : payload'[d] = f /\ x = <<"value", d>>
      BY DEF OfValues
    <3> QED
      BY <2>0, <3>1, <3>2
  <2>6. t \in OfValues(f) <=> f = old
    BY DEF OfValues
  <2> HIDE DEF t
  <2> QED
    BY <2>2, <2>3, <2>4, <2>5, <2>6
<1> HIDE DEF t
<1> QED
  BY <1>0, <1>1, CountsMove

\* The content of one value goes to another that has none.
LEMMA ContentMoves ==
  ASSUME HeldTypes, CountsRight, conduct' = conduct, NEW v \in Values, NEW w \in Values, v # w, payload[v] \notin Functions,
         payload' = [payload EXCEPT ![v] = payload[w], ![w] = NoFunction],
         count' = count, UNCHANGED <<known, curve, due, routines, loop, factories, handler>>
  PROVE  CountsRight'
<1> DEFINE a == <<"value", w>>
           b == <<"value", v>>
           g == payload[w]
<1>1. ASSUME NEW f \in Functions
      PROVE  /\ Holders(f)' = (Holders(f) \ (IF f = g THEN {a} ELSE {})) \cup (IF f = g THEN {b} ELSE {})
             /\ f = g => a \in Holders(f)
             /\ f = g => b \notin Holders(f) \ (IF f = g THEN {a} ELSE {})
  <2>1. PICK Q : Q = Program(f) \cup OfCurves(f) \cup OfCalls(f) \cup OfRoutines(f) \cup OfFactories(f) \cup OfHandler(f)
    OBVIOUS
  <2>2. a \notin Q /\ b \notin Q
    BY <2>1, Tags
  <2>3. Holders(f) = OfValues(f) \cup Q
    BY <2>1, HoldersAre
  <2>4. Holders(f)' = OfValues(f)' \cup Q
    BY <2>1, HoldersAfter, PartsStay
  <2>0. \A x \in Values : payload'[x] = IF x = w THEN NoFunction ELSE IF x = v THEN g ELSE payload[x]
    BY DEF HeldTypes
  <2>5. OfValues(f)' = (OfValues(f) \ (IF f = g THEN {a} ELSE {})) \cup (IF f = g THEN {b} ELSE {})
    <3>1. \A x : x \in OfValues(f) <=> \E d \in Values : payload[d] = f /\ x = <<"value", d>>
      BY DEF OfValues
    <3>2. \A x : x \in OfValues(f)' <=> \E d \in Values : payload'[d] = f /\ x = <<"value", d>>
      BY DEF OfValues
    <3>3. f # NoFunction /\ payload[v] # f
      OBVIOUS
    <3>4. CASE f = g
      <4>1. \A d \in Values : payload'[d] = f <=> d = v \/ (d # w /\ payload[d] = f)
        BY <2>0, <3>3, <3>4
      <4>2. \A x : x \in OfValues(f)' <=> x = b \/ \E d \in Values : d # w /\ payload[d] = f /\ x = <<"value", d>>
        BY <3>2, <4>1
      <4>3. \A d \in Values : <<"value", d>> # a <=> d # w
        OBVIOUS
      <4>4. \A x : x \in OfValues(f) /\ x # a <=> \E d \in Values : d # w /\ payload[d] = f /\ x = <<"value", d>>
        BY <3>1, <4>3
      <4> QED
        BY <3>4, <4>2, <4>4
    <3>5. CASE f # g
      <4>1. \A d \in Values : payload'[d] = f <=> payload[d] = f
        BY <2>0, <3>3, <3>5
      <4>2. OfValues(f)' = OfValues(f)
        BY <3>1, <3>2, <4>1
      <4> QED
        BY <3>5, <4>2
    <3> QED
      BY <3>4, <3>5
  <2>6. (a \in OfValues(f) <=> f = g) /\ b \notin OfValues(f)
    BY DEF OfValues
  <2> HIDE DEF a, b
  <2> QED
    BY <2>2, <2>3, <2>4, <2>5, <2>6
<1> HIDE DEF a, b
<1>2. PICK h : h = g
  OBVIOUS
<1>3. count' = Counted(h, h)
  <2>1. \A f \in Functions : count[f] + (IF f = h THEN 1 ELSE 0) - (IF f = h THEN 1 ELSE 0) = count[f]
    BY DEF HeldTypes
  <2>2. count = [f \in Functions |-> count[f]]
    BY DEF HeldTypes
  <2> QED
    BY <2>1, <2>2 DEF Counted
<1> QED
  BY <1>1, <1>2, <1>3, CountsMove

LEMMA RoutineAdded ==
  ASSUME HeldTypes, CountsRight, conduct' = conduct, NEW g \in Functions, loop.at = 0, loop' = loop,
         routines' = Append(routines, g), count' = Counted(g, NoFunction),
         UNCHANGED <<known, curve, due, factories, handler, payload>>
  PROVE  CountsRight'
<1>1. PICK l : l = Len(routines)
  OBVIOUS
<1>2. /\ l \in Nat /\ DOMAIN routines = 1..l /\ DOMAIN routines' = 1..(l + 1)
      /\ routines'[l + 1] = g /\ \A i \in 1..l : routines'[i] = routines[i]
  <2>1. routines \in Seq(Functions) /\ routines' \in Seq(Functions)
    BY AppendProperties DEF HeldTypes
  <2>2. Len(routines') = l + 1 /\ routines'[l + 1] = g /\ \A i \in 1..l : routines'[i] = routines[i]
    BY <1>1, <2>1, AppendProperties
  <2> QED
    BY <1>1, <2>1, <2>2, LenProperties
<1> DEFINE t == <<"routine", l + 1>>
<1>3. ASSUME NEW f \in Functions
      PROVE  /\ Holders(f)' = (Holders(f) \ (IF f = NoFunction THEN {t} ELSE {})) \cup (IF f = g THEN {t} ELSE {})
             /\ f = NoFunction => t \in Holders(f)
             /\ f = g => t \notin Holders(f) \ (IF f = NoFunction THEN {t} ELSE {})
  <2>1. PICK Q : Q = Program(f) \cup OfCurves(f) \cup OfCalls(f) \cup OfFactories(f) \cup OfHandler(f) \cup OfValues(f)
    OBVIOUS
  <2>2. t \notin Q
    BY <2>1, Tags
  <2>3. Holders(f) = OfRoutines(f) \cup Q
    BY <2>1, HoldersAre
  <2>4. Holders(f)' = OfRoutines(f)' \cup Q
    BY <2>1, HoldersAfter, PartsStay
  <2>5. \A x : x \in OfRoutines(f) <=> \E i \in 1..l : routines[i] = f /\ x = <<"routine", i>>
    BY <1>2 DEF OfRoutines
  <2>6. \A x : x \in OfRoutines(f)' <=> \E i \in 1..(l + 1) : routines'[i] = f /\ x = <<"routine", i>>
    BY <1>2 DEF OfRoutines
  <2>7. l + 1 \notin 1..l /\ l + 1 \in 1..(l + 1) /\ 1..l \subseteq 1..(l + 1) /\ \A i \in 1..(l + 1) : i \in 1..l \/ i = l + 1
    BY <1>2
  <2>8. \A x : x \in OfRoutines(f)' <=> x \in OfRoutines(f) \/ (g = f /\ x = t)
    BY <1>2, <2>5, <2>6, <2>7
  <2>9. t \notin OfRoutines(f)
    BY <2>5, <2>7
  <2>10. f # NoFunction
    OBVIOUS
  <2> HIDE DEF t
  <2> QED
    BY <2>2, <2>3, <2>4, <2>8, <2>9, <2>10
<1>4. Moves(t, t, NoFunction, g)
  BY <1>3 DEF Moves
<1> HIDE DEF t
<1> QED
  BY <1>4, CountsMoved

LEMMA FactoryAdded ==
  ASSUME HeldTypes, CountsRight, conduct' = conduct, NEW g \in Functions,
         factories' = Append(factories, g), count' = Counted(g, NoFunction),
         UNCHANGED <<known, curve, due, routines, loop, handler, payload>>
  PROVE  CountsRight'
<1>1. PICK l : l = Len(factories)
  OBVIOUS
<1>2. /\ l \in Nat /\ DOMAIN factories = 1..l /\ DOMAIN factories' = 1..(l + 1)
      /\ factories'[l + 1] = g /\ \A i \in 1..l : factories'[i] = factories[i]
  <2>1. factories \in Seq(Functions) /\ factories' \in Seq(Functions)
    BY AppendProperties DEF HeldTypes
  <2>2. Len(factories') = l + 1 /\ factories'[l + 1] = g /\ \A i \in 1..l : factories'[i] = factories[i]
    BY <1>1, <2>1, AppendProperties
  <2> QED
    BY <1>1, <2>1, <2>2, LenProperties
<1> DEFINE t == <<"factory", l + 1>>
<1>3. ASSUME NEW f \in Functions
      PROVE  /\ Holders(f)' = (Holders(f) \ (IF f = NoFunction THEN {t} ELSE {})) \cup (IF f = g THEN {t} ELSE {})
             /\ f = NoFunction => t \in Holders(f)
             /\ f = g => t \notin Holders(f) \ (IF f = NoFunction THEN {t} ELSE {})
  <2>1. PICK Q : Q = Program(f) \cup OfCurves(f) \cup OfCalls(f) \cup OfRoutines(f) \cup OfHandler(f) \cup OfValues(f)
    OBVIOUS
  <2>2. t \notin Q
    BY <2>1, Tags
  <2>3. Holders(f) = OfFactories(f) \cup Q
    BY <2>1, HoldersAre
  <2>4. Holders(f)' = OfFactories(f)' \cup Q
    BY <2>1, HoldersAfter, PartsStay
  <2>5. \A x : x \in OfFactories(f) <=> \E i \in 1..l : factories[i] = f /\ x = <<"factory", i>>
    BY <1>2 DEF OfFactories
  <2>6. \A x : x \in OfFactories(f)' <=> \E i \in 1..(l + 1) : factories'[i] = f /\ x = <<"factory", i>>
    BY <1>2 DEF OfFactories
  <2>7. l + 1 \notin 1..l /\ l + 1 \in 1..(l + 1) /\ 1..l \subseteq 1..(l + 1) /\ \A i \in 1..(l + 1) : i \in 1..l \/ i = l + 1
    BY <1>2
  <2>8. \A x : x \in OfFactories(f)' <=> x \in OfFactories(f) \/ (g = f /\ x = t)
    BY <1>2, <2>5, <2>6, <2>7
  <2>9. t \notin OfFactories(f)
    BY <2>5, <2>7
  <2>10. f # NoFunction
    OBVIOUS
  <2> HIDE DEF t
  <2> QED
    BY <2>2, <2>3, <2>4, <2>8, <2>9, <2>10
<1>4. Moves(t, t, NoFunction, g)
  BY <1>3 DEF Moves
<1> HIDE DEF t
<1> QED
  BY <1>4, CountsMoved

\* The loop over routines goes on.
LEMMA RoutineRun ==
  ASSUME HeldTypes, CountsRight, conduct' = conduct, NEW n \in Nat, n # 0, loop.at = n, n <= Len(routines), loop' = [loop EXCEPT !.at = @ + 1],
         count' = Counted(NoFunction, routines[n]), UNCHANGED <<known, curve, due, routines, factories, handler, payload>>
  PROVE  CountsRight'
<1>1. PICK l, g : l = Len(routines) /\ g = routines[n]
  OBVIOUS
<1>2. /\ l \in Nat /\ DOMAIN routines = 1..l /\ n \in 1..l /\ loop'.at = n + 1 /\ g \in Functions
  <2>1. routines \in Seq(Functions) /\ loop \in [at : Nat, end : Nat]
    BY DEF HeldTypes
  <2>2. l \in Nat /\ DOMAIN routines = 1..l
    BY <1>1, <2>1, LenProperties
  <2>3. n \in 1..l
    BY <1>1, <2>2
  <2>4. g \in Functions
    BY <1>1, <2>1, <2>3, ElementOfSeq
  <2> QED
    BY <2>1, <2>2, <2>3, <2>4
<1> DEFINE t == <<"routine", n>>
<1>3. ASSUME NEW f \in Functions
      PROVE  /\ Holders(f)' = (Holders(f) \ (IF f = g THEN {t} ELSE {})) \cup (IF f = NoFunction THEN {t} ELSE {})
             /\ f = g => t \in Holders(f)
             /\ f = NoFunction => t \notin Holders(f) \ (IF f = g THEN {t} ELSE {})
  <2>1. PICK Q : Q = Program(f) \cup OfCurves(f) \cup OfCalls(f) \cup OfFactories(f) \cup OfHandler(f) \cup OfValues(f)
    OBVIOUS
  <2>2. t \notin Q
    BY <2>1, Tags
  <2>3. Holders(f) = OfRoutines(f) \cup Q
    BY <2>1, HoldersAre
  <2>4. Holders(f)' = OfRoutines(f)' \cup Q
    BY <2>1, HoldersAfter, PartsStay
  <2>5. \A x : x \in OfRoutines(f) <=> \E i \in 1..l : routines[i] = f /\ i >= n /\ x = <<"routine", i>>
    BY <1>2 DEF OfRoutines
  <2>6. \A x : x \in OfRoutines(f)' <=> \E i \in 1..l : routines[i] = f /\ i >= n + 1 /\ x = <<"routine", i>>
    BY <1>2 DEF OfRoutines
  <2>7. \A i \in 1..l : i >= n <=> i = n \/ i >= n + 1
    BY <1>2
  <2>8. \A x : x \in OfRoutines(f) <=> x \in OfRoutines(f)' \/ (f = g /\ x = t)
    BY <1>1, <1>2, <2>5, <2>6, <2>7
  <2>9. t \notin OfRoutines(f)'
    <3>1. ~(n >= n + 1)
      OBVIOUS
    <3> QED
      BY <2>6, <3>1
  <2>10. f # NoFunction
    OBVIOUS
  <2> HIDE DEF t
  <2> QED
    BY <2>2, <2>3, <2>4, <2>8, <2>9, <2>10
<1>4. Moves(t, t, g, NoFunction)
  BY <1>3 DEF Moves
<1> HIDE DEF t
<1> QED
  BY <1>1, <1>4, CountsMoved

\* The handler is another one, and the program takes the old one or not.
LEMMA HandlerMoves ==
  ASSUME HeldTypes, CountsRight, conduct' = conduct, NEW new \in Maybe, handler' = new, ReturnsOld(new),
         new \in known \cup {NoFunction},
         UNCHANGED <<curve, due, routines, loop, factories, payload>>
  PROVE  CountsRight'
<1>1. PICK old : old = handler
  OBVIOUS
<1> DEFINE t == <<"handler">>
           p == <<"program">>
<1>2. ASSUME NEW f \in Functions
      PROVE  \E Q : /\ t \notin Q /\ p \notin Q /\ t # p
                    /\ Holders(f) = Q \cup (IF f \in known THEN {p} ELSE {}) \cup (IF f = old THEN {t} ELSE {})
                    /\ Holders(f)' = Q \cup (IF f \in known' THEN {p} ELSE {}) \cup (IF f = new THEN {t} ELSE {})
  <2>1. PICK Q : Q = OfCurves(f) \cup OfCalls(f) \cup OfRoutines(f) \cup OfFactories(f) \cup OfValues(f)
    OBVIOUS
  <2>2. t \notin Q /\ p \notin Q /\ t # p
    BY <2>1, Tags
  <2>3. Holders(f) = Q \cup Program(f) \cup OfHandler(f)
    BY <2>1, HoldersAre
  <2>4. Holders(f)' = Q \cup Program(f)' \cup OfHandler(f)'
    BY <2>1, HoldersAfter, PartsStay
  <2>5. /\ Program(f) = (IF f \in known THEN {p} ELSE {}) /\ Program(f)' = (IF f \in known' THEN {p} ELSE {})
        /\ OfHandler(f) = (IF f = old THEN {t} ELSE {}) /\ OfHandler(f)' = (IF f = new THEN {t} ELSE {})
    BY <1>1 DEF Program, OfHandler
  <2> HIDE DEF t, p
  <2> QED
    BY <2>2, <2>3, <2>4, <2>5
<1> HIDE DEF t, p
<1>3. CASE known' = known /\ count' = Counted(new, old)
  <2>1. ASSUME NEW f \in Functions
        PROVE  /\ Holders(f)' = (Holders(f) \ (IF f = old THEN {t} ELSE {})) \cup (IF f = new THEN {t} ELSE {})
               /\ f = old => t \in Holders(f)
               /\ f = new => t \notin Holders(f) \ (IF f = old THEN {t} ELSE {})
    BY <1>2, <1>3
  <2> QED
    BY <1>3, <2>1, CountsMove
<1>4. CASE old # NoFunction /\ old \notin known /\ known' = known \cup {old} /\ count' = Counted(new, NoFunction)
  <2>1. ASSUME NEW f \in Functions
        PROVE  /\ IsFiniteSet(Holders(f)') /\ count'[f] >= Cardinality(Holders(f)')
               /\ Exact => count'[f] = Cardinality(Holders(f)')
    <3>1. PICK Q : /\ t \notin Q /\ p \notin Q /\ t # p
                   /\ Holders(f) = Q \cup (IF f \in known THEN {p} ELSE {}) \cup (IF f = old THEN {t} ELSE {})
                   /\ Holders(f)' = Q \cup (IF f \in known' THEN {p} ELSE {}) \cup (IF f = new THEN {t} ELSE {})
      BY <1>2
    <3>2. f # NoFunction /\ new # old
      BY <1>4
    <3>3. CASE f = old
      <4>1. PICK H, I : H = Holders(f) /\ I = Holders(f)'
        OBVIOUS
      <4>2. I = (H \ {t}) \cup {p} /\ t \in H /\ p \notin H \ {t}
        BY <1>4, <3>1, <3>2, <3>3, <4>1
      <4>3. /\ IsFiniteSet(H) /\ count[f] >= Cardinality(H) /\ (Exact => count[f] = Cardinality(H))
            /\ Cardinality(H) \in Nat
        BY <4>1, FS_CardinalityType DEF CountsRight
      <4>4. IsFiniteSet(H \ {t}) /\ Cardinality(H \ {t}) = Cardinality(H) - 1
        BY <4>2, <4>3, FS_RemoveElement
      <4>5. IsFiniteSet(I) /\ Cardinality(I) = Cardinality(H) - 1 + 1
        BY <4>2, <4>4, FS_AddElement
      <4>6. count'[f] = count[f] + 0 - 0
        BY <1>4, <3>2, <3>3 DEF Counted
      <4>7. count[f] \in Int
        BY DEF HeldTypes
      <4> QED
        BY <4>1, <4>3, <4>5, <4>6, <4>7
    <3>4. CASE f # old
      <4>1. /\ Holders(f)' = (Holders(f) \ (IF f = NoFunction THEN {t} ELSE {})) \cup (IF f = new THEN {t} ELSE {})
            /\ t \notin Holders(f)
        BY <1>4, <3>1, <3>2, <3>4
      <4>2. /\ IsFiniteSet(Holders(f)) /\ count[f] >= Cardinality(Holders(f))
            /\ Exact => count[f] = Cardinality(Holders(f))
        BY DEF CountsRight
      <4> QED
        BY <1>4, <3>2, <4>1, <4>2, Recount
    <3> QED
      BY <3>3, <3>4
  <2> QED
    BY <2>1 DEF CountsRight, Exact
<1> QED
  BY <1>1, <1>3, <1>4 DEF ReturnsOld

\* The references of the factories are released, one for each place in the list.
LEMMA FactoriesGone ==
  ASSUME HeldTypes, CountsRight, conduct' = conduct, factories' = <<>>, count' = cleanup,
         \A f \in Functions : OfRoutines(f)' = OfRoutines(f),
         UNCHANGED <<known, curve, due, handler, payload>>
  PROVE  CountsRight'
<1>1. ASSUME NEW f \in Functions
      PROVE  /\ IsFiniteSet(Holders(f)') /\ count'[f] >= Cardinality(Holders(f)')
             /\ Exact => count'[f] = Cardinality(Holders(f)')
  <2>1. PICK Q, F, P : /\ Q = Program(f) \cup OfCurves(f) \cup OfCalls(f) \cup OfRoutines(f) \cup OfHandler(f) \cup OfValues(f)
                       /\ F = OfFactories(f) /\ P = {i \in DOMAIN factories : factories[i] = f}
    OBVIOUS
  <2>2. Q \cap F = {}
    BY <2>1, Tags
  <2>3. Holders(f) = Q \cup F
    BY <2>1, HoldersAre
  <2>4. OfFactories(f)' = {}
    BY DEF OfFactories
  <2>5. Holders(f)' = Q
    BY <2>1, <2>4, HoldersAfter, PartsStay
  <2>6. /\ IsFiniteSet(Q \cup F) /\ count[f] >= Cardinality(Q \cup F)
        /\ Exact => count[f] = Cardinality(Q \cup F)
    BY <2>3 DEF CountsRight
  <2>7. IsFiniteSet(Q) /\ IsFiniteSet(F)
    BY <2>6, FS_Subset
  <2>8. Cardinality(Q \cup F) = Cardinality(Q) + Cardinality(F)
    <3>1. Cardinality(Q \cup F) = Cardinality(Q) + Cardinality(F) - Cardinality(Q \cap F)
      BY <2>7, FS_Union
    <3>2. Cardinality(Q \cap F) = 0
      BY <2>2, FS_EmptySet
    <3>3. Cardinality(Q) \in Nat /\ Cardinality(F) \in Nat
      BY <2>7, FS_CardinalityType
    <3> QED
      BY <3>1, <3>2, <3>3
  <2>9. Cardinality(P) = Cardinality(F)
    <3> DEFINE g == [i \in P |-> <<"factory", i>>]
    <3>1. F = {<<"factory", i>> : i \in P}
      BY <2>1 DEF OfFactories
    <3>2. g \in [P -> F]
      BY <3>1
    <3>3. \A i, j \in P : g[i] = g[j] => i = j
      OBVIOUS
    <3>4. \A t \in F : \E i \in P : g[i] = t
      BY <3>1
    <3>5. g \in Bijection(P, F)
      BY <3>2, <3>3, <3>4 DEF Bijection, Injection, Surjection, IsInjective
    <3>6. IsFiniteSet(P)
      <4>1. factories \in Seq(Functions)
        BY DEF HeldTypes
      <4>2. Len(factories) \in Nat /\ DOMAIN factories = 1..Len(factories)
        BY <4>1, LenProperties
      <4>3. IsFiniteSet(1..Len(factories)) /\ P \in SUBSET (1..Len(factories))
        BY <2>1, <4>2, FS_Interval
      <4> QED
        BY <4>3, FS_Subset
    <3>7. ExistsBijection(P, F)
      BY <3>5 DEF ExistsBijection
    <3> QED
      BY <3>6, <3>7, FS_Bijection
  <2>10. count'[f] = count[f] - Cardinality(P)
    BY <2>1 DEF cleanup
  <2>11. Cardinality(Q) \in Nat /\ Cardinality(F) \in Nat /\ count[f] \in Int
    BY <2>7, FS_CardinalityType DEF HeldTypes
  <2> QED
    BY <2>5, <2>6, <2>7, <2>8, <2>9, <2>10, <2>11
<1> QED
  BY <1>1 DEF CountsRight, Exact

-----------------------------------------------------------------------------
(* Steps *)

\* What nobody touches stays right.
LEMMA RestStays ==
  /\ CurvesRight /\ UNCHANGED <<conduct, curveVars>> => CurvesRight'
  /\ RoutinesRight /\ UNCHANGED <<conduct, routineVars>> => RoutinesRight'
  /\ HandlerRight /\ UNCHANGED <<conduct, handlerVars>> => HandlerRight'
  /\ ErrorRight /\ UNCHANGED <<conduct, error>> => ErrorRight'
BY DEF CurvesRight, RoutinesRight, HandlerRight, ErrorRight, curveVars, routineVars, handlerVars

LEMMA NothingMoves ==
  ASSUME CountsRight, UNCHANGED <<conduct, count, known, curve, due, routines, loop, factories, handler, payload>>
  PROVE  CountsRight'
<1>1. \A f \in Functions : Holders(f)' = Holders(f)
  BY HoldersAre, HoldersAfter, PartsStay
<1> QED
  BY <1>1, CountsStay

LEMMA NoErrorLeft == ASSUME ErrorRight, conduct' = conduct, error \in BOOLEAN, MayLeaveError PROVE ErrorRight'
BY DEF ErrorRight, MayLeaveError

LEMMA ErrorType == ASSUME error \in BOOLEAN, MayLeaveError PROVE error' \in BOOLEAN
BY DEF MayLeaveError

Rests == HeldTypes /\ CountsRight /\ CurvesRight /\ RoutinesRight /\ HandlerRight /\ ErrorRight
RestsAfter == CountsRight' /\ CurvesRight' /\ RoutinesRight' /\ HandlerRight' /\ ErrorRight'

LEMMA Combine == ASSUME HeldInv, HeldTypes', Rests => RestsAfter PROVE HeldInv'
BY DEF HeldInv, Rests, RestsAfter

LEMMA DefineKeeps == ASSUME HeldInv, NEW f \in Functions, Define(f) \/ LetGo(f) PROVE HeldInv'
<1>1. /\ conduct' = conduct
      /\ UNCHANGED <<curveVars, due, routineVars, handlerVars, payload, error>>
  BY DEF Define, LetGo
<1>2. PICK new \in Maybe, old \in Maybe :
         /\ \/ new = f /\ old = NoFunction /\ f \notin known /\ known' = known \cup {f}
            \/ new = NoFunction /\ old = f /\ f \in known /\ known' = known \ {f}
         /\ count' = Counted(new, old)
  BY DEF Define, LetGo, Maybe
<1>3. HeldTypes'
  <2>1. count' \in [Functions -> Int] /\ known' \subseteq Functions
    BY <1>2, CountedType DEF HeldInv, HeldTypes
  <2> QED
    BY <1>1, <2>1 DEF HeldInv, HeldTypes, curveVars, routineVars, handlerVars
<1>4. ASSUME Rests PROVE RestsAfter
  <2>1. CountsRight'
    BY <1>1, <1>2, <1>4, ProgramMoves DEF Rests, curveVars, routineVars, handlerVars
  <2> QED
    BY <1>1, <1>4, <2>1, RestStays DEF Rests, RestsAfter
<1> QED
  BY <1>1, <1>3, <1>4, Combine

LEMMA NewCurveKeeps == ASSUME HeldInv, NEW c \in Curves, NewCurve(c) PROVE HeldInv'
<1>1. /\ conduct' = conduct /\ curve' = [curve EXCEPT ![c].alive = TRUE] /\ ~curve[c].alive
      /\ UNCHANGED <<count, known, custom, animation, due, routineVars, handlerVars, payload, error>>
  BY DEF NewCurve
<1>2. curve \in [Curves -> [alive : BOOLEAN, attribute : Maybe, custom : 0..MaxFunctions]]
  BY DEF HeldInv, HeldTypes
<1>3. /\ curve' \in [Curves -> [alive : BOOLEAN, attribute : Maybe, custom : 0..MaxFunctions]]
      /\ \A d \in Curves : /\ curve'[d].attribute = curve[d].attribute /\ curve'[d].custom = curve[d].custom
                           /\ curve[d].alive => curve'[d].alive
  <2>1. \A d \in Curves : curve'[d] = IF d = c THEN [curve[c] EXCEPT !.alive = TRUE] ELSE curve[d]
    BY <1>1, <1>2
  <2>2. DOMAIN curve' = Curves /\ curve' = [d \in Curves |-> curve'[d]]
    BY <1>1, <1>2
  <2>3. /\ curve[c] \in [alive : BOOLEAN, attribute : Maybe, custom : 0..MaxFunctions]
        /\ [curve[c] EXCEPT !.alive = TRUE] \in [alive : BOOLEAN, attribute : Maybe, custom : 0..MaxFunctions]
        /\ [curve[c] EXCEPT !.alive = TRUE].attribute = curve[c].attribute
        /\ [curve[c] EXCEPT !.alive = TRUE].custom = curve[c].custom
        /\ [curve[c] EXCEPT !.alive = TRUE].alive
    <3>1. PICK r : r = curve[c] /\ r \in [alive : BOOLEAN, attribute : Maybe, custom : 0..MaxFunctions]
      BY <1>2
    <3>2. /\ [r EXCEPT !.alive = TRUE] \in [alive : BOOLEAN, attribute : Maybe, custom : 0..MaxFunctions]
          /\ [r EXCEPT !.alive = TRUE].attribute = r.attribute
          /\ [r EXCEPT !.alive = TRUE].custom = r.custom
          /\ [r EXCEPT !.alive = TRUE].alive
      BY <3>1
    <3> QED
      BY <3>1, <3>2
  <2>4. \A d \in Curves : curve'[d] \in [alive : BOOLEAN, attribute : Maybe, custom : 0..MaxFunctions]
    BY <1>2, <2>1, <2>3
  <2>5. curve' \in [Curves -> [alive : BOOLEAN, attribute : Maybe, custom : 0..MaxFunctions]]
    BY <2>2, <2>4
  <2> QED
    BY <2>1, <2>3, <2>5
<1>4. HeldTypes'
  BY <1>1, <1>3 DEF HeldInv, HeldTypes, routineVars, handlerVars
<1>5. ASSUME Rests PROVE RestsAfter
  <2>1. \A f : OfCurves(f)' = OfCurves(f)
    BY <1>3 DEF OfCurves
  <2>2. \A f \in Functions : Holders(f)' = Holders(f)
    BY <1>1, <2>1, HoldersAre, HoldersAfter, PartsStay DEF routineVars, handlerVars
  <2>3. CountsRight'
    BY <1>1, <1>5, <2>2, CountsStay DEF Rests
  <2>4. CurvesRight'
    BY <1>1, <1>3, <1>5 DEF Rests, CurvesRight
  <2> QED
    BY <1>1, <1>5, <2>3, <2>4, RestStays DEF Rests, RestsAfter
<1> QED
  BY <1>1, <1>4, <1>5, Combine

LEMMA SetCustomTypeKeeps ==
  ASSUME HeldInv, NEW c \in Curves, NEW f \in Functions, SetCustomType(c, f)
  PROVE  HeldInv'
<1> DEFINE free == CHOOSE j \in FreeSlots(c) : \A k \in FreeSlots(c) : j <= k
<1>1. /\ conduct' = conduct /\ curve[c].alive
      /\ "copies" \in conduct \/ animation.of # c
      /\ FreeSlots(c) # {}
      /\ custom' = [custom EXCEPT ![free] = [parent |-> c, function |-> f]]
      /\ curve' = [curve EXCEPT ![c].attribute = f, ![c].custom = free]
      /\ count' = Counted(f, curve[c].attribute)
      /\ UNCHANGED <<known, animation, due, routineVars, handlerVars, payload, error>>
  BY DEF SetCustomType
<1>2. PICK i : i = free
  OBVIOUS
<1>3. i \in 1..MaxFunctions /\ custom[i] = FreeSlot /\ i # 0
  <2>1. FreeSlots(c) \in SUBSET Nat
    BY DEF FreeSlots
  <2>2. \E j \in FreeSlots(c) : \A k \in FreeSlots(c) : j <= k
    BY <1>1, <2>1, LeastNumber
  <2>3. i \in FreeSlots(c)
    BY <1>2, <2>2
  <2> QED
    BY <2>3 DEF FreeSlots
<1> HIDE DEF free
<1>4. /\ curve \in [Curves -> [alive : BOOLEAN, attribute : Maybe, custom : 0..MaxFunctions]]
      /\ custom \in [1..MaxFunctions -> [parent : Curves \cup {NoFunction}, function : Maybe]]
      /\ f \in Maybe
  BY DEF HeldInv, HeldTypes, Maybe
<1>5. /\ curve' \in [Curves -> [alive : BOOLEAN, attribute : Maybe, custom : 0..MaxFunctions]]
      /\ curve'[c].alive /\ curve'[c].attribute = f /\ curve'[c].custom = i
      /\ \A d \in Curves : d # c => curve'[d] = curve[d]
  <2>1. i \in 0..MaxFunctions
    BY <1>3
  <2>2. curve' = [curve EXCEPT ![c].attribute = f, ![c].custom = i]
    BY <1>1, <1>2
  <2> DEFINE T == [alive : BOOLEAN, attribute : Maybe, custom : 0..MaxFunctions]
  <2>3. PICK r : r = curve[c]
    OBVIOUS
  <2>4. r \in T /\ r.alive
    BY <1>1, <1>4, <2>3
  <2>5. PICK q : q = [r EXCEPT !.attribute = f, !.custom = i]
    OBVIOUS
  <2>6. q \in T /\ q.alive /\ q.attribute = f /\ q.custom = i
    BY <1>4, <2>1, <2>4, <2>5
  <2>7. curve \in [Curves -> T]
    BY <1>4
  <2>8. curve' = [curve EXCEPT ![c] = q]
    BY <2>2, <2>3, <2>5, <2>7
  <2> HIDE DEF T
  <2>9. curve' \in [Curves -> T] /\ curve'[c] = q /\ \A d \in Curves : d # c => curve'[d] = curve[d]
    BY <2>6, <2>7, <2>8
  <2> QED
    BY <2>6, <2>9 DEF T
<1>6. /\ custom' \in [1..MaxFunctions -> [parent : Curves \cup {NoFunction}, function : Maybe]]
      /\ \A j \in 1..MaxFunctions : custom'[j] = IF j = i THEN [parent |-> c, function |-> f] ELSE custom[j]
  BY <1>1, <1>2, <1>3, <1>4
<1>7. count' \in [Functions -> Int]
  BY <1>1, CountedType DEF HeldInv
<1>8. HeldTypes'
  BY <1>1, <1>5, <1>6, <1>7 DEF HeldInv, HeldTypes, routineVars, handlerVars
<1>9. ASSUME Rests PROVE RestsAfter
  <2>1. CountsRight'
    <3>1. PICK old : old = curve[c].attribute
      OBVIOUS
    <3>2. \A d \in Curves : curve'[d].attribute = IF d = c THEN f ELSE curve[d].attribute
      BY <1>5
    <3>3. count' = Counted(f, old) /\ UNCHANGED <<known, due, routines, loop, factories, handler, payload>>
      BY <1>1, <3>1 DEF routineVars, handlerVars
    <3> QED
      BY <1>1, <1>9, <3>1, <3>2, <3>3, CurveMoves DEF Rests
  <2>2. "copies" \notin conduct => animation.of # c
    BY <1>1
  <2>3. \A d \in Curves : d # c /\ curve[d].custom # 0 => curve[d].custom # i
    <3> SUFFICES ASSUME NEW d \in Curves, d # c, curve[d].custom # 0, curve[d].custom = i PROVE FALSE
      OBVIOUS
    <3>1. curve[d].attribute \in Functions /\ custom[i] = [parent |-> d, function |-> curve[d].attribute]
      BY <1>9 DEF Rests, CurvesRight
    <3>2. custom[i].function = curve[d].attribute /\ custom[i].function = NoFunction
      BY <1>3, <3>1 DEF FreeSlot
    <3> QED
      BY <3>1, <3>2
  <2>4. CurvesRight'
    <3>1. ASSUME NEW d \in Curves, curve'[d].custom # 0
          PROVE  /\ curve'[d].alive /\ curve'[d].attribute \in Functions
                 /\ custom'[curve'[d].custom] = [parent |-> d, function |-> curve'[d].attribute]
      <4>1. CASE d = c
        BY <1>3, <1>5, <1>6, <4>1
      <4>2. CASE d # c
        <5>1. curve'[d] = curve[d] /\ curve[d].custom # 0 /\ curve[d].custom # i /\ curve[d].custom \in 1..MaxFunctions
          BY <1>4, <1>5, <2>3, <3>1, <4>2
        <5>2. custom'[curve[d].custom] = custom[curve[d].custom]
          BY <1>6, <5>1
        <5> QED
          BY <1>9, <5>1, <5>2 DEF Rests, CurvesRight
      <4> QED
        BY <4>1, <4>2
    <3>2. ASSUME "copies" \notin conduct', animation'.custom # 0
          PROVE  /\ animation'.of \in Curves /\ curve'[animation'.of].custom = animation'.custom
                 /\ curve'[animation'.of].attribute = animation'.wanted
      BY <1>1, <1>5, <1>9, <2>2, <3>2 DEF Rests, CurvesRight
    <3>3. ASSUME NEW j \in 1..MaxFunctions, custom'[j] # FreeSlot
          PROVE  custom'[j].parent \in Curves /\ curve'[custom'[j].parent].alive
      <4>1. CASE j = i
        BY <1>5, <1>6, <4>1
      <4>2. CASE j # i
        BY <1>5, <1>6, <1>9, <3>3, <4>2 DEF Rests, CurvesRight
      <4> QED
        BY <4>1, <4>2
    <3> QED
      BY <3>1, <3>2, <3>3 DEF CurvesRight, FreeSlot
  <2> QED
    BY <1>1, <1>9, <2>1, <2>4, RestStays DEF Rests, RestsAfter
<1> QED
  BY <1>1, <1>8, <1>9, Combine

LEMMA DropCurveKeeps == ASSUME HeldInv, NEW c \in Curves, DropCurve(c) PROVE HeldInv'
<1>1. /\ conduct' = conduct /\ curve[c].alive
      /\ "copies" \in conduct \/ animation.of # c
      /\ custom' = Deleted(c) /\ curve' = [curve EXCEPT ![c] = NoCurve]
      /\ count' = Counted(NoFunction, curve[c].attribute)
      /\ UNCHANGED <<known, animation, due, routineVars, handlerVars, payload, error>>
  BY DEF DropCurve
<1>2. /\ curve \in [Curves -> [alive : BOOLEAN, attribute : Maybe, custom : 0..MaxFunctions]]
      /\ custom \in [1..MaxFunctions -> [parent : Curves \cup {NoFunction}, function : Maybe]]
  BY DEF HeldInv, HeldTypes
<1>3. /\ NoCurve \in [alive : BOOLEAN, attribute : Maybe, custom : 0..MaxFunctions]
      /\ NoCurve.alive = FALSE /\ NoCurve.custom = 0 /\ NoCurve.attribute = NoFunction
      /\ FreeSlot \in [parent : Curves \cup {NoFunction}, function : Maybe]
  BY DEF NoCurve, FreeSlot, Maybe
<1>4. /\ curve' \in [Curves -> [alive : BOOLEAN, attribute : Maybe, custom : 0..MaxFunctions]]
      /\ \A d \in Curves : curve'[d] = IF d = c THEN NoCurve ELSE curve[d]
  BY <1>1, <1>2, <1>3
<1>5. /\ custom' \in [1..MaxFunctions -> [parent : Curves \cup {NoFunction}, function : Maybe]]
      /\ \A j \in 1..MaxFunctions : custom'[j] = IF custom[j].parent = c THEN FreeSlot ELSE custom[j]
  BY <1>1, <1>2, <1>3 DEF Deleted
<1>6. count' \in [Functions -> Int]
  BY <1>1, CountedType DEF HeldInv
<1>7. HeldTypes'
  BY <1>1, <1>4, <1>5, <1>6 DEF HeldInv, HeldTypes, routineVars, handlerVars
<1>8. ASSUME Rests PROVE RestsAfter
  <2>1. CountsRight'
    <3>1. PICK old : old = curve[c].attribute
      OBVIOUS
    <3>2. \A d \in Curves : curve'[d].attribute = IF d = c THEN NoFunction ELSE curve[d].attribute
      BY <1>3, <1>4
    <3>3. count' = Counted(NoFunction, old) /\ UNCHANGED <<known, due, routines, loop, factories, handler, payload>>
      BY <1>1, <3>1 DEF routineVars, handlerVars
    <3> QED
      BY <1>1, <1>8, <3>1, <3>2, <3>3, CurveMoves DEF Rests
  <2>2. "copies" \notin conduct => animation.of # c
    BY <1>1
  <2>3. CurvesRight'
    <3>1. ASSUME NEW d \in Curves, curve'[d].custom # 0
          PROVE  /\ curve'[d].alive /\ curve'[d].attribute \in Functions
                 /\ custom'[curve'[d].custom] = [parent |-> d, function |-> curve'[d].attribute]
      <4>1. d # c /\ curve'[d] = curve[d]
        BY <1>3, <1>4, <3>1
      <4>2. /\ curve[d].custom \in 1..MaxFunctions /\ curve[d].alive /\ curve[d].attribute \in Functions
            /\ custom[curve[d].custom] = [parent |-> d, function |-> curve[d].attribute]
        BY <1>2, <1>8, <3>1, <4>1 DEF Rests, CurvesRight
      <4>3. custom'[curve[d].custom] = custom[curve[d].custom]
        BY <1>5, <4>1, <4>2
      <4> QED
        BY <4>1, <4>2, <4>3
    <3>2. ASSUME "copies" \notin conduct', animation'.custom # 0
          PROVE  /\ animation'.of \in Curves /\ curve'[animation'.of].custom = animation'.custom
                 /\ curve'[animation'.of].attribute = animation'.wanted
      BY <1>1, <1>4, <1>8, <2>2, <3>2 DEF Rests, CurvesRight
    <3>3. ASSUME NEW j \in 1..MaxFunctions, custom'[j] # FreeSlot
          PROVE  custom'[j].parent \in Curves /\ curve'[custom'[j].parent].alive
      <4>1. custom[j].parent # c /\ custom'[j] = custom[j] /\ custom[j] # FreeSlot
        BY <1>5, <3>3
      <4>2. custom[j].parent \in Curves /\ curve[custom[j].parent].alive
        BY <1>8, <4>1 DEF Rests, CurvesRight
      <4> QED
        BY <1>4, <4>1, <4>2
    <3> QED
      BY <3>1, <3>2, <3>3 DEF CurvesRight, FreeSlot
  <2> QED
    BY <1>1, <1>8, <2>1, <2>3, RestStays DEF Rests, RestsAfter
<1> QED
  BY <1>1, <1>7, <1>8, Combine

LEMMA CopyCurveKeeps == ASSUME HeldInv, NEW c \in Curves, CopyCurve(c) PROVE HeldInv'
<1>1. /\ conduct' = conduct /\ curve[c].custom # 0
      /\ animation' = [of |-> c, custom |-> curve[c].custom, wanted |-> curve[c].attribute]
      /\ UNCHANGED <<count, known, curve, custom, due, routineVars, handlerVars, payload, error>>
  BY DEF CopyCurve
<1>2. curve[c] \in [alive : BOOLEAN, attribute : Maybe, custom : 0..MaxFunctions]
  BY DEF HeldInv, HeldTypes
<1>3. animation' \in [of : Curves \cup {NoFunction}, custom : 0..MaxFunctions, wanted : Maybe]
  BY <1>1, <1>2
<1>4. HeldTypes'
  BY <1>1, <1>3 DEF HeldInv, HeldTypes, routineVars, handlerVars
<1>5. ASSUME Rests PROVE RestsAfter
  <2>1. CurvesRight'
    BY <1>1, <1>5 DEF Rests, CurvesRight
  <2>2. CountsRight'
    BY <1>1, <1>5, NothingMoves DEF Rests, routineVars, handlerVars
  <2> QED
    BY <1>1, <1>5, <2>1, <2>2, RestStays DEF Rests, RestsAfter
<1> QED
  BY <1>1, <1>4, <1>5, Combine

LEMMA DropAnimationKeeps == ASSUME HeldInv, DropAnimation PROVE HeldInv'
<1>1. /\ conduct' = conduct /\ animation' = NoAnimation
      /\ UNCHANGED <<count, known, curve, custom, due, routineVars, handlerVars, payload, error>>
  BY DEF DropAnimation
<1>2. animation' \in [of : Curves \cup {NoFunction}, custom : 0..MaxFunctions, wanted : Maybe] /\ animation'.custom = 0
  BY <1>1 DEF NoAnimation, Maybe
<1>3. HeldTypes'
  BY <1>1, <1>2 DEF HeldInv, HeldTypes, routineVars, handlerVars
<1>4. ASSUME Rests PROVE RestsAfter
  <2>1. CurvesRight'
    BY <1>1, <1>2, <1>4 DEF Rests, CurvesRight
  <2>2. CountsRight'
    BY <1>1, <1>4, NothingMoves DEF Rests, routineVars, handlerVars
  <2> QED
    BY <1>1, <1>4, <2>1, <2>2, RestStays DEF Rests, RestsAfter
<1> QED
  BY <1>1, <1>3, <1>4, Combine

\* Something is called: nothing else changes.
LEMMA CallingKeeps == ASSUME HeldInv, Ease \/ callFactories PROVE HeldInv'
<1>1. /\ conduct' = conduct /\ MayLeaveError
      /\ UNCHANGED <<count, known, curveVars, due, routineVars, handlerVars, payload>>
  BY DEF Ease, callFactories
<1>2. error \in BOOLEAN /\ error' \in BOOLEAN
  BY <1>1, ErrorType DEF HeldInv, HeldTypes
<1>3. HeldTypes'
  BY <1>1, <1>2 DEF HeldInv, HeldTypes, curveVars, routineVars, handlerVars
<1>4. ASSUME Rests PROVE RestsAfter
  <2>1. ErrorRight'
    BY <1>1, <1>2, <1>4, NoErrorLeft DEF Rests
  <2>2. CountsRight'
    BY <1>1, <1>4, NothingMoves DEF Rests, curveVars, routineVars, handlerVars
  <2> QED
    BY <1>1, <1>4, <2>1, <2>2, RestStays DEF Rests, RestsAfter
<1> QED
  BY <1>1, <1>3, <1>4, Combine

\* A callable is held by a call to come; the error may be set.
LEMMA TakeKeeps ==
  ASSUME HeldInv, NEW k \in Calls, NEW kind \in Kinds, NEW f \in Functions, Take(k, kind, f),
         error' \in BOOLEAN, ErrorRight'
  PROVE  HeldInv'
<1> DEFINE call == [kind |-> kind, function |-> f, running |-> FALSE]
<1>1. /\ conduct' = conduct /\ due[k] = NoCall
      /\ due' = [due EXCEPT ![k] = call] /\ count' = Counted(f, NoFunction)
      /\ UNCHANGED <<known, curveVars, routineVars, handlerVars, payload>>
  BY DEF Take
<1>2. call \in CallToCome /\ call # NoCall /\ call.function = f
  BY DEF CallToCome, NoCall, Kinds
<1> HIDE DEF call
<1>3. due' \in [Calls -> {NoCall} \cup CallToCome] /\ count' \in [Functions -> Int]
  BY <1>1, <1>2, CountedType DEF HeldInv, HeldTypes
<1>4. HeldTypes'
  BY <1>1, <1>3 DEF HeldInv, HeldTypes, curveVars, routineVars, handlerVars
<1>5. ASSUME Rests PROVE RestsAfter
  <2>1. PICK c : c = call
    OBVIOUS
  <2>2. /\ c \in {NoCall} \cup CallToCome /\ due' = [due EXCEPT ![k] = c]
        /\ f = (IF c = NoCall THEN NoFunction ELSE c.function)
        /\ NoFunction = (IF due[k] = NoCall THEN NoFunction ELSE due[k].function)
    BY <1>1, <1>2, <2>1
  <2>3. CountsRight'
    BY <1>1, <1>5, <2>2, CallMoves DEF Rests, curveVars, routineVars, handlerVars
  <2> QED
    BY <1>1, <1>5, <2>3, RestStays DEF Rests, RestsAfter
<1> QED
  BY <1>4, <1>5, Combine

LEMMA HandKeeps ==
  ASSUME HeldInv, NEW k \in Calls, NEW kind \in Kinds, NEW f \in Functions, Hand(k, kind, f)
  PROVE  HeldInv'
<1>1. Take(k, kind, f) /\ UNCHANGED <<conduct, error>>
  BY DEF Hand, Take
<1>2. error' \in BOOLEAN /\ ErrorRight'
  BY <1>1, RestStays DEF HeldInv, HeldTypes
<1> QED
  BY <1>1, <1>2, TakeKeeps

LEMMA StartKeeps ==
  ASSUME HeldInv, NEW k \in Calls, NEW f \in Functions, Start(k, f)
  PROVE  HeldInv'
<1>1. CASE Hand(k, "pointer", f)
  BY <1>1, HandKeeps DEF Kinds
<1>2. CASE ~Hand(k, "pointer", f)
  <2>1. /\ "drops" \in conduct /\ count' = Counted(f, NoFunction) /\ conduct' = conduct
        /\ UNCHANGED <<known, curveVars, due, routineVars, handlerVars, payload, error>>
    BY <1>2 DEF Start
  <2>2. HeldTypes'
    BY <2>1, CountedType DEF HeldInv, HeldTypes, curveVars, routineVars, handlerVars
  <2>3. ASSUME Rests PROVE RestsAfter
    <3>1. \A g \in Functions : Holders(g)' = Holders(g)
      BY <2>1, HoldersAre, HoldersAfter, PartsStay DEF curveVars, routineVars, handlerVars
    <3>2. LeavesCount(f, f, NoFunction, f)
      BY <3>1 DEF LeavesCount
    <3>3. CountsRight'
      BY <2>1, <2>3, <3>2, CountsLeft DEF Rests, Exact
    <3> QED
      BY <2>1, <2>3, <3>3, RestStays DEF Rests, RestsAfter
  <2> QED
    BY <2>2, <2>3, Combine
<1> QED
  BY <1>1, <1>2

LEMMA RequestPermissionKeeps ==
  ASSUME HeldInv, NEW k \in Calls, NEW f \in Functions, RequestPermission(k, f)
  PROVE  HeldInv'
<1>1. PICK form \in {"method"} \cup (conduct \cap {"plain"}) :
        /\ error' = (error \/ form = "plain")
        /\ Take(k, "pointer", f) \/ UNCHANGED <<conduct, count, known, curveVars, due, routineVars, handlerVars, payload>>
  BY DEF RequestPermission
<1>2. conduct' = conduct
  BY <1>1 DEF Take
<1>3. error' \in BOOLEAN
  BY <1>1
<1>4. ErrorRight'
  <2>1. form = "plain" => "plain" \in conduct
    BY <1>1
  <2> QED
    BY <1>1, <1>2, <2>1 DEF HeldInv, ErrorRight
<1>5. CASE Take(k, "pointer", f)
  BY <1>3, <1>4, <1>5, TakeKeeps DEF Kinds
<1>6. CASE UNCHANGED <<conduct, count, known, curveVars, due, routineVars, handlerVars, payload>>
  <2>1. HeldTypes'
    BY <1>3, <1>6 DEF HeldInv, HeldTypes, curveVars, routineVars, handlerVars
  <2>2. ASSUME Rests PROVE RestsAfter
    <3>1. CountsRight'
      BY <1>6, <2>2, NothingMoves DEF Rests, curveVars, routineVars, handlerVars
    <3> QED
      BY <1>4, <1>6, <2>2, <3>1, RestStays DEF Rests, RestsAfter
  <2> QED
    BY <2>1, <2>2, Combine
<1> QED
  BY <1>1, <1>5, <1>6

LEMMA RunKeeps == ASSUME HeldInv, NEW k \in Calls, Run(k) PROVE HeldInv'
<1>1. /\ conduct' = conduct /\ due[k] # NoCall /\ due' = [due EXCEPT ![k].running = TRUE]
      /\ UNCHANGED <<count, known, curveVars, routineVars, handlerVars, payload, error>>
  BY DEF Run
<1>2. PICK r : r = due[k]
  OBVIOUS
<1>3. PICK q : q = [r EXCEPT !.running = TRUE]
  OBVIOUS
<1>4. due \in [Calls -> {NoCall} \cup CallToCome]
  BY DEF HeldInv, HeldTypes
<1>5. r \in CallToCome /\ r # NoCall
  BY <1>1, <1>2, <1>4
<1>6. q \in CallToCome /\ q.function = r.function
  BY <1>3, <1>5 DEF CallToCome
<1>7. q # NoCall
  <2>1. q.kind \in Kinds
    BY <1>6 DEF CallToCome
  <2> QED
    BY <2>1 DEF NoCall, Kinds
<1>8. due' = [due EXCEPT ![k] = q]
  BY <1>1, <1>2, <1>3
<1>9. /\ due' \in [Calls -> {NoCall} \cup CallToCome]
      /\ due'[k] = q /\ \A j \in Calls : j # k => due'[j] = due[j]
  BY <1>4, <1>6, <1>8
<1>10. HeldTypes'
  BY <1>1, <1>9 DEF HeldInv, HeldTypes, curveVars, routineVars, handlerVars
<1>11. ASSUME Rests PROVE RestsAfter
  <2>1. \A j \in Calls : (due'[j] = NoCall <=> due[j] = NoCall) /\ (due[j] # NoCall => due'[j].function = due[j].function)
    BY <1>2, <1>5, <1>6, <1>7, <1>9
  <2>2. \A f : OfCalls(f)' = OfCalls(f)
    BY <2>1 DEF OfCalls
  <2>3. \A f \in Functions : Holders(f)' = Holders(f)
    BY <1>1, <2>2, HoldersAre, HoldersAfter, PartsStay DEF curveVars, routineVars, handlerVars
  <2>4. CountsRight'
    BY <1>1, <1>11, <2>3, CountsStay DEF Rests
  <2> QED
    BY <1>1, <1>11, <2>4, RestStays DEF Rests, RestsAfter
<1> QED
  BY <1>1, <1>10, <1>11, Combine

\* A call is over, or will never be: its reference is released, or left over (drops).
LEMMA CallEnds ==
  ASSUME HeldInv, NEW k \in Calls, due[k] # NoCall, due' = [due EXCEPT ![k] = NoCall],
         \/ count' = Counted(NoFunction, due[k].function)
         \/ count' = count /\ "drops" \in conduct,
         conduct' = conduct, error' \in BOOLEAN, ErrorRight',
         UNCHANGED <<known, curveVars, routineVars, handlerVars, payload>>
  PROVE  HeldInv'
<1>1. PICK old : old = due[k].function
  OBVIOUS
<1>2. due \in [Calls -> {NoCall} \cup CallToCome] /\ HeldTypes
  BY DEF HeldInv, HeldTypes
<1>3. due' \in [Calls -> {NoCall} \cup CallToCome]
  BY <1>2
<1>4. count' \in [Functions -> Int]
  BY <1>1, <1>2, CountedType DEF HeldTypes
<1>5. HeldTypes'
  BY <1>2, <1>3, <1>4 DEF HeldTypes, curveVars, routineVars, handlerVars
<1>6. ASSUME Rests PROVE RestsAfter
  <2> SUFFICES CountsRight'
    BY <1>6, RestStays DEF Rests, RestsAfter
  <2>1. CASE count' = Counted(NoFunction, due[k].function)
    <3>1. PICK c : c = NoCall
      OBVIOUS
    <3>2. /\ c \in {NoCall} \cup CallToCome /\ due' = [due EXCEPT ![k] = c]
          /\ NoFunction = (IF c = NoCall THEN NoFunction ELSE c.function)
          /\ old = (IF due[k] = NoCall THEN NoFunction ELSE due[k].function)
          /\ count' = Counted(NoFunction, old)
      BY <1>1, <2>1, <3>1
    <3> QED
      <4>1. HeldTypes /\ CountsRight /\ conduct' = conduct
        BY <1>6 DEF Rests
      <4>2. UNCHANGED <<known, curve, routines, loop, factories, handler, payload>>
        BY DEF curveVars, routineVars, handlerVars
      <4> QED
        BY <3>2, <4>1, <4>2, CallMoves
  <2>2. CASE count' = count /\ "drops" \in conduct
    <3>1. \A j \in Calls : due'[j] # NoCall => due'[j] = due[j]
      BY <1>2
    <3>2. \A f : OfCalls(f)' \subseteq OfCalls(f)
      BY <3>1 DEF OfCalls
    <3>3. \A f \in Functions : Holders(f)' \subseteq Holders(f)
      BY <3>2, HoldersAre, HoldersAfter, PartsStay DEF curveVars, routineVars, handlerVars
    <3>4. LeavesCount(k, k, NoFunction, NoFunction) /\ count' = Counted(NoFunction, NoFunction)
      BY <1>2, <2>2, <3>3, CountedNothing DEF LeavesCount
    <3> QED
      <4>1. HeldTypes /\ CountsRight /\ conduct' = conduct /\ ~Exact
        BY <1>6, <2>2 DEF Rests, Exact
      <4> QED
        BY <3>4, <4>1, CountsLeft
  <2> QED
    BY <2>1, <2>2
<1> QED
  BY <1>5, <1>6, Combine

LEMMA FinishKeeps == ASSUME HeldInv, NEW k \in Calls, Finish(k) PROVE HeldInv'
<1>1. /\ due[k] # NoCall /\ due' = [due EXCEPT ![k] = NoCall]
      /\ count' = Counted(NoFunction, due[k].function) /\ conduct' = conduct
      /\ UNCHANGED <<known, curveVars, routineVars, handlerVars, payload>>
      /\ (error' = error \/ MayLeaveError)
  BY DEF Finish, AfterCall
<1>2. error \in BOOLEAN /\ ErrorRight
  BY DEF HeldInv, HeldTypes
<1>3. error' \in BOOLEAN /\ ErrorRight'
  BY <1>1, <1>2, ErrorType, NoErrorLeft, RestStays
<1> QED
  BY <1>1, <1>3, CallEnds

LEMMA DropKeeps == ASSUME HeldInv, NEW k \in Calls, Drop(k) PROVE HeldInv'
<1>1. /\ due[k] # NoCall /\ due' = [due EXCEPT ![k] = NoCall]
      /\ "drops" \in conduct \/ due[k].kind \in ReleasedWithoutCall
      /\ count' = IF due[k].kind \in ReleasedWithoutCall THEN Counted(NoFunction, due[k].function) ELSE count
      /\ conduct' = conduct
      /\ UNCHANGED <<known, curveVars, routineVars, handlerVars, payload, error>>
  BY DEF Drop
<1>2. \/ count' = Counted(NoFunction, due[k].function)
      \/ count' = count /\ "drops" \in conduct
  BY <1>1
<1>3. error' \in BOOLEAN /\ ErrorRight'
  BY <1>1, RestStays DEF HeldInv, HeldTypes
<1> QED
  BY <1>1, <1>2, <1>3, CallEnds

LEMMA CallsKeep ==
  ASSUME HeldInv, NEW k \in Calls, NEW f \in Functions,
         \/ SingleShot(k, f) \/ SingleShotInContext(k, f) \/ Start(k, f)
         \/ RequestPermission(k, f) \/ FindText(k, f) \/ RestRequest(k, f) \/ LookupHost(k, f)
  PROVE  HeldInv'
<1>1. ASSUME NEW kind \in Kinds, Hand(k, kind, f) PROVE HeldInv'
  BY <1>1, HandKeeps
<1>2. ("functor" \in Kinds) /\ ("pointer" \in Kinds) /\ ("timer" \in Kinds) /\ ("holder" \in Kinds)
  BY DEF Kinds
<1> QED
  BY <1>1, <1>2, StartKeeps, RequestPermissionKeeps DEF SingleShot, SingleShotInContext, FindText, RestRequest, LookupHost

LEMMA addPostRoutineKeeps == ASSUME HeldInv, NEW f \in Functions, addPostRoutine(f) PROVE HeldInv'
<1>1. /\ conduct' = conduct
      /\ loop.at = 0 \/ ("adds" \in conduct /\ loop.at > 1)
      /\ hooked \/ loop.at # 0 \/ "apps" \in conduct
      /\ routines' = Append(routines, f) /\ count' = Counted(f, NoFunction)
      /\ UNCHANGED <<known, curveVars, due, factories, loop, app, hooked, handlerVars, payload, error>>
  BY DEF addPostRoutine
<1>2. routines' \in Seq(Functions) /\ count' \in [Functions -> Int]
  BY <1>1, CountedType, AppendProperties DEF HeldInv, HeldTypes
<1>3. HeldTypes'
  BY <1>1, <1>2 DEF HeldInv, HeldTypes, curveVars, handlerVars
<1>4. ASSUME Rests PROVE RestsAfter
  <2>1. routines \in Seq(Functions) /\ Len(routines) \in Nat /\ Len(routines') = Len(routines) + 1
    BY <1>1, <1>4, AppendProperties, LenProperties DEF Rests, HeldTypes
  <2>2. CountsRight'
    <3>1. CASE loop.at = 0
      BY <1>1, <1>4, <3>1, RoutineAdded DEF Rests, curveVars, handlerVars
    <3>2. CASE "adds" \in conduct
      <4>1. PICK l : l = Len(routines)
        OBVIOUS
      <4>2. /\ l \in Nat /\ DOMAIN routines = 1..l /\ DOMAIN routines' = 1..(l + 1)
            /\ routines'[l + 1] = f /\ \A i \in 1..l : routines'[i] = routines[i]
        BY <1>1, <1>2, <2>1, <4>1, AppendProperties, LenProperties
      <4>3. PICK t : t = <<"routine", l + 1>>
        OBVIOUS
      <4>4. \A g \in Functions : OfRoutines(g)' \subseteq OfRoutines(g) \cup (IF g = f THEN {t} ELSE {})
        <5>1. \A i \in 1..(l + 1) : i \in 1..l \/ i = l + 1
          BY <4>2
        <5>2. loop' = loop
          BY <1>1
        <5> QED
          BY <4>2, <4>3, <5>1, <5>2 DEF OfRoutines
      <4>5. \A g \in Functions : g # NoFunction
        OBVIOUS
      <4>6. \A g \in Functions : Holders(g)' \subseteq Holders(g) \cup (IF g = f THEN {t} ELSE {})
        BY <1>1, <4>4, HoldersAre, HoldersAfter, PartsStay DEF curveVars, handlerVars
      <4>7. LeavesCount(t, t, NoFunction, f)
        BY <4>5, <4>6 DEF LeavesCount
      <4> QED
        BY <1>1, <1>4, <3>2, <4>7, CountsLeft DEF Rests, Exact
    <3> QED
      BY <1>1, <3>1, <3>2
  <2>3. RoutinesRight'
    <3>1. loop \in [at : Nat, end : Nat]
      BY <1>4 DEF Rests, HeldTypes
    <3>2. loop.at # 0 => "adds" \in conduct
      BY <1>1
    <3> QED
      BY <1>1, <1>4, <2>1, <3>1, <3>2 DEF Rests, RoutinesRight
  <2> QED
    BY <1>1, <1>4, <2>2, <2>3, RestStays DEF Rests, RestsAfter
<1> QED
  BY <1>1, <1>3, <1>4, Combine

LEMMA installFactoryKeeps == ASSUME HeldInv, NEW f \in Functions, installFactory(f) PROVE HeldInv'
<1>1. /\ conduct' = conduct /\ app
      /\ factories' = Append(factories, f) /\ count' = Counted(f, NoFunction)
      /\ UNCHANGED <<known, curveVars, due, routines, loop, app, hooked, handlerVars, payload, error>>
  BY DEF installFactory
<1>2. factories' \in Seq(Functions) /\ count' \in [Functions -> Int]
  BY <1>1, CountedType, AppendProperties DEF HeldInv, HeldTypes
<1>3. HeldTypes'
  BY <1>1, <1>2 DEF HeldInv, HeldTypes, curveVars, handlerVars
<1>4. ASSUME Rests PROVE RestsAfter
  <2>1. CountsRight'
    BY <1>1, <1>4, FactoryAdded DEF Rests, curveVars, handlerVars
  <2>2. RoutinesRight'
    BY <1>1, <1>4 DEF Rests, RoutinesRight
  <2> QED
    BY <1>1, <1>4, <2>1, <2>2, RestStays DEF Rests, RestsAfter
<1> QED
  BY <1>1, <1>3, <1>4, Combine

LEMMA ApplicationEndsKeeps == ASSUME HeldInv, ApplicationEnds PROVE HeldInv'
<1>1. /\ conduct' = conduct /\ app /\ app' = FALSE /\ hooked' = FALSE
      /\ factories' = <<>> /\ count' = cleanup
      /\ loop' = IF hooked THEN [at |-> 1, end |-> Len(routines)] ELSE loop
      /\ UNCHANGED <<known, curveVars, due, routines, handlerVars, payload, error>>
  BY DEF ApplicationEnds
<1>2. routines \in Seq(Functions) /\ Len(routines) \in Nat /\ DOMAIN routines = 1..Len(routines) /\ loop \in [at : Nat, end : Nat]
  BY LenProperties DEF HeldInv, HeldTypes
<1>3. factories' \in Seq(Functions) /\ loop' \in [at : Nat, end : Nat]
  BY <1>1, <1>2, EmptySeq
<1>4. count' \in [Functions -> Int]
  <2>1. \A f \in Functions : Cardinality({i \in DOMAIN factories : factories[i] = f}) \in Nat
    <3> SUFFICES ASSUME NEW f \in Functions PROVE Cardinality({i \in DOMAIN factories : factories[i] = f}) \in Nat
      OBVIOUS
    <3>1. PICK P : P = {i \in DOMAIN factories : factories[i] = f}
      OBVIOUS
    <3>2. factories \in Seq(Functions)
      BY DEF HeldInv, HeldTypes
    <3>3. Len(factories) \in Nat /\ DOMAIN factories = 1..Len(factories)
      BY <3>2, LenProperties
    <3>4. IsFiniteSet(1..Len(factories)) /\ P \in SUBSET (1..Len(factories))
      BY <3>1, <3>3, FS_Interval
    <3>5. Cardinality(P) \in Nat
      BY <3>4, FS_Subset, FS_CardinalityType
    <3> QED
      BY <3>1, <3>5
  <2>2. count \in [Functions -> Int]
    BY DEF HeldInv, HeldTypes
  <2>3. \A f \in Functions : count[f] - Cardinality({i \in DOMAIN factories : factories[i] = f}) \in Int
    BY <2>1, <2>2
  <2> QED
    BY <1>1, <2>3 DEF cleanup
<1>5. HeldTypes'
  BY <1>1, <1>3, <1>4 DEF HeldInv, HeldTypes, curveVars, handlerVars
<1>6. ASSUME Rests PROVE RestsAfter
  <2>1. loop.at = 0
    BY <1>1, <1>6 DEF Rests, RoutinesRight
  <2>2. \A f : OfRoutines(f)' = OfRoutines(f)
    <3>1. routines' = routines /\ loop'.at \in {0, 1}
      BY <1>1, <2>1
    <3>2. \A i \in 1..Len(routines) : i >= loop'.at /\ i >= loop.at
      BY <1>2, <2>1, <3>1
    <3> QED
      BY <1>2, <3>1, <3>2 DEF OfRoutines
  <2>3. CountsRight'
    BY <1>1, <1>6, <2>2, FactoriesGone DEF Rests, curveVars, handlerVars
  <2>4. RoutinesRight'
    <3>1. CASE hooked
      <4>1. loop'.at = 1 /\ loop'.end = Len(routines) /\ 1 <= Len(routines) + 1 /\ Len(routines) <= Len(routines)
        BY <1>1, <1>2, <3>1
      <4> QED
        BY <1>1, <4>1 DEF RoutinesRight
    <3>2. CASE ~hooked
      <4>1. loop' = loop /\ ("apps" \notin conduct => routines = <<>>)
        BY <1>1, <1>6, <2>1, <3>2 DEF Rests, RoutinesRight
      <4> QED
        BY <1>1, <2>1, <4>1 DEF RoutinesRight
    <3> QED
      BY <3>1, <3>2
  <2> QED
    BY <1>1, <1>6, <2>3, <2>4, RestStays DEF Rests, RestsAfter
<1> QED
  BY <1>1, <1>5, <1>6, Combine

LEMMA RunRoutineKeeps == ASSUME HeldInv, RunRoutine PROVE HeldInv'
<1>1. /\ conduct' = conduct /\ loop.at # 0 /\ loop.at <= loop.end
      /\ count' = Counted(NoFunction, routines[loop.at])
      /\ loop' = [loop EXCEPT !.at = @ + 1] /\ MayLeaveError
      /\ UNCHANGED <<known, curveVars, due, routines, factories, app, hooked, handlerVars, payload>>
  BY DEF RunRoutine
<1>2. PICK n, g : n = loop.at /\ g = routines[n]
  OBVIOUS
<1>3. loop \in [at : Nat, end : Nat] /\ n \in Nat
  BY <1>2 DEF HeldInv, HeldTypes
<1>4. loop' \in [at : Nat, end : Nat] /\ loop'.at = n + 1 /\ loop'.end = loop.end
  BY <1>1, <1>2, <1>3
<1>5. count' \in [Functions -> Int] /\ error \in BOOLEAN /\ error' \in BOOLEAN
  BY <1>1, <1>2, CountedType, ErrorType DEF HeldInv, HeldTypes
<1>6. HeldTypes'
  BY <1>1, <1>4, <1>5 DEF HeldInv, HeldTypes, curveVars, handlerVars
<1>7. ASSUME Rests PROVE RestsAfter
  <2>0. Len(routines) \in Nat
    BY <1>7, LenProperties DEF Rests, HeldTypes
  <2>1. ~app /\ loop.end <= Len(routines) /\ n <= Len(routines)
    BY <1>1, <1>2, <1>3, <1>7, <2>0 DEF Rests, RoutinesRight
  <2>2. CountsRight'
    BY <1>1, <1>2, <1>3, <1>7, <2>1, RoutineRun DEF Rests, curveVars, handlerVars
  <2>3. loop'.at <= loop'.end + 1 /\ loop'.at # 0
    BY <1>1, <1>2, <1>3, <1>4
  <2>4. RoutinesRight'
    BY <1>1, <1>4, <1>7, <2>1, <2>3 DEF Rests, RoutinesRight
  <2>5. ErrorRight'
    BY <1>1, <1>5, <1>7, NoErrorLeft DEF Rests
  <2> QED
    BY <1>1, <1>7, <2>2, <2>4, <2>5, RestStays DEF Rests, RestsAfter
<1> QED
  BY <1>1, <1>6, <1>7, Combine

LEMMA RoutinesDoneKeeps == ASSUME HeldInv, RoutinesDone PROVE HeldInv'
<1>1. /\ conduct' = conduct /\ loop.at > loop.end
      /\ routines' = <<>> /\ loop' = [at |-> 0, end |-> 0]
      /\ UNCHANGED <<count, known, curveVars, due, factories, app, hooked, handlerVars, payload, error>>
  BY DEF RoutinesDone
<1>2. routines' \in Seq(Functions) /\ loop' \in [at : Nat, end : Nat] /\ loop'.at = 0
  BY <1>1, EmptySeq
<1>3. HeldTypes'
  BY <1>1, <1>2 DEF HeldInv, HeldTypes, curveVars, handlerVars
<1>4. ASSUME Rests PROVE RestsAfter
  <2>1. routines \in Seq(Functions) /\ loop \in [at : Nat, end : Nat]
    BY <1>4 DEF Rests, HeldTypes
  <2>2. Len(routines) \in Nat /\ DOMAIN routines = 1..Len(routines)
    BY <2>1, LenProperties
  <2>3. /\ loop.at # 0 /\ ~app /\ loop.end <= Len(routines)
        /\ "adds" \notin conduct => loop.end = Len(routines)
    BY <1>1, <1>4, <2>1 DEF Rests, RoutinesRight
  <2>5. \A f : OfRoutines(f)' = {}
    BY <1>1 DEF OfRoutines
  <2>7. CountsRight'
    <3>1. CASE "adds" \notin conduct
      <4>1. \A i \in DOMAIN routines : ~(i >= loop.at)
        BY <1>1, <2>1, <2>2, <2>3, <3>1
      <4>2. \A f : OfRoutines(f) = {}
        BY <4>1 DEF OfRoutines
      <4>3. \A f \in Functions : Holders(f)' = Holders(f)
        BY <1>1, <2>5, <4>2, HoldersAre, HoldersAfter, PartsStay DEF curveVars, handlerVars
      <4> QED
        BY <1>1, <1>4, <4>3, CountsStay DEF Rests
    <3>2. CASE "adds" \in conduct
      <4>1. \A f \in Functions : Holders(f)' \subseteq Holders(f)
        BY <1>1, <2>5, HoldersAre, HoldersAfter, PartsStay DEF curveVars, handlerVars
      <4>2. LeavesCount(loop, loop, NoFunction, NoFunction) /\ count' = Counted(NoFunction, NoFunction)
        BY <1>1, <1>4, <4>1, CountedNothing DEF LeavesCount, Rests
      <4>3. PICK t : t = loop
        OBVIOUS
      <4> QED
        BY <1>1, <1>4, <3>2, <4>2, <4>3, CountsLeft DEF Rests, Exact
    <3> QED
      BY <3>1, <3>2
  <2>8. RoutinesRight'
    BY <1>1, <1>2, <1>4, <2>3 DEF Rests, RoutinesRight
  <2> QED
    BY <1>1, <1>4, <2>7, <2>8, RestStays DEF Rests, RestsAfter
<1> QED
  BY <1>1, <1>3, <1>4, Combine

LEMMA NewApplicationKeeps == ASSUME HeldInv, NewApplication PROVE HeldInv'
<1>1. /\ conduct' = conduct /\ loop.at = 0 /\ app' = TRUE
      /\ UNCHANGED <<count, known, curveVars, due, routines, factories, loop, hooked, handlerVars, payload, error>>
  BY DEF NewApplication
<1>2. HeldTypes'
  BY <1>1 DEF HeldInv, HeldTypes, curveVars, handlerVars
<1>3. ASSUME Rests PROVE RestsAfter
  <2>1. RoutinesRight'
    BY <1>1, <1>3 DEF Rests, RoutinesRight
  <2>2. CountsRight'
    BY <1>1, <1>3, NothingMoves DEF Rests, curveVars, handlerVars
  <2> QED
    BY <1>1, <1>3, <2>1, <2>2, RestStays DEF Rests, RestsAfter
<1> QED
  BY <1>1, <1>2, <1>3, Combine

LEMMA qInstallMessageHandlerKeeps ==
  ASSUME HeldInv, NEW f \in Functions \cup {NoFunction}, qInstallMessageHandler(f)
  PROVE  HeldInv'
<1>1. /\ conduct' = conduct
      /\ f \in known \cup (IF "removes" \in conduct THEN {NoFunction} ELSE {})
      /\ ReturnsOld(f) /\ handler' = f
      /\ UNCHANGED <<curveVars, due, routineVars, logging, payload, error>>
  BY DEF qInstallMessageHandler
<1>2. f \in Maybe /\ f \in known \cup {NoFunction}
  BY <1>1 DEF Maybe
<1>3. count' \in [Functions -> Int] /\ known' \subseteq Functions
  <2>1. PICK old : old = handler
    OBVIOUS
  <2>2. count' \in {Counted(f, NoFunction), Counted(f, old)} /\ known' \in {known, known \cup {old}}
        /\ (known' # known => old # NoFunction)
    BY <1>1, <2>1 DEF ReturnsOld
  <2>3. old \in Functions \cup {NoFunction} /\ known \subseteq Functions /\ HeldTypes
    BY <2>1 DEF HeldInv, HeldTypes, Maybe
  <2> QED
    BY <2>2, <2>3, CountedType
<1>4. HeldTypes'
  BY <1>1, <1>2, <1>3 DEF HeldInv, HeldTypes, curveVars, routineVars
<1>5. ASSUME Rests PROVE RestsAfter
  <2>1. CountsRight'
    BY <1>1, <1>2, <1>5, HandlerMoves DEF Rests, curveVars, routineVars
  <2>2. HandlerRight'
    <3>2. known \subseteq Functions
      BY <1>5 DEF Rests, HeldTypes
    <3>3. "removes" \notin conduct => f # NoFunction
      BY <1>1, <3>2
    <3> QED
      BY <1>1, <1>5, <3>3 DEF Rests, HandlerRight
  <2> QED
    BY <1>1, <1>5, <2>1, <2>2, RestStays DEF Rests, RestsAfter
<1> QED
  BY <1>1, <1>4, <1>5, Combine

LEMMA LogKeeps == ASSUME HeldInv, Log \/ msgHandlerCallback PROVE HeldInv'
<1>1. /\ conduct' = conduct /\ logging' \in BOOLEAN
      /\ logging' => "threads" \in conduct /\ handler # NoFunction
      /\ UNCHANGED <<count, known, curveVars, due, routineVars, handler, payload, error>>
  BY DEF Log, msgHandlerCallback
<1>2. HeldTypes'
  BY <1>1 DEF HeldInv, HeldTypes, curveVars, routineVars
<1>3. ASSUME Rests PROVE RestsAfter
  <2>1. HandlerRight'
    BY <1>1 DEF HandlerRight
  <2>2. CountsRight'
    BY <1>1, <1>3, NothingMoves DEF Rests, curveVars, routineVars
  <2> QED
    BY <1>1, <1>3, <2>1, <2>2, RestStays DEF Rests, RestsAfter
<1> QED
  BY <1>1, <1>2, <1>3, Combine

Content == Functions \cup {NoFunction, Unmade}

LEMMA HoldKeeps ==
  ASSUME HeldInv, NEW v \in Values, NEW content \in Content, NEW new \in Content, NEW old \in Content,
         Hold(v, content, new, old),
         \A f \in Functions : (f = old <=> f = payload[v]) /\ (f = new <=> f = content)
  PROVE  HeldInv'
<1>1. /\ payload' = [payload EXCEPT ![v] = content] /\ count' = Counted(new, old) /\ conduct' = conduct
      /\ UNCHANGED <<known, curveVars, due, routineVars, handlerVars, error>>
  BY DEF Hold
<1>2. payload' \in [Values -> Content] /\ count' \in [Functions -> Int]
  BY <1>1, CountedType DEF HeldInv, HeldTypes, Content
<1>3. HeldTypes'
  BY <1>1, <1>2 DEF HeldInv, HeldTypes, curveVars, routineVars, handlerVars, Content
<1>4. ASSUME Rests PROVE RestsAfter
  <2>1. CountsRight'
    BY <1>1, <1>4, ValueMoves DEF Rests
  <2> QED
    BY <1>1, <1>4, <2>1, RestStays DEF Rests, RestsAfter
<1> QED
  BY <1>1, <1>3, <1>4, Combine

LEMMA ContentType == ASSUME HeldInv, NEW v \in Values PROVE payload[v] \in Content
BY DEF HeldInv, HeldTypes, Content

LEMMA ConstructKeeps == ASSUME HeldInv, NEW v \in Values, NEW f \in Functions, Construct(v, f) PROVE HeldInv'
<1>1. payload[v] = Unmade /\ Hold(v, f, f, NoFunction)
  BY DEF Construct
<1>2. f \in Content /\ NoFunction \in Content
  BY DEF Content
<1>3. \A g \in Functions : (g = NoFunction <=> g = payload[v])
  BY <1>1
<1> QED
  BY <1>1, <1>2, <1>3, HoldKeeps

LEMMA CopyKeeps ==
  ASSUME HeldInv, NEW v \in Values, NEW w \in Values, CopyConstruct(v, w) \/ CopyAssign(v, w)
  PROVE  HeldInv'
<1>1. PICK content, was : content = payload[w] /\ was = payload[v]
  OBVIOUS
<1>2. content \in Content /\ was \in Content /\ NoFunction \in Content
  BY <1>1, ContentType DEF Content
<1>3. CASE CopyConstruct(v, w)
  <2>1. Hold(v, content, content, NoFunction) /\ payload[v] = Unmade
    BY <1>1, <1>3 DEF CopyConstruct
  <2>2. \A g \in Functions : (g = NoFunction <=> g = payload[v])
    BY <2>1
  <2> QED
    BY <1>2, <2>1, <2>2, HoldKeeps
<1>4. CASE CopyAssign(v, w)
  <2>1. Hold(v, content, content, was)
    BY <1>1, <1>4 DEF CopyAssign
  <2> QED
    BY <1>1, <1>2, <2>1, HoldKeeps
<1> QED
  BY <1>3, <1>4

LEMMA DestructKeeps == ASSUME HeldInv, NEW v \in Values, Destruct(v) PROVE HeldInv'
<1>1. PICK was, unmade : was = payload[v] /\ unmade = Unmade
  OBVIOUS
<1>2. was \in Content /\ unmade \in Content /\ NoFunction \in Content
  BY <1>1, ContentType DEF Content
<1>3. Hold(v, unmade, NoFunction, was)
  BY <1>1 DEF Destruct
<1>4. \A g \in Functions : (g = was <=> g = payload[v]) /\ (g = NoFunction <=> g = unmade)
  BY <1>1
<1> QED
  BY <1>2, <1>3, <1>4, HoldKeeps

LEMMA MoveKeeps ==
  ASSUME HeldInv, NEW v \in Values, NEW w \in Values, MoveConstruct(v, w) \/ MoveAssign(v, w)
  PROVE  HeldInv'
<1>1. /\ payload' = [payload EXCEPT ![v] = payload[w], ![w] = NoFunction] /\ conduct' = conduct
      /\ UNCHANGED <<count, known, curveVars, due, routineVars, handlerVars, error>>
  BY DEF MoveConstruct, MoveAssign, MoveInto
<1>2. v # w
  BY DEF MoveConstruct, MoveAssign
<1>3. payload[v] = Unmade \/ payload[v] = NoFunction \/ "moves" \in conduct
  BY DEF MoveConstruct, MoveAssign
<1>4. payload' \in [Values -> Content]
  <2>1. PICK x : x = payload[w]
    OBVIOUS
  <2>2. x \in Content /\ NoFunction \in Content /\ payload \in [Values -> Content]
    BY <2>1, ContentType DEF Content, HeldInv, HeldTypes
  <2>3. payload' = [payload EXCEPT ![v] = x, ![w] = NoFunction]
    BY <1>1, <2>1
  <2> QED
    BY <2>2, <2>3
<1>5. HeldTypes'
  BY <1>1, <1>4 DEF HeldInv, HeldTypes, curveVars, routineVars, handlerVars, Content
<1>6. ASSUME Rests PROVE RestsAfter
  <2> SUFFICES CountsRight'
    BY <1>1, <1>6, RestStays DEF Rests, RestsAfter
  <2>1. CASE payload[v] \notin Functions
    <3>1. HeldTypes /\ CountsRight /\ conduct' = conduct
      BY <1>1, <1>6 DEF Rests
    <3>2. UNCHANGED <<count, known, curve, due, routines, loop, factories, handler>>
      BY <1>1 DEF curveVars, routineVars, handlerVars
    <3> QED
      BY <1>1, <1>2, <2>1, <3>1, <3>2, ContentMoves
  <2>2. CASE payload[v] \in Functions
    <3>1. "moves" \in conduct
      BY <1>3, <2>2
    <3>2. PICK a, b, g : a = <<"value", w>> /\ b = <<"value", v>> /\ g = payload[w]
      OBVIOUS
    <3>3. \A x \in Values : payload'[x] = IF x = w THEN NoFunction ELSE IF x = v THEN g ELSE payload[x]
      BY <1>1, <1>6, <3>2 DEF Rests, HeldTypes
    <3>4. ASSUME NEW f \in Functions
          PROVE  /\ Holders(f)' \subseteq (Holders(f) \ (IF f = g THEN {a} ELSE {})) \cup (IF f = g THEN {b} ELSE {})
                 /\ f = g => a \in Holders(f)
      <4>1. PICK Q : Q = Program(f) \cup OfCurves(f) \cup OfCalls(f) \cup OfRoutines(f) \cup OfFactories(f) \cup OfHandler(f)
        OBVIOUS
      <4>2. a \notin Q /\ b \notin Q
        BY <3>2, <4>1, Tags
      <4>3. Holders(f) = OfValues(f) \cup Q
        BY <4>1, HoldersAre
      <4>4. Holders(f)' = OfValues(f)' \cup Q
        BY <1>1, <4>1, HoldersAfter, PartsStay DEF curveVars, routineVars, handlerVars
      <4>5. OfValues(f)' \subseteq (OfValues(f) \ (IF f = g THEN {a} ELSE {})) \cup (IF f = g THEN {b} ELSE {})
        <5>1. SUFFICES ASSUME NEW d \in Values, payload'[d] = f
                       PROVE  <<"value", d>> \in (OfValues(f) \ (IF f = g THEN {a} ELSE {})) \cup (IF f = g THEN {b} ELSE {})
          BY DEF OfValues
        <5>2. d # w /\ f # NoFunction
          BY <3>3, <5>1
        <5>3. <<"value", d>> # a
          BY <3>2, <5>2
        <5>4. CASE d = v
          BY <3>2, <3>3, <5>1, <5>2, <5>4
        <5>5. CASE d # v
          <6>1. payload[d] = f
            BY <3>3, <5>1, <5>2, <5>5
          <6>2. <<"value", d>> \in OfValues(f)
            BY <6>1 DEF OfValues
          <6> QED
            BY <5>3, <6>2
        <5> QED
          BY <5>4, <5>5
      <4>6. f = g => a \in OfValues(f)
        BY <3>2 DEF OfValues
      <4> QED
        BY <4>2, <4>3, <4>4, <4>5, <4>6
    <3>5. LeavesCount(a, b, g, g)
      BY <3>4 DEF LeavesCount
    <3>6. count' = Counted(g, g)
      <4>1. \A f \in Functions : count[f] + (IF f = g THEN 1 ELSE 0) - (IF f = g THEN 1 ELSE 0) = count[f]
        BY <1>6 DEF Rests, HeldTypes
      <4>2. count = [f \in Functions |-> count[f]]
        BY <1>6 DEF Rests, HeldTypes
      <4> QED
        BY <1>1, <4>1, <4>2 DEF Counted
    <3> QED
      <4>1. HeldTypes /\ CountsRight /\ conduct' = conduct /\ ~Exact
        BY <1>1, <1>6, <3>1 DEF Rests, Exact
      <4> QED
        BY <3>5, <3>6, <4>1, CountsLeft
  <2> QED
    BY <2>1, <2>2
<1> QED
  BY <1>1, <1>5, <1>6, Combine

LEMMA HeldStutter ==
  ASSUME HeldInv, UNCHANGED <<conduct, count, known, curveVars, due, routineVars, handlerVars, payload, error>>
  PROVE  HeldInv'
<1>1. /\ conduct' = conduct /\ error' = error
      /\ UNCHANGED <<count, known, curveVars, due, routineVars, handlerVars, payload>>
  OBVIOUS
<1>2. HeldTypes'
  BY <1>1 DEF HeldInv, HeldTypes, curveVars, routineVars, handlerVars
<1>3. ASSUME Rests PROVE RestsAfter
  <2>1. CountsRight'
    BY <1>1, <1>3, NothingMoves DEF Rests, curveVars, routineVars, handlerVars
  <2> QED
    BY <1>1, <1>3, <2>1, RestStays DEF Rests, RestsAfter
<1> QED
  BY <1>1, <1>2, <1>3, Combine

LEMMA HeldSteps == ASSUME HeldInv, HoldSteps PROVE HeldInv'
<1>1. ASSUME NEW f \in Functions, Define(f) \/ LetGo(f) \/ addPostRoutine(f) \/ installFactory(f)
      PROVE  HeldInv'
  BY <1>1, DefineKeeps, addPostRoutineKeeps, installFactoryKeeps
<1>2. ASSUME NEW c \in Curves, NewCurve(c) \/ DropCurve(c) \/ CopyCurve(c) \/ \E f \in Functions : SetCustomType(c, f)
      PROVE  HeldInv'
  BY <1>2, NewCurveKeeps, DropCurveKeeps, CopyCurveKeeps, SetCustomTypeKeeps
<1>3. ASSUME DropAnimation \/ Ease \/ callFactories PROVE HeldInv'
  BY <1>3, DropAnimationKeeps, CallingKeeps
<1>4. ASSUME NEW k \in Calls, NEW f \in Functions,
             \/ SingleShot(k, f) \/ SingleShotInContext(k, f) \/ Start(k, f)
             \/ RequestPermission(k, f) \/ FindText(k, f) \/ RestRequest(k, f) \/ LookupHost(k, f)
      PROVE  HeldInv'
  BY <1>4, CallsKeep
<1>5. ASSUME NEW k \in Calls, Run(k) \/ Finish(k) \/ Drop(k) PROVE HeldInv'
  BY <1>5, RunKeeps, FinishKeeps, DropKeeps
<1>6. ASSUME ApplicationEnds \/ RunRoutine \/ RoutinesDone \/ NewApplication PROVE HeldInv'
  BY <1>6, ApplicationEndsKeeps, RunRoutineKeeps, RoutinesDoneKeeps, NewApplicationKeeps
<1>7. ASSUME Log \/ msgHandlerCallback PROVE HeldInv'
  BY <1>7, LogKeeps
<1>8. ASSUME NEW f \in Functions \cup {NoFunction}, qInstallMessageHandler(f) PROVE HeldInv'
  BY <1>8, qInstallMessageHandlerKeeps
<1>9. ASSUME NEW v \in Values, Destruct(v) \/ \E f \in Functions : Construct(v, f) PROVE HeldInv'
  BY <1>9, DestructKeeps, ConstructKeeps
<1>10. ASSUME NEW v \in Values, NEW w \in Values,
              CopyConstruct(v, w) \/ MoveConstruct(v, w) \/ MoveAssign(v, w) \/ CopyAssign(v, w)
       PROVE  HeldInv'
  BY <1>10, CopyKeeps, MoveKeeps
<1> QED
  BY <1>1, <1>2, <1>3, <1>4, <1>5, <1>6, <1>7, <1>8, <1>9, <1>10 DEF HoldSteps

LEMMA HeldNext == ASSUME HeldInv, crashed \in BOOLEAN, [HoldNext]_holdVars PROVE HeldInv' /\ crashed' \in BOOLEAN
<1>1. CASE HoldSteps /\ UNCHANGED crashed
  BY <1>1, HeldSteps
<1>2. CASE RequestPermissionCrashes
  BY <1>2, HeldStutter DEF RequestPermissionCrashes
<1>3. CASE UNCHANGED holdVars
  BY <1>3, HeldStutter DEF holdVars, curveVars, routineVars, handlerVars
<1> QED
  BY <1>1, <1>2, <1>3 DEF HoldNext

LEMMA HeldInit == HoldInit => HeldInv /\ crashed \in BOOLEAN
<1> SUFFICES ASSUME HoldInit PROVE HeldInv /\ crashed \in BOOLEAN
  OBVIOUS
<1>1. /\ conduct \in HoldPrograms /\ count = [f \in Functions |-> 0] /\ known = {}
      /\ curve = [c \in Curves |-> NoCurve] /\ custom = [i \in 1..MaxFunctions |-> FreeSlot]
      /\ animation = NoAnimation /\ due = [k \in Calls |-> NoCall]
      /\ routines = <<>> /\ factories = <<>> /\ loop = [at |-> 0, end |-> 0] /\ app = TRUE /\ hooked = TRUE
      /\ handler = NoFunction /\ logging = FALSE /\ payload = [v \in Values |-> Unmade] /\ error = FALSE
      /\ crashed = FALSE
  BY DEF HoldInit
<1>2. NoCurve \in [alive : BOOLEAN, attribute : Maybe, custom : 0..MaxFunctions]
      /\ NoCurve.custom = 0 /\ NoCurve.attribute = NoFunction
  BY DEF NoCurve, Maybe
<1>3. FreeSlot \in [parent : Curves \cup {NoFunction}, function : Maybe]
  BY DEF FreeSlot, Maybe
<1>4. NoAnimation \in [of : Curves \cup {NoFunction}, custom : 0..MaxFunctions, wanted : Maybe]
      /\ NoAnimation.custom = 0
  BY DEF NoAnimation, Maybe
<1>5. <<>> \in Seq(Functions) /\ DOMAIN <<>> = {}
  OBVIOUS
<1>6. HeldTypes
  <2>1. count \in [Functions -> Int] /\ known \subseteq Functions
    BY <1>1
  <2>2. /\ curve \in [Curves -> [alive : BOOLEAN, attribute : Maybe, custom : 0..MaxFunctions]]
        /\ custom \in [1..MaxFunctions -> [parent : Curves \cup {NoFunction}, function : Maybe]]
    BY <1>1, <1>2, <1>3
  <2>3. animation \in [of : Curves \cup {NoFunction}, custom : 0..MaxFunctions, wanted : Maybe]
    BY <1>1, <1>4
  <2>4. due \in [Calls -> {NoCall} \cup CallToCome]
    BY <1>1
  <2>5. loop \in [at : Nat, end : Nat] /\ routines \in Seq(Functions) /\ factories \in Seq(Functions)
    BY <1>1, <1>5
  <2>6. handler \in Maybe /\ payload \in [Values -> Functions \cup {NoFunction, Unmade}]
    BY <1>1 DEF Maybe
  <2>7. conduct \in HoldPrograms /\ app \in BOOLEAN /\ hooked \in BOOLEAN /\ logging \in BOOLEAN /\ error \in BOOLEAN
    BY <1>1
  <2> QED
    BY <2>1, <2>2, <2>3, <2>4, <2>5, <2>6, <2>7 DEF HeldTypes
<1>7. CountsRight
  <2>1. ASSUME NEW f \in Functions PROVE Holders(f) = {} /\ count[f] = 0
    <3>1. f # NoFunction /\ f # Unmade
      OBVIOUS
    <3>2. Program(f) = {} /\ OfHandler(f) = {}
      BY <1>1, <3>1 DEF Program, OfHandler
    <3>3. OfCurves(f) = {}
      BY <1>1, <1>2, <3>1 DEF OfCurves
    <3>4. OfCalls(f) = {}
      BY <1>1 DEF OfCalls
    <3>5. OfRoutines(f) = {} /\ OfFactories(f) = {}
      BY <1>1, <1>5 DEF OfRoutines, OfFactories
    <3>6. OfValues(f) = {}
      BY <1>1, <3>1 DEF OfValues
    <3> QED
      BY <1>1, <3>2, <3>3, <3>4, <3>5, <3>6, HoldersAre
  <2>2. IsFiniteSet({}) /\ Cardinality({}) = 0
    BY FS_EmptySet
  <2>3. \A f \in Functions : IsFiniteSet(Holders(f)) /\ Cardinality(Holders(f)) = 0 /\ count[f] = 0
    BY <2>1, <2>2
  <2> QED
    BY <2>3 DEF CountsRight
<1>8. CurvesRight
  BY <1>1, <1>2, <1>4 DEF CurvesRight
<1>9. RoutinesRight /\ HandlerRight /\ ErrorRight
  BY <1>1 DEF RoutinesRight, HandlerRight, ErrorRight
<1> QED
  BY <1>1, <1>6, <1>7, <1>8, <1>9 DEF HeldInv

LEMMA HeldInvariant == HoldSpec => [](HeldInv /\ crashed \in BOOLEAN)
<1>1. (HeldInv /\ crashed \in BOOLEAN) /\ [HoldNext]_holdVars => (HeldInv /\ crashed \in BOOLEAN)'
  BY HeldNext
<1> QED
  BY HeldInit, <1>1, PTL DEF HoldSpec

-----------------------------------------------------------------------------
\* For every program and every bound, liberties or not: the types of what the glue keeps.
THEOREM HoldTypeCorrect == HoldSpec => []HoldTypeOK
<1>1. ASSUME HeldInv, crashed \in BOOLEAN PROVE HoldTypeOK
  <2>1. HeldTypes
    BY <1>1 DEF HeldInv
  <2>2. \A c \in Curves : curve[c].attribute \in Functions \cup {NoFunction} /\ curve[c].custom \in 0..MaxFunctions
    BY <2>1 DEF HeldTypes, Maybe
  <2>3. \A i \in 1..MaxFunctions : custom[i].function \in Functions \cup {NoFunction}
    BY <2>1 DEF HeldTypes, Maybe
  <2>4. animation.custom \in 0..MaxFunctions
    BY <2>1 DEF HeldTypes
  <2> QED
    BY <1>1, <2>1, <2>2, <2>3, <2>4 DEF HeldTypes, HoldTypeOK, Maybe
<1>2. HeldInv /\ crashed \in BOOLEAN => HoldTypeOK
  BY <1>1
<1> QED
  BY <1>2, HeldInvariant, PTL

\* For any number of callables, curves, calls, routines and values, and every set of liberties:
\* what a program gives to Qt is not freed while someone may call it, and what each liberty
\* does not break holds with all the others taken.
THEOREM CallablesAreHeld == HoldSpec => []CallablesHeld
<1>1. ASSUME HeldInv PROVE CallablesHeld
  <2>1. HeldTypes /\ CountsRight /\ CurvesRight /\ RoutinesRight /\ HandlerRight /\ ErrorRight
    BY <1>1 DEF HeldInv
  <2>2. ASSUME NEW c \in Curves, NEW f \in Functions, curve[c].attribute = f PROVE count[f] > 0
    <3>1. <<"curve", c>> \in Holders(f)
      BY <2>2, HoldersAre DEF OfCurves
    <3>2. IsFiniteSet(Holders(f)) /\ count[f] >= Cardinality(Holders(f)) /\ Holders(f) # {}
      BY <2>1, <3>1 DEF CountsRight
    <3>3. Cardinality(Holders(f)) \in Nat /\ Cardinality(Holders(f)) # 0
      BY <3>2, FS_EmptySet, FS_CardinalityType
    <3>4. count[f] \in Int
      BY <2>1 DEF HeldTypes
    <3> QED
      BY <3>2, <3>3, <3>4
  <2>3. ASSUME NEW c \in Curves, curve[c].custom # 0 PROVE Eases(curve[c].custom, curve[c].attribute)
    <3>4. PICK a, i : a = curve[c].attribute /\ i = curve[c].custom
      OBVIOUS
    <3>5. a \in Functions /\ custom[i] = [parent |-> c, function |-> a]
      BY <2>1, <2>3, <3>4 DEF CurvesRight
    <3>6. custom[i].function = a
      BY <3>5
    <3>1. curve[c].attribute \in Functions /\ custom[curve[c].custom].function = curve[c].attribute
      BY <3>4, <3>5, <3>6
    <3>2. PICK f \in Functions : curve[c].attribute = f
      BY <3>1
    <3>3. count[f] > 0
      BY <2>2, <3>2
    <3> QED
      BY <3>1, <3>2, <3>3 DEF Eases
  <2>4. ASSUME "copies" \notin conduct, animation.custom # 0 PROVE Eases(animation.custom, animation.wanted)
    <3>1. PICK c \in Curves : curve[c].custom = animation.custom /\ curve[c].attribute = animation.wanted
      BY <2>1, <2>4 DEF CurvesRight
    <3>2. Eases(curve[c].custom, curve[c].attribute)
      BY <2>3, <2>4, <3>1
    <3> QED
      BY <3>1, <3>2
  <2>5. CountsHold
    BY <2>1 DEF CountsRight, CountsHold, Exact
  <2>6. CurvesHold
    BY <2>1, <2>3, <2>4 DEF CurvesRight, CurvesHold
  <2>7. ~app /\ loop.at = 0 => factories = <<>> /\ ("apps" \notin conduct => routines = <<>>)
    BY <2>1 DEF RoutinesRight
  <2>8. logging /\ ~({"removes", "threads"} \subseteq conduct) => handler # NoFunction
    BY <2>1 DEF HandlerRight
  <2>9. conduct \cap {"raises", "plain"} = {} => ~error
    BY <2>1 DEF ErrorRight
  <2> QED
    BY <2>5, <2>6, <2>7, <2>8, <2>9 DEF CallablesHeld
<1>2. HeldInv => CallablesHeld
  BY <1>1
<1> QED
  BY <1>2, HeldInvariant, PTL

HIDE HoldAssumption

-----------------------------------------------------------------------------
(* WidgetLayouts *)

(* Upwards *)

Parents == [Parts -> Parts \cup {NoParent}]

LEMMA PartsAreFinite ==
  IsFiniteSet(Parts) /\ Cardinality(Parts) \in Nat /\ NoParent \notin Parts
  /\ \A o \in Parts : o \in Widgets <=> o \notin Boxes
<1>1. IsFiniteSet(Parts)
  BY LayoutAssumption, FS_Union DEF Parts
<1> QED
  BY <1>1, LayoutAssumption, FS_CardinalityType DEF Parts

\* What one more step upwards adds.
Further(A, p) == A \cup ({p[q] : q \in A \ {NoParent}})

\* What is met in so many steps.
IsPath(f, o, p) ==
  /\ f[0] = {o}
  /\ \A n \in 1..Cardinality(Parts) : f[n] = Further(f[n - 1], p)

LEMMA PathSteps ==
  ASSUME NEW o, NEW p
  PROVE  \E f : IsPath(f, o, p) /\ Upwards(o, p) = f[Cardinality(Parts)] \ {NoParent}
<1> DEFINE IsAfter(f, k) == f = [n \in 0..k |-> IF n = 0 THEN {o} ELSE Further(f[n - 1], p)]
           K == {k \in Nat : \E f : IsAfter(f, k)}
<1>1. 0 \in K
  <2>1. IsAfter([n \in 0..0 |-> {o}], 0)
    OBVIOUS
  <2> QED
    BY <2>1
<1>2. ASSUME NEW k \in K PROVE k + 1 \in K
  <2>1. PICK f : IsAfter(f, k)
    BY <1>2
  <2>2. PICK x : x = Further(f[k], p)
    OBVIOUS
  <2>3. PICK g : g = [n \in 0..(k + 1) |-> IF n <= k THEN f[n] ELSE x]
    OBVIOUS
  <2>4. \A n \in 0..k : f[n] = IF n = 0 THEN {o} ELSE Further(f[n - 1], p)
    BY <2>1
  <2>5. ASSUME NEW n \in 0..(k + 1)
        PROVE  g[n] = IF n = 0 THEN {o} ELSE Further(g[n - 1], p)
    <3>1. CASE n <= k
      <4>1. n \in 0..k /\ g[n] = f[n] /\ (n # 0 => g[n - 1] = f[n - 1])
        BY <2>3, <3>1
      <4> QED
        BY <2>4, <4>1
    <3>2. CASE n = k + 1
      <4>1. g[n] = x /\ g[n - 1] = f[k] /\ n # 0
        BY <2>3, <3>2
      <4> QED
        BY <2>2, <3>2, <4>1
    <3> QED
      BY <3>1, <3>2
  <2>6. IsAfter(g, k + 1)
    BY <2>3, <2>5
  <2> QED
    BY <2>6
<1>3. K = Nat
  <2> HIDE DEF K
  <2>1. K \in SUBSET Nat
    BY DEF K
  <2> QED
    BY <1>1, <1>2, <2>1, AllNumbers
<1>4. PICK m \in Nat : m = Cardinality(Parts)
  BY PartsAreFinite
<1>5. PICK f : IsAfter(f, m)
  BY <1>3
<1>6. PICK u : u = CHOOSE g : IsAfter(g, m)
  OBVIOUS
<1>7. IsAfter(u, m)
  BY <1>5, <1>6
<1>8. Upwards(o, p) = u[m] \ {NoParent}
  BY <1>4, <1>6 DEF Upwards, Further
<1>9. \A n \in 0..m : u[n] = IF n = 0 THEN {o} ELSE Further(u[n - 1], p)
  BY <1>7
<1>10. IsPath(u, o, p)
  BY <1>4, <1>9 DEF IsPath
<1> QED
  BY <1>4, <1>8, <1>10

\* Nothing is left out: from each object that is met the way goes on.
IsClosed(A, p) == \A q \in A \ {NoParent} : p[q] \in A

LEMMA UpwardsIsClosed ==
  ASSUME NEW o \in Parts, NEW p \in Parents
  PROVE  /\ Upwards(o, p) \subseteq Parts /\ o \in Upwards(o, p)
         /\ \A q \in Upwards(o, p) : p[q] # NoParent => p[q] \in Upwards(o, p)
<1>1. PICK N \in Nat : N = Cardinality(Parts)
  BY PartsAreFinite
<1>2. PICK f : IsPath(f, o, p) /\ Upwards(o, p) = f[N] \ {NoParent}
  BY <1>1, PathSteps
<1>3. f[0] = {o} /\ \A n \in 1..N : f[n] = Further(f[n - 1], p)
  BY <1>1, <1>2 DEF IsPath
<1> DEFINE All == Parts \cup {NoParent}
<1>4. IsFiniteSet(All) /\ Cardinality(All) = N + 1
  BY <1>1, PartsAreFinite, FS_AddElement
<1> DEFINE Good(n) == /\ f[n] \subseteq All /\ o \in f[n]
                      /\ IsClosed(f[n], p) \/ Cardinality(f[n]) >= n + 1
           K == {n \in Nat : n <= N => Good(n)}
<1>5. 0 \in K
  <2>1. Cardinality({o}) = 1
    BY FS_Singleton
  <2>2. f[0] = {o} /\ {o} \subseteq All
    BY <1>3
  <2>3. Good(0)
    BY <2>1, <2>2
  <2> QED
    BY <2>3
<1>6. ASSUME NEW n \in K
      PROVE  n + 1 \in K
  <2> SUFFICES ASSUME n + 1 <= N PROVE Good(n + 1)
    OBVIOUS
  <2>1. Good(n) /\ n \in Nat
    BY <1>6
  <2>2. PICK A : A = f[n]
    OBVIOUS
  <2>3. PICK B : B = Further(A, p)
    OBVIOUS
  <2>4. f[n + 1] = B
    <3>1. PICK m \in 1..N : m = n + 1
      BY <1>6
    <3>2. m - 1 = n
      BY <3>1
    <3> QED
      BY <1>3, <2>2, <2>3, <3>1, <3>2
  <2>5. A \subseteq All /\ o \in A
    BY <2>1, <2>2
  <2>6. B \subseteq All /\ o \in B /\ A \subseteq B
    <3>1. \A q \in A \ {NoParent} : p[q] \in All
      BY <2>5 DEF Parents
    <3> QED
      BY <2>3, <2>5, <3>1 DEF Further
  <2>7. CASE IsClosed(A, p)
    <3>1. B = A
      BY <2>3, <2>7 DEF Further, IsClosed
    <3> QED
      BY <2>4, <2>5, <2>7, <3>1
  <2>8. CASE ~IsClosed(A, p)
    <3>1. Cardinality(A) >= n + 1
      BY <2>1, <2>2, <2>8
    <3>2. PICK q \in A \ {NoParent} : p[q] \notin A
      BY <2>8 DEF IsClosed
    <3>3. p[q] \in B
      BY <2>3, <3>2 DEF Further
    <3>4. IsFiniteSet(A) /\ IsFiniteSet(B)
      BY <1>4, <2>5, <2>6, FS_Subset
    <3>5. Cardinality(A) < Cardinality(B) /\ Cardinality(A) \in Nat /\ Cardinality(B) \in Nat
      <4>1. A # B
        BY <3>2, <3>3
      <4> QED
        BY <2>6, <3>4, <4>1, FS_Subset, FS_CardinalityType
    <3>6. Cardinality(B) >= n + 2
      BY <2>1, <3>1, <3>5
    <3> QED
      BY <2>1, <2>4, <2>6, <3>6
  <2> QED
    BY <2>7, <2>8
<1>7. K = Nat
  <2> HIDE DEF K
  <2>1. K \in SUBSET Nat
    BY DEF K
  <2> QED
    BY <1>5, <1>6, <2>1, AllNumbers
<1>8. Good(N)
  BY <1>7
<1>9. IsClosed(f[N], p)
  <2>1. CASE Cardinality(f[N]) >= N + 1
    <3>1. f[N] \subseteq All /\ IsFiniteSet(f[N])
      BY <1>4, <1>8, FS_Subset
    <3>2. f[N] = All
      <4>1. Cardinality(f[N]) \in Nat /\ (f[N] # All => Cardinality(f[N]) < Cardinality(All))
        BY <1>4, <3>1, FS_Subset, FS_CardinalityType
      <4> QED
        BY <1>4, <2>1, <4>1
    <3> QED
      BY <3>2 DEF IsClosed, Parents
  <2> QED
    BY <1>8, <2>1
<1>10. NoParent \notin Parts
  BY PartsAreFinite
<1>11. f[N] \subseteq All /\ o \in f[N]
  BY <1>8
<1> QED
  BY <1>2, <1>9, <1>10, <1>11 DEF IsClosed

\* And nothing more is met.
LEMMA UpwardsIsLeast ==
  ASSUME NEW o \in Parts, NEW p \in Parents, NEW S, o \in S, \A q \in S : q \in Parts => p[q] = NoParent \/ p[q] \in S
  PROVE  Upwards(o, p) \subseteq S
<1>1. PICK N \in Nat : N = Cardinality(Parts)
  BY PartsAreFinite
<1>2. PICK f : IsPath(f, o, p) /\ Upwards(o, p) = f[N] \ {NoParent}
  BY <1>1, PathSteps
<1>3. f[0] = {o} /\ \A n \in 1..N : f[n] = Further(f[n - 1], p)
  BY <1>1, <1>2 DEF IsPath
<1> DEFINE T == (S \cap Parts) \cup {NoParent}
           K == {n \in Nat : n <= N => f[n] \subseteq T}
<1>4. 0 \in K
  BY <1>3
<1>5. ASSUME NEW n \in K
      PROVE  n + 1 \in K
  <2> SUFFICES ASSUME n + 1 <= N PROVE f[n + 1] \subseteq T
    OBVIOUS
  <2>1. f[n] \subseteq T
    BY <1>5
  <2>2. f[n + 1] = Further(f[n], p)
    <3>1. PICK m \in 1..N : m = n + 1
      BY <1>5
    <3>2. m - 1 = n
      BY <3>1
    <3> QED
      BY <1>3, <3>1, <3>2
  <2>3. \A q \in T \ {NoParent} : p[q] \in T
    BY DEF Parents
  <2> QED
    BY <2>1, <2>2, <2>3 DEF Further
<1>6. K = Nat
  <2> HIDE DEF K
  <2>1. K \in SUBSET Nat
    BY DEF K
  <2> QED
    BY <1>4, <1>5, <2>1, AllNumbers
<1>7. f[N] \subseteq T
  BY <1>6
<1> QED
  BY <1>2, <1>7

LEMMA UpwardsOfThose ==
  ASSUME NEW o \in Parts, NEW p \in Parents, NEW q \in Upwards(o, p)
  PROVE  q \in Parts /\ Upwards(q, p) \subseteq Upwards(o, p)
<1>1. /\ Upwards(o, p) \subseteq Parts
      /\ \A r \in Upwards(o, p) : p[r] # NoParent => p[r] \in Upwards(o, p)
  BY UpwardsIsClosed
<1>2. q \in Parts
  BY <1>1
<1> QED
  BY <1>1, <1>2, UpwardsIsLeast

LEMMA UpwardsByParent ==
  ASSUME NEW o \in Parts, NEW p \in Parents
  PROVE  /\ p[o] = NoParent => Upwards(o, p) = {o}
         /\ p[o] # NoParent => p[o] \in Parts /\ Upwards(o, p) = {o} \cup Upwards(p[o], p)
<1>1. o \in Upwards(o, p) /\ (p[o] # NoParent => p[o] \in Upwards(o, p))
  BY UpwardsIsClosed
<1>2. ASSUME p[o] = NoParent
      PROVE  Upwards(o, p) = {o}
  <2>1. PICK S : S = {o}
    OBVIOUS
  <2>2. Upwards(o, p) \subseteq S
    BY <1>2, <2>1, UpwardsIsLeast
  <2> QED
    BY <1>1, <2>1, <2>2
<1>3. ASSUME p[o] # NoParent
      PROVE  p[o] \in Parts /\ Upwards(o, p) = {o} \cup Upwards(p[o], p)
  <2>1. PICK q \in Parts : q = p[o]
    BY <1>3 DEF Parents
  <2>2. q \in Upwards(q, p) /\ \A r \in Upwards(q, p) : p[r] # NoParent => p[r] \in Upwards(q, p)
    BY UpwardsIsClosed
  <2>3. PICK S : S = {o} \cup Upwards(q, p)
    OBVIOUS
  <2>4. o \in S /\ \A r \in S : r \in Parts => p[r] = NoParent \/ p[r] \in S
    BY <2>1, <2>2, <2>3
  <2>5. Upwards(o, p) \subseteq S
    BY <2>4, UpwardsIsLeast
  <2>6. Upwards(q, p) \subseteq Upwards(o, p)
    BY <1>1, <1>3, <2>1, UpwardsOfThose
  <2> QED
    BY <1>1, <2>1, <2>3, <2>5, <2>6
<1> QED
  BY <1>2, <1>3

\* One of two that are above an object is above the other.
LEMMA UpwardsIsLinear ==
  ASSUME NEW o \in Parts, NEW p \in Parents, NEW q \in Upwards(o, p), NEW t \in Upwards(o, p)
  PROVE  q \in Upwards(t, p) \/ t \in Upwards(q, p)
<1>1. /\ Upwards(o, p) \subseteq Parts
      /\ \A r \in Upwards(o, p) : p[r] # NoParent => p[r] \in Upwards(o, p)
      /\ o \in Upwards(o, p)
  BY UpwardsIsClosed
<1>2. t \in Parts /\ \A r \in Upwards(t, p) : p[r] # NoParent => p[r] \in Upwards(t, p)
  BY <1>1, UpwardsIsClosed
<1>3. PICK S : S = {r \in Upwards(o, p) : r \in Upwards(t, p) \/ t \in Upwards(r, p)}
  OBVIOUS
<1>4. ASSUME NEW r \in S, p[r] # NoParent
      PROVE  p[r] \in S
  <2>1. r \in Upwards(o, p) /\ r \in Parts
    BY <1>1, <1>3
  <2>2. p[r] \in Upwards(o, p)
    BY <1>1, <1>4, <2>1
  <2>3. CASE r \in Upwards(t, p)
    BY <1>2, <1>3, <1>4, <2>2, <2>3
  <2>4. CASE t \in Upwards(r, p)
    <3>1. t = r \/ t \in Upwards(p[r], p)
      BY <1>4, <2>1, <2>4, UpwardsByParent
    <3>2. CASE t = r
      <4>1. r \in Upwards(t, p)
        BY <1>2, <3>2, UpwardsIsClosed
      <4> QED
        BY <2>3, <4>1
    <3>3. CASE t \in Upwards(p[r], p)
      BY <1>3, <2>2, <3>3
    <3> QED
      BY <3>1, <3>2, <3>3
  <2> QED
    BY <1>3, <2>3, <2>4
<1>5. Upwards(o, p) \subseteq S
  <2>1. o \in S
    BY <1>1, <1>3
  <2> QED
    BY <1>4, <2>1, UpwardsIsLeast
<1> QED
  BY <1>3, <1>5

\* The way is the same if the parents on it are.
LEMMA SameWay ==
  ASSUME NEW o \in Parts, NEW p \in Parents, NEW r \in Parents, \A q \in Upwards(o, p) : r[q] = p[q]
  PROVE  Upwards(o, r) = Upwards(o, p)
<1>1. o \in Upwards(o, p) /\ \A q \in Upwards(o, p) : p[q] # NoParent => p[q] \in Upwards(o, p)
  BY UpwardsIsClosed
<1>2. Upwards(o, r) \subseteq Upwards(o, p)
  BY <1>1, UpwardsIsLeast
<1>3. o \in Upwards(o, r) /\ \A q \in Upwards(o, r) : r[q] # NoParent => r[q] \in Upwards(o, r)
  BY UpwardsIsClosed
<1>4. \A q \in Upwards(o, r) : p[q] = NoParent \/ p[q] \in Upwards(o, r)
  BY <1>2, <1>3
<1>5. Upwards(o, p) \subseteq Upwards(o, r)
  BY <1>3, <1>4, UpwardsIsLeast
<1> QED
  BY <1>2, <1>5

\* Only those in X change their parents.
ChangedIn(X, p, r) == \A q \in Parts : q \in X \/ r[q] = p[q]
Avoids(o, X, p) == \A q \in Upwards(o, p) : q \notin X

LEMMA ChangeIsMet ==
  ASSUME NEW o \in Parts, NEW p \in Parents, NEW r \in Parents, NEW X, ChangedIn(X, p, r)
  PROVE  /\ Avoids(o, X, p) => Upwards(o, r) = Upwards(o, p)
         /\ ~Avoids(o, X, p) => ~Avoids(o, X, r)
<1>1. Upwards(o, p) \subseteq Parts /\ Upwards(o, r) \subseteq Parts
  BY UpwardsIsClosed
<1>2. ASSUME Avoids(o, X, p)
      PROVE  Upwards(o, r) = Upwards(o, p)
  <2>1. \A q \in Upwards(o, p) : r[q] = p[q]
    BY <1>1, <1>2 DEF Avoids, ChangedIn
  <2> QED
    BY <2>1, SameWay
<1>3. ASSUME Avoids(o, X, r)
      PROVE  Avoids(o, X, p)
  <2>1. \A q \in Upwards(o, r) : p[q] = r[q]
    BY <1>1, <1>3 DEF Avoids, ChangedIn
  <2>2. Upwards(o, p) = Upwards(o, r)
    BY <2>1, SameWay
  <2> QED
    BY <1>3, <2>2 DEF Avoids
<1> QED
  BY <1>2, <1>3

\* Every way ends.
Rooted(p) == \A o \in Parts : \E t \in Upwards(o, p) : p[t] = NoParent

LEMMA RootedAfter ==
  ASSUME NEW p \in Parents, Rooted(p), NEW r \in Parents, NEW X, ChangedIn(X, p, r),
         \A x \in X : x \in Parts => r[x] = NoParent \/ Avoids(r[x], X, p)
  PROVE  Rooted(r)
<1> SUFFICES ASSUME NEW o \in Parts PROVE \E t \in Upwards(o, r) : r[t] = NoParent
  BY DEF Rooted
<1>1. ASSUME NEW q \in Parts, Avoids(q, X, p)
      PROVE  \E t \in Upwards(q, r) : r[t] = NoParent
  <2>1. PICK t \in Upwards(q, p) : p[t] = NoParent
    BY DEF Rooted
  <2>2. t \in Parts /\ t \notin X
    BY <1>1, UpwardsIsClosed DEF Avoids
  <2>3. r[t] = NoParent /\ t \in Upwards(q, r)
    BY <1>1, <2>1, <2>2, ChangeIsMet DEF ChangedIn
  <2> QED
    BY <2>3
<1>2. CASE Avoids(o, X, p)
  BY <1>1, <1>2
<1>3. CASE ~Avoids(o, X, p)
  <2>1. ~Avoids(o, X, r)
    BY <1>3, ChangeIsMet
  <2>2. PICK x \in Upwards(o, r) : x \in X
    BY <2>1 DEF Avoids
  <2>3. x \in Parts /\ Upwards(x, r) \subseteq Upwards(o, r)
    BY UpwardsOfThose
  <2>4. CASE r[x] = NoParent
    BY <2>4
  <2>5. CASE r[x] # NoParent
    <3>1. PICK y \in Parts : y = r[x]
      BY <2>3, <2>5 DEF Parents
    <3>2. Avoids(y, X, p)
      BY <2>2, <2>3, <2>5, <3>1
    <3>3. PICK t \in Upwards(y, r) : r[t] = NoParent
      BY <1>1, <3>2
    <3>4. y \in Upwards(o, r)
      BY <2>2, <2>5, <3>1, UpwardsIsClosed
    <3>5. t \in Upwards(o, r)
      BY <3>4, UpwardsOfThose
    <3> QED
      BY <3>3, <3>5
  <2> QED
    BY <2>4, <2>5
<1> QED
  BY <1>2, <1>3

TopOf(o, p) == CHOOSE t \in Upwards(o, p) : p[t] = NoParent

LEMMA OneTop ==
  ASSUME NEW o \in Parts, NEW p \in Parents, Rooted(p)
  PROVE  /\ TopOf(o, p) \in Upwards(o, p) /\ p[TopOf(o, p)] = NoParent
         /\ \A t \in Upwards(o, p) : p[t] = NoParent => t = TopOf(o, p)
<1>1. PICK u : u = TopOf(o, p)
  OBVIOUS
<1>2. u \in Upwards(o, p) /\ p[u] = NoParent
  <2>1. \E t \in Upwards(o, p) : p[t] = NoParent
    BY DEF Rooted
  <2> QED
    BY <1>1, <2>1 DEF TopOf
<1>3. ASSUME NEW t \in Upwards(o, p), p[t] = NoParent
      PROVE  t = u
  <2>1. t \in Parts /\ u \in Parts
    BY <1>2, UpwardsIsClosed
  <2>2. t \in Upwards(u, p) \/ u \in Upwards(t, p)
    BY <1>2, UpwardsIsLinear
  <2> QED
    BY <1>2, <1>3, <2>1, <2>2, UpwardsByParent
<1> QED
  BY <1>1, <1>2, <1>3

-----------------------------------------------------------------------------
(* Windows *)

\* Widgets are in widgets.
KindsApart(p) == p \in Parents /\ \A w \in Widgets : p[w] \in Widgets \cup {NoParent}

WindowOf(l, p) ==
  LET windows == {w \in Widgets : \E b \in Boxes \cap Upwards(l, p) : p[b] = w} IN
  IF windows = {} THEN NoParent ELSE CHOOSE w \in windows : TRUE

LEMMA WidgetsUpwards ==
  ASSUME NEW p, KindsApart(p), NEW w \in Widgets
  PROVE  Upwards(w, p) \subseteq Widgets
<1>1. w \in Parts /\ p \in Parents /\ \A q \in Widgets : p[q] = NoParent \/ p[q] \in Widgets
  BY DEF Parts, KindsApart
<1> QED
  BY <1>1, UpwardsIsLeast

LEMMA OneWindow ==
  ASSUME NEW p, KindsApart(p), NEW l \in Boxes
  PROVE  /\ WindowOf(l, p) \in Widgets \cup {NoParent}
         /\ WindowOf(l, p) # NoParent =>
              /\ WindowOf(l, p) \in Upwards(l, p)
              /\ \E b \in Boxes : b \in Upwards(l, p) /\ p[b] = WindowOf(l, p)
         /\ \A b \in Boxes : b \in Upwards(l, p) /\ p[b] \in Widgets => WindowOf(l, p) = p[b]
         /\ WindowOf(l, p) = NoParent => Upwards(l, p) \subseteq Boxes
<1>1. l \in Parts /\ p \in Parents /\ NoParent \notin Widgets
  BY LayoutAssumption DEF Parts, KindsApart
<1>2. /\ Upwards(l, p) \subseteq Parts /\ l \in Upwards(l, p)
      /\ \A q \in Upwards(l, p) : p[q] # NoParent => p[q] \in Upwards(l, p)
  BY <1>1, UpwardsIsClosed
<1>3. PICK windows : windows = {w \in Widgets : \E b \in Boxes \cap Upwards(l, p) : p[b] = w}
  OBVIOUS
<1>4. WindowOf(l, p) = IF windows = {} THEN NoParent ELSE CHOOSE w \in windows : TRUE
  BY <1>3 DEF WindowOf
<1>5. ASSUME NEW b \in Boxes, NEW c \in Boxes, b \in Upwards(l, p), c \in Upwards(l, p), p[b] \in Widgets,
             p[c] \in Widgets, b \in Upwards(c, p)
      PROVE  b = c
  <2>1. b = c \/ b \in Upwards(p[c], p)
    BY <1>1, <1>2, <1>5, UpwardsByParent
  <2>2. Upwards(p[c], p) \subseteq Widgets
    BY <1>5, WidgetsUpwards
  <2>3. b \notin Widgets
    BY LayoutAssumption
  <2> QED
    BY <2>1, <2>2, <2>3
<1>6. \A b, c \in Boxes : b \in Upwards(l, p) /\ c \in Upwards(l, p) /\ p[b] \in Widgets /\ p[c] \in Widgets => b = c
  BY <1>1, <1>5, UpwardsIsLinear
<1>7. \A v, w \in windows : v = w
  BY <1>3, <1>6
<1>8. \A b \in Boxes : b \in Upwards(l, p) /\ p[b] \in Widgets => WindowOf(l, p) = p[b]
  BY <1>3, <1>4, <1>7
<1>9. WindowOf(l, p) # NoParent => WindowOf(l, p) \in windows
  BY <1>4
<1>10. WindowOf(l, p) = NoParent => windows = {}
  BY <1>1, <1>3, <1>4
<1>11. ASSUME windows = {}
       PROVE  Upwards(l, p) \subseteq Boxes
  <2>1. PICK S : S = Boxes \cap Upwards(l, p)
    OBVIOUS
  <2>2. ASSUME NEW q \in S, p[q] # NoParent
        PROVE  p[q] \in S
    <3>1. p[q] \in Upwards(l, p) /\ p[q] \in Parts
      BY <1>2, <2>1, <2>2
    <3>2. p[q] \notin Widgets
      BY <1>3, <1>11, <2>1
    <3> QED
      BY <2>1, <3>1, <3>2 DEF Parts
  <2>3. Upwards(l, p) \subseteq S
    BY <1>1, <1>2, <2>1, <2>2, UpwardsIsLeast
  <2> QED
    BY <2>1, <2>3
<1>12. WindowOf(l, p) # NoParent => /\ WindowOf(l, p) \in Widgets /\ WindowOf(l, p) \in Upwards(l, p)
                                    /\ \E b \in Boxes : b \in Upwards(l, p) /\ p[b] = WindowOf(l, p)
  BY <1>2, <1>3, <1>9
<1> QED
  BY <1>8, <1>10, <1>11, <1>12

LEMMA WindowOfOthers ==
  ASSUME NEW p, KindsApart(p), NEW l \in Boxes, NEW b \in Boxes, b \in Upwards(l, p)
  PROVE  WindowOf(b, p) = WindowOf(l, p)
<1>1. l \in Parts /\ b \in Parts /\ p \in Parents
  BY DEF Parts, KindsApart
<1>2. Upwards(b, p) \subseteq Upwards(l, p)
  BY <1>1, UpwardsOfThose
<1>3. CASE WindowOf(b, p) # NoParent
  <2>1. PICK c \in Boxes : c \in Upwards(b, p) /\ p[c] = WindowOf(b, p) /\ WindowOf(b, p) \in Widgets
    BY <1>3, OneWindow
  <2> QED
    BY <1>2, <2>1, OneWindow
<1>4. CASE WindowOf(b, p) = NoParent
  <2>1. Upwards(b, p) \subseteq Boxes
    BY <1>4, OneWindow
  <2> SUFFICES ASSUME WindowOf(l, p) # NoParent PROVE FALSE
    BY <1>4
  <2>2. PICK c \in Boxes : c \in Upwards(l, p) /\ p[c] = WindowOf(l, p) /\ WindowOf(l, p) \in Widgets
    BY OneWindow
  <2>3. p[c] \notin Boxes /\ p[c] # NoParent /\ c \in Parts
    BY <2>2, LayoutAssumption DEF Parts
  <2>4. c \in Upwards(b, p) \/ b \in Upwards(c, p)
    BY <1>1, <2>2, UpwardsIsLinear
  <2>5. CASE c \in Upwards(b, p)
    BY <1>1, <2>1, <2>3, <2>5, UpwardsIsClosed
  <2>6. CASE b \in Upwards(c, p) /\ c \notin Upwards(b, p)
    <3>1. b # c
      BY <1>1, <2>6, UpwardsIsClosed
    <3>2. b \in Upwards(p[c], p)
      BY <1>1, <2>3, <2>6, <3>1, UpwardsByParent
    <3>3. Upwards(p[c], p) \subseteq Widgets
      BY <2>2, WidgetsUpwards
    <3> QED
      BY <3>2, <3>3, LayoutAssumption
  <2> QED
    BY <2>4, <2>5, <2>6
<1> QED
  BY <1>3, <1>4

LEMMA WidgetsAboveBoxes ==
  ASSUME NEW p, KindsApart(p), NEW l \in Boxes, NEW w \in Widgets, w \in Upwards(l, p)
  PROVE  WindowOf(l, p) \in Widgets /\ w \in Upwards(WindowOf(l, p), p)
<1>1. l \in Parts /\ p \in Parents /\ w \notin Boxes
  BY LayoutAssumption DEF Parts, KindsApart
<1>2. PICK v \in Widgets : v = WindowOf(l, p)
  BY <1>1, OneWindow
<1>3. PICK S : S = (Boxes \cap Upwards(l, p)) \cup Upwards(v, p)
  OBVIOUS
<1>4. v \in Parts /\ v \in Upwards(v, p) /\ \A q \in Upwards(v, p) : p[q] # NoParent => p[q] \in Upwards(v, p)
  BY <1>1, UpwardsIsClosed DEF Parts
<1>5. ASSUME NEW q \in S, p[q] # NoParent
      PROVE  p[q] \in S
  <2>1. CASE q \in Boxes /\ q \in Upwards(l, p)
    <3>1. p[q] \in Upwards(l, p) /\ p[q] \in Parts
      BY <1>1, <1>5, <2>1, UpwardsIsClosed
    <3>2. p[q] \in Widgets => p[q] = v
      BY <1>2, <2>1, OneWindow
    <3> QED
      BY <1>3, <1>4, <3>1, <3>2 DEF Parts
  <2>2. CASE q \in Upwards(v, p)
    BY <1>3, <1>4, <1>5, <2>2
  <2> QED
    BY <1>3, <2>1, <2>2
<1>6. Upwards(l, p) \subseteq S
  <2>1. l \in S
    BY <1>1, <1>3, UpwardsIsClosed
  <2> QED
    BY <1>1, <1>5, <2>1, UpwardsIsLeast
<1> QED
  BY <1>1, <1>2, <1>3, <1>6

\* The layouts around one, and its window, are the same if the parents of layouts are.
LEMMA SameWindow ==
  ASSUME NEW p, KindsApart(p), NEW r, KindsApart(r), NEW l \in Boxes, \A b \in Boxes : b \in Upwards(l, p) => r[b] = p[b]
  PROVE  /\ \A b \in Boxes : b \in Upwards(l, r) <=> b \in Upwards(l, p)
         /\ WindowOf(l, r) = WindowOf(l, p)
<1>1. l \in Parts /\ p \in Parents /\ r \in Parents /\ \A b \in Boxes : b \notin Widgets
  BY LayoutAssumption DEF Parts, KindsApart
<1>2. ASSUME NEW x, NEW y, KindsApart(x), KindsApart(y), \A b \in Boxes : b \in Upwards(l, x) => y[b] = x[b]
      PROVE  \A b \in Boxes : b \in Upwards(l, y) => b \in Upwards(l, x)
  <2>1. x \in Parents /\ y \in Parents
    BY <1>2 DEF KindsApart
  <2>2. PICK S : S = (Boxes \cap Upwards(l, x)) \cup Widgets
    OBVIOUS
  <2>3. ASSUME NEW q \in S, y[q] # NoParent
        PROVE  y[q] \in S
    <3>1. CASE q \in Widgets
      BY <1>2, <2>2, <2>3, <3>1 DEF KindsApart
    <3>2. CASE q \in Boxes /\ q \in Upwards(l, x)
      <4>1. y[q] = x[q]
        BY <1>2, <3>2
      <4>2. x[q] \in Upwards(l, x) /\ x[q] \in Parts
        BY <1>1, <2>1, <2>3, <3>2, <4>1, UpwardsIsClosed
      <4> QED
        BY <2>2, <4>1, <4>2 DEF Parts
    <3> QED
      BY <2>2, <3>1, <3>2
  <2>4. l \in S
    BY <1>1, <2>1, <2>2, UpwardsIsClosed
  <2>5. Upwards(l, y) \subseteq S
    BY <1>1, <2>1, <2>3, <2>4, UpwardsIsLeast
  <2> QED
    BY <1>1, <2>2, <2>5
<1>3. \A b \in Boxes : b \in Upwards(l, r) => b \in Upwards(l, p)
  BY <1>2
<1>4. \A b \in Boxes : b \in Upwards(l, r) => p[b] = r[b]
  BY <1>3
<1>5. \A b \in Boxes : b \in Upwards(l, p) => b \in Upwards(l, r)
  BY <1>2, <1>4
<1>6. WindowOf(l, r) = WindowOf(l, p)
  <2>1. {w \in Widgets : \E b \in Boxes \cap Upwards(l, r) : r[b] = w}
          = {w \in Widgets : \E b \in Boxes \cap Upwards(l, p) : p[b] = w}
    BY <1>3, <1>5
  <2> QED
    BY <2>1 DEF WindowOf
<1> QED
  BY <1>3, <1>5, <1>6

-----------------------------------------------------------------------------
(* What careful programs keep *)

\* Widgets and layouts that exist form trees.
Tree ==
  /\ KindsApart(up) /\ Rooted(up)
  /\ \A o \in Parts : up[o] # NoParent => up[o] \in made /\ o \in made
\* The parent of a layout in another is the other.
BoxItems == \A l, b \in Boxes : b \in items[l] <=> up[b] = l
\* The parent of a widget in a layout with window is the window.
WidgetItems ==
  \A l \in Boxes : \A w \in Widgets : w \in items[l] /\ WindowOf(l, up) # NoParent => up[w] = WindowOf(l, up)
OneLayout == \A b, c \in Boxes : \A w \in Widgets : w \in items[b] /\ w \in items[c] => b = c
WidgetWrappers == \A w \in Widgets : above[w] = up[w]
\* The wrapper of a layout without window has no parent.
BoxWrappers ==
  \A b \in Boxes : above[b] # NoParent =>
    /\ WindowOf(b, up) # NoParent
    /\ above[b] = WindowOf(b, up) \/ (above[b] \in Boxes /\ above[b] \in Upwards(b, up))
GivenAway == \A o \in made : o \notin owned => above[o] # NoParent
ItemsMade == \A l \in Boxes : \A o \in items[l] : o \in made /\ l \in made
\* A layout keeps a reference of a widget without window.
ItemsKept ==
  \A l \in Boxes : \A w \in Widgets : w \in items[l] /\ up[w] = NoParent => \E k \in kept[l] : k.part = w
\* The window of a widget in a layout without window
WindowsHeld == \A w \in Widgets : InOrphan(w) /\ up[w] # NoParent => Window(w) \in held

CarefulInv ==
  /\ Tree /\ BoxItems /\ WidgetItems /\ OneLayout /\ WidgetWrappers /\ BoxWrappers /\ GivenAway /\ ItemsMade
  /\ ItemsKept /\ WindowsHeld
Careful == "careless" \notin manners
LayoutInv == LayoutTypeOK /\ (Careful => CarefulInv)

LEMMA WindowNames ==
  /\ \A l : parentWidget(l) = WindowOf(l, up) /\ parentWidget(l)' = WindowOf(l, up')
  /\ \A w : Window(w) = TopOf(w, up) /\ Window(w)' = TopOf(w, up')
BY DEF parentWidget, WindowOf, Window, TopOf

LEMMA CarefulStays ==
  ASSUME Careful, StaysCareful
  PROVE  WindowsHeld'
BY DEF Careful, StaysCareful, WindowsHeld

\* What is in a layout, and the layout, are the layouts from which it is upwards.
LEMMA BoxesInside ==
  ASSUME Tree, BoxItems, NEW l \in Boxes, NEW b \in Boxes
  PROVE  b = l \/ b \in Inside(l) <=> l \in Upwards(b, up)
<1>1. up \in Parents /\ l \in Parts /\ b \in Parts /\ l \notin Widgets
  BY LayoutAssumption DEF Tree, KindsApart, Parts
<1>2. b \in Inside(l) <=> \E c \in Boxes : l \in Upwards(c, up) /\ up[b] = c
  BY DEF Inside, BoxItems
<1>3. l \in Upwards(l, up)
  BY <1>1, UpwardsIsClosed
<1>4. ASSUME NEW c \in Boxes, l \in Upwards(c, up), up[b] = c
      PROVE  l \in Upwards(b, up)
  <2>1. up[b] # NoParent
    BY <1>4, LayoutAssumption
  <2> QED
    BY <1>1, <1>4, <2>1, UpwardsByParent
<1>5. ASSUME l \in Upwards(b, up), b # l
      PROVE  \E c \in Boxes : l \in Upwards(c, up) /\ up[b] = c
  <2>1. up[b] # NoParent /\ l \in Upwards(up[b], up) /\ up[b] \in Parts
    BY <1>1, <1>5, UpwardsByParent
  <2>2. up[b] \notin Widgets
    BY <1>1, <2>1, WidgetsUpwards DEF Tree
  <2> QED
    BY <2>1, <2>2 DEF Parts
<1> QED
  BY <1>2, <1>3, <1>4, <1>5

LEMMA AboveIsUpwards ==
  ASSUME Tree, WidgetWrappers, BoxWrappers, NEW o \in Parts, above[o] # NoParent
  PROVE  above[o] \in Upwards(o, up) /\ up[o] # NoParent
<1>1. KindsApart(up) /\ up \in Parents
  BY DEF Tree, KindsApart
<1>2. CASE o \in Widgets
  BY <1>1, <1>2, UpwardsIsClosed DEF WidgetWrappers
<1>3. CASE o \in Boxes
  <2>1. WindowOf(o, up) \in Widgets /\ WindowOf(o, up) \in Upwards(o, up) /\ above[o] \in Upwards(o, up)
    BY <1>1, <1>3, OneWindow DEF BoxWrappers
  <2>2. up[o] # NoParent
    BY <1>1, <1>3, <2>1, UpwardsByParent, LayoutAssumption
  <2> QED
    BY <2>1, <2>2
<1> QED
  BY <1>2, <1>3 DEF Parts

LEMMA CarefulIsEnough ==
  ASSUME LayoutTypeOK, CarefulInv
  PROVE  LayoutsHoldTheirItems
<1>1. Tree /\ WidgetWrappers /\ BoxWrappers /\ GivenAway /\ ItemsMade /\ made \subseteq Parts
  BY DEF CarefulInv, LayoutTypeOK
<1>2. \A o \in made : above[o] # NoParent => above[o] \in Upwards(o, up) /\ up[o] # NoParent
  BY <1>1, AboveIsUpwards
<1> QED
  BY <1>1, <1>2 DEF LayoutsHoldTheirItems, GivenAway, ItemsMade

\* Steps that change no parents in Qt and make no less.
LEMMA SameTree ==
  ASSUME Tree, BoxItems, WidgetItems, OneLayout, up' = up, made \subseteq made', UNCHANGED items
  PROVE  Tree' /\ BoxItems' /\ WidgetItems' /\ OneLayout'
BY DEF Tree, BoxItems, WidgetItems, OneLayout

LEMMA NewPartCareful ==
  ASSUME LayoutTypeOK, CarefulInv, Careful, NEW o \in Parts, NewPart(o)
  PROVE  CarefulInv'
<1>1. /\ made' = made \cup {o} /\ held' = held \cup {o} /\ owned' = owned \cup {o}
      /\ UNCHANGED <<manners, up, items, title, above, kept>>
  BY DEF NewPart
<1>2. Tree' /\ BoxItems' /\ WidgetItems' /\ OneLayout'
  BY <1>1, SameTree DEF CarefulInv
<1>3. WidgetWrappers' /\ BoxWrappers' /\ ItemsKept'
  BY <1>1 DEF CarefulInv, WidgetWrappers, BoxWrappers, ItemsKept
<1>4. GivenAway' /\ ItemsMade'
  BY <1>1 DEF CarefulInv, GivenAway, ItemsMade
<1>5. WindowsHeld'
  BY <1>1 DEF CarefulInv, WindowsHeld, InOrphan, Window, parentWidget
<1> QED
  BY <1>2, <1>3, <1>4, <1>5 DEF CarefulInv

LEMMA LeaveCareful ==
  ASSUME LayoutTypeOK, CarefulInv, Careful, NEW o \in Parts, Leave(o)
  PROVE  CarefulInv'
<1>1. UNCHANGED <<manners, made, up, items, title, above, owned, kept>> /\ StaysCareful
  BY DEF Leave
<1>2. Tree' /\ BoxItems' /\ WidgetItems' /\ OneLayout'
  BY <1>1, SameTree DEF CarefulInv
<1>3. WidgetWrappers' /\ BoxWrappers' /\ ItemsKept' /\ GivenAway' /\ ItemsMade'
  BY <1>1 DEF CarefulInv, WidgetWrappers, BoxWrappers, ItemsKept, GivenAway, ItemsMade
<1> QED
  BY <1>1, <1>2, <1>3, CarefulStays DEF CarefulInv

LEMMA RenameCareful ==
  ASSUME LayoutTypeOK, CarefulInv, Careful, UNCHANGED <<manners, made, up, items, held, above, owned, kept>>
  PROVE  CarefulInv'
<1>1. Tree' /\ BoxItems' /\ WidgetItems' /\ OneLayout'
  BY SameTree DEF CarefulInv
<1>2. WidgetWrappers' /\ BoxWrappers' /\ ItemsKept' /\ GivenAway' /\ ItemsMade'
  BY DEF CarefulInv, WidgetWrappers, BoxWrappers, ItemsKept, GivenAway, ItemsMade
<1>3. WindowsHeld'
  BY DEF CarefulInv, WindowsHeld, InOrphan, Window, parentWidget
<1> QED
  BY <1>1, <1>2, <1>3 DEF CarefulInv

LEMMA RemoveWidgetCareful ==
  ASSUME LayoutTypeOK, CarefulInv, Careful, NEW l \in Boxes, NEW w \in Widgets, RemoveWidget(l, w)
  PROVE  CarefulInv'
<1>1. /\ UNCHANGED <<manners, made, up, title, held>> /\ items' = [items EXCEPT ![l] = @ \ {w}]
      /\ items \in [Boxes -> SUBSET Parts] /\ kept \in [Boxes -> SUBSET [key : Titles, part : Parts]]
      /\ w \in Parts /\ w \notin Boxes
  BY LayoutAssumption DEF RemoveWidget, LayoutTypeOK, Parts
<1>2. \A c \in Boxes : items'[c] = IF c = l THEN items[c] \ {w} ELSE items[c]
  BY <1>1
<1>3. Tree' /\ BoxItems' /\ WidgetItems' /\ OneLayout'
  BY <1>1, <1>2 DEF CarefulInv, Tree, BoxItems, WidgetItems, OneLayout
<1>4. ItemsMade'
  BY <1>1, <1>2 DEF CarefulInv, ItemsMade
<1>5. WindowsHeld'
  <2>1. \A v \in Widgets : InOrphan(v)' => InOrphan(v)
    BY <1>1, <1>2 DEF InOrphan, parentWidget
  <2> QED
    BY <1>1, <2>1 DEF CarefulInv, WindowsHeld, Window
<1>6. WidgetWrappers' /\ BoxWrappers' /\ GivenAway' /\ ItemsKept'
  <2>1. CASE up[w] # NoParent
    <3>1. /\ above' = [o \in Parts |-> IF o \in {w} THEN up[w] ELSE above[o]]
          /\ owned' = owned \ {w} /\ kept' = kept
      BY <2>1 DEF RemoveWidget, SetParents
    <3>2. \A o \in Parts : above'[o] = above[o]
      BY <3>1 DEF CarefulInv, WidgetWrappers
    <3>3. made \subseteq Parts
      BY DEF LayoutTypeOK
    <3>4. WidgetWrappers' /\ BoxWrappers'
      BY <1>1, <3>2 DEF CarefulInv, WidgetWrappers, BoxWrappers, Parts
    <3>5. GivenAway'
      BY <1>1, <2>1, <3>1, <3>2, <3>3 DEF CarefulInv, GivenAway, WidgetWrappers
    <3> QED
      BY <1>1, <1>2, <3>1, <3>4, <3>5 DEF CarefulInv, ItemsKept
  <2>2. CASE up[w] = NoParent
    <3>1. /\ kept' = [kept EXCEPT ![l] = {k \in @ : k # [key |-> title[l], part |-> w]}]
          /\ UNCHANGED <<above, owned>>
      BY <2>2 DEF RemoveWidget
    <3>2. \A c \in Boxes : \A k \in kept[c] : k.part # w => k \in kept'[c]
      BY <1>1, <3>1
    <3>3. ItemsKept'
      <4> SUFFICES ASSUME NEW c \in Boxes, NEW v \in Widgets, v \in items'[c], up[v] = NoParent
                   PROVE  \E k \in kept'[c] : k.part = v
        BY <1>1 DEF ItemsKept
      <4>1. v \in items[c]
        BY <1>2
      <4>2. PICK k \in kept[c] : k.part = v
        BY <4>1 DEF CarefulInv, ItemsKept
      <4>3. CASE v # w
        BY <3>2, <4>2, <4>3
      <4>4. CASE v = w
        <5>1. w \in items[l] /\ c # l
          BY <1>1, <1>2, <4>4 DEF RemoveWidget
        <5> QED
          BY <4>1, <4>4, <5>1 DEF CarefulInv, OneLayout
      <4> QED
        BY <4>3, <4>4
    <3> QED
      BY <1>1, <3>1, <3>3 DEF CarefulInv, WidgetWrappers, BoxWrappers, GivenAway
  <2> QED
    BY <2>1, <2>2
<1> QED
  BY <1>3, <1>4, <1>5, <1>6 DEF CarefulInv

-----------------------------------------------------------------------------
(* Steps that change parents *)

\* One widget gets another parent.
LEMMA WidgetMoved ==
  ASSUME LayoutTypeOK, Tree, NEW w \in Widgets, w \in made, NEW q \in Widgets \cup {NoParent},
         up' = [up EXCEPT ![w] = q], made' = made, q \in made \/ q = NoParent,
         q = NoParent \/ q = up[w] \/ w \notin Upwards(q, up)
  PROVE  /\ Tree' /\ up'[w] = q /\ \A o \in Parts : o # w => up'[o] = up[o]
         /\ \A l \in Boxes : /\ WindowOf(l, up') = WindowOf(l, up)
                             /\ \A b \in Boxes : b \in Upwards(l, up') <=> b \in Upwards(l, up)
<1>1. up \in Parents /\ KindsApart(up) /\ Rooted(up) /\ w \in Parts /\ w \notin Boxes
  BY LayoutAssumption DEF Tree, KindsApart, Parts
<1>2. up'[w] = q /\ \A o \in Parts : o # w => up'[o] = up[o]
  BY <1>1 DEF Parents
<1>3. up' \in Parents /\ KindsApart(up')
  <2>1. up' \in Parents
    BY <1>1 DEF Parents, Parts
  <2> QED
    BY <1>1, <1>2, <2>1 DEF KindsApart, Parts
<1>4. Rooted(up')
  <2>1. CASE q = up[w]
    <3>1. up' = up
      BY <1>1, <2>1 DEF Parents
    <3> QED
      BY <1>1, <3>1
  <2>2. CASE q # up[w]
    <3>1. PICK X : X = {w}
      OBVIOUS
    <3>2. ChangedIn(X, up, up')
      BY <1>2, <3>1 DEF ChangedIn
    <3>3. \A x \in X : x \in Parts => up'[x] = NoParent \/ Avoids(up'[x], X, up)
      BY <1>2, <2>2, <3>1 DEF Avoids
    <3> QED
      BY <1>1, <1>3, <3>2, <3>3, RootedAfter
  <2> QED
    BY <2>1, <2>2
<1>5. \A o \in Parts : up'[o] # NoParent => up'[o] \in made' /\ o \in made'
  BY <1>2 DEF Tree
<1>6. \A b \in Boxes : up'[b] = up[b]
  BY <1>1, <1>2 DEF Parts
<1>7. \A l \in Boxes : /\ WindowOf(l, up') = WindowOf(l, up)
                       /\ \A b \in Boxes : b \in Upwards(l, up') <=> b \in Upwards(l, up)
  BY <1>1, <1>3, <1>6, SameWindow
<1> QED
  BY <1>2, <1>3, <1>4, <1>5, <1>7 DEF Tree

LEMMA SetParentWidgetCareful ==
  ASSUME LayoutTypeOK, CarefulInv, Careful, NEW w \in Widgets, NEW p \in Widgets \cup {NoParent}, SetParentWidget(w, p)
  PROVE  CarefulInv'
<1>1. /\ {w, p} \subseteq held \cup {NoParent} /\ p # up[w] /\ w \notin Upwards(p, up)
      /\ p = NoParent => ~InOrphan(w)
      /\ up' = [up EXCEPT ![w] = p] /\ items' = TakenFrom(w, p)
      /\ above' = [o \in Parts |-> IF o \in {w} THEN p ELSE above[o]]
      /\ owned' = IF p = NoParent THEN owned \cup {o \in {w} : above[o] # NoParent} ELSE owned \ {w}
      /\ UNCHANGED <<manners, made, title, held, kept>> /\ StaysCareful
  BY DEF SetParentWidget, SetParents, Careful
<1>2. held \subseteq made /\ made \subseteq Parts /\ w \in Parts /\ w \notin Boxes /\ NoParent \notin Parts
      /\ items \in [Boxes -> SUBSET Parts]
  BY LayoutAssumption DEF LayoutTypeOK, Parts
<1>3. /\ Tree /\ BoxItems /\ WidgetItems /\ OneLayout /\ WidgetWrappers /\ BoxWrappers /\ GivenAway /\ ItemsMade
      /\ ItemsKept
  BY DEF CarefulInv
<1>4. w \in made /\ (p \in made \/ p = NoParent)
  BY <1>1, <1>2
<1>5. /\ Tree' /\ up'[w] = p /\ \A o \in Parts : o # w => up'[o] = up[o]
      /\ \A l \in Boxes : /\ WindowOf(l, up') = WindowOf(l, up)
                          /\ \A b \in Boxes : b \in Upwards(l, up') <=> b \in Upwards(l, up)
  BY <1>1, <1>3, <1>4, WidgetMoved
<1>6. \A l \in Boxes : items'[l] = IF up[w] # NoParent /\ WindowOf(l, up) = up[w] THEN items[l] \ {w} ELSE items[l]
  BY <1>1, WindowNames DEF TakenFrom
<1>7. BoxItems'
  <2>1. \A b \in Boxes : up'[b] = up[b] /\ b # w
    BY <1>2, <1>5 DEF Parts
  <2>2. \A c, b \in Boxes : b \in items'[c] <=> b \in items[c]
    BY <1>6, <2>1
  <2> QED
    BY <1>3, <2>1, <2>2 DEF BoxItems
<1>8. WidgetItems'
  <2> SUFFICES ASSUME NEW l \in Boxes, NEW v \in Widgets, v \in items'[l], WindowOf(l, up') # NoParent
               PROVE  up'[v] = WindowOf(l, up')
    BY DEF WidgetItems
  <2>1. v \in items[l] /\ up[v] = WindowOf(l, up)
    BY <1>3, <1>5, <1>6 DEF WidgetItems
  <2>2. v # w
    BY <1>5, <1>6, <2>1
  <2> QED
    BY <1>5, <2>1, <2>2 DEF Parts
<1>9. OneLayout'
  BY <1>3, <1>6 DEF OneLayout
<1>10. WidgetWrappers' /\ BoxWrappers'
  <2>1. WidgetWrappers'
    BY <1>1, <1>3, <1>5 DEF WidgetWrappers, Parts
  <2>2. \A b \in Boxes : above'[b] = above[b]
    BY <1>1, <1>2 DEF Parts
  <2> QED
    BY <1>3, <1>5, <2>1, <2>2 DEF BoxWrappers
<1>11. GivenAway'
  <2> SUFFICES ASSUME NEW o \in made, o \notin owned' PROVE above'[o] # NoParent
    BY <1>1 DEF GivenAway
  <2>1. CASE o = w
    <3>1. CASE p = NoParent
      BY <1>1, <1>3, <2>1, <3>1 DEF GivenAway
    <3>2. CASE p # NoParent
      BY <1>1, <1>2, <2>1, <3>2
    <3> QED
      BY <3>1, <3>2
  <2>2. CASE o # w
    BY <1>1, <1>2, <1>3, <2>2 DEF GivenAway
  <2> QED
    BY <2>1, <2>2
<1>12. ItemsMade'
  BY <1>1, <1>3, <1>6 DEF ItemsMade
<1>13. ItemsKept'
  <2> SUFFICES ASSUME NEW l \in Boxes, NEW v \in Widgets, v \in items'[l], up'[v] = NoParent
               PROVE  \E k \in kept[l] : k.part = v
    BY <1>1 DEF ItemsKept
  <2>1. v \in items[l]
    BY <1>6
  <2>2. CASE v # w
    BY <1>3, <1>5, <2>1, <2>2 DEF ItemsKept, Parts
  <2>3. CASE v = w
    <3>1. p = NoParent /\ ~InOrphan(w)
      BY <1>1, <1>5, <2>3
    <3>2. WindowOf(l, up) # NoParent
      BY <2>1, <2>3, <3>1, WindowNames DEF InOrphan
    <3>3. up[w] = WindowOf(l, up)
      BY <1>3, <2>1, <2>3, <3>2 DEF WidgetItems
    <3> QED
      BY <1>6, <2>3, <3>2, <3>3
  <2> QED
    BY <2>2, <2>3
<1> QED
  BY <1>1, <1>5, <1>7, <1>8, <1>9, <1>10, <1>11, <1>12, <1>13, CarefulStays DEF CarefulInv

LEMMA AddWidgetCareful ==
  ASSUME LayoutTypeOK, CarefulInv, Careful, NEW l \in Boxes, NEW w \in Widgets, AddWidget(l, w)
  PROVE  CarefulInv'
<1>1. PICK lw : lw = WindowOf(l, up)
  OBVIOUS
<1>2. PICK q : q = IF lw = NoParent THEN up[w] ELSE lw
  OBVIOUS
<1>3. /\ {l, w} \subseteq held /\ w \notin Upwards(l, up) /\ \A b \in Boxes : w \notin items[b]
      /\ up' = [up EXCEPT ![w] = q] /\ items' = [items EXCEPT ![l] = @ \cup {w}]
      /\ UNCHANGED <<manners, made, title, held>> /\ StaysCareful
      /\ lw = parentWidget(l)
  BY <1>1, <1>2, WindowNames DEF AddWidget
<1>4. /\ lw = NoParent /\ up[w] = NoParent => kept' = KeepsWhileOrphan(l, w) /\ UNCHANGED <<above, owned>>
      /\ ~(lw = NoParent /\ up[w] = NoParent) => SetParents({w}, q) /\ UNCHANGED kept
  BY <1>2, <1>3 DEF AddWidget
<1>5. held \subseteq made /\ made \subseteq Parts /\ w \in Parts /\ w \notin Boxes /\ NoParent \notin Parts
      /\ items \in [Boxes -> SUBSET Parts] /\ kept \in [Boxes -> SUBSET [key : Titles, part : Parts]] /\ l \in Parts
  BY LayoutAssumption DEF LayoutTypeOK, Parts
<1>6. /\ Tree /\ BoxItems /\ WidgetItems /\ OneLayout /\ WidgetWrappers /\ BoxWrappers /\ GivenAway /\ ItemsMade
      /\ ItemsKept
  BY DEF CarefulInv
<1>7. KindsApart(up) /\ up \in Parents
  BY <1>6 DEF Tree, KindsApart
<1>8. w \in made /\ (q \in made \/ q = NoParent) /\ q \in Widgets \cup {NoParent}
      /\ (q = NoParent \/ q = up[w] \/ w \notin Upwards(q, up))
  <2>1. CASE lw = NoParent
    BY <1>2, <1>3, <1>5, <1>6, <1>7, <2>1 DEF Tree, KindsApart
  <2>2. CASE lw # NoParent
    <3>1. lw \in Widgets /\ lw \in Upwards(l, up) /\ \E b \in Boxes : b \in Upwards(l, up) /\ up[b] = lw
      BY <1>1, <1>7, <2>2, OneWindow
    <3>2. lw \in made
      BY <1>6, <2>2, <3>1 DEF Tree, Parts
    <3>3. w \notin Upwards(lw, up)
      BY <1>3, <1>5, <1>7, <3>1, UpwardsOfThose
    <3> QED
      BY <1>2, <1>3, <1>5, <2>2, <3>1, <3>2, <3>3
  <2> QED
    BY <2>1, <2>2
<1>9. /\ Tree' /\ up'[w] = q /\ \A o \in Parts : o # w => up'[o] = up[o]
      /\ \A c \in Boxes : /\ WindowOf(c, up') = WindowOf(c, up)
                          /\ \A b \in Boxes : b \in Upwards(c, up') <=> b \in Upwards(c, up)
  BY <1>3, <1>6, <1>8, WidgetMoved
<1>10. \A c \in Boxes : items'[c] = IF c = l THEN items[c] \cup {w} ELSE items[c]
  BY <1>3, <1>5
<1>11. BoxItems'
  <2>1. \A b \in Boxes : up'[b] = up[b] /\ b # w
    BY <1>5, <1>9 DEF Parts
  <2>2. \A c, b \in Boxes : b \in items'[c] <=> b \in items[c]
    BY <1>10, <2>1
  <2> QED
    BY <1>6, <2>1, <2>2 DEF BoxItems
<1>12. WidgetItems'
  <2> SUFFICES ASSUME NEW c \in Boxes, NEW v \in Widgets, v \in items'[c], WindowOf(c, up') # NoParent
               PROVE  up'[v] = WindowOf(c, up')
    BY DEF WidgetItems
  <2>1. CASE v = w
    BY <1>1, <1>2, <1>3, <1>9, <1>10, <2>1
  <2>2. CASE v # w
    BY <1>6, <1>9, <1>10, <2>2 DEF WidgetItems, Parts
  <2> QED
    BY <2>1, <2>2
<1>13. OneLayout'
  BY <1>3, <1>6, <1>10 DEF OneLayout
<1>14. \A o \in Parts : above'[o] = IF o = w THEN q ELSE above[o]
  <2>1. above[w] = up[w]
    BY <1>6 DEF WidgetWrappers
  <2> QED
    BY <1>2, <1>4, <2>1 DEF SetParents
<1>15. WidgetWrappers' /\ BoxWrappers'
  <2>1. WidgetWrappers'
    BY <1>6, <1>9, <1>14 DEF WidgetWrappers, Parts
  <2>2. \A b \in Boxes : above'[b] = above[b]
    BY <1>5, <1>14 DEF Parts
  <2> QED
    BY <1>6, <1>9, <2>1, <2>2 DEF BoxWrappers
<1>16. GivenAway'
  <2> SUFFICES ASSUME NEW o \in made, o \notin owned' PROVE above'[o] # NoParent
    BY <1>3 DEF GivenAway
  <2>1. CASE lw = NoParent /\ up[w] = NoParent
    BY <1>4, <1>6, <2>1 DEF GivenAway
  <2>2. CASE ~(lw = NoParent /\ up[w] = NoParent)
    <3>1. q # NoParent /\ owned' = owned \ {w}
      BY <1>2, <1>4, <2>2 DEF SetParents
    <3> QED
      BY <1>5, <1>6, <1>14, <3>1 DEF GivenAway
  <2> QED
    BY <2>1, <2>2
<1>17. ItemsMade'
  BY <1>3, <1>5, <1>6, <1>10 DEF ItemsMade
<1>18. ItemsKept'
  <2>1. \A c \in Boxes : kept[c] \subseteq kept'[c]
    BY <1>4, <1>5 DEF KeepsWhileOrphan
  <2> SUFFICES ASSUME NEW c \in Boxes, NEW v \in Widgets, v \in items'[c], up'[v] = NoParent
               PROVE  \E k \in kept'[c] : k.part = v
    BY DEF ItemsKept
  <2>2. CASE v # w
    <3>1. v \in items[c] /\ up[v] = NoParent
      BY <1>9, <1>10, <2>2 DEF Parts
    <3>2. \E k \in kept[c] : k.part = v
      BY <1>6, <3>1 DEF ItemsKept
    <3> QED
      BY <2>1, <3>2
  <2>3. CASE v = w
    <3>1. c = l /\ lw = NoParent /\ up[w] = NoParent
      BY <1>2, <1>3, <1>9, <1>10, <2>3
    <3>2. [key |-> title[l], part |-> w] \in kept'[l]
      BY <1>4, <1>5, <3>1 DEF KeepsWhileOrphan
    <3>3. [key |-> title[l], part |-> w].part = w
      OBVIOUS
    <3> QED
      BY <2>3, <3>1, <3>2, <3>3
  <2> QED
    BY <2>2, <2>3
<1> QED
  BY <1>3, <1>9, <1>11, <1>12, <1>13, <1>15, <1>16, <1>17, <1>18, CarefulStays DEF CarefulInv

\* Where parents change, ways go on as before from what gets a parent.
LEMMA NewWay ==
  ASSUME NEW o \in Parts, NEW p \in Parents, NEW r \in Parents, NEW X, ChangedIn(X, p, r), r[o] # NoParent,
         Avoids(r[o], X, p)
  PROVE  r[o] \in Parts /\ Upwards(o, r) = {o} \cup Upwards(r[o], p)
<1>1. r[o] \in Parts /\ Upwards(o, r) = {o} \cup Upwards(r[o], r)
  BY UpwardsByParent
<1>2. Upwards(r[o], r) = Upwards(r[o], p)
  BY <1>1, ChangeIsMet
<1> QED
  BY <1>1, <1>2

LEMMA AddLayoutCareful ==
  ASSUME LayoutTypeOK, CarefulInv, Careful, NEW l \in Boxes, NEW other \in Boxes, AddLayout(l, other)
  PROVE  CarefulInv'
<1>1. PICK lw : lw = WindowOf(l, up)
  OBVIOUS
<1>2. PICK I : I = Inside(other) \cap Widgets
  OBVIOUS
<1>3. /\ {l, other} \subseteq held /\ l # other /\ up[other] = NoParent /\ other \notin Upwards(l, up)
      /\ \A w \in I : w \notin Upwards(lw, up)
      /\ up' = [o \in Parts |-> CASE o = other -> l
                                  [] o \in Inside(other) \cap Widgets /\ lw # NoParent -> lw
                                  [] OTHER -> up[o]]
      /\ items' = [items EXCEPT ![l] = @ \cup {other}]
      /\ UNCHANGED <<manners, made, title, held>> /\ StaysCareful
      /\ lw = parentWidget(l)
  BY <1>1, <1>2, WindowNames DEF AddLayout
<1>4. /\ lw = NoParent => kept' = KeepsWhileOrphan(l, other) /\ UNCHANGED <<above, owned>>
      /\ lw # NoParent => /\ above' = WithContents(other, l, lw)
                          /\ owned' = owned \ ({other} \cup Inside(other))
                          /\ kept' = kept
  BY <1>3 DEF AddLayout
<1>5. /\ held \subseteq made /\ made \subseteq Parts /\ NoParent \notin Parts
      /\ items \in [Boxes -> SUBSET Parts] /\ kept \in [Boxes -> SUBSET [key : Titles, part : Parts]]
      /\ l \in Parts /\ other \in Parts /\ I \subseteq Parts /\ (\A b \in Boxes : b \notin Widgets /\ b \in Parts)
      /\ \A w \in Widgets : w \in Parts /\ w \notin Boxes
  BY <1>2, LayoutAssumption DEF LayoutTypeOK, Parts
<1>6. /\ Tree /\ BoxItems /\ WidgetItems /\ OneLayout /\ WidgetWrappers /\ BoxWrappers /\ GivenAway /\ ItemsMade
      /\ ItemsKept
  BY DEF CarefulInv
<1>7. KindsApart(up) /\ up \in Parents /\ Rooted(up)
  BY <1>6 DEF Tree, KindsApart
<1>8. /\ up'[other] = l
      /\ \A w \in Widgets : up'[w] = IF w \in I /\ lw # NoParent THEN lw ELSE up[w]
      /\ \A b \in Boxes : b # other => up'[b] = up[b]
  BY <1>2, <1>3, <1>5
<1>9. lw \in Widgets \cup {NoParent} /\ (lw # NoParent => lw \in Upwards(l, up) /\ lw \in made)
  <2>1. lw \in Widgets \cup {NoParent} /\ (lw # NoParent => /\ lw \in Upwards(l, up)
                                                           /\ \E b \in Boxes : b \in Upwards(l, up) /\ up[b] = lw)
    BY <1>1, <1>7, OneWindow
  <2> QED
    BY <1>5, <1>6, <2>1 DEF Tree
<1>10. KindsApart(up') /\ up' \in Parents
  <2>1. \A o \in Parts : up'[o] \in Parts \cup {NoParent}
    BY <1>5, <1>7, <1>8, <1>9 DEF Parts, Parents
  <2>2. up' \in Parents
    BY <1>3, <2>1 DEF Parents
  <2> QED
    BY <1>7, <1>8, <1>9, <2>2 DEF KindsApart
<1>11. PICK X : X = {other} \cup (IF lw = NoParent THEN {} ELSE I)
  OBVIOUS
<1>12. ChangedIn(X, up, up')
  BY <1>5, <1>8, <1>11 DEF ChangedIn, Parts
<1>13. Avoids(l, {other}, up) /\ Avoids(l, X, up) /\ (lw # NoParent => Avoids(lw, X, up))
  <2>1. \A w \in I : lw # NoParent => w \notin Upwards(l, up)
    BY <1>1, <1>2, <1>3, <1>7, WidgetsAboveBoxes
  <2>2. lw # NoParent => other \notin Upwards(lw, up)
    BY <1>3, <1>5, <1>7, <1>9, UpwardsOfThose
  <2> QED
    BY <1>3, <1>11, <2>1, <2>2 DEF Avoids
<1>14. Rooted(up')
  <2>1. \A x \in X : x \in Parts => up'[x] = NoParent \/ Avoids(up'[x], X, up)
    BY <1>2, <1>8, <1>11, <1>13
  <2> QED
    BY <1>7, <1>10, <1>12, <2>1, RootedAfter
<1>15. Tree'
  <2>1. \A o \in Parts : up'[o] # NoParent => up'[o] \in made' /\ o \in made'
    <3>1. \A w \in I : w \in made
      BY <1>2, <1>6 DEF Inside, ItemsMade
    <3>2. l \in made /\ other \in made /\ made' = made
      BY <1>3, <1>5
    <3> QED
      BY <1>6, <1>8, <1>9, <3>1, <3>2 DEF Tree, Parts
  <2> QED
    BY <1>10, <1>14, <2>1 DEF Tree
<1>16. ASSUME NEW b \in Boxes, other \notin Upwards(b, up)
       PROVE  /\ WindowOf(b, up') = WindowOf(b, up)
              /\ \A c \in Boxes : c \in Upwards(b, up') <=> c \in Upwards(b, up)
  <2>1. \A c \in Boxes : c \in Upwards(b, up) => up'[c] = up[c]
    BY <1>8, <1>16
  <2> QED
    BY <1>7, <1>10, <2>1, SameWindow
\* From what is in the layout, the way goes on to the window of the other.
<1>17. l \in Upwards(other, up') /\ WindowOf(l, up') = lw /\ WindowOf(other, up') = lw
  <2>1. WindowOf(l, up') = lw
    BY <1>1, <1>3, <1>16
  <2>2. Upwards(other, up') = {other} \cup Upwards(l, up') /\ l \in Upwards(l, up')
    BY <1>5, <1>8, <1>10, UpwardsByParent, UpwardsIsClosed
  <2> QED
    BY <1>10, <2>1, <2>2, WindowOfOthers
<1>18. ASSUME NEW b \in Boxes, other \in Upwards(b, up)
       PROVE  /\ WindowOf(b, up) = NoParent /\ WindowOf(b, up') = lw /\ l \in Upwards(b, up')
  <2>1. WindowOf(other, up) = NoParent
    <3>1. Upwards(other, up) = {other}
      BY <1>3, <1>5, <1>7, UpwardsByParent
    <3>2. WindowOf(other, up) \in {other, NoParent}
      BY <1>7, <3>1, OneWindow
    <3> QED
      BY <1>5, <1>7, <3>2, OneWindow
  <2>2. WindowOf(b, up) = NoParent
    BY <1>7, <1>18, <2>1, WindowOfOthers
  <2>3. other \in Upwards(b, up')
    <3>1. PICK Y : Y = {other}
      OBVIOUS
    <3>2. PICK S : S = {q \in Parts : other \in Upwards(q, up') \/ other \notin Upwards(q, up)}
      OBVIOUS
    <3>3. \A q \in Upwards(b, up) : q \in Boxes
      BY <1>7, <2>2, OneWindow
    <3>4. ASSUME other \notin Upwards(b, up')
          PROVE  other \notin Upwards(b, up)
      <4>1. \A c \in Boxes : c \in Upwards(b, up') => up[c] = up'[c]
        BY <1>8, <3>4
      <4> QED
        BY <1>7, <1>10, <3>4, <4>1, SameWindow
    <3> QED
      BY <1>18, <3>4
  <2>4. WindowOf(b, up') = lw
    BY <1>10, <1>17, <2>3, WindowOfOthers
  <2>5. Upwards(other, up') \subseteq Upwards(b, up')
    BY <1>5, <1>10, <2>3, UpwardsOfThose
  <2> QED
    BY <1>17, <2>2, <2>4, <2>5
<1>19. \A c \in Boxes : items'[c] = IF c = l THEN items[c] \cup {other} ELSE items[c]
  BY <1>3, <1>5
<1>20. BoxItems'
  BY <1>3, <1>5, <1>6, <1>8, <1>19 DEF BoxItems
<1>21. \A c \in Boxes : \A w \in Widgets : w \in items'[c] <=> w \in items[c]
  BY <1>5, <1>19
<1>22. WidgetItems'
  <2> SUFFICES ASSUME NEW c \in Boxes, NEW v \in Widgets, v \in items'[c], WindowOf(c, up') # NoParent
               PROVE  up'[v] = WindowOf(c, up')
    BY DEF WidgetItems
  <2>1. v \in items[c]
    BY <1>21
  <2>2. CASE other \in Upwards(c, up)
    <3>1. v \in I
      BY <1>2, <2>1, <2>2 DEF Inside
    <3> QED
      BY <1>8, <1>18, <2>2, <3>1
  <2>3. CASE other \notin Upwards(c, up)
    <3>1. v \notin I
      BY <1>2, <1>6, <2>1, <2>3 DEF Inside, OneLayout
    <3>2. up[v] = WindowOf(c, up)
      BY <1>6, <1>16, <2>1, <2>3 DEF WidgetItems
    <3> QED
      BY <1>8, <1>16, <2>3, <3>1, <3>2
  <2> QED
    BY <2>2, <2>3
<1>23. OneLayout'
  BY <1>6, <1>21 DEF OneLayout
<1>24. WidgetWrappers'
  <2>1. \A w \in Widgets : above'[w] = IF w \in I /\ lw # NoParent THEN lw ELSE above[w]
    BY <1>2, <1>4, <1>5 DEF WithContents
  <2> QED
    BY <1>6, <1>8, <2>1 DEF WidgetWrappers
<1>25. BoxWrappers'
  <2> SUFFICES ASSUME NEW b \in Boxes, above'[b] # NoParent
               PROVE  /\ WindowOf(b, up') # NoParent
                      /\ above'[b] = WindowOf(b, up') \/ (above'[b] \in Boxes /\ above'[b] \in Upwards(b, up'))
    BY DEF BoxWrappers
  <2>1. b = other \/ b \in Inside(other) <=> other \in Upwards(b, up)
    BY <1>6, BoxesInside
  <2>2. CASE other \in Upwards(b, up)
    <3>1. lw # NoParent
      BY <1>4, <1>6, <1>18, <2>2 DEF BoxWrappers
    <3>2. above'[b] = l
      BY <1>4, <1>5, <2>1, <2>2, <3>1 DEF WithContents
    <3> QED
      BY <1>18, <2>2, <3>1, <3>2
  <2>3. CASE other \notin Upwards(b, up)
    <3>1. above'[b] = above[b]
      BY <1>4, <1>5, <2>1, <2>3 DEF WithContents
    <3> QED
      BY <1>6, <1>16, <2>3, <3>1 DEF BoxWrappers
  <2> QED
    BY <2>2, <2>3
<1>26. GivenAway'
  <2> SUFFICES ASSUME NEW o \in made, o \notin owned' PROVE above'[o] # NoParent
    BY <1>3 DEF GivenAway
  <2>1. CASE lw = NoParent
    BY <1>4, <1>6, <2>1 DEF GivenAway
  <2>2. CASE lw # NoParent
    <3>1. above' = WithContents(other, l, lw) /\ owned' = owned \ ({other} \cup Inside(other)) /\ o \in Parts
      BY <1>4, <1>5, <2>2
    <3>2. CASE o = other
      BY <1>5, <3>1, <3>2 DEF WithContents
    <3>3. CASE o # other /\ o \in Inside(other)
      <4>1. above'[o] = lw \/ above'[o] = l
        BY <3>1, <3>3 DEF WithContents, Parts
      <4> QED
        BY <1>5, <2>2, <4>1
    <3>4. CASE o # other /\ o \notin Inside(other)
      <4>1. above'[o] = above[o] /\ o \notin owned
        BY <3>1, <3>4 DEF WithContents
      <4> QED
        BY <1>6, <4>1 DEF GivenAway
    <3> QED
      BY <3>2, <3>3, <3>4
  <2> QED
    BY <2>1, <2>2
<1>27. ItemsMade'
  BY <1>3, <1>5, <1>6, <1>19 DEF ItemsMade
<1>28. ItemsKept'
  <2>1. \A c \in Boxes : kept[c] \subseteq kept'[c]
    BY <1>4, <1>5 DEF KeepsWhileOrphan
  <2> SUFFICES ASSUME NEW c \in Boxes, NEW v \in Widgets, v \in items'[c], up'[v] = NoParent
               PROVE  \E k \in kept'[c] : k.part = v
    BY DEF ItemsKept
  <2>2. up[v] = NoParent /\ v \in items[c]
    BY <1>8, <1>21
  <2> QED
    BY <1>6, <2>1, <2>2 DEF ItemsKept
<1> QED
  BY <1>3, <1>15, <1>20, <1>22, <1>23, <1>24, <1>25, <1>26, <1>27, <1>28, CarefulStays DEF CarefulInv

\* The window of the layouts from which one is met whose parent changes
LEMMA MovedUnder ==
  ASSUME NEW p, KindsApart(p), NEW r, KindsApart(r), NEW l \in Boxes, NEW b \in Boxes, l \in Upwards(b, p),
         \A c \in Boxes : c # l => r[c] = p[c]
  PROVE  l \in Upwards(b, r) /\ WindowOf(b, r) = WindowOf(l, r)
<1>1. ASSUME l \notin Upwards(b, r)
      PROVE  l \notin Upwards(b, p)
  <2>1. \A c \in Boxes : c \in Upwards(b, r) => p[c] = r[c]
    BY <1>1
  <2> QED
    BY <1>1, <2>1, SameWindow
<1>2. l \in Upwards(b, r)
  BY <1>1
<1> QED
  BY <1>2, WindowOfOthers

LEMMA SetLayoutCareful ==
  ASSUME LayoutTypeOK, CarefulInv, Careful, NEW w \in Widgets, NEW l \in Boxes, SetLayout(w, l)
  PROVE  CarefulInv'
<1>1. PICK I : I = Inside(l) \cap Widgets
  OBVIOUS
<1>2. PICK boxes : boxes = {l} \cup (Inside(l) \cap Boxes)
  OBVIOUS
<1>3. PICK S : S = boxes \cup {o \in I : up[o] # w}
  OBVIOUS
<1>4. /\ {w, l} \subseteq held /\ up[l] \in Widgets \cup {NoParent} /\ w \notin I
      /\ \A o \in I : o \notin Upwards(w, up)
      /\ SetParents(S, w) /\ kept' = ReferencesLeft(boxes)
      /\ up' = [o \in Parts |-> IF o \in ({l} \cup Inside(l)) \cap Widgets \/ o = l THEN w ELSE up[o]]
      /\ UNCHANGED <<manners, made, items, title, held>> /\ StaysCareful
  BY <1>1, <1>2, <1>3 DEF SetLayout
<1>5. /\ held \subseteq made /\ made \subseteq Parts /\ NoParent \notin Parts
      /\ items \in [Boxes -> SUBSET Parts] /\ kept \in [Boxes -> SUBSET [key : Titles, part : Parts]]
      /\ l \in Parts /\ w \in Parts /\ w # NoParent /\ I \subseteq Parts
      /\ (\A b \in Boxes : b \notin Widgets /\ b \in Parts) /\ \A v \in Widgets : v \in Parts /\ v \notin Boxes
  BY <1>1, LayoutAssumption DEF LayoutTypeOK, Parts
<1>6. /\ Tree /\ BoxItems /\ WidgetItems /\ OneLayout /\ WidgetWrappers /\ BoxWrappers /\ GivenAway /\ ItemsMade
      /\ ItemsKept
  BY DEF CarefulInv
<1>7. KindsApart(up) /\ up \in Parents /\ Rooted(up)
  BY <1>6 DEF Tree, KindsApart
<1>8. /\ up'[l] = w
      /\ \A v \in Widgets : up'[v] = IF v \in I THEN w ELSE up[v]
      /\ \A b \in Boxes : b # l => up'[b] = up[b]
  BY <1>1, <1>4, <1>5
<1>9. KindsApart(up') /\ up' \in Parents
  <2>1. \A o \in Parts : up'[o] \in Parts \cup {NoParent}
    BY <1>5, <1>7, <1>8 DEF Parts, Parents
  <2>2. up' \in Parents
    BY <1>4, <2>1 DEF Parents
  <2> QED
    BY <1>7, <1>8, <2>2 DEF KindsApart
<1>10. PICK X : X = {l} \cup I
  OBVIOUS
<1>11. ChangedIn(X, up, up')
  BY <1>5, <1>8, <1>10 DEF ChangedIn, Parts
<1>12. Avoids(w, X, up)
  <2>1. l \notin Upwards(w, up)
    BY <1>5, <1>7, WidgetsUpwards
  <2> QED
    BY <1>4, <1>10, <2>1 DEF Avoids
<1>13. Rooted(up')
  <2>1. \A x \in X : x \in Parts => up'[x] = NoParent \/ Avoids(up'[x], X, up)
    BY <1>1, <1>8, <1>10, <1>12
  <2> QED
    BY <1>7, <1>9, <1>11, <2>1, RootedAfter
<1>14. Tree'
  <2>1. \A v \in I : v \in made
    BY <1>1, <1>6 DEF Inside, ItemsMade
  <2>2. l \in made /\ w \in made /\ made' = made
    BY <1>4, <1>5
  <2>3. \A o \in Parts : up'[o] # NoParent => up'[o] \in made' /\ o \in made'
    BY <1>6, <1>8, <2>1, <2>2 DEF Tree, Parts
  <2> QED
    BY <1>9, <1>13, <2>3 DEF Tree
<1>15. ASSUME NEW b \in Boxes, l \notin Upwards(b, up)
       PROVE  /\ WindowOf(b, up') = WindowOf(b, up)
              /\ \A c \in Boxes : c \in Upwards(b, up') <=> c \in Upwards(b, up)
  <2>1. \A c \in Boxes : c \in Upwards(b, up) => up'[c] = up[c]
    BY <1>8, <1>15
  <2> QED
    BY <1>7, <1>9, <2>1, SameWindow
<1>16. WindowOf(l, up') = w
  <2>1. l \in Upwards(l, up')
    BY <1>5, <1>9, UpwardsIsClosed
  <2> QED
    BY <1>8, <1>9, <2>1, OneWindow
<1>17. \A b \in Boxes : l \in Upwards(b, up) => WindowOf(b, up') = w
  BY <1>7, <1>8, <1>9, <1>16, MovedUnder
<1>18. BoxItems'
  <2>1. \A b, c \in Boxes : up'[b] = c <=> up[b] = c
    BY <1>4, <1>5, <1>8, LayoutAssumption
  <2> QED
    BY <1>4, <1>6, <2>1 DEF BoxItems
<1>19. ASSUME NEW c \in Boxes, NEW v \in Widgets, v \in items[c]
       PROVE  v \in I <=> l \in Upwards(c, up)
  BY <1>1, <1>6, <1>19 DEF Inside, OneLayout
<1>20. WidgetItems'
  <2> SUFFICES ASSUME NEW c \in Boxes, NEW v \in Widgets, v \in items[c], WindowOf(c, up') # NoParent
               PROVE  up'[v] = WindowOf(c, up')
    BY <1>4 DEF WidgetItems
  <2>1. CASE l \in Upwards(c, up)
    BY <1>8, <1>17, <1>19, <2>1
  <2>2. CASE l \notin Upwards(c, up)
    <3>1. up[v] = WindowOf(c, up)
      BY <1>6, <1>15, <2>2 DEF WidgetItems
    <3> QED
      BY <1>8, <1>15, <1>19, <2>2, <3>1
  <2> QED
    BY <2>1, <2>2
<1>21. OneLayout'
  BY <1>4, <1>6 DEF OneLayout
<1>22. /\ \A o \in Parts : above'[o] = IF o \in S THEN w ELSE above[o]
       /\ owned' = owned \ S
  BY <1>4, <1>5 DEF SetParents
<1>23. WidgetWrappers'
  <2>1. \A v \in Widgets : v \in S <=> v \in I /\ up[v] # w
    BY <1>2, <1>3, <1>5
  <2> QED
    BY <1>5, <1>6, <1>8, <1>22, <2>1 DEF WidgetWrappers
<1>24. BoxWrappers'
  <2> SUFFICES ASSUME NEW b \in Boxes, above'[b] # NoParent
               PROVE  /\ WindowOf(b, up') # NoParent
                      /\ above'[b] = WindowOf(b, up') \/ (above'[b] \in Boxes /\ above'[b] \in Upwards(b, up'))
    BY DEF BoxWrappers
  <2>1. b \in S <=> l \in Upwards(b, up)
    <3>1. b = l \/ b \in Inside(l) <=> l \in Upwards(b, up)
      BY <1>6, BoxesInside
    <3> QED
      BY <1>1, <1>2, <1>3, <1>5, <3>1
  <2>2. CASE l \in Upwards(b, up)
    BY <1>5, <1>17, <1>22, <2>1, <2>2
  <2>3. CASE l \notin Upwards(b, up)
    <3>1. above'[b] = above[b]
      BY <1>5, <1>22, <2>1, <2>3
    <3> QED
      BY <1>6, <1>15, <2>3, <3>1 DEF BoxWrappers
  <2> QED
    BY <2>2, <2>3
<1>25. GivenAway'
  BY <1>4, <1>5, <1>6, <1>22 DEF GivenAway
<1>26. ItemsMade'
  BY <1>4, <1>6 DEF ItemsMade
<1>27. ItemsKept'
  <2> SUFFICES ASSUME NEW c \in Boxes, NEW v \in Widgets, v \in items[c], up'[v] = NoParent
               PROVE  \E k \in kept'[c] : k.part = v
    BY <1>4 DEF ItemsKept
  <2>1. v \notin I /\ up[v] = NoParent
    BY <1>5, <1>8
  <2>2. c \notin boxes
    <3>1. l \notin Upwards(c, up)
      BY <1>19, <2>1
    <3> QED
      BY <1>2, <1>6, <3>1, BoxesInside
  <2>3. kept'[c] = kept[c]
    BY <1>4, <2>2 DEF ReferencesLeft
  <2> QED
    BY <1>6, <2>1, <2>3 DEF ItemsKept
<1> QED
  BY <1>4, <1>14, <1>18, <1>20, <1>21, <1>23, <1>24, <1>25, <1>26, <1>27, CarefulStays DEF CarefulInv

LEMMA RemoveLayoutCareful ==
  ASSUME LayoutTypeOK, CarefulInv, Careful, NEW l \in Boxes, NEW other \in Boxes, RemoveLayout(l, other)
  PROVE  CarefulInv'
<1>1. /\ {l, other} \subseteq held /\ other \in items[l]
      /\ \A b \in Inside(other) \cap Boxes : above[b] = NoParent
      /\ above' = [o \in Parts |-> IF o \in {other} THEN NoParent ELSE above[o]]
      /\ owned' = owned \cup {o \in {other} : above[o] # NoParent}
      /\ up' = [up EXCEPT ![other] = NoParent] /\ items' = [items EXCEPT ![l] = @ \ {other}]
      /\ UNCHANGED <<manners, made, title, held, kept>> /\ StaysCareful
  BY DEF RemoveLayout, SetParents, Careful
<1>2. /\ made \subseteq Parts /\ NoParent \notin Parts
      /\ items \in [Boxes -> SUBSET Parts] /\ other \in Parts
      /\ (\A b \in Boxes : b \notin Widgets /\ b \in Parts) /\ \A v \in Widgets : v \in Parts /\ v \notin Boxes
  BY LayoutAssumption DEF LayoutTypeOK, Parts
<1>3. /\ Tree /\ BoxItems /\ WidgetItems /\ OneLayout /\ WidgetWrappers /\ BoxWrappers /\ GivenAway /\ ItemsMade
      /\ ItemsKept
  BY DEF CarefulInv
<1>4. KindsApart(up) /\ up \in Parents /\ Rooted(up)
  BY <1>3 DEF Tree, KindsApart
<1>5. up'[other] = NoParent /\ \A o \in Parts : o # other => up'[o] = up[o]
  BY <1>1, <1>2, <1>4 DEF Parents
<1>6. KindsApart(up') /\ up' \in Parents
  <2>1. up' \in Parents
    BY <1>1, <1>2, <1>4 DEF Parents
  <2> QED
    BY <1>2, <1>4, <1>5, <2>1 DEF KindsApart
<1>7. Rooted(up')
  <2>1. PICK X : X = {other}
    OBVIOUS
  <2>2. ChangedIn(X, up, up') /\ \A x \in X : up'[x] = NoParent
    BY <1>5, <2>1 DEF ChangedIn
  <2> QED
    BY <1>4, <1>6, <2>2, RootedAfter
<1>8. Tree'
  <2>1. \A o \in Parts : up'[o] # NoParent => up'[o] \in made' /\ o \in made'
    BY <1>1, <1>3, <1>5 DEF Tree
  <2> QED
    BY <1>6, <1>7, <2>1 DEF Tree
<1>9. ASSUME NEW b \in Boxes, other \notin Upwards(b, up)
      PROVE  /\ WindowOf(b, up') = WindowOf(b, up)
             /\ \A c \in Boxes : c \in Upwards(b, up') <=> c \in Upwards(b, up)
  <2>1. \A c \in Boxes : c \in Upwards(b, up) => up'[c] = up[c]
    BY <1>2, <1>5, <1>9
  <2> QED
    BY <1>4, <1>6, <2>1, SameWindow
<1>10. WindowOf(other, up') = NoParent
  <2>1. Upwards(other, up') = {other}
    BY <1>2, <1>5, <1>6, UpwardsByParent
  <2>2. WindowOf(other, up') \in {other, NoParent}
    BY <1>6, <2>1, OneWindow
  <2> QED
    BY <1>2, <1>6, <2>2, OneWindow
<1>11. \A b \in Boxes : other \in Upwards(b, up) => WindowOf(b, up') = NoParent
  BY <1>2, <1>4, <1>5, <1>6, <1>10, MovedUnder
<1>12. \A c \in Boxes : items'[c] = IF c = l THEN items[c] \ {other} ELSE items[c]
  BY <1>1, <1>2
<1>13. BoxItems'
  BY <1>1, <1>2, <1>3, <1>5, <1>12 DEF BoxItems
<1>14. \A v \in Widgets : up'[v] = up[v] /\ \A c \in Boxes : v \in items'[c] <=> v \in items[c]
  BY <1>2, <1>5, <1>12
<1>15. WidgetItems' /\ OneLayout' /\ ItemsKept' /\ ItemsMade'
  <2>1. WidgetItems'
    BY <1>3, <1>9, <1>11, <1>14 DEF WidgetItems
  <2>2. OneLayout' /\ ItemsKept'
    BY <1>1, <1>3, <1>14 DEF OneLayout, ItemsKept
  <2>3. ItemsMade'
    BY <1>1, <1>3, <1>12 DEF ItemsMade
  <2> QED
    BY <2>1, <2>2, <2>3
<1>16. WidgetWrappers'
  BY <1>1, <1>2, <1>3, <1>14 DEF WidgetWrappers
<1>17. BoxWrappers'
  <2> SUFFICES ASSUME NEW b \in Boxes, above'[b] # NoParent
               PROVE  /\ WindowOf(b, up') # NoParent
                      /\ above'[b] = WindowOf(b, up') \/ (above'[b] \in Boxes /\ above'[b] \in Upwards(b, up'))
    BY DEF BoxWrappers
  <2>1. b # other /\ above'[b] = above[b]
    BY <1>1, <1>2
  <2>2. other \notin Upwards(b, up)
    <3>1. b \notin Inside(other)
      BY <1>1, <2>1
    <3> QED
      BY <1>3, <2>1, <3>1, BoxesInside
  <2> QED
    BY <1>3, <1>9, <2>1, <2>2 DEF BoxWrappers
<1>18. GivenAway'
  BY <1>1, <1>2, <1>3 DEF GivenAway
<1> QED
  BY <1>1, <1>8, <1>13, <1>15, <1>16, <1>17, <1>18, CarefulStays DEF CarefulInv

LEMMA FreePartCareful ==
  ASSUME LayoutTypeOK, CarefulInv, Careful, NEW o \in Parts, FreePart(o)
  PROVE  CarefulInv'
<1>1. PICK gone : gone = Descendants(o)
  OBVIOUS
<1>2. /\ o \in Dying
      /\ made' = made \ gone /\ held' = held \ gone /\ owned' = owned \ gone
      /\ up' = [q \in Parts |-> IF q \in gone THEN NoParent ELSE up[q]]
      /\ items' = [l \in Boxes |-> IF l \in gone THEN {}
                                   ELSE items[l] \ {q \in gone : up[q] # NoParent /\ up[q] \in {WindowOf(l, up), l}}]
      /\ above' = [q \in Parts |-> IF q \in gone \/ above[q] \in gone THEN NoParent ELSE above[q]]
      /\ kept' = [l \in Boxes |-> IF l \in gone THEN {} ELSE {k \in kept[l] : k.part \notin gone}]
  BY <1>1, WindowNames DEF FreePart
<1>3. o \in made /\ o \notin held /\ above[o] = NoParent /\ \A l \in made \cap Boxes : \A k \in kept[l] : k.part # o
  BY <1>2 DEF Dying, Referred
<1>4. /\ made \subseteq Parts /\ NoParent \notin Parts /\ gone \subseteq Parts
      /\ (\A b \in Boxes : b \notin Widgets /\ b \in Parts) /\ \A v \in Widgets : v \in Parts /\ v \notin Boxes
  BY <1>1, LayoutAssumption DEF LayoutTypeOK, Parts, Descendants
<1>5. /\ Tree /\ BoxItems /\ WidgetItems /\ OneLayout /\ WidgetWrappers /\ BoxWrappers /\ GivenAway /\ ItemsMade
      /\ ItemsKept /\ WindowsHeld
  BY DEF CarefulInv
<1>6. KindsApart(up) /\ up \in Parents /\ Rooted(up)
  BY <1>5 DEF Tree, KindsApart
<1>7. \A q \in Parts : up'[q] = IF q \in gone THEN NoParent ELSE up[q]
  BY <1>2
<1>8. KindsApart(up') /\ up' \in Parents
  <2>1. \A q \in Parts : up'[q] \in Parts \cup {NoParent}
    BY <1>6, <1>7 DEF Parents
  <2>2. up' \in Parents
    BY <1>2, <2>1 DEF Parents
  <2> QED
    BY <1>4, <1>6, <1>7, <2>2 DEF KindsApart
<1>9. ChangedIn(gone, up, up')
  BY <1>7 DEF ChangedIn
\* From what stays, only that is met that stays.
<1>10. ASSUME NEW q \in Parts, q \notin gone
       PROVE  Avoids(q, gone, up) /\ Upwards(q, up') = Upwards(q, up)
  <2>1. ASSUME NEW r \in Upwards(q, up), r \in gone PROVE FALSE
    <3>1. r \in Parts /\ Upwards(r, up) \subseteq Upwards(q, up) /\ o \in Upwards(r, up) /\ r \in made
      BY <1>1, <1>6, <2>1, UpwardsOfThose DEF Descendants
    <3>2. q \notin made
      BY <1>1, <1>10, <3>1 DEF Descendants
    <3>3. up[q] = NoParent
      BY <1>5, <3>2 DEF Tree
    <3>4. r = q
      BY <1>6, <3>3, UpwardsByParent
    <3> QED
      BY <1>10, <2>1, <3>4
  <2>2. Avoids(q, gone, up)
    BY <2>1 DEF Avoids
  <2> QED
    BY <1>6, <1>8, <1>9, <2>2, ChangeIsMet
<1>11. Rooted(up')
  <2>1. \A x \in gone : x \in Parts => up'[x] = NoParent
    BY <1>7
  <2> QED
    BY <1>6, <1>8, <1>9, <2>1, RootedAfter
<1>12. \A q \in Parts : q \notin gone => up[q] \notin gone
  <2>1. ASSUME NEW q \in Parts, q \notin gone, up[q] \in gone
        PROVE  FALSE
    <3>1. up[q] # NoParent
      BY <1>4, <2>1
    <3>2. up[q] \in Upwards(q, up)
      BY <1>6, <3>1, UpwardsIsClosed
    <3> QED
      BY <1>10, <2>1, <3>2 DEF Avoids
  <2> QED
    BY <2>1
<1>13. Tree'
  <2>1. \A q \in Parts : up'[q] # NoParent => up'[q] \in made' /\ q \in made'
    BY <1>2, <1>5, <1>7, <1>12 DEF Tree
  <2> QED
    BY <1>8, <1>11, <2>1 DEF Tree
<1>14. ASSUME NEW b \in Boxes, b \notin gone
       PROVE  WindowOf(b, up') = WindowOf(b, up)
  <2>1. b \in Parts /\ Avoids(b, gone, up)
    BY <1>4, <1>10, <1>14
  <2>2. \A c \in Boxes : c \in Upwards(b, up) => up'[c] = up[c]
    BY <1>4, <1>7, <2>1 DEF Avoids
  <2> QED
    BY <1>6, <1>8, <2>2, SameWindow
<1>15. \A l \in Boxes : items'[l] = IF l \in gone THEN {}
                                    ELSE items[l] \ {q \in gone : up[q] # NoParent /\ up[q] \in {WindowOf(l, up), l}}
  BY <1>2
<1>16. \A l \in Boxes : items'[l] \subseteq items[l] /\ (l \in gone => items'[l] = {})
  BY <1>15
<1>17. BoxItems'
  <2> SUFFICES ASSUME NEW l \in Boxes, NEW b \in Boxes PROVE b \in items'[l] <=> up'[b] = l
    BY DEF BoxItems
  <2>1. (b \in items[l] <=> up[b] = l) /\ l # NoParent
    BY <1>4, <1>5 DEF BoxItems
  <2>2. CASE l \in gone
    BY <1>4, <1>7, <1>12, <1>16, <2>1, <2>2
  <2>3. CASE l \notin gone
    <3>1. b \in items'[l] <=> b \in items[l] /\ ~(b \in gone /\ up[b] # NoParent /\ up[b] \in {WindowOf(l, up), l})
      BY <1>15, <2>3
    <3> QED
      BY <1>4, <1>7, <2>1, <3>1
  <2> QED
    BY <2>2, <2>3
<1>18. WidgetItems'
  <2> SUFFICES ASSUME NEW l \in Boxes, NEW w \in Widgets, w \in items'[l], WindowOf(l, up') # NoParent
               PROVE  up'[w] = WindowOf(l, up')
    BY DEF WidgetItems
  <2>1. l \notin gone /\ w \in items[l]
    BY <1>16
  <2>2. WindowOf(l, up') = WindowOf(l, up)
    BY <1>14, <2>1
  <2>3. up[w] = WindowOf(l, up) /\ up[w] # NoParent
    BY <1>5, <2>1, <2>2 DEF WidgetItems
  <2>4. w \notin gone
    BY <1>15, <2>1, <2>3
  <2> QED
    BY <1>4, <1>7, <2>2, <2>3, <2>4
<1>19. OneLayout'
  BY <1>5, <1>16 DEF OneLayout
<1>20. \A q \in Parts : above'[q] = IF q \in gone \/ above[q] \in gone THEN NoParent ELSE above[q]
  BY <1>2
<1>21. WidgetWrappers'
  BY <1>4, <1>5, <1>7, <1>12, <1>20 DEF WidgetWrappers
<1>22. BoxWrappers'
  <2> SUFFICES ASSUME NEW b \in Boxes, above'[b] # NoParent
               PROVE  /\ WindowOf(b, up') # NoParent
                      /\ above'[b] = WindowOf(b, up') \/ (above'[b] \in Boxes /\ above'[b] \in Upwards(b, up'))
    BY DEF BoxWrappers
  <2>1. b \notin gone /\ above'[b] = above[b]
    BY <1>4, <1>20
  <2>2. Upwards(b, up') = Upwards(b, up) /\ WindowOf(b, up') = WindowOf(b, up)
    BY <1>4, <1>10, <1>14, <2>1
  <2> QED
    BY <1>5, <2>1, <2>2 DEF BoxWrappers
<1>23. GivenAway'
  <2> SUFFICES ASSUME NEW q \in made, q \notin gone, q \notin owned' PROVE above'[q] # NoParent
    BY <1>2 DEF GivenAway
  <2>1. above[q] # NoParent
    BY <1>2, <1>5 DEF GivenAway
  <2>2. above[q] \in Upwards(q, up)
    BY <1>4, <1>5, <2>1, AboveIsUpwards
  <2>3. above[q] \notin gone
    BY <1>4, <1>10, <2>2 DEF Avoids
  <2> QED
    BY <1>4, <1>20, <2>1, <2>3
<1>24. ASSUME NEW l \in Boxes, NEW x \in items'[l]
       PROVE  l \in made /\ l \notin gone /\ x \in made /\ x \notin gone
  <2>1. l \notin gone /\ x \in items[l] /\ x \in made /\ l \in made /\ x \in Parts
    BY <1>4, <1>5, <1>16, <1>24 DEF ItemsMade
  <2> SUFFICES ASSUME x \in gone PROVE FALSE
    BY <2>1
  <2>2. up[x] = NoParent \/ up[x] \notin {WindowOf(l, up), l}
    BY <1>15, <1>24, <2>1
  <2>3. x \in Widgets /\ WindowOf(l, up) = NoParent
    <3>1. x \notin Boxes
      BY <1>4, <1>5, <2>1, <2>2 DEF BoxItems
    <3> QED
      BY <1>5, <2>1, <2>2, <3>1 DEF WidgetItems, Parts
  <2>4. o \in Upwards(x, up)
    BY <1>1 DEF Descendants
  <2>5. CASE up[x] = NoParent
    <3>1. o = x
      BY <1>6, <2>1, <2>4, <2>5, UpwardsByParent
    <3>2. \E k \in kept[l] : k.part = x
      BY <1>5, <2>1, <2>3, <2>5 DEF ItemsKept
    <3> QED
      BY <1>3, <2>1, <3>1, <3>2
  <2>6. CASE up[x] # NoParent
    <3>1. InOrphan(x)
      BY <2>1, <2>3, WindowNames DEF InOrphan
    <3>2. TopOf(x, up) \in held
      BY <1>5, <2>3, <2>6, <3>1, WindowNames DEF WindowsHeld
    <3>3. o \in Widgets
      BY <1>6, <2>3, <2>4, WidgetsUpwards
    <3>4. up[o] = NoParent
      BY <1>3, <1>5, <3>3 DEF WidgetWrappers
    <3>5. o = TopOf(x, up)
      BY <1>6, <2>1, <2>4, <3>4, OneTop
    <3> QED
      BY <1>3, <3>2, <3>5
  <2> QED
    BY <2>5, <2>6
<1>25. ItemsMade'
  BY <1>2, <1>24 DEF ItemsMade
<1>26. ItemsKept'
  <2> SUFFICES ASSUME NEW l \in Boxes, NEW w \in Widgets, w \in items'[l], up'[w] = NoParent
               PROVE  \E k \in kept'[l] : k.part = w
    BY DEF ItemsKept
  <2>1. l \notin gone /\ w \in items[l] /\ w \notin gone
    BY <1>16, <1>24
  <2>2. up[w] = NoParent
    BY <1>4, <1>7, <2>1
  <2>3. PICK k \in kept[l] : k.part = w
    BY <1>5, <2>1, <2>2 DEF ItemsKept
  <2>4. k \in kept'[l]
    BY <1>2, <2>1, <2>3
  <2> QED
    BY <2>3, <2>4
<1>27. WindowsHeld'
  <2> SUFFICES ASSUME NEW w \in Widgets, InOrphan(w)', up'[w] # NoParent
               PROVE  TopOf(w, up') \in held'
    BY WindowNames DEF WindowsHeld
  <2>1. w \in Parts /\ w \notin gone /\ up[w] # NoParent
    BY <1>4, <1>7
  <2>2. PICK l \in Boxes : w \in items'[l] /\ WindowOf(l, up') = NoParent
    BY WindowNames DEF InOrphan
  <2>3. w \in items[l] /\ WindowOf(l, up) = NoParent
    BY <1>14, <1>16, <2>2
  <2>4. InOrphan(w)
    BY <2>3, WindowNames DEF InOrphan
  <2>5. PICK t : t = TopOf(w, up)
    OBVIOUS
  <2>6. t \in held /\ t \in Upwards(w, up) /\ up[t] = NoParent
    BY <1>5, <1>6, <2>1, <2>4, <2>5, OneTop, WindowNames DEF WindowsHeld
  <2>7. t \notin gone /\ t \in Parts
    BY <1>6, <1>10, <2>1, <2>6, UpwardsIsClosed DEF Avoids
  <2>8. t \in Upwards(w, up') /\ up'[t] = NoParent
    BY <1>7, <1>10, <2>1, <2>6, <2>7
  <2>9. t = TopOf(w, up')
    BY <1>8, <1>11, <2>1, <2>8, OneTop
  <2> QED
    BY <1>2, <2>6, <2>7, <2>9
<1> QED
  BY <1>13, <1>17, <1>18, <1>19, <1>21, <1>22, <1>23, <1>25, <1>26, <1>27 DEF CarefulInv

-----------------------------------------------------------------------------
(* Types *)

LEMMA WindowsArePart ==
  ASSUME NEW l
  PROVE  parentWidget(l) \in Widgets \cup {NoParent}
<1>1. PICK windows : windows = {w \in Widgets : \E b \in Boxes \cap Upwards(l, up) : up[b] = w}
  OBVIOUS
<1>2. parentWidget(l) = IF windows = {} THEN NoParent ELSE CHOOSE w \in windows : TRUE
  BY <1>1 DEF parentWidget
<1> QED
  BY <1>1, <1>2

LEMMA FirstTitleIsOne == FirstTitle \in Titles
BY LayoutAssumption DEF FirstTitle

LEMMA SetParentsType ==
  ASSUME LayoutTypeOK, NEW S, S \subseteq made, NEW p \in Parts \cup {NoParent}, SetParents(S, p)
  PROVE  above' \in [Parts -> Parts \cup {NoParent}] /\ owned' \subseteq made
BY DEF LayoutTypeOK, SetParents

LEMMA LayoutTypeStep ==
  ASSUME LayoutTypeOK, [LayoutNext]_layoutVars
  PROVE  LayoutTypeOK'
<1> DEFINE Types(u, i, k, t, a) ==
             /\ u \in [Parts -> Parts \cup {NoParent}] /\ a \in [Parts -> Parts \cup {NoParent}]
             /\ i \in [Boxes -> SUBSET Parts] /\ t \in [Boxes -> Titles]
             /\ k \in [Boxes -> SUBSET [key : Titles, part : Parts]]
           Sets(m, h, w) == m \subseteq Parts /\ h \subseteq m /\ w \subseteq m
<1> USE DEF Types, Sets
<1>1. /\ Types(up, items, kept, title, above) /\ Sets(made, held, owned) /\ manners \in LayoutPrograms
      /\ NoParent \notin Parts /\ Widgets \subseteq Parts /\ Boxes \subseteq Parts
  BY LayoutAssumption DEF LayoutTypeOK, Parts
<1>2. ASSUME Types(up', items', kept', title', above'), Sets(made', held', owned'), manners' = manners
      PROVE  LayoutTypeOK'
  BY <1>1, <1>2 DEF LayoutTypeOK
<1>3. ASSUME NEW o \in Parts, NewPart(o) PROVE LayoutTypeOK'
  BY <1>1, <1>2, <1>3 DEF NewPart
<1>4. ASSUME NEW o \in Parts, Leave(o) PROVE LayoutTypeOK'
  BY <1>1, <1>2, <1>4 DEF Leave
<1>5. ASSUME NEW o \in Parts, FreePart(o) PROVE LayoutTypeOK'
  <2>1. PICK gone : gone = Descendants(o)
    OBVIOUS
  <2>2. /\ made' = made \ gone /\ held' = held \ gone /\ owned' = owned \ gone /\ manners' = manners
        /\ up' = [q \in Parts |-> IF q \in gone THEN NoParent ELSE up[q]]
        /\ items' = [l \in Boxes |-> IF l \in gone THEN {}
                                     ELSE items[l] \ {q \in gone : up[q] # NoParent /\ up[q] \in {parentWidget(l), l}}]
        /\ above' = [q \in Parts |-> IF q \in gone \/ above[q] \in gone THEN NoParent ELSE above[q]]
        /\ kept' = [l \in Boxes |-> IF l \in gone THEN {} ELSE {k \in kept[l] : k.part \notin gone}]
        /\ title' = [l \in Boxes |-> IF l \in gone THEN FirstTitle ELSE title[l]]
    BY <1>5, <2>1 DEF FreePart
  <2>3. up' \in [Parts -> Parts \cup {NoParent}] /\ above' \in [Parts -> Parts \cup {NoParent}]
    BY <1>1, <2>2
  <2>4. items' \in [Boxes -> SUBSET Parts]
    BY <1>1, <2>2
  <2>5. title' \in [Boxes -> Titles] /\ kept' \in [Boxes -> SUBSET [key : Titles, part : Parts]]
    BY <1>1, <2>2, FirstTitleIsOne
  <2>6. Sets(made', held', owned')
    BY <1>1, <2>2
  <2> QED
    BY <1>2, <2>2, <2>3, <2>4, <2>5, <2>6
<1>6. ASSUME NEW w \in Widgets, NEW p \in Widgets \cup {NoParent}, SetParentWidget(w, p) PROVE LayoutTypeOK'
  <2>1. /\ {w, p} \subseteq held \cup {NoParent} /\ up' = [up EXCEPT ![w] = p] /\ items' = TakenFrom(w, p)
        /\ SetParents({w}, p) /\ UNCHANGED <<manners, made, title, held, kept>>
    BY <1>6 DEF SetParentWidget
  <2>2. {w} \subseteq made /\ p \in Parts \cup {NoParent}
    BY <1>1, <2>1
  <2>3. above' \in [Parts -> Parts \cup {NoParent}] /\ owned' \subseteq made
    BY <2>1, <2>2, SetParentsType
  <2>4. items' \in [Boxes -> SUBSET Parts]
    BY <1>1, <2>1 DEF TakenFrom
  <2> QED
    BY <1>1, <1>2, <2>1, <2>2, <2>3, <2>4
<1>7. ASSUME NEW l \in Boxes, NEW t \in Titles, Rename(l, t) PROVE LayoutTypeOK'
  BY <1>1, <1>2, <1>7 DEF Rename
<1>8. ASSUME NEW l \in Boxes, NEW w \in Widgets, AddWidget(l, w) PROVE LayoutTypeOK'
  <2>1. PICK q : q = IF parentWidget(l) = NoParent THEN up[w] ELSE parentWidget(l)
    OBVIOUS
  <2>2. /\ {l, w} \subseteq held /\ up' = [up EXCEPT ![w] = q] /\ items' = [items EXCEPT ![l] = @ \cup {w}]
        /\ UNCHANGED <<manners, made, title, held>>
        /\ \/ kept' = KeepsWhileOrphan(l, w) /\ UNCHANGED <<above, owned>>
           \/ SetParents({w}, q) /\ UNCHANGED kept
    BY <1>8, <2>1 DEF AddWidget
  <2>3. q \in Parts \cup {NoParent} /\ {w} \subseteq made
    BY <1>1, <2>1, <2>2, WindowsArePart
  <2>4. above' \in [Parts -> Parts \cup {NoParent}] /\ owned' \subseteq made
    BY <1>1, <2>2, <2>3, SetParentsType
  <2>5. kept' \in [Boxes -> SUBSET [key : Titles, part : Parts]]
    BY <1>1, <2>2 DEF KeepsWhileOrphan
  <2>6. up' \in [Parts -> Parts \cup {NoParent}] /\ items' \in [Boxes -> SUBSET Parts]
    BY <1>1, <2>2, <2>3
  <2> QED
    BY <1>1, <1>2, <2>2, <2>4, <2>5, <2>6
<1>9. ASSUME NEW l \in Boxes, NEW w \in Widgets, RemoveWidget(l, w) PROVE LayoutTypeOK'
  <2>1. /\ {l, w} \subseteq held /\ items' = [items EXCEPT ![l] = @ \ {w}]
        /\ UNCHANGED <<manners, made, up, title, held>>
        /\ \/ SetParents({w}, up[w]) /\ UNCHANGED kept
           \/ /\ kept' = [kept EXCEPT ![l] = {k \in @ : k # [key |-> title[l], part |-> w]}]
              /\ UNCHANGED <<above, owned>>
    BY <1>9 DEF RemoveWidget
  <2>2. above' \in [Parts -> Parts \cup {NoParent}] /\ owned' \subseteq made
    BY <1>1, <2>1, SetParentsType
  <2>3. kept' \in [Boxes -> SUBSET [key : Titles, part : Parts]] /\ items' \in [Boxes -> SUBSET Parts]
    BY <1>1, <2>1
  <2> QED
    BY <1>1, <1>2, <2>1, <2>2, <2>3
<1>10. ASSUME NEW l \in Boxes, NEW w \in Widgets, SetLayout(w, l) PROVE LayoutTypeOK'
  <2>1. PICK boxes : boxes = {l} \cup (Inside(l) \cap Boxes)
    OBVIOUS
  <2>2. PICK S : S = boxes \cup {o \in Inside(l) \cap Widgets : up[o] # w}
    OBVIOUS
  <2>3. /\ {w, l} \subseteq held /\ SetParents(S, w) /\ kept' = ReferencesLeft(boxes)
        /\ up' = [o \in Parts |-> IF o \in ({l} \cup Inside(l)) \cap Widgets \/ o = l THEN w ELSE up[o]]
        /\ UNCHANGED <<manners, made, items, title, held>>
    BY <1>10, <2>1, <2>2 DEF SetLayout
  <2>4. /\ above' = [o \in Parts |-> IF o \in S THEN w ELSE above[o]]
        /\ owned' = owned \ S
    BY <1>1, <2>3 DEF SetParents
  <2>5. kept' \in [Boxes -> SUBSET [key : Titles, part : Parts]]
    BY <1>1, <2>3 DEF ReferencesLeft
  <2> QED
    BY <1>1, <1>2, <2>3, <2>4, <2>5
<1>11. ASSUME NEW l \in Boxes, NEW other \in Boxes, AddLayout(l, other) PROVE LayoutTypeOK'
  <2>1. PICK lw \in Widgets \cup {NoParent} : lw = parentWidget(l)
    BY WindowsArePart
  <2>2. PICK I : I = Inside(other)
    OBVIOUS
  <2>3. /\ {l, other} \subseteq held
        /\ up' = [o \in Parts |-> CASE o = other -> l
                                    [] o \in I \cap Widgets /\ lw # NoParent -> lw
                                    [] OTHER -> up[o]]
        /\ items' = [items EXCEPT ![l] = @ \cup {other}]
        /\ UNCHANGED <<manners, made, title, held>>
        /\ \/ kept' = KeepsWhileOrphan(l, other) /\ UNCHANGED <<above, owned>>
           \/ /\ above' = WithContents(other, l, lw) /\ owned' = owned \ ({other} \cup I) /\ UNCHANGED kept
    BY <1>11, <2>1, <2>2 DEF AddLayout
  <2>4. \A o \in Parts : up'[o] \in Parts \cup {NoParent}
    BY <1>1, <2>3
  <2>5. up' \in [Parts -> Parts \cup {NoParent}]
    BY <2>3, <2>4
  <2>6. above' \in [Parts -> Parts \cup {NoParent}]
    <3>1. CASE above' = WithContents(other, l, lw)
      <4>1. \A o \in Parts : above'[o] \in Parts \cup {NoParent}
        BY <1>1, <3>1 DEF WithContents
      <4> QED
        BY <3>1, <4>1 DEF WithContents
    <3> QED
      BY <1>1, <2>3, <3>1
  <2>7. kept' \in [Boxes -> SUBSET [key : Titles, part : Parts]]
    BY <1>1, <2>3 DEF KeepsWhileOrphan
  <2>8. items' \in [Boxes -> SUBSET Parts] /\ owned' \subseteq made
    BY <1>1, <2>3
  <2> QED
    BY <1>1, <1>2, <2>3, <2>5, <2>6, <2>7, <2>8
<1>12. ASSUME NEW l \in Boxes, NEW other \in Boxes, RemoveLayout(l, other) PROVE LayoutTypeOK'
  <2>1. /\ {l, other} \subseteq held /\ SetParents({other}, NoParent) /\ up' = [up EXCEPT ![other] = NoParent]
        /\ items' = [items EXCEPT ![l] = @ \ {other}] /\ UNCHANGED <<manners, made, title, held, kept>>
    BY <1>12 DEF RemoveLayout
  <2>2. above' \in [Parts -> Parts \cup {NoParent}] /\ owned' \subseteq made
    BY <1>1, <2>1, SetParentsType
  <2>3. up' \in [Parts -> Parts \cup {NoParent}] /\ items' \in [Boxes -> SUBSET Parts]
    BY <1>1, <2>1
  <2> QED
    BY <1>1, <1>2, <2>1, <2>2, <2>3
<1>13. CASE UNCHANGED layoutVars
  BY <1>1, <1>2, <1>13 DEF layoutVars
<1> QED
  BY <1>3, <1>4, <1>5, <1>6, <1>7, <1>8, <1>9, <1>10, <1>11, <1>12, <1>13 DEF LayoutNext

\* The types of the widgets' and layouts' state (glue/qtwidgets.cpp) in every state: parents
\* are objects, what Python refers to or owns exists, references are kept of objects.
THEOREM LayoutTypeCorrect == LayoutSpec => []LayoutTypeOK
<1>1. LayoutInit => LayoutTypeOK
  BY FirstTitleIsOne DEF LayoutInit, LayoutTypeOK
<1>2. LayoutTypeOK /\ [LayoutNext]_layoutVars => LayoutTypeOK'
  BY LayoutTypeStep
<1> QED
  BY <1>1, <1>2, PTL DEF LayoutSpec

LEMMA CarefulStep ==
  ASSUME LayoutTypeOK, CarefulInv, Careful, [LayoutNext]_layoutVars
  PROVE  CarefulInv'
<1>1. ASSUME NEW l \in Boxes, NEW t \in Titles, Rename(l, t) PROVE CarefulInv'
  <2>1. UNCHANGED <<manners, made, up, items, held, above, owned, kept>>
    BY <1>1 DEF Rename
  <2> QED
    BY <2>1, RenameCareful
<1>2. CASE UNCHANGED layoutVars
  <2>1. UNCHANGED <<manners, made, up, items, held, above, owned, kept>>
    BY <1>2 DEF layoutVars
  <2> QED
    BY <2>1, RenameCareful
<1>3. CASE LayoutNext
  BY <1>1, <1>3, NewPartCareful, LeaveCareful, FreePartCareful, SetParentWidgetCareful, AddWidgetCareful,
     RemoveWidgetCareful, SetLayoutCareful, AddLayoutCareful, RemoveLayoutCareful DEF LayoutNext
<1> QED
  BY <1>2, <1>3

LEMMA CarefulAtFirst ==
  ASSUME LayoutInit
  PROVE  CarefulInv
<1>1. /\ made = {} /\ up = [o \in Parts |-> NoParent] /\ above = [o \in Parts |-> NoParent]
      /\ items = [l \in Boxes |-> {}]
  BY DEF LayoutInit
<1>2. up \in Parents /\ KindsApart(up) /\ \A o \in Parts : up[o] = NoParent
  BY <1>1 DEF Parents, KindsApart, Parts
<1>3. Rooted(up)
  <2>1. \A o \in Parts : o \in Upwards(o, up)
    BY <1>2, UpwardsIsClosed
  <2> QED
    BY <1>2, <2>1 DEF Rooted
<1>4. \A l \in Boxes : items[l] = {}
  BY <1>1
<1>5. \A b \in Boxes : up[b] \notin Boxes
  BY <1>2, LayoutAssumption DEF Parts
<1>6. Tree /\ BoxItems /\ WidgetItems /\ OneLayout /\ ItemsMade /\ ItemsKept
  BY <1>2, <1>3, <1>4, <1>5 DEF Tree, BoxItems, WidgetItems, OneLayout, ItemsMade, ItemsKept
<1>7. WidgetWrappers /\ BoxWrappers /\ GivenAway /\ WindowsHeld
  BY <1>1, <1>2 DEF WidgetWrappers, BoxWrappers, GivenAway, WindowsHeld, Parts
<1> QED
  BY <1>6, <1>7 DEF CarefulInv

\* Whatever a careful program adds to layouts, takes out of them and frees, widgets and
\* layouts live as long as the layout they are in; what Python gave away has a parent in Qt
\* (addLayoutOwnership(), removeLayoutOwnership(), qwidgetSetLayout() of glue/qtwidgets.cpp).
THEOREM ItemsAreHeld == LayoutSpec => []("careless" \notin manners => LayoutsHoldTheirItems)
<1>1. LayoutInit => LayoutInv
  BY FirstTitleIsOne, CarefulAtFirst DEF LayoutInit, LayoutTypeOK, LayoutInv
<1>2. LayoutInv /\ [LayoutNext]_layoutVars => LayoutInv'
  <2> SUFFICES ASSUME LayoutInv, [LayoutNext]_layoutVars PROVE LayoutInv'
    OBVIOUS
  <2>1. LayoutTypeOK'
    BY LayoutTypeStep DEF LayoutInv
  <2>2. manners' = manners
    BY DEF LayoutNext, layoutVars, NewPart, Leave, FreePart, SetParentWidget, Rename, AddWidget, RemoveWidget,
           SetLayout, AddLayout, RemoveLayout
  <2>3. Careful' => CarefulInv'
    BY <2>2, CarefulStep DEF LayoutInv, Careful
  <2> QED
    BY <2>1, <2>3 DEF LayoutInv
<1>3. LayoutInv => ("careless" \notin manners => LayoutsHoldTheirItems)
  BY CarefulIsEnough DEF LayoutInv, Careful
<1> QED
  BY <1>1, <1>2, <1>3, PTL DEF LayoutSpec

=============================================================================
