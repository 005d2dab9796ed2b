---------------------------- MODULE Objects_proofs ----------------------------
(***************************************************************************)
(* Proofs about WrapperLife, MetaCall, Accessors and SignalInstance, the   *)
(* parts that follow objects and the calls into them, and about            *)
(* ByteArrays.                                                             *)
(*                                                                         *)
(* WrapperLife: LifeInv says of each destructor in progress whether the    *)
(* wrapper still has the flag of ownership, and that only the thread that  *)
(* ends the application destroys then; for programs without foreign        *)
(* objects and event handlers it also says that nothing is destroyed       *)
(* behind a call.                                                          *)
(* MetaCall: ErrorInv counts where an error can be.                        *)
(* Accessors: DecentInv counts the references of each function and         *)
(* property in five parts; each action moves some from one part to         *)
(* another.                                                                *)
(* SignalInstance: SignalInv says that overloads are in the order of their *)
(* Signal and that each connection is the one its instance leads to.       *)
(* ByteArrays: the items of a slice are numbered in the order of its step; *)
(* after each turn of the loop those met so far have their values.         *)
(***************************************************************************)
EXTENDS WrapperLife, MetaCall, Accessors, SignalInstance, ByteArrays, CommonLemmas

-----------------------------------------------------------------------------
(* WrapperLife *)

Places(t) == 1 .. Len(frames[t])
NextPlace(t) == Len(frames[t]) + 1
LastPlace(t) == Len(frames[t])

\* The call at n of t is new, the others are as before.
PushedAt(t, n) ==
  \A u \in Threads : \A i \in Places(u)' :
    \/ i \in Places(u) /\ frames'[u][i] = frames[u][i]
    \/ u = t /\ i = n

LEMMA FramePushed ==
  ASSUME frames \in [Threads -> Seq(Frame)], NEW t \in Threads, NEW op \in {"wrap", "destroy"}, NEW a \in Addresses,
         NEW step \in {"event", "load", "children", "gil", "free"}, frames' = Pushed(t, op, a, step)
  PROVE  /\ frames' \in [Threads -> Seq(Frame)]
         /\ \A u \in Threads : \A i \in Places(u) : i \in Places(u)' /\ frames'[u][i] = frames[u][i]
         /\ NextPlace(t) \in Places(t)' /\ NextPlace(t) \notin Places(t) /\ PushedAt(t, NextPlace(t))
         /\ frames'[t][NextPlace(t)].op = op /\ frames'[t][NextPlace(t)].at = a
         /\ frames'[t][NextPlace(t)].step = step
<1> DEFINE f == [op |-> op, at |-> a, had |-> gil = t, step |-> step]
           n == Len(frames[t])
<1>1. f \in Frame /\ f.op = op /\ f.at = a /\ f.step = step
  BY DEF Frame
<1>2. frames[t] \in Seq(Frame) /\ n \in Nat
  BY LenProperties
<1>3. frames' = [frames EXCEPT ![t] = Append(frames[t], f)]
  BY DEF Pushed
<1> HIDE DEF f
<1>4. frames'[t] = Append(frames[t], f) /\ \A u \in Threads : u # t => frames'[u] = frames[u]
  BY <1>3
<1>5. /\ Append(frames[t], f) \in Seq(Frame) /\ Len(Append(frames[t], f)) = n + 1
      /\ Append(frames[t], f)[n + 1] = f /\ \A i \in 1..n : Append(frames[t], f)[i] = frames[t][i]
  BY <1>1, <1>2, StackPush
<1>6. frames' \in [Threads -> Seq(Frame)]
  BY <1>3, <1>5
<1>7. Places(t) = 1 .. n /\ Places(t)' = 1 .. (n + 1) /\ \A u \in Threads : u # t => Places(u)' = Places(u)
  BY <1>4, <1>5 DEF Places
<1>8. n + 1 \in Places(t)' /\ n + 1 \notin Places(t)
  BY <1>2, <1>7
<1> HIDE DEF n
<1>9. \A i \in Places(t)' : i \in Places(t) \/ i = n + 1
  BY <1>2, <1>7
<1>10. \A i \in Places(t) : i \in Places(t)' /\ frames'[t][i] = frames[t][i]
  BY <1>2, <1>4, <1>5, <1>7
<1>11. frames'[t][n + 1] = f
  BY <1>4, <1>5
<1>12. \A u \in Threads : \A i \in Places(u) : i \in Places(u)' /\ frames'[u][i] = frames[u][i]
  BY <1>4, <1>7, <1>10
<1>13. PushedAt(t, n + 1)
  BY <1>4, <1>7, <1>9, <1>10 DEF PushedAt
<1>14. NextPlace(t) = n + 1
  BY DEF NextPlace, n
<1> QED
  BY <1>1, <1>6, <1>8, <1>11, <1>12, <1>13, <1>14

LEMMA FramePopped ==
  ASSUME frames \in [Threads -> Seq(Frame)], NEW t \in Threads, ~Idle(t), frames' = Popped(t)
  PROVE  /\ frames' \in [Threads -> Seq(Frame)]
         /\ LastPlace(t) \in Places(t) /\ frames[t][LastPlace(t)] = Top(t) /\ LastPlace(t) \notin Places(t)'
         /\ \A u \in Threads : \A i \in Places(u) :
              (i \in Places(u)' /\ frames'[u][i] = frames[u][i]) \/ (u = t /\ i = LastPlace(t))
         /\ \A u \in Threads : \A i \in Places(u)' : i \in Places(u) /\ frames'[u][i] = frames[u][i]
<1> DEFINE n == Len(frames[t])
<1>1. frames[t] \in Seq(Frame) /\ frames[t] # <<>>
  BY DEF Idle
<1>2. n \in Nat /\ n >= 1 /\ frames[t][n] = Top(t)
  BY <1>1, StackTop DEF Top
<1>3. frames' = [frames EXCEPT ![t] = Front(frames[t])]
  BY DEF Popped
<1>4. frames'[t] = Front(frames[t]) /\ \A u \in Threads : u # t => frames'[u] = frames[u]
  BY <1>3
<1>5. /\ Front(frames[t]) \in Seq(Frame) /\ Len(Front(frames[t])) = n - 1
      /\ \A i \in 1..(n - 1) : Front(frames[t])[i] = frames[t][i]
  BY <1>1, StackPop
<1>6. frames' \in [Threads -> Seq(Frame)]
  BY <1>3, <1>5
<1>7. Places(t) = 1 .. n /\ Places(t)' = 1 .. (n - 1) /\ \A u \in Threads : u # t => Places(u)' = Places(u)
  BY <1>4, <1>5 DEF Places
<1> HIDE DEF n
<1>8. n \in Places(t) /\ n \notin Places(t)'
  BY <1>2, <1>7
<1>9. \A i \in Places(t) : i \in Places(t)' \/ i = n
  BY <1>2, <1>7
<1>10. \A i \in Places(t)' : i \in Places(t) /\ frames'[t][i] = frames[t][i]
  BY <1>2, <1>4, <1>5, <1>7
<1>11. \A u \in Threads : \A i \in Places(u)' : i \in Places(u) /\ frames'[u][i] = frames[u][i]
  BY <1>4, <1>7, <1>10
<1>12. \A u \in Threads : \A i \in Places(u) : (i \in Places(u)' /\ frames'[u][i] = frames[u][i]) \/ (u = t /\ i = n)
  BY <1>4, <1>7, <1>9, <1>10
<1>13. LastPlace(t) = n
  BY DEF LastPlace, n
<1> QED
  BY <1>2, <1>6, <1>8, <1>11, <1>12, <1>13

LEMMA FrameAdvanced ==
  ASSUME frames \in [Threads -> Seq(Frame)], NEW t \in Threads, ~Idle(t),
         NEW step \in {"event", "load", "children", "gil", "free"}, frames' = Advanced(t, step)
  PROVE  /\ frames' \in [Threads -> Seq(Frame)]
         /\ \A u \in Threads : Places(u)' = Places(u)
         /\ LastPlace(t) \in Places(t) /\ frames[t][LastPlace(t)] = Top(t)
         /\ frames'[t][LastPlace(t)].op = Top(t).op /\ frames'[t][LastPlace(t)].at = Top(t).at
         /\ frames'[t][LastPlace(t)].step = step
         /\ \A u \in Threads : \A i \in Places(u) : frames'[u][i] = frames[u][i] \/ (u = t /\ i = LastPlace(t))
<1> DEFINE n == Len(frames[t])
           e == [frames[t][n] EXCEPT !.step = step]
           r == [frames[t] EXCEPT ![n] = e]
<1>1. frames[t] \in Seq(Frame) /\ frames[t] # <<>>
  BY DEF Idle
<1>2. n \in Nat /\ n >= 1 /\ frames[t][n] = Top(t) /\ frames[t][n] \in Frame
  BY <1>1, StackTop DEF Top
<1>3. e \in Frame /\ e.op = frames[t][n].op /\ e.at = frames[t][n].at /\ e.step = step
  BY <1>2 DEF Frame
<1>4. frames' = [frames EXCEPT ![t] = r]
  BY DEF Advanced
<1> HIDE DEF e
<1>5. r \in Seq(Frame) /\ Len(r) = n /\ r[n] = e /\ \A i \in 1..n : i # n => r[i] = frames[t][i]
  BY <1>1, <1>3, StackChange
<1> HIDE DEF r
<1>6. frames'[t] = r /\ \A u \in Threads : u # t => frames'[u] = frames[u]
  BY <1>4
<1>7. frames' \in [Threads -> Seq(Frame)]
  BY <1>4, <1>5
<1>8. Places(t) = 1 .. n /\ \A u \in Threads : Places(u)' = Places(u)
  BY <1>5, <1>6 DEF Places
<1> HIDE DEF n
<1>9. n \in Places(t)
  BY <1>2, <1>8
<1>10. \A u \in Threads : \A i \in Places(u) : frames'[u][i] = frames[u][i] \/ (u = t /\ i = n)
  BY <1>5, <1>6, <1>8
<1>11. LastPlace(t) = n
  BY DEF LastPlace, n
<1> QED
  BY <1>2, <1>3, <1>5, <1>6, <1>7, <1>8, <1>9, <1>10, <1>11

LEMMA TypeInit == WrapperInit => WrapperTypeOK
<1> SUFFICES ASSUME WrapperInit PROVE WrapperTypeOK
  OBVIOUS
<1>1. frames \in [Threads -> Seq(Frame)]
  BY EmptySeq DEF WrapperInit
<1>2. home \in [Threads -> Threads] \/ home \in [Addresses -> Threads]
  BY DEF WrapperInit
<1>3. home \in [Addresses -> Threads]
  BY DEF WrapperInit
<1> QED
  BY <1>1, <1>3 DEF WrapperInit, WrapperTypeOK

LEMMA TopIsFrame ==
  ASSUME WrapperTypeOK, NEW t \in Threads, ~Idle(t)
  PROVE  Top(t) \in Frame /\ Top(t).at \in Addresses
<1>1. frames[t] \in Seq(Frame) /\ frames[t] # <<>>
  BY DEF WrapperTypeOK, Idle
<1>2. Top(t) \in Frame
  BY <1>1, StackTop DEF Top
<1> QED
  BY <1>2 DEF Frame

LEMMA TypeStep == WrapperTypeOK /\ [WrapperNext]_wrapperVars => WrapperTypeOK'
<1> SUFFICES ASSUME WrapperTypeOK, [WrapperNext]_wrapperVars PROVE WrapperTypeOK'
  OBVIOUS
<1>0. frames \in [Threads -> Seq(Frame)]
  BY DEF WrapperTypeOK
<1>1. ASSUME NEW t \in Threads, NEW a \in Addresses, NEW kind \in {"cpp", "python"},
             NEW p \in Addresses \cup {NoAddress}, NewObject(t, a, kind, p)
      PROVE  WrapperTypeOK'
  <2>1. mapped' \subseteq Addresses /\ wrappers' \in [Addresses -> Nat] /\ owning' \subseteq Addresses
    BY <1>1, SMTT(20) DEF WrapperTypeOK, NewObject
  <2>2. /\ object' \in [Addresses -> {"none", "cpp", "python"}] /\ home' \in [Addresses -> Threads]
        /\ parent' \in [Addresses -> Addresses \cup {NoAddress}]
    BY <1>1 DEF WrapperTypeOK, NewObject
  <2>3. UNCHANGED <<habits, dying, marked, gil, frames, visits>>
    BY <1>1 DEF NewObject
  <2> QED
    BY <2>1, <2>2, <2>3 DEF WrapperTypeOK
<1>2. ASSUME NEW t \in Threads, NEW a \in Addresses, DropWrapper(t, a) PROVE WrapperTypeOK'
  BY <1>2 DEF WrapperTypeOK, DropWrapper, releaseWrapper
<1>17. ASSUME NEW t \in Threads, NEW a \in Addresses, NEW p \in Addresses, NEW told \in BOOLEAN, SetParent(t, a, p, told)
       PROVE  WrapperTypeOK'
  <2>1. parent' \in [Addresses -> Addresses \cup {NoAddress}] /\ owning' \subseteq Addresses
    BY <1>17 DEF WrapperTypeOK, SetParent
  <2> QED
    BY <1>17, <2>1 DEF WrapperTypeOK, SetParent
<1>18. ASSUME NEW t \in Threads, NEW a \in Addresses, TakeOwnership(t, a) PROVE WrapperTypeOK'
  BY <1>18 DEF WrapperTypeOK, TakeOwnership
<1>3. ASSUME NEW t \in Threads, NEW a \in Addresses, Destroyed(t, a)
      PROVE  frames' \in [Threads -> Seq(Frame)] /\ dying' \subseteq Addresses
  <2>1. frames' \in [Threads -> Seq(Frame)]
    BY <1>0, <1>3, FramePushed DEF Destroyed, FirstStep
  <2> QED
    BY <1>3, <2>1 DEF Destroyed, WrapperTypeOK
<1>4. ASSUME NEW t \in Threads, NEW a \in Addresses, Destroy(t, a) PROVE WrapperTypeOK'
  BY <1>3, <1>4 DEF WrapperTypeOK, Destroy
<1>5. ASSUME NEW t \in Threads, DestroyChild(t) PROVE WrapperTypeOK'
  BY <1>3, <1>5 DEF WrapperTypeOK, DestroyChild, Children
<1>6. ASSUME NEW t \in Threads, invalidatePtr(t) PROVE WrapperTypeOK'
  <2>1. frames' \in [Threads -> Seq(Frame)]
    BY <1>0, <1>6, FrameAdvanced DEF invalidatePtr, At
  <2> QED
    BY <1>6, <2>1 DEF WrapperTypeOK, invalidatePtr
<1>7. ASSUME NEW t \in Threads, Release(t) PROVE WrapperTypeOK'
  <2>1. frames' \in [Threads -> Seq(Frame)]
    BY <1>0, <1>7, FrameAdvanced DEF Release, At
  <2> QED
    BY <1>7, <2>1 DEF WrapperTypeOK, Release, releaseWrapper
<1>8. ASSUME NEW t \in Threads, Free(t) PROVE WrapperTypeOK'
  <2>1. frames' \in [Threads -> Seq(Frame)]
    BY <1>0, <1>8, FramePopped DEF Free, At
  <2> QED
    BY <1>8, <2>1 DEF WrapperTypeOK, Free
<1>9. ASSUME NEW t \in Threads, NEW a \in Addresses, getWrapperForQObject(t, a) PROVE WrapperTypeOK'
  <2>1. frames' \in [Threads -> Seq(Frame)]
    <3>1. CASE frames' = frames
      BY <1>0, <3>1
    <3>2. CASE frames' = Pushed(t, "wrap", a, "event")
      BY <1>0, <3>2, FramePushed
    <3>3. CASE frames' = Pushed(t, "wrap", a, "load")
      BY <1>0, <3>3, FramePushed
    <3> QED
      BY <1>9, <3>1, <3>2, <3>3 DEF getWrapperForQObject
  <2>2. /\ mapped' \subseteq Addresses /\ wrappers' \in [Addresses -> Nat] /\ marked' \subseteq Addresses
        /\ owning' \subseteq Addresses
    BY <1>9 DEF getWrapperForQObject, Wrapped, WrapperTypeOK
  <2> QED
    BY <1>9, <2>1, <2>2 DEF WrapperTypeOK, getWrapperForQObject
<1>10. ASSUME NEW t \in Threads, EventDone(t) PROVE WrapperTypeOK'
  <2>0. ~Idle(t) /\ Top(t).at \in Addresses
    BY <1>10, TopIsFrame DEF EventDone, At
  <2>1. frames' \in [Threads -> Seq(Frame)]
    <3>1. CASE frames' = Popped(t)
      BY <1>0, <2>0, <3>1, FramePopped
    <3>2. CASE frames' = Advanced(t, "load")
      BY <1>0, <2>0, <3>2, FrameAdvanced
    <3> QED
      BY <1>10, <3>1, <3>2 DEF EventDone
  <2>2. mapped' \subseteq Addresses /\ wrappers' \in [Addresses -> Nat] /\ owning' \subseteq Addresses
    <3>1. UNCHANGED <<mapped, wrappers, owning>> \/ Wrapped(Top(t).at)
      BY <1>10 DEF EventDone
    <3>2. CASE Wrapped(Top(t).at)
      BY <2>0, <3>2 DEF Wrapped, WrapperTypeOK
    <3> QED
      BY <3>1, <3>2 DEF WrapperTypeOK
  <2> QED
    BY <1>10, <2>1, <2>2 DEF WrapperTypeOK, EventDone
<1>11. ASSUME NEW t \in Threads, TypeLoaded(t) PROVE WrapperTypeOK'
  <2>0. ~Idle(t) /\ Top(t).at \in Addresses
    BY <1>11, TopIsFrame DEF TypeLoaded, At
  <2>1. frames' \in [Threads -> Seq(Frame)]
    BY <1>0, <1>11, <2>0, FramePopped DEF TypeLoaded
  <2>2. mapped' \subseteq Addresses /\ wrappers' \in [Addresses -> Nat] /\ owning' \subseteq Addresses
    BY <1>11, <2>0 DEF TypeLoaded, Wrapped, WrapperTypeOK
  <2> QED
    BY <1>11, <2>1, <2>2 DEF WrapperTypeOK, TypeLoaded
<1>12. ASSUME NEW t \in Threads, HandOver(t) \/ TakeGil(t) PROVE WrapperTypeOK'
  BY <1>12 DEF WrapperTypeOK, HandOver, TakeGil
<1>13. ASSUME NEW t \in Threads, destroyQCoreApplication(t) PROVE WrapperTypeOK'
  BY <1>13 DEF WrapperTypeOK, destroyQCoreApplication
<1>14. ASSUME NEW t \in Threads, NEW a \in Addresses, destructionVisitor(t, a) PROVE WrapperTypeOK'
  <2>1. frames' \in [Threads -> Seq(Frame)] /\ dying' \subseteq Addresses
    BY <1>0, <1>3, <1>14 DEF destructionVisitor, WrapperTypeOK
  <2> QED
    BY <1>14, <2>1 DEF WrapperTypeOK, destructionVisitor
<1>15. CASE UNCHANGED wrapperVars
  BY <1>15 DEF WrapperTypeOK, wrapperVars
<1>16. CASE WrapperNext
  BY <1>1, <1>2, <1>4, <1>5, <1>6, <1>7, <1>8, <1>9, <1>10, <1>11, <1>12, <1>13, <1>14, <1>16,
     <1>17, <1>18 DEF WrapperNext
<1> QED
  BY <1>15, <1>16

\* For every set of threads and addresses: the types of what the binding manager keeps.
THEOREM TypeCorrect == WrapperSpec => []WrapperTypeOK
BY TypeInit, TypeStep, PTL DEF WrapperSpec

-----------------------------------------------------------------------------
(* Whatever a program does *)

NoLoads == "lazy" \notin habits => \A t \in Threads : \A i \in Places(t) : frames[t][i].step # "load"
OneForEach == "lazy" \notin habits => \A a \in Addresses : wrappers[a] <= 1 /\ (a \notin mapped => wrappers[a] = 0)
CallOf(a) == \E t \in Threads : \E i \in Places(t) : frames[t][i].op = "destroy" /\ frames[t][i].at = a
DyingAreCalled == \A a \in dying : CallOf(a)
\* The thread that visits the wrappers has the GIL, and is alone.
QuitAlone == visits # {} => \A t \in Threads : \A i \in Places(t) : frames[t][i].op = "destroy" /\ gil = t
\* A destructor in progress has its object, and after its first step no wrapper that owns it.
DestructorSound(f) ==
  f.op = "destroy" => /\ f.at \in dying /\ object[f.at] # "none"
                      /\ "owners" \notin habits /\ f.step # "gil" => f.at \notin owning
DestructorsSound == \A t \in Threads : \A i \in Places(t) : DestructorSound(frames[t][i])
OneDestructor ==
  \A t, u \in Threads : \A i \in Places(t), j \in Places(u) :
    frames[t][i].op = "destroy" /\ frames[u][j].op = "destroy" /\ frames[t][i].at = frames[u][j].at => t = u /\ i = j
PythonOwns == "owners" \notin habits => \A a \in owning : object[a] = "python"
DestructorsInv == DestructorsSound /\ OneDestructor /\ PythonOwns

LEMMA FramesChange ==
  ASSUME WrapperTypeOK, WrapperNext
  PROVE  /\ habits' = habits
         /\ \/ frames' = frames
            \/ \E t \in Threads, a \in Addresses : Destroyed(t, a)
            \/ \E t \in Threads : ~Idle(t) /\ frames' = Popped(t)
            \/ \E t \in Threads, step \in {"children", "gil", "free"} :
                 ~Idle(t) /\ Top(t).op = "destroy" /\ frames' = Advanced(t, step)
            \/ \E t \in Threads, a \in Addresses : frames' = Pushed(t, "wrap", a, "event")
            \/ "lazy" \in habits /\ \E t \in Threads, a \in Addresses : frames' = Pushed(t, "wrap", a, "load")
            \/ "lazy" \in habits /\ \E t \in Threads : ~Idle(t) /\ frames' = Advanced(t, "load")
<1> DEFINE Goal ==
            \/ frames' = frames
            \/ \E t \in Threads, a \in Addresses : Destroyed(t, a)
            \/ \E t \in Threads : ~Idle(t) /\ frames' = Popped(t)
            \/ \E t \in Threads, step \in {"children", "gil", "free"} :
                 ~Idle(t) /\ Top(t).op = "destroy" /\ frames' = Advanced(t, step)
            \/ \E t \in Threads, a \in Addresses : frames' = Pushed(t, "wrap", a, "event")
            \/ "lazy" \in habits /\ \E t \in Threads, a \in Addresses : frames' = Pushed(t, "wrap", a, "load")
            \/ "lazy" \in habits /\ \E t \in Threads : ~Idle(t) /\ frames' = Advanced(t, "load")
<1>1. ASSUME NEW t \in Threads, NEW a \in Addresses, NEW kind \in {"cpp", "python"},
             NEW p \in Addresses \cup {NoAddress}, NewObject(t, a, kind, p)
      PROVE  habits' = habits /\ Goal
  BY <1>1 DEF NewObject
<1>2. ASSUME NEW t \in Threads, NEW a \in Addresses,
             DropWrapper(t, a) \/ TakeOwnership(t, a) \/ \E p \in Addresses, told \in BOOLEAN : SetParent(t, a, p, told)
      PROVE  habits' = habits /\ Goal
  BY <1>2 DEF DropWrapper, TakeOwnership, SetParent
<1>3. ASSUME NEW t \in Threads, NEW a \in Addresses, Destroy(t, a) PROVE habits' = habits /\ Goal
  BY <1>3 DEF Destroy
<1>4. ASSUME NEW t \in Threads, DestroyChild(t) PROVE habits' = habits /\ Goal
  BY <1>4 DEF DestroyChild, Children
<1>5. ASSUME NEW t \in Threads, invalidatePtr(t) PROVE habits' = habits /\ Goal
  BY <1>5 DEF invalidatePtr, At
<1>6. ASSUME NEW t \in Threads, Release(t) PROVE habits' = habits /\ Goal
  BY <1>6 DEF Release, At
<1>7. ASSUME NEW t \in Threads, Free(t) PROVE habits' = habits /\ Goal
  BY <1>7 DEF Free, At
<1>8. ASSUME NEW t \in Threads, NEW a \in Addresses, getWrapperForQObject(t, a) PROVE habits' = habits /\ Goal
  BY <1>8 DEF getWrapperForQObject
<1>9. ASSUME NEW t \in Threads, EventDone(t) PROVE habits' = habits /\ Goal
  BY <1>9 DEF EventDone, At
<1>10. ASSUME NEW t \in Threads, TypeLoaded(t) PROVE habits' = habits /\ Goal
  BY <1>10 DEF TypeLoaded, At
<1>11. ASSUME NEW t \in Threads, HandOver(t) \/ TakeGil(t) PROVE habits' = habits /\ Goal
  BY <1>11 DEF HandOver, TakeGil
<1>12. ASSUME NEW t \in Threads, destroyQCoreApplication(t) PROVE habits' = habits /\ Goal
  BY <1>12 DEF destroyQCoreApplication
<1>13. ASSUME NEW t \in Threads, NEW a \in Addresses, destructionVisitor(t, a) PROVE habits' = habits /\ Goal
  BY <1>13 DEF destructionVisitor
<1> HIDE DEF Goal
<1>14. habits' = habits /\ Goal
  BY <1>1, <1>2, <1>3, <1>4, <1>5, <1>6, <1>7, <1>8, <1>9, <1>10, <1>11, <1>12, <1>13 DEF WrapperNext
<1> QED
  BY <1>14 DEF Goal

LEMMA NoLoadsStep ==
  ASSUME WrapperTypeOK, WrapperNext, NoLoads
  PROVE  NoLoads'
<1>0. frames \in [Threads -> Seq(Frame)] /\ habits' = habits
  BY FramesChange DEF WrapperTypeOK
<1>1. CASE frames' = frames
  BY <1>0, <1>1 DEF NoLoads, Places
<1>2. ASSUME NEW t \in Threads, NEW a \in Addresses, Destroyed(t, a) PROVE NoLoads'
  <2> DEFINE step == FirstStep(a)
  <2>1. step \in {"event", "load", "children", "gil", "free"} /\ step # "load"
    BY DEF FirstStep
  <2>2. frames' = Pushed(t, "destroy", a, step)
    BY <1>2 DEF Destroyed
  <2> HIDE DEF step
  <2>3. frames'[t][NextPlace(t)].step = step /\ PushedAt(t, NextPlace(t))
    BY <1>0, <2>1, <2>2, FramePushed
  <2> QED
    BY <1>0, <2>1, <2>3 DEF NoLoads, PushedAt
<1>3. ASSUME NEW t \in Threads, ~Idle(t), frames' = Popped(t) PROVE NoLoads'
  BY <1>0, <1>3, FramePopped DEF NoLoads
<1>4. ASSUME NEW t \in Threads, NEW step \in {"children", "gil", "free"}, ~Idle(t), frames' = Advanced(t, step)
      PROVE  NoLoads'
  <2>1. step \in {"event", "load", "children", "gil", "free"} /\ step # "load"
    OBVIOUS
  <2>2. \A u \in Threads : Places(u)' = Places(u)
    BY <1>0, <1>4, <2>1, FrameAdvanced
  <2>3. /\ frames'[t][LastPlace(t)].step = step
        /\ \A u \in Threads : \A i \in Places(u) : frames'[u][i] = frames[u][i] \/ (u = t /\ i = LastPlace(t))
    BY <1>0, <1>4, <2>1, FrameAdvanced
  <2> QED
    BY <1>0, <2>1, <2>2, <2>3 DEF NoLoads
<1>5. ASSUME NEW t \in Threads, NEW a \in Addresses, frames' = Pushed(t, "wrap", a, "event") PROVE NoLoads'
  <2>1. frames'[t][NextPlace(t)].step = "event" /\ PushedAt(t, NextPlace(t))
    BY <1>0, <1>5, FramePushed
  <2> QED
    BY <1>0, <2>1 DEF NoLoads, PushedAt
<1>6. CASE "lazy" \in habits
  BY <1>0, <1>6 DEF NoLoads
<1> QED
  BY <1>1, <1>2, <1>3, <1>4, <1>5, <1>6, FramesChange

LEMMA TopIsCalled ==
  ASSUME WrapperTypeOK, NEW t \in Threads, ~Idle(t)
  PROVE  LastPlace(t) \in Places(t) /\ frames[t][LastPlace(t)] = Top(t)
<1>1. frames[t] \in Seq(Frame) /\ frames[t] # <<>>
  BY DEF WrapperTypeOK, Idle
<1>2. Len(frames[t]) \in Nat /\ Len(frames[t]) >= 1 /\ Top(t) = frames[t][Len(frames[t])]
  BY <1>1, StackTop DEF Top
<1> QED
  BY <1>2 DEF Places, LastPlace

LEMMA OneForEachStep ==
  ASSUME WrapperTypeOK, WrapperNext, NoLoads, OneForEach
  PROVE  OneForEach'
<1>0. wrappers \in [Addresses -> Nat] /\ habits' = habits
  BY FramesChange DEF WrapperTypeOK
<1>1. ASSUME UNCHANGED <<mapped, wrappers>> PROVE OneForEach'
  BY <1>0, <1>1 DEF OneForEach
<1>2. ASSUME NEW a \in Addresses, releaseWrapper(a) PROVE OneForEach'
  BY <1>0, <1>2 DEF OneForEach, releaseWrapper
<1>3. ASSUME NEW a \in Addresses, a \notin mapped, Wrapped(a) PROVE OneForEach'
  BY <1>0, <1>3 DEF OneForEach, Wrapped
<1>4. ASSUME NEW t \in Threads, NEW a \in Addresses, NEW kind \in {"cpp", "python"},
             NEW p \in Addresses \cup {NoAddress}, NewObject(t, a, kind, p)
      PROVE  OneForEach'
  BY <1>0, <1>4 DEF OneForEach, NewObject
<1>5. ASSUME NEW t \in Threads, NEW a \in Addresses, DropWrapper(t, a) PROVE OneForEach'
  BY <1>2, <1>5 DEF DropWrapper
<1>6. ASSUME NEW t \in Threads, Release(t) PROVE OneForEach'
  <2>1. Top(t).at \in Addresses
    BY <1>6, TopIsFrame DEF Release, At
  <2> QED
    BY <1>2, <1>6, <2>1 DEF Release
<1>7. ASSUME NEW t \in Threads, NEW a \in Addresses, getWrapperForQObject(t, a) PROVE OneForEach'
  BY <1>1, <1>3, <1>7 DEF getWrapperForQObject
<1>8. ASSUME NEW t \in Threads, EventDone(t) PROVE OneForEach'
  <2>1. Top(t).at \in Addresses
    BY <1>8, TopIsFrame DEF EventDone, At
  <2> QED
    BY <1>1, <1>3, <1>8, <2>1 DEF EventDone, FoundAfterEvent
<1>9. ASSUME NEW t \in Threads, TypeLoaded(t) PROVE OneForEach'
  <2>1. ~Idle(t) /\ Top(t).step = "load"
    BY <1>9 DEF TypeLoaded, At
  <2>2. "lazy" \in habits
    BY <2>1, TopIsCalled DEF NoLoads
  <2> QED
    BY <1>0, <2>2 DEF OneForEach
<1>10. ASSUME NEW t \in Threads,
              \/ DestroyChild(t) \/ invalidatePtr(t) \/ Free(t) \/ HandOver(t) \/ TakeGil(t)
              \/ destroyQCoreApplication(t)
              \/ \E a \in Addresses : Destroy(t, a) \/ destructionVisitor(t, a) \/ TakeOwnership(t, a)
              \/ \E a, p \in Addresses, told \in BOOLEAN : SetParent(t, a, p, told)
       PROVE  OneForEach'
  <2>1. UNCHANGED <<mapped, wrappers>>
    BY <1>10 DEF DestroyChild, invalidatePtr, Free, HandOver, TakeGil, destroyQCoreApplication, Destroy, destructionVisitor,
       TakeOwnership, SetParent
  <2> QED
    BY <1>1, <2>1
<1> QED
  BY <1>4, <1>5, <1>6, <1>7, <1>8, <1>9, <1>10 DEF WrapperNext

LEMMA CalledPushed ==
  ASSUME WrapperTypeOK, NEW t \in Threads, NEW op \in {"wrap", "destroy"}, NEW a \in Addresses,
         NEW step \in {"event", "load", "children", "gil", "free"}, frames' = Pushed(t, op, a, step)
  PROVE  (\A b : CallOf(b) => CallOf(b)') /\ (op = "destroy" => CallOf(a)')
<1>1. frames \in [Threads -> Seq(Frame)]
  BY DEF WrapperTypeOK
<1>2. \A u \in Threads : \A i \in Places(u) : i \in Places(u)' /\ frames'[u][i] = frames[u][i]
  BY <1>1, FramePushed
<1>3. \E n \in Places(t)' : frames'[t][n].op = op /\ frames'[t][n].at = a
  <2>1. NextPlace(t) \in Places(t)' /\ frames'[t][NextPlace(t)].op = op /\ frames'[t][NextPlace(t)].at = a
    BY <1>1, FramePushed
  <2> QED
    BY <2>1
<1> QED
  BY <1>2, <1>3 DEF CallOf

LEMMA CalledPopped ==
  ASSUME WrapperTypeOK, NEW t \in Threads, ~Idle(t), frames' = Popped(t)
  PROVE  \A b : CallOf(b) /\ (Top(t).op = "wrap" \/ Top(t).at # b) => CallOf(b)'
<1>1. frames \in [Threads -> Seq(Frame)]
  BY DEF WrapperTypeOK
<1>2. /\ frames[t][LastPlace(t)] = Top(t)
      /\ \A u \in Threads : \A i \in Places(u) :
           (i \in Places(u)' /\ frames'[u][i] = frames[u][i]) \/ (u = t /\ i = LastPlace(t))
  BY <1>1, FramePopped
<1> QED
  BY <1>2 DEF CallOf

LEMMA CalledAdvanced ==
  ASSUME WrapperTypeOK, NEW t \in Threads, ~Idle(t),
         NEW step \in {"event", "load", "children", "gil", "free"}, frames' = Advanced(t, step)
  PROVE  \A b : CallOf(b) => CallOf(b)'
<1>1. frames \in [Threads -> Seq(Frame)]
  BY DEF WrapperTypeOK
<1>2. \A u \in Threads : \A i \in Places(u) :
        i \in Places(u)' /\ frames'[u][i].op = frames[u][i].op /\ frames'[u][i].at = frames[u][i].at
  BY <1>1, FrameAdvanced
<1> QED
  BY <1>2 DEF CallOf

LEMMA DestroyedIsCalled ==
  ASSUME WrapperTypeOK, DyingAreCalled, NEW t \in Threads, NEW a \in Addresses, Destroyed(t, a)
  PROVE  DyingAreCalled'
<1> DEFINE step == FirstStep(a)
<1>1. step \in {"event", "load", "children", "gil", "free"} /\ frames' = Pushed(t, "destroy", a, step)
  BY DEF Destroyed, FirstStep
<1> HIDE DEF step
<1>2. (\A b : CallOf(b) => CallOf(b)') /\ CallOf(a)'
  BY <1>1, CalledPushed
<1> QED
  BY <1>2 DEF Destroyed, DyingAreCalled

LEMMA DyingAreCalledStep ==
  ASSUME WrapperTypeOK, WrapperNext, DyingAreCalled
  PROVE  DyingAreCalled'
<1>1. ASSUME UNCHANGED <<dying, frames>> PROVE DyingAreCalled'
  BY <1>1 DEF DyingAreCalled, CallOf, Places
<1>2. ASSUME UNCHANGED dying, \A b : CallOf(b) => CallOf(b)' PROVE DyingAreCalled'
  BY <1>2 DEF DyingAreCalled
<1>3. ASSUME NEW t \in Threads, NEW a \in Addresses, NEW kind \in {"cpp", "python"},
             NEW p \in Addresses \cup {NoAddress}, NewObject(t, a, kind, p)
      PROVE  DyingAreCalled'
  BY <1>1, <1>3 DEF NewObject
<1>4. ASSUME NEW t \in Threads, NEW a \in Addresses,
             DropWrapper(t, a) \/ TakeOwnership(t, a) \/ \E p \in Addresses, told \in BOOLEAN : SetParent(t, a, p, told)
      PROVE  DyingAreCalled'
  BY <1>1, <1>4 DEF DropWrapper, TakeOwnership, SetParent
<1>5. ASSUME NEW t \in Threads, HandOver(t) \/ TakeGil(t) \/ destroyQCoreApplication(t) PROVE DyingAreCalled'
  BY <1>1, <1>5 DEF HandOver, TakeGil, destroyQCoreApplication
<1>6. ASSUME NEW t \in Threads, NEW a \in Addresses, Destroy(t, a) PROVE DyingAreCalled'
  BY <1>6, DestroyedIsCalled DEF Destroy
<1>7. ASSUME NEW t \in Threads, DestroyChild(t) PROVE DyingAreCalled'
  BY <1>7, DestroyedIsCalled DEF DestroyChild, Children
<1>8. ASSUME NEW t \in Threads, NEW a \in Addresses, destructionVisitor(t, a) PROVE DyingAreCalled'
  BY <1>1, <1>8, DestroyedIsCalled DEF destructionVisitor
<1>9. ASSUME NEW t \in Threads, invalidatePtr(t) PROVE DyingAreCalled'
  BY <1>2, <1>9, CalledAdvanced DEF invalidatePtr, At
<1>10. ASSUME NEW t \in Threads, Release(t) PROVE DyingAreCalled'
  BY <1>2, <1>10, CalledAdvanced DEF Release, At
<1>11. ASSUME NEW t \in Threads, Free(t) PROVE DyingAreCalled'
  <2>1. ~Idle(t) /\ frames' = Popped(t) /\ dying' = dying \ {Top(t).at}
    BY <1>11 DEF Free, At
  <2> QED
    BY <2>1, CalledPopped DEF DyingAreCalled
<1>12. ASSUME NEW t \in Threads, NEW a \in Addresses, getWrapperForQObject(t, a) PROVE DyingAreCalled'
  BY <1>1, <1>2, <1>12, CalledPushed DEF getWrapperForQObject
<1>13. ASSUME NEW t \in Threads, EventDone(t) PROVE DyingAreCalled'
  <2>1. ~Idle(t) /\ Top(t).op = "wrap" /\ UNCHANGED dying
    BY <1>13 DEF EventDone, At
  <2>2. frames' = Popped(t) \/ frames' = Advanced(t, "load")
    BY <1>13 DEF EventDone
  <2> QED
    BY <1>2, <2>1, <2>2, CalledPopped, CalledAdvanced
<1>14. ASSUME NEW t \in Threads, TypeLoaded(t) PROVE DyingAreCalled'
  <2>1. ~Idle(t) /\ Top(t).op = "wrap" /\ UNCHANGED dying /\ frames' = Popped(t)
    BY <1>14 DEF TypeLoaded, At
  <2> QED
    BY <1>2, <2>1, CalledPopped
<1> QED
  BY <1>3, <1>4, <1>5, <1>6, <1>7, <1>8, <1>9, <1>10, <1>11, <1>12, <1>13, <1>14 DEF WrapperNext

LEMMA IdleHasNoCalls ==
  ASSUME WrapperTypeOK, NEW u \in Threads, Idle(u)
  PROVE  Places(u) = {}
<1>1. frames[u] \in Seq(Frame) /\ frames[u] = <<>>
  BY DEF Idle, WrapperTypeOK
<1>2. Len(frames[u]) = 0
  BY <1>1, EmptySeq
<1> QED
  BY <1>2 DEF Places

LEMMA PlaceIsFrame ==
  ASSUME WrapperTypeOK, NEW t \in Threads, NEW i \in Places(t)
  PROVE  frames[t][i] \in Frame /\ frames[t][i].at \in Addresses /\ frames[t][i].op \in {"wrap", "destroy"}
<1>1. frames[t] \in Seq(Frame) /\ Len(frames[t]) \in Nat
  BY DEF WrapperTypeOK
<1>2. frames[t][i] \in Frame
  BY <1>1, ElementOfSeq DEF Places
<1> QED
  BY <1>2 DEF Frame

LEMMA QuitAloneStep ==
  ASSUME WrapperTypeOK, WrapperNext, QuitAlone
  PROVE  QuitAlone'
<1>0. frames \in [Threads -> Seq(Frame)]
  BY DEF WrapperTypeOK
<1>1. ASSUME UNCHANGED <<frames, gil, visits>> PROVE QuitAlone'
  BY <1>1 DEF QuitAlone, Places
<1>2. ASSUME visits' = {} PROVE QuitAlone'
  BY <1>2 DEF QuitAlone
<1>3. ASSUME NEW t \in Threads, NEW a \in Addresses, NEW kind \in {"cpp", "python"},
             NEW p \in Addresses \cup {NoAddress}, NewObject(t, a, kind, p)
      PROVE  QuitAlone'
  BY <1>1, <1>3 DEF NewObject
<1>4. ASSUME NEW t \in Threads, NEW a \in Addresses,
             DropWrapper(t, a) \/ TakeOwnership(t, a) \/ \E p \in Addresses, told \in BOOLEAN : SetParent(t, a, p, told)
      PROVE  QuitAlone'
  BY <1>1, <1>4 DEF DropWrapper, TakeOwnership, SetParent
<1>5. ASSUME NEW t \in Threads, NEW a \in Addresses, Destroy(t, a) \/ getWrapperForQObject(t, a) PROVE QuitAlone'
  BY <1>2, <1>5 DEF Destroy, getWrapperForQObject
<1>6. ASSUME NEW t \in Threads, NEW a \in Addresses, Destroyed(t, a), UNCHANGED gil, visits' \subseteq visits,
             visits # {} => gil = t
      PROVE  QuitAlone'
  <2> DEFINE step == FirstStep(a)
  <2>1. step \in {"event", "load", "children", "gil", "free"} /\ frames' = Pushed(t, "destroy", a, step)
    BY <1>6 DEF Destroyed, FirstStep
  <2> HIDE DEF step
  <2>2. frames'[t][NextPlace(t)].op = "destroy" /\ PushedAt(t, NextPlace(t))
    BY <1>0, <2>1, FramePushed
  <2> QED
    BY <1>6, <2>2 DEF QuitAlone, PushedAt
<1>7. ASSUME NEW t \in Threads, DestroyChild(t) PROVE QuitAlone'
  <2>1. ~Idle(t) /\ UNCHANGED <<gil, visits>>
    BY <1>7 DEF DestroyChild, At
  <2>2. visits # {} => gil = t
    BY <2>1, TopIsCalled DEF QuitAlone
  <2> QED
    BY <1>6, <1>7, <2>1, <2>2 DEF DestroyChild, Children
<1>8. ASSUME NEW t \in Threads, NEW a \in Addresses, destructionVisitor(t, a) PROVE QuitAlone'
  <2>1. gil = t /\ visits # {} /\ visits' \subseteq visits /\ UNCHANGED gil
    BY <1>8 DEF destructionVisitor, InPython
  <2>2. CASE Destroyed(t, a)
    BY <1>6, <2>1, <2>2
  <2>3. CASE UNCHANGED frames
    BY <2>1, <2>3 DEF QuitAlone, Places
  <2> QED
    BY <1>8, <2>2, <2>3 DEF destructionVisitor
<1>9. ASSUME NEW t \in Threads, NEW step \in {"event", "load", "children", "gil", "free"}, ~Idle(t), frames' = Advanced(t, step),
             UNCHANGED <<gil, visits>>
      PROVE  QuitAlone'
  <2>1. /\ \A u \in Threads : Places(u)' = Places(u)
        /\ frames'[t][LastPlace(t)].op = frames[t][LastPlace(t)].op
        /\ \A u \in Threads : \A i \in Places(u) : frames'[u][i] = frames[u][i] \/ (u = t /\ i = LastPlace(t))
    BY <1>0, <1>9, FrameAdvanced
  <2> QED
    BY <1>9, <2>1 DEF QuitAlone
<1>10. ASSUME NEW t \in Threads, ~Idle(t), frames' = Popped(t), UNCHANGED <<gil, visits>> PROVE QuitAlone'
  <2>1. \A u \in Threads : \A i \in Places(u)' : i \in Places(u) /\ frames'[u][i] = frames[u][i]
    BY <1>0, <1>10, FramePopped
  <2> QED
    BY <1>10, <2>1 DEF QuitAlone
<1>11. ASSUME NEW t \in Threads, invalidatePtr(t) \/ Release(t) \/ Free(t) \/ EventDone(t) \/ TypeLoaded(t) PROVE QuitAlone'
  <2>1. ~Idle(t) /\ UNCHANGED <<gil, visits>>
    BY <1>11 DEF invalidatePtr, Release, Free, EventDone, TypeLoaded, At
  <2>2. frames' = Popped(t) \/ \E step \in {"event", "load", "children", "gil", "free"} : frames' = Advanced(t, step)
    BY <1>11 DEF invalidatePtr, Release, Free, EventDone, TypeLoaded
  <2> QED
    BY <1>9, <1>10, <2>1, <2>2
<1>12. ASSUME NEW t \in Threads, HandOver(t) \/ TakeGil(t) PROVE QuitAlone'
  <2>1. UNCHANGED <<frames, visits>>
    BY <1>12 DEF HandOver, TakeGil
  <2>2. ASSUME visits # {}, NEW u \in Threads, NEW i \in Places(u) PROVE FALSE
    <3>1. gil = u
      BY <2>2 DEF QuitAlone
    <3>2. HandOver(t) /\ u = t
      BY <1>12, <3>1, ThreadAssumption DEF HandOver, TakeGil
    <3>3. ~Idle(t)
      BY <2>2, <3>2, IdleHasNoCalls
    <3>4. Top(t).op = "wrap"
      BY <3>2, <3>3 DEF HandOver, InPython, At
    <3> QED
      BY <2>2, <3>3, <3>4, TopIsCalled DEF QuitAlone
  <2> QED
    BY <2>1, <2>2 DEF QuitAlone, Places
<1>13. ASSUME NEW t \in Threads, destroyQCoreApplication(t) PROVE QuitAlone'
  <2>1. (\A u \in Threads : Idle(u)) /\ UNCHANGED frames
    BY <1>13 DEF destroyQCoreApplication
  <2>2. \A u \in Threads : Places(u) = {}
    BY <2>1, IdleHasNoCalls
  <2> QED
    BY <2>1, <2>2 DEF QuitAlone, Places
<1> QED
  BY <1>3, <1>4, <1>5, <1>7, <1>8, <1>11, <1>12, <1>13 DEF WrapperNext

-----------------------------------------------------------------------------
(* Destructors *)

\* Calls that destroy stay as they are; what is owned anew was made by Python just now.
LEMMA DestructorsSame ==
  ASSUME WrapperTypeOK, DestructorsInv, UNCHANGED <<habits, dying>>,
         \A b \in Addresses : object[b] # "none" => object'[b] = object[b],
         "owners" \notin habits => \A b \in owning' : b \in owning \/ (object[b] = "none" /\ object'[b] = "python"),
         \A u \in Threads : \A i \in Places(u)' :
           frames'[u][i].op = "wrap" \/ (i \in Places(u) /\ frames'[u][i] = frames[u][i])
  PROVE  DestructorsInv'
<1>1. OneDestructor'
  BY DEF DestructorsInv, OneDestructor
<1>2. PythonOwns'
  BY DEF DestructorsInv, PythonOwns, WrapperTypeOK
<1>3. DestructorsSound'
  <2> SUFFICES ASSUME NEW u \in Threads, NEW i \in Places(u)', frames'[u][i].op = "destroy"
               PROVE  DestructorSound(frames[u][i])'
    BY DEF DestructorsSound, DestructorSound
  <2>1. i \in Places(u) /\ frames'[u][i] = frames[u][i] /\ DestructorSound(frames[u][i])
    BY DEF DestructorsInv, DestructorsSound
  <2>2. frames[u][i].at \in Addresses
    BY <2>1, PlaceIsFrame
  <2> QED
    BY <2>1, <2>2 DEF DestructorSound
<1> QED
  BY <1>1, <1>2, <1>3 DEF DestructorsInv

\* A destructor is called.
LEMMA DestructorCalled ==
  ASSUME WrapperTypeOK, DestructorsInv, NEW t \in Threads, NEW a \in Addresses, Alive(a), Destroyed(t, a),
         UNCHANGED <<habits, object, owning>>
  PROVE  DestructorsInv'
<1> DEFINE step == FirstStep(a)
           n == NextPlace(t)
<1>1. /\ step \in {"event", "load", "children", "gil", "free"} /\ (step # "gil" => object[a] # "python")
      /\ frames' = Pushed(t, "destroy", a, step) /\ dying' = dying \cup {a}
  BY DEF Destroyed, FirstStep
<1> HIDE DEF step
<1>2. frames \in [Threads -> Seq(Frame)] /\ object[a] # "none" /\ a \notin dying
  BY DEF WrapperTypeOK, Alive
<1>3. frames'[t][n].op = "destroy" /\ frames'[t][n].at = a /\ frames'[t][n].step = step /\ PushedAt(t, n)
  BY <1>1, <1>2, FramePushed
<1> HIDE DEF n
<1>4. \A u \in Threads : \A i \in Places(u)' : (i \in Places(u) /\ frames'[u][i] = frames[u][i]) \/ (u = t /\ i = n)
  BY <1>3 DEF PushedAt
<1>5. \A u \in Threads : \A i \in Places(u) : frames[u][i].op = "destroy" => frames[u][i].at # a
  BY <1>2 DEF DestructorsInv, DestructorsSound, DestructorSound
<1>6. OneDestructor'
  BY <1>3, <1>4, <1>5 DEF DestructorsInv, OneDestructor
<1>7. DestructorsSound'
  <2> SUFFICES ASSUME NEW u \in Threads, NEW i \in Places(u)' PROVE DestructorSound(frames[u][i])'
    BY DEF DestructorsSound
  <2>1. CASE i \in Places(u) /\ frames'[u][i] = frames[u][i]
    <3>1. DestructorSound(frames[u][i])
      BY <2>1 DEF DestructorsInv, DestructorsSound
    <3> QED
      BY <1>1, <2>1, <3>1 DEF DestructorSound
  <2>2. CASE u = t /\ i = n
    <3>1. "owners" \notin habits /\ step # "gil" => a \notin owning
      BY <1>1 DEF DestructorsInv, PythonOwns
    <3> QED
      BY <1>1, <1>2, <1>3, <2>2, <3>1 DEF DestructorSound
  <2> QED
    BY <1>4, <2>1, <2>2
<1> QED
  BY <1>6, <1>7 DEF DestructorsInv, PythonOwns

\* A destructor goes on, without the wrapper if it had to wait for the GIL.
LEMMA DestructorGoesOn ==
  ASSUME WrapperTypeOK, DestructorsInv, NEW t \in Threads, ~Idle(t), Top(t).op = "destroy",
         NEW step \in {"children", "gil", "free"}, frames' = Advanced(t, step), UNCHANGED <<habits, object, dying>>,
         owning' = owning \ {Top(t).at} \/ (owning' = owning /\ Top(t).step # "gil")
  PROVE  DestructorsInv'
<1> DEFINE n == LastPlace(t)
<1>1. frames \in [Threads -> Seq(Frame)] /\ step \in {"event", "load", "children", "gil", "free"}
  BY DEF WrapperTypeOK
<1>2. /\ \A u \in Threads : Places(u)' = Places(u)
      /\ n \in Places(t) /\ frames[t][n] = Top(t)
      /\ frames'[t][n].op = Top(t).op /\ frames'[t][n].at = Top(t).at /\ frames'[t][n].step = step
      /\ \A u \in Threads : \A i \in Places(u) : frames'[u][i] = frames[u][i] \/ (u = t /\ i = n)
  BY <1>1, FrameAdvanced
<1> HIDE DEF n
<1>3. \A u \in Threads : \A i \in Places(u) : frames'[u][i].op = frames[u][i].op /\ frames'[u][i].at = frames[u][i].at
  BY <1>2
<1>4. OneDestructor'
  BY <1>2, <1>3 DEF DestructorsInv, OneDestructor
<1>5. DestructorSound(Top(t))
  BY <1>2 DEF DestructorsInv, DestructorsSound
<1>6. DestructorsSound'
  <2> SUFFICES ASSUME NEW u \in Threads, NEW i \in Places(u) PROVE DestructorSound(frames[u][i])'
    BY <1>2 DEF DestructorsSound
  <2>1. CASE frames'[u][i] = frames[u][i]
    <3>1. DestructorSound(frames[u][i])
      BY DEF DestructorsInv, DestructorsSound
    <3> QED
      BY <2>1, <3>1 DEF DestructorSound
  <2>2. CASE u = t /\ i = n
    BY <1>2, <1>5, <2>2 DEF DestructorSound
  <2> QED
    BY <1>2, <2>1, <2>2
<1> QED
  BY <1>4, <1>6 DEF DestructorsInv, PythonOwns

LEMMA DestructorFrees ==
  ASSUME WrapperTypeOK, DestructorsInv, NEW t \in Threads, Free(t)
  PROVE  DestructorsInv'
<1>1. PICK a \in Addresses : a = Top(t).at
  BY TopIsFrame DEF Free, At
<1>2. /\ ~Idle(t) /\ Top(t).op = "destroy" /\ Top(t).step = "free" /\ frames' = Popped(t)
      /\ dying' = dying \ {a} /\ UNCHANGED <<habits, owning>>
      /\ \A b \in Addresses : b # a => object'[b] = object[b]
  BY <1>1 DEF Free, At, WrapperTypeOK
<1> DEFINE n == LastPlace(t)
<1>3. frames \in [Threads -> Seq(Frame)]
  BY DEF WrapperTypeOK
<1>4. /\ n \in Places(t) /\ frames[t][n] = Top(t) /\ n \notin Places(t)'
      /\ \A u \in Threads : \A i \in Places(u)' : i \in Places(u) /\ frames'[u][i] = frames[u][i]
  BY <1>2, <1>3, FramePopped
<1> HIDE DEF n
<1>5. OneDestructor'
  BY <1>4 DEF DestructorsInv, OneDestructor
<1>6. "owners" \notin habits => a \notin owning
  BY <1>1, <1>2, <1>4 DEF DestructorsInv, DestructorsSound, DestructorSound
<1>7. PythonOwns'
  BY <1>2, <1>6 DEF DestructorsInv, PythonOwns, WrapperTypeOK
<1>8. DestructorsSound'
  <2> SUFFICES ASSUME NEW u \in Threads, NEW i \in Places(u)', frames'[u][i].op = "destroy"
               PROVE  DestructorSound(frames[u][i])'
    BY DEF DestructorsSound, DestructorSound
  <2>1. i \in Places(u) /\ frames'[u][i] = frames[u][i] /\ DestructorSound(frames[u][i]) /\ frames[u][i].at \in Addresses
    BY <1>4, PlaceIsFrame DEF DestructorsInv, DestructorsSound
  <2>2. frames[u][i].at # a
    BY <1>1, <1>2, <1>4, <2>1 DEF DestructorsInv, OneDestructor
  <2> QED
    BY <1>2, <2>1, <2>2 DEF DestructorSound
<1> QED
  BY <1>5, <1>7, <1>8 DEF DestructorsInv

LEMMA DestructorsStep ==
  ASSUME WrapperTypeOK, DestructorsInv, WrapperNext
  PROVE  DestructorsInv'
<1>0. frames \in [Threads -> Seq(Frame)]
  BY DEF WrapperTypeOK
<1>1. ASSUME UNCHANGED <<frames, object, dying, habits>>, "owners" \notin habits => owning' \subseteq owning
      PROVE  DestructorsInv'
  BY <1>1, DestructorsSame DEF Places
<1>2. ASSUME NEW t \in Threads, NEW a \in Addresses, NEW kind \in {"cpp", "python"},
             NEW p \in Addresses \cup {NoAddress}, NewObject(t, a, kind, p)
      PROVE  DestructorsInv'
  <2>1. /\ UNCHANGED <<habits, dying, frames>> /\ object[a] = "none" /\ object'[a] = kind
        /\ \A b \in Addresses : b # a => object'[b] = object[b]
    BY <1>2 DEF NewObject, WrapperTypeOK
  <2>2. \A b \in owning' : b \in owning \/ (b = a /\ kind = "python")
    BY <1>2 DEF NewObject
  <2>3. \A u \in Threads : Places(u)' = Places(u)
    BY <2>1 DEF Places
  <2>4. \A b \in Addresses : object[b] # "none" => object'[b] = object[b]
    BY <2>1
  <2>5. \A b \in owning' : b \in owning \/ (object[b] = "none" /\ object'[b] = "python")
    BY <2>1, <2>2
  <2> QED
    BY <2>1, <2>3, <2>4, <2>5, DestructorsSame
<1>3. ASSUME NEW t \in Threads, NEW a \in Addresses,
             DropWrapper(t, a) \/ TakeOwnership(t, a) \/ \E p \in Addresses, told \in BOOLEAN : SetParent(t, a, p, told)
      PROVE  DestructorsInv'
  <2>1. UNCHANGED <<frames, object, dying, habits>> /\ ("owners" \notin habits => owning' \subseteq owning)
    BY <1>3 DEF DropWrapper, TakeOwnership, SetParent, releaseWrapper
  <2> QED
    BY <1>1, <2>1
<1>4. ASSUME NEW t \in Threads, HandOver(t) \/ TakeGil(t) \/ destroyQCoreApplication(t) PROVE DestructorsInv'
  <2>1. UNCHANGED <<frames, object, dying, habits, owning>>
    BY <1>4 DEF HandOver, TakeGil, destroyQCoreApplication
  <2> QED
    BY <1>1, <2>1
<1>5. ASSUME NEW t \in Threads, NEW a \in Addresses, Destroy(t, a) PROVE DestructorsInv'
  BY <1>5, DestructorCalled DEF Destroy
<1>6. ASSUME NEW t \in Threads, DestroyChild(t) PROVE DestructorsInv'
  BY <1>6, DestructorCalled DEF DestroyChild, Children, Alive
<1>7. ASSUME NEW t \in Threads, NEW a \in Addresses, destructionVisitor(t, a) PROVE DestructorsInv'
  <2>1. UNCHANGED <<habits, object, owning>>
    BY <1>7 DEF destructionVisitor
  <2>2. CASE UNCHANGED <<dying, frames>>
    BY <1>1, <2>1, <2>2
  <2>3. CASE Destroyed(t, a) /\ Alive(a)
    BY <2>1, <2>3, DestructorCalled
  <2> QED
    BY <1>7, <2>2, <2>3 DEF destructionVisitor, Alive
<1>8. ASSUME NEW t \in Threads, invalidatePtr(t) PROVE DestructorsInv'
  BY <1>8, DestructorGoesOn DEF invalidatePtr, At
<1>9. ASSUME NEW t \in Threads, Release(t) PROVE DestructorsInv'
  BY <1>9, DestructorGoesOn DEF Release, At, releaseWrapper
<1>10. ASSUME NEW t \in Threads, NEW a \in Addresses, getWrapperForQObject(t, a) PROVE DestructorsInv'
  <2>1. UNCHANGED <<object, dying, habits>> /\ owning' \subseteq owning
    BY <1>10 DEF getWrapperForQObject, Wrapped
  <2>2. frames' = frames \/ \E step \in {"event", "load", "children", "gil", "free"} : frames' = Pushed(t, "wrap", a, step)
    BY <1>10 DEF getWrapperForQObject
  <2>3. ASSUME NEW step \in {"event", "load", "children", "gil", "free"}, frames' = Pushed(t, "wrap", a, step)
        PROVE  DestructorsInv'
    <3>1. frames'[t][NextPlace(t)].op = "wrap" /\ PushedAt(t, NextPlace(t))
      BY <1>0, <2>3, FramePushed
    <3>2. \A u \in Threads : \A i \in Places(u)' :
            frames'[u][i].op = "wrap" \/ (i \in Places(u) /\ frames'[u][i] = frames[u][i])
      BY <3>1 DEF PushedAt
    <3> QED
      BY <2>1, <3>2, DestructorsSame
  <2> QED
    BY <1>1, <2>1, <2>2, <2>3
<1>11. ASSUME NEW t \in Threads, EventDone(t) \/ TypeLoaded(t) PROVE DestructorsInv'
  <2>1. ~Idle(t) /\ Top(t).op = "wrap" /\ UNCHANGED <<object, dying, habits>> /\ owning' \subseteq owning
    BY <1>11 DEF EventDone, TypeLoaded, At, Wrapped
  <2>2. CASE frames' = Popped(t)
    <3>1. \A u \in Threads : \A i \in Places(u)' : i \in Places(u) /\ frames'[u][i] = frames[u][i]
      BY <1>0, <2>1, <2>2, FramePopped
    <3> QED
      BY <2>1, <3>1, DestructorsSame
  <2>3. CASE frames' = Advanced(t, "load")
    <3>1. /\ \A u \in Threads : Places(u)' = Places(u)
          /\ frames'[t][LastPlace(t)].op = "wrap"
          /\ \A u \in Threads : \A i \in Places(u) : frames'[u][i] = frames[u][i] \/ (u = t /\ i = LastPlace(t))
      BY <1>0, <2>1, <2>3, FrameAdvanced
    <3>2. \A u \in Threads : \A i \in Places(u)' :
            frames'[u][i].op = "wrap" \/ (i \in Places(u) /\ frames'[u][i] = frames[u][i])
      BY <3>1
    <3> QED
      BY <2>1, <3>2, DestructorsSame
  <2> QED
    BY <1>11, <2>2, <2>3 DEF EventDone, TypeLoaded
<1> QED
  BY <1>2, <1>3, <1>4, <1>5, <1>6, <1>7, <1>8, <1>9, <1>10, <1>11, DestructorFrees DEF WrapperNext

-----------------------------------------------------------------------------
(* Programs without foreign and events *)

Tame == habits \cap {"foreign", "events"} = {}

NoWraps == \A t \in Threads : \A i \in Places(t) : frames[t][i].op # "wrap"
OneKind == \A t \in Threads : \A i, j \in Places(t) : frames[t][i].op = frames[t][j].op
WrapSound(t, f) == home[f.at] = t /\ object[f.at] # "none" /\ f.at \notin dying /\ f.at \in marked
DestroySound(t, f) ==
  /\ f.at \in dying /\ object[f.at] # "none"
  /\ home[f.at] = t \/ (gil = t /\ NoWraps)
  /\ f.step = "gil" /\ object[f.at] = "cpp" => Children(f.at) \subseteq dying
  /\ f.step = "children" /\ object[f.at] = "python" => f.at \notin mapped
  /\ f.step = "free" => f.at \notin mapped /\ Children(f.at) \subseteq dying
FrameSound(t, f) == IF f.op = "wrap" THEN WrapSound(t, f) ELSE DestroySound(t, f)
FramesSound == \A t \in Threads : \A i \in Places(t) : FrameSound(t, frames[t][i])
VisitsAlone == visits # {} => NoWraps
Families ==
  \A c \in Addresses : Alive(c) /\ parent[c] # NoAddress => object[parent[c]] # "none" /\ home[parent[c]] = home[c]
MappedSound == \A a \in mapped : object[a] # "none" /\ (object[a] = "cpp" => a \in marked)
TameInv == OneKind /\ FramesSound /\ OneDestructor /\ VisitsAlone /\ Families /\ MappedSound

\* A thread that runs Python code destroys nothing.
LEMMA PythonDestroysNothing ==
  ASSUME WrapperTypeOK, OneKind, NEW t \in Threads, Idle(t) \/ Top(t).op = "wrap"
  PROVE  \A i \in Places(t) : frames[t][i].op = "wrap"
<1>1. CASE Idle(t)
  BY <1>1, IdleHasNoCalls
<1>2. CASE ~Idle(t)
  BY <1>2, TopIsCalled DEF OneKind
<1> QED
  BY <1>1, <1>2

\* What keeps the frames keeps what is said of them alone.
LEMMA SameFrames ==
  ASSUME OneKind, OneDestructor, UNCHANGED frames
  PROVE  OneKind' /\ OneDestructor' /\ (\A t \in Threads : Places(t)' = Places(t)) /\ (NoWraps' <=> NoWraps)
BY DEF OneKind, OneDestructor, Places, NoWraps

LEMMA FramesSoundNext ==
  ASSUME ASSUME NEW u \in Threads, NEW i \in Places(u)', NEW f, f = frames'[u][i] PROVE FrameSound(u, f)'
  PROVE  FramesSound'
<1> SUFFICES ASSUME NEW u \in Threads, NEW i \in Places(u)' PROVE FrameSound(u, frames[u][i])'
  BY DEF FramesSound
<1>1. PICK f : f = frames'[u][i]
  OBVIOUS
<1>2. FrameSound(u, f)'
  BY <1>1
<1> QED
  BY <1>1, <1>2 DEF FrameSound, WrapSound, DestroySound, Children

LEMMA TameNewObject ==
  ASSUME WrapperTypeOK, TameInv, NEW t \in Threads, NEW a \in Addresses, NEW kind \in {"cpp", "python"},
         NEW p \in Addresses \cup {NoAddress}, NewObject(t, a, kind, p)
  PROVE  TameInv'
<1>1. OneKind' /\ OneDestructor' /\ (\A u \in Threads : Places(u)' = Places(u)) /\ (NoWraps' <=> NoWraps)
  BY SameFrames DEF TameInv, NewObject
<1>2. /\ object[a] = "none" /\ visits' = {}
      /\ \A b \in Addresses : b # a => object'[b] = object[b] /\ home'[b] = home[b] /\ parent'[b] = parent[b]
      /\ object'[a] = kind /\ home'[a] = t /\ parent'[a] = p
      /\ p # NoAddress => p \in Addresses /\ p # a /\ Alive(p) /\ home[p] = t
      /\ UNCHANGED <<dying, marked, gil, frames>>
  BY DEF NewObject, WrapperTypeOK, Alive
<1>3. mapped' = mapped \/ (kind = "python" /\ mapped' = mapped \cup {a})
  BY DEF NewObject
<1>4. FramesSound'
  <2> SUFFICES ASSUME NEW u \in Threads, NEW i \in Places(u)', NEW f, f = frames'[u][i] PROVE FrameSound(u, f)'
    BY FramesSoundNext
  <2>1. f \in Frame /\ f.at \in Addresses /\ i \in Places(u) /\ frames[u][i] = f /\ FrameSound(u, f)
    BY <1>1, <1>2, PlaceIsFrame DEF TameInv, FramesSound
  <2>2. object[f.at] # "none" /\ f.at # a
    BY <1>2, <2>1 DEF FrameSound, WrapSound, DestroySound
  <2>3. CASE f.op = "wrap"
    BY <1>2, <2>1, <2>2, <2>3 DEF FrameSound, WrapSound
  <2>4. CASE f.op # "wrap"
    <3>1. f.at \in dying /\ f.at # p
      <4>1. f.at \in dying
        BY <2>1, <2>4 DEF FrameSound, DestroySound
      <4> QED
        BY <1>2, <2>1, <4>1, WrapperAssumption DEF Alive
    <3>2. Children(f.at)' \subseteq Children(f.at)
      BY <1>2, <2>2, <3>1 DEF Children
    <3>3. f.at \in mapped' => f.at \in mapped
      BY <1>3, <2>2
    <3> QED
      BY <1>1, <1>2, <2>1, <2>2, <2>4, <3>1, <3>2, <3>3 DEF FrameSound, DestroySound
  <2> QED
    BY <2>1, <2>3, <2>4
<1>5. Families'
  <2> SUFFICES ASSUME NEW c \in Addresses, Alive(c)', parent'[c] # NoAddress
               PROVE  object'[parent'[c]] # "none" /\ home'[parent'[c]] = home'[c]
    BY DEF Families
  <2>1. CASE c = a
    BY <1>2, <2>1 DEF Alive
  <2>2. CASE c # a
    <3>1. Alive(c) /\ parent'[c] = parent[c] /\ parent[c] \in Addresses
      BY <1>2, <2>2 DEF Alive, WrapperTypeOK
    <3>2. object[parent[c]] # "none" /\ home[parent[c]] = home[c]
      BY <3>1 DEF TameInv, Families
    <3> QED
      BY <1>2, <2>2, <3>1, <3>2
  <2> QED
    BY <2>1, <2>2
<1>6. MappedSound'
  <2> SUFFICES ASSUME NEW b \in mapped'
               PROVE  object'[b] # "none" /\ (object'[b] = "cpp" => b \in marked')
    BY DEF MappedSound
  <2>1. CASE b = a
    <3>1. a \notin mapped
      BY <1>2 DEF MappedSound, TameInv
    <3> QED
      BY <1>2, <1>3, <2>1, <3>1
  <2>2. CASE b # a
    <3>1. b \in mapped /\ b \in Addresses
      BY <1>3, <2>2 DEF WrapperTypeOK
    <3> QED
      BY <1>2, <2>2, <3>1 DEF MappedSound, TameInv
  <2> QED
    BY <2>1, <2>2
<1> QED
  BY <1>1, <1>2, <1>4, <1>5, <1>6 DEF TameInv, VisitsAlone

\* A wrapper may be dropped at any time.
LEMMA TameReleased ==
  ASSUME WrapperTypeOK, TameInv, mapped' \subseteq mapped,
         UNCHANGED <<object, dying, home, parent, marked, gil, frames, visits>>
  PROVE  TameInv'
<1>1. OneKind' /\ OneDestructor' /\ (\A u \in Threads : Places(u)' = Places(u)) /\ (NoWraps' <=> NoWraps)
  BY SameFrames DEF TameInv
<1>2. FramesSound'
  BY <1>1 DEF FramesSound, FrameSound, WrapSound, DestroySound, Children, TameInv
<1> QED
  BY <1>1, <1>2 DEF TameInv, VisitsAlone, Families, MappedSound, Alive

LEMMA TameSetParent ==
  ASSUME WrapperTypeOK, TameInv, NEW t \in Threads, NEW a \in Addresses, NEW p \in Addresses, NEW told \in BOOLEAN,
         SetParent(t, a, p, told)
  PROVE  TameInv'
<1>1. /\ Alive(p) /\ home[a] = t /\ home[p] = t /\ parent[a] = NoAddress
      /\ parent'[a] = p /\ \A b \in Addresses : b # a => parent'[b] = parent[b]
      /\ UNCHANGED <<object, dying, home, marked, mapped, gil, frames, visits>>
  BY DEF SetParent, WrapperTypeOK
<1>2. OneKind' /\ OneDestructor' /\ (\A u \in Threads : Places(u)' = Places(u)) /\ (NoWraps' <=> NoWraps)
  BY <1>1, SameFrames DEF TameInv
<1>3. FramesSound'
  <2> SUFFICES ASSUME NEW u \in Threads, NEW i \in Places(u)', NEW f, f = frames'[u][i] PROVE FrameSound(u, f)'
    BY FramesSoundNext
  <2>1. f.at \in Addresses /\ i \in Places(u) /\ frames[u][i] = f /\ FrameSound(u, f)
    BY <1>1, <1>2, PlaceIsFrame DEF TameInv, FramesSound
  <2>2. CASE f.op = "wrap"
    BY <1>1, <2>1, <2>2 DEF FrameSound, WrapSound
  <2>3. CASE f.op # "wrap"
    <3>1. f.at # p
      BY <1>1, <2>1, <2>3 DEF FrameSound, DestroySound, Alive
    <3>2. Children(f.at)' \subseteq Children(f.at)
      BY <1>1, <3>1 DEF Children
    <3> QED
      BY <1>1, <1>2, <2>1, <2>3, <3>2 DEF FrameSound, DestroySound
  <2> QED
    BY <2>2, <2>3
<1>4. Families'
  BY <1>1 DEF TameInv, Families, Alive
<1> QED
  BY <1>1, <1>2, <1>3, <1>4 DEF TameInv, VisitsAlone, MappedSound

\* A destructor is called where no wrapper of the QObject is being made.
LEMMA TameDestroyed ==
  ASSUME WrapperTypeOK, TameInv, NEW t \in Threads, NEW a \in Addresses, Alive(a), Destroyed(t, a),
         \A i \in Places(t) : frames[t][i].op = "destroy",
         home[a] = t \/ (gil = t /\ NoWraps),
         visits' \subseteq visits, UNCHANGED <<object, home, parent, marked, mapped, gil>>
  PROVE  TameInv'
<1> DEFINE step == FirstStep(a)
           n == NextPlace(t)
<1>1. /\ step \in {"event", "load", "children", "gil", "free"}
      /\ step \in {"gil", "children"} /\ (step = "gil" <=> object[a] = "python")
  BY DEF FirstStep
<1>2. frames' = Pushed(t, "destroy", a, step) /\ dying' = dying \cup {a}
  BY DEF Destroyed
<1> HIDE DEF step
<1>3. frames \in [Threads -> Seq(Frame)]
  BY DEF WrapperTypeOK
<1>4. /\ \A u \in Threads : \A i \in Places(u) : i \in Places(u)' /\ frames'[u][i] = frames[u][i]
      /\ n \in Places(t)' /\ n \notin Places(t) /\ PushedAt(t, n)
      /\ frames'[t][n].op = "destroy" /\ frames'[t][n].at = a /\ frames'[t][n].step = step
  BY <1>1, <1>2, <1>3, FramePushed
<1> HIDE DEF n
<1>5. \A u \in Threads : \A i \in Places(u)' :
        \/ i \in Places(u) /\ frames'[u][i] = frames[u][i]
        \/ u = t /\ i = n
  BY <1>4 DEF PushedAt
<1>6. NoWraps => NoWraps'
  BY <1>4, <1>5 DEF NoWraps
<1>7. OneKind'
  BY <1>4, <1>5 DEF OneKind, TameInv
<1>8. object[a] # "none" /\ a \notin dying
  BY DEF Alive
<1>9. \A u \in Threads : \A i \in Places(u) :
        frames[u][i].at # a /\ frames[u][i].op \in {"wrap", "destroy"} /\ FrameSound(u, frames[u][i])
  <2> SUFFICES ASSUME NEW u \in Threads, NEW i \in Places(u), frames[u][i].at = a PROVE FALSE
    BY PlaceIsFrame DEF TameInv, FramesSound
  <2>1. FrameSound(u, frames[u][i])
    BY DEF TameInv, FramesSound
  <2>2. frames[u][i].op = "wrap" /\ home[a] = u
    BY <1>8, <2>1 DEF FrameSound, DestroySound, WrapSound
  <2> QED
    BY <2>2 DEF NoWraps
<1>10. OneDestructor'
  BY <1>4, <1>5, <1>9 DEF OneDestructor, TameInv
<1>11. FramesSound'
  <2> SUFFICES ASSUME NEW u \in Threads, NEW i \in Places(u)', NEW f, f = frames'[u][i] PROVE FrameSound(u, f)'
    BY FramesSoundNext
  <2>1. CASE i \in Places(u) /\ frames'[u][i] = frames[u][i]
    <3>1. f.at # a /\ FrameSound(u, f)
      BY <1>9, <2>1
    <3>2. CASE f.op = "wrap"
      BY <1>2, <3>1, <3>2 DEF FrameSound, WrapSound
    <3>3. CASE f.op # "wrap"
      <4>1. Children(f.at)' = Children(f.at)
        BY DEF Children
      <4> QED
        BY <1>2, <1>6, <3>1, <3>3, <4>1 DEF FrameSound, DestroySound
    <3> QED
      BY <3>1, <3>2, <3>3
  <2>2. CASE u = t /\ i = n
    <3>1. f.op = "destroy" /\ f.at = a /\ f.step = step
      BY <1>4, <2>2
    <3>2. DestroySound(t, f)'
      BY <1>1, <1>2, <1>6, <1>8, <3>1 DEF DestroySound
    <3> QED
      BY <2>2, <3>1, <3>2 DEF FrameSound
  <2> QED
    BY <1>5, <2>1, <2>2
<1>12. Families' /\ MappedSound' /\ VisitsAlone'
  BY <1>2, <1>6 DEF Families, MappedSound, VisitsAlone, Alive, TameInv
<1> QED
  BY <1>7, <1>10, <1>11, <1>12 DEF TameInv

LEMMA TameDestroy ==
  ASSUME WrapperTypeOK, TameInv, Tame, NEW t \in Threads, NEW a \in Addresses, Destroy(t, a)
  PROVE  TameInv'
<1>1. Idle(t) /\ Alive(a) /\ home[a] = t /\ Destroyed(t, a)
  BY DEF Destroy, Tame
<1>2. \A i \in Places(t) : frames[t][i].op = "destroy"
  BY <1>1, IdleHasNoCalls
<1>3. visits' \subseteq visits /\ UNCHANGED <<object, home, parent, marked, mapped, gil>>
  BY DEF Destroy
<1> QED
  BY <1>1, <1>2, <1>3, TameDestroyed

LEMMA TameDestroyChild ==
  ASSUME WrapperTypeOK, TameInv, NEW t \in Threads, DestroyChild(t)
  PROVE  TameInv'
<1>1. ~Idle(t) /\ Top(t).op = "destroy"
  BY DEF DestroyChild, At
<1>2. LastPlace(t) \in Places(t) /\ frames[t][LastPlace(t)] = Top(t) /\ Top(t).at \in Addresses
  BY <1>1, TopIsCalled, TopIsFrame
<1>3. PICK c \in Children(Top(t).at) \ dying : Destroyed(t, c)
  BY DEF DestroyChild
<1>4. c \in Addresses /\ Alive(c) /\ parent[c] = Top(t).at
  BY <1>3 DEF Children, Alive
<1>5. DestroySound(t, Top(t))
  BY <1>1, <1>2 DEF TameInv, FramesSound, FrameSound
<1>6. home[c] = home[Top(t).at]
  BY <1>2, <1>4, WrapperAssumption DEF TameInv, Families
<1>7. home[c] = t \/ (gil = t /\ NoWraps)
  BY <1>5, <1>6 DEF DestroySound
<1>8. \A i \in Places(t) : frames[t][i].op = "destroy"
  BY <1>1, <1>2 DEF TameInv, OneKind
<1>9. visits' \subseteq visits /\ UNCHANGED <<object, home, parent, marked, mapped, gil>>
  BY DEF DestroyChild
<1> QED
  BY <1>3, <1>4, <1>7, <1>8, <1>9, TameDestroyed

LEMMA TameVisitor ==
  ASSUME WrapperTypeOK, TameInv, NEW t \in Threads, NEW a \in Addresses, destructionVisitor(t, a)
  PROVE  TameInv'
<1>1. Idle(t) /\ gil = t /\ a \in visits
  BY DEF destructionVisitor, InPython
<1>2. NoWraps
  BY <1>1 DEF TameInv, VisitsAlone
<1>3. visits' \subseteq visits /\ UNCHANGED <<object, home, parent, marked, mapped, gil>>
  BY DEF destructionVisitor
<1>4. CASE Destroyed(t, a) /\ Alive(a)
  <2>1. \A i \in Places(t) : frames[t][i].op = "destroy"
    BY <1>1, IdleHasNoCalls
  <2> QED
    BY <1>1, <1>2, <1>3, <1>4, <2>1, TameDestroyed
<1>5. CASE UNCHANGED <<dying, frames>>
  <2>1. OneKind' /\ OneDestructor' /\ (\A u \in Threads : Places(u)' = Places(u)) /\ (NoWraps' <=> NoWraps)
    BY <1>5, SameFrames DEF TameInv
  <2>2. FramesSound'
    BY <1>3, <1>5, <2>1 DEF FramesSound, FrameSound, WrapSound, DestroySound, Children, TameInv
  <2> QED
    BY <1>2, <1>3, <1>5, <2>1, <2>2 DEF TameInv, VisitsAlone, Families, MappedSound, Alive
<1> QED
  BY <1>4, <1>5 DEF destructionVisitor, Alive

\* A call that goes on is the same call.
LEMMA SameOps ==
  ASSUME WrapperTypeOK, NEW t \in Threads, ~Idle(t), NEW step \in {"event", "load", "children", "gil", "free"},
         frames' = Advanced(t, step)
  PROVE  NoWraps' <=> NoWraps
<1>1. frames \in [Threads -> Seq(Frame)]
  BY DEF WrapperTypeOK
<1>2. /\ \A u \in Threads : Places(u)' = Places(u)
      /\ LastPlace(t) \in Places(t) /\ frames[t][LastPlace(t)] = Top(t)
      /\ frames'[t][LastPlace(t)].op = Top(t).op
      /\ \A u \in Threads : \A i \in Places(u) : frames'[u][i] = frames[u][i] \/ (u = t /\ i = LastPlace(t))
  BY <1>1, FrameAdvanced
<1> QED
  BY <1>2 DEF NoWraps

\* A destructor goes on.
LEMMA TameAdvanced ==
  ASSUME WrapperTypeOK, TameInv, NEW t \in Threads, ~Idle(t), NEW step \in {"event", "load", "children", "gil", "free"},
         frames' = Advanced(t, step),
         ASSUME NEW f, f.op = Top(t).op, f.at = Top(t).at, f.step = step, FrameSound(t, Top(t)) PROVE FrameSound(t, f)',
         mapped' \subseteq mapped \/ (\E a \in Addresses \ dying : mapped' = mapped \cup {a}), MappedSound',
         UNCHANGED <<object, dying, home, parent, marked, gil, visits>>
  PROVE  TameInv'
<1> DEFINE n == LastPlace(t)
<1>1. frames \in [Threads -> Seq(Frame)]
  BY DEF WrapperTypeOK
<1>2. /\ \A u \in Threads : Places(u)' = Places(u)
      /\ n \in Places(t) /\ frames[t][n] = Top(t)
      /\ frames'[t][n].op = Top(t).op /\ frames'[t][n].at = Top(t).at
      /\ frames'[t][n].step = step
      /\ \A u \in Threads : \A i \in Places(u) : frames'[u][i] = frames[u][i] \/ (u = t /\ i = n)
  BY <1>1, FrameAdvanced
<1> HIDE DEF n
<1>3. \A u \in Threads : \A i \in Places(u) :
        frames'[u][i].op = frames[u][i].op /\ frames'[u][i].at = frames[u][i].at
  BY <1>2
<1>4. (NoWraps' <=> NoWraps) /\ OneKind' /\ OneDestructor'
  BY <1>2, <1>3 DEF NoWraps, OneKind, OneDestructor, TameInv
<1>5. FramesSound'
  <2> SUFFICES ASSUME NEW u \in Threads, NEW i \in Places(u)', NEW f, f = frames'[u][i] PROVE FrameSound(u, f)'
    BY FramesSoundNext
  <2>0. i \in Places(u) /\ FrameSound(u, frames[u][i])
    BY <1>2 DEF TameInv, FramesSound
  <2>1. CASE u = t /\ i = n
    BY <1>2, <2>0, <2>1
  <2>2. CASE f = frames[u][i]
    <3>1. FrameSound(u, f)
      BY <2>0, <2>2
    <3>2. f.at \in dying => (f.at \in mapped' => f.at \in mapped)
      OBVIOUS
    <3>3. CASE f.op = "wrap"
      BY <3>1, <3>3 DEF FrameSound, WrapSound
    <3>4. CASE f.op # "wrap"
      BY <1>4, <3>1, <3>2, <3>4 DEF FrameSound, DestroySound, Children
    <3> QED
      BY <3>3, <3>4
  <2> QED
    BY <1>2, <2>0, <2>1, <2>2
<1> QED
  BY <1>4, <1>5 DEF TameInv, VisitsAlone, Families, Alive

LEMMA TopIsSound ==
  ASSUME WrapperTypeOK, TameInv, NEW t \in Threads, ~Idle(t)
  PROVE  FrameSound(t, Top(t)) /\ Top(t).at \in Addresses
BY TopIsCalled, TopIsFrame DEF TameInv, FramesSound

LEMMA TameInvalidatePtr ==
  ASSUME WrapperTypeOK, TameInv, NEW t \in Threads, invalidatePtr(t)
  PROVE  TameInv'
<1> DEFINE a == Top(t).at
           step == IF NeedsInvalidation(a) THEN "gil" ELSE "free"
<1>1. /\ ~Idle(t) /\ Top(t).op = "destroy" /\ Top(t).step = "children" /\ Children(a) \subseteq dying
      /\ frames' = Advanced(t, step)
      /\ UNCHANGED <<object, dying, home, parent, marked, mapped, gil, visits>>
  BY DEF invalidatePtr, At
<1>2. DestroySound(t, Top(t)) /\ a \in Addresses
  BY <1>1, TopIsSound DEF FrameSound
<1>3. ~NeedsInvalidation(a) => a \notin mapped
  BY <1>1, <1>2 DEF NeedsInvalidation, DestroySound, TameInv, MappedSound, WrapperTypeOK
<1>4. step \in {"event", "load", "children", "gil", "free"} /\ step # "children" /\ (step = "free" => a \notin mapped)
  BY <1>3
<1> HIDE DEF step
<1>5. ASSUME NEW f, f.op = Top(t).op, f.at = Top(t).at, f.step = step PROVE FrameSound(t, f)'
  <2>1. f.at = a /\ f.op # "wrap"
    BY <1>1, <1>5
  <2>2. NoWraps => NoWraps'
    BY <1>1, <1>4, SameOps
  <2>3. DestroySound(t, f)'
    BY <1>1, <1>2, <1>4, <1>5, <2>1, <2>2 DEF DestroySound, Children
  <2> QED
    BY <2>1, <2>3 DEF FrameSound
<1>6. MappedSound'
  BY <1>1 DEF MappedSound, TameInv
<1> QED
  BY <1>1, <1>4, <1>5, <1>6, TameAdvanced

LEMMA TameRelease ==
  ASSUME WrapperTypeOK, TameInv, NEW t \in Threads, Release(t)
  PROVE  TameInv'
<1> DEFINE a == Top(t).at
           step == IF object[a] = "python" THEN "children" ELSE "free"
<1>1. /\ ~Idle(t) /\ Top(t).op = "destroy" /\ Top(t).step = "gil" /\ mapped' = mapped \ {a}
      /\ frames' = Advanced(t, step)
      /\ UNCHANGED <<object, dying, home, parent, marked, gil, visits>>
  BY DEF Release, At, releaseWrapper
<1>2. DestroySound(t, Top(t)) /\ a \in Addresses
  BY <1>1, TopIsSound DEF FrameSound
<1>3. object[a] # "python" => Children(a) \subseteq dying
  BY <1>1, <1>2 DEF DestroySound, WrapperTypeOK
<1>4. /\ step \in {"event", "load", "children", "gil", "free"} /\ step # "gil"
      /\ step = "free" => Children(a) \subseteq dying
  BY <1>3
<1> HIDE DEF step
<1>5. ASSUME NEW f, f.op = Top(t).op, f.at = Top(t).at, f.step = step PROVE FrameSound(t, f)'
  <2>1. f.at = a /\ f.op # "wrap" /\ a \notin mapped'
    BY <1>1, <1>5
  <2>2. NoWraps => NoWraps'
    BY <1>1, <1>4, SameOps
  <2>3. DestroySound(t, f)'
    BY <1>1, <1>2, <1>4, <1>5, <2>1, <2>2 DEF DestroySound, Children
  <2> QED
    BY <2>1, <2>3 DEF FrameSound
<1>6. MappedSound'
  BY <1>1 DEF MappedSound, TameInv
<1> QED
  BY <1>1, <1>4, <1>5, <1>6, TameAdvanced

LEMMA TameFree ==
  ASSUME WrapperTypeOK, TameInv, NEW t \in Threads, Free(t)
  PROVE  TameInv'
<1> DEFINE a == Top(t).at
           n == LastPlace(t)
<1>1. /\ ~Idle(t) /\ Top(t).op = "destroy" /\ Top(t).step = "free"
      /\ frames' = Popped(t) /\ dying' = dying \ {a} /\ marked' = marked \ {a}
      /\ UNCHANGED <<home, mapped, gil, visits>>
  BY DEF Free, At
<1>2. DestroySound(t, Top(t)) /\ a \in Addresses
  BY <1>1, TopIsSound DEF FrameSound
<1>3. /\ object'[a] = "none" /\ parent'[a] = NoAddress
      /\ \A b \in Addresses : b # a => object'[b] = object[b] /\ parent'[b] = parent[b]
  BY <1>2 DEF Free, WrapperTypeOK
<1>4. frames \in [Threads -> Seq(Frame)]
  BY DEF WrapperTypeOK
<1>5. /\ n \in Places(t) /\ frames[t][n] = Top(t) /\ n \notin Places(t)'
      /\ \A u \in Threads : \A i \in Places(u)' : i \in Places(u) /\ frames'[u][i] = frames[u][i]
  BY <1>1, <1>4, FramePopped
<1> HIDE DEF n
<1>6. (NoWraps => NoWraps') /\ OneKind' /\ OneDestructor'
  BY <1>5 DEF NoWraps, OneKind, OneDestructor, TameInv
<1>7. a \notin mapped /\ Children(a) \subseteq dying /\ a \in dying
  BY <1>1, <1>2 DEF DestroySound
<1>8. FramesSound'
  <2> SUFFICES ASSUME NEW u \in Threads, NEW i \in Places(u)', NEW f, f = frames'[u][i] PROVE FrameSound(u, f)'
    BY FramesSoundNext
  <2>1. i \in Places(u) /\ f = frames[u][i] /\ FrameSound(u, f) /\ (u # t \/ i # n) /\ f.at \in Addresses
    BY <1>5, PlaceIsFrame DEF TameInv, FramesSound
  <2>2. f.op \in {"wrap", "destroy"}
    BY <2>1, PlaceIsFrame
  <2>3. CASE f.op = "wrap"
    <3>1. f.at # a
      BY <1>7, <2>1, <2>3 DEF FrameSound, WrapSound
    <3> QED
      BY <1>1, <1>3, <2>1, <2>3, <3>1 DEF FrameSound, WrapSound
  <2>4. CASE f.op = "destroy"
    <3>1. f.at # a
      BY <1>1, <1>5, <2>1, <2>4 DEF TameInv, OneDestructor
    <3>2. f.at # NoAddress
      BY <2>1, WrapperAssumption
    <3>3. Children(f.at)' \subseteq Children(f.at) \ {a}
      BY <1>3, <3>1, <3>2 DEF Children
    <3>4. Children(f.at) \subseteq dying => Children(f.at)' \subseteq dying'
      BY <1>1, <3>3
    <3> QED
      BY <1>1, <1>3, <1>6, <2>1, <2>4, <3>1, <3>4 DEF FrameSound, DestroySound
  <2> QED
    BY <2>2, <2>3, <2>4
<1>9. Families'
  <2> SUFFICES ASSUME NEW c \in Addresses, Alive(c)', parent'[c] # NoAddress
               PROVE  object'[parent'[c]] # "none" /\ home'[parent'[c]] = home'[c]
    BY DEF Families
  <2>1. c # a
    BY <1>3
  <2>2. Alive(c) /\ parent'[c] = parent[c] /\ parent[c] \in Addresses
    BY <1>1, <1>3, <2>1 DEF Alive, WrapperTypeOK
  <2>3. parent[c] # a
    BY <1>7, <2>2 DEF Alive, Children
  <2>4. object[parent[c]] # "none" /\ home[parent[c]] = home[c]
    BY <2>2 DEF TameInv, Families
  <2> QED
    BY <1>1, <1>3, <2>2, <2>3, <2>4
<1>10. MappedSound'
  BY <1>1, <1>3, <1>7 DEF MappedSound, TameInv, WrapperTypeOK
<1> QED
  BY <1>1, <1>6, <1>8, <1>9, <1>10 DEF TameInv, VisitsAlone

\* Where Python code may run, QObjects are destroyed in their own threads.
LEMMA DestroyedAtHome ==
  ASSUME WrapperTypeOK, TameInv,
         gil = NoThread \/ \E t \in Threads : gil = t /\ (Idle(t) \/ Top(t).op = "wrap")
  PROVE  \A u \in Threads : \A i \in Places(u) : frames[u][i].op = "destroy" => home[frames[u][i].at] = u
<1> SUFFICES ASSUME NEW u \in Threads, NEW i \in Places(u), frames[u][i].op = "destroy", gil = u PROVE FALSE
  BY DEF TameInv, FramesSound, FrameSound, DestroySound
<1>1. gil # NoThread
  BY ThreadAssumption
<1>2. Idle(u) \/ Top(u).op = "wrap"
  BY <1>1
<1> QED
  BY <1>2, PythonDestroysNothing DEF TameInv

LEMMA TameGil ==
  ASSUME WrapperTypeOK, TameInv, NEW t \in Threads, HandOver(t) \/ TakeGil(t)
  PROVE  TameInv'
<1>1. gil = NoThread \/ \E u \in Threads : gil = u /\ (Idle(u) \/ Top(u).op = "wrap")
  BY DEF HandOver, TakeGil, InPython, At
<1>2. UNCHANGED <<object, dying, home, parent, marked, mapped, frames, visits>>
  BY DEF HandOver, TakeGil
<1>3. OneKind' /\ OneDestructor' /\ (\A u \in Threads : Places(u)' = Places(u)) /\ (NoWraps' <=> NoWraps)
  BY <1>2, SameFrames DEF TameInv
<1>4. \A u \in Threads : \A i \in Places(u) : frames[u][i].op = "destroy" => home[frames[u][i].at] = u
  BY <1>1, DestroyedAtHome
<1>5. FramesSound'
  <2> SUFFICES ASSUME NEW u \in Threads, NEW i \in Places(u)', NEW f, f = frames'[u][i] PROVE FrameSound(u, f)'
    BY FramesSoundNext
  <2>1. i \in Places(u) /\ f = frames[u][i] /\ FrameSound(u, f) /\ f.op \in {"wrap", "destroy"}
    BY <1>2, <1>3, PlaceIsFrame DEF TameInv, FramesSound
  <2>2. CASE f.op = "wrap"
    BY <1>2, <2>1, <2>2 DEF FrameSound, WrapSound
  <2>3. CASE f.op = "destroy"
    BY <1>2, <1>4, <2>1, <2>3 DEF FrameSound, DestroySound, Children
  <2> QED
    BY <2>1, <2>2, <2>3
<1> QED
  BY <1>2, <1>3, <1>5 DEF TameInv, VisitsAlone, Families, MappedSound, Alive

LEMMA TameQuit ==
  ASSUME WrapperTypeOK, TameInv, NEW t \in Threads, destroyQCoreApplication(t)
  PROVE  TameInv'
<1>1. (\A u \in Threads : Idle(u)) /\ UNCHANGED <<object, dying, home, parent, marked, mapped, gil, frames>>
  BY DEF destroyQCoreApplication
<1>2. OneKind' /\ OneDestructor' /\ (\A u \in Threads : Places(u)' = Places(u)) /\ (NoWraps' <=> NoWraps)
  BY <1>1, SameFrames DEF TameInv
<1>3. NoWraps
  BY <1>1, IdleHasNoCalls DEF NoWraps
<1>4. FramesSound'
  BY <1>1, <1>2, IdleHasNoCalls DEF FramesSound
<1> QED
  BY <1>1, <1>2, <1>3, <1>4 DEF TameInv, VisitsAlone, Families, MappedSound, Alive

LEMMA TameWrapped ==
  ASSUME WrapperTypeOK, TameInv, NEW t \in Threads, ~Idle(t), Top(t).op = "wrap", frames' = Popped(t),
         mapped' = mapped \/ mapped' = mapped \cup {Top(t).at},
         UNCHANGED <<object, dying, home, parent, marked, gil, visits>>
  PROVE  TameInv'
<1>1. frames \in [Threads -> Seq(Frame)]
  BY DEF WrapperTypeOK
<1>2. \A u \in Threads : \A i \in Places(u)' : i \in Places(u) /\ frames'[u][i] = frames[u][i]
  BY <1>1, FramePopped
<1>3. (NoWraps => NoWraps') /\ OneKind' /\ OneDestructor'
  BY <1>2 DEF NoWraps, OneKind, OneDestructor, TameInv
<1>4. WrapSound(t, Top(t)) /\ Top(t).at \in Addresses
  BY TopIsSound DEF FrameSound
<1>5. FramesSound'
  <2> SUFFICES ASSUME NEW u \in Threads, NEW i \in Places(u)', NEW f, f = frames'[u][i] PROVE FrameSound(u, f)'
    BY FramesSoundNext
  <2>1. FrameSound(u, f)
    BY <1>2 DEF TameInv, FramesSound
  <2>2. f.at \in dying => (f.at \in mapped' => f.at \in mapped)
    BY <1>4 DEF WrapSound
  <2>3. CASE f.op = "wrap"
    BY <2>1, <2>3 DEF FrameSound, WrapSound
  <2>4. CASE f.op # "wrap"
    BY <1>3, <2>1, <2>2, <2>4 DEF FrameSound, DestroySound, Children
  <2> QED
    BY <2>3, <2>4
<1>6. MappedSound'
  BY <1>4 DEF MappedSound, TameInv, WrapSound
<1> QED
  BY <1>3, <1>5, <1>6 DEF TameInv, VisitsAlone, Families, Alive

LEMMA TameEventDone ==
  ASSUME WrapperTypeOK, TameInv, NEW t \in Threads, EventDone(t)
  PROVE  TameInv'
<1>1. /\ ~Idle(t) /\ Top(t).op = "wrap"
      /\ UNCHANGED <<object, dying, home, parent, marked, gil, visits>>
  BY DEF EventDone, At
<1>2. CASE frames' = Popped(t) /\ (mapped' = mapped \/ mapped' = mapped \cup {Top(t).at})
  BY <1>1, <1>2, TameWrapped
<1>3. CASE frames' = Advanced(t, "load") /\ mapped' = mapped
  <2>1. ASSUME NEW f, f.op = Top(t).op, f.at = Top(t).at, f.step = "load" PROVE FrameSound(t, f)'
    <3>1. WrapSound(t, Top(t))
      BY <1>1, TopIsSound DEF FrameSound
    <3> QED
      BY <1>1, <2>1, <3>1 DEF FrameSound, WrapSound
  <2>2. MappedSound'
    BY <1>1, <1>3 DEF MappedSound, TameInv
  <2> QED
    BY <1>1, <1>3, <2>1, <2>2, TameAdvanced
<1> QED
  BY <1>2, <1>3 DEF EventDone, Wrapped

LEMMA TameTypeLoaded ==
  ASSUME WrapperTypeOK, TameInv, NEW t \in Threads, TypeLoaded(t)
  PROVE  TameInv'
BY TameWrapped DEF TypeLoaded, At, Wrapped

LEMMA TameGetWrapper ==
  ASSUME WrapperTypeOK, TameInv, Tame, NEW t \in Threads, NEW a \in Addresses, getWrapperForQObject(t, a)
  PROVE  TameInv'
<1>1. /\ gil = t /\ (Idle(t) \/ Top(t).op = "wrap")
      /\ object[a] # "none" /\ a \notin dying /\ home[a] = t /\ visits = {}
      /\ UNCHANGED <<object, dying, home, parent, gil, visits>>
  BY DEF getWrapperForQObject, InPython, At, Tame
<1>2. \A u \in Threads : \A i \in Places(u) : frames[u][i].op = "destroy" => home[frames[u][i].at] = u
  BY <1>1, DestroyedAtHome
<1>3. CASE UNCHANGED <<frames, marked>> /\ mapped' = mapped \cup {a} /\ a \in marked
  <2>1. OneKind' /\ OneDestructor' /\ (\A u \in Threads : Places(u)' = Places(u)) /\ (NoWraps' <=> NoWraps)
    BY <1>3, SameFrames DEF TameInv
  <2>2. FramesSound'
    <3> SUFFICES ASSUME NEW u \in Threads, NEW i \in Places(u)', NEW f, f = frames'[u][i] PROVE FrameSound(u, f)'
      BY FramesSoundNext
    <3>1. FrameSound(u, f)
      BY <1>3, <2>1 DEF TameInv, FramesSound
    <3>2. f.at \in dying => (f.at \in mapped' => f.at \in mapped)
      BY <1>1, <1>3
    <3>3. CASE f.op = "wrap"
      BY <1>1, <1>3, <3>1, <3>3 DEF FrameSound, WrapSound
    <3>4. CASE f.op # "wrap"
      BY <1>1, <1>3, <2>1, <3>1, <3>2, <3>4 DEF FrameSound, DestroySound, Children
    <3> QED
      BY <3>3, <3>4
  <2>3. MappedSound'
    BY <1>1, <1>3 DEF MappedSound, TameInv
  <2> QED
    BY <1>1, <2>1, <2>2, <2>3 DEF TameInv, VisitsAlone, Families, Alive
<1>4. ASSUME NEW step \in {"event", "load"}, frames' = Pushed(t, "wrap", a, step), mapped' = mapped,
             marked' = marked \cup {a}
      PROVE  TameInv'
  <2> DEFINE n == NextPlace(t)
  <2>1. frames \in [Threads -> Seq(Frame)] /\ step \in {"event", "load", "children", "gil", "free"}
    BY DEF WrapperTypeOK
  <2>2. /\ \A u \in Threads : \A i \in Places(u) : i \in Places(u)' /\ frames'[u][i] = frames[u][i]
        /\ n \in Places(t)' /\ n \notin Places(t) /\ PushedAt(t, n)
        /\ frames'[t][n].op = "wrap" /\ frames'[t][n].at = a
    BY <1>4, <2>1, FramePushed
  <2> HIDE DEF n
  <2>3. \A u \in Threads : \A i \in Places(u)' :
          \/ i \in Places(u) /\ frames'[u][i] = frames[u][i]
          \/ u = t /\ i = n
    BY <2>2 DEF PushedAt
  <2>4. \A i \in Places(t) : frames[t][i].op = "wrap"
    BY <1>1, PythonDestroysNothing DEF TameInv
  <2>5. OneKind' /\ OneDestructor'
    BY <2>2, <2>3, <2>4 DEF OneKind, OneDestructor, TameInv
  <2>6. FramesSound'
    <3> SUFFICES ASSUME NEW u \in Threads, NEW i \in Places(u)', NEW f, f = frames'[u][i] PROVE FrameSound(u, f)'
      BY FramesSoundNext
    <3>1. CASE u = t /\ i = n
      BY <1>1, <1>4, <2>2, <3>1 DEF FrameSound, WrapSound
    <3>2. CASE i \in Places(u) /\ f = frames[u][i]
      <4>1. FrameSound(u, f) /\ f.op \in {"wrap", "destroy"}
        BY <3>2, PlaceIsFrame DEF TameInv, FramesSound
      <4>2. CASE f.op = "wrap"
        BY <1>1, <1>4, <4>1, <4>2 DEF FrameSound, WrapSound
      <4>3. CASE f.op = "destroy"
        BY <1>1, <1>2, <1>4, <3>2, <4>1, <4>3 DEF FrameSound, DestroySound, Children
      <4> QED
        BY <4>1, <4>2, <4>3
    <3> QED
      BY <2>3, <3>1, <3>2
  <2>7. MappedSound'
    BY <1>1, <1>4 DEF MappedSound, TameInv
  <2> QED
    BY <1>1, <2>5, <2>6, <2>7 DEF TameInv, VisitsAlone, Families, Alive
<1>5. \/ UNCHANGED <<frames, marked>> /\ mapped' = mapped \cup {a} /\ a \in marked
      \/ mapped' = mapped /\ marked' = marked \cup {a} /\ frames' = Pushed(t, "wrap", a, "event")
      \/ mapped' = mapped /\ marked' = marked \cup {a} /\ frames' = Pushed(t, "wrap", a, "load")
  <2>1. CASE SetsProperty(t, a)
    BY <2>1 DEF getWrapperForQObject
  <2>2. CASE ~SetsProperty(t, a)
    <3>1. a \in marked /\ marked \cup {a} = marked
      BY <1>1, <2>2 DEF SetsProperty
    <3>2. marked' = marked
      BY <2>2 DEF getWrapperForQObject
    <3>3. CASE "lazy" \in habits
      BY <2>2, <3>1, <3>2, <3>3 DEF getWrapperForQObject
    <3>4. CASE "lazy" \notin habits
      BY <2>2, <3>1, <3>2, <3>4 DEF getWrapperForQObject, Wrapped
    <3> QED
      BY <3>3, <3>4
  <2> QED
    BY <2>1, <2>2
<1> QED
  BY <1>3, <1>4, <1>5

LEMMA TameStep ==
  ASSUME WrapperTypeOK, TameInv, Tame, WrapperNext
  PROVE  TameInv'
<1>1. ASSUME NEW t \in Threads, NEW a \in Addresses, DropWrapper(t, a) \/ TakeOwnership(t, a) PROVE TameInv'
  <2>1. mapped' \subseteq mapped /\ UNCHANGED <<object, dying, home, parent, marked, gil, frames, visits>>
    BY <1>1 DEF DropWrapper, TakeOwnership, releaseWrapper
  <2> QED
    BY <2>1, TameReleased
<1> QED
  BY <1>1, TameNewObject, TameSetParent, TameDestroy, TameDestroyChild, TameInvalidatePtr, TameRelease, TameFree, TameGetWrapper,
     TameEventDone, TameTypeLoaded, TameGil, TameQuit, TameVisitor DEF WrapperNext

-----------------------------------------------------------------------------
\* While wrappers are visited no other destructor runs, and what is owned is there.
LEMMA OnceStep ==
  ASSUME WrapperTypeOK, DyingAreCalled, QuitAlone, DestructorsInv, QuitDestroysOnce, Tame => TameInv, WrapperNext
  PROVE  QuitDestroysOnce'
<1>1. habits' = habits
  BY FramesChange
<1>2. ASSUME NEW t \in Threads, NEW a \in Addresses, destructionVisitor(t, a),
             "owners" \notin habits \/ Tame
      PROVE  twice' = twice
  <2>1. Idle(t) /\ gil = t /\ visits # {}
    BY <1>2 DEF destructionVisitor, InPython
  <2>2. \A u \in Threads : Places(u) = {}
    <3> SUFFICES ASSUME NEW u \in Threads, NEW i \in Places(u) PROVE FALSE
      OBVIOUS
    <3>1. u = t
      BY <2>1 DEF QuitAlone
    <3> QED
      BY <2>1, <3>1, IdleHasNoCalls
  <2>3. dying = {}
    BY <2>2 DEF DyingAreCalled, CallOf
  <2>4. DestroysWhenVisited(a) => object[a] # "none"
    BY <1>2 DEF DestroysWhenVisited, hasOwnership, DestructorsInv, PythonOwns, TameInv, MappedSound
  <2> QED
    BY <1>2, <2>3, <2>4 DEF destructionVisitor
<1>3. ASSUME ~ \E t \in Threads, a \in Addresses : destructionVisitor(t, a) PROVE twice' = twice
  BY <1>3 DEF WrapperNext, NewObject, SetParent, TakeOwnership, DropWrapper, Destroy, DestroyChild, invalidatePtr, Release,
     Free, getWrapperForQObject, EventDone, TypeLoaded, HandOver, TakeGil, destroyQCoreApplication
<1> QED
  BY <1>1, <1>2, <1>3 DEF QuitDestroysOnce, Tame

-----------------------------------------------------------------------------
LifeInv ==
  /\ WrapperTypeOK /\ NoLoads /\ OneForEach /\ DyingAreCalled /\ QuitAlone /\ DestructorsInv /\ QuitDestroysOnce
  /\ Tame => TameInv

LEMMA LifeInit == WrapperInit => LifeInv
<1> SUFFICES ASSUME WrapperInit PROVE LifeInv
  OBVIOUS
<1>1. WrapperTypeOK
  BY TypeInit
<1>2. \A t \in Threads : Idle(t)
  BY DEF WrapperInit, Idle
<1>3. \A t \in Threads : Places(t) = {}
  BY <1>1, <1>2, IdleHasNoCalls
<1>4. NoLoads /\ OneForEach /\ DyingAreCalled /\ QuitAlone /\ DestructorsInv /\ QuitDestroysOnce
  BY <1>3 DEF NoLoads, OneForEach, DyingAreCalled, QuitAlone, DestructorsInv, DestructorsSound, OneDestructor,
     PythonOwns, QuitDestroysOnce, WrapperInit
<1>5. OneKind /\ FramesSound /\ OneDestructor /\ VisitsAlone
  BY <1>3 DEF OneKind, FramesSound, OneDestructor, VisitsAlone, WrapperInit
<1>6. Families /\ MappedSound
  BY DEF Families, MappedSound, Alive, WrapperInit
<1> QED
  BY <1>1, <1>4, <1>5, <1>6 DEF LifeInv, TameInv

LEMMA LifeStep == LifeInv /\ [WrapperNext]_wrapperVars => LifeInv'
<1> SUFFICES ASSUME LifeInv, [WrapperNext]_wrapperVars PROVE LifeInv'
  OBVIOUS
<1>1. WrapperTypeOK'
  BY TypeStep DEF LifeInv
<1>2. CASE UNCHANGED wrapperVars
  BY <1>1, <1>2 DEF LifeInv, NoLoads, OneForEach, DyingAreCalled, CallOf, QuitAlone, DestructorsInv, DestructorsSound,
     DestructorSound, PythonOwns, QuitDestroysOnce, Tame, TameInv, OneKind,
     FramesSound, FrameSound, WrapSound, DestroySound, OneDestructor, VisitsAlone, Families, MappedSound, NoWraps,
     Alive, Children, Places, wrapperVars
<1>3. CASE WrapperNext
  <2>1. NoLoads' /\ OneForEach' /\ DyingAreCalled' /\ QuitAlone' /\ DestructorsInv'
    BY <1>3, NoLoadsStep, OneForEachStep, DyingAreCalledStep, QuitAloneStep, DestructorsStep DEF LifeInv
  <2>4. QuitDestroysOnce'
    BY <1>3, OnceStep DEF LifeInv
  <2>2. Tame' <=> Tame
    BY <1>3, FramesChange DEF Tame, LifeInv
  <2>3. Tame => TameInv'
    BY <1>3, TameStep DEF LifeInv
  <2> QED
    BY <1>1, <2>1, <2>2, <2>3, <2>4 DEF LifeInv
<1> QED
  BY <1>2, <1>3

\* For every program: who belongs to whom, which objects are marked and what the calls in
\* progress may rely on.
THEOREM LifeIsInvariant == WrapperSpec => []LifeInv
BY LifeInit, LifeStep, PTL DEF WrapperSpec

\* For every program: a QObject has one wrapper at most, if types are loaded beforehand, and
\* none when it is gone, if QObjects are wrapped in their own thread and not destroyed by
\* the handlers of the event.
THEOREM WrappersMatch == WrapperSpec => []WrappersMatchObjects
<1>1. LifeInv => WrappersMatchObjects
  <2>1. LifeInv => OneWrapper
    BY DEF LifeInv, OneForEach, OneWrapper
  <2>2. LifeInv => FreedAreForgotten
    BY DEF LifeInv, TameInv, MappedSound, FreedAreForgotten, Tame
  <2> QED
    BY <2>1, <2>2 DEF WrappersMatchObjects
<1> QED
  BY <1>1, LifeIsInvariant, PTL

\* For every program that gives Python no objects of C++, or wraps objects in their own thread
\* and destroys none in handlers of the event: destructionVisitor() calls no destructor for
\* what was destroyed with its parent, though the flags of wrappers know nothing of parents
\* that C++ gave.
THEOREM QuitOnce == WrapperSpec => []QuitDestroysOnce
<1>1. LifeInv => QuitDestroysOnce
  BY DEF LifeInv, QuitDestroysOnce
<1> QED
  BY <1>1, LifeIsInvariant, PTL

-----------------------------------------------------------------------------
(* MetaCall *)

CallPlaces == 1 .. Len(calls)
LastCall == Len(calls)

LEMMA CallPlaceIsCall ==
  ASSUME calls \in Seq(Call), NEW i \in CallPlaces
  PROVE  calls[i] \in Call
BY ElementOfSeq DEF CallPlaces

LEMMA InnerCall ==
  ASSUME calls \in Seq(Call), ~Outermost
  PROVE  LastCall \in CallPlaces /\ LastCall \in Nat /\ calls[LastCall] = Inner /\ Inner \in Call
<1>1. Len(calls) \in Nat /\ Len(calls) >= 1 /\ Inner = calls[Len(calls)] /\ Inner \in Call
  BY StackTop DEF Outermost, Inner
<1> QED
  BY <1>1 DEF CallPlaces, LastCall

LEMMA CallEntered ==
  ASSUME calls \in Seq(Call), NEW op \in {"signal", "slot", "callback", "property"}, NEW o \in Objects, NEW js \in BOOLEAN,
         NEW step \in {"activate", "python", "done", "str", "thrown", "hook"}, calls' = Entered(op, o, js, step)
  PROVE  /\ calls' \in Seq(Call) /\ ~Outermost' /\ Len(calls') = Len(calls) + 1
         /\ Inner' = [op |-> op, on |-> o, js |-> js, step |-> step]
         /\ CallPlaces' = CallPlaces \cup {LastCall'} /\ LastCall' \notin CallPlaces
         /\ calls'[LastCall'] = Inner'
         /\ \A i \in CallPlaces : calls'[i] = calls[i]
<1> DEFINE e == [op |-> op, on |-> o, js |-> js, step |-> step]
           n == Len(calls)
<1>1. e \in Call
  BY DEF Call
<1>2. calls' = Append(calls, e)
  BY DEF Entered
<1> HIDE DEF e
<1>3. n \in Nat
  BY LenProperties
<1>4. /\ calls' \in Seq(Call) /\ calls' # <<>> /\ Len(calls') = n + 1 /\ Last(calls') = e
      /\ calls'[n + 1] = e /\ \A i \in 1..n : calls'[i] = calls[i]
  BY <1>1, <1>2, StackPush
<1>5. CallPlaces' = 1 .. (n + 1) /\ CallPlaces = 1 .. n /\ LastCall' = n + 1
  BY <1>4 DEF CallPlaces, LastCall
<1> HIDE DEF n
<1>6. CallPlaces' = CallPlaces \cup {LastCall'} /\ LastCall' \notin CallPlaces
  BY <1>3, <1>5
<1>7. Inner' = e /\ ~Outermost'
  BY <1>4 DEF Inner, Outermost
<1> QED
  BY <1>4, <1>5, <1>6, <1>7 DEF n, e

LEMMA CallStepped ==
  ASSUME calls \in Seq(Call), ~Outermost, NEW step \in {"activate", "python", "done", "str", "thrown", "hook"},
         calls' = Step(step)
  PROVE  /\ calls' \in Seq(Call) /\ ~Outermost' /\ Len(calls') = Len(calls)
         /\ Inner' = [Inner EXCEPT !.step = step]
         /\ CallPlaces' = CallPlaces /\ LastCall' = LastCall
         /\ calls'[LastCall] = Inner'
         /\ \A i \in CallPlaces : i # LastCall => calls'[i] = calls[i]
<1> DEFINE n == Len(calls)
           e == [calls[n] EXCEPT !.step = step]
<1>1. n \in Nat /\ n >= 1 /\ calls[n] = Inner /\ Inner \in Call
  BY StackTop DEF Outermost, Inner
<1>2. e = [Inner EXCEPT !.step = step] /\ e \in Call
  BY <1>1 DEF Call
<1>3. calls' = [calls EXCEPT ![n] = e]
  BY DEF Step
<1> HIDE DEF e
<1>4. /\ calls' \in Seq(Call) /\ calls' # <<>> /\ Len(calls') = n /\ Last(calls') = e
      /\ calls'[n] = e /\ \A i \in 1..n : i # n => calls'[i] = calls[i]
  <2> DEFINE r == [calls EXCEPT ![n] = e]
  <2>1. calls # <<>>
    BY DEF Outermost
  <2>2. /\ r \in Seq(Call) /\ r # <<>> /\ Len(r) = n /\ Last(r) = e
        /\ r[n] = e /\ \A i \in 1..n : i # n => r[i] = calls[i]
    BY <1>2, <2>1, StackChange
  <2>3. calls' = r
    BY <1>3
  <2> HIDE DEF r
  <2> QED
    BY <2>2, <2>3
<1>5. Inner' = e /\ ~Outermost'
  BY <1>4 DEF Inner, Outermost
<1>6. CallPlaces' = 1 .. n /\ CallPlaces = 1 .. n /\ LastCall' = n /\ LastCall = n
  BY <1>4 DEF CallPlaces, LastCall
<1> QED
  BY <1>2, <1>4, <1>5, <1>6

LEMMA CallReturned ==
  ASSUME calls \in Seq(Call), ~Outermost, calls' = Front(calls)
  PROVE  /\ calls' \in Seq(Call) /\ Len(calls') = Len(calls) - 1
         /\ CallPlaces' = CallPlaces \ {LastCall} /\ LastCall \in CallPlaces
         /\ \A i \in CallPlaces' : calls'[i] = calls[i]
<1> DEFINE n == Len(calls)
<1>1. n \in Nat /\ n >= 1
  BY StackTop DEF Outermost
<1>2. calls' \in Seq(Call) /\ Len(calls') = n - 1 /\ \A i \in 1..(n - 1) : calls'[i] = calls[i]
  BY StackPop DEF Outermost
<1>3. CallPlaces' = 1 .. (n - 1) /\ CallPlaces = 1 .. n /\ LastCall = n
  BY <1>2 DEF CallPlaces, LastCall
<1> HIDE DEF n
<1>4. CallPlaces' = CallPlaces \ {LastCall} /\ LastCall \in CallPlaces
  BY <1>1, <1>3
<1> QED
  BY <1>2, <1>3, <1>4 DEF n

-----------------------------------------------------------------------------
MetaStep(step) == ~Outermost /\ calls' = Step(step)
CallSteps == {"activate", "python", "done", "str", "thrown", "hook"}

\* Calls change in three ways.
CallsChanged ==
  \/ calls' = calls
  \/ /\ Len(calls) < MaxDepth
     /\ \E op \in {"signal", "slot", "callback", "property"}, o \in Objects, js \in BOOLEAN,
           step \in {"activate", "python", "done"} : calls' = Entered(op, o, js, step)
  \/ ~Outermost /\ \E step \in {"done", "str", "hook", "thrown"} : calls' = Step(step)
  \/ ~Outermost /\ calls' = Front(calls)

LEMMA CallsChange ==
  ASSUME MetaTypeOK, MetaNext
  PROVE  CallsChanged
<1>1. ASSUME NEW o \in Objects, EmitSignal(o) PROVE CallsChanged
  BY <1>1 DEF CallsChanged, EmitSignal, QtCalls
<1>2. ASSUME Activated PROVE CallsChanged
  BY <1>2 DEF CallsChanged, Activated, In
<1>3. ASSUME NEW o \in Objects, NEW js \in BOOLEAN, CallSlot(o, js) PROVE CallsChanged
  BY <1>3 DEF CallsChanged, CallSlot, QtCalls
<1>4. ASSUME NEW o \in Objects, NEW js \in BOOLEAN, NEW e \in Errors, CallFails(o, js, e) PROVE CallsChanged
  BY <1>4 DEF CallsChanged, CallFails, QtCalls
<1>5. ASSUME NEW o \in Objects, CallCallback(o) PROVE CallsChanged
  BY <1>5 DEF CallsChanged, CallCallback, QtCalls
<1>6. ASSUME NEW o \in Objects, NEW js \in BOOLEAN, CallProperty(o, js) PROVE CallsChanged
  BY <1>6 DEF CallsChanged, CallProperty, QtCalls
<1>7. ASSUME NEW e \in Errors, ConversionFails(e) PROVE CallsChanged
  BY <1>7 DEF CallsChanged, ConversionFails, MetaTypeOK
<1>8. ASSUME NEW o \in Objects, Delete(o) PROVE CallsChanged
  BY <1>8 DEF CallsChanged, Delete
<1>9. ASSUME NEW o \in Objects, DropProperty(o) PROVE CallsChanged
  BY <1>9 DEF CallsChanged, DropProperty
<1>10. ASSUME Return PROVE CallsChanged
  BY <1>10 DEF CallsChanged, Return, In
<1>11. ASSUME NEW e \in Errors, Raise(e) PROVE CallsChanged
  BY <1>11 DEF CallsChanged, Raise, In
<1>12. ASSUME RaisePending PROVE CallsChanged
  BY <1>12 DEF CallsChanged, RaisePending, In
<1>13. ASSUME UnknownType PROVE CallsChanged
  BY <1>13 DEF CallsChanged, UnknownType, In
<1>14. ASSUME ReturnToQt PROVE CallsChanged
  BY <1>14 DEF CallsChanged, ReturnToQt, In
<1>15. ASSUME HandleError PROVE CallsChanged
  BY <1>15 DEF CallsChanged, HandleError, In
<1>16. ASSUME PrintForQml PROVE CallsChanged
  BY <1>16 DEF CallsChanged, PrintForQml, In
<1>17. ASSUME Thrown PROVE CallsChanged
  BY <1>17 DEF CallsChanged, Thrown, In
<1>18. ASSUME HookDone PROVE CallsChanged
  BY <1>18 DEF CallsChanged, HookDone, In
<1> QED
  BY <1>1, <1>2, <1>3, <1>4, <1>5, <1>6, <1>7, <1>8, <1>9,
     <1>10, <1>11, <1>12, <1>13, <1>14, <1>15, <1>16, <1>17, <1>18 DEF MetaNext

LEMMA MetaTypeInit == MetaInit => MetaTypeOK
<1> SUFFICES ASSUME MetaInit PROVE MetaTypeOK
  OBVIOUS
<1>1. calls \in Seq(Call) /\ Len(calls) = 0
  BY EmptySeq DEF MetaInit
<1> QED
  BY <1>1, MetaAssumption DEF MetaInit, MetaTypeOK, Errors

LEMMA PrintedType ==
  ASSUME MetaTypeOK, NEW e \in Errors
  PROVE  [printed EXCEPT ![e] = @ + 1] \in [Errors -> Nat]
BY DEF MetaTypeOK

\* The error that is printed last was fetched.
LEMMA LatestIsFetched ==
  ASSUME MetaTypeOK, fetched # {}
  PROVE  Latest \in fetched /\ Latest \in Errors
<1>1. \E x \in fetched : \A y \in fetched : y <= x
  BY GreatestNumber, MetaAssumption DEF MetaTypeOK, Errors
<1> QED
  BY <1>1 DEF Latest, MetaTypeOK

LEMMA MetaTypeStep == MetaTypeOK /\ [MetaNext]_metaVars => MetaTypeOK'
<1> SUFFICES ASSUME MetaTypeOK, [MetaNext]_metaVars PROVE MetaTypeOK'
  OBVIOUS
<1>1. CASE UNCHANGED metaVars
  BY <1>1 DEF metaVars, MetaTypeOK
<1>2. CASE MetaNext
  <2>0. calls \in Seq(Call) /\ Len(calls) <= MaxDepth /\ Len(calls) \in Nat /\ MaxDepth \in Nat
    BY MetaAssumption, LenProperties DEF MetaTypeOK
  <2>1. calls' \in Seq(Call) /\ Len(calls') <= MaxDepth
    <3>1. CASE calls' = calls
      BY <2>0, <3>1
    <3>2. ASSUME NEW op \in {"signal", "slot", "callback", "property"}, NEW o \in Objects, NEW js \in BOOLEAN,
                 NEW step \in {"activate", "python", "done"}, calls' = Entered(op, o, js, step), Len(calls) < MaxDepth
          PROVE  calls' \in Seq(Call) /\ Len(calls') <= MaxDepth
      <4>1. step \in {"activate", "python", "done", "str", "thrown", "hook"}
        OBVIOUS
      <4>2. calls' \in Seq(Call) /\ Len(calls') = Len(calls) + 1
        BY <2>0, <3>2, <4>1, CallEntered
      <4> QED
        BY <2>0, <3>2, <4>2
    <3>3. ASSUME NEW step \in {"done", "str", "hook", "thrown"}, ~Outermost, calls' = Step(step)
          PROVE  calls' \in Seq(Call) /\ Len(calls') <= MaxDepth
      <4>1. step \in {"activate", "python", "done", "str", "thrown", "hook"}
        OBVIOUS
      <4> QED
        BY <2>0, <3>3, <4>1, CallStepped
    <3>4. CASE ~Outermost /\ calls' = Front(calls)
      <4>1. calls' \in Seq(Call) /\ Len(calls') = Len(calls) - 1
        BY <2>0, <3>4, CallReturned
      <4> QED
        BY <2>0, <4>1
    <3> QED
      BY <1>2, <3>1, <3>2, <3>3, <3>4, CallsChange DEF CallsChanged
  <2>2. habit' \in MetaPrograms
    BY <1>2 DEF MetaNext, MetaTypeOK, EmitSignal, Activated, CallSlot, CallFails, CallCallback, CallProperty, ConversionFails,
       Delete, DropProperty, Return, Raise, RaisePending, UnknownType, ReturnToQt, HandleError, PrintForQml, Thrown, HookDone, Same
  <2>3. alive' \subseteq Objects
    BY <1>2 DEF MetaNext, MetaTypeOK, EmitSignal, Activated, CallSlot, CallFails, CallCallback, CallProperty, ConversionFails,
       Delete, DropProperty, Return, Raise, RaisePending, UnknownType, ReturnToQt, HandleError, PrintForQml, Thrown, HookDone, Same
  <2>4. hasProperty' \subseteq Objects
    BY <1>2 DEF MetaNext, MetaTypeOK, EmitSignal, Activated, CallSlot, CallFails, CallCallback, CallProperty, ConversionFails,
       Delete, DropProperty, Return, Raise, RaisePending, UnknownType, ReturnToQt, HandleError, PrintForQml, Thrown, HookDone, Same
  <2>5. /\ indicator' \in {NoError} \cup Errors /\ fetched' \subseteq Errors /\ raised' \in {0} \cup Errors
        /\ printed' \in [Errors -> Nat] /\ misused' \subseteq {"object", "property"}
    <3> DEFINE Goal ==
          /\ indicator' \in {NoError} \cup Errors /\ fetched' \subseteq Errors /\ raised' \in {0} \cup Errors
          /\ printed' \in [Errors -> Nat] /\ misused' \subseteq {"object", "property"}
    <3>1. ASSUME UNCHANGED <<indicator, fetched, raised, printed, misused>> PROVE Goal
      BY <3>1 DEF MetaTypeOK
    <3>2. ASSUME NEW e \in Errors, Raised(e), UNCHANGED <<fetched, printed, misused>> PROVE Goal
      BY <3>2 DEF MetaTypeOK, Raised
    <3>3. ASSUME UnknownType PROVE Goal
      <4>1. indicator \in Errors /\ printed' = [printed EXCEPT ![indicator] = @ + 1]
        BY <3>3 DEF UnknownType, Printed, MetaTypeOK
      <4>2. printed' \in [Errors -> Nat]
        BY <4>1, PrintedType
      <4> QED
        BY <3>3, <4>2 DEF UnknownType, MetaTypeOK
    <3>4. ASSUME HandleError PROVE Goal
      <4>1. indicator \in Errors
        BY <3>4 DEF HandleError, NeedsHandling, MetaTypeOK
      <4>2. Printed \in [Errors -> Nat]
        BY <4>1, PrintedType DEF Printed
      <4> QED
        BY <3>4, <4>1, <4>2 DEF HandleError, MetaTypeOK
    <3>5. ASSUME PrintForQml PROVE Goal
      <4>1. Latest \in Errors
        BY <3>5, LatestIsFetched DEF PrintForQml
      <4>2. printed' \in [Errors -> Nat]
        BY <3>5, <4>1, PrintedType DEF PrintForQml, Restored
      <4> QED
        BY <3>5, <4>2 DEF PrintForQml, Restored, MetaTypeOK
    <3>6. ASSUME Thrown PROVE Goal
      <4>1. indicator # NoError => Printed \in [Errors -> Nat]
        BY PrintedType DEF Printed, MetaTypeOK
      <4> QED
        BY <3>6, <4>1 DEF Thrown, MetaTypeOK
    <3> HIDE DEF Goal
    <3>7. ASSUME NEW o \in Objects, EmitSignal(o) PROVE Goal
      BY <3>1, <3>7 DEF EmitSignal
    <3>8. ASSUME Activated PROVE Goal
      BY <3>1, <3>8 DEF Activated
    <3>9. ASSUME NEW o \in Objects, NEW js \in BOOLEAN, CallSlot(o, js) PROVE Goal
      BY <3>1, <3>9 DEF CallSlot
    <3>10. ASSUME NEW o \in Objects, NEW js \in BOOLEAN, NEW e \in Errors, CallFails(o, js, e) PROVE Goal
      BY <3>2, <3>10 DEF CallFails
    <3>11. ASSUME NEW o \in Objects, CallCallback(o) PROVE Goal
      BY <3>1, <3>11 DEF CallCallback
    <3>12. ASSUME NEW o \in Objects, NEW js \in BOOLEAN, CallProperty(o, js) PROVE Goal
      BY <3>1, <3>12 DEF CallProperty
    <3>13. ASSUME NEW e \in Errors, ConversionFails(e) PROVE Goal
      BY <3>2, <3>13 DEF ConversionFails
    <3>14. ASSUME NEW o \in Objects, Delete(o) PROVE Goal
      BY <3>1, <3>14 DEF Delete
    <3>15. ASSUME NEW o \in Objects, DropProperty(o) PROVE Goal
      BY <3>1, <3>15 DEF DropProperty
    <3>16. ASSUME Return PROVE Goal
      BY <3>1, <3>16 DEF Return
    <3>17. ASSUME NEW e \in Errors, Raise(e) PROVE Goal
      BY <3>2, <3>17 DEF Raise
    <3>18. ASSUME RaisePending PROVE Goal
      BY <3>1, <3>18 DEF RaisePending
    <3>19. ASSUME ReturnToQt PROVE Goal
      BY <3>1, <3>19 DEF ReturnToQt
    <3>20. ASSUME HookDone PROVE Goal
      BY <3>1, <3>20 DEF HookDone
    <3>21. Goal
      BY <1>2, <3>3, <3>4, <3>5, <3>6, <3>7, <3>8, <3>9, <3>10, <3>11, <3>12, <3>13, <3>14, <3>15, <3>16, <3>17, <3>18, <3>19, <3>20 DEF MetaNext
    <3> QED
      BY <3>21 DEF Goal
  <2> QED
    BY <2>1, <2>2, <2>3, <2>4, <2>5 DEF MetaTypeOK
<1> QED
  BY <1>1, <1>2

\* For every set of objects and programs: the types of what a meta call leaves behind.
THEOREM MetaTypeCorrect == MetaSpec => []MetaTypeOK
BY MetaTypeInit, MetaTypeStep, PTL DEF MetaSpec

-----------------------------------------------------------------------------
(* Errors *)

\* An error is set while the innermost call calls, runs or is done, and no call holds it.
IndicatorSound ==
  indicator # NoError =>
    /\ ~Outermost /\ Inner.step \in {"activate", "python", "done"}
    /\ indicator \notin fetched /\ indicator <= raised
FetchedSound == \A e \in fetched : e <= raised
PrintedSound == \A e \in Errors : printed[e] = IF e > raised \/ e = indicator \/ e \in fetched THEN 0 ELSE 1

\* The calls that hold an error; each holds one.
StrPlaces == {i \in CallPlaces : calls[i].step = "str"}
HeldByCalls == Cardinality(StrPlaces) = Cardinality(fetched)

ErrorInv == IndicatorSound /\ FetchedSound /\ PrintedSound /\ HeldByCalls

LEMMA StrFinite ==
  ASSUME MetaTypeOK
  PROVE  IsFiniteSet(StrPlaces) /\ IsFiniteSet(fetched)
<1>1. Len(calls) \in Nat /\ MaxErrors \in Nat
  BY LenProperties, MetaAssumption DEF MetaTypeOK
<1>2. IsFiniteSet(1 .. Len(calls)) /\ IsFiniteSet(1 .. MaxErrors)
  BY <1>1, FS_Interval
<1>3. StrPlaces \in SUBSET (1 .. Len(calls)) /\ fetched \in SUBSET (1 .. MaxErrors)
  BY DEF StrPlaces, CallPlaces, MetaTypeOK, Errors
<1> QED
  BY <1>2, <1>3, FS_Subset

LEMMA StrEntered ==
  ASSUME MetaTypeOK, NEW op \in {"signal", "slot", "callback", "property"}, NEW o \in Objects, NEW js \in BOOLEAN,
         NEW step \in {"activate", "python", "done"}, calls' = Entered(op, o, js, step)
  PROVE  StrPlaces' = StrPlaces /\ ~Outermost' /\ Inner'.step = step
<1>1. step \in {"activate", "python", "done", "str", "thrown", "hook"} /\ calls \in Seq(Call) /\ step # "str"
  BY DEF MetaTypeOK
<1>2. /\ ~Outermost' /\ Inner' = [op |-> op, on |-> o, js |-> js, step |-> step]
      /\ CallPlaces' = CallPlaces \cup {LastCall'} /\ LastCall' \notin CallPlaces
      /\ calls'[LastCall'] = Inner' /\ \A i \in CallPlaces : calls'[i] = calls[i]
  BY <1>1, CallEntered
<1>3. Inner'.step = step
  BY <1>2
<1>4. \A i \in CallPlaces' : calls'[i].step = "str" <=> i \in CallPlaces /\ calls[i].step = "str"
  BY <1>1, <1>2, <1>3
<1> QED
  BY <1>2, <1>3, <1>4 DEF StrPlaces

LEMMA StrStepped ==
  ASSUME MetaTypeOK, ~Outermost, NEW step \in {"done", "str", "hook", "thrown"}, calls' = Step(step)
  PROVE  /\ ~Outermost' /\ Inner'.step = step /\ LastCall \in CallPlaces
         /\ LastCall \in StrPlaces <=> Inner.step = "str"
         /\ StrPlaces' = IF step = "str" THEN StrPlaces \cup {LastCall} ELSE StrPlaces \ {LastCall}
<1>1. step \in {"activate", "python", "done", "str", "thrown", "hook"} /\ calls \in Seq(Call)
  BY DEF MetaTypeOK
<1>2. /\ ~Outermost' /\ Inner' = [Inner EXCEPT !.step = step]
      /\ CallPlaces' = CallPlaces /\ calls'[LastCall] = Inner'
      /\ \A i \in CallPlaces : i # LastCall => calls'[i] = calls[i]
  BY <1>1, CallStepped
<1>3. LastCall \in CallPlaces /\ calls[LastCall] = Inner /\ Inner \in Call
  BY <1>1, InnerCall
<1>4. Inner'.step = step
  BY <1>2, <1>3 DEF Call
<1>5. LastCall \in StrPlaces <=> Inner.step = "str"
  BY <1>3 DEF StrPlaces
<1>6. \A i \in CallPlaces' : calls'[i].step = "str" <=> IF i = LastCall THEN step = "str" ELSE calls[i].step = "str"
  BY <1>2, <1>4
<1> QED
  BY <1>2, <1>3, <1>4, <1>5, <1>6 DEF StrPlaces

LEMMA StrReturned ==
  ASSUME MetaTypeOK, ~Outermost, Inner.step # "str", calls' = Front(calls)
  PROVE  StrPlaces' = StrPlaces
<1>1. calls \in Seq(Call)
  BY DEF MetaTypeOK
<1>2. CallPlaces' = CallPlaces \ {LastCall} /\ \A i \in CallPlaces' : calls'[i] = calls[i]
  BY <1>1, CallReturned
<1>3. calls[LastCall] = Inner
  BY <1>1, InnerCall
<1> QED
  BY <1>2, <1>3 DEF StrPlaces

\* A call begins, and an error that is set stays.
LEMMA ErrorEntered ==
  ASSUME MetaTypeOK, ErrorInv, NEW op \in {"signal", "slot", "callback", "property"}, NEW o \in Objects, NEW js \in BOOLEAN,
         NEW step \in {"activate", "python", "done"}, calls' = Entered(op, o, js, step),
         UNCHANGED <<indicator, fetched, raised, printed>>
  PROVE  ErrorInv'
<1>1. StrPlaces' = StrPlaces /\ ~Outermost' /\ Inner'.step = step
  BY StrEntered
<1>2. HeldByCalls' /\ FetchedSound' /\ PrintedSound'
  BY <1>1 DEF ErrorInv, HeldByCalls, FetchedSound, PrintedSound
<1>3. IndicatorSound'
  BY <1>1 DEF ErrorInv, IndicatorSound
<1> QED
  BY <1>2, <1>3 DEF ErrorInv

\* An error is raised by a call that begins or is done.
LEMMA ErrorRaised ==
  ASSUME MetaTypeOK, ErrorInv, NEW e \in Errors, indicator = NoError, Raised(e), UNCHANGED <<fetched, printed>>,
         StrPlaces' = StrPlaces, ~Outermost', Inner'.step \in {"activate", "python", "done"}
  PROVE  ErrorInv'
<1>1. e = raised + 1 /\ raised' = e /\ indicator' = e /\ raised \in Nat /\ e \in Nat
  BY MetaAssumption DEF Raised, Errors, MetaTypeOK
<1>2. \A d \in Errors : d \in Nat /\ d # NoError
  BY DEF Errors, NoError
<1>3. \A d \in fetched : d \in Nat /\ d <= raised
  BY <1>2 DEF ErrorInv, FetchedSound, MetaTypeOK
<1>4. HeldByCalls' /\ FetchedSound'
  BY <1>1, <1>3 DEF ErrorInv, HeldByCalls, FetchedSound
<1>5. IndicatorSound'
  BY <1>1, <1>3 DEF IndicatorSound
<1>6. PrintedSound'
  BY <1>1, <1>2, <1>3 DEF ErrorInv, PrintedSound
<1> QED
  BY <1>4, <1>5, <1>6 DEF ErrorInv

\* The error that is set is printed when its call is done.
LEMMA ErrorPrinted ==
  ASSUME MetaTypeOK, ErrorInv, indicator # NoError, printed' = Printed, indicator' = NoError,
         UNCHANGED <<fetched, raised>>, StrPlaces' = StrPlaces
  PROVE  ErrorInv'
<1>1. indicator \in Errors /\ indicator \notin fetched /\ indicator <= raised /\ indicator \in Nat /\ raised \in Nat
  BY MetaAssumption DEF ErrorInv, IndicatorSound, MetaTypeOK, Errors
<1>2. \A d \in Errors : d # NoError
  BY DEF Errors, NoError
<1>3. printed' = [printed EXCEPT ![indicator] = @ + 1] /\ printed[indicator] = 0 /\ printed \in [Errors -> Nat]
  BY <1>1 DEF ErrorInv, PrintedSound, Printed, MetaTypeOK
<1>4. PrintedSound'
  BY <1>1, <1>2, <1>3 DEF ErrorInv, PrintedSound
<1> QED
  BY <1>4 DEF ErrorInv, IndicatorSound, FetchedSound, HeldByCalls

\* A call returns with no error set.
LEMMA ErrorReturned ==
  ASSUME MetaTypeOK, ErrorInv, ~Outermost, Inner.step # "str", calls' = Front(calls), indicator = NoError,
         UNCHANGED <<indicator, fetched, raised, printed>>
  PROVE  ErrorInv'
<1>1. StrPlaces' = StrPlaces
  BY StrReturned
<1> QED
  BY <1>1 DEF ErrorInv, IndicatorSound, FetchedSound, HeldByCalls, PrintedSound

LEMMA ErrorDone ==
  ASSUME MetaTypeOK, ErrorInv, ~Outermost, Inner.step \in {"activate", "python"}, calls' = Step("done"),
         UNCHANGED <<indicator, fetched, raised, printed>>
  PROVE  ErrorInv'
<1>1. ~Outermost' /\ Inner'.step = "done" /\ StrPlaces' = StrPlaces
  BY StrStepped
<1>2. HeldByCalls' /\ FetchedSound' /\ PrintedSound'
  BY <1>1 DEF ErrorInv, HeldByCalls, FetchedSound, PrintedSound
<1>3. IndicatorSound'
  BY <1>1 DEF ErrorInv, IndicatorSound
<1> QED
  BY <1>2, <1>3 DEF ErrorInv

LEMMA ErrorHandled ==
  ASSUME MetaTypeOK, ErrorInv, HandleError
  PROVE  ErrorInv'
<1>1. ~Outermost /\ Inner.step = "done" /\ indicator # NoError /\ UNCHANGED raised
  BY DEF HandleError, In, NeedsHandling
<1>2. CASE calls' = Step("hook") /\ printed' = Printed /\ indicator' = NoError /\ UNCHANGED fetched
  <2>1. StrPlaces' = StrPlaces
    BY <1>1, <1>2, StrStepped
  <2> QED
    BY <1>1, <1>2, <2>1, ErrorPrinted
<1>3. CASE /\ calls' = Step("str") /\ fetched' = fetched \cup {indicator} /\ indicator' = NoError
           /\ UNCHANGED printed
  <2>1. LastCall \notin StrPlaces /\ StrPlaces' = StrPlaces \cup {LastCall}
    BY <1>1, <1>3, StrStepped
  <2>2. indicator \notin fetched /\ indicator <= raised
    BY <1>1 DEF ErrorInv, IndicatorSound
  <2>3. IsFiniteSet(StrPlaces) /\ IsFiniteSet(fetched)
    BY StrFinite
  <2>4. Cardinality(StrPlaces') = Cardinality(StrPlaces) + 1 /\ Cardinality(fetched') = Cardinality(fetched) + 1
    BY <1>3, <2>1, <2>2, <2>3, FS_AddElement
  <2>5. HeldByCalls'
    BY <2>4 DEF ErrorInv, HeldByCalls
  <2>6. \A d \in Errors : d # NoError
    BY DEF Errors, NoError
  <2>7. FetchedSound' /\ IndicatorSound'
    BY <1>1, <1>3, <2>2 DEF ErrorInv, FetchedSound, IndicatorSound
  <2>8. PrintedSound'
    BY <1>1, <1>3, <2>6 DEF ErrorInv, PrintedSound
  <2> QED
    BY <2>5, <2>7, <2>8 DEF ErrorInv
<1> QED
  BY <1>2, <1>3 DEF HandleError

LEMMA ErrorRestored ==
  ASSUME MetaTypeOK, ErrorInv, PrintForQml
  PROVE  ErrorInv'
<1> DEFINE e == Latest
<1>1. /\ ~Outermost /\ Inner.step = "str" /\ fetched # {}
      /\ calls' = Step("thrown") /\ fetched' = fetched \ {e} /\ indicator' = NoError
      /\ printed' = [printed EXCEPT ![e] = @ + 1] /\ UNCHANGED raised
  BY DEF PrintForQml, In, Restored
<1>2. e \in fetched /\ e \in Errors
  BY <1>1, LatestIsFetched
<1> HIDE DEF e
<1>3. LastCall \in StrPlaces /\ StrPlaces' = StrPlaces \ {LastCall}
  BY <1>1, StrStepped
<1>4. IsFiniteSet(StrPlaces) /\ IsFiniteSet(fetched)
  BY StrFinite
<1>5. Cardinality(StrPlaces') = Cardinality(StrPlaces) - 1 /\ Cardinality(fetched') = Cardinality(fetched) - 1
  BY <1>1, <1>2, <1>3, <1>4, FS_RemoveElement
<1>6. HeldByCalls'
  BY <1>5 DEF ErrorInv, HeldByCalls
<1>7. indicator = NoError
  BY <1>1 DEF ErrorInv, IndicatorSound
<1>8. e <= raised /\ e \in Nat /\ raised \in Nat
  BY <1>2, MetaAssumption DEF ErrorInv, FetchedSound, Errors, MetaTypeOK
<1>9. FetchedSound' /\ IndicatorSound'
  BY <1>1 DEF ErrorInv, FetchedSound, IndicatorSound
<1>10. \A d \in Errors : d # NoError
  BY DEF Errors, NoError
<1>11. printed \in [Errors -> Nat] /\ printed[e] = 0
  BY <1>2 DEF ErrorInv, PrintedSound, MetaTypeOK
<1>12. PrintedSound'
  BY <1>1, <1>2, <1>7, <1>8, <1>10, <1>11 DEF ErrorInv, PrintedSound
<1> QED
  BY <1>6, <1>9, <1>12 DEF ErrorInv

LEMMA ErrorSame ==
  ASSUME ErrorInv, UNCHANGED <<calls, indicator, fetched, raised, printed>>
  PROVE  ErrorInv'
BY DEF ErrorInv, IndicatorSound, FetchedSound, PrintedSound, HeldByCalls, StrPlaces, CallPlaces, Outermost, Inner

LEMMA ErrorStep ==
  ASSUME MetaTypeOK, ErrorInv, MetaNext
  PROVE  ErrorInv'
<1>1. ASSUME NEW o \in Objects, EmitSignal(o) PROVE ErrorInv'
  BY <1>1, ErrorEntered DEF EmitSignal
<1>2. ASSUME Activated PROVE ErrorInv'
  BY <1>2, ErrorDone DEF Activated, In
<1>3. ASSUME NEW o \in Objects, NEW js \in BOOLEAN, CallSlot(o, js) PROVE ErrorInv'
  BY <1>3, ErrorEntered DEF CallSlot
<1>4. ASSUME NEW o \in Objects, NEW js \in BOOLEAN, NEW e \in Errors, CallFails(o, js, e) PROVE ErrorInv'
  <2>1. StrPlaces' = StrPlaces /\ ~Outermost' /\ Inner'.step = "done"
    BY <1>4, StrEntered DEF CallFails
  <2> QED
    BY <1>4, <2>1, ErrorRaised DEF CallFails
<1>5. ASSUME NEW o \in Objects, CallCallback(o) PROVE ErrorInv'
  BY <1>5, ErrorEntered DEF CallCallback
<1>6. ASSUME NEW o \in Objects, NEW js \in BOOLEAN, CallProperty(o, js) PROVE ErrorInv'
  BY <1>6, ErrorEntered DEF CallProperty
<1>7. ASSUME NEW e \in Errors, ConversionFails(e) PROVE ErrorInv'
  <2>1. PICK o \in Objects : calls' = Entered("signal", o, FALSE, "activate")
    BY <1>7 DEF ConversionFails, MetaTypeOK
  <2>2. StrPlaces' = StrPlaces /\ ~Outermost' /\ Inner'.step = "activate"
    BY <2>1, StrEntered
  <2> QED
    BY <1>7, <2>2, ErrorRaised DEF ConversionFails
<1>8. ASSUME NEW o \in Objects, Delete(o) \/ DropProperty(o) PROVE ErrorInv'
  BY <1>8, ErrorSame DEF Delete, DropProperty
<1>9. ASSUME Return \/ RaisePending PROVE ErrorInv'
  BY <1>9, ErrorDone DEF Return, RaisePending, In
<1>10. ASSUME NEW e \in Errors, Raise(e) PROVE ErrorInv'
  <2>1. ~Outermost /\ Inner.step = "python" /\ calls' = Step("done")
    BY <1>10 DEF Raise, In
  <2>2. StrPlaces' = StrPlaces /\ ~Outermost' /\ Inner'.step = "done"
    BY <2>1, StrStepped
  <2> QED
    BY <1>10, <2>2, ErrorRaised DEF Raise
<1>11. ASSUME UnknownType PROVE ErrorInv'
  <2>1. StrPlaces' = StrPlaces
    BY <1>11, StrReturned DEF UnknownType, In
  <2> QED
    BY <1>11, <2>1, ErrorPrinted DEF UnknownType
<1>12. ASSUME ReturnToQt PROVE ErrorInv'
  BY <1>12, ErrorReturned DEF ReturnToQt, In, NeedsHandling
<1>13. ASSUME Thrown PROVE ErrorInv'
  <2>1. ~Outermost /\ Inner.step = "thrown" /\ indicator = NoError
    BY <1>13 DEF Thrown, In, ErrorInv, IndicatorSound
  <2> QED
    BY <1>13, <2>1, ErrorReturned DEF Thrown
<1>14. ASSUME HookDone PROVE ErrorInv'
  <2>1. ~Outermost /\ Inner.step = "hook" /\ indicator = NoError
    BY <1>14 DEF HookDone, In, ErrorInv, IndicatorSound
  <2> QED
    BY <1>14, <2>1, ErrorReturned DEF HookDone
<1> QED
  BY <1>1, <1>2, <1>3, <1>4, <1>5, <1>6, <1>7, <1>8, <1>9, <1>10, <1>11, <1>12, <1>13, <1>14, ErrorHandled, ErrorRestored
     DEF MetaNext

LEMMA ErrorInit == MetaInit => ErrorInv
<1> SUFFICES ASSUME MetaInit PROVE ErrorInv
  OBVIOUS
<1>1. Len(calls) = 0
  BY EmptySeq DEF MetaInit
<1>2. StrPlaces = {} /\ fetched = {}
  BY <1>1 DEF StrPlaces, CallPlaces, MetaInit
<1>3. PrintedSound
  BY DEF PrintedSound, MetaInit, Errors, NoError
<1> QED
  BY <1>2, <1>3 DEF ErrorInv, IndicatorSound, FetchedSound, HeldByCalls, MetaInit

\* For every program, however deep calls nest and whether Qt, Python or QML made them: an
\* error is pending, kept or printed, and none is printed twice or lost on the way.
THEOREM ErrorsArePrinted == MetaSpec => []ErrorsPrintedOnce
<1>1. MetaTypeOK /\ ErrorInv /\ [MetaNext]_metaVars => ErrorInv'
  BY ErrorStep, ErrorSame DEF metaVars
<1>2. MetaTypeOK /\ ErrorInv => ErrorsPrintedOnce
  <2> SUFFICES ASSUME MetaTypeOK, ErrorInv PROVE ErrorsPrintedOnce
    OBVIOUS
  <2>1. \A e \in 1..raised : e \in Errors /\ ~ (e > raised)
    BY MetaAssumption DEF MetaTypeOK, Errors
  <2>2. \A e \in 1..raised : (IF e = indicator \/ e \in fetched THEN 0 ELSE 1) = printed[e]
    BY <2>1 DEF ErrorInv, PrintedSound
  <2>3. ASSUME Outermost PROVE indicator = NoError /\ fetched = {}
    <3>1. Len(calls) = 0
      BY <2>3, EmptySeq DEF Outermost
    <3>2. StrPlaces = {}
      BY <3>1 DEF StrPlaces, CallPlaces
    <3>3. Cardinality(fetched) = 0 /\ IsFiniteSet(fetched)
      BY <3>2, StrFinite, FS_EmptySet DEF ErrorInv, HeldByCalls
    <3> QED
      BY <2>3, <3>3, FS_EmptySet DEF ErrorInv, IndicatorSound
  <2> QED
    BY <2>2, <2>3 DEF ErrorsPrintedOnce
<1> QED
  BY <1>1, <1>2, ErrorInit, MetaTypeCorrect, PTL DEF MetaSpec

-----------------------------------------------------------------------------
(* Accessors *)

USE AccessorAssumption DEF NoDoc, Given

Counts == Accessor \cup PropertyObjects
AccessCall == [f : Accessor, p : PropertyObjects]
Begun == [on : PropertyObjects, args : Args]

AccessorTypes ==
  /\ ways \in AccessorPrograms
  /\ existing \subseteq Counts /\ known \subseteq Counts
  /\ listed \subseteq PropertyObjects /\ handles \subseteq PropertyObjects
  /\ tried \subseteq Accessor
  /\ refs \in [Counts -> Int]
  /\ data \in [PropertyObjects -> Data]
  /\ docs \in [PropertyObjects -> {NoDoc, Given} \cup Accessor]
  /\ entering \in {NoInit} \cup Begun
  /\ accesses \in Seq(AccessCall) /\ Len(accesses) <= MaxAccesses

\* Programs that give properties arguments that can be parsed, and keep the lists that QML has.
Decent == ways \cap {"mistakes", "drops"} = {}

\* The fields of a property that are counted
Shown(p) == IF p \in existing /\ p \notin listed /\ entering.on # p THEN FieldsHeld(p) ELSE NoArgs

Has(o) == IF o \in known THEN 1 ELSE 0
FieldPlaces(F, o) == {x \in PropertyObjects \X Role : F[x[1]][x[2]] = o}
InFields(o) == FieldPlaces([p \in PropertyObjects |-> Shown(p)], o)
InFunctions(o) == {f \in existing \cap Accessor : RefersTo[f] = o}
InCalls(o) == {i \in 1..Len(accesses) : o = accesses[i].f \/ (o = accesses[i].p /\ o \notin listed)}
References(o) == Has(o) + Times(o, entering.args) + Cardinality(InFields(o))
             + Cardinality(InFunctions(o)) + Cardinality(InCalls(o))

CountsRight == \A o \in Counts : refs[o] = References(o)
GoneHaveNone == \A o \in Counts \ existing : refs[o] = 0

KnownSound ==
  /\ known \subseteq existing
  /\ existing \cap Accessor \subseteq tried
  /\ \A p \in known \cap PropertyObjects : ~data[p].cleared
  /\ \A p \in listed \cap existing :
       /\ FieldsOf(p)["notify"] = Null
       /\ \A r \in Role : FieldsOf(p)[r] \in known \cup {Null}
  /\ handles \subseteq known \cap listed

EnteringSound ==
  entering # NoInit =>
    /\ entering.on \in known /\ FieldsOf(entering.on) = entering.args
    /\ docs[entering.on] \notin Accessor

CallsSound == \A i \in 1..Len(accesses) : accesses[i].p \in listed => accesses[i].p \in handles

DocsSound == \A p \in existing \cap PropertyObjects :
               docs[p] \in Accessor => data[p].cleared \/ docs[p] = FieldsOf(p)["fget"]

DecentInv == CountsRight /\ GoneHaveNone /\ KnownSound /\ EnteringSound /\ CallsSound /\ DocsSound /\ touched = {}

AccessorInv == AccessorTypes /\ (Decent => DecentInv)

-----------------------------------------------------------------------------
(* Types *)

LEMMA ArgsAreTyped ==
  /\ NoArgs \in Args /\ \A a \in Args, r \in Role : a[r] \in Accessor \cup {Null}
  /\ \A a \in Args, r \in Role, f \in Accessor \cup {Null} : [a EXCEPT ![r] = f] \in Args
BY DEF NoArgs, Args

LEMMA FieldsAreTyped ==
  ASSUME AccessorTypes, NEW p \in PropertyObjects
  PROVE  FieldsOf(p) \in Args /\ FieldsHeld(p) \in Args /\ Shown(p) \in Args
BY ArgsAreTyped DEF AccessorTypes, Data, FieldsOf, FieldsHeld, Shown

\* How often an object is among arguments.
LEMMA TimesIs ==
  ASSUME NEW o, NEW args
  PROVE  Times(o, args) = (IF args["fget"] = o THEN 1 ELSE 0) + (IF args["notify"] = o THEN 1 ELSE 0)
<1> DEFINE S == {r \in Role : args[r] = o}
<1>1. IsFiniteSet({}) /\ Cardinality({}) = 0
  BY FS_EmptySet
<1>2. IsFiniteSet({"fget"}) /\ Cardinality({"fget"}) = 1
  BY FS_Singleton
<1>3. Cardinality({"notify"}) = 1
  BY FS_Singleton
<1>4. Cardinality({"fget"} \cup {"notify"}) = 2
  BY <1>2, FS_AddElement
<1>5. S = (IF args["fget"] = o THEN {"fget"} ELSE {}) \cup (IF args["notify"] = o THEN {"notify"} ELSE {})
  BY DEF Role
<1> HIDE DEF S
<1>6. Cardinality(S) = (IF args["fget"] = o THEN 1 ELSE 0) + (IF args["notify"] = o THEN 1 ELSE 0)
  <2>1. CASE args["fget"] = o /\ args["notify"] = o
    BY <1>4, <1>5, <2>1
  <2>2. CASE args["fget"] = o /\ args["notify"] # o
    <3>1. S = {"fget"}
      BY <1>5, <2>2
    <3> QED
      BY <1>2, <2>2, <3>1
  <2>3. CASE args["fget"] # o /\ args["notify"] = o
    <3>1. S = {"notify"}
      BY <1>5, <2>3
    <3> QED
      BY <1>3, <2>3, <3>1
  <2>4. CASE args["fget"] # o /\ args["notify"] # o
    <3>1. S = {}
      BY <1>5, <2>4
    <3> QED
      BY <1>1, <2>4, <3>1
  <2> QED
    BY <2>1, <2>2, <2>3, <2>4
<1> QED
  BY <1>6 DEF Times, S

LEMMA TimesType == ASSUME NEW o, NEW args PROVE Times(o, args) \in Nat
BY TimesIs

LEMMA NoTimes == ASSUME NEW o \in Counts PROVE Times(o, NoArgs) = 0
BY TimesIs DEF NoArgs, Role, Counts

LEMMA CountTypes ==
  ASSUME AccessorTypes
  PROVE  /\ None \in [Counts -> Int] /\ \A o \in Counts : One(o) \in [Counts -> Int]
         /\ \A o, q \in Counts : [One(o) EXCEPT ![q] = 1] \in [Counts -> Int]
         /\ \A args : Of(args) \in [Counts -> Int]
         /\ \A come, go \in [Counts -> Int] : Counted(come, go) \in [Counts -> Int]
BY TimesType DEF None, One, Of, Counted, Counts, AccessorTypes

LEMMA CallsAreTyped ==
  ASSUME AccessorTypes
  PROVE  /\ Len(accesses) \in Nat /\ \A i \in 1..Len(accesses) : accesses[i] \in AccessCall
         /\ accesses # <<>> => Last(accesses) = accesses[Len(accesses)] /\ Last(accesses) \in AccessCall /\ Len(accesses) >= 1
BY StackTop, ElementOfSeq, LenProperties DEF AccessorTypes

LEMMA EnterTypes ==
  ASSUME AccessorTypes, NEW p \in PropertyObjects, NEW args \in Args, NEW come, NEW kind, come \in [Counts -> Int],
         Enter(p, args, come, kind),
         existing' \in SUBSET Counts, known' \in SUBSET Counts, listed' \in SUBSET PropertyObjects,
         docs' \in [PropertyObjects -> {NoDoc, Given} \cup Accessor]
  PROVE  AccessorTypes'
<1>1. PICK mark \in BOOLEAN : mark <=> kind = "fresh"
  OBVIOUS
<1>2. data' = [data EXCEPT ![p] = [cleared |-> FALSE, fields |-> args, fresh |-> mark]]
  BY <1>1 DEF Enter
<1>3. data' \in [PropertyObjects -> Data]
  BY <1>2 DEF AccessorTypes, Data
<1>4. entering' \in Begun
  BY DEF Enter, Begun
<1>5. PICK more : more = [o \in DOMAIN come |-> come[o] + Times(o, args)]
  OBVIOUS
<1>6. more \in [Counts -> Int]
  BY <1>5, TimesType
<1>7. PICK less : less = IF kind = "fresh" \/ p \in listed THEN None ELSE Released(p)
  OBVIOUS
<1>8. less \in [Counts -> Int]
  BY <1>7, CountTypes DEF Released
<1>9. refs' \in [Counts -> Int]
  BY <1>5, <1>6, <1>7, <1>8, CountTypes DEF Enter
<1> QED
  BY <1>3, <1>4, <1>9 DEF AccessorTypes, Enter

LEMMA NewTypes ==
  ASSUME AccessorTypes, NEW p \in PropertyObjects, NEW args \in Args, NEW list, NEW doc \in {NoDoc, Given} \cup Accessor,
         New(p, args, list, doc)
  PROVE  AccessorTypes'
<1>1. One(p) \in [Counts -> Int] /\ p \in Counts
  BY CountTypes DEF Counts
<1>2. /\ existing' \in SUBSET Counts /\ known' \in SUBSET Counts /\ listed' \in SUBSET PropertyObjects
      /\ docs' \in [PropertyObjects -> {NoDoc, Given} \cup Accessor]
  BY <1>1 DEF New, AccessorTypes
<1>3. Enter(p, args, One(p), "fresh")
  BY DEF New
<1> QED
  BY <1>1, <1>2, <1>3, EnterTypes

LEMMA DocTypes ==
  ASSUME AccessorTypes, NEW p \in PropertyObjects
  PROVE  DocOfCopy(p) \in {NoDoc, Given}
BY DEF AccessorTypes, DocOfCopy

LEMMA AccessorTypesStep == AccessorTypes /\ [AccessorNext]_accessorVars => AccessorTypes'
<1> SUFFICES ASSUME AccessorTypes, [AccessorNext]_accessorVars PROVE AccessorTypes'
  OBVIOUS
<1>1. ASSUME NEW f \in Accessor, NewFunction(f) PROVE AccessorTypes'
  <2>1. PICK come : come = IF RefersTo[f] = Null THEN One(f) ELSE [One(f) EXCEPT ![RefersTo[f]] = 1]
    OBVIOUS
  <2>2. f \in Counts /\ RefersTo[f] \in Counts \cup {Null}
    BY DEF Counts
  <2>3. come \in [Counts -> Int]
    BY <2>1, <2>2, CountTypes
  <2>4. refs' \in [Counts -> Int]
    BY <1>1, <2>1, <2>3, CountTypes DEF NewFunction
  <2> QED
    BY <1>1, <2>2, <2>4 DEF NewFunction, AccessorTypes
<1>2. ASSUME NEW f \in Accessor, FreeFunction(f) PROVE AccessorTypes'
  <2>1. PICK go : go = IF RefersTo[f] = Null THEN None ELSE One(RefersTo[f])
    OBVIOUS
  <2>2. go \in [Counts -> Int]
    BY <2>1, CountTypes DEF Counts
  <2>3. refs' \in [Counts -> Int]
    BY <1>2, <2>1, <2>2, CountTypes DEF FreeFunction
  <2> QED
    BY <1>2, <2>3 DEF FreeFunction, AccessorTypes
<1>3. ASSUME NEW o \in Counts, Forget(o) PROVE AccessorTypes'
  <2>1. refs' \in [Counts -> Int]
    BY <1>3, CountTypes DEF Forget
  <2> QED
    BY <1>3, <2>1 DEF Forget, AccessorTypes
<1>4. ASSUME NEW p \in PropertyObjects, NEW r \in Role, GetAccessor(p, r) PROVE AccessorTypes'
  <2>1. PICK f : f = FieldsOf(p)[r]
    OBVIOUS
  <2>2. f \in Counts
    BY <1>4, <2>1, FieldsAreTyped, ArgsAreTyped DEF GetAccessor, Counts
  <2>3. known' = known \cup {f} /\ refs' = Counted(One(f), None)
    BY <1>4, <2>1 DEF GetAccessor
  <2>4. refs' \in [Counts -> Int]
    BY <2>2, <2>3, CountTypes
  <2> QED
    BY <1>4, <2>2, <2>3, <2>4 DEF GetAccessor, AccessorTypes
<1>5. ASSUME NEW p \in PropertyObjects, NEW r \in Role, CallAccessor(p, r) PROVE AccessorTypes'
  <2>1. PICK f : f = FieldsOf(p)[r]
    OBVIOUS
  <2>2. f \in Accessor /\ f \in Counts /\ p \in Counts
    BY <1>5, <2>1, FieldsAreTyped, ArgsAreTyped DEF CallAccessor, Counts
  <2>3. /\ accesses' = Append(accesses, [f |-> f, p |-> p])
        /\ refs' = Counted([One(p) EXCEPT ![f] = 1], None)
    BY <1>5, <2>1 DEF CallAccessor
  <2>4. refs' \in [Counts -> Int]
    BY <2>2, <2>3, CountTypes
  <2>5. [f |-> f, p |-> p] \in AccessCall
    BY <2>2 DEF AccessCall
  <2>6. accesses' \in Seq(AccessCall) /\ Len(accesses') = Len(accesses) + 1
    BY <2>3, <2>5, StackPush DEF AccessorTypes
  <2>7. Len(accesses') <= MaxAccesses
    BY <1>5, <2>6, CallsAreTyped DEF CallAccessor
  <2> QED
    BY <1>5, <2>4, <2>6, <2>7 DEF CallAccessor, AccessorTypes
<1>6. ASSUME NEW p \in PropertyObjects, NEW args \in Args, NEW list \in BOOLEAN, NEW doc \in {NoDoc, Given},
             OfTheProgram(args), New(p, args, list, doc)
      PROVE  AccessorTypes'
  BY <1>6, NewTypes
<1>7. ASSUME NEW p \in PropertyObjects, NEW args \in Args, InitAgain(p, args) PROVE AccessorTypes'
  <2>1. docs' = [docs EXCEPT ![p] = NoDoc] /\ Enter(p, args, None, "again") /\ UNCHANGED <<existing, known, listed>>
    BY <1>7 DEF InitAgain
  <2>2. None \in [Counts -> Int] /\ docs' \in [PropertyObjects -> {NoDoc, Given} \cup Accessor]
    BY <2>1, CountTypes DEF AccessorTypes
  <2>3. existing' \in SUBSET Counts /\ known' \in SUBSET Counts /\ listed' \in SUBSET PropertyObjects
    BY <2>1 DEF AccessorTypes
  <2> QED
    BY <2>1, <2>2, <2>3, EnterTypes
<1>8. ASSUME NEW p \in PropertyObjects, NEW q \in PropertyObjects, NEW r \in Role, NEW f \in known \cap Accessor,
             Decorated(p, q, r, f)
      PROVE  AccessorTypes'
  <2>1. [FieldsOf(p) EXCEPT ![r] = f] \in Args
    BY FieldsAreTyped, ArgsAreTyped
  <2>2. New(q, [FieldsOf(p) EXCEPT ![r] = f], FALSE, DocOfCopy(p))
    BY <1>8 DEF Decorated
  <2> QED
    BY <2>1, <2>2, DocTypes, NewTypes
<1>9. ASSUME NEW outcome \in {"good", "refused", "unparsed"}, InitEnds(outcome) PROVE AccessorTypes'
  <2>1. PICK p : p = entering.on
    OBVIOUS
  <2>2. p \in PropertyObjects /\ p \in Counts
    BY <1>9, <2>1 DEF InitEnds, AccessorTypes, Begun, Counts
  <2>3. PICK gone : gone = IF outcome # "good" /\ data[p].fresh /\ p \in known THEN {p} ELSE {}
    OBVIOUS
  <2>4. PICK come, go : /\ come = (IF outcome = "good" THEN Kept(p) ELSE None)
                        /\ go = [o \in DOMAIN refs |-> Times(o, entering.args) + (IF o \in gone THEN 1 ELSE 0)]
    OBVIOUS
  <2>5. come \in [Counts -> Int]
    BY <2>4, CountTypes DEF Kept
  <2>6. go \in [Counts -> Int]
    BY <2>4, TimesType DEF AccessorTypes
  <2>7. refs' = Counted(come, go) /\ known' = known \ gone
    BY <1>9, <2>1, <2>3, <2>4 DEF InitEnds
  <2>8. refs' \in [Counts -> Int]
    BY <2>5, <2>6, <2>7, CountTypes
  <2>9. PICK fields : fields = IF outcome = "refused" /\ p \notin listed THEN NoArgs ELSE FieldsOf(p)
    OBVIOUS
  <2>10. fields \in Args
    BY <2>2, <2>9, ArgsAreTyped, FieldsAreTyped
  <2>11. data' = [data EXCEPT ![p] = [cleared |-> data[p].cleared, fresh |-> FALSE, fields |-> fields]]
    BY <1>9, <2>1, <2>9 DEF InitEnds
  <2>12. data' \in [PropertyObjects -> Data]
    BY <2>2, <2>10, <2>11 DEF AccessorTypes, Data
  <2> QED
    BY <1>9, <2>7, <2>8, <2>12 DEF InitEnds, AccessorTypes
<1>10. ASSUME NEW p \in PropertyObjects, GetDoc(p) PROVE AccessorTypes'
  <2>1. FieldsOf(p)["fget"] \in Accessor
    BY <1>10, FieldsAreTyped, ArgsAreTyped DEF GetDoc, Role
  <2> QED
    BY <1>10, <2>1 DEF GetDoc, AccessorTypes
<1>11. ASSUME NEW p \in PropertyObjects, ReadList(p) \/ DropHandle(p) PROVE AccessorTypes'
  BY <1>11 DEF ReadList, DropHandle, AccessorTypes
<1>12. ASSUME NEW p \in PropertyObjects, CallList(p) PROVE AccessorTypes'
  <2>1. PICK f : f = FieldsOf(p)["fget"]
    OBVIOUS
  <2>2. f \in Accessor /\ f \in Counts
    BY <1>12, <2>1, FieldsAreTyped, ArgsAreTyped DEF CallList, Counts, Role
  <2>3. CASE UNCHANGED <<accesses, refs>>
    BY <1>12, <2>3 DEF CallList, AccessorTypes
  <2>4. CASE accesses' = Append(accesses, [f |-> f, p |-> p]) /\ refs' = Counted(One(f), None)
    <3>1. refs' \in [Counts -> Int]
      BY <2>2, <2>4, CountTypes
    <3>2. [f |-> f, p |-> p] \in AccessCall
      BY <2>2 DEF AccessCall
    <3>3. accesses' \in Seq(AccessCall) /\ Len(accesses') = Len(accesses) + 1
      BY <2>4, <3>2, StackPush DEF AccessorTypes
    <3>4. Len(accesses') <= MaxAccesses
      BY <1>12, <3>3, CallsAreTyped DEF CallList
    <3> QED
      BY <1>12, <3>1, <3>3, <3>4 DEF CallList, AccessorTypes
  <2> QED
    BY <1>12, <2>1, <2>3, <2>4 DEF CallList
<1>13. ASSUME AccessReturns PROVE AccessorTypes'
  <2>1. PICK c : c = Last(accesses)
    OBVIOUS
  <2>2. c \in AccessCall /\ accesses # <<>>
    BY <1>13, <2>1, CallsAreTyped DEF AccessReturns
  <2>3. c.f \in Counts /\ c.p \in Counts
    BY <2>2 DEF AccessCall, Counts
  <2>4. PICK go : go = IF c.p \in listed THEN One(c.f) ELSE [One(c.p) EXCEPT ![c.f] = 1]
    OBVIOUS
  <2>5. go \in [Counts -> Int]
    BY <2>3, <2>4, CountTypes
  <2>6. refs' = Counted(None, go) /\ accesses' = Front(accesses)
    BY <1>13, <2>1, <2>4 DEF AccessReturns
  <2>7. refs' \in [Counts -> Int]
    BY <2>5, <2>6, CountTypes
  <2>8. accesses' \in Seq(AccessCall) /\ Len(accesses') = Len(accesses) - 1
    BY <2>2, <2>6, StackPop DEF AccessorTypes
  <2>9. Len(accesses') <= MaxAccesses
    BY <2>8, CallsAreTyped DEF AccessorTypes
  <2> QED
    BY <1>13, <2>7, <2>8, <2>9 DEF AccessReturns, AccessorTypes
<1>14. ASSUME NEW p \in PropertyObjects, Dealloc(p) \/ ClearGarbage(p) PROVE AccessorTypes'
  <2>1. refs' = Counted(None, Released(p)) /\ data' = [data EXCEPT ![p].cleared = TRUE]
    BY <1>14 DEF Dealloc, ClearGarbage
  <2>2. refs' \in [Counts -> Int]
    BY <2>1, CountTypes DEF Released
  <2>3. data' \in [PropertyObjects -> Data]
    <3>1. PICK d : d = [data[p] EXCEPT !.cleared = TRUE]
      OBVIOUS
    <3>2. data[p] \in Data
      BY DEF AccessorTypes
    <3>3. d \in Data
      BY <3>1, <3>2 DEF Data
    <3>4. data' = [data EXCEPT ![p] = d]
      BY <2>1, <3>1
    <3> QED
      BY <3>3, <3>4 DEF AccessorTypes
  <2> QED
    BY <1>14, <2>2, <2>3 DEF Dealloc, ClearGarbage, AccessorTypes
<1>15. CASE UNCHANGED accessorVars
  BY <1>15 DEF accessorVars, AccessorTypes
<1>16. CASE AccessorNext
  BY <1>16, <1>1, <1>2, <1>3, <1>4, <1>5, <1>6, <1>7, <1>8, <1>9, <1>10, <1>11, <1>12, <1>13, <1>14 DEF AccessorNext, Counts
<1> QED
  BY <1>15, <1>16

LEMMA AccessorTypesInit == AccessorInit => AccessorTypes
<1> SUFFICES ASSUME AccessorInit PROVE AccessorTypes
  OBVIOUS
<1>1. <<>> \in Seq(AccessCall) /\ Len(<<>>) = 0
  BY EmptySeq
<1>2. data \in [PropertyObjects -> Data]
  BY ArgsAreTyped DEF AccessorInit, Data
<1>3. refs \in [Counts -> Int] /\ docs \in [PropertyObjects -> {NoDoc, Given} \cup Accessor]
  BY DEF AccessorInit, None, Counts
<1>4. /\ ways \in AccessorPrograms /\ tried \subseteq Accessor
      /\ existing \subseteq Counts /\ known \subseteq Counts
      /\ listed \subseteq PropertyObjects /\ handles \subseteq PropertyObjects
  BY DEF AccessorInit
<1>5. entering \in {NoInit} \cup Begun /\ accesses = <<>>
  BY DEF AccessorInit
<1>6. accesses \in Seq(AccessCall) /\ Len(accesses) <= MaxAccesses
  <2>1. Len(accesses) = 0 /\ accesses \in Seq(AccessCall)
    BY <1>1, <1>5
  <2> QED
    BY <2>1
<1> QED
  BY <1>2, <1>3, <1>4, <1>5, <1>6 DEF AccessorTypes

\* For any functions, properties and programs: the types of what property objects keep.
THEOREM AccessorTypeCorrect == AccessorSpec => []AccessorTypeOK
<1>1. AccessorTypes => AccessorTypeOK
  BY DEF AccessorTypes, AccessorTypeOK, Counts
<1> QED
  BY <1>1, AccessorTypesInit, AccessorTypesStep, PTL DEF AccessorSpec

-----------------------------------------------------------------------------
(* Counting *)

LEMMA PlacesSplit ==
  ASSUME NEW F, NEW o, NEW p \in PropertyObjects
  PROVE  LET R == {x \in (PropertyObjects \ {p}) \X Role : F[x[1]][x[2]] = o}
         IN  /\ IsFiniteSet(FieldPlaces(F, o)) /\ IsFiniteSet(R)
             /\ Cardinality(FieldPlaces(F, o)) = Cardinality(R) + Times(o, F[p])
<1> DEFINE R == {x \in (PropertyObjects \ {p}) \X Role : F[x[1]][x[2]] = o}
           A == <<p, "fget">>
           B == <<p, "notify">>
<1>1. IsFiniteSet(PropertyObjects) /\ IsFiniteSet(Role)
  <2>1. IsFiniteSet(PropertyObjects)
    BY FS_Subset
  <2>2. IsFiniteSet({"fget"})
    BY FS_Singleton
  <2>3. IsFiniteSet({"fget"} \cup {"notify"})
    BY <2>2, FS_AddElement
  <2>4. Role = {"fget"} \cup {"notify"}
    BY DEF Role
  <2> QED
    BY <2>1, <2>3, <2>4
<1>2. IsFiniteSet(PropertyObjects \X Role)
  BY <1>1, FS_Product
<1>3. IsFiniteSet(FieldPlaces(F, o)) /\ R \subseteq FieldPlaces(F, o)
  BY <1>2, FS_Subset DEF FieldPlaces
<1>4. IsFiniteSet(R)
  BY <1>3, FS_Subset
<1>5. FieldPlaces(F, o) = (R \cup (IF F[p]["fget"] = o THEN {A} ELSE {})) \cup (IF F[p]["notify"] = o THEN {B} ELSE {})
  BY DEF FieldPlaces, Role
<1>6. A \notin R /\ B \notin R /\ A # B
  OBVIOUS
<1>7. Cardinality(R) \in Nat
  BY <1>4, FS_CardinalityType
<1> HIDE DEF R, A, B
<1>8. /\ IsFiniteSet(R \cup {A}) /\ Cardinality(R \cup {A}) = Cardinality(R) + 1
      /\ Cardinality(R \cup {B}) = Cardinality(R) + 1
  BY <1>4, <1>6, FS_AddElement
<1>9. Cardinality((R \cup {A}) \cup {B}) = Cardinality(R) + 2
  <2>1. PICK Q : Q = R \cup {A}
    OBVIOUS
  <2>2. B \notin Q
    BY <1>6, <2>1
  <2>3. IsFiniteSet(Q) /\ Cardinality(Q) = Cardinality(R) + 1
    BY <1>8, <2>1
  <2>4. Cardinality(Q \cup {B}) = Cardinality(Q) + 1
    BY <2>2, <2>3, FS_AddElement
  <2> QED
    BY <1>7, <2>1, <2>3, <2>4
<1>10. Cardinality(FieldPlaces(F, o)) = Cardinality(R) + Times(o, F[p])
  <2>1. CASE F[p]["fget"] = o /\ F[p]["notify"] = o
    BY <1>5, <1>9, <2>1, TimesIs
  <2>2. CASE F[p]["fget"] = o /\ F[p]["notify"] # o
    <3>1. FieldPlaces(F, o) = R \cup {A}
      BY <1>5, <2>2
    <3>2. Times(o, F[p]) = 1
      BY <2>2, TimesIs
    <3> QED
      BY <1>8, <3>1, <3>2
  <2>3. CASE F[p]["fget"] # o /\ F[p]["notify"] = o
    <3>1. FieldPlaces(F, o) = R \cup {B}
      BY <1>5, <2>3
    <3>2. Times(o, F[p]) = 1
      BY <2>3, TimesIs
    <3> QED
      BY <1>8, <3>1, <3>2
  <2>4. CASE F[p]["fget"] # o /\ F[p]["notify"] # o
    <3>1. FieldPlaces(F, o) = R
      BY <1>5, <2>4
    <3>2. Times(o, F[p]) = 0
      BY <2>4, TimesIs
    <3> QED
      BY <1>7, <3>1, <3>2
  <2> QED
    BY <2>1, <2>2, <2>3, <2>4
<1> QED
  BY <1>3, <1>4, <1>10 DEF R

\* If the fields of one property change, its old fields are no more counted, and its new ones are.
LEMMA OneShown ==
  ASSUME NEW o, NEW p \in PropertyObjects,
         \A q \in PropertyObjects \ {p} : Shown(q)' = Shown(q)
  PROVE  Cardinality(InFields(o))' = Cardinality(InFields(o)) - Times(o, Shown(p)) + Times(o, Shown(p)')
<1>1. PICK F, G : F = [q \in PropertyObjects |-> Shown(q)] /\ G = [q \in PropertyObjects |-> Shown(q)']
  OBVIOUS
<1>2. \A q \in PropertyObjects \ {p} : F[q] = G[q]
  BY <1>1
<1>3. F[p] = Shown(p) /\ G[p] = Shown(p)'
  BY <1>1
<1>4. PICK R : R = {x \in (PropertyObjects \ {p}) \X Role : F[x[1]][x[2]] = o}
  OBVIOUS
<1>5. R = {x \in (PropertyObjects \ {p}) \X Role : G[x[1]][x[2]] = o}
  BY <1>2, <1>4
<1>6. IsFiniteSet(R) /\ Cardinality(FieldPlaces(F, o)) = Cardinality(R) + Times(o, F[p])
  BY <1>4, PlacesSplit, SMTT(20)
<1>7. Cardinality(FieldPlaces(G, o)) = Cardinality(R) + Times(o, G[p])
  BY <1>5, PlacesSplit
<1>8. InFields(o) = FieldPlaces(F, o) /\ InFields(o)' = FieldPlaces(G, o)
  BY <1>1 DEF InFields, FieldPlaces
<1>9. Cardinality(R) \in Nat /\ Times(o, F[p]) \in Nat /\ Times(o, G[p]) \in Nat
  BY <1>6, FS_CardinalityType, TimesType
<1> QED
  BY <1>3, <1>6, <1>7, <1>8, <1>9

LEMMA SameShown ==
  ASSUME NEW o, \A q \in PropertyObjects : Shown(q)' = Shown(q)
  PROVE  Cardinality(InFields(o))' = Cardinality(InFields(o))
<1>1. PICK F, G : F = [q \in PropertyObjects |-> Shown(q)] /\ G = [q \in PropertyObjects |-> Shown(q)']
  OBVIOUS
<1>2. F = G
  BY <1>1
<1>3. InFields(o) = FieldPlaces(F, o) /\ InFields(o)' = FieldPlaces(G, o)
  BY <1>1 DEF InFields, FieldPlaces
<1> QED
  BY <1>2, <1>3

\* The parts of the count of an object are numbers; where one is 0, nothing refers to the object.
LEMMA PartsAreCounts ==
  ASSUME AccessorTypes, NEW o \in Counts
  PROVE  /\ Has(o) \in Nat /\ Times(o, entering.args) \in Nat /\ Cardinality(InFields(o)) \in Nat
         /\ IsFiniteSet(InFunctions(o)) /\ Cardinality(InFunctions(o)) \in Nat
         /\ IsFiniteSet(InCalls(o)) /\ Cardinality(InCalls(o)) \in Nat
         /\ References(o) \in Nat
         /\ References(o) = 0 =>
              /\ o \notin known
              /\ \A r \in Role : entering.args[r] # o
              /\ \A p \in PropertyObjects, r \in Role : Shown(p)[r] # o
              /\ \A f \in existing \cap Accessor : RefersTo[f] # o
              /\ \A i \in 1..Len(accesses) : accesses[i].f # o /\ (accesses[i].p = o => o \in listed)
<1>1. Has(o) \in Nat /\ (Has(o) = 0 => o \notin known)
  BY DEF Has
<1>2. Times(o, entering.args) \in Nat
  BY TimesType
<1>3. Times(o, entering.args) = 0 => \A r \in Role : entering.args[r] # o
  BY TimesIs DEF Role
<1>4. IsFiniteSet(InFields(o)) /\ Cardinality(InFields(o)) \in Nat
  <2>1. CASE PropertyObjects = {}
    <3>1. InFields(o) = {}
      BY <2>1 DEF InFields, FieldPlaces
    <3> QED
      BY <3>1, FS_EmptySet
  <2>2. CASE PropertyObjects # {}
    <3>1. PICK p : p \in PropertyObjects
      BY <2>2
    <3>2. PICK F : F = [q \in PropertyObjects |-> Shown(q)]
      OBVIOUS
    <3>3. IsFiniteSet(FieldPlaces(F, o))
      BY <3>1, PlacesSplit
    <3> QED
      BY <3>2, <3>3, FS_CardinalityType DEF InFields
  <2> QED
    BY <2>1, <2>2
<1>5. Cardinality(InFields(o)) = 0 => \A p \in PropertyObjects, r \in Role : Shown(p)[r] # o
  <2> SUFFICES ASSUME Cardinality(InFields(o)) = 0, NEW p \in PropertyObjects, NEW r \in Role, Shown(p)[r] = o PROVE FALSE
    OBVIOUS
  <2>1. InFields(o) = {}
    BY <1>4, FS_EmptySet
  <2>2. <<p, r>> \in InFields(o)
    BY DEF InFields, FieldPlaces
  <2> QED
    BY <2>1, <2>2
<1>6. IsFiniteSet(InFunctions(o)) /\ Cardinality(InFunctions(o)) \in Nat
  <2>1. IsFiniteSet(InFunctions(o))
    BY FS_Subset DEF InFunctions
  <2> QED
    BY <2>1, FS_CardinalityType
<1>7. Cardinality(InFunctions(o)) = 0 => \A f \in existing \cap Accessor : RefersTo[f] # o
  <2> SUFFICES ASSUME Cardinality(InFunctions(o)) = 0 PROVE \A f \in existing \cap Accessor : RefersTo[f] # o
    OBVIOUS
  <2>1. InFunctions(o) = {}
    BY <1>6, FS_EmptySet
  <2> QED
    BY <2>1 DEF InFunctions
<1>8. IsFiniteSet(InCalls(o)) /\ Cardinality(InCalls(o)) \in Nat
  <2>1. IsFiniteSet(1..Len(accesses))
    BY CallsAreTyped, FS_Interval
  <2>2. IsFiniteSet(InCalls(o))
    BY <2>1, FS_Subset DEF InCalls
  <2> QED
    BY <2>2, FS_CardinalityType
<1>9. Cardinality(InCalls(o)) = 0 =>
        \A i \in 1..Len(accesses) : accesses[i].f # o /\ (accesses[i].p = o => o \in listed)
  <2> SUFFICES ASSUME Cardinality(InCalls(o)) = 0
               PROVE  \A i \in 1..Len(accesses) : accesses[i].f # o /\ (accesses[i].p = o => o \in listed)
    OBVIOUS
  <2>1. InCalls(o) = {}
    BY <1>8, FS_EmptySet
  <2> QED
    BY <2>1 DEF InCalls
<1>10. PICK a, b, c, d, e : /\ a = Has(o) /\ b = Times(o, entering.args) /\ c = Cardinality(InFields(o))
                            /\ d = Cardinality(InFunctions(o)) /\ e = Cardinality(InCalls(o))
  OBVIOUS
<1>11. a \in Nat /\ b \in Nat /\ c \in Nat /\ d \in Nat /\ e \in Nat /\ References(o) = a + b + c + d + e
  BY <1>1, <1>2, <1>4, <1>6, <1>8, <1>10 DEF References
<1>12. References(o) \in Nat /\ (References(o) = 0 => a = 0 /\ b = 0 /\ c = 0 /\ d = 0 /\ e = 0)
  BY <1>11
<1> QED
  BY <1>1, <1>2, <1>3, <1>4, <1>5, <1>6, <1>7, <1>8, <1>9, <1>10, <1>12

\* What is referred to, is there; what is due, has no reference.
LEMMA ReferredAreThere ==
  ASSUME AccessorTypes, DecentInv, NEW o \in Counts, o \notin existing \/ refs[o] <= 0
  PROVE  /\ refs[o] = 0 /\ o \notin known /\ o \notin handles
         /\ \A r \in Role : entering.args[r] # o
         /\ \A p \in PropertyObjects, r \in Role : Shown(p)[r] # o
         /\ \A f \in existing \cap Accessor : RefersTo[f] # o
         /\ \A i \in 1..Len(accesses) : accesses[i].f # o /\ accesses[i].p # o
<1>1. References(o) \in Nat /\ refs[o] = References(o)
  BY PartsAreCounts DEF DecentInv, CountsRight
<1>2. References(o) = 0
  BY <1>1 DEF DecentInv, GoneHaveNone
<1>3. /\ o \notin known
      /\ \A r \in Role : entering.args[r] # o
      /\ \A p \in PropertyObjects, r \in Role : Shown(p)[r] # o
      /\ \A f \in existing \cap Accessor : RefersTo[f] # o
      /\ \A i \in 1..Len(accesses) : accesses[i].f # o /\ (accesses[i].p = o => o \in listed)
  BY <1>2, PartsAreCounts
<1>4. o \notin handles
  BY <1>3 DEF DecentInv, KnownSound
<1>5. \A i \in 1..Len(accesses) : accesses[i].p # o
  BY <1>3, <1>4 DEF DecentInv, CallsSound
<1> QED
  BY <1>1, <1>2, <1>3, <1>4, <1>5

LEMMA FunctionComes ==
  ASSUME AccessorTypes, NEW f \in Accessor, f \notin existing, existing' = existing \cup {f}, NEW o \in Counts
  PROVE  Cardinality(InFunctions(o))' = Cardinality(InFunctions(o)) + (IF RefersTo[f] = o THEN 1 ELSE 0)
<1>1. PICK S, T : S = InFunctions(o) /\ T = InFunctions(o)'
  OBVIOUS
<1>2. T = (IF RefersTo[f] = o THEN S \cup {f} ELSE S) /\ f \notin S
  BY <1>1 DEF InFunctions
<1>3. IsFiniteSet(S) /\ Cardinality(S) \in Nat
  BY <1>1, PartsAreCounts
<1>4. Cardinality(S \cup {f}) = Cardinality(S) + 1
  BY <1>2, <1>3, FS_AddElement
<1> QED
  BY <1>1, <1>2, <1>3, <1>4

LEMMA FunctionGoes ==
  ASSUME AccessorTypes, NEW f \in Accessor, f \in existing, existing' = existing \ {f}, NEW o \in Counts
  PROVE  Cardinality(InFunctions(o))' = Cardinality(InFunctions(o)) - (IF RefersTo[f] = o THEN 1 ELSE 0)
<1>1. PICK S, T : S = InFunctions(o) /\ T = InFunctions(o)'
  OBVIOUS
<1>2. T = (IF RefersTo[f] = o THEN S \ {f} ELSE S) /\ (RefersTo[f] = o => f \in S)
  BY <1>1 DEF InFunctions
<1>3. IsFiniteSet(S) /\ Cardinality(S) \in Nat
  BY <1>1, PartsAreCounts
<1>4. RefersTo[f] = o => Cardinality(S \ {f}) = Cardinality(S) - 1
  BY <1>2, <1>3, FS_RemoveElement
<1> QED
  BY <1>1, <1>2, <1>3, <1>4

LEMMA SameFunctions ==
  ASSUME existing' \cap Accessor = existing \cap Accessor, NEW o
  PROVE  Cardinality(InFunctions(o))' = Cardinality(InFunctions(o))
BY DEF InFunctions

\* What a call holds: its function, and its property if that is no list.
CallHolds(c, o) == o = c.f \/ (o = c.p /\ o \notin listed)

LEMMA CallComes ==
  ASSUME AccessorTypes, NEW c \in AccessCall, accesses' = Append(accesses, c), listed' = listed, NEW o \in Counts
  PROVE  Cardinality(InCalls(o))' = Cardinality(InCalls(o)) + (IF CallHolds(c, o) THEN 1 ELSE 0)
<1>1. PICK S, T, n : S = InCalls(o) /\ T = InCalls(o)' /\ n = Len(accesses)
  OBVIOUS
<1>2. n \in Nat /\ Len(accesses') = n + 1 /\ accesses'[n + 1] = c /\ \A i \in 1..n : accesses'[i] = accesses[i]
  BY <1>1, StackPush, CallsAreTyped DEF AccessorTypes
<1>3. 1..(n + 1) = (1..n) \cup {n + 1} /\ n + 1 \notin 1..n
  BY <1>2
<1>4. T = {i \in 1..(n + 1) : CallHolds(accesses'[i], o)} /\ S = {i \in 1..n : CallHolds(accesses[i], o)}
  BY <1>1, <1>2 DEF InCalls, CallHolds
<1>5. T = (IF CallHolds(c, o) THEN S \cup {n + 1} ELSE S) /\ n + 1 \notin S
  BY <1>2, <1>3, <1>4
<1>6. IsFiniteSet(S) /\ Cardinality(S) \in Nat
  BY <1>1, PartsAreCounts
<1>7. Cardinality(S \cup {n + 1}) = Cardinality(S) + 1
  BY <1>5, <1>6, FS_AddElement
<1> QED
  BY <1>1, <1>5, <1>6, <1>7

LEMMA CallGoes ==
  ASSUME AccessorTypes, accesses # <<>>, accesses' = Front(accesses), listed' = listed, NEW o \in Counts
  PROVE  Cardinality(InCalls(o))' = Cardinality(InCalls(o)) - (IF CallHolds(Last(accesses), o) THEN 1 ELSE 0)
<1>1. PICK S, T, n, c : S = InCalls(o) /\ T = InCalls(o)' /\ n = Len(accesses) /\ c = Last(accesses)
  OBVIOUS
<1>2. /\ n \in Nat /\ n >= 1 /\ c = accesses[n]
      /\ Len(accesses') = n - 1 /\ \A i \in 1..(n - 1) : accesses'[i] = accesses[i]
  BY <1>1, StackPop, CallsAreTyped DEF AccessorTypes
<1>3. 1..n = (1..(n - 1)) \cup {n} /\ n \notin 1..(n - 1)
  BY <1>2
<1>4. T = {i \in 1..(n - 1) : CallHolds(accesses'[i], o)} /\ S = {i \in 1..n : CallHolds(accesses[i], o)}
  BY <1>1, <1>2 DEF InCalls, CallHolds
<1>5. T = (IF CallHolds(c, o) THEN S \ {n} ELSE S) /\ (CallHolds(c, o) => n \in S)
  BY <1>2, <1>3, <1>4
<1>6. IsFiniteSet(S) /\ Cardinality(S) \in Nat
  BY <1>1, PartsAreCounts
<1>7. CallHolds(c, o) => Cardinality(S \ {n}) = Cardinality(S) - 1
  BY <1>5, <1>6, FS_RemoveElement
<1> QED
  BY <1>1, <1>5, <1>6, <1>7

LEMMA SameCalls ==
  ASSUME accesses' = accesses, NEW o, o \in listed' <=> o \in listed
  PROVE  Cardinality(InCalls(o))' = Cardinality(InCalls(o))
BY DEF InCalls

LEMMA SameArgs ==
  ASSUME entering' = entering, NEW o
  PROVE  Times(o, entering.args)' = Times(o, entering.args)
BY DEF Times

LEMMA SameHas ==
  ASSUME known' = known, NEW o
  PROVE  Has(o)' = Has(o)
BY DEF Has

LEMMA CountedAt ==
  ASSUME NEW o \in Counts
  PROVE  /\ None[o] = 0
         /\ \A q \in Counts : One(q)[o] = IF o = q THEN 1 ELSE 0
         /\ \A q, f \in Counts : [One(q) EXCEPT ![f] = 1][o] = IF o = q \/ o = f THEN 1 ELSE 0
         /\ \A args : Of(args)[o] = Times(o, args)
         /\ \A come, go : Counted(come, go)[o] = refs[o] + come[o] - go[o]
BY DEF None, One, Of, Counted, Counts

\* A property that is not in its constructor shows its fields.
LEMMA ShownFields ==
  ASSUME AccessorTypes, DecentInv, NEW p \in known \cap PropertyObjects
  PROVE  /\ p \in existing /\ FieldsHeld(p) = FieldsOf(p)
         /\ p \notin listed /\ entering.on # p => Shown(p) = FieldsOf(p)
         /\ \A r \in Role : FieldsOf(p)[r] \in existing \cup {Null}
<1>1. p \in existing /\ FieldsHeld(p) = FieldsOf(p)
  BY DEF DecentInv, KnownSound, FieldsHeld
<1>2. p \notin listed /\ entering.on # p => Shown(p) = FieldsOf(p)
  BY <1>1 DEF Shown
<1>3. ASSUME NEW r \in Role PROVE FieldsOf(p)[r] \in existing \cup {Null}
  <2> SUFFICES ASSUME FieldsOf(p)[r] # Null, FieldsOf(p)[r] \notin existing PROVE FALSE
    OBVIOUS
  <2>1. PICK f : f = FieldsOf(p)[r]
    OBVIOUS
  <2>2. f \in Counts /\ f \notin existing
    BY <2>1, FieldsAreTyped, ArgsAreTyped DEF Counts
  <2>3. CASE p \in listed
    BY <1>1, <2>1, <2>2, <2>3 DEF DecentInv, KnownSound
  <2>4. CASE entering.on = p
    <3>1. entering # NoInit
      BY <2>4 DEF NoInit
    <3>2. entering.args[r] = f
      BY <2>1, <2>4, <3>1 DEF DecentInv, EnteringSound
    <3> QED
      BY <2>2, <3>2, ReferredAreThere
  <2>5. CASE p \notin listed /\ entering.on # p
    <3>1. Shown(p)[r] = f
      BY <1>2, <2>1, <2>5
    <3> QED
      BY <2>2, <3>1, ReferredAreThere
  <2> QED
    BY <2>3, <2>4, <2>5
<1> QED
  BY <1>1, <1>2, <1>3

-----------------------------------------------------------------------------
(* The invariant of decent programs, action by action *)

LEMMA NewFunctionKeeps ==
  ASSUME AccessorTypes, DecentInv, NEW f \in Accessor, NewFunction(f)
  PROVE  DecentInv'
<1>1. /\ f \notin tried /\ (RefersTo[f] # Null => RefersTo[f] \in known)
      /\ existing' = existing \cup {f} /\ tried' = tried \cup {f} /\ known' = known \cup {f}
      /\ UNCHANGED <<ways, data, listed, docs, entering, accesses, handles, touched>>
  BY DEF NewFunction
<1>2. f \in Counts /\ f \notin existing /\ f \notin known /\ f \notin PropertyObjects /\ f \notin listed
  BY <1>1 DEF Counts, DecentInv, KnownSound, AccessorTypes
<1>3. RefersTo[f] # Null => RefersTo[f] \in Counts /\ RefersTo[f] # f
  BY <1>2 DEF Counts
<1>4. PICK come : come = IF RefersTo[f] = Null THEN One(f) ELSE [One(f) EXCEPT ![RefersTo[f]] = 1]
  OBVIOUS
<1>5. ASSUME NEW o \in Counts
      PROVE  refs'[o] = refs[o] + (IF o = f THEN 1 ELSE 0) + (IF o = RefersTo[f] THEN 1 ELSE 0)
  <2>1. refs'[o] = refs[o] + come[o] - None[o]
    <3>1. refs' = Counted(come, None)
      BY <1>4 DEF NewFunction
    <3> QED
      BY <3>1, CountedAt
  <2>2. come[o] = IF o = f \/ o = RefersTo[f] THEN 1 ELSE 0
    <3>1. CASE RefersTo[f] = Null
      BY <1>2, <1>4, <3>1, CountedAt DEF Counts
    <3>2. CASE RefersTo[f] # Null
      BY <1>2, <1>3, <1>4, <3>2, CountedAt
    <3> QED
      BY <3>1, <3>2
  <2>3. refs[o] \in Int
    BY DEF AccessorTypes
  <2> QED
    BY <1>2, <1>3, <2>1, <2>2, <2>3, CountedAt
<1>6. \A q \in PropertyObjects : Shown(q)' = Shown(q)
  BY <1>1, <1>2 DEF Shown, FieldsHeld, FieldsOf
<1>7. CountsRight'
  <2> SUFFICES ASSUME NEW o \in Counts PROVE refs'[o] = References(o)'
    BY DEF CountsRight
  <2>1. Has(o)' = Has(o) + IF o = f THEN 1 ELSE 0
    BY <1>1, <1>2 DEF Has
  <2>2. Cardinality(InFunctions(o))' = Cardinality(InFunctions(o)) + (IF RefersTo[f] = o THEN 1 ELSE 0)
    BY <1>1, <1>2, FunctionComes
  <2>3. /\ Cardinality(InFields(o))' = Cardinality(InFields(o)) /\ Cardinality(InCalls(o))' = Cardinality(InCalls(o))
        /\ Times(o, entering.args)' = Times(o, entering.args)
    BY <1>1, <1>6, SameShown, SameCalls, SameArgs
  <2>4. refs[o] = References(o)
    BY DEF DecentInv, CountsRight
  <2> QED
    BY <1>5, <2>1, <2>2, <2>3, <2>4, PartsAreCounts DEF References
<1>8. GoneHaveNone'
  <2> SUFFICES ASSUME NEW o \in Counts, o \notin existing' PROVE refs'[o] = 0
    BY DEF GoneHaveNone
  <2>1. o \notin existing /\ o # f /\ refs[o] = 0
    BY <1>1 DEF DecentInv, GoneHaveNone
  <2>2. o # RefersTo[f]
    BY <1>1, <1>3, <2>1 DEF DecentInv, KnownSound, Counts
  <2> QED
    BY <1>5, <2>1, <2>2
<1>9. KnownSound'
  BY <1>1, <1>2 DEF KnownSound, DecentInv, FieldsOf, AccessorTypes
<1>10. EnteringSound' /\ CallsSound' /\ DocsSound' /\ touched' = {}
  BY <1>1, <1>2 DEF DecentInv, EnteringSound, CallsSound, DocsSound, FieldsOf
<1> QED
  BY <1>7, <1>8, <1>9, <1>10 DEF DecentInv

LEMMA FreeFunctionKeeps ==
  ASSUME AccessorTypes, DecentInv, NEW f \in Accessor, FreeFunction(f)
  PROVE  DecentInv'
<1>1. /\ f \in existing /\ refs[f] <= 0 /\ existing' = existing \ {f}
      /\ UNCHANGED <<ways, tried, known, data, listed, docs, entering, accesses, handles, touched>>
  BY DEF FreeFunction, Due
<1>2. f \in Counts /\ f \notin PropertyObjects
  BY DEF Counts
<1>3. refs[f] = 0 /\ f \notin known
  BY <1>1, <1>2, ReferredAreThere
<1>4. RefersTo[f] # Null => RefersTo[f] \in Counts /\ RefersTo[f] # f /\ RefersTo[f] \in existing
  BY <1>1, <1>2, ReferredAreThere DEF Counts
<1>5. PICK go : go = IF RefersTo[f] = Null THEN None ELSE One(RefersTo[f])
  OBVIOUS
<1>6. ASSUME NEW o \in Counts PROVE refs'[o] = refs[o] - (IF o = RefersTo[f] THEN 1 ELSE 0)
  <2>1. refs'[o] = refs[o] + None[o] - go[o]
    BY <1>5, CountedAt DEF FreeFunction
  <2>2. go[o] = IF o = RefersTo[f] THEN 1 ELSE 0
    BY <1>4, <1>5, CountedAt DEF Counts
  <2>3. refs[o] \in Int
    BY DEF AccessorTypes
  <2> QED
    BY <2>1, <2>2, <2>3, CountedAt
<1>7. \A q \in PropertyObjects : Shown(q)' = Shown(q)
  BY <1>1, <1>2 DEF Shown, FieldsHeld, FieldsOf
<1>8. CountsRight'
  <2> SUFFICES ASSUME NEW o \in Counts PROVE refs'[o] = References(o)'
    BY DEF CountsRight
  <2>1. Cardinality(InFunctions(o))' = Cardinality(InFunctions(o)) - (IF RefersTo[f] = o THEN 1 ELSE 0)
    BY <1>1, FunctionGoes
  <2>2. /\ Cardinality(InFields(o))' = Cardinality(InFields(o)) /\ Cardinality(InCalls(o))' = Cardinality(InCalls(o))
        /\ Times(o, entering.args)' = Times(o, entering.args) /\ Has(o)' = Has(o)
    BY <1>1, <1>7, SameShown, SameCalls, SameArgs, SameHas
  <2>3. refs[o] = References(o)
    BY DEF DecentInv, CountsRight
  <2> QED
    BY <1>6, <2>1, <2>2, <2>3, PartsAreCounts DEF References
<1>9. GoneHaveNone'
  <2> SUFFICES ASSUME NEW o \in Counts, o \notin existing' PROVE refs'[o] = 0
    BY DEF GoneHaveNone
  <2>1. o # RefersTo[f] /\ refs[o] = 0
    BY <1>1, <1>3, <1>4 DEF DecentInv, GoneHaveNone, Counts
  <2> QED
    BY <1>6, <2>1
<1>10. KnownSound'
  BY <1>1, <1>2, <1>3 DEF KnownSound, DecentInv, FieldsOf, AccessorTypes
<1>11. EnteringSound' /\ CallsSound' /\ DocsSound' /\ touched' = {}
  BY <1>1, <1>2 DEF DecentInv, EnteringSound, CallsSound, DocsSound, FieldsOf
<1> QED
  BY <1>8, <1>9, <1>10, <1>11 DEF DecentInv

LEMMA ForgetKeeps ==
  ASSUME AccessorTypes, Decent, DecentInv, NEW o \in Counts, Forget(o)
  PROVE  DecentInv'
<1>1. /\ o \in known /\ o # entering.on /\ ~Keeps(o)
      /\ known' = known \ {o} /\ refs' = Counted(None, One(o))
      /\ UNCHANGED <<ways, existing, tried, data, listed, docs, entering, accesses, handles, touched>>
  BY DEF Forget
<1>2. o \notin handles /\ \A p \in listed \cap existing, r \in Role : FieldsOf(p)[r] # o
  BY <1>1 DEF Keeps, Decent
<1>3. ASSUME NEW q \in Counts PROVE refs'[q] = refs[q] - (IF q = o THEN 1 ELSE 0)
  <2>1. refs'[q] = refs[q] + None[q] - One(o)[q] /\ refs[q] \in Int
    BY <1>1, CountedAt DEF AccessorTypes
  <2> QED
    BY <2>1, CountedAt
<1>4. \A q \in PropertyObjects : Shown(q)' = Shown(q)
  BY <1>1 DEF Shown, FieldsHeld, FieldsOf
<1>5. CountsRight'
  <2> SUFFICES ASSUME NEW q \in Counts PROVE refs'[q] = References(q)'
    BY DEF CountsRight
  <2>1. Has(q)' = Has(q) - IF q = o THEN 1 ELSE 0
    BY <1>1 DEF Has
  <2>2. /\ Cardinality(InFields(q))' = Cardinality(InFields(q)) /\ Cardinality(InCalls(q))' = Cardinality(InCalls(q))
        /\ Times(q, entering.args)' = Times(q, entering.args)
        /\ Cardinality(InFunctions(q))' = Cardinality(InFunctions(q))
    BY <1>1, <1>4, SameShown, SameCalls, SameArgs, SameFunctions
  <2>3. refs[q] = References(q)
    BY DEF DecentInv, CountsRight
  <2>4. /\ Has(q) \in Nat /\ Times(q, entering.args) \in Nat /\ Cardinality(InFields(q)) \in Nat
        /\ Cardinality(InFunctions(q)) \in Nat /\ Cardinality(InCalls(q)) \in Nat
    BY PartsAreCounts
  <2> QED
    BY <1>3, <2>1, <2>2, <2>3, <2>4 DEF References
<1>6. GoneHaveNone'
  BY <1>1, <1>3 DEF GoneHaveNone, DecentInv, KnownSound
<1>7. KnownSound'
  BY <1>1, <1>2 DEF KnownSound, DecentInv, FieldsOf
<1>8. EnteringSound' /\ CallsSound' /\ DocsSound' /\ touched' = {}
  BY <1>1 DEF DecentInv, EnteringSound, CallsSound, DocsSound, FieldsOf
<1> QED
  BY <1>5, <1>6, <1>7, <1>8 DEF DecentInv

LEMMA GetAccessorKeeps ==
  ASSUME AccessorTypes, DecentInv, NEW p \in PropertyObjects, NEW r \in Role, GetAccessor(p, r)
  PROVE  DecentInv'
<1>1. PICK f : f = FieldsOf(p)[r]
  OBVIOUS
<1>2. /\ p \in known /\ p \notin listed /\ f # Null /\ f \notin known
      /\ known' = known \cup {f} /\ refs' = Counted(One(f), None)
      /\ UNCHANGED <<ways, existing, tried, data, listed, docs, entering, accesses, handles, touched>>
  BY <1>1 DEF GetAccessor
<1>3. f \in existing /\ f \in Counts /\ f \notin PropertyObjects
  BY <1>1, <1>2, ShownFields, FieldsAreTyped, ArgsAreTyped DEF Counts
<1>4. ASSUME NEW q \in Counts PROVE refs'[q] = refs[q] + (IF q = f THEN 1 ELSE 0)
  <2>1. refs'[q] = refs[q] + One(f)[q] - None[q] /\ refs[q] \in Int
    BY <1>2, CountedAt DEF AccessorTypes
  <2> QED
    BY <1>3, <2>1, CountedAt
<1>5. \A q \in PropertyObjects : Shown(q)' = Shown(q)
  BY <1>2 DEF Shown, FieldsHeld, FieldsOf
<1>6. CountsRight'
  <2> SUFFICES ASSUME NEW q \in Counts PROVE refs'[q] = References(q)'
    BY DEF CountsRight
  <2>1. Has(q)' = Has(q) + IF q = f THEN 1 ELSE 0
    BY <1>2 DEF Has
  <2>2. /\ Cardinality(InFields(q))' = Cardinality(InFields(q)) /\ Cardinality(InCalls(q))' = Cardinality(InCalls(q))
        /\ Times(q, entering.args)' = Times(q, entering.args)
        /\ Cardinality(InFunctions(q))' = Cardinality(InFunctions(q))
    BY <1>2, <1>5, SameShown, SameCalls, SameArgs, SameFunctions
  <2>3. refs[q] = References(q)
    BY DEF DecentInv, CountsRight
  <2> QED
    BY <1>4, <2>1, <2>2, <2>3, PartsAreCounts DEF References
<1>7. GoneHaveNone'
  BY <1>2, <1>3, <1>4 DEF GoneHaveNone, DecentInv
<1>8. KnownSound'
  BY <1>2, <1>3 DEF KnownSound, DecentInv, FieldsOf
<1>9. EnteringSound' /\ CallsSound' /\ DocsSound' /\ touched' = {}
  BY <1>2 DEF DecentInv, EnteringSound, CallsSound, DocsSound, FieldsOf
<1> QED
  BY <1>6, <1>7, <1>8, <1>9 DEF DecentInv

\* Nothing that is counted changes.
LEMMA CountsStay ==
  ASSUME DecentInv, UNCHANGED <<existing, refs, known, data, listed, entering, accesses>>
  PROVE  CountsRight' /\ GoneHaveNone'
<1>1. \A q \in PropertyObjects : Shown(q)' = Shown(q)
  BY DEF Shown, FieldsHeld, FieldsOf
<1>2. ASSUME NEW o \in Counts PROVE refs'[o] = References(o)'
  <2>1. /\ Cardinality(InFields(o))' = Cardinality(InFields(o)) /\ Cardinality(InCalls(o))' = Cardinality(InCalls(o))
        /\ Times(o, entering.args)' = Times(o, entering.args) /\ Has(o)' = Has(o)
        /\ Cardinality(InFunctions(o))' = Cardinality(InFunctions(o))
    BY <1>1, SameShown, SameCalls, SameArgs, SameHas, SameFunctions
  <2> QED
    BY <2>1 DEF References, DecentInv, CountsRight
<1> QED
  BY <1>2 DEF CountsRight, DecentInv, GoneHaveNone

LEMMA QuietKeeps ==
  ASSUME AccessorTypes, DecentInv, NEW p \in PropertyObjects, GetDoc(p) \/ ReadList(p) \/ DropHandle(p)
  PROVE  DecentInv'
<1>1. UNCHANGED <<existing, tried, refs, known, data, listed, entering, accesses, touched>>
  BY DEF GetDoc, ReadList, DropHandle
<1>2. CountsRight' /\ GoneHaveNone'
  BY <1>1, CountsStay
<1>3. CASE GetDoc(p)
  <2>1. /\ entering.on # p /\ docs' = [docs EXCEPT ![p] = FieldsOf(p)["fget"]] /\ handles' = handles
    BY <1>3 DEF GetDoc
  <2>2. KnownSound' /\ CallsSound' /\ touched' = {}
    BY <1>1, <2>1 DEF KnownSound, CallsSound, DecentInv, FieldsOf
  <2>3. EnteringSound'
    BY <1>1, <2>1 DEF EnteringSound, DecentInv, FieldsOf, AccessorTypes, Begun
  <2>4. DocsSound'
    BY <1>1, <2>1 DEF DocsSound, DecentInv, FieldsOf, AccessorTypes
  <2> QED
    BY <1>2, <2>2, <2>3, <2>4 DEF DecentInv
<1>4. CASE ReadList(p)
  BY <1>1, <1>2, <1>4 DEF ReadList, DecentInv, KnownSound, EnteringSound, CallsSound, DocsSound, FieldsOf
<1>5. CASE DropHandle(p)
  BY <1>1, <1>2, <1>5 DEF DropHandle, DecentInv, KnownSound, EnteringSound, CallsSound, DocsSound, FieldsOf
<1> QED
  BY <1>3, <1>4, <1>5

\* A call begins: what it holds is counted.
CallBegins(f, p) ==
  /\ accesses' = Append(accesses, [f |-> f, p |-> p])
  /\ refs' = Counted(IF p \in listed THEN One(f) ELSE [One(p) EXCEPT ![f] = 1], None)
  /\ UNCHANGED <<ways, existing, tried, known, data, listed, docs, entering, handles, touched>>

LEMMA CallKeeps ==
  ASSUME AccessorTypes, DecentInv, NEW f \in Accessor, NEW p \in PropertyObjects,
         f \in existing, p \in existing, p \in listed => p \in handles,
         CallBegins(f, p)
  PROVE  DecentInv'
<1>0. /\ accesses' = Append(accesses, [f |-> f, p |-> p])
      /\ UNCHANGED <<ways, existing, tried, known, data, listed, docs, entering, handles, touched>>
  BY DEF CallBegins
<1>1. PICK c : c = [f |-> f, p |-> p]
  OBVIOUS
<1>2. c \in AccessCall /\ c.f = f /\ c.p = p /\ f \in Counts /\ p \in Counts
  BY <1>1 DEF AccessCall, Counts
<1>3. ASSUME NEW o \in Counts PROVE refs'[o] = refs[o] + (IF CallHolds(c, o) THEN 1 ELSE 0)
  <2>1. PICK come : come = IF p \in listed THEN One(f) ELSE [One(p) EXCEPT ![f] = 1]
    OBVIOUS
  <2>2. refs' = Counted(come, None)
    BY <2>1 DEF CallBegins
  <2>3. refs'[o] = refs[o] + come[o] - None[o] /\ refs[o] \in Int
    BY <2>2, CountedAt DEF AccessorTypes
  <2>4. come[o] = IF CallHolds(c, o) THEN 1 ELSE 0
    BY <1>2, <2>1, CountedAt DEF CallHolds
  <2> QED
    BY <2>3, <2>4, CountedAt
<1>4. \A q \in PropertyObjects : Shown(q)' = Shown(q)
  BY <1>0 DEF Shown, FieldsHeld, FieldsOf
<1>5. CountsRight'
  <2> SUFFICES ASSUME NEW o \in Counts PROVE refs'[o] = References(o)'
    BY DEF CountsRight
  <2>1. Cardinality(InCalls(o))' = Cardinality(InCalls(o)) + (IF CallHolds(c, o) THEN 1 ELSE 0)
    BY <1>0, <1>1, <1>2, CallComes
  <2>2. /\ Cardinality(InFields(o))' = Cardinality(InFields(o)) /\ Has(o)' = Has(o)
        /\ Times(o, entering.args)' = Times(o, entering.args)
        /\ Cardinality(InFunctions(o))' = Cardinality(InFunctions(o))
    BY <1>0, <1>4, SameShown, SameHas, SameArgs, SameFunctions
  <2>3. refs[o] = References(o)
    BY DEF DecentInv, CountsRight
  <2> QED
    BY <1>3, <2>1, <2>2, <2>3, PartsAreCounts DEF References
<1>6. GoneHaveNone'
  <2> SUFFICES ASSUME NEW o \in Counts, o \notin existing PROVE refs'[o] = 0
    BY <1>0 DEF GoneHaveNone
  <2>1. ~CallHolds(c, o) /\ refs[o] = 0
    BY <1>2 DEF CallHolds, DecentInv, GoneHaveNone
  <2> QED
    BY <1>3, <2>1
<1>7. CallsSound'
  <2> SUFFICES ASSUME NEW i \in 1..Len(accesses'), accesses'[i].p \in listed PROVE accesses'[i].p \in handles
    BY <1>0 DEF CallsSound
  <2>1. /\ Len(accesses) \in Nat /\ Len(accesses') = Len(accesses) + 1 /\ accesses'[Len(accesses) + 1] = c
        /\ \A j \in 1..Len(accesses) : accesses'[j] = accesses[j]
    BY <1>0, <1>1, <1>2, StackPush, CallsAreTyped DEF AccessorTypes
  <2>2. CASE i = Len(accesses) + 1
    BY <1>2, <2>1, <2>2
  <2>3. CASE i \in 1..Len(accesses)
    BY <2>1, <2>3 DEF DecentInv, CallsSound
  <2> QED
    BY <2>1, <2>2, <2>3
<1>8. KnownSound' /\ EnteringSound' /\ DocsSound' /\ touched' = {}
  BY <1>0 DEF DecentInv, KnownSound, EnteringSound, DocsSound, FieldsOf
<1> QED
  BY <1>5, <1>6, <1>7, <1>8 DEF DecentInv

LEMMA CallAccessorKeeps ==
  ASSUME AccessorTypes, DecentInv, NEW p \in PropertyObjects, NEW r \in Role, CallAccessor(p, r)
  PROVE  DecentInv'
<1>1. PICK f : f = FieldsOf(p)[r]
  OBVIOUS
<1>2. /\ p \in known /\ p \notin listed /\ f # Null
      /\ accesses' = Append(accesses, [f |-> f, p |-> p])
      /\ refs' = Counted([One(p) EXCEPT ![f] = 1], None)
      /\ UNCHANGED <<ways, existing, tried, known, data, listed, docs, entering, handles, touched>>
  BY <1>1 DEF CallAccessor
<1>3. f \in Accessor /\ f \in existing /\ p \in existing
  BY <1>1, <1>2, ShownFields, FieldsAreTyped, ArgsAreTyped
<1>4. refs' = Counted(IF p \in listed THEN One(f) ELSE [One(p) EXCEPT ![f] = 1], None)
  BY <1>2
<1> QED
  BY <1>2, <1>3, <1>4, CallKeeps DEF CallBegins

LEMMA CallListKeeps ==
  ASSUME AccessorTypes, DecentInv, NEW p \in PropertyObjects, CallList(p)
  PROVE  DecentInv'
<1>1. PICK f : f = FieldsOf(p)["fget"]
  OBVIOUS
<1>2. p \in handles /\ f # Null /\ touched' = touched \cup ({p, f} \ existing)
  BY <1>1 DEF CallList
<1>3. p \in known /\ p \in listed
  BY <1>2 DEF DecentInv, KnownSound
<1>4. f \in Accessor /\ f \in existing /\ p \in existing
  BY <1>1, <1>2, <1>3, ShownFields, FieldsAreTyped, ArgsAreTyped DEF Role
<1>5. touched' = touched
  BY <1>2, <1>4
<1>6. /\ accesses' = Append(accesses, [f |-> f, p |-> p]) /\ refs' = Counted(One(f), None)
      /\ UNCHANGED <<ways, existing, tried, known, data, listed, docs, entering, handles>>
  BY <1>1, <1>5 DEF CallList
<1>7. refs' = Counted(IF p \in listed THEN One(f) ELSE [One(p) EXCEPT ![f] = 1], None)
  BY <1>3, <1>6
<1> QED
  BY <1>2, <1>4, <1>5, <1>6, <1>7, CallKeeps DEF CallBegins

LEMMA AccessReturnsKeeps ==
  ASSUME AccessorTypes, DecentInv, AccessReturns
  PROVE  DecentInv'
<1>1. PICK c : c = Last(accesses)
  OBVIOUS
<1>2. /\ accesses # <<>> /\ accesses' = Front(accesses)
      /\ refs' = Counted(None, IF c.p \in listed THEN One(c.f) ELSE [One(c.p) EXCEPT ![c.f] = 1])
      /\ touched' = touched \cup ({c.p} \ existing)
      /\ UNCHANGED <<ways, existing, tried, known, data, listed, docs, entering, handles>>
  BY <1>1 DEF AccessReturns
<1>3. PICK n : n = Len(accesses)
  OBVIOUS
<1>4. n \in Nat /\ n >= 1 /\ c = accesses[n] /\ c \in AccessCall
  BY <1>1, <1>2, <1>3, CallsAreTyped
<1>5. c.f \in Counts /\ c.p \in Counts /\ c.f \in existing /\ c.p \in existing
  <2>1. c.f \in Counts /\ c.p \in Counts
    BY <1>4 DEF AccessCall, Counts
  <2>2. n \in 1..Len(accesses) /\ accesses[n].f = c.f /\ accesses[n].p = c.p
    BY <1>3, <1>4
  <2> QED
    BY <2>1, <2>2, ReferredAreThere
<1>6. ASSUME NEW o \in Counts PROVE refs'[o] = refs[o] - (IF CallHolds(c, o) THEN 1 ELSE 0)
  <2>1. PICK go : go = IF c.p \in listed THEN One(c.f) ELSE [One(c.p) EXCEPT ![c.f] = 1]
    OBVIOUS
  <2>2. refs' = Counted(None, go)
    BY <1>2, <2>1
  <2>3. refs'[o] = refs[o] + None[o] - go[o] /\ refs[o] \in Int
    BY <2>2, CountedAt DEF AccessorTypes
  <2>4. go[o] = IF CallHolds(c, o) THEN 1 ELSE 0
    BY <1>5, <2>1, CountedAt DEF CallHolds
  <2> QED
    BY <2>3, <2>4, CountedAt
<1>7. \A q \in PropertyObjects : Shown(q)' = Shown(q)
  BY <1>2 DEF Shown, FieldsHeld, FieldsOf
<1>8. CountsRight'
  <2> SUFFICES ASSUME NEW o \in Counts PROVE refs'[o] = References(o)'
    BY DEF CountsRight
  <2>1. Cardinality(InCalls(o))' = Cardinality(InCalls(o)) - (IF CallHolds(c, o) THEN 1 ELSE 0)
    BY <1>1, <1>2, CallGoes
  <2>2. /\ Cardinality(InFields(o))' = Cardinality(InFields(o)) /\ Has(o)' = Has(o)
        /\ Times(o, entering.args)' = Times(o, entering.args)
        /\ Cardinality(InFunctions(o))' = Cardinality(InFunctions(o))
    BY <1>2, <1>7, SameShown, SameHas, SameArgs, SameFunctions
  <2>3. refs[o] = References(o)
    BY DEF DecentInv, CountsRight
  <2> QED
    BY <1>6, <2>1, <2>2, <2>3, PartsAreCounts DEF References
<1>9. GoneHaveNone'
  <2> SUFFICES ASSUME NEW o \in Counts, o \notin existing PROVE refs'[o] = 0
    BY <1>2 DEF GoneHaveNone
  <2>1. ~CallHolds(c, o) /\ refs[o] = 0
    BY <1>5 DEF CallHolds, DecentInv, GoneHaveNone
  <2> QED
    BY <1>6, <2>1
<1>10. CallsSound'
  <2>1. Len(accesses') = n - 1 /\ \A i \in 1..(n - 1) : accesses'[i] = accesses[i]
    BY <1>2, <1>3, StackPop DEF AccessorTypes
  <2> QED
    BY <1>2, <1>3, <1>4, <2>1 DEF CallsSound, DecentInv
<1>11. KnownSound' /\ EnteringSound' /\ DocsSound' /\ touched' = {}
  BY <1>2, <1>5 DEF DecentInv, KnownSound, EnteringSound, DocsSound, FieldsOf
<1> QED
  BY <1>8, <1>9, <1>10, <1>11 DEF DecentInv

-----------------------------------------------------------------------------
(* What the collector reaches *)

LEMMA RootsAreReached == Roots \subseteq Reached
<1> DEFINE K == Cardinality(Accessor \cup PropertyObjects)
           IsAfter(f, k) == f = [n \in 0..k |-> IF n = 0 THEN Roots ELSE ReferredBy(f[n - 1])]
           S == {k \in Nat : \E f : IsAfter(f, k)}
<1>1. K \in Nat
  BY FS_CardinalityType
<1>2. 0 \in S
  <2>1. IsAfter([n \in 0..0 |-> Roots], 0)
    OBVIOUS
  <2> QED
    BY <2>1
<1>3. ASSUME NEW k \in S PROVE k + 1 \in S
  <2>1. PICK f : IsAfter(f, k)
    BY <1>3
  <2>2. PICK g : g = [n \in 0..(k + 1) |-> IF n <= k THEN f[n] ELSE ReferredBy(f[k])]
    OBVIOUS
  <2>3. \A n \in 0..k : f[n] = IF n = 0 THEN Roots ELSE ReferredBy(f[n - 1])
    BY <2>1
  <2>4. ASSUME NEW n \in 0..(k + 1) PROVE g[n] = IF n = 0 THEN Roots ELSE ReferredBy(g[n - 1])
    <3>1. CASE n <= k
      <4>1. n \in 0..k /\ g[n] = f[n] /\ (n # 0 => g[n - 1] = f[n - 1])
        BY <2>2, <3>1
      <4> QED
        BY <2>3, <4>1
    <3>2. CASE n = k + 1
      <4>1. g[n] = ReferredBy(f[k]) /\ g[n - 1] = f[k] /\ n # 0
        BY <2>2, <3>2
      <4> QED
        BY <4>1
    <3> QED
      BY <3>1, <3>2
  <2>5. g = [n \in 0..(k + 1) |-> IF n = 0 THEN Roots ELSE ReferredBy(g[n - 1])]
    BY <2>2, <2>4
  <2> QED
    BY <2>5
<1>4. S = Nat
  <2> HIDE DEF S
  <2>1. S \in SUBSET Nat
    BY DEF S
  <2> QED
    BY <1>2, <1>3, <2>1, AllNumbers
<1>5. PICK f : IsAfter(f, K)
  BY <1>1, <1>4
<1>6. PICK after : after = CHOOSE g : IsAfter(g, K)
  OBVIOUS
<1>7. IsAfter(after, K)
  BY <1>5, <1>6
<1>8. Reached = after[K]
  BY <1>6 DEF Reached
<1> DEFINE T == {k \in Nat : k <= K => Roots \subseteq after[k]}
<1>9. 0 \in T
  BY <1>1, <1>7
<1>10. ASSUME NEW k \in T PROVE k + 1 \in T
  <2> SUFFICES ASSUME k + 1 <= K PROVE Roots \subseteq after[k + 1]
    OBVIOUS
  <2>1. after[k + 1] = ReferredBy(after[k])
    <3>1. \A n \in 0..K : after[n] = IF n = 0 THEN Roots ELSE ReferredBy(after[n - 1])
      BY <1>7
    <3>2. k + 1 \in 0..K /\ k + 1 # 0 /\ (k + 1) - 1 = k
      BY <1>1
    <3> HIDE DEF K, T
    <3> QED
      BY <3>1, <3>2
  <2>2. Roots \subseteq after[k]
    BY <1>1
  <2> QED
    BY <2>1, <2>2 DEF ReferredBy
<1>11. T = Nat
  <2> HIDE DEF T
  <2>1. T \in SUBSET Nat
    BY DEF T
  <2> QED
    BY <1>9, <1>10, <2>1, AllNumbers
<1> QED
  BY <1>1, <1>8, <1>11

-----------------------------------------------------------------------------
(* The invariant, for the actions that change fields *)

LEMMA FieldsChange ==
  ASSUME AccessorTypes, AccessorTypes', DecentInv, NEW p \in PropertyObjects,
         \A q \in PropertyObjects \ {p} : Shown(q)' = Shown(q),
         existing' \cap Accessor = existing \cap Accessor, NEW o \in Counts,
         Cardinality(InCalls(o))' = Cardinality(InCalls(o))
  PROVE  /\ References(o)' = refs[o] - Has(o) + Has(o)' - Times(o, entering.args) + Times(o, entering.args)'
                               - Times(o, Shown(p)) + Times(o, Shown(p)')
         /\ refs[o] \in Int /\ Has(o) \in Nat /\ Has(o)' \in Nat /\ Times(o, entering.args) \in Nat
         /\ Times(o, entering.args)' \in Nat /\ Times(o, Shown(p)) \in Nat /\ Times(o, Shown(p)') \in Nat
<1>1. PICK a, b, c, d, e : /\ a = Has(o) /\ b = Times(o, entering.args) /\ c = Cardinality(InFields(o))
                           /\ d = Cardinality(InFunctions(o)) /\ e = Cardinality(InCalls(o))
  OBVIOUS
<1>2. a \in Nat /\ b \in Nat /\ c \in Nat /\ d \in Nat /\ e \in Nat
  BY <1>1, PartsAreCounts
<1>3. refs[o] = a + b + c + d + e
  BY <1>1 DEF References, DecentInv, CountsRight
<1>4. PICK t, u, v, w : /\ t = Times(o, Shown(p)) /\ u = Times(o, Shown(p)')
                        /\ v = Times(o, entering.args)' /\ w = Has(o)'
  OBVIOUS
<1>5. t \in Nat /\ u \in Nat
  BY <1>4, TimesType
<1>6. v \in Nat /\ w \in Nat
  <2>1. PICK x : x = entering'.args
    OBVIOUS
  <2>2. Times(o, entering.args)' = Times(o, x)
    BY <2>1 DEF Times
  <2> QED
    BY <1>4, <2>2, TimesType DEF Has
<1>7. Cardinality(InFields(o))' = c - t + u
  BY <1>1, <1>4, OneShown
<1>8. Cardinality(InFunctions(o))' = d /\ Cardinality(InCalls(o))' = e
  BY <1>1, SameFunctions
<1>9. References(o)' = w + v + (c - t + u) + d + e
  BY <1>4, <1>7, <1>8 DEF References
<1> QED
  BY <1>1, <1>2, <1>3, <1>4, <1>5, <1>6, <1>9

\* A property lets go of its fields, because it ends or the collector found it.
FieldsGo(p) ==
  /\ refs' = Counted(None, Released(p))
  /\ data' = [data EXCEPT ![p].cleared = TRUE]
  /\ existing \ existing' \subseteq {p} /\ existing' \subseteq existing /\ (p \notin existing' => refs[p] = 0)
  /\ UNCHANGED <<ways, tried, known, listed, docs, entering, accesses, handles, touched>>

LEMMA FieldsGoKeeps ==
  ASSUME AccessorTypes, AccessorTypes', DecentInv, NEW p \in PropertyObjects, FieldsGo(p),
         p \in existing, p \notin known, p \in listed => p \notin existing'
  PROVE  DecentInv'
<1>1. /\ existing \ existing' \subseteq {p} /\ existing' \subseteq existing /\ (p \notin existing' => refs[p] = 0)
      /\ UNCHANGED <<ways, tried, known, listed, docs, entering, accesses, handles, touched>>
  BY DEF FieldsGo
<1>2. entering.on # p
  BY DEF DecentInv, EnteringSound, NoInit
<1>3. \A q \in PropertyObjects \ {p} : data'[q] = data[q] /\ Shown(q)' = Shown(q)
  BY <1>1 DEF FieldsGo, AccessorTypes, Shown, FieldsHeld, FieldsOf
<1>4. data'[p].cleared /\ data'[p].fields = data[p].fields
  BY DEF FieldsGo, AccessorTypes, Data
<1>5. Shown(p)' = NoArgs
  BY <1>4 DEF Shown, FieldsHeld
<1>6. ASSUME NEW o \in Counts PROVE Released(p)[o] = Times(o, Shown(p)) /\ Times(o, Shown(p)') = 0
  <2>1. Times(o, Shown(p)') = 0
    BY <1>5, NoTimes
  <2>2. CASE p \notin listed
    <3>1. Shown(p) = FieldsHeld(p)
      BY <1>2, <2>2 DEF Shown
    <3>2. Released(p) = Of(FieldsHeld(p))
      BY <2>2 DEF Released
    <3> QED
      BY <2>1, <3>1, <3>2, CountedAt
  <2>3. CASE p \in listed
    <3>1. PICK a : a = [FieldsHeld(p) EXCEPT !["fget"] = Null]
      OBVIOUS
    <3>2. FieldsHeld(p)["notify"] = Null
      BY <2>3 DEF FieldsHeld, DecentInv, KnownSound, NoArgs, Role
    <3>3. a["fget"] = Null /\ a["notify"] = Null
      BY <3>1, <3>2, FieldsAreTyped DEF Args, Role
    <3>4. o # Null
      BY DEF Counts
    <3>5. Times(o, a) = 0
      BY <3>3, <3>4, TimesIs
    <3>6. Released(p) = Of(a)
      BY <2>3, <3>1 DEF Released
    <3>7. Shown(p) = NoArgs
      BY <2>3 DEF Shown
    <3> QED
      BY <2>1, <3>5, <3>6, <3>7, CountedAt, NoTimes
  <2> QED
    BY <2>2, <2>3
<1>7. ASSUME NEW o \in Counts PROVE refs'[o] = refs[o] - Times(o, Shown(p)) /\ refs'[o] = References(o)'
  <2>1. refs'[o] = refs[o] + None[o] - Released(p)[o]
    BY CountedAt DEF FieldsGo
  <2>2. refs[o] \in Int /\ None[o] = 0 /\ Times(o, Shown(p)) \in Nat
    BY CountedAt, TimesType DEF AccessorTypes
  <2>3. refs'[o] = refs[o] - Times(o, Shown(p))
    BY <1>6, <2>1, <2>2
  <2>4. Cardinality(InCalls(o))' = Cardinality(InCalls(o))
    BY <1>1, SameCalls
  <2>5. existing' \cap Accessor = existing \cap Accessor
    BY <1>1
  <2>6. Has(o)' = Has(o) /\ Times(o, entering.args)' = Times(o, entering.args)
    BY <1>1, SameHas, SameArgs
  <2>7. /\ References(o)' = refs[o] - Has(o) + Has(o)' - Times(o, entering.args) + Times(o, entering.args)'
                               - Times(o, Shown(p)) + Times(o, Shown(p)')
        /\ Has(o) \in Nat /\ Times(o, entering.args) \in Nat
    BY <1>3, <2>4, <2>5, FieldsChange
  <2> QED
    BY <1>6, <2>2, <2>3, <2>6, <2>7
<1>8. CountsRight'
  BY <1>7 DEF CountsRight
<1>9. GoneHaveNone'
  <2> SUFFICES ASSUME NEW o \in Counts, o \notin existing' PROVE refs'[o] = 0
    BY DEF GoneHaveNone
  <2>1. refs[o] = 0
    BY <1>1 DEF DecentInv, GoneHaveNone
  <2>2. \A r \in Role : Shown(p)[r] # o
    BY <2>1, ReferredAreThere
  <2>3. Times(o, Shown(p)) = 0
    BY <2>2, TimesIs DEF Role
  <2> QED
    BY <1>7, <2>1, <2>3
<1>10. KnownSound'
  <2>1. ASSUME NEW q \in listed' \cap existing'
        PROVE  FieldsOf(q)'["notify"] = Null /\ \A r \in Role : FieldsOf(q)'[r] \in known' \cup {Null}
    BY <1>1, <1>3, <2>1 DEF DecentInv, KnownSound, FieldsOf, AccessorTypes
  <2>2. \A q \in known' \cap PropertyObjects : ~data'[q].cleared
    BY <1>1, <1>3 DEF DecentInv, KnownSound
  <2>3. known' \subseteq existing' /\ existing' \cap Accessor \subseteq tried' /\ handles' \subseteq known' \cap listed'
    BY <1>1 DEF DecentInv, KnownSound
  <2> QED
    BY <2>1, <2>2, <2>3 DEF KnownSound
<1>11. EnteringSound'
  BY <1>1, <1>3 DEF DecentInv, EnteringSound, FieldsOf, AccessorTypes, Begun
<1>12. CallsSound' /\ touched' = {}
  BY <1>1 DEF DecentInv, CallsSound
<1>13. DocsSound'
  BY <1>1, <1>3, <1>4 DEF DecentInv, DocsSound, FieldsOf
<1> QED
  BY <1>8, <1>9, <1>10, <1>11, <1>12, <1>13 DEF DecentInv

LEMMA DeallocKeeps ==
  ASSUME AccessorTypes, AccessorTypes', DecentInv, NEW p \in PropertyObjects, Dealloc(p)
  PROVE  DecentInv'
<1>1. p \in existing /\ refs[p] <= 0 /\ existing' = existing \ {p}
  BY DEF Dealloc, Due
<1>2. refs[p] = 0 /\ p \notin known
  BY <1>1, ReferredAreThere DEF Counts
<1>3. FieldsGo(p)
  BY <1>1, <1>2 DEF Dealloc, FieldsGo
<1> QED
  BY <1>1, <1>2, <1>3, FieldsGoKeeps

LEMMA ClearGarbageKeeps ==
  ASSUME AccessorTypes, AccessorTypes', DecentInv, NEW p \in PropertyObjects, ClearGarbage(p)
  PROVE  DecentInv'
<1>1. p \in existing /\ p \notin known /\ p \notin listed /\ existing' = existing
  BY RootsAreReached DEF ClearGarbage, Roots
<1>2. FieldsGo(p)
  BY <1>1 DEF ClearGarbage, FieldsGo
<1> QED
  BY <1>1, <1>2, FieldsGoKeeps

\* A constructor is entered, of a new property or of one the program knows.
Enters(p, args, doc) ==
  /\ \E kind \in {"fresh", "again"} :
       /\ kind = "fresh" <=> p \notin existing
       /\ Enter(p, args, IF kind = "fresh" THEN One(p) ELSE None, kind)
  /\ p \in existing => p \in known /\ listed' = listed
  /\ existing' = existing \cup {p} /\ known' = known \cup {p}
  /\ listed' \ {p} = listed \ {p}
  /\ docs' = [docs EXCEPT ![p] = doc]

LEMMA EntersKeeps ==
  ASSUME AccessorTypes, AccessorTypes', DecentInv, NEW p \in PropertyObjects, NEW args \in Args, NEW doc,
         Enters(p, args, doc), doc \notin Accessor, \A r \in Role : args[r] \in existing \cup {Null},
         p \in listed' => args["notify"] = Null /\ OfTheProgram(args)
  PROVE  DecentInv'
<1>1. /\ p \in existing => p \in known /\ listed' = listed
      /\ existing' = existing \cup {p} /\ known' = known \cup {p}
      /\ listed' \ {p} = listed \ {p}
      /\ docs' = [docs EXCEPT ![p] = doc]
      /\ UNCHANGED <<ways, tried, accesses, handles, touched>>
  BY DEF Enters, Enter
<1>2. /\ entering = NoInit /\ entering' = [on |-> p, args |-> args]
      /\ data'[p].cleared = FALSE /\ data'[p].fields = args
      /\ \A q \in PropertyObjects \ {p} : data'[q] = data[q]
  BY DEF Enters, Enter, AccessorTypes
<1>3. p \in Counts /\ p # Null /\ p \notin Accessor
  BY DEF Counts
<1>4. /\ \A q \in PropertyObjects \ {p} : Shown(q)' = Shown(q)
      /\ Shown(p)' = NoArgs
      /\ Shown(p) = IF p \notin existing \/ p \in listed THEN NoArgs ELSE FieldsHeld(p)
  <2>1. entering.on = Null /\ entering'.on = p
    BY <1>2 DEF NoInit
  <2>2. \A q \in PropertyObjects \ {p} : /\ (q \in existing' <=> q \in existing) /\ (q \in listed' <=> q \in listed)
                                         /\ FieldsHeld(q)' = FieldsHeld(q)
    BY <1>1, <1>2 DEF FieldsHeld, FieldsOf
  <2> QED
    BY <1>3, <2>1, <2>2 DEF Shown
<1>5. ASSUME NEW o \in Counts
      PROVE  refs'[o] = refs[o] + (IF o = p /\ p \notin existing THEN 1 ELSE 0) + Times(o, args) - Times(o, Shown(p))
  <2>1. PICK kind : /\ kind = "fresh" <=> p \notin existing
                    /\ Enter(p, args, IF kind = "fresh" THEN One(p) ELSE None, kind)
    BY DEF Enters
  <2>2. PICK come : come = IF kind = "fresh" THEN One(p) ELSE None
    OBVIOUS
  <2>3. PICK more, less : /\ more = [q \in DOMAIN come |-> come[q] + Times(q, args)]
                          /\ less = IF kind = "fresh" \/ p \in listed THEN None ELSE Released(p)
    OBVIOUS
  <2>4. refs' = Counted(more, less)
    <3>1. Enter(p, args, come, kind)
      BY <2>1, <2>2
    <3> QED
      BY <2>3, <3>1 DEF Enter
  <2>5. come[o] = (IF o = p /\ p \notin existing THEN 1 ELSE 0) /\ DOMAIN come = Counts
    <3>1. DOMAIN come = Counts
      BY <1>3, <2>2, CountTypes
    <3> QED
      BY <1>3, <2>1, <2>2, <3>1, CountedAt
  <2>6. more[o] = (IF o = p /\ p \notin existing THEN 1 ELSE 0) + Times(o, args)
    BY <2>3, <2>5
  <2>7. less[o] = Times(o, Shown(p))
    <3>1. CASE p \notin existing \/ p \in listed
      BY <1>4, <2>1, <2>3, <3>1, CountedAt, NoTimes
    <3>2. CASE p \in existing /\ p \notin listed
      <4>1. less = Released(p) /\ Released(p) = Of(FieldsHeld(p)) /\ Shown(p) = FieldsHeld(p)
        BY <1>4, <2>1, <2>3, <3>2 DEF Released
      <4> QED
        BY <4>1, CountedAt
    <3> QED
      BY <3>1, <3>2
  <2>8. refs'[o] = refs[o] + more[o] - less[o]
    BY <2>4, CountedAt
  <2>9. refs[o] \in Int /\ Times(o, args) \in Nat /\ Times(o, Shown(p)) \in Nat
    BY TimesType DEF AccessorTypes
  <2> QED
    BY <2>6, <2>7, <2>8, <2>9
<1>6. \A o \in Counts \ existing : Times(o, args) = 0
  BY TimesIs DEF Role, Counts
<1>7. ASSUME p \notin existing PROVE p \notin handles /\ \A i \in 1..Len(accesses) : accesses[i].f # p /\ accesses[i].p # p
  BY <1>3, <1>7, ReferredAreThere
<1>8. CountsRight'
  <2> SUFFICES ASSUME NEW o \in Counts PROVE refs'[o] = References(o)'
    BY DEF CountsRight
  <2>1. Cardinality(InCalls(o))' = Cardinality(InCalls(o))
    <3>1. CASE o = p /\ p \notin existing
      BY <1>1, <1>7, <3>1 DEF InCalls
    <3>2. CASE o # p \/ p \in existing
      <4>1. o \in listed' <=> o \in listed
        BY <1>1, <3>2
      <4> QED
        BY <1>1, <4>1, SameCalls
    <3> QED
      BY <3>1, <3>2
  <2>2. existing' \cap Accessor = existing \cap Accessor
    BY <1>1, <1>3
  <2>3. Has(o)' = Has(o) + IF o = p /\ p \notin existing THEN 1 ELSE 0
    BY <1>1 DEF Has, DecentInv, KnownSound
  <2>4. Times(o, entering.args) = 0 /\ Times(o, entering.args)' = Times(o, args)
    <3>1. entering.args = NoArgs /\ entering'.args = args
      BY <1>2 DEF NoInit
    <3> QED
      BY <3>1, NoTimes DEF Times
  <2>5. Times(o, Shown(p)') = 0
    BY <1>4, NoTimes
  <2>6. /\ References(o)' = refs[o] - Has(o) + Has(o)' - Times(o, entering.args) + Times(o, entering.args)'
                               - Times(o, Shown(p)) + Times(o, Shown(p)')
        /\ refs[o] \in Int /\ Has(o) \in Nat /\ Times(o, Shown(p)) \in Nat
    BY <1>4, <2>1, <2>2, FieldsChange
  <2>7. Times(o, args) \in Nat
    BY TimesType
  <2> QED
    BY <1>5, <2>3, <2>4, <2>5, <2>6, <2>7
<1>9. GoneHaveNone'
  <2> SUFFICES ASSUME NEW o \in Counts, o \notin existing' PROVE refs'[o] = 0
    BY DEF GoneHaveNone
  <2>1. o \notin existing /\ o # p /\ refs[o] = 0
    BY <1>1 DEF DecentInv, GoneHaveNone
  <2>2. \A r \in Role : Shown(p)[r] # o
    BY <2>1, ReferredAreThere
  <2>3. Times(o, Shown(p)) = 0
    BY <2>2, TimesIs DEF Role
  <2> QED
    BY <1>5, <1>6, <2>1, <2>3
<1>10. KnownSound'
  <2>1. ASSUME NEW q \in listed' \cap existing'
        PROVE  FieldsOf(q)'["notify"] = Null /\ \A r \in Role : FieldsOf(q)'[r] \in known' \cup {Null}
    <3>1. CASE q = p
      BY <1>1, <1>2, <3>1 DEF FieldsOf, OfTheProgram
    <3>2. CASE q # p
      <4>1. q \in listed \cap existing /\ q \in PropertyObjects
        BY <1>1, <3>2 DEF AccessorTypes
      <4> QED
        BY <1>1, <1>2, <3>2, <4>1 DEF DecentInv, KnownSound, FieldsOf
    <3> QED
      BY <3>1, <3>2
  <2>2. \A q \in known' \cap PropertyObjects : ~data'[q].cleared
    BY <1>1, <1>2 DEF DecentInv, KnownSound
  <2>3. known' \subseteq existing' /\ existing' \cap Accessor \subseteq tried'
    BY <1>1, <1>3 DEF DecentInv, KnownSound
  <2>4. handles' \subseteq known' \cap listed'
    BY <1>1, <1>7 DEF DecentInv, KnownSound
  <2> QED
    BY <2>1, <2>2, <2>3, <2>4 DEF KnownSound
<1>11. EnteringSound'
  BY <1>1, <1>2 DEF EnteringSound, FieldsOf, AccessorTypes
<1>12. CallsSound' /\ touched' = {}
  <2>1. ASSUME NEW i \in 1..Len(accesses), accesses[i].p \in listed' PROVE accesses[i].p \in handles
    <3>1. accesses[i].p \in listed
      BY <1>1, <1>7, <2>1
    <3> QED
      BY <3>1 DEF DecentInv, CallsSound
  <2> QED
    BY <1>1, <2>1 DEF DecentInv, CallsSound
<1>13. DocsSound'
  <2> SUFFICES ASSUME NEW q \in existing' \cap PropertyObjects, docs'[q] \in Accessor
               PROVE  data'[q].cleared \/ docs'[q] = FieldsOf(q)'["fget"]
    BY DEF DocsSound
  <2>1. q # p
    BY <1>1 DEF AccessorTypes
  <2> QED
    BY <1>1, <1>2, <2>1 DEF DecentInv, DocsSound, FieldsOf, AccessorTypes
<1> QED
  BY <1>8, <1>9, <1>10, <1>11, <1>12, <1>13 DEF DecentInv

LEMMA NewKeeps ==
  ASSUME AccessorTypes, AccessorTypes', Decent, DecentInv, NEW p \in PropertyObjects, NEW args \in Args,
         NEW list \in BOOLEAN, NEW doc, doc \notin Accessor, New(p, args, list, doc),
         \A r \in Role : args[r] \in existing \cup {Null}, list => OfTheProgram(args)
  PROVE  DecentInv'
<1>1. Enters(p, args, doc)
  <2>1. Enter(p, args, One(p), "fresh")
    BY DEF New
  <2>2. PICK kind \in {"fresh", "again"} : kind = "fresh"
    OBVIOUS
  <2>3. Enter(p, args, IF kind = "fresh" THEN One(p) ELSE None, kind)
    BY <2>1, <2>2
  <2>4. listed' \ {p} = listed \ {p} /\ p \notin existing
    BY DEF New
  <2> QED
    BY <2>2, <2>3, <2>4 DEF New, Enters
<1>2. p \in listed' => args["notify"] = Null /\ OfTheProgram(args)
  BY DEF New, MayNotify, Decent
<1> QED
  BY <1>1, <1>2, EntersKeeps

LEMMA InitAgainKeeps ==
  ASSUME AccessorTypes, AccessorTypes', Decent, DecentInv, NEW p \in PropertyObjects, NEW args \in Args,
         InitAgain(p, args)
  PROVE  DecentInv'
<1>1. /\ p \in known /\ OfTheProgram(args) /\ (p \in listed => MayNotify(args))
      /\ docs' = [docs EXCEPT ![p] = NoDoc] /\ Enter(p, args, None, "again")
      /\ UNCHANGED <<existing, known, listed>>
  BY DEF InitAgain
<1>2. p \in existing
  BY <1>1 DEF DecentInv, KnownSound
<1>3. Enters(p, args, NoDoc)
  <2>1. PICK kind \in {"fresh", "again"} : kind = "again" /\ kind # "fresh"
    OBVIOUS
  <2>2. Enter(p, args, IF kind = "fresh" THEN One(p) ELSE None, kind)
    BY <1>1, <2>1
  <2>3. existing' = existing \cup {p} /\ known' = known \cup {p} /\ listed' = listed
    BY <1>1, <1>2
  <2> QED
    BY <1>1, <1>2, <2>1, <2>2, <2>3 DEF Enters
<1>4. \A r \in Role : args[r] \in existing \cup {Null}
  BY <1>1 DEF OfTheProgram, DecentInv, KnownSound
<1>5. p \in listed' => args["notify"] = Null /\ OfTheProgram(args)
  BY <1>1 DEF MayNotify, Decent
<1>6. NoDoc \notin Accessor
  OBVIOUS
<1> QED
  BY <1>3, <1>4, <1>5, <1>6, EntersKeeps

LEMMA DecoratedKeeps ==
  ASSUME AccessorTypes, AccessorTypes', Decent, DecentInv, NEW p \in PropertyObjects, NEW q \in PropertyObjects,
         NEW r \in Role, NEW f \in known \cap Accessor, Decorated(p, q, r, f)
  PROVE  DecentInv'
<1>1. PICK args, doc : args = [FieldsOf(p) EXCEPT ![r] = f] /\ doc = DocOfCopy(p)
  OBVIOUS
<1>2. p \in known /\ New(q, args, FALSE, doc)
  BY <1>1 DEF Decorated
<1>3. args \in Args
  BY <1>1, FieldsAreTyped, ArgsAreTyped
<1>4. doc \notin Accessor
  BY <1>1, DocTypes
<1>5. \A s \in Role : args[s] \in existing \cup {Null}
  <2>1. f \in existing
    BY DEF DecentInv, KnownSound
  <2>2. \A s \in Role : args[s] = f \/ args[s] = FieldsOf(p)[s]
    BY <1>1, FieldsAreTyped DEF Args
  <2> QED
    BY <1>2, <2>1, <2>2, ShownFields
<1> QED
  BY <1>2, <1>3, <1>4, <1>5, NewKeeps

LEMMA InitEndsKeeps ==
  ASSUME AccessorTypes, AccessorTypes', Decent, DecentInv, NEW outcome \in {"good", "refused", "unparsed"}, InitEnds(outcome)
  PROVE  DecentInv'
<1>1. PICK p, args, good, gone : /\ p = entering.on /\ args = entering.args /\ good \in BOOLEAN /\ (good <=> outcome = "good")
                                 /\ gone = IF outcome # "good" /\ data[p].fresh /\ p \in known THEN {p} ELSE {}
  OBVIOUS
<1>2. entering # NoInit /\ outcome # "unparsed" /\ (~good => outcome = "refused" /\ p \notin listed)
  BY <1>1 DEF InitEnds, Decent
<1>3. /\ p \in PropertyObjects /\ args \in Args /\ p \in known /\ p \in existing
      /\ FieldsOf(p) = args /\ docs[p] \notin Accessor /\ ~data[p].cleared
  BY <1>1, <1>2 DEF DecentInv, EnteringSound, KnownSound, AccessorTypes, Begun
<1>4. gone \subseteq {p} /\ (good => gone = {}) /\ p \in Counts /\ p # Null
  BY <1>1, <1>3 DEF Counts
<1>5. /\ data' = [data EXCEPT ![p] = [cleared |-> data[p].cleared, fresh |-> FALSE,
                                      fields |-> IF good THEN args ELSE NoArgs]]
      /\ known' = known \ gone /\ entering' = NoInit
      /\ UNCHANGED <<ways, existing, tried, listed, docs, accesses, handles, touched>>
  <2>1. PICK fields : fields = IF outcome = "refused" /\ p \notin listed THEN NoArgs ELSE FieldsOf(p)
    OBVIOUS
  <2>2. fields = IF good THEN args ELSE NoArgs
    BY <1>1, <1>2, <1>3, <2>1
  <2>3. /\ data' = [data EXCEPT ![p] = [cleared |-> data[p].cleared, fresh |-> FALSE, fields |-> fields]]
        /\ known' = known \ gone /\ entering' = NoInit
        /\ UNCHANGED <<ways, existing, tried, listed, docs, accesses, handles, touched>>
    BY <1>1, <2>1 DEF InitEnds
  <2> QED
    BY <2>2, <2>3
<1>6. /\ ~data'[p].cleared /\ data'[p].fields = IF good THEN args ELSE NoArgs
      /\ \A q \in PropertyObjects \ {p} : data'[q] = data[q]
  BY <1>3, <1>5 DEF AccessorTypes
<1>7. /\ \A q \in PropertyObjects \ {p} : Shown(q)' = Shown(q)
      /\ Shown(p) = NoArgs /\ Shown(p)' = IF good /\ p \notin listed THEN args ELSE NoArgs
  <2>1. entering.on = p /\ entering'.on = Null
    BY <1>1, <1>5 DEF NoInit
  <2>2. \A q \in PropertyObjects : q # Null
    OBVIOUS
  <2>3. \A q \in PropertyObjects \ {p} : FieldsHeld(q)' = FieldsHeld(q)
    BY <1>6 DEF FieldsHeld, FieldsOf
  <2>4. FieldsHeld(p)' = IF good THEN args ELSE NoArgs
    BY <1>6 DEF FieldsHeld, FieldsOf
  <2> QED
    BY <1>3, <1>4, <1>5, <2>1, <2>2, <2>3, <2>4 DEF Shown
<1>8. ASSUME NEW o \in Counts
      PROVE  refs'[o] = refs[o] + (IF good /\ p \notin listed THEN Times(o, args) ELSE 0)
                                - Times(o, args) - (IF o \in gone THEN 1 ELSE 0)
  <2>1. PICK come, go : /\ come = (IF outcome = "good" THEN Kept(p) ELSE None)
                        /\ go = [q \in DOMAIN refs |-> Times(q, entering.args) + (IF q \in gone THEN 1 ELSE 0)]
    OBVIOUS
  <2>2. refs' = Counted(come, go)
    BY <1>1, <2>1 DEF InitEnds
  <2>3. refs'[o] = refs[o] + come[o] - go[o]
    BY <2>2, CountedAt
  <2>4. come[o] = IF good /\ p \notin listed THEN Times(o, args) ELSE 0
    BY <1>1, <1>3, <2>1, CountedAt DEF Kept
  <2>5. go[o] = Times(o, args) + (IF o \in gone THEN 1 ELSE 0)
    BY <1>1, <2>1 DEF AccessorTypes
  <2>6. refs[o] \in Int /\ Times(o, args) \in Nat
    BY TimesType DEF AccessorTypes
  <2> QED
    BY <2>3, <2>4, <2>5, <2>6
<1>9. CountsRight'
  <2> SUFFICES ASSUME NEW o \in Counts PROVE refs'[o] = References(o)'
    BY DEF CountsRight
  <2>1. Cardinality(InCalls(o))' = Cardinality(InCalls(o)) /\ existing' \cap Accessor = existing \cap Accessor
    BY <1>5, SameCalls
  <2>2. Has(o)' = Has(o) - IF o \in gone THEN 1 ELSE 0
    BY <1>3, <1>4, <1>5 DEF Has
  <2>3. Times(o, entering.args) = Times(o, args) /\ Times(o, entering.args)' = 0
    <3>1. entering'.args = NoArgs
      BY <1>5 DEF NoInit
    <3> QED
      BY <1>1, <3>1, NoTimes DEF Times
  <2>4. Times(o, Shown(p)) = 0 /\ Times(o, Shown(p)') = IF good /\ p \notin listed THEN Times(o, args) ELSE 0
    BY <1>7, NoTimes
  <2>5. /\ References(o)' = refs[o] - Has(o) + Has(o)' - Times(o, entering.args) + Times(o, entering.args)'
                               - Times(o, Shown(p)) + Times(o, Shown(p)')
        /\ refs[o] \in Int /\ Has(o) \in Nat
    BY <1>3, <1>7, <2>1, FieldsChange
  <2>6. Times(o, args) \in Nat
    BY TimesType
  <2> QED
    BY <1>8, <2>2, <2>3, <2>4, <2>5, <2>6
<1>10. GoneHaveNone'
  <2> SUFFICES ASSUME NEW o \in Counts, o \notin existing PROVE refs'[o] = 0
    BY <1>5 DEF GoneHaveNone
  <2>1. o \notin gone /\ refs[o] = 0
    BY <1>3, <1>4 DEF DecentInv, GoneHaveNone
  <2>2. \A r \in Role : args[r] # o
    BY <1>1, <2>1, ReferredAreThere
  <2>3. Times(o, args) = 0
    BY <2>2, TimesIs DEF Role
  <2> QED
    BY <1>8, <2>1, <2>3
<1>11. KnownSound'
  <2>1. ASSUME NEW q \in listed' \cap existing'
        PROVE  FieldsOf(q)'["notify"] = Null /\ \A r \in Role : FieldsOf(q)'[r] \in known' \cup {Null}
    <3>1. q \in listed \cap existing /\ q \in PropertyObjects
      BY <1>5 DEF AccessorTypes
    <3>2. FieldsOf(q)' = FieldsOf(q)
      BY <1>2, <1>3, <1>6, <3>1 DEF FieldsOf
    <3>3. \A r \in Role : FieldsOf(q)[r] \notin gone
      BY <1>4, <1>3, <3>1, FieldsAreTyped, ArgsAreTyped
    <3> QED
      BY <1>5, <3>1, <3>2, <3>3 DEF DecentInv, KnownSound
  <2>2. \A q \in known' \cap PropertyObjects : ~data'[q].cleared
    BY <1>5, <1>6 DEF DecentInv, KnownSound
  <2>3. known' \subseteq existing' /\ existing' \cap Accessor \subseteq tried'
    BY <1>5 DEF DecentInv, KnownSound
  <2>4. handles' \subseteq known' \cap listed'
    BY <1>2, <1>4, <1>5 DEF DecentInv, KnownSound
  <2> QED
    BY <2>1, <2>2, <2>3, <2>4 DEF KnownSound
<1>12. EnteringSound' /\ CallsSound' /\ touched' = {}
  BY <1>5 DEF DecentInv, EnteringSound, CallsSound
<1>13. DocsSound'
  <2> SUFFICES ASSUME NEW q \in existing \cap PropertyObjects, docs[q] \in Accessor
               PROVE  data'[q].cleared \/ docs[q] = FieldsOf(q)'["fget"]
    BY <1>5 DEF DocsSound
  <2>1. q # p
    BY <1>3
  <2> QED
    BY <1>6, <2>1 DEF DecentInv, DocsSound, FieldsOf
<1> QED
  BY <1>9, <1>10, <1>11, <1>12, <1>13 DEF DecentInv

-----------------------------------------------------------------------------
(* Accessors are held *)

LEMMA AccessorInvStep == AccessorInv /\ [AccessorNext]_accessorVars => AccessorInv'
<1> SUFFICES ASSUME AccessorInv, [AccessorNext]_accessorVars, Decent' PROVE DecentInv'
  BY AccessorTypesStep DEF AccessorInv
<1>1. AccessorTypes /\ AccessorTypes'
  BY AccessorTypesStep DEF AccessorInv
<1>2. ways' = ways
  <2>1. CASE UNCHANGED accessorVars
    BY <2>1 DEF accessorVars
  <2>2. ASSUME NEW f \in Accessor, NewFunction(f) \/ FreeFunction(f) PROVE ways' = ways
    BY <2>2 DEF NewFunction, FreeFunction
  <2>3. ASSUME NEW o \in Accessor \cup PropertyObjects, Forget(o) PROVE ways' = ways
    BY <2>3 DEF Forget
  <2>4. ASSUME NEW p \in PropertyObjects, NEW r \in Role, GetAccessor(p, r) \/ CallAccessor(p, r) PROVE ways' = ways
    BY <2>4 DEF GetAccessor, CallAccessor
  <2>5. ASSUME NEW p \in PropertyObjects, NEW args \in Args, NEW list, NEW doc, New(p, args, list, doc) PROVE ways' = ways
    BY <2>5 DEF New, Enter
  <2>6. ASSUME NEW p \in PropertyObjects, NEW args \in Args, InitAgain(p, args) PROVE ways' = ways
    BY <2>6 DEF InitAgain, Enter
  <2>7. ASSUME NEW p \in PropertyObjects, NEW q \in PropertyObjects, NEW r \in Role, NEW f \in known \cap Accessor,
               Decorated(p, q, r, f)
        PROVE  ways' = ways
    BY <2>7 DEF Decorated, New, Enter
  <2>8. ASSUME NEW outcome \in {"good", "refused", "unparsed"}, InitEnds(outcome) PROVE ways' = ways
    BY <2>8 DEF InitEnds
  <2>9. ASSUME NEW p \in PropertyObjects, GetDoc(p) \/ ReadList(p) \/ CallList(p) PROVE ways' = ways
    BY <2>9 DEF GetDoc, ReadList, CallList
  <2>10. ASSUME NEW p \in PropertyObjects, DropHandle(p) \/ Dealloc(p) \/ ClearGarbage(p) PROVE ways' = ways
    BY <2>10 DEF DropHandle, Dealloc, ClearGarbage
  <2>11. AccessReturns => ways' = ways
    BY DEF AccessReturns
  <2>12. CASE AccessorNext
    BY <2>2, <2>3, <2>4, <2>5, <2>6, <2>7, <2>8, <2>9, <2>10, <2>11, <2>12 DEF AccessorNext
  <2> QED
    BY <2>1, <2>12
<1>3. Decent /\ DecentInv
  BY <1>2 DEF Decent, AccessorInv
<1>4. ASSUME NEW f \in Accessor, NewFunction(f) \/ FreeFunction(f) PROVE DecentInv'
  BY <1>1, <1>3, <1>4, NewFunctionKeeps, FreeFunctionKeeps
<1>5. ASSUME NEW o \in Counts, Forget(o) PROVE DecentInv'
  BY <1>1, <1>3, <1>5, ForgetKeeps
<1>6. ASSUME NEW p \in PropertyObjects, NEW r \in Role, GetAccessor(p, r) \/ CallAccessor(p, r) PROVE DecentInv'
  BY <1>1, <1>3, <1>6, GetAccessorKeeps, CallAccessorKeeps
<1>7. ASSUME NEW p \in PropertyObjects, NEW args \in Args, NEW list \in BOOLEAN, NEW doc \in {NoDoc, Given},
             OfTheProgram(args), New(p, args, list, doc)
      PROVE  DecentInv'
  <2>1. \A r \in Role : args[r] \in existing \cup {Null}
    BY <1>3, <1>7 DEF OfTheProgram, DecentInv, KnownSound
  <2>2. doc \notin Accessor
    OBVIOUS
  <2> QED
    BY <1>1, <1>3, <1>7, <2>1, <2>2, NewKeeps
<1>8. ASSUME NEW p \in PropertyObjects, NEW args \in Args, InitAgain(p, args) PROVE DecentInv'
  BY <1>1, <1>3, <1>8, InitAgainKeeps
<1>9. ASSUME NEW p \in PropertyObjects, NEW q \in PropertyObjects, NEW r \in Role, NEW f \in known \cap Accessor,
             Decorated(p, q, r, f)
      PROVE  DecentInv'
  BY <1>1, <1>3, <1>9, DecoratedKeeps
<1>10. ASSUME NEW outcome \in {"good", "refused", "unparsed"}, InitEnds(outcome) PROVE DecentInv'
  BY <1>1, <1>3, <1>10, InitEndsKeeps
<1>11. ASSUME NEW p \in PropertyObjects, GetDoc(p) \/ ReadList(p) \/ DropHandle(p) PROVE DecentInv'
  BY <1>1, <1>3, <1>11, QuietKeeps
<1>12. ASSUME NEW p \in PropertyObjects, CallList(p) \/ Dealloc(p) \/ ClearGarbage(p) PROVE DecentInv'
  BY <1>1, <1>3, <1>12, CallListKeeps, DeallocKeeps, ClearGarbageKeeps
<1>13. ASSUME AccessReturns PROVE DecentInv'
  BY <1>1, <1>3, <1>13, AccessReturnsKeeps
<1>14. CASE UNCHANGED accessorVars
  <2>1. UNCHANGED <<ways, existing, tried, refs, known, data, listed, docs, entering, accesses, handles, touched>>
    BY <1>14 DEF accessorVars
  <2>2. CountsRight' /\ GoneHaveNone'
    BY <1>3, <2>1, CountsStay
  <2> QED
    BY <1>3, <2>1, <2>2 DEF DecentInv, KnownSound, EnteringSound, CallsSound, DocsSound, FieldsOf
<1>15. CASE AccessorNext
  BY <1>15, <1>4, <1>5, <1>6, <1>7, <1>8, <1>9, <1>10, <1>11, <1>12, <1>13 DEF AccessorNext, Counts
<1> QED
  BY <1>14, <1>15

LEMMA AccessorInvInit == AccessorInit => AccessorInv
<1> SUFFICES ASSUME AccessorInit PROVE AccessorInv
  OBVIOUS
<1>1. AccessorTypes
  BY AccessorTypesInit
<1>2. \A p \in PropertyObjects : Shown(p) = NoArgs
  BY DEF AccessorInit, Shown
<1>3. Len(accesses) = 0
  BY EmptySeq DEF AccessorInit
<1>4. ASSUME NEW o \in Counts PROVE refs[o] = 0 /\ References(o) = 0
  <2>1. refs[o] = 0
    BY CountedAt DEF AccessorInit
  <2>2. Has(o) = 0
    BY DEF AccessorInit, Has
  <2>3. Times(o, entering.args) = 0
    <3>1. entering.args = NoArgs
      BY DEF AccessorInit, NoInit
    <3> QED
      BY <3>1, NoTimes
  <2>4. InFields(o) = {}
    BY <1>2 DEF InFields, FieldPlaces, NoArgs, Counts
  <2>5. InFunctions(o) = {} /\ InCalls(o) = {}
    BY <1>3 DEF AccessorInit, InFunctions, InCalls
  <2>6. Cardinality({}) = 0
    BY FS_EmptySet
  <2> QED
    BY <2>1, <2>2, <2>3, <2>4, <2>5, <2>6 DEF References
<1>5. CountsRight /\ GoneHaveNone
  BY <1>4 DEF CountsRight, GoneHaveNone
<1>6. KnownSound /\ EnteringSound /\ CallsSound /\ DocsSound /\ touched = {}
  BY <1>3 DEF AccessorInit, KnownSound, EnteringSound, CallsSound, DocsSound
<1> QED
  BY <1>1, <1>5, <1>6 DEF AccessorInv, DecentInv

LEMMA DecentAreHeld ==
  ASSUME AccessorTypes, DecentInv
  PROVE  AccessorsHeld
<1>1. ASSUME NEW o \in existing PROVE refs[o] = Referrers(o)
  <2>1. o \in Counts /\ o # Null
    BY DEF AccessorTypes, Counts
  <2>2. InFields(o) = {x \in (existing \cap PropertyObjects) \X Role :
                          x[1] \notin listed /\ entering.on # x[1] /\ FieldsHeld(x[1])[x[2]] = o}
    BY <2>1 DEF InFields, FieldPlaces, Shown, NoArgs
  <2>3. Has(o) = IF o \in known THEN 1 ELSE 0
    BY DEF Has
  <2> QED
    BY <2>1, <2>2, <2>3 DEF Referrers, References, InFunctions, InCalls, DecentInv, CountsRight
<1>2. ASSUME NEW p \in existing \cap PropertyObjects, NEW r \in Role, FieldsHeld(p)[r] # Null
      PROVE  FieldsHeld(p)[r] \in existing
  <2>1. CASE p \in known
    BY <1>2, <2>1, ShownFields
  <2>2. CASE p \notin known
    <3>1. entering.on # p
      BY <2>2 DEF DecentInv, EnteringSound, NoInit
    <3>2. CASE p \in listed
      BY <1>2, <3>2 DEF DecentInv, KnownSound, FieldsHeld, NoArgs
    <3>3. CASE p \notin listed
      <4>1. PICK f : f = FieldsHeld(p)[r]
        OBVIOUS
      <4>2. f \in Counts
        BY <1>2, <4>1, FieldsAreTyped, ArgsAreTyped DEF Counts
      <4>3. Shown(p)[r] = f
        BY <3>1, <3>3, <4>1 DEF Shown
      <4> QED
        BY <4>1, <4>2, <4>3, ReferredAreThere
    <3> QED
      BY <3>2, <3>3
  <2> QED
    BY <2>1, <2>2
<1>3. \A p \in existing \cap PropertyObjects : docs[p] \in Accessor => data[p].cleared \/ docs[p] = FieldsHeld(p)["fget"]
  BY DEF DecentInv, DocsSound, FieldsHeld
<1> QED
  BY <1>1, <1>2, <1>3 DEF AccessorsHeld, DecentInv

\* For any functions and properties: in a program whose arguments can be parsed and that keeps
\* the lists that QML has, what property objects refer to is counted once for each reference.
THEOREM AccessorsAreHeld == AccessorSpec => [](Decent => AccessorsHeld)
<1>1. AccessorInv => (Decent => AccessorsHeld)
  BY DecentAreHeld DEF AccessorInv
<1> QED
  BY <1>1, AccessorInvInit, AccessorInvStep, PTL DEF AccessorSpec

HIDE AccessorAssumption DEF NoDoc, Given

-----------------------------------------------------------------------------
(* SignalInstance *)

\* Overloads in the order registerSignals() gives them: a clone without parameters is behind
\* no overload with parameters.
LinksSound(links) ==
  /\ links \in Seq(Signatures(Seq(Types)))
  /\ \A i, j \in 1..Len(links) :
       i < j /\ links[j].cloned /\ links[i].params # <<>> => links[j].params # <<>>

LEMMA PromotedSound ==
  ASSUME NEW s \in Seq(Signatures(Seq(Types)))
  PROVE  LinksSound(Promoted(s)) /\ (s # <<>> => Promoted(s) # <<>>)
<1> DEFINE A == Signatures({<<>>})
           B == Signatures(Seq(Types) \ {<<>>})
           a == Chosen(s, A)
           b == Chosen(s, B)
<1>1. a \in Seq(A) /\ b \in Seq(B)
  BY ChosenAreChosen
<1>2. A \subseteq Signatures(Seq(Types)) /\ B \subseteq Signatures(Seq(Types))
  <2>1. {<<>>} \subseteq Seq(Types) /\ Seq(Types) \ {<<>>} \subseteq Seq(Types)
    BY EmptySeq
  <2>2. \A P, Q : P \subseteq Q => Signatures(P) \subseteq Signatures(Q)
    BY DEF Signatures
  <2> QED
    BY <2>1, <2>2
<1>3. (\A x \in A : x.params = <<>>) /\ (\A x \in B : x.params # <<>>)
  BY DEF Signatures
<1>4. Promoted(s) = a \o b
  BY DEF Promoted
<1>10. s # <<>> => a # <<>> \/ b # <<>>
  <2> SUFFICES ASSUME s # <<>> PROVE a # <<>> \/ b # <<>>
    OBVIOUS
  <2>1. 1 \in 1..Len(s) /\ s[1] \in Signatures(Seq(Types))
    BY EmptySeq, ElementOfSeq, LenProperties
  <2>2. s[1] \in A \/ s[1] \in B
    BY <2>1 DEF Signatures
  <2> QED
    BY <2>1, <2>2, SomeChosen
<1> HIDE DEF A, B, a, b
<1>5. a \in Seq(Signatures(Seq(Types))) /\ b \in Seq(Signatures(Seq(Types)))
  BY <1>1, <1>2, SeqMonotonic
<1>6. /\ a \o b \in Seq(Signatures(Seq(Types))) /\ Len(a \o b) = Len(a) + Len(b)
      /\ \A i \in 1..Len(a) + Len(b) : (a \o b)[i] = IF i <= Len(a) THEN a[i] ELSE b[i - Len(a)]
  BY <1>5, ConcatProperties
<1>7. Len(a) \in Nat /\ Len(b) \in Nat
  BY <1>5
<1>8. /\ \A i \in 1..Len(a) : a[i].params = <<>>
      /\ \A i \in 1..Len(b) : b[i].params # <<>>
  BY <1>1, <1>3, ElementOfSeq
<1>9. ASSUME NEW i \in 1..Len(a \o b), NEW j \in 1..Len(a \o b), i < j, (a \o b)[i].params # <<>>
      PROVE  (a \o b)[j].params # <<>>
  <2>1. i > Len(a)
    BY <1>6, <1>7, <1>8, <1>9
  <2>2. j > Len(a) /\ j - Len(a) \in 1..Len(b) /\ j \in 1..Len(a) + Len(b)
    BY <1>6, <1>7, <1>9, <2>1
  <2> QED
    BY <1>6, <1>7, <1>8, <2>2
<1>11. a # <<>> \/ b # <<>> => a \o b # <<>>
  BY <1>5, <1>6, <1>7, EmptySeq
<1> QED
  BY <1>4, <1>6, <1>9, <1>10, <1>11 DEF LinksSound

LEMMA DeclaredSound ==
  ASSUME NEW overloads \in Seq(Overload), NEW h, NEW name
  PROVE  /\ LinksSound(Declared(h, name, overloads).signatures)
         /\ overloads # <<>> => Declared(h, name, overloads).signatures # <<>>
<1> DEFINE Parsed(i) == parseSignature(overloads[i].kind, overloads[i].args)
           links == [i \in 1..Len(overloads) |-> Parsed(i)]
<1>1. ASSUME NEW i \in 1..Len(overloads)
      PROVE  Parsed(i) \in Signatures(Seq(Types)) /\ ~Parsed(i).cloned
  <2>1. overloads[i] \in Overload
    BY ElementOfSeq
  <2>2. PICK args \in Seq(Types \cup {"void"}) : args = overloads[i].args
    BY <2>1 DEF Overload
  <2>3. Chosen(args, Types) \in Seq(Types) /\ Len(args) \in Nat
    BY <2>2, ChosenAreChosen, LenProperties
  <2>4. <<>> \in Seq(Types)
    OBVIOUS
  <2> QED
    BY <2>2, <2>3, <2>4 DEF parseSignature, Signature, Signatures
<1>2. Len(overloads) \in Nat
  OBVIOUS
<1> HIDE DEF Parsed
<1>3. links \in Seq(Signatures(Seq(Types))) /\ Len(links) = Len(overloads)
  BY <1>1, <1>2
<1>4. \A i \in 1..Len(links) : ~links[i].cloned
  BY <1>1, <1>3
<1>5. Declared(h, name, overloads).signatures = links
  BY DEF Declared, Signal, Parsed
<1> HIDE DEF links
<1>6. overloads # <<>> => links # <<>>
  BY <1>3, EmptySeq
<1> QED
  BY <1>3, <1>4, <1>5, <1>6 DEF LinksSound

-----------------------------------------------------------------------------
(* What the dicts of classes have *)

IsLayout == layout \in {Dicts(l) : l \in Layouts}

\* A Signal with its method is one of the wrapped class, under its name.
EntrySound(c, n) ==
  \/ layout[c][n] = Nothing
  \/ layout[c][n] = Method
  \/ /\ IsSignal(c, n) /\ layout[c][n].name \in Names /\ layout[c][n].method \in BOOLEAN
     /\ LinksSound(layout[c][n].signatures) /\ layout[c][n].signatures # <<>>
     /\ layout[c][n].method => c = "Base" /\ layout[c][n].home[1] = "Base"
     /\ c = "Base" => layout[c][n].name = n

LEMMA LayoutFacts ==
  ASSUME IsLayout
  PROVE  /\ \A c \in Mro, n \in Names : EntrySound(c, n)
         /\ \A n \in Names : layout.hidden[n] \in Seq(Signatures(Seq(Types)))
<1>1. PICK l \in Layouts : layout = Dicts(l)
  BY DEF IsLayout
<1>2. layout.hidden = l.hidden
  BY <1>1 DEF Dicts
<1>3. ASSUME NEW n \in Names PROVE EntrySound("Sub", n)
  <2>1. layout["Sub"][n] = IF l.Sub[n] \in {Nothing, Method} THEN l.Sub[n]
              ELSE Declared(<<"Sub", l.Sub[n].home>>, l.Sub[n].name, l.Sub[n].overloads)
    BY <1>1 DEF Dicts
  <2>2. CASE l.Sub[n] \in {Nothing, Method}
    BY <2>1, <2>2 DEF EntrySound
  <2>3. CASE l.Sub[n] \notin {Nothing, Method}
    <3>1. l.Sub[n] \in Declaration
      BY <2>3, ClassesAssumption
    <3>2. l.Sub[n].name \in Names /\ l.Sub[n].overloads \in Seq(Overload) \ {<<>>}
      BY <3>1 DEF Declaration
    <3>3. layout["Sub"][n] = Declared(<<"Sub", l.Sub[n].home>>, l.Sub[n].name, l.Sub[n].overloads)
      BY <2>1, <2>3
    <3>4. LinksSound(layout["Sub"][n].signatures) /\ layout["Sub"][n].signatures # <<>>
      BY <3>2, <3>3, DeclaredSound
    <3>5. /\ layout["Sub"][n].kind = "signal" /\ layout["Sub"][n].name = l.Sub[n].name
          /\ layout["Sub"][n].method = FALSE
      BY <3>3 DEF Declared, Signal
    <3> QED
      BY <3>2, <3>4, <3>5 DEF EntrySound, IsSignal
  <2> QED
    BY <2>2, <2>3
<1>4. ASSUME NEW n \in Names PROVE EntrySound("Base", n)
  <2>1. layout["Base"][n] = IF l.Base[n] \in {Nothing, Method} THEN l.Base[n]
              ELSE registerSignals(<<"Base", n>>, l.Base[n].signatures, l.Base[n].method)
    BY <1>1 DEF Dicts
  <2>2. CASE l.Base[n] \in {Nothing, Method}
    BY <2>1, <2>2 DEF EntrySound
  <2>3. CASE l.Base[n] \notin {Nothing, Method}
    <3>1. l.Base[n] \in CppSignal
      BY <2>3, ClassesAssumption
    <3>2. l.Base[n].signatures \in Seq(Signatures(Seq(Types))) \ {<<>>} /\ l.Base[n].method \in BOOLEAN
      BY <3>1 DEF CppSignal
    <3>3. layout["Base"][n] = registerSignals(<<"Base", n>>, l.Base[n].signatures, l.Base[n].method)
      BY <2>1, <2>3
    <3>4. /\ layout["Base"][n].kind = "signal" /\ layout["Base"][n].name = n
          /\ layout["Base"][n].method = l.Base[n].method /\ layout["Base"][n].home = <<"Base", n>>
          /\ layout["Base"][n].signatures = Promoted(l.Base[n].signatures)
      BY <3>3 DEF registerSignals, Signal
    <3>5. LinksSound(layout["Base"][n].signatures) /\ layout["Base"][n].signatures # <<>>
      BY <3>2, <3>4, PromotedSound
    <3> QED
      BY <3>2, <3>4, <3>5 DEF EntrySound, IsSignal
  <2> QED
    BY <2>2, <2>3
<1>5. \A n \in Names : layout.hidden[n] \in Seq(Signatures(Seq(Types)))
  BY <1>2, ClassesAssumption
<1> QED
  BY <1>3, <1>4, <1>5 DEF Mro

\* Attribute lookup
LEMMA LookupFacts ==
  ASSUME NEW n \in Names, IsLayout
  PROVE  /\ Found(n) # Nothing => Lookup(n) \in Mro /\ Found(n) = layout[Lookup(n)][n]
         /\ IsSignal("Sub", n) => Lookup(n) = "Sub"
         /\ Lookup(n) = "Sub" <=> layout["Sub"][n] # Nothing
         /\ Lookup(n) = "Base" <=> layout["Sub"][n] = Nothing /\ layout["Base"][n] # Nothing
         /\ Signals(n) # {} => First(Signals(n)) \in Mro /\ IsSignal(First(Signals(n)), n)
         /\ Found(n).kind = "signal" => Signals(n) # {} /\ First(Signals(n)) = Lookup(n)
         /\ Found(n).kind = "signal" => IsSignal(Lookup(n), n)
<1>1. ("Sub" \in Mro) /\ ("Base" \in Mro) /\ (\A c \in Mro : c = "Sub" \/ c = "Base")
  BY DEF Mro
<1>2. Nothing.kind = "nothing"
  BY DEF Nothing
<1>3. EntrySound("Sub", n) /\ EntrySound("Base", n)
  BY <1>1, LayoutFacts
<1>4. Lookup(n) = IF layout["Sub"][n] # Nothing THEN "Sub"
                  ELSE IF layout["Base"][n] # Nothing THEN "Base" ELSE "none"
  BY <1>1 DEF Lookup, First
<1>5. First(Signals(n)) = IF IsSignal("Sub", n) THEN "Sub" ELSE IF IsSignal("Base", n) THEN "Base" ELSE "none"
  BY <1>1 DEF Signals, First
<1>6. Signals(n) # {} => IsSignal("Sub", n) \/ IsSignal("Base", n)
  BY <1>1 DEF Signals
<1>7. IsSignal("Sub", n) \/ IsSignal("Base", n) => Signals(n) # {}
  BY <1>1 DEF Signals
<1>8. \A c \in Mro : IsSignal(c, n) => layout[c][n] # Nothing
  BY <1>2 DEF IsSignal
<1>9. Found(n) = IF Lookup(n) = "none" THEN Nothing ELSE layout[Lookup(n)][n]
  BY DEF Found
<1>10. Found(n).kind = "signal" => IsSignal(Lookup(n), n) /\ Lookup(n) # "none"
  BY <1>2, <1>9 DEF IsSignal
<1> QED
  BY <1>1, <1>4, <1>5, <1>6, <1>7, <1>8, <1>9, <1>10

-----------------------------------------------------------------------------
(* The invariant *)

ChainSound(d) == /\ d.links # <<>> /\ LinksSound(d.links)
                 /\ d.name \in Names /\ d.source \in BOOLEAN

ChainsSound == /\ dict = [n \in Names |-> dict[n]]
               /\ \A n \in Names : dict[n] = NoChain \/ ChainSound(dict[n])

\* The pair of overloads that connect() takes for two signals
IsFirstPair(p, S) == p \in S /\ \A q \in S : p[1] < q[1] \/ (p[1] = q[1] /\ p[2] <= q[2])

\* The instance a connection was made from still leads to it.
ToSlot(c, n, i) ==
  /\ c.to = <<>> /\ c.slot \in Slots
  /\ c.params = dict[n].links[findSignalInstanceForSlot(dict[n], i, c.slot)].params

ToSignal(c, n, i) ==
  \E m \in Names : \E j \in Held(m) : \E p \in Pairs(dict[n], i, dict[m], j) :
    /\ c.to = <<m, j>> /\ dict[m] # NoChain
    /\ IsFirstPair(p, Pairs(dict[n], i, dict[m], j))
    /\ c.params = dict[n].links[p[1]].params
    /\ c.slot = [kind |-> "signal", name |-> dict[m].name, params |-> dict[m].links[p[2]].params]

ConnectionSound(c) ==
  \E n \in Names : \E i \in Held(n) :
    /\ c.from = <<n, i>> /\ c.name = dict[n].name /\ dict[n] # NoChain
    /\ ToSlot(c, n, i) \/ ToSignal(c, n, i)

ConnectionsSound == \A c \in connections : phase = "alive" /\ ConnectionSound(c)

PhaseOK == phase \in {"raw", "alive", "deleted"}

SignalInv == IsLayout /\ PhaseOK /\ ChainsSound /\ ConnectionsSound

\* What was in the dict of the object stays there.
DictGrows == \A n \in Names : dict[n] # NoChain => dict'[n] = dict[n]

LEMMA GrowthKeepsConnection ==
  ASSUME ChainsSound, DictGrows, NEW c, ConnectionSound(c)
  PROVE  ConnectionSound(c)'
<1>1. PICK n \in Names : \E i \in Held(n) :
        /\ c.from = <<n, i>> /\ c.name = dict[n].name /\ dict[n] # NoChain
        /\ ToSlot(c, n, i) \/ ToSignal(c, n, i)
  BY DEF ConnectionSound
<1>2. PICK i \in Held(n) :
        /\ c.from = <<n, i>> /\ c.name = dict[n].name /\ dict[n] # NoChain
        /\ ToSlot(c, n, i) \/ ToSignal(c, n, i)
  BY <1>1
<1>3. dict'[n] = dict[n] /\ Held(n)' = Held(n)
  BY <1>2 DEF DictGrows, Held
<1>4. ToSlot(c, n, i) => ToSlot(c, n, i)'
  BY <1>3 DEF ToSlot
<1>5. ASSUME ToSignal(c, n, i) PROVE ToSignal(c, n, i)'
  <2>1. PICK m \in Names : \E j \in Held(m) : \E p \in Pairs(dict[n], i, dict[m], j) :
          /\ c.to = <<m, j>> /\ dict[m] # NoChain
          /\ IsFirstPair(p, Pairs(dict[n], i, dict[m], j))
          /\ c.params = dict[n].links[p[1]].params
          /\ c.slot = [kind |-> "signal", name |-> dict[m].name, params |-> dict[m].links[p[2]].params]
    BY <1>5 DEF ToSignal
  <2>2. dict'[m] = dict[m] /\ Held(m)' = Held(m)
    BY <2>1 DEF DictGrows, Held
  <2>3. \A j : Pairs(dict[n], i, dict[m], j)' = Pairs(dict[n], i, dict[m], j)
    BY <1>3, <2>2 DEF Pairs
  <2> QED
    BY <1>3, <2>1, <2>2, <2>3 DEF ToSignal
<1> QED
  BY <1>2, <1>3, <1>4, <1>5 DEF ConnectionSound

LEMMA GrowthKeeps ==
  ASSUME ChainsSound, ConnectionsSound, DictGrows, connections' \subseteq connections,
         connections' # {} => phase' = "alive"
  PROVE  ConnectionsSound'
<1> SUFFICES ASSUME NEW c \in connections' PROVE phase' = "alive" /\ ConnectionSound(c)'
  BY DEF ConnectionsSound
<1>1. c \in connections /\ ConnectionSound(c)
  BY DEF ConnectionsSound
<1> QED
  BY <1>1, GrowthKeepsConnection

LEMMA NoChainFacts ==
  ASSUME NEW n \in Names, ChainsSound
  PROVE  /\ dict[n].links \in Seq(Signatures(Seq(Types)))
         /\ dict[n].links # <<>> => dict[n] # NoChain /\ ChainSound(dict[n])
         /\ Held(n) # {} => dict[n] # NoChain
         /\ \A i \in Held(n) : i \in 1..Len(dict[n].links)
<1>1. NoChain.links = <<>> /\ <<>> \in Seq(Signatures(Seq(Types))) /\ Len(<<>>) = 0
  BY EmptySeq DEF NoChain
<1>2. dict[n] = NoChain \/ ChainSound(dict[n])
  BY DEF ChainsSound
<1>3. \A i \in Held(n) : i \in 1..Len(dict[n].links)
  BY DEF Held
<1>4. dict[n] = NoChain => Held(n) = {}
  <2> SUFFICES ASSUME dict[n] = NoChain, NEW i \in Held(n) PROVE FALSE
    OBVIOUS
  <2>1. i \in 1..Len(<<>>)
    BY <1>1, <1>3
  <2> QED
    BY <1>1, <2>1
<1>5. ChainSound(dict[n]) => dict[n].links \in Seq(Signatures(Seq(Types)))
  BY DEF ChainSound, LinksSound
<1> QED
  BY <1>1, <1>2, <1>3, <1>4, <1>5

-----------------------------------------------------------------------------
(* What the actions do to chains *)

LEMMA InstanceSound ==
  ASSUME IsLayout, NEW c \in Mro, NEW n \in Names, IsSignal(c, n), NEW source \in BOOLEAN
  PROVE  ChainSound(instanceInitialize(layout[c][n], source))
<1>1. EntrySound(c, n)
  BY LayoutFacts
<1>2. Nothing.kind # "signal" /\ Method.kind # "signal"
  BY DEF Nothing, Method
<1>3. /\ layout[c][n].name \in Names /\ LinksSound(layout[c][n].signatures)
      /\ layout[c][n].signatures # <<>>
  BY <1>1, <1>2 DEF EntrySound, IsSignal
<1> QED
  BY <1>3 DEF ChainSound, instanceInitialize

LEMMA UpdateStep ==
  ASSUME SignalInv, updateSourceObject
  PROVE  SignalInv'
<1> USE DEF SignalInv
<1>1. connections = {}
  BY DEF updateSourceObject, ConnectionsSound
<1>2. /\ phase' = "alive" /\ layout' = layout /\ connections' = connections
      /\ dict' = [n \in Names |-> Updated(n)]
  BY DEF updateSourceObject
<1>3. ASSUME NEW n \in Names PROVE Updated(n) = NoChain \/ ChainSound(Updated(n))
  <2>1. Signals(n) # {} => First(Signals(n)) \in Mro /\ IsSignal(First(Signals(n)), n)
    BY LookupFacts
  <2> QED
    BY <2>1, InstanceSound DEF Updated, ChainsSound
<1>4. ChainsSound'
  BY <1>2, <1>3 DEF ChainsSound
<1> QED
  BY <1>1, <1>2, <1>4 DEF IsLayout, PhaseOK, ConnectionsSound

LEMMA DescrGetStep ==
  ASSUME SignalInv, NEW n \in Names, signalDescrGet(n)
  PROVE  SignalInv' /\ DictGrows
<1> USE DEF SignalInv
<1> DEFINE d == instanceInitialize(Found(n), phase = "alive")
           m == DictName(n)
<1>1. /\ dict[m] = NoChain /\ Found(n).kind = "signal" /\ dict' = [dict EXCEPT ![m] = d]
      /\ UNCHANGED <<layout, phase, connections>>
  BY DEF signalDescrGet
<1>2. Lookup(n) \in Mro /\ IsSignal(Lookup(n), n) /\ Found(n) = layout[Lookup(n)][n]
  BY <1>1, LookupFacts DEF Nothing
<1>3. ChainSound(d)
  BY <1>2, InstanceSound
<1>4. m \in Names /\ Found(n).name = m
  BY <1>3 DEF ChainSound, instanceInitialize, DictName
<1> HIDE DEF d, m
<1>5. DictGrows
  BY <1>1 DEF DictGrows, ChainsSound
<1>6. ChainsSound'
  <2>1. dict' = [k \in Names |-> IF k = m THEN d ELSE dict[k]]
    BY <1>1 DEF ChainsSound
  <2> QED
    BY <1>3, <2>1 DEF ChainsSound
<1>7. ConnectionsSound'
  BY <1>1, <1>5, GrowthKeeps DEF ConnectionsSound
<1> QED
  BY <1>1, <1>5, <1>6, <1>7 DEF IsLayout, PhaseOK

LEMMA HiddenStep ==
  ASSUME SignalInv, NEW n \in Names, getHiddenDataFromQObject(n)
  PROVE  SignalInv' /\ DictGrows
<1> USE DEF SignalInv
<1> DEFINE d == newObjectFromMethod(n)
<1>1. /\ dict[n] = NoChain /\ layout.hidden[n] # <<>> /\ dict' = [dict EXCEPT ![n] = d]
      /\ UNCHANGED <<layout, phase, connections>>
  BY DEF getHiddenDataFromQObject
<1>2. ChainSound(d)
  <2>1. PICK x : x = Head(layout.hidden[n])
    OBVIOUS
  <2>2. x \in Signatures(Seq(Types))
    BY <1>1, <2>1, LayoutFacts
  <2>3. <<x>> \in Seq(Signatures(Seq(Types))) /\ Len(<<x>>) = 1 /\ <<x>> # <<>>
    BY <2>2
  <2>4. d.links = <<x>> /\ d.name = n /\ d.source = TRUE
    BY <2>1 DEF newObjectFromMethod
  <2> HIDE DEF d
  <2>5. LinksSound(d.links)
    BY <2>3, <2>4 DEF LinksSound
  <2> QED
    BY <2>3, <2>4, <2>5 DEF ChainSound
<1> HIDE DEF d
<1>3. DictGrows
  BY <1>1 DEF DictGrows, ChainsSound
<1>4. ChainsSound'
  <2>1. dict' = [k \in Names |-> IF k = n THEN d ELSE dict[k]]
    BY <1>1 DEF ChainsSound
  <2> QED
    BY <1>2, <2>1 DEF ChainsSound
<1>5. ConnectionsSound'
  BY <1>1, <1>3, GrowthKeeps DEF ConnectionsSound
<1> QED
  BY <1>1, <1>3, <1>4, <1>5 DEF IsLayout, PhaseOK

-----------------------------------------------------------------------------
(* Connections *)

LEMMA ConnectStep ==
  ASSUME SignalInv, NEW n \in Names, NEW i \in Held(n), NEW s \in Slots, signalInstanceConnect(n, i, s)
  PROVE  SignalInv'
<1> USE DEF SignalInv
<1>1. dict[n] # NoChain
  BY NoChainFacts
<1>2. PICK k : k = findSignalInstanceForSlot(dict[n], i, s)
  OBVIOUS
<1>3. PICK c : c = [name |-> dict[n].name, params |-> dict[n].links[k].params,
                    slot |-> s, from |-> <<n, i>>, to |-> <<>>]
  OBVIOUS
<1>4. phase = "alive" /\ connections' = connections \cup {c} /\ UNCHANGED <<layout, dict, phase>>
  BY <1>2, <1>3 DEF signalInstanceConnect, isSourceDeleted
<1>5. c.to = <<>> /\ c.slot = s /\ c.params = dict[n].links[k].params /\ c.from = <<n, i>> /\ c.name = dict[n].name
  BY <1>3
<1>6. ConnectionSound(c)
  BY <1>1, <1>2, <1>5 DEF ConnectionSound, ToSlot
<1>7. \A d : ConnectionSound(d) => ConnectionSound(d)'
  BY <1>4, GrowthKeepsConnection DEF DictGrows
<1> QED
  BY <1>4, <1>6, <1>7 DEF IsLayout, PhaseOK, ChainsSound, ConnectionsSound

LEMMA FirstPairs ==
  ASSUME NEW S \in SUBSET (Nat \X Nat), S # {}
  PROVE  \E p \in S : IsFirstPair(p, S)
<1> DEFINE A == {p[1] : p \in S}
<1>1. A \in SUBSET Nat /\ A # {}
  OBVIOUS
<1>2. PICK a \in A : \A b \in A : a <= b
  BY <1>1, LeastNumber
<1> DEFINE B == {b \in Nat : <<a, b>> \in S}
<1>3. B \in SUBSET Nat /\ B # {}
  BY <1>2
<1>4. PICK b \in B : \A d \in B : b <= d
  BY <1>3, LeastNumber
<1>5. <<a, b>> \in S
  BY <1>4
<1>6. ASSUME NEW q \in S PROVE a < q[1] \/ (a = q[1] /\ b <= q[2])
  <2>1. q[1] \in A /\ q[1] \in Nat /\ q[2] \in Nat /\ q = <<q[1], q[2]>> /\ a \in Nat
    BY <1>1, <1>2
  <2>2. a <= q[1]
    BY <1>2, <2>1
  <2>3. a = q[1] => q[2] \in B
    BY <2>1
  <2> QED
    BY <1>4, <2>1, <2>2, <2>3
<1> QED
  BY <1>5, <1>6 DEF IsFirstPair

LEMMA PairsAreNumbers ==
  ASSUME ChainsSound, NEW n \in Names, NEW m \in Names, NEW i \in Held(n), NEW j \in Held(m)
  PROVE  Pairs(dict[n], i, dict[m], j) \in SUBSET (Nat \X Nat)
<1>1. Len(dict[n].links) \in Nat /\ Len(dict[m].links) \in Nat
  BY NoChainFacts, LenProperties
<1>2. i \in Nat /\ j \in Nat
  BY <1>1, NoChainFacts
<1>3. i .. Len(dict[n].links) \subseteq Nat /\ j .. Len(dict[m].links) \subseteq Nat
  BY <1>1, <1>2
<1> QED
  BY <1>3 DEF Pairs

LEMMA ConnectSignalStep ==
  ASSUME SignalInv, NEW n \in Names, NEW m \in Names, NEW i \in Held(n), NEW j \in Held(m),
         ConnectSignal(n, i, m, j)
  PROVE  SignalInv'
<1> USE DEF SignalInv
<1> DEFINE S == Pairs(dict[n], i, dict[m], j)
<1>1. dict[n] # NoChain /\ dict[m] # NoChain
  BY NoChainFacts
<1>2. S \in SUBSET (Nat \X Nat) /\ S # {}
  BY PairsAreNumbers DEF ConnectSignal
<1>3. PICK p : p = CHOOSE r \in S : \A q \in S : r[1] < q[1] \/ (r[1] = q[1] /\ r[2] <= q[2])
  OBVIOUS
<1>4. IsFirstPair(p, S)
  BY <1>2, <1>3, FirstPairs DEF IsFirstPair
<1>5. PICK to : to = [kind |-> "signal", name |-> dict[m].name, params |-> dict[m].links[p[2]].params]
  OBVIOUS
<1>6. PICK c : c = [name |-> dict[n].name, params |-> dict[n].links[p[1]].params,
                    slot |-> to, from |-> <<n, i>>, to |-> <<m, j>>]
  OBVIOUS
<1>7. phase = "alive" /\ connections' = connections \cup {c} /\ UNCHANGED <<layout, dict, phase>>
  BY <1>3, <1>5, <1>6 DEF ConnectSignal, isSourceDeleted
<1>8. c.to = <<m, j>> /\ c.slot = to /\ c.params = dict[n].links[p[1]].params /\ c.from = <<n, i>>
      /\ c.name = dict[n].name
  BY <1>6
<1>9. p \in S
  BY <1>4 DEF IsFirstPair
<1> HIDE DEF S
<1>10. ToSignal(c, n, i)
  BY <1>1, <1>4, <1>5, <1>8, <1>9 DEF ToSignal, S
<1>11. ConnectionSound(c)
  BY <1>1, <1>8, <1>10 DEF ConnectionSound
<1>12. \A d : ConnectionSound(d) => ConnectionSound(d)'
  BY <1>7, GrowthKeepsConnection DEF DictGrows
<1> QED
  BY <1>7, <1>11, <1>12 DEF IsLayout, PhaseOK, ChainsSound, ConnectionsSound

\* Connections are cut, the chains stay.
LEMMA CutSteps ==
  ASSUME SignalInv, UNCHANGED <<layout, dict>>, connections' \subseteq connections,
         PhaseOK', connections' # {} => phase' = phase
  PROVE  SignalInv'
<1> USE DEF SignalInv
<1>1. ConnectionsSound'
  BY GrowthKeeps DEF DictGrows, ConnectionsSound
<1> QED
  BY <1>1 DEF IsLayout, ChainsSound

-----------------------------------------------------------------------------

LEMMA SignalInitial == SignalInit => SignalInv
<1> SUFFICES ASSUME SignalInit PROVE SignalInv
  OBVIOUS
<1>1. IsLayout /\ PhaseOK /\ ConnectionsSound
  BY DEF SignalInit, IsLayout, PhaseOK, ConnectionsSound
<1>2. ChainsSound
  BY DEF SignalInit, ChainsSound
<1> QED
  BY <1>1, <1>2 DEF SignalInv

LEMMA SignalStep == SignalInv /\ [SignalNext]_signalVars => SignalInv'
<1> SUFFICES ASSUME SignalInv, [SignalNext]_signalVars PROVE SignalInv'
  OBVIOUS
<1>1. CASE updateSourceObject
  BY <1>1, UpdateStep
<1>2. CASE \E n \in Names : signalDescrGet(n)
  BY <1>2, DescrGetStep
<1>3. CASE \E n \in Names : getHiddenDataFromQObject(n)
  BY <1>3, HiddenStep
<1>4. CASE \E n \in Names : \E i \in Held(n), s \in Slots : signalInstanceConnect(n, i, s)
  BY <1>4, ConnectStep
<1>5. CASE \E n, m \in Names : \E i \in Held(n), j \in Held(m) : ConnectSignal(n, i, m, j)
  BY <1>5, ConnectSignalStep
<1>6. ASSUME \/ \E n \in Names : \E i \in Held(n), s \in Slots : signalInstanceDisconnect(n, i, s)
             \/ \E n, m \in Names : \E i \in Held(n), j \in Held(m) : DisconnectSignal(n, i, m, j)
             \/ \E n \in Names : \E i \in Held(n) : DisconnectReceivers(n, i)
             \/ \E c \in connections : DisconnectId(c)
             \/ SourceDeleted
             \/ UNCHANGED signalVars
      PROVE  /\ UNCHANGED <<layout, dict>> /\ connections' \subseteq connections
             /\ PhaseOK' /\ (connections' # {} => phase' = phase)
  <2>1. CASE \E n \in Names : \E i \in Held(n), s \in Slots : signalInstanceDisconnect(n, i, s)
    BY <2>1 DEF signalInstanceDisconnect, SignalInv, PhaseOK
  <2>2. CASE \E n, m \in Names : \E i \in Held(n), j \in Held(m) : DisconnectSignal(n, i, m, j)
    BY <2>2 DEF DisconnectSignal, SignalInv, PhaseOK
  <2>3. CASE \/ \E n \in Names : \E i \in Held(n) : DisconnectReceivers(n, i)
             \/ \E c \in connections : DisconnectId(c)
    BY <2>3 DEF DisconnectReceivers, DisconnectId, SignalInv, PhaseOK
  <2>4. CASE SourceDeleted \/ UNCHANGED signalVars
    BY <2>4 DEF SourceDeleted, signalVars, SignalInv, PhaseOK
  <2> QED
    BY <1>6, <2>1, <2>2, <2>3, <2>4
<1> QED
  BY <1>1, <1>2, <1>3, <1>4, <1>5, <1>6, CutSteps DEF SignalNext

LEMMA SignalInvariant == SignalSpec => []SignalInv
<1> QED
  BY SignalInitial, SignalStep, PTL DEF SignalSpec

\* For all classes, names and callables: the types of what an object has of its signals.
THEOREM SignalTypeCorrect == SignalSpec => []SignalTypeOK
<1>1. SignalInv => SignalTypeOK
  <2> SUFFICES ASSUME SignalInv PROVE SignalTypeOK
    OBVIOUS
  <2>1. \A n \in Names : dict[n] = NoChain \/
          (dict[n].links # <<>> /\ dict[n].name \in Names /\ dict[n].source \in BOOLEAN)
    BY DEF SignalInv, ChainsSound, ChainSound
  <2>2. \A c \in connections : phase = "alive" /\ c.from[2] \in Held(c.from[1])
    BY DEF SignalInv, ConnectionsSound, ConnectionSound
  <2> QED
    BY <2>1, <2>2 DEF SignalTypeOK, SignalInv, IsLayout, PhaseOK
<1> QED
  BY <1>1, SignalInvariant, PTL

-----------------------------------------------------------------------------
(* Overloads *)

LEMMA FindFacts ==
  ASSUME NEW d, NEW a, NEW i \in Nat, Len(d.links) \in Nat
  PROVE  LET k == findSignalInstance(d, i, a) IN
         /\ k # 0 => k \in i..Len(d.links) /\ d.links[k].argCount = a
         /\ (\E j \in i..Len(d.links) : d.links[j].argCount = a) /\ i # 0 => k # 0
<1> DEFINE ks == {k \in i..Len(d.links) : d.links[k].argCount = a}
<1>1. ks \in SUBSET Nat
  OBVIOUS
<1>2. findSignalInstance(d, i, a) = IF ks = {} THEN 0 ELSE CHOOSE k \in ks : \A j \in ks : k <= j
  BY DEF findSignalInstance
<1>3. ks # {} => \E k \in ks : \A j \in ks : k <= j
  BY <1>1, LeastNumber
<1>4. PICK k : k = findSignalInstance(d, i, a)
  OBVIOUS
<1>5. ks # {} => k \in ks
  BY <1>2, <1>3, <1>4
<1>6. ks = {} => k = 0
  BY <1>2, <1>4
<1> QED
  BY <1>4, <1>5, <1>6

LEMMA DefaultsEmit == SignalInv => EveryDefaultEmits
<1> SUFFICES ASSUME SignalInv, NEW m \in Names, NEW i \in Held(m),
                    NEW n \in 0 .. Len(dict[m].links[i].params) - 1,
                    \E j \in i + 1 .. Len(dict[m].links) :
                      dict[m].links[j].cloned /\ Len(dict[m].links[j].params) = n
             PROVE  Len(dict[m].links[EmittedFrom(dict[m], i, n)].params) = n
  BY DEF EveryDefaultEmits
<1> DEFINE d == dict[m]
           L == Len(d.links)
           clones == {j \in i + 1 .. L : d.links[j].cloned /\ argCountInSignature(d.links[j]) = n}
<1>1. LinksSound(d.links) /\ i \in 1..L /\ L \in Nat
  <2>1. d # NoChain /\ (d = NoChain \/ ChainSound(d))
    BY NoChainFacts DEF SignalInv, ChainsSound
  <2>2. d.links \in Seq(Signatures(Seq(Types))) /\ i \in 1..L
    BY NoChainFacts DEF SignalInv
  <2> QED
    BY <2>1, <2>2, LenProperties DEF ChainSound
<1> HIDE DEF d
<1>2. \A j \in 1..L : d.links[j].params \in Seq(Types)
  <2>1. d.links \in Seq(Signatures(Seq(Types)))
    BY <1>1 DEF LinksSound
  <2>2. \A j \in 1..L : d.links[j] \in Signatures(Seq(Types))
    BY <2>1, ElementOfSeq
  <2> QED
    BY <2>2 DEF Signatures
<1>3. /\ Len(d.links[i].params) \in Nat /\ d.links[i].params # <<>>
      /\ n \in Nat /\ n < Len(d.links[i].params)
  <2>1. Len(d.links[i].params) \in Nat
    BY <1>1, <1>2, LenProperties
  <2>2. n \in 0 .. Len(d.links[i].params) - 1
    BY DEF d
  <2> QED
    BY <2>1, <2>2, EmptySeq
<1>4. ASSUME NEW j \in i + 1 .. L, d.links[j].cloned
      PROVE  d.links[j].params # <<>> /\ argCountInSignature(d.links[j]) = Len(d.links[j].params)
  <2>1. j \in 1..L /\ i < j
    BY <1>1
  <2> QED
    BY <1>1, <1>3, <1>4, <2>1 DEF LinksSound, argCountInSignature
<1>5. PICK j \in i + 1 .. L : d.links[j].cloned /\ Len(d.links[j].params) = n
  BY DEF d
<1>6. clones # {} /\ clones \in SUBSET Nat
  <2>1. j \in clones
    BY <1>4, <1>5
  <2>2. \A k \in i + 1 .. L : k \in Nat
    BY <1>1
  <2> QED
    BY <2>1, <2>2
<1>7. n < argCountInSignature(d.links[i])
  BY <1>3 DEF argCountInSignature
<1>8. EmittedFrom(d, i, n) = CHOOSE x \in clones : \A y \in clones : x <= y
  BY <1>6, <1>7 DEF EmittedFrom
<1>9. EmittedFrom(d, i, n) \in clones
  BY <1>6, <1>8, LeastNumber
<1>10. PICK k : k = EmittedFrom(d, i, n)
  OBVIOUS
<1>11. k \in i + 1 .. L /\ d.links[k].cloned /\ argCountInSignature(d.links[k]) = n
  BY <1>9, <1>10
<1> QED
  BY <1>4, <1>10, <1>11 DEF d

LEMMA SlotFits ==
  ASSUME NEW d, d.links \in Seq(Signatures(Seq(Types))), NEW s \in Slots, s.kind \in {"function", "method"},
         NEW i \in 1..Len(d.links),
         \A k \in 1..Len(d.links) : d.links[k].argCount = Len(d.links[k].params),
         \E k \in i..Len(d.links) : Len(d.links[k].params) \in ArgMin(s)..ArgMax(s)
  PROVE  Len(d.links[findSignalInstanceForSlot(d, i, s)].params) \in ArgMin(s)..ArgMax(s)
<1> DEFINE L == Len(d.links)
           fitting == {c \in ArgMin(s)..ArgMax(s) : findSignalInstance(d, i, c) # 0}
<1>1. L \in Nat /\ i \in Nat \ {0}
  BY LenProperties
<1>2. ArgMin(s) \in Int /\ ArgMax(s) \in Int
  <2>1. s \in SlotRecord
    BY SlotAssumption
  <2>2. s.count \in Int /\ s.defaults \in Int
    BY <2>1 DEF SlotRecord
  <2>3. ArgMax(s) \in Int
    BY <2>2 DEF ArgMax
  <2> QED
    BY <2>2, <2>3 DEF ArgMin
<1>3. PICK k \in i..L : Len(d.links[k].params) \in ArgMin(s)..ArgMax(s)
  OBVIOUS
<1>4. CASE i = L
  <2>1. k = i /\ findSignalInstanceForSlot(d, i, s) = i
    BY <1>1, <1>3, <1>4 DEF findSignalInstanceForSlot
  <2> QED
    BY <1>3, <2>1
<1>5. CASE i # L
  <2>1. Len(d.links[k].params) \in fitting
    BY <1>1, <1>3, FindFacts
  <2>2. \A c \in fitting : c \in Nat
    <3> SUFFICES ASSUME NEW c \in fitting PROVE c \in Nat
      OBVIOUS
    <3>1. PICK f : f = findSignalInstance(d, i, c)
      OBVIOUS
    <3>2. f \in i..L /\ d.links[f].argCount = c
      BY <1>1, <3>1, FindFacts
    <3>3. f \in 1..L
      BY <1>1, <3>2
    <3>4. d.links[f] \in Signatures(Seq(Types))
      BY <3>3, ElementOfSeq
    <3> QED
      BY <3>2, <3>4 DEF Signatures
  <2>3. \E c \in fitting : \A x \in fitting : x <= c
    <3>1. PICK top \in Nat : ArgMax(s) <= top
      BY <1>2
    <3> DEFINE T == {x + 1 : x \in fitting}
    <3>2. T \in SUBSET (1..(top + 1)) /\ T # {}
      BY <1>2, <2>1, <2>2, <3>1
    <3> HIDE DEF T
    <3>3. PICK y \in T : \A x \in T : x <= y
      <4>1. top + 1 \in Nat
        OBVIOUS
      <4> QED
        BY <3>2, <4>1, GreatestNumber
    <3> USE DEF T
    <3>4. PICK c \in fitting : y = c + 1
      BY <3>3
    <3>5. \A x \in fitting : x + 1 <= c + 1
      BY <3>3, <3>4
    <3> QED
      BY <2>2, <3>4, <3>5
  <2>4. PICK c : c = CHOOSE y \in fitting : \A x \in fitting : x <= y
    OBVIOUS
  <2>5. c \in fitting
    BY <2>3, <2>4
  <2>6. s.kind # "other"
    OBVIOUS
  <2>7. findSignalInstanceForSlot(d, i, s) = findSignalInstance(d, i, c)
    BY <1>5, <2>1, <2>4, <2>6 DEF findSignalInstanceForSlot
  <2>8. PICK f : f = findSignalInstance(d, i, c)
    OBVIOUS
  <2>9. c \in ArgMin(s)..ArgMax(s) /\ f # 0
    BY <2>5, <2>8
  <2>10. f \in i..L /\ d.links[f].argCount = c
    BY <1>1, <2>8, <2>9, FindFacts
  <2>11. f \in 1..L
    BY <1>1, <2>10
  <2> QED
    BY <2>7, <2>8, <2>9, <2>10, <2>11
<1> QED
  BY <1>4, <1>5

LEMMA SlotsGet == SignalInv => SlotsGetWhatTheyTake
<1> SUFFICES ASSUME SignalInv, NEW c \in connections, c.slot.kind \in {"function", "method"},
                    \A k \in 1 .. Len(dict[c.from[1]].links) :
                      dict[c.from[1]].links[k].argCount = Len(dict[c.from[1]].links[k].params),
                    \E k \in c.from[2] .. Len(dict[c.from[1]].links) :
                      Len(dict[c.from[1]].links[k].params) \in ArgMin(c.slot) .. ArgMax(c.slot)
             PROVE  Delivered(c.params, c.slot) \in ArgMin(c.slot) .. ArgMax(c.slot)
  BY DEF SlotsGetWhatTheyTake
<1>1. PICK n \in Names : \E i \in Held(n) :
        /\ c.from = <<n, i>> /\ c.name = dict[n].name /\ dict[n] # NoChain
        /\ ToSlot(c, n, i) \/ ToSignal(c, n, i)
  BY DEF SignalInv, ConnectionsSound, ConnectionSound
<1>2. PICK i \in Held(n) :
        /\ c.from = <<n, i>> /\ c.name = dict[n].name /\ dict[n] # NoChain
        /\ ToSlot(c, n, i) \/ ToSignal(c, n, i)
  BY <1>1
<1>3. ~ToSignal(c, n, i)
  <2>1. \A x, y : [kind |-> "signal", name |-> x, params |-> y].kind = "signal"
    OBVIOUS
  <2>2. ToSignal(c, n, i) => c.slot.kind = "signal"
    BY <2>1 DEF ToSignal
  <2> QED
    BY <2>2
<1>4. c.slot \in Slots /\ c.params = dict[n].links[findSignalInstanceForSlot(dict[n], i, c.slot)].params
  BY <1>2, <1>3 DEF ToSlot
<1>5. dict[n].links \in Seq(Signatures(Seq(Types))) /\ i \in 1..Len(dict[n].links)
  BY NoChainFacts DEF SignalInv
<1>6. c.from[1] = n /\ c.from[2] = i
  BY <1>2
<1>7. Len(c.params) \in ArgMin(c.slot)..ArgMax(c.slot)
  BY <1>4, <1>5, <1>6, SlotFits
<1>8. ArgMax(c.slot) \in Int
  BY <1>4, SlotAssumption DEF SlotRecord, ArgMax
<1> QED
  BY <1>7, <1>8 DEF Delivered

\* For all classes and callables: fewer arguments emit the overload with so many parameters,
\* and a function is given as many as it takes.
THEOREM OverloadsFitAlways == SignalSpec => []OverloadsFit
<1>1. SignalInv => OverloadsFit
  BY DefaultsEmit, SlotsGet DEF OverloadsFit
<1> QED
  BY <1>1, SignalInvariant, PTL

-----------------------------------------------------------------------------
(* disconnect() *)

LEMMA CutsWhatWasConnected == SignalInv => DisconnectFindsIt
<1> SUFFICES ASSUME SignalInv, NEW c \in connections
             PROVE  LET n == c.from[1]
                        i == c.from[2] IN
                    IF c.to = <<>> THEN c \in ConnectionsTo(dict[n], SlotToCut(dict[n], i, c.slot), c.slot)
                    ELSE checkConnectArgs(dict[n].links[i], dict[c.to[1]].links[c.to[2]]) =>
                           /\ c \in ConnectionsTo(dict[n], i, c.slot)
                           /\ c.slot.params = dict[c.to[1]].links[c.to[2]].params
  BY DEF DisconnectFindsIt
<1>1. PICK n \in Names : \E i \in Held(n) :
        /\ c.from = <<n, i>> /\ c.name = dict[n].name /\ dict[n] # NoChain
        /\ ToSlot(c, n, i) \/ ToSignal(c, n, i)
  BY DEF SignalInv, ConnectionsSound, ConnectionSound
<1>2. PICK i \in Held(n) :
        /\ c.from = <<n, i>> /\ c.name = dict[n].name /\ dict[n] # NoChain
        /\ ToSlot(c, n, i) \/ ToSignal(c, n, i)
  BY <1>1
<1>3. c.from[1] = n /\ c.from[2] = i
  BY <1>2
<1>4. CASE ToSlot(c, n, i)
  BY <1>2, <1>3, <1>4 DEF ToSlot, ConnectionsTo, SlotToCut
<1>5. CASE ToSignal(c, n, i)
  <2>1. PICK m \in Names : \E j \in Held(m) : \E p \in Pairs(dict[n], i, dict[m], j) :
          /\ c.to = <<m, j>> /\ dict[m] # NoChain
          /\ IsFirstPair(p, Pairs(dict[n], i, dict[m], j))
          /\ c.params = dict[n].links[p[1]].params
          /\ c.slot = [kind |-> "signal", name |-> dict[m].name, params |-> dict[m].links[p[2]].params]
    BY <1>5 DEF ToSignal
  <2>2. PICK j \in Held(m) : \E p \in Pairs(dict[n], i, dict[m], j) :
          /\ c.to = <<m, j>> /\ dict[m] # NoChain
          /\ IsFirstPair(p, Pairs(dict[n], i, dict[m], j))
          /\ c.params = dict[n].links[p[1]].params
          /\ c.slot = [kind |-> "signal", name |-> dict[m].name, params |-> dict[m].links[p[2]].params]
    BY <2>1
  <2> DEFINE S == Pairs(dict[n], i, dict[m], j)
  <2>3. PICK p \in S :
          /\ IsFirstPair(p, S)
          /\ c.params = dict[n].links[p[1]].params
          /\ c.slot = [kind |-> "signal", name |-> dict[m].name, params |-> dict[m].links[p[2]].params]
    BY <2>2
  <2>4. c.to = <<m, j>> /\ c.to # <<>> /\ c.to[1] = m /\ c.to[2] = j
    BY <2>2
  <2> SUFFICES ASSUME checkConnectArgs(dict[n].links[i], dict[m].links[j])
               PROVE  c \in ConnectionsTo(dict[n], i, c.slot) /\ c.slot.params = dict[m].links[j].params
    BY <1>3, <2>4
  <2>5. /\ i \in 1..Len(dict[n].links) /\ j \in 1..Len(dict[m].links)
        /\ Len(dict[n].links) \in Nat /\ Len(dict[m].links) \in Nat
    BY NoChainFacts, LenProperties DEF SignalInv
  <2>6. <<i, j>> \in S
    BY <2>5 DEF Pairs
  <2>7. p \in (i .. Len(dict[n].links)) \X (j .. Len(dict[m].links))
    BY <2>3 DEF Pairs
  <2>8. p[1] < i \/ (p[1] = i /\ p[2] <= j)
    BY <2>3, <2>6 DEF IsFirstPair
  <2>9. p[1] \in i .. Len(dict[n].links) /\ p[2] \in j .. Len(dict[m].links)
    BY <2>7
  <2> HIDE DEF S
  <2>10. p[1] = i /\ p[2] = j
    BY <2>5, <2>8, <2>9
  <2>11. c.params = dict[n].links[i].params /\ c.slot.params = dict[m].links[j].params
    BY <2>3, <2>10
  <2> QED
    BY <1>2, <2>11 DEF ConnectionsTo
<1> QED
  BY <1>2, <1>4, <1>5

\* For all classes and callables: what connect() has connected, disconnect() finds.
THEOREM DisconnectFinds == SignalSpec => []DisconnectFindsIt
BY CutsWhatWasConnected, SignalInvariant, PTL

-----------------------------------------------------------------------------
(* Lookup *)

\* What comes into the dict of the object when a class has a Signal of this name
LEMMA ShownByUpdate ==
  ASSUME SignalInv, updateSourceObject, NEW n \in Names, dict[n] = NoChain, dict'[n] # NoChain
  PROVE  \E c \in Mro : /\ IsSignal(c, n) /\ c = First(Signals(n))
                        /\ dict'[n] = instanceInitialize(layout[c][n], TRUE)
<1>1. dict'[n] = Updated(n)
  BY DEF updateSourceObject
<1>2. Signals(n) # {} /\ dict'[n] = instanceInitialize(layout[First(Signals(n))][n], TRUE)
  BY <1>1 DEF Updated
<1> QED
  BY <1>2, LookupFacts DEF SignalInv

LEMMA ShownByGet ==
  ASSUME SignalInv, NEW m \in Names, signalDescrGet(m), NEW n \in Names, dict'[n] # dict[n]
  PROVE  /\ n = Found(m).name /\ Found(m).kind = "signal"
         /\ dict'[n] = instanceInitialize(Found(m), phase = "alive")
<1>1. dict' = [dict EXCEPT ![Found(m).name] = instanceInitialize(Found(m), phase = "alive")]
      /\ Found(m).kind = "signal"
  BY DEF signalDescrGet, DictName
<1>2. dict = [k \in Names |-> dict[k]]
  BY DEF SignalInv, ChainsSound
<1> QED
  BY <1>1, <1>2

LEMMA ShownHidden ==
  ASSUME SignalInv, NEW m \in Names, getHiddenDataFromQObject(m), NEW n \in Names, dict'[n] # dict[n]
  PROVE  n = m /\ Found(n) = Nothing /\ dict'[n] = newObjectFromMethod(n)
<1>1. dict' = [dict EXCEPT ![m] = newObjectFromMethod(m)] /\ Found(m) = Nothing
  BY DEF getHiddenDataFromQObject
<1>2. dict = [k \in Names |-> dict[k]]
  BY DEF SignalInv, ChainsSound
<1> QED
  BY <1>1, <1>2

\* Only three actions change the dict of the object.
LEMMA DictChanges ==
  ASSUME SignalInv, SignalNext, dict' # dict
  PROVE  /\ layout' = layout
         /\ \/ updateSourceObject
            \/ \E m \in Names : signalDescrGet(m)
            \/ \E m \in Names : getHiddenDataFromQObject(m)
<1>1. CASE updateSourceObject
  BY <1>1 DEF updateSourceObject
<1>2. CASE \E m \in Names : signalDescrGet(m)
  BY <1>2 DEF signalDescrGet
<1>3. CASE \E m \in Names : getHiddenDataFromQObject(m)
  BY <1>3 DEF getHiddenDataFromQObject
<1>4. ~ \E n \in Names : \E i \in Held(n), s \in Slots : signalInstanceConnect(n, i, s)
  BY DEF signalInstanceConnect
<1>5. ~ \E n \in Names : \E i \in Held(n), s \in Slots : signalInstanceDisconnect(n, i, s)
  BY DEF signalInstanceDisconnect
<1>6. ~ \E n, m \in Names : \E i \in Held(n), j \in Held(m) : ConnectSignal(n, i, m, j)
  BY DEF ConnectSignal
<1>7. ~ \E n, m \in Names : \E i \in Held(n), j \in Held(m) : DisconnectSignal(n, i, m, j)
  BY DEF DisconnectSignal
<1>8. ~ \E n \in Names : \E i \in Held(n) : DisconnectReceivers(n, i)
  BY DEF DisconnectReceivers
<1>9. ~ (\E c \in connections : DisconnectId(c)) /\ ~SourceDeleted
  BY DEF DisconnectId, SourceDeleted
<1> QED
  BY <1>1, <1>2, <1>3, <1>4, <1>5, <1>6, <1>7, <1>8, <1>9 DEF SignalNext

\* A Signal object has one name and is used after the constructor.
NamesOwn ==
  ~Early /\ \A c \in Mro, n \in Names : IsSignal(c, n) =>
      layout[c][n].home = <<c, n>> /\ layout[c][n].name = n

\* An instance in the dict of the object is of the Signal that a lookup finds.
Right(n) == Found(n).kind = "signal" =>
              dict[n].home = Found(n).home /\ (phase = "alive" => dict[n].source)

LookupInv == NamesOwn => \A n \in Names : dict[n] # NoChain => phase # "raw" /\ Right(n)

\* The constructor leaves no Signal of a class out, unless the object was made in C++.
Complete == ~Early /\ phase # "raw" =>
              \/ \A n \in Names : Signals(n) # {} => dict[n] # NoChain
              \/ \A n \in Names : layout["Sub"][n] = Nothing

LEMMA PhaseSteps ==
  ASSUME SignalInv, SignalNext
  PROVE  /\ layout' = layout
         /\ phase' # phase => updateSourceObject \/ (phase = "alive" /\ phase' = "deleted")
         /\ dict' = dict \/ phase' = phase \/ updateSourceObject
<1>1. CASE updateSourceObject
  BY <1>1 DEF updateSourceObject
<1>2. CASE SourceDeleted
  BY <1>2 DEF SourceDeleted
<1>3. CASE ~updateSourceObject /\ ~SourceDeleted
  <2>1. ASSUME NEW n \in Names, signalDescrGet(n) PROVE layout' = layout /\ phase' = phase
    BY <2>1 DEF signalDescrGet
  <2>2. ASSUME NEW n \in Names, getHiddenDataFromQObject(n) PROVE layout' = layout /\ phase' = phase
    BY <2>2 DEF getHiddenDataFromQObject
  <2>3. ASSUME NEW n \in Names, NEW i \in Held(n), NEW s \in Slots,
               signalInstanceConnect(n, i, s) \/ signalInstanceDisconnect(n, i, s)
        PROVE  layout' = layout /\ phase' = phase
    BY <2>3 DEF signalInstanceConnect, signalInstanceDisconnect
  <2>4. ASSUME NEW n \in Names, NEW m \in Names, NEW i \in Held(n), NEW j \in Held(m),
               ConnectSignal(n, i, m, j) \/ DisconnectSignal(n, i, m, j)
        PROVE  layout' = layout /\ phase' = phase
    BY <2>4 DEF ConnectSignal, DisconnectSignal
  <2>5. ASSUME NEW n \in Names, NEW i \in Held(n), DisconnectReceivers(n, i)
        PROVE  layout' = layout /\ phase' = phase
    BY <2>5 DEF DisconnectReceivers
  <2>6. ASSUME NEW c \in connections, DisconnectId(c) PROVE layout' = layout /\ phase' = phase
    BY <2>6 DEF DisconnectId
  <2>7. layout' = layout /\ phase' = phase
    BY <1>3, <2>1, <2>2, <2>3, <2>4, <2>5, <2>6 DEF SignalNext
  <2> QED
    BY <2>7
<1> QED
  BY <1>1, <1>2, <1>3

LEMMA StepGrowsDict ==
  ASSUME SignalInv, SignalNext
  PROVE  DictGrows
<1>1. CASE dict' = dict
  BY <1>1 DEF DictGrows
<1>2. CASE updateSourceObject
  BY <1>2 DEF updateSourceObject, Updated, DictGrows
<1>3. CASE \E m \in Names : signalDescrGet(m)
  BY <1>3, DescrGetStep
<1>4. CASE \E m \in Names : getHiddenDataFromQObject(m)
  BY <1>4, HiddenStep
<1> QED
  BY <1>1, <1>2, <1>3, <1>4, DictChanges

LEMMA ChainHasLinks ==
  ASSUME SignalInv, NEW c \in Mro, NEW n \in Names, IsSignal(c, n), NEW source \in BOOLEAN
  PROVE  instanceInitialize(layout[c][n], source) # NoChain
<1>1. instanceInitialize(layout[c][n], source).links # <<>>
  BY InstanceSound DEF SignalInv, ChainSound
<1> QED
  BY <1>1 DEF NoChain

LEMMA CompleteStep ==
  ASSUME SignalInv, Complete, SignalNext
  PROVE  Complete'
<1>1. layout' = layout
  BY PhaseSteps
<1>2. \A n \in Names : Signals(n)' = Signals(n)
  BY <1>1 DEF Signals, IsSignal
<1>3. CASE updateSourceObject
  <2>1. ASSUME NEW n \in Names, Signals(n) # {} PROVE dict'[n] # NoChain
    <3>1. dict'[n] = Updated(n)
      BY <1>3 DEF updateSourceObject
    <3>2. First(Signals(n)) \in Mro /\ IsSignal(First(Signals(n)), n)
      BY <2>1, LookupFacts DEF SignalInv
    <3> QED
      BY <2>1, <3>1, <3>2, ChainHasLinks DEF Updated
  <2> QED
    BY <1>2, <2>1 DEF Complete
<1>4. CASE ~updateSourceObject
  <2>1. phase' # "raw" => phase # "raw"
    BY <1>4, PhaseSteps
  <2>2. \A n \in Names : dict[n] # NoChain => dict'[n] # NoChain
    BY StepGrowsDict DEF DictGrows
  <2> QED
    BY <1>1, <1>2, <2>1, <2>2 DEF Complete
<1> QED
  BY <1>3, <1>4

LEMMA LookupStep ==
  ASSUME SignalInv, LookupInv, SignalNext
  PROVE  LookupInv'
<1>1. layout' = layout
  BY PhaseSteps
<1>2. (NamesOwn' <=> NamesOwn) /\ \A n \in Names : Found(n)' = Found(n)
  BY <1>1 DEF NamesOwn, IsSignal, Found, Lookup
<1> SUFFICES ASSUME NamesOwn, NEW n \in Names, dict'[n] # NoChain
             PROVE  phase' # "raw" /\ Right(n)'
  BY <1>2 DEF LookupInv
<1>3. phase' = "raw" => phase = "raw"
  BY PhaseSteps DEF updateSourceObject
<1>4. CASE dict'[n] = dict[n]
  <2>1. dict[n] # NoChain /\ phase # "raw" /\ Right(n)
    BY <1>4 DEF LookupInv
  <2>2. ~updateSourceObject
    BY <2>1 DEF updateSourceObject
  <2>3. phase' = "alive" => phase = "alive"
    BY <2>2, PhaseSteps
  <2> QED
    BY <1>2, <1>3, <1>4, <2>1, <2>3 DEF Right
<1>5. CASE dict'[n] # dict[n]
  <2>1. dict[n] = NoChain /\ dict' # dict
    BY <1>5, StepGrowsDict DEF DictGrows
  <2>2. CASE updateSourceObject
    <3>1. PICK c \in Mro : /\ IsSignal(c, n) /\ c = First(Signals(n))
                           /\ dict'[n] = instanceInitialize(layout[c][n], TRUE)
      BY <2>1, <2>2, ShownByUpdate
    <3>2. phase' = "alive" /\ dict'[n].home = layout[c][n].home /\ dict'[n].source = TRUE
      BY <2>2, <3>1 DEF updateSourceObject, instanceInitialize
    <3>3. Found(n).kind = "signal" => Found(n) = layout[c][n]
      BY <3>1, LookupFacts DEF SignalInv, Nothing
    <3> QED
      BY <1>2, <3>2, <3>3 DEF Right
  <2>3. CASE \E m \in Names : signalDescrGet(m)
    <3>1. PICK m \in Names : signalDescrGet(m)
      BY <2>3
    <3>2. /\ n = Found(m).name /\ Found(m).kind = "signal"
          /\ dict'[n] = instanceInitialize(Found(m), phase = "alive")
      BY <1>5, <3>1, ShownByGet
    <3>3. IsSignal(Lookup(m), m) /\ Lookup(m) \in Mro /\ Found(m) = layout[Lookup(m)][m]
      BY <3>2, LookupFacts DEF SignalInv, Nothing
    <3>4. n = m
      BY <3>2, <3>3 DEF NamesOwn
    <3>5. phase # "raw" /\ phase' = phase
      BY <3>1 DEF signalDescrGet, NamesOwn
    <3>6. dict'[n].home = Found(n).home /\ dict'[n].source = (phase = "alive")
      BY <3>2, <3>4 DEF instanceInitialize
    <3> QED
      BY <1>2, <3>5, <3>6 DEF Right
  <2>4. CASE \E m \in Names : getHiddenDataFromQObject(m)
    <3>1. PICK m \in Names : getHiddenDataFromQObject(m)
      BY <2>4
    <3>2. Found(n) = Nothing /\ phase = "alive" /\ phase' = phase
      BY <1>5, <3>1, ShownHidden DEF getHiddenDataFromQObject
    <3> QED
      BY <1>2, <3>2 DEF Right, Nothing
  <2> QED
    BY <2>1, <2>2, <2>3, <2>4, DictChanges
<1> QED
  BY <1>4, <1>5

LEMMA LookupInvariant == SignalSpec => [](SignalInv /\ LookupInv /\ Complete)
<1>1. SignalInit => LookupInv /\ Complete
  <2> SUFFICES ASSUME SignalInit PROVE LookupInv /\ Complete
    OBVIOUS
  <2>1. LookupInv
    BY DEF SignalInit, LookupInv
  <2>2. Complete
    BY DEF SignalInit, Complete
  <2> QED
    BY <2>1, <2>2
<1>2. SignalInv /\ LookupInv /\ Complete /\ [SignalNext]_signalVars => (LookupInv /\ Complete)'
  <2> SUFFICES ASSUME SignalInv, LookupInv, Complete, [SignalNext]_signalVars
               PROVE  LookupInv' /\ Complete'
    OBVIOUS
  <2>1. CASE SignalNext
    BY <2>1, LookupStep, CompleteStep
  <2>2. CASE UNCHANGED signalVars
    BY <2>2 DEF signalVars, LookupInv, Complete, NamesOwn, Right, Signals, IsSignal, Found, Lookup
  <2> QED
    BY <2>1, <2>2
<1> QED
  BY <1>1, <1>2, SignalInvariant, PTL DEF SignalSpec

\* For all classes whose Signals have one name, used after the constructor: what an object
\* keeps under a name is of the Signal that the class has there, and knows its source.
THEOREM LookupFinds == SignalSpec => []LookupFindsItsSignal
<1>1. LookupInv => LookupFindsItsSignal
  BY DEF LookupInv, LookupFindsItsSignal, NamesOwn, Right
<1> QED
  BY <1>1, LookupInvariant, PTL

-----------------------------------------------------------------------------
(* Calls *)

\* The first class with a method of this name
FirstMethod(n) == First({c \in Mro : IsMethod(c, n)})

\* A Signal that keeps a method is not overridden.
NotOverridden(n) == ~ (layout["Sub"][n].kind = "method" /\ IsSignal("Base", n) /\ layout["Base"][n].method)

LEMMA MethodFacts ==
  ASSUME IsLayout, NEW n \in Names
  PROVE  /\ FirstMethod(n) = IF IsMethod("Sub", n) THEN "Sub" ELSE IF IsMethod("Base", n) THEN "Base" ELSE "none"
         /\ IsMethod("Sub", n) <=> layout["Sub"][n].kind = "method"
         /\ \A c \in Mro : IsMethod(c, n) => layout[c][n] # Nothing
         /\ \A c \in Mro : IsSignal(c, n) => layout[c][n].kind # "method"
<1>1. ("Sub" \in Mro) /\ ("Base" \in Mro) /\ "Sub" # "Base"
  BY DEF Mro
<1>2. FirstMethod(n) = IF IsMethod("Sub", n) THEN "Sub" ELSE IF IsMethod("Base", n) THEN "Base" ELSE "none"
  BY <1>1 DEF FirstMethod, First
<1>3. IsSignal("Sub", n) => ~layout["Sub"][n].method
  <2>1. EntrySound("Sub", n)
    BY <1>1, LayoutFacts
  <2> QED
    BY <1>1, <2>1 DEF EntrySound, IsSignal, Nothing, Method
<1> QED
  BY <1>2, <1>3 DEF IsMethod, IsSignal, Nothing

\* A chain without a method, or with the first one, calls the first one.
LEMMA ChainCallsFirst ==
  ASSUME IsLayout, NEW n \in Names, NEW d, d.name = n,
         d.method => d.home[1] = "Base" /\ FirstMethod(n) = "Base"
  PROVE  getHomonymousMethod(d) = FirstMethod(n)
BY DEF getHomonymousMethod, FirstMethod

\* The method of a Signal in the wrapped class
LEMMA BaseMethod ==
  ASSUME IsLayout, NEW n \in Names, IsSignal("Base", n), NotOverridden(n)
  PROVE  /\ layout["Base"][n].name = n
         /\ layout["Base"][n].method => layout["Base"][n].home[1] = "Base" /\ FirstMethod(n) = "Base"
<1>1. EntrySound("Base", n)
  BY LayoutFacts DEF Mro
<1>2. /\ layout["Base"][n].name = n
      /\ layout["Base"][n].method => layout["Base"][n].home[1] = "Base"
  BY <1>1 DEF EntrySound, IsSignal, Nothing, Method
<1>3. layout["Base"][n].method => FirstMethod(n) = "Base"
  BY MethodFacts DEF NotOverridden, IsMethod
<1> QED
  BY <1>2, <1>3

LEMMA CalledIsFirst ==
  ASSUME SignalInv, NEW n \in Names, dict[n] = NoChain, NotOverridden(n),
         Found(n).kind = "signal" => Found(n).name = n
  PROVE  Called(n) = FirstMethod(n)
<1> USE DEF SignalInv
<1>1. CASE Found(n).kind = "signal"
  <2>1. /\ IsSignal(Lookup(n), n) /\ Lookup(n) \in Mro /\ Found(n) = layout[Lookup(n)][n]
    BY <1>1, LookupFacts DEF Nothing
  <2> DEFINE d == instanceInitialize(Found(n), TRUE)
  <2>2. d.name = n /\ d.method = Found(n).method /\ d.home = Found(n).home
    BY <1>1 DEF instanceInitialize
  <2>3. Called(n) = getHomonymousMethod(d)
    BY <1>1 DEF Called
  <2> HIDE DEF d
  <2>4. CASE Lookup(n) = "Sub"
    <3>1. EntrySound("Sub", n)
      BY LayoutFacts DEF Mro
    <3>2. ~Found(n).method
      BY <2>1, <2>4, <3>1 DEF EntrySound, IsSignal, Nothing, Method
    <3> QED
      BY <2>2, <2>3, <3>2, ChainCallsFirst
  <2>5. CASE Lookup(n) = "Base"
    BY <2>1, <2>2, <2>3, <2>5, BaseMethod, ChainCallsFirst
  <2> QED
    BY <2>1, <2>4, <2>5 DEF Mro
<1>2. CASE Found(n) = Nothing
  <2>1. Called(n) = "none"
    BY <1>2 DEF Called, Nothing
  <2>2. layout["Sub"][n] = Nothing /\ layout["Base"][n] = Nothing
    <3>1. Lookup(n) \in Mro => Found(n) = layout[Lookup(n)][n]
      BY DEF Found, Mro
    <3> QED
      BY <1>2, <3>1, LookupFacts DEF Mro
  <2>3. ~IsMethod("Sub", n) /\ ~IsMethod("Base", n)
    BY <2>2 DEF IsMethod, IsSignal, Nothing
  <2> QED
    BY <2>1, <2>3, MethodFacts
<1>3. CASE Found(n).kind # "signal" /\ Found(n) # Nothing
  <2>1. Lookup(n) \in Mro /\ Found(n) = layout[Lookup(n)][n]
    BY <1>3, LookupFacts
  <2>2. EntrySound(Lookup(n), n)
    BY <2>1, LayoutFacts
  <2>3. Found(n) = Method
    BY <1>3, <2>1, <2>2 DEF EntrySound, IsSignal
  <2>4. Called(n) = Lookup(n) /\ IsMethod(Lookup(n), n)
    BY <2>1, <2>3 DEF Called, Method, IsMethod
  <2>5. Lookup(n) = "Base" => layout["Sub"][n] = Nothing
    BY LookupFacts
  <2>6. Lookup(n) = "Base" => ~IsMethod("Sub", n)
    BY <2>5 DEF IsMethod, IsSignal, Nothing
  <2> QED
    BY <2>1, <2>4, <2>6, MethodFacts DEF Mro
<1> QED
  BY <1>1, <1>2, <1>3

\* A new chain calls what was called before.
LEMMA UpdateCalls ==
  ASSUME SignalInv, updateSourceObject, NEW n \in Names, dict[n] = NoChain, dict'[n] # NoChain,
         NotOverridden(n)
  PROVE  getHomonymousMethod(dict'[n]) = Called(n)
<1> USE DEF SignalInv
<1>1. PICK c \in Mro : /\ IsSignal(c, n) /\ c = First(Signals(n))
                       /\ dict'[n] = instanceInitialize(layout[c][n], TRUE)
  BY ShownByUpdate
<1>2. CASE Found(n).kind = "signal"
  <2>1. Found(n) = layout[c][n]
    BY <1>1, <1>2, LookupFacts DEF Nothing
  <2> QED
    BY <1>1, <1>2, <2>1 DEF Called
<1>3. CASE Found(n).kind # "signal"
  <2>1. c = "Base"
    <3>1. IsSignal("Sub", n) => Found(n) = layout["Sub"][n]
      BY LookupFacts DEF Found
    <3> QED
      BY <1>1, <1>3, <3>1 DEF Mro, IsSignal
  <2>2. /\ layout["Base"][n].name = n
        /\ layout["Base"][n].method => layout["Base"][n].home[1] = "Base" /\ FirstMethod(n) = "Base"
    BY <1>1, <2>1, BaseMethod
  <2>3. /\ dict'[n].name = layout["Base"][n].name /\ dict'[n].method = layout["Base"][n].method
        /\ dict'[n].home = layout["Base"][n].home
    BY <1>1, <2>1 DEF instanceInitialize
  <2>4. getHomonymousMethod(dict'[n]) = FirstMethod(n)
    BY <2>2, <2>3, ChainCallsFirst
  <2>5. Called(n) = FirstMethod(n)
    BY <1>3, CalledIsFirst
  <2> QED
    BY <2>4, <2>5
<1> QED
  BY <1>2, <1>3

LEMMA GetCalls ==
  ASSUME SignalInv, Complete, NEW m \in Names, signalDescrGet(m), NEW n \in Names, dict'[n] # dict[n],
         dict[n] = NoChain, NotOverridden(n), Early /\ Found(n).kind = "signal" => Found(n).name = n
  PROVE  getHomonymousMethod(dict'[n]) = Called(n)
<1> USE DEF SignalInv
<1>1. /\ n = Found(m).name /\ Found(m).kind = "signal"
      /\ dict'[n] = instanceInitialize(Found(m), phase = "alive")
  BY ShownByGet
<1>2. IsSignal(Lookup(m), m) /\ Lookup(m) \in Mro /\ Found(m) = layout[Lookup(m)][m]
  BY <1>1, LookupFacts DEF Nothing
<1>3. /\ dict'[n].name = n /\ dict'[n].method = Found(m).method /\ dict'[n].home = Found(m).home
  BY <1>1 DEF instanceInitialize
<1>4. Found(n).kind = "signal" => Found(n).name = n
  <2>1. CASE Early
    BY <2>1
  <2>2. CASE ~Early
    <3>1. phase # "raw" /\ dict[m] = NoChain /\ Signals(m) # {}
      BY <1>1, <2>2, LookupFacts DEF signalDescrGet
    <3>2. layout["Sub"][n] = Nothing
      BY <2>2, <3>1 DEF Complete
    <3>3. Found(n).kind = "signal" => IsSignal("Base", n) /\ Found(n) = layout["Base"][n]
      BY <3>2, LookupFacts DEF Nothing, Mro
    <3> QED
      BY <3>3, BaseMethod
  <2> QED
    BY <2>1, <2>2
<1>5. Called(n) = FirstMethod(n)
  BY <1>4, CalledIsFirst
<1>6. CASE Lookup(m) = "Sub"
  <2>1. EntrySound("Sub", m)
    BY <1>2, <1>6, LayoutFacts
  <2>2. ~Found(m).method
    BY <1>2, <1>6, <2>1 DEF EntrySound, IsSignal, Nothing, Method
  <2> QED
    BY <1>3, <1>5, <2>2, ChainCallsFirst
<1>7. CASE Lookup(m) = "Base"
  <2>1. EntrySound("Base", m)
    BY <1>2, <1>7, LayoutFacts
  <2>2. n = m
    BY <1>1, <1>2, <1>7, <2>1 DEF EntrySound, IsSignal, Nothing, Method
  <2> QED
    BY <1>2, <1>3, <1>5, <1>7, <2>2, BaseMethod, ChainCallsFirst
<1> QED
  BY <1>2, <1>6, <1>7 DEF Mro

LEMMA HiddenCalls ==
  ASSUME SignalInv, NEW m \in Names, getHiddenDataFromQObject(m), NEW n \in Names, dict'[n] # dict[n],
         dict[n] = NoChain, NotOverridden(n)
  PROVE  getHomonymousMethod(dict'[n]) = Called(n)
<1>1. Found(n) = Nothing /\ dict'[n] = newObjectFromMethod(n)
  BY ShownHidden
<1>2. dict'[n].name = n /\ ~dict'[n].method
  BY <1>1 DEF newObjectFromMethod
<1>3. Called(n) = FirstMethod(n)
  BY <1>1, CalledIsFirst DEF Nothing
<1> QED
  BY <1>2, <1>3, ChainCallsFirst DEF SignalInv

LEMMA CallsStay ==
  ASSUME SignalInv, Complete, SignalNext, dict' # dict, NEW n \in Names, NotOverridden(n),
         Early /\ Found(n).kind = "signal" => Found(n).name = n
  PROVE  Called(n)' = Called(n)
<1>1. layout' = layout
  BY DictChanges
<1>2. \A d : getHomonymousMethod(d)' = getHomonymousMethod(d)
  BY <1>1 DEF getHomonymousMethod, IsMethod, IsSignal
<1>3. Found(n)' = Found(n) /\ Lookup(n)' = Lookup(n)
  BY <1>1 DEF Found, Lookup
<1>4. CASE dict'[n] = dict[n]
  <2>1. getHomonymousMethod(dict[n])' = getHomonymousMethod(dict[n])
    BY <1>1, <1>4 DEF getHomonymousMethod, IsMethod, IsSignal
  <2>2. getHomonymousMethod(instanceInitialize(Found(n), TRUE))' = getHomonymousMethod(instanceInitialize(Found(n), TRUE))
    BY <1>1, <1>3 DEF getHomonymousMethod, IsMethod, IsSignal, instanceInitialize
  <2> QED
    BY <1>3, <1>4, <2>1, <2>2 DEF Called
<1>5. CASE dict'[n] # dict[n]
  <2>1. dict[n] = NoChain /\ dict'[n] # NoChain
    BY <1>5, StepGrowsDict DEF DictGrows
  <2>2. Called(n)' = getHomonymousMethod(dict[n])'
    BY <2>1 DEF Called
  <2>3. getHomonymousMethod(dict[n])' = getHomonymousMethod(dict'[n])
    BY <1>1 DEF getHomonymousMethod, IsMethod, IsSignal
  <2>4. getHomonymousMethod(dict'[n]) = Called(n)
    BY <1>5, <2>1, DictChanges, UpdateCalls, GetCalls, HiddenCalls
  <2> QED
    BY <2>2, <2>3, <2>4
<1> QED
  BY <1>4, <1>5

\* For all classes: what an object keeps does not change the method a call reaches.
THEOREM CallsReach == SignalSpec => CallsReachTheirMethod
<1>1. SignalInv /\ Complete /\ [SignalNext]_signalVars =>
        [\A n \in Names :
           /\ ~ (layout["Sub"][n].kind = "method" /\ IsSignal("Base", n) /\ layout["Base"][n].method)
           /\ Early /\ Found(n).kind = "signal" => Found(n).name = n
           => Called(n)' = Called(n)]_dict
  BY CallsStay DEF signalVars, NotOverridden
<1> QED
  BY <1>1, LookupInvariant, PTL DEF SignalSpec, CallsReachTheirMethod

-----------------------------------------------------------------------------
(* ByteArrays *)

(* Slices *)

Ends == Int \cup {Unset}
Steps == {-2, -1, 1, 2}
Keys == [start : Ends, stop : Ends, step : Strides]

\* The ends that GetIndices() finds are those of Python's rules.
LEMMA EndAgrees ==
  ASSUME NEW n \in Nat, NEW i \in Ends, NEW missing \in Int, NEW step \in Steps,
         IF step > 0 THEN missing \in 0..n ELSE missing \in (-1)..(n - 1)
  PROVE  /\ EndOf(i, n, missing, step) = IF i = Unset THEN missing ELSE Adjusted(i, n, step)
         /\ IF step > 0 THEN EndOf(i, n, missing, step) \in 0..n ELSE EndOf(i, n, missing, step) \in (-1)..(n - 1)
<1>1. CASE i = Unset
  BY <1>1 DEF EndOf, Steps
<1>2. CASE i # Unset
  <2>1. PICK j \in Int : j = IF i < 0 THEN i + n ELSE i
    BY <1>2 DEF Ends
  <2>2. EndOf(i, n, missing, step) = IF step > 0 THEN Most(0, Least(j, n)) ELSE Most(-1, Least(j, n - 1))
    BY <1>2, <2>1 DEF EndOf
  <2>3. Adjusted(i, n, step) = IF j < 0 THEN (IF step < 0 THEN -1 ELSE 0)
                               ELSE IF j >= n THEN (IF step < 0 THEN n - 1 ELSE n) ELSE j
    BY <2>1 DEF Adjusted
  <2> QED
    BY <1>2, <2>2, <2>3 DEF Most, Least, Steps
<1> QED
  BY <1>1, <1>2

LEMMA EndsAgree ==
  ASSUME NEW n \in Nat, NEW key \in Keys
  PROVE  /\ GetIndices(key, n).step = StepOf(key) /\ GetIndices(key, n).start = FirstOf(key, n)
         /\ GetIndices(key, n).stop = PastOf(key, n) /\ StepOf(key) \in Steps
         /\ FirstOf(key, n) \in Int /\ PastOf(key, n) \in Int
         /\ IF StepOf(key) > 0 THEN FirstOf(key, n) \in 0..n /\ PastOf(key, n) \in 0..n
            ELSE FirstOf(key, n) \in (-1)..(n - 1) /\ PastOf(key, n) \in (-1)..(n - 1)
<1>1. /\ key.start \in Ends /\ key.stop \in Ends /\ key.step \in Strides
  BY DEF Keys
<1>2. PICK step \in Steps : step = StepOf(key)
  BY <1>1 DEF StepOf, Strides, Steps
<1>3. step > 0 <=> ~(step < 0)
  BY DEF Steps
<1>4. PICK first \in Int : first = IF step > 0 THEN 0 ELSE n - 1
  OBVIOUS
<1>5. PICK past \in Int : past = IF step > 0 THEN n ELSE -1
  OBVIOUS
<1>6. GetIndices(key, n).step = step
  BY <1>2 DEF GetIndices, StepOf
<1>7. GetIndices(key, n).start = IF key.start = Unset THEN first ELSE Adjusted(key.start, n, step)
  BY <1>2, <1>3, <1>4 DEF GetIndices, StepOf
<1>8. GetIndices(key, n).stop = IF key.stop = Unset THEN past ELSE Adjusted(key.stop, n, step)
  BY <1>2, <1>3, <1>5 DEF GetIndices, StepOf
<1>9. FirstOf(key, n) = EndOf(key.start, n, first, step) /\ PastOf(key, n) = EndOf(key.stop, n, past, step)
  BY <1>2, <1>4, <1>5 DEF FirstOf, PastOf
<1>10. /\ IF step > 0 THEN first \in 0..n ELSE first \in (-1)..(n - 1)
       /\ IF step > 0 THEN past \in 0..n ELSE past \in (-1)..(n - 1)
  BY <1>4, <1>5
<1>11. /\ FirstOf(key, n) = GetIndices(key, n).start
       /\ IF step > 0 THEN FirstOf(key, n) \in 0..n ELSE FirstOf(key, n) \in (-1)..(n - 1)
  BY <1>1, <1>7, <1>9, <1>10, EndAgrees
<1>12. /\ PastOf(key, n) = GetIndices(key, n).stop
       /\ IF step > 0 THEN PastOf(key, n) \in 0..n ELSE PastOf(key, n) \in (-1)..(n - 1)
  BY <1>1, <1>8, <1>9, <1>10, EndAgrees
<1> QED
  BY <1>2, <1>3, <1>6, <1>11, <1>12

\* How many items there are from an end before the other.
Count(first, past, step) ==
  IF step < 0 THEN IF past < first THEN (first - past - 1) \div (-step) + 1 ELSE 0
  ELSE IF first < past THEN (past - first - 1) \div step + 1 ELSE 0

LEMMA CountOfSteps ==
  ASSUME NEW first \in Int, NEW past \in Int, NEW step \in Steps
  PROVE  /\ Count(first, past, step) \in Nat
         /\ \A k \in Nat : k >= 1 =>
              (k <= Count(first, past, step)
                 <=> IF step > 0 THEN first + (k - 1) * step < past ELSE first + (k - 1) * step > past)
         /\ step = 1 => Count(first, past, step) = Most(past - first, 0)
<1>1. CASE step = 1
  <2>1. \A x \in Int : x \div 1 = x
    OBVIOUS
  <2>2. Count(first, past, step) = IF first < past THEN past - first ELSE 0
    BY <1>1, <2>1 DEF Count
  <2>3. \A k \in Nat : (k - 1) * step = k - 1
    BY <1>1
  <2> QED
    BY <1>1, <2>2, <2>3 DEF Most
<1>2. CASE step = -1
  <2>1. \A x \in Int : x \div 1 = x
    OBVIOUS
  <2>2. Count(first, past, step) = IF past < first THEN first - past ELSE 0
    BY <1>2, <2>1 DEF Count
  <2>3. \A k \in Nat : (k - 1) * step = -(k - 1)
    BY <1>2
  <2> QED
    BY <1>2, <2>2, <2>3
<1>3. CASE step = 2
  <2>1. PICK h \in Int : h = (past - first - 1) \div 2
    OBVIOUS
  <2>2. 2 * h <= past - first - 1 /\ past - first - 1 <= 2 * h + 1
    BY <2>1
  <2>3. Count(first, past, step) = IF first < past THEN h + 1 ELSE 0
    BY <1>3, <2>1 DEF Count
  <2>4. \A k \in Nat : (k - 1) * step = 2 * k - 2
    BY <1>3
  <2> QED
    BY <1>3, <2>2, <2>3, <2>4
<1>4. CASE step = -2
  <2>1. PICK h \in Int : h = (first - past - 1) \div 2
    OBVIOUS
  <2>2. 2 * h <= first - past - 1 /\ first - past - 1 <= 2 * h + 1
    BY <2>1
  <2>3. Count(first, past, step) = IF past < first THEN h + 1 ELSE 0
    BY <1>4, <2>1 DEF Count
  <2>4. \A k \in Nat : (k - 1) * step = 2 - 2 * k
    BY <1>4
  <2> QED
    BY <1>4, <2>2, <2>3, <2>4
<1> QED
  BY <1>1, <1>2, <1>3, <1>4 DEF Steps

LEMMA LengthIsCount ==
  ASSUME NEW n \in Nat, NEW key \in Keys
  PROVE  GetIndices(key, n).length = Count(FirstOf(key, n), PastOf(key, n), StepOf(key))
BY EndsAgree DEF GetIndices, Count

\* So many places have been numbered.
LEMMA Numbered ==
  ASSUME NEW m \in Nat, NEW f, NEW T, \A k \in 1..m : f[k] \in T, \A x \in T : \E k \in 1..m : x = f[k],
         \A j, k \in 1..m : f[j] = f[k] => j = k
  PROVE  Cardinality(T) = m
<1> DEFINE g == [k \in 1..m |-> f[k]]
<1>1. g \in Bijection(1..m, T)
  BY DEF Bijection, Injection, Surjection, IsInjective
<1>2. ExistsBijection(1..m, T)
  BY <1>1 DEF ExistsBijection
<1> QED
  BY <1>2, FS_CountingElements

\* The items of a slice, in the order of its step.
IsItems(item, key, n) ==
  LET m == GetIndices(key, n).length IN
  /\ m \in Nat /\ item \in [1..m -> 0..(n - 1)]
  /\ \A k \in 1..m : item[k] = FirstOf(key, n) + (k - 1) * StepOf(key)
  /\ \A j, k \in 1..m : item[j] = item[k] => j = k
  /\ Selected(key, n) = {item[k] : k \in 1..m}
  /\ Cardinality(Selected(key, n)) = m
  /\ \A k \in 1..m : Place(key, n, item[k]) = k

LEMMA SliceItems ==
  ASSUME NEW n \in Nat, NEW key \in Keys
  PROVE  \E item : IsItems(item, key, n)
<1>1. PICK first \in Int : first = FirstOf(key, n)
  BY EndsAgree
<1>2. PICK past \in Int : past = PastOf(key, n)
  BY EndsAgree
<1>3. PICK step \in Steps : step = StepOf(key)
  BY EndsAgree
<1>4. IF step > 0 THEN first \in 0..n /\ past \in 0..n ELSE first \in (-1)..(n - 1) /\ past \in (-1)..(n - 1)
  BY <1>1, <1>2, <1>3, EndsAgree
<1>5. PICK m \in Nat : m = Count(first, past, step)
  BY CountOfSteps
<1>6. GetIndices(key, n).length = m
  BY <1>1, <1>2, <1>3, <1>5, LengthIsCount
<1>7. \A k \in 1..(n + 1) :
        k <= m <=> IF step > 0 THEN first + (k - 1) * step < past ELSE first + (k - 1) * step > past
  BY <1>5, CountOfSteps
<1> DEFINE ItemAt(k) == first + (k - 1) * step
<1>8. \A k \in 1..m : ItemAt(k) \in 0..(n - 1) /\ k <= n
  <2>1. \A k \in 1..m : IF step > 0 THEN ItemAt(k) < past ELSE ItemAt(k) > past
    BY <1>5, CountOfSteps
  <2>2. CASE step = 1
    BY <1>4, <2>1, <2>2
  <2>3. CASE step = -1
    BY <1>4, <2>1, <2>3
  <2>4. CASE step = 2
    BY <1>4, <2>1, <2>4
  <2>5. CASE step = -2
    BY <1>4, <2>1, <2>5
  <2> QED
    BY <2>2, <2>3, <2>4, <2>5 DEF Steps
<1>9. \A j, k \in Nat : /\ ItemAt(j) = ItemAt(k) => j = k
                      /\ IF step > 0 THEN ItemAt(j) <= ItemAt(k) <=> j <= k ELSE ItemAt(j) >= ItemAt(k) <=> j <= k
  <2>1. CASE step = 1
    BY <2>1
  <2>2. CASE step = -1
    BY <2>2
  <2>3. CASE step = 2
    BY <2>3
  <2>4. CASE step = -2
    BY <2>4
  <2> QED
    BY <2>1, <2>2, <2>3, <2>4 DEF Steps
<1>10. PICK item : item = [k \in 1..m |-> ItemAt(k)]
  OBVIOUS
<1> HIDE DEF ItemAt
<1>11. item \in [1..m -> 0..(n - 1)] /\ \A k \in 1..m : item[k] = ItemAt(k)
  BY <1>8, <1>10
<1>12. \A j, k \in 1..m : item[j] = item[k] => j = k
  BY <1>9, <1>11
<1>13. Selected(key, n) = {item[k] : k \in 1..m}
  <2>1. Selected(key, n) = {x \in 0..(n - 1) : \E k \in 0..n : /\ x = first + k * step
                                                              /\ IF step > 0 THEN x < past ELSE x > past}
    BY <1>1, <1>2, <1>3 DEF Selected
  <2>2. ASSUME NEW x \in Selected(key, n)
        PROVE  \E k \in 1..m : x = item[k]
    <3>1. PICK k \in 0..n : x = first + k * step /\ IF step > 0 THEN x < past ELSE x > past
      BY <2>1
    <3>2. PICK l \in 1..(n + 1) : l = k + 1
      OBVIOUS
    <3>3. l - 1 = k
      BY <3>2
    <3>4. x = ItemAt(l)
      BY <3>1, <3>3 DEF ItemAt
    <3>5. l <= m
      BY <1>7, <3>1, <3>4 DEF ItemAt
    <3> QED
      BY <1>11, <3>4, <3>5
  <2>3. ASSUME NEW k \in 1..m
        PROVE  item[k] \in Selected(key, n)
    <3>1. PICK l \in 0..n : l = k - 1
      BY <1>8
    <3>2. item[k] = first + l * step /\ item[k] \in 0..(n - 1)
      BY <1>11, <3>1 DEF ItemAt
    <3>3. k \in 1..(n + 1) /\ k <= m
      BY <1>8
    <3>4. IF step > 0 THEN item[k] < past ELSE item[k] > past
      BY <1>7, <1>11, <3>3 DEF ItemAt
    <3> QED
      BY <2>1, <3>2, <3>4
  <2> QED
    BY <2>2, <2>3
<1>14. Cardinality(Selected(key, n)) = m
  <2>1. /\ \A k \in 1..m : item[k] \in Selected(key, n)
        /\ \A x \in Selected(key, n) : \E k \in 1..m : x = item[k]
    BY <1>13
  <2> QED
    BY <1>12, <2>1, Numbered
<1>15. ASSUME NEW k \in 1..m
       PROVE  Place(key, n, item[k]) = k
  <2>1. \A j \in 1..m : (IF step > 0 THEN item[j] <= item[k] ELSE item[j] >= item[k]) <=> j <= k
    BY <1>9, <1>11
  <2>2. PICK T : T = {y \in Selected(key, n) : IF step > 0 THEN y <= item[k] ELSE y >= item[k]}
    OBVIOUS
  <2>3. \A j \in 1..k : j \in 1..m /\ item[j] \in T
    BY <1>13, <2>1, <2>2
  <2>4. \A x \in T : \E j \in 1..k : x = item[j]
    BY <1>13, <2>1, <2>2
  <2>5. \A i, j \in 1..k : item[i] = item[j] => i = j
    BY <1>12, <2>3
  <2>6. Cardinality(T) = k
    BY <2>3, <2>4, <2>5, Numbered
  <2> QED
    BY <1>3, <2>2, <2>6 DEF Place
<1>16. \A k \in 1..m : item[k] = FirstOf(key, n) + (k - 1) * StepOf(key)
  BY <1>1, <1>3, <1>11 DEF ItemAt
<1>17. IsItems(item, key, n)
  BY <1>6, <1>11, <1>12, <1>13, <1>14, <1>15, <1>16 DEF IsItems
<1> QED
  BY <1>17

-----------------------------------------------------------------------------
(* Replaced parts *)

LEMMA StringIsSeq ==
  ASSUME NEW a
  PROVE  a \in Strings <=> a \in Seq(Chars) /\ Len(a) <= MaxArray
<1>1. ASSUME a \in Strings
      PROVE  a \in Seq(Chars) /\ Len(a) <= MaxArray
  <2>1. PICK n \in 0..MaxArray : a \in [1..n -> Chars]
    BY <1>1 DEF Strings
  <2>2. a \in Seq(Chars)
    BY <2>1, SeqDef
  <2>3. Len(a) = n
    BY <2>1, <2>2, LenProperties, ArrayAssumption
  <2> QED
    BY <2>2, <2>3, ArrayAssumption
<1>2. ASSUME a \in Seq(Chars), Len(a) <= MaxArray
      PROVE  a \in Strings
  <2>1. PICK n \in Nat : n = Len(a) /\ a \in [1..n -> Chars]
    BY <1>2, LenProperties
  <2>2. n \in 0..MaxArray
    BY <1>2, <2>1
  <2> QED
    BY <2>1, <2>2 DEF Strings
<1> QED
  BY <1>1, <1>2

LEMMA ReplacedAsParts ==
  ASSUME NEW a \in Seq(Chars), NEW with, NEW from \in Nat, NEW length \in Nat, from + length <= Len(a)
  PROVE  Replace(a, from, length, with) = SubSeq(a, 1, from) \o with \o SubSeq(a, from + length + 1, Len(a))
<1>1. Len(a) \in Nat
  BY LenProperties
<1>2. Most(length, 0) = length /\ ~(from > Len(a))
  BY <1>1 DEF Most
<1> QED
  BY <1>2 DEF Replace

\* One sequence is another with something else in a place.
Differs(new, a, from, length, with) ==
  /\ new \in Seq(Chars) /\ Len(new) = Len(a) - length + Len(with)
  /\ \A i \in 1..from : new[i] = a[i]
  /\ \A i \in 1..Len(with) : new[from + i] = with[i]
  /\ \A i \in 1..(Len(a) - from - length) : new[from + Len(with) + i] = a[from + length + i]

LEMMA PartReplaced ==
  ASSUME NEW a \in Seq(Chars), NEW with \in Seq(Chars), NEW from \in Nat, NEW length \in Nat,
         from + length <= Len(a)
  PROVE  Differs(Replace(a, from, length, with), a, from, length, with)
<1> DEFINE f == SubSeq(a, 1, from)
           l == SubSeq(a, from + length + 1, Len(a))
<1>1. Len(a) \in Nat /\ Len(with) \in Nat /\ from \in 0..Len(a) /\ from + length \in 0..Len(a)
  BY LenProperties
<1>2. f \in Seq(Chars) /\ Len(f) = from /\ \A i \in 1..from : f[i] = a[i]
  BY <1>1, FirstPart
<1>3. PICK m \in 0..Len(a) : m = from + length
  BY <1>1
<1>4. l = SubSeq(a, m + 1, Len(a))
  BY <1>3
<1>5. l \in Seq(Chars) /\ Len(l) = Len(a) - m /\ \A i \in 1..(Len(a) - m) : l[i] = a[m + i]
  BY <1>4, SecondPart
<1>6. Replace(a, from, length, with) = f \o with \o l
  BY ReplacedAsParts
<1> HIDE DEF f, l
<1>7. PICK u : u = f \o with
  OBVIOUS
<1>8. u \in Seq(Chars) /\ Len(u) = from + Len(with)
      /\ \A i \in 1..(from + Len(with)) : u[i] = IF i <= from THEN f[i] ELSE with[i - from]
  BY <1>2, <1>7, ConcatProperties
<1>9. PICK r : r = u \o l
  OBVIOUS
<1>10. r \in Seq(Chars) /\ Len(r) = Len(u) + Len(l)
       /\ \A i \in 1..(Len(u) + Len(l)) : r[i] = IF i <= Len(u) THEN u[i] ELSE l[i - Len(u)]
  <2>1. u \in Seq(Chars) /\ l \in Seq(Chars)
    BY <1>5, <1>8
  <2> QED
    BY <1>9, <2>1, ConcatProperties
<1>11. ASSUME NEW i \in 1..from
       PROVE  r[i] = a[i]
  <2>1. i \in 1..Len(u) /\ i \in 1..(Len(u) + Len(l)) /\ i \in 1..(from + Len(with)) /\ i <= from /\ i <= Len(u)
    BY <1>1, <1>5, <1>8
  <2> QED
    BY <1>2, <1>8, <1>10, <2>1
<1>12. ASSUME NEW i \in 1..Len(with)
       PROVE  r[from + i] = with[i]
  <2>1. PICK j \in Nat : j = from + i
    OBVIOUS
  <2>2. j \in 1..(Len(u) + Len(l)) /\ j \in 1..(from + Len(with)) /\ ~(j <= from) /\ j <= Len(u) /\ j - from = i
    BY <1>1, <1>5, <1>8, <2>1
  <2> QED
    BY <1>8, <1>10, <2>1, <2>2
<1>13. ASSUME NEW i \in 1..(Len(a) - m)
       PROVE  r[from + Len(with) + i] = a[m + i]
  <2>1. PICK j \in Nat : j = from + Len(with) + i
    BY <1>1
  <2>2. Len(u) = from + Len(with) /\ Len(l) = Len(a) - m
    BY <1>5, <1>8
  <2>3. j \in 1..(Len(u) + Len(l)) /\ ~(j <= Len(u)) /\ j - Len(u) = i
    BY <1>1, <2>1, <2>2
  <2> QED
    BY <1>5, <1>10, <2>1, <2>3
<1>14. Len(r) = Len(a) - length + Len(with)
  BY <1>1, <1>3, <1>5, <1>8, <1>10
<1>15. Len(a) - from - length = Len(a) - m
  BY <1>1, <1>3
<1> QED
  BY <1>3, <1>6, <1>7, <1>9, <1>10, <1>11, <1>12, <1>13, <1>14, <1>15 DEF f, l, Differs

LEMMA ItemReplaced ==
  ASSUME NEW a \in Seq(Chars), NEW x \in Chars, NEW i \in 0..(Len(a) - 1)
  PROVE  /\ Replace(a, i, 1, <<x>>) \in Seq(Chars) /\ Len(Replace(a, i, 1, <<x>>)) = Len(a)
         /\ Replace(a, i, 1, <<x>>)[i + 1] = x
         /\ \A y \in 0..(Len(a) - 1) : y # i => Replace(a, i, 1, <<x>>)[y + 1] = a[y + 1]
<1>1. Len(a) \in Nat /\ i \in Nat /\ i + 1 <= Len(a)
  BY LenProperties
<1>2. PICK with \in Seq(Chars) : with = <<x>>
  <2>1. <<x>> \in [1..1 -> Chars]
    OBVIOUS
  <2>2. <<x>> \in Seq(Chars)
    BY <2>1
  <2> QED
    BY <2>2
<1>3. Len(with) = 1 /\ with[1] = x
  BY <1>2
<1>4. PICK r : r = Replace(a, i, 1, with)
  OBVIOUS
<1>9. PICK one \in Nat : one = 1
  OBVIOUS
<1>10. PICK from \in Nat : from = i
  BY <1>1
<1>5. /\ r \in Seq(Chars) /\ Len(r) = Len(a) - 1 + Len(with)
      /\ \A j \in 1..i : r[j] = a[j]
      /\ \A j \in 1..Len(with) : r[i + j] = with[j]
      /\ \A j \in 1..(Len(a) - i - 1) : r[i + Len(with) + j] = a[i + 1 + j]
  <2>1. from + one <= Len(a) /\ r = Replace(a, from, one, with)
    BY <1>1, <1>4, <1>9, <1>10
  <2>2. Differs(r, a, from, one, with)
    BY <2>1, PartReplaced
  <2> QED
    BY <1>9, <1>10, <2>2 DEF Differs
<1>6. r[i + 1] = x
  BY <1>3, <1>5
<1>7. ASSUME NEW y \in 0..(Len(a) - 1), y # i
      PROVE  r[y + 1] = a[y + 1]
  <2>1. CASE y < i
    BY <1>1, <1>5, <2>1
  <2>2. CASE y > i
    <3>1. PICK j \in 1..(Len(a) - i - 1) : j = y - i
      BY <1>1, <2>2
    <3>2. i + Len(with) + j = y + 1 /\ i + 1 + j = y + 1
      BY <1>1, <1>3, <3>1
    <3> QED
      BY <1>5, <3>2
  <2> QED
    BY <1>1, <1>7, <2>1, <2>2
<1>8. Len(r) = Len(a)
  BY <1>1, <1>3, <1>5
<1> QED
  BY <1>2, <1>4, <1>5, <1>6, <1>7, <1>8

-----------------------------------------------------------------------------
(* Reading *)

LEMMA PartByItems ==
  ASSUME NEW a \in Seq(Chars), NEW key \in Keys, NEW item, IsItems(item, key, Len(a)), NEW part \in Seq(Chars),
         Len(part) = GetIndices(key, Len(a)).length, \A k \in 1..Len(part) : part[k] = a[item[k] + 1]
  PROVE  IsPart(key, a, part)
<1>1. PICK m \in Nat : m = GetIndices(key, Len(a)).length
  BY DEF IsItems
<1>2. /\ Selected(key, Len(a)) = {item[k] : k \in 1..m} /\ Cardinality(Selected(key, Len(a))) = m
      /\ \A k \in 1..m : Place(key, Len(a), item[k]) = k
  BY <1>1 DEF IsItems
<1>3. ASSUME NEW x \in Selected(key, Len(a))
      PROVE  part[Place(key, Len(a), x)] = a[x + 1]
  <2>1. PICK k \in 1..m : x = item[k]
    BY <1>2
  <2>2. Place(key, Len(a), x) = k /\ k \in 1..Len(part)
    BY <1>1, <1>2, <2>1
  <2> QED
    BY <2>1, <2>2
<1> QED
  BY <1>1, <1>2, <1>3 DEF IsPart

\* GetSlice() returns the items of a slice.
LEMMA PartIsRead ==
  ASSUME NEW a \in Seq(Chars), NEW key \in Keys
  PROVE  GetSlice(a, key) \in Seq(Chars) /\ IsPart(key, a, GetSlice(a, key))
<1>1. PICK n \in Nat : n = Len(a) /\ a \in [1..n -> Chars]
  BY LenProperties
<1>2. PICK item : IsItems(item, key, n)
  BY SliceItems
<1>3. PICK s : s = GetIndices(key, n)
  OBVIOUS
<1>4. PICK m \in Nat : m = s.length
  BY <1>2, <1>3 DEF IsItems
<1>5. /\ item \in [1..m -> 0..(n - 1)]
      /\ \A k \in 1..m : item[k] = FirstOf(key, n) + (k - 1) * StepOf(key)
  BY <1>2, <1>3, <1>4 DEF IsItems
<1>6. s.step = StepOf(key) /\ s.start = FirstOf(key, n) /\ s.stop = PastOf(key, n) /\ s.start \in Int /\ s.stop \in Int
  BY <1>3, EndsAgree
<1>7. PICK part : part = GetSlice(a, key)
  OBVIOUS
<1>8. part = CASE m <= 0 -> <<>>
               [] m > 0 /\ s.step = 1 -> SubSeq(a, s.start + 1, s.stop)
               [] OTHER -> [k \in 1..m |-> a[s.start + (k - 1) * s.step + 1]]
  BY <1>1, <1>3, <1>4, <1>7 DEF GetSlice
<1>9. part \in Seq(Chars) /\ Len(part) = m /\ \A k \in 1..m : part[k] = a[item[k] + 1]
  <2>1. CASE m = 0
    BY <1>8, <2>1
  <2>2. CASE m > 0 /\ s.step = 1
    <3>1. part = SubSeq(a, s.start + 1, s.stop)
      <4>1. ~(m <= 0) /\ m > 0 /\ s.step = 1
        BY <2>2
      <4> QED
        BY <1>8, <4>1, Zenon
    <3>2. s.start \in 0..n /\ s.stop \in 0..n
      <4>1. StepOf(key) > 0
        BY <1>6, <2>2
      <4>2. FirstOf(key, n) \in 0..n /\ PastOf(key, n) \in 0..n
        BY <4>1, EndsAgree
      <4> QED
        BY <1>6, <4>2
    <3>3. m = Most(s.stop - s.start, 0)
      <4>1. PICK step \in Steps : step = 1
        BY DEF Steps
      <4>2. m = Count(s.start, s.stop, step)
        BY <1>3, <1>4, <1>6, <2>2, <4>1, LengthIsCount
      <4> QED
        BY <1>6, <4>1, <4>2, CountOfSteps
    <3>4. m = s.stop - s.start
      BY <2>2, <3>2, <3>3 DEF Most
    <3>5. PICK f \in Int : f = s.start + 1
      BY <3>2
    <3>6. \A i \in f..s.stop : a[i] \in Chars
      BY <1>1, <3>2, <3>5
    <3>7. /\ part \in Seq(Chars) /\ Len(part) = (IF f <= s.stop THEN s.stop - f + 1 ELSE 0)
          /\ \A i \in 1..(s.stop - f + 1) : part[i] = a[f + i - 1]
      BY <1>6, <3>1, <3>5, <3>6, SubSeqProperties
    <3>8. Len(part) = m /\ s.stop - f + 1 = m
      BY <2>2, <3>2, <3>4, <3>5, <3>7
    <3>9. ASSUME NEW k \in 1..m
          PROVE  part[k] = a[item[k] + 1]
      <4>1. item[k] = s.start + (k - 1)
        BY <1>5, <1>6, <2>2, <3>2
      <4>2. f + k - 1 = item[k] + 1
        BY <3>2, <3>5, <4>1
      <4> QED
        BY <3>7, <3>8, <4>2
    <3> QED
      BY <3>7, <3>8, <3>9
  <2>3. CASE m > 0 /\ s.step # 1
    <3>1. part = [k \in 1..m |-> a[s.start + (k - 1) * s.step + 1]]
      BY <1>8, <2>3
    <3>2. \A k \in 1..m : item[k] \in 0..(n - 1) /\ item[k] = s.start + (k - 1) * s.step
      BY <1>5, <1>6
    <3>3. part = [k \in 1..m |-> a[item[k] + 1]]
      BY <3>1, <3>2
    <3>4. \A k \in 1..m : a[item[k] + 1] \in Chars
      BY <1>1, <3>2
    <3>5. part \in [1..m -> Chars]
      BY <3>3, <3>4
    <3>6. part \in Seq(Chars)
      BY <3>5, SeqDef
    <3>7. Len(part) = m
      BY <3>5, <3>6, LenProperties
    <3> QED
      BY <3>3, <3>6, <3>7
  <2> QED
    BY <2>1, <2>2, <2>3
<1> QED
  BY <1>1, <1>2, <1>3, <1>4, <1>7, <1>9, PartByItems

-----------------------------------------------------------------------------
(* Writing *)

\* One turn of the loop in SetExtended()
Turn(b, j, s, value) == Replace(b, s.start + (j - 1) * s.step, 1, <<Contents(value, b)[j]>>)

\* The contents after each turn
IsLoop(f, a, s, m, value) ==
  /\ SetExtended(a, s, value) = f[m] /\ f[0] = a
  /\ \A j \in 1..m : f[j] = Turn(f[j - 1], j, s, value)

LEMMA ExtendedSteps ==
  ASSUME NEW a, NEW s, NEW m \in Nat, m = s.length, NEW value
  PROVE  \E f : IsLoop(f, a, s, m, value)
<1> DEFINE IsAfter(f, k) == f = [j \in 0..k |-> IF j = 0 THEN a ELSE Turn(f[j - 1], j, s, value)]
           K == {k \in Nat : \E f : IsAfter(f, k)}
<1>1. 0 \in K
  <2>1. IsAfter([j \in 0..0 |-> a], 0)
    OBVIOUS
  <2> QED
    BY <2>1
<1>2. ASSUME NEW k \in K PROVE k + 1 \in K
  <2>1. PICK f : IsAfter(f, k)
    BY <1>2
  <2>2. PICK x : x = Turn(f[k], k + 1, s, value)
    OBVIOUS
  <2>3. PICK g : g = [j \in 0..(k + 1) |-> IF j <= k THEN f[j] ELSE x]
    OBVIOUS
  <2>4. \A j \in 0..k : f[j] = IF j = 0 THEN a ELSE Turn(f[j - 1], j, s, value)
    BY <2>1
  <2>5. ASSUME NEW j \in 0..(k + 1)
        PROVE  g[j] = IF j = 0 THEN a ELSE Turn(g[j - 1], j, s, value)
    <3>1. CASE j <= k
      <4>1. j \in 0..k /\ g[j] = f[j] /\ (j # 0 => g[j - 1] = f[j - 1])
        BY <2>3, <3>1
      <4> QED
        BY <2>4, <4>1
    <3>2. CASE j = k + 1
      <4>1. g[j] = x /\ g[j - 1] = f[k] /\ j # 0
        BY <2>3, <3>2
      <4> QED
        BY <2>2, <3>2, <4>1
    <3> QED
      BY <3>1, <3>2
  <2>6. IsAfter(g, k + 1)
    BY <2>3, <2>5
  <2> QED
    BY <2>6
<1>3. K = Nat
  <2> HIDE DEF K
  <2>1. K \in SUBSET Nat
    BY DEF K
  <2> QED
    BY <1>1, <1>2, <2>1, AllNumbers
<1>4. PICK f : IsAfter(f, m)
  BY <1>3
<1>5. PICK u : u = CHOOSE g : IsAfter(g, m)
  OBVIOUS
<1>6. IsAfter(u, m)
  BY <1>4, <1>5
<1>7. SetExtended(a, s, value) = u[m]
  BY <1>5 DEF SetExtended, Turn
<1>8. \A j \in 0..m : u[j] = IF j = 0 THEN a ELSE Turn(u[j - 1], j, s, value)
  BY <1>6
<1>9. IsLoop(u, a, s, m, value)
  BY <1>7, <1>8 DEF IsLoop
<1> QED
  BY <1>9

\* The array while the loop runs: it stays as long, and if the value is not the array itself
\* the items met so far have their values.
Written(b, a, item, j, value) ==
  /\ b \in Seq(Chars) /\ Len(b) = Len(a)
  /\ value \in Seq(Chars) =>
       /\ \A k \in 1..j : b[item[k] + 1] = value[k]
       /\ \A x \in 0..(Len(a) - 1) : (\A k \in 1..j : item[k] # x) => b[x + 1] = a[x + 1]

LEMMA TurnWrites ==
  ASSUME NEW a \in Seq(Chars), NEW key \in Keys, NEW item, IsItems(item, key, Len(a)), NEW value,
         NEW s, s = GetIndices(key, Len(a)), NEW j \in 1..s.length, NEW b, Written(b, a, item, j - 1, value),
         Contents(value, b)[j] \in Chars, value \in Seq(Chars) => Contents(value, b) = value
  PROVE  Written(Turn(b, j, s, value), a, item, j, value)
<1>1. PICK n \in Nat : n = Len(a)
  BY LenProperties
<1>2. PICK m \in Nat : m = s.length
  BY DEF IsItems
<1>3. b \in Seq(Chars) /\ Len(b) = n
  BY <1>1 DEF Written
<1>4. PICK x \in Chars : x = Contents(value, b)[j]
  OBVIOUS
<1>5. /\ \A k \in 1..m : item[k] \in 0..(n - 1)
      /\ \A k \in 1..m : item[k] = FirstOf(key, n) + (k - 1) * StepOf(key)
      /\ \A i, k \in 1..m : item[i] = item[k] => i = k
  BY <1>1, <1>2 DEF IsItems
<1>6. j \in 1..m
  BY <1>2
<1>7. PICK i \in 0..(n - 1) : i = item[j]
  BY <1>5, <1>6
<1>8. i = s.start + (j - 1) * s.step
  BY <1>1, <1>5, <1>6, <1>7, EndsAgree
<1>9. PICK r : r = Replace(b, i, 1, <<x>>)
  OBVIOUS
<1>10. Turn(b, j, s, value) = r
  BY <1>4, <1>8, <1>9 DEF Turn
<1>11. /\ r \in Seq(Chars) /\ Len(r) = n /\ r[i + 1] = x
       /\ \A y \in 0..(n - 1) : y # i => r[y + 1] = b[y + 1]
  BY <1>3, <1>9, ItemReplaced
<1>12. ASSUME value \in Seq(Chars)
       PROVE  /\ \A k \in 1..j : r[item[k] + 1] = value[k]
              /\ \A y \in 0..(n - 1) : (\A k \in 1..j : item[k] # y) => r[y + 1] = a[y + 1]
  <2>1. /\ \A k \in 1..(j - 1) : b[item[k] + 1] = value[k]
        /\ \A y \in 0..(n - 1) : (\A k \in 1..(j - 1) : item[k] # y) => b[y + 1] = a[y + 1]
    BY <1>1, <1>12 DEF Written
  <2>2. ASSUME NEW k \in 1..j
        PROVE  r[item[k] + 1] = value[k]
    <3>1. CASE k = j
      BY <1>4, <1>7, <1>11, <1>12, <3>1
    <3>2. CASE k # j
      <4>1. k \in 1..(j - 1) /\ k \in 1..m
        BY <1>6, <3>2
      <4>2. item[k] # i /\ item[k] \in 0..(n - 1)
        BY <1>5, <1>6, <1>7, <3>2, <4>1
      <4> QED
        BY <1>11, <2>1, <4>1, <4>2
    <3> QED
      BY <3>1, <3>2
  <2>3. ASSUME NEW y \in 0..(n - 1), \A k \in 1..j : item[k] # y
        PROVE  r[y + 1] = a[y + 1]
    <3>1. y # i /\ \A k \in 1..(j - 1) : item[k] # y
      BY <1>6, <1>7, <2>3
    <3> QED
      BY <1>11, <2>1, <3>1
  <2> QED
    BY <2>2, <2>3
<1> QED
  BY <1>1, <1>10, <1>11, <1>12 DEF Written

LEMMA ContentsOfString ==
  ASSUME NEW value \in Seq(Chars), NEW b
  PROVE  Contents(value, b) = value
BY ArrayAssumption DEF Contents

LEMMA ExtendedWritten ==
  ASSUME NEW a \in Seq(Chars), NEW key \in Keys, NEW item, IsItems(item, key, Len(a)), NEW value,
         NEW s, s = GetIndices(key, Len(a)),
         \A b \in Seq(Chars) : Len(b) = Len(a) => \A j \in 1..s.length : Contents(value, b)[j] \in Chars
  PROVE  Written(SetExtended(a, s, value), a, item, s.length, value)
<1>1. PICK m \in Nat : m = s.length
  BY DEF IsItems
<1>2. PICK f : IsLoop(f, a, s, m, value)
  BY <1>1, ExtendedSteps
<1>7. /\ SetExtended(a, s, value) = f[m] /\ f[0] = a
      /\ \A j \in 1..m : f[j] = Turn(f[j - 1], j, s, value)
  BY <1>2 DEF IsLoop
<1> DEFINE K == {k \in Nat : k <= m => Written(f[k], a, item, k, value)}
<1>3. 0 \in K
  <2>1. Written(a, a, item, 0, value)
    BY DEF Written
  <2> QED
    BY <1>7, <2>1
<1>4. ASSUME NEW k \in K
      PROVE  k + 1 \in K
  <2> SUFFICES ASSUME k + 1 <= m PROVE Written(f[k + 1], a, item, k + 1, value)
    OBVIOUS
  <2>1. PICK j \in 1..s.length : j = k + 1
    BY <1>1
  <2>2. j - 1 = k /\ j \in 1..m
    BY <1>1, <2>1
  <2>3. PICK b : b = f[k]
    OBVIOUS
  <2>4. Written(b, a, item, j - 1, value)
    BY <1>4, <2>2, <2>3
  <2>5. b \in Seq(Chars) /\ Len(b) = Len(a)
    BY <2>4 DEF Written
  <2>6. Contents(value, b)[j] \in Chars
    BY <2>5
  <2>7. value \in Seq(Chars) => Contents(value, b) = value
    BY ContentsOfString
  <2>8. Written(Turn(b, j, s, value), a, item, j, value)
    BY <2>4, <2>6, <2>7, TurnWrites
  <2>9. f[j] = Turn(b, j, s, value)
    BY <1>7, <2>2, <2>3
  <2> QED
    BY <2>1, <2>8, <2>9
<1>5. K = Nat
  <2> HIDE DEF K
  <2>1. K \in SUBSET Nat
    BY DEF K
  <2> QED
    BY <1>3, <1>4, <2>1, AllNumbers
<1>6. Written(f[m], a, item, m, value)
  BY <1>5
<1> QED
  BY <1>1, <1>7, <1>6

\* SetExtended() puts the items of the value in their places.
LEMMA ExtendedIsReplaced ==
  ASSUME NEW a \in Seq(Chars), NEW key \in Keys, StepOf(key) # 1, NEW value \in Seq(Chars),
         Len(value) = GetIndices(key, Len(a)).length
  PROVE  IsReplaced(key, a, value, SetExtended(a, GetIndices(key, Len(a)), value))
<1>1. PICK n \in Nat : n = Len(a)
  BY LenProperties
<1>2. PICK item : IsItems(item, key, n)
  BY SliceItems
<1>3. PICK s : s = GetIndices(key, n)
  OBVIOUS
<1>4. PICK m \in Nat : m = s.length
  BY <1>2, <1>3 DEF IsItems
<1>5. PICK new : new = SetExtended(a, s, value)
  OBVIOUS
<1>6. \A j \in 1..m : value[j] \in Chars
  BY <1>1, <1>3, <1>4, ElementOfSeq
<1>7. \A b \in Seq(Chars) : Len(b) = Len(a) => \A j \in 1..s.length : Contents(value, b)[j] \in Chars
  BY <1>4, <1>6, ContentsOfString
<1>8. Written(new, a, item, m, value)
  BY <1>1, <1>2, <1>3, <1>4, <1>5, <1>7, ExtendedWritten
<1>9. /\ Len(new) = n
      /\ \A k \in 1..m : new[item[k] + 1] = value[k]
      /\ \A x \in 0..(n - 1) : (\A k \in 1..m : item[k] # x) => new[x + 1] = a[x + 1]
  BY <1>1, <1>8 DEF Written
<1>10. Selected(key, n) = {item[k] : k \in 1..m} /\ \A k \in 1..m : Place(key, n, item[k]) = k
  BY <1>2, <1>3, <1>4 DEF IsItems
<1>11. ASSUME NEW x \in 0..(n - 1)
       PROVE  new[x + 1] = IF x \in Selected(key, n) THEN value[Place(key, n, x)] ELSE a[x + 1]
  <2>1. CASE x \in Selected(key, n)
    <3>1. PICK k \in 1..m : x = item[k]
      BY <1>10, <2>1
    <3>2. Place(key, n, x) = k /\ new[x + 1] = value[k]
      BY <1>9, <1>10, <3>1
    <3> QED
      BY <2>1, <3>2
  <2>2. CASE x \notin Selected(key, n)
    <3>1. \A k \in 1..m : item[k] # x
      BY <1>10, <2>2
    <3> QED
      BY <1>9, <2>2, <3>1
  <2> QED
    BY <2>1, <2>2
<1> QED
  BY <1>1, <1>3, <1>5, <1>9, <1>11 DEF IsReplaced

\* SetRange() puts the value in the place of the part.
LEMMA RangeIsReplaced ==
  ASSUME NEW a \in Seq(Chars), NEW key \in Keys, StepOf(key) = 1, NEW value \in Seq(Chars)
  PROVE  /\ SetRange(a, GetIndices(key, Len(a)), value) \in Seq(Chars)
         /\ IsReplaced(key, a, value, SetRange(a, GetIndices(key, Len(a)), value))
<1>1. PICK n \in Nat : n = Len(a)
  BY LenProperties
<1>2. PICK s : s = GetIndices(key, n)
  OBVIOUS
<1>3. PICK first \in 0..n : first = FirstOf(key, n) /\ first = s.start
  <2>1. FirstOf(key, n) \in 0..n
    BY EndsAgree, SMTT(20)
  <2> QED
    BY <1>2, <2>1, EndsAgree
<1>4. PICK past \in 0..n : past = PastOf(key, n) /\ past = s.stop
  <2>1. PastOf(key, n) \in 0..n
    BY EndsAgree, SMTT(20)
  <2> QED
    BY <1>2, <2>1, EndsAgree
<1>5. PICK m \in Nat : m = s.length /\ m = Most(past - first, 0)
  <2>1. PICK step \in Steps : step = 1
    BY DEF Steps
  <2>2. s.length = Count(first, past, step)
    BY <1>2, <1>3, <1>4, <2>1, LengthIsCount
  <2>3. PICK f, l \in Int : f = first /\ l = past
    OBVIOUS
  <2>4. Count(f, l, step) \in Nat /\ Count(f, l, step) = Most(l - f, 0)
    BY <2>1, CountOfSteps
  <2> QED
    BY <2>2, <2>3, <2>4
<1>6. first + m <= n /\ first + m = Most(first, past)
  BY <1>5 DEF Most
<1>7. PICK new : new = Replace(a, first, m, value)
  OBVIOUS
<1>8. new = SetRange(a, s, value)
  BY <1>3, <1>5, <1>7 DEF SetRange
<1>9. new = SubSeq(a, 1, first) \o value \o SubSeq(a, Most(first, past) + 1, n)
  <2>1. PICK from \in Nat : from = first
    OBVIOUS
  <2>2. new = SubSeq(a, 1, from) \o value \o SubSeq(a, from + m + 1, Len(a))
    BY <1>1, <1>6, <1>7, <2>1, ReplacedAsParts
  <2> QED
    BY <1>1, <1>6, <2>1, <2>2
<1>10. new \in Seq(Chars)
  <2>1. PICK from \in Nat : from = first
    OBVIOUS
  <2>2. Differs(new, a, from, m, value)
    BY <1>1, <1>6, <1>7, <2>1, PartReplaced
  <2> QED
    BY <2>2 DEF Differs
<1> QED
  BY <1>1, <1>2, <1>3, <1>4, <1>8, <1>9, <1>10 DEF IsReplaced

\* SetRange() with nothing removes the part.
LEMMA RangeIsDeleted ==
  ASSUME NEW a \in Seq(Chars), NEW key \in Keys, StepOf(key) = 1, NEW new,
         new = SetRange(a, GetIndices(key, Len(a)), <<>>)
  PROVE  new \in Seq(Chars) /\ Len(new) <= Len(a) /\ IsDeleted(key, a, new)
<1>1. PICK n \in Nat : n = Len(a)
  BY LenProperties
<1>2. PICK s : s = GetIndices(key, n)
  OBVIOUS
<1>3. PICK first \in 0..n : first = FirstOf(key, n) /\ first = s.start
  <2>1. FirstOf(key, n) \in 0..n
    BY EndsAgree, SMTT(20)
  <2> QED
    BY <1>2, <2>1, EndsAgree
<1>4. PICK past \in 0..n : past = PastOf(key, n)
  <2>1. PastOf(key, n) \in 0..n
    BY EndsAgree, SMTT(20)
  <2> QED
    BY <2>1
<1>5. PICK m \in Nat : m = s.length /\ m = Most(past - first, 0)
  <2>1. PICK step \in Steps : step = 1
    BY DEF Steps
  <2>2. s.length = Count(first, past, step)
    BY <1>2, <1>3, <1>4, <2>1, LengthIsCount
  <2>3. PICK f, l \in Int : f = first /\ l = past
    OBVIOUS
  <2>4. Count(f, l, step) \in Nat /\ Count(f, l, step) = Most(l - f, 0)
    BY <2>1, CountOfSteps
  <2> QED
    BY <2>2, <2>3, <2>4
<1>6. first + m <= n
  BY <1>5 DEF Most
<1>7. PICK item : IsItems(item, key, n)
  BY SliceItems
<1>8. PICK chosen : chosen = Selected(key, n)
  OBVIOUS
<1>9. Cardinality(chosen) = m /\ \A y \in 0..(n - 1) : y \in chosen <=> y >= first /\ y < first + m
  <2>1. /\ item \in [1..m -> 0..(n - 1)] /\ chosen = {item[k] : k \in 1..m} /\ Cardinality(chosen) = m
        /\ \A k \in 1..m : item[k] = FirstOf(key, n) + (k - 1) * StepOf(key)
    BY <1>2, <1>5, <1>7, <1>8 DEF IsItems
  <2>2. \A k \in 1..m : item[k] = first + (k - 1)
    BY <1>3, <2>1
  <2>3. ASSUME NEW y \in 0..(n - 1), y \in chosen
        PROVE  y >= first /\ y < first + m
    BY <2>1, <2>2, <2>3
  <2>4. ASSUME NEW y \in 0..(n - 1), y >= first, y < first + m
        PROVE  y \in chosen
    <3>1. PICK k \in 1..m : k = y - first + 1
      BY <2>4
    <3>2. item[k] = y
      BY <2>2, <3>1
    <3> QED
      BY <2>1, <3>2
  <2> QED
    BY <2>1, <2>3, <2>4
<1>10. chosen \subseteq 0..(n - 1)
  BY <1>8 DEF Selected
<1>11. /\ new \in Seq(Chars) /\ Len(new) = n - m
       /\ \A i \in 1..first : new[i] = a[i]
       /\ \A i \in 1..(n - first - m) : new[first + i] = a[first + m + i]
  <2>1. PICK from \in Nat : from = first
    OBVIOUS
  <2>2. PICK empty \in Seq(Chars) : empty = <<>>
    BY EmptySeq
  <2>3. new = Replace(a, from, m, empty)
    BY <1>1, <1>2, <1>3, <1>5, <2>1, <2>2 DEF SetRange
  <2>4. Differs(new, a, from, m, empty)
    BY <1>1, <1>6, <2>1, <2>3, PartReplaced
  <2>5. Len(empty) = 0
    BY <2>2
  <2>6. /\ new \in Seq(Chars) /\ Len(new) = n - m + 0
        /\ \A i \in 1..from : new[i] = a[i]
        /\ \A i \in 1..(n - from - m) : new[from + 0 + i] = a[from + m + i]
    BY <1>1, <2>4, <2>5 DEF Differs
  <2>7. from + 0 = from /\ n - m + 0 = n - m
    OBVIOUS
  <2> QED
    BY <2>1, <2>6, <2>7
<1>12. ASSUME NEW x \in 0..(n - 1), x \notin chosen
       PROVE  new[x + 1 - Cardinality({y \in chosen : y < x})] = a[x + 1]
  <2>1. x < first \/ x >= first + m
    BY <1>9, <1>12
  <2>2. CASE x < first
    <3>5. ASSUME NEW y \in chosen PROVE ~(y < x)
      <4>1. y \in 0..(n - 1)
        BY <1>10
      <4>2. y >= first
        BY <1>9, <4>1
      <4> QED
        BY <2>2, <4>1, <4>2
    <3>1. {y \in chosen : y < x} = {}
      BY <3>5
    <3>2. PICK i \in 1..first : i = x + 1
      BY <2>2
    <3>3. Cardinality({y \in chosen : y < x}) = 0
      BY <3>1, FS_EmptySet
    <3>4. x + 1 - 0 = i
      BY <3>2
    <3> QED
      BY <1>11, <3>2, <3>3, <3>4
  <2>3. CASE x >= first + m
    <3>5. ASSUME NEW y \in chosen PROVE y < x
      <4>1. y \in 0..(n - 1)
        BY <1>10
      <4>2. y < first + m
        BY <1>9, <4>1
      <4>3. first \in Nat /\ m \in Nat
        BY <1>3, <1>5
      <4> QED
        BY <2>3, <4>1, <4>2, <4>3
    <3>1. {y \in chosen : y < x} = chosen
      BY <3>5
    <3>2. PICK i \in 1..(n - first - m) : i = x + 1 - first - m
      BY <2>3
    <3>3. x + 1 - m = first + i /\ x + 1 = first + m + i
      BY <3>2
    <3>4. new[x + 1 - m] = a[x + 1]
      BY <1>11, <3>2, <3>3
    <3> QED
      BY <1>9, <3>1, <3>4
  <2> QED
    BY <2>1, <2>2, <2>3
<1>13. IsDeleted(key, a, new)
  BY <1>1, <1>8, <1>9, <1>11, <1>12 DEF IsDeleted
<1> QED
  BY <1>1, <1>11, <1>13

\* Sequences that differ from another in the same way are equal.
LEMMA SameDifference ==
  ASSUME NEW a \in Seq(Chars), NEW with \in Seq(Chars), NEW from \in Nat, NEW length \in Nat,
         from + length <= Len(a), NEW u, NEW v, Differs(u, a, from, length, with), Differs(v, a, from, length, with)
  PROVE  u = v
<1>1. Len(a) \in Nat /\ Len(with) \in Nat
  BY LenProperties
<1>2. /\ u \in Seq(Chars) /\ v \in Seq(Chars) /\ Len(u) = Len(a) - length + Len(with) /\ Len(v) = Len(u)
      /\ \A i \in 1..from : u[i] = v[i]
      /\ \A i \in 1..Len(with) : u[from + i] = v[from + i]
      /\ \A i \in 1..(Len(a) - from - length) : u[from + Len(with) + i] = v[from + Len(with) + i]
  BY DEF Differs
<1>3. ASSUME NEW i \in 1..Len(u)
      PROVE  u[i] = v[i]
  <2>1. CASE i <= from
    BY <1>2, <2>1
  <2>2. CASE i > from /\ i <= from + Len(with)
    <3>1. PICK j \in 1..Len(with) : j = i - from
      BY <1>1, <2>2
    <3>2. from + j = i
      BY <3>1
    <3> QED
      BY <1>2, <3>2
  <2>3. CASE i > from + Len(with)
    <3>3. PICK l, w \in Nat : l = Len(a) /\ w = Len(with)
      BY <1>1
    <3>4. i \in Nat /\ i <= l - length + w /\ i > from + w
      BY <1>2, <2>3, <3>3
    <3>6. i - from - w \in Nat
      BY <3>4
    <3>1. PICK j \in Nat : j = i - from - w
      BY <3>6
    <3>5. j \in 1..(l - from - length)
      BY <3>3, <3>4, <3>1
    <3>2. from + Len(with) + j = i
      BY <3>1, <3>3, <3>4
    <3> QED
      BY <1>2, <3>2, <3>3, <3>5
  <2> QED
    BY <1>1, <2>1, <2>2, <2>3
<1> QED
  BY <1>2, <1>3, SeqEqual

-----------------------------------------------------------------------------
(* Items *)

\* The slice of one item
OneItem(i) == [start |-> i, stop |-> i + 1, step |-> 1]

LEMMA SliceOfItem ==
  ASSUME NEW n \in Nat, NEW i \in 0..(n - 1)
  PROVE  /\ OneItem(i) \in Keys /\ StepOf(OneItem(i)) = 1
         /\ FirstOf(OneItem(i), n) = i /\ PastOf(OneItem(i), n) = i + 1
         /\ GetIndices(OneItem(i), n).length = 1
<1>1. PICK key : key = OneItem(i)
  OBVIOUS
<1>2. key.start = i /\ key.stop = i + 1 /\ key.step = 1
  BY <1>1 DEF OneItem
<1>3. i # Unset /\ i + 1 # Unset /\ 1 # Unset
  BY ArrayAssumption
<1>4. key \in Keys
  <2>1. i \in Ends /\ i + 1 \in Ends /\ 1 \in Strides
    BY DEF Ends, Strides
  <2> QED
    BY <1>1, <2>1 DEF OneItem, Keys
<1>5. StepOf(key) = 1
  BY <1>2, <1>3 DEF StepOf
<1>6. FirstOf(key, n) = i /\ PastOf(key, n) = i + 1
  BY <1>2, <1>3, <1>5 DEF FirstOf, PastOf, EndOf, Most, Least
<1>7. GetIndices(key, n).length = 1
  <2>1. PICK step \in Steps : step = 1
    BY DEF Steps
  <2>2. PICK first, past \in Int : first = i /\ past = i + 1
    OBVIOUS
  <2>3. Count(first, past, step) = Most(past - first, 0)
    BY <2>1, CountOfSteps
  <2>4. GetIndices(key, n).length = Count(first, past, step)
    BY <1>4, <1>5, <1>6, <2>1, <2>2, LengthIsCount
  <2> QED
    BY <2>2, <2>3, <2>4 DEF Most
<1> QED
  BY <1>1, <1>4, <1>5, <1>6, <1>7

LEMMA ItemIsRead ==
  ASSUME NEW a \in Seq(Chars), NEW i \in 0..(Len(a) - 1)
  PROVE  IsPart(OneItem(i), a, <<a[i + 1]>>)
<1>1. PICK n \in Nat : n = Len(a)
  BY LenProperties
<1>2. PICK key \in Keys : key = OneItem(i)
  BY <1>1, SliceOfItem
<1>3. StepOf(key) = 1 /\ FirstOf(key, n) = i /\ GetIndices(key, n).length = 1
  BY <1>1, <1>2, SliceOfItem
<1>4. PICK item : IsItems(item, key, n)
  BY SliceItems
<1>5. item[1] = i
  <2>1. \A k \in 1..1 : item[k] = i + (k - 1) * 1
    BY <1>3, <1>4 DEF IsItems
  <2> QED
    BY <1>1, <2>1
<1>6. PICK part : part = <<a[i + 1]>>
  OBVIOUS
<1>7. a[i + 1] \in Chars
  BY <1>1, ElementOfSeq
<1>8. part \in Seq(Chars) /\ Len(part) = 1 /\ part[1] = a[i + 1]
  <2>1. part \in [1..1 -> Chars]
    BY <1>6, <1>7
  <2> QED
    BY <1>6, <2>1, SeqDef
<1>9. \A k \in 1..Len(part) : part[k] = a[item[k] + 1]
  BY <1>5, <1>8
<1> QED
  BY <1>1, <1>2, <1>3, <1>4, <1>6, <1>8, <1>9, PartByItems

\* SetIndex() puts the value in the place of the item.
LEMMA ItemIsReplaced ==
  ASSUME NEW a \in Seq(Chars), NEW i \in 0..(Len(a) - 1), NEW value \in Seq(Chars)
  PROVE  /\ Replace(Replace(a, i, 1, <<>>), i, 0, value) \in Seq(Chars)
         /\ IsReplaced(OneItem(i), a, value, Replace(Replace(a, i, 1, <<>>), i, 0, value))
<1>1. PICK n \in Nat : n = Len(a)
  BY LenProperties
<1>2. PICK from \in Nat : from = i
  BY <1>1
<1>3. PICK one, none \in Nat : one = 1 /\ none = 0
  OBVIOUS
<1>4. PICK empty \in Seq(Chars) : empty = <<>>
  BY EmptySeq
<1>5. Len(empty) = 0 /\ Len(value) \in Nat
  BY <1>4, LenProperties
<1>6. from + one <= n
  BY <1>1, <1>2, <1>3
<1>7. PICK removed : removed = Replace(a, from, one, empty)
  OBVIOUS
<1>8. Differs(removed, a, from, one, empty)
  BY <1>1, <1>6, <1>7, PartReplaced
<1>9. /\ removed \in Seq(Chars) /\ Len(removed) = n - 1
      /\ \A j \in 1..from : removed[j] = a[j]
      /\ \A j \in 1..(n - from - 1) : removed[from + j] = a[from + 1 + j]
  <2>1. /\ removed \in Seq(Chars) /\ Len(removed) = n - one + 0
        /\ \A j \in 1..from : removed[j] = a[j]
        /\ \A j \in 1..(n - from - one) : removed[from + 0 + j] = a[from + one + j]
    BY <1>1, <1>5, <1>8 DEF Differs
  <2>2. n - one + 0 = n - 1
    BY <1>3
  <2>3. from + 0 = from
    OBVIOUS
  <2> QED
    BY <1>3, <2>1, <2>2, <2>3
<1>10. PICK new : new = Replace(removed, from, none, value)
  OBVIOUS
<1>11. Differs(new, removed, from, none, value)
  <2>1. from + none <= Len(removed)
    BY <1>1, <1>3, <1>6, <1>9
  <2> QED
    BY <1>9, <1>10, <2>1, PartReplaced
<1>12. /\ new \in Seq(Chars) /\ Len(new) = n - 1 + Len(value)
       /\ \A j \in 1..from : new[j] = removed[j]
       /\ \A j \in 1..Len(value) : new[from + j] = value[j]
       /\ \A j \in 1..(n - 1 - from) : new[from + Len(value) + j] = removed[from + j]
  <2>1. PICK l \in Nat : l = Len(removed) /\ l = n - 1
    BY <1>6, <1>3, <1>9
  <2>2. /\ new \in Seq(Chars) /\ Len(new) = l - none + Len(value)
        /\ \A j \in 1..from : new[j] = removed[j]
        /\ \A j \in 1..Len(value) : new[from + j] = value[j]
        /\ \A j \in 1..(l - from - none) : new[from + Len(value) + j] = removed[from + none + j]
    BY <1>11, <2>1 DEF Differs
  <2>3. l - none + Len(value) = n - 1 + Len(value) /\ l - from - none = n - 1 - from
    BY <1>3, <2>1
  <2>4. from + none = from
    BY <1>3
  <2> QED
    BY <2>2, <2>3, <2>4
<1>13. Differs(new, a, from, one, value)
  <2>1. n - from - one = n - 1 - from /\ n - from - 1 = n - 1 - from
    BY <1>3
  <2>2. \A j \in 1..(n - from - one) : new[from + Len(value) + j] = a[from + one + j]
    BY <1>3, <1>9, <1>12, <2>1
  <2>3. Len(new) = n - one + Len(value)
    BY <1>3, <1>5, <1>12
  <2> QED
    BY <1>1, <1>9, <1>12, <2>2, <2>3 DEF Differs
<1>14. new = Replace(a, from, one, value)
  <2>1. PICK r : r = Replace(a, from, one, value)
    OBVIOUS
  <2>2. Differs(r, a, from, one, value)
    BY <1>1, <1>6, <2>1, PartReplaced
  <2> QED
    BY <1>1, <1>6, <1>13, <2>1, <2>2, SameDifference
<1>15. new = SubSeq(a, 1, from) \o value \o SubSeq(a, from + one + 1, n)
  BY <1>1, <1>6, <1>14, ReplacedAsParts
<1>16. Most(FirstOf(OneItem(i), n), PastOf(OneItem(i), n)) = from + one /\ FirstOf(OneItem(i), n) = from
       /\ StepOf(OneItem(i)) = 1
  BY <1>1, <1>2, <1>3, SliceOfItem DEF Most
<1>17. IsReplaced(OneItem(i), a, value, new)
  BY <1>1, <1>15, <1>16 DEF IsReplaced
<1> QED
  BY <1>2, <1>3, <1>4, <1>7, <1>10, <1>12, <1>17

-----------------------------------------------------------------------------
(* Calls *)

Values == Strings \cup {NoValue, Itself}

LEMMA ContentsAreChars ==
  ASSUME NEW a \in Strings, NEW value \in Values
  PROVE  /\ Contents(value, a) \in Seq(Chars)
         /\ value \in Strings => Contents(value, a) = value
<1>1. a \in Seq(Chars) /\ <<>> \in Seq(Chars) /\ (value \in Strings => value \in Seq(Chars))
  BY StringIsSeq, EmptySeq
<1>2. value \in Strings => Contents(value, a) = value
  BY <1>1, ContentsOfString
<1> QED
  BY <1>1, <1>2 DEF Contents, Values

LEMMA KeysOfCalls ==
  /\ Slices \subseteq Keys /\ \A key \in Slices : ~IsIndex(key)
  /\ \A key \in Indexes : IsIndex(key) /\ key.index \in Int
<1>1. MaxArray \in Nat
  BY ArrayAssumption
<1>2. Bounds \subseteq Ends
  BY <1>1 DEF Bounds, Ends
<1>3. \A key \in Slices : key \in Keys /\ ~IsIndex(key)
  BY <1>2 DEF Slices, Keys, IsIndex
<1>4. \A key \in Indexes : IsIndex(key) /\ key.index \in Int
  BY <1>1 DEF Indexes, IsIndex
<1> QED
  BY <1>3, <1>4

\* A call and the contents after it are as Python says.
IsRight(c, now) ==
  LET key == AsSlice(c.key, Len(c.before)) IN
  IF IsWrong(c) THEN c.result = Failed /\ now = c.before
  ELSE /\ c.result \notin {Failed, Crashed}
       /\ CASE c.op = "get" -> IsPart(key, c.before, c.result) /\ now = c.before
            [] c.op = "set" -> IsReplaced(key, c.before, Contents(c.value, c.before), now)
            [] c.op = "del" -> IsDeleted(key, c.before, now)

LEMMA ItemReadRight ==
  ASSUME NEW a \in Strings, NEW key \in Indexes, key.index >= 0,
         NEW c, c = [op |-> "get", key |-> key, before |-> a, result |-> GetIndex(a, key.index)]
  PROVE  IsRight(c, a)
<1>1. PICK n \in Nat : n = Len(a) /\ a \in Seq(Chars)
  BY StringIsSeq, LenProperties
<1>2. PICK i \in Int : i = key.index /\ i >= 0
  BY KeysOfCalls
<1>3. c.op = "get" /\ c.key = key /\ c.before = a /\ c.result = GetIndex(a, i) /\ IsIndex(key)
  BY <1>2, KeysOfCalls
<1>4. CASE i >= n
  <2>1. IsWrong(c)
    BY <1>1, <1>2, <1>3, <1>4 DEF IsWrong
  <2>2. c.result = Failed
    BY <1>1, <1>2, <1>3, <1>4 DEF GetIndex
  <2> QED
    BY <1>3, <2>1, <2>2 DEF IsRight
<1>5. CASE i < n
  <2>1. ~IsWrong(c)
    BY <1>1, <1>2, <1>3, <1>5 DEF IsWrong
  <2>2. c.result = <<a[i + 1]>>
    BY <1>1, <1>2, <1>3, <1>5 DEF GetIndex
  <2>3. AsSlice(key, n) = OneItem(i)
    BY <1>2, <1>3 DEF AsSlice, OneItem
  <2>4. i \in 0..(Len(a) - 1)
    BY <1>1, <1>2, <1>5
  <2>5. IsPart(OneItem(i), a, <<a[i + 1]>>)
    BY <1>1, <2>4, ItemIsRead
  <2>6. <<a[i + 1]>> \notin {Failed, Crashed}
    <3>1. <<a[i + 1]>> \in Seq(Chars)
      BY <1>1, <2>4, ElementOfSeq
    <3> QED
      BY <3>1, ArrayAssumption
  <2> QED
    BY <1>1, <1>3, <2>1, <2>2, <2>3, <2>5, <2>6 DEF IsRight
<1> QED
  BY <1>2, <1>4, <1>5

LEMMA SliceReadRight ==
  ASSUME NEW a \in Strings, NEW key \in Slices,
         NEW c, c = [op |-> "get", key |-> key, before |-> a, result |-> GetSlice(a, key)]
  PROVE  IsRight(c, a)
<1>1. a \in Seq(Chars)
  BY StringIsSeq
<1>2. key \in Keys /\ ~IsIndex(key)
  BY KeysOfCalls
<1>3. c.op = "get" /\ c.key = key /\ c.before = a /\ c.result = GetSlice(a, key)
  OBVIOUS
<1>4. ~IsWrong(c) /\ AsSlice(key, Len(a)) = key
  BY <1>2, <1>3 DEF IsWrong, AsSlice
<1>5. IsPart(key, a, c.result) /\ c.result \notin {Failed, Crashed}
  BY <1>1, <1>2, <1>3, PartIsRead, ArrayAssumption
<1> QED
  BY <1>3, <1>4, <1>5 DEF IsRight

\* What SetIndex() returns.
LEMMA IndexWritten ==
  ASSUME NEW a \in Strings, NEW key \in Indexes, NEW value \in Values
  PROVE  LET n == Len(a)
             i == IF key.index < 0 THEN key.index + n ELSE key.index
             v == Contents(value, a)
             r == SetIndex(a, key.index, value)
         IN  /\ r \in Seq(Chars) \cup {Failed}
             /\ i \notin 0..(n - 1) \/ value = NoValue \/ Len(v) # 1 => r = Failed
             /\ i \in 0..(n - 1) /\ value \in Strings /\ Len(v) = 1 =>
                  r \in Seq(Chars) /\ IsReplaced(OneItem(i), a, v, r)
<1>1. PICK n \in Nat : n = Len(a) /\ a \in Seq(Chars)
  BY StringIsSeq, LenProperties
<1>2. PICK i \in Int : i = IF key.index < 0 THEN key.index + n ELSE key.index
  BY KeysOfCalls
<1>3. PICK v : v = Contents(value, a)
  OBVIOUS
<1>4. PICK r : r = SetIndex(a, key.index, value)
  OBVIOUS
<1>5. PICK removed : removed = Replace(a, i, 1, <<>>)
  OBVIOUS
<1>6. r = IF i < 0 \/ i >= n \/ value = NoValue THEN Failed
          ELSE IF Len(v) # 1 THEN Failed ELSE Replace(removed, i, 0, Contents(value, removed))
  BY <1>1, <1>2, <1>3, <1>4, <1>5 DEF SetIndex
<1>7. i \notin 0..(n - 1) \/ value = NoValue \/ Len(v) # 1 => r = Failed
  BY <1>6
<1>8. ASSUME i \in 0..(n - 1), value # NoValue, Len(v) = 1
      PROVE  r = Replace(removed, i, 0, Contents(value, removed))
  BY <1>6, <1>8
<1>9. \A w \in Seq(Chars) :
        i \in 0..(n - 1) => Replace(removed, i, 0, w) \in Seq(Chars) /\ IsReplaced(OneItem(i), a, w, Replace(removed, i, 0, w))
  BY <1>1, <1>5, ItemIsReplaced
<1>10. ASSUME i \in 0..(n - 1), value \in Strings, Len(v) = 1
       PROVE  r \in Seq(Chars) /\ IsReplaced(OneItem(i), a, v, r)
  <2>1. value \in Seq(Chars) /\ value # NoValue
    BY <1>10, StringIsSeq, ArrayAssumption
  <2>2. v = value /\ Contents(value, removed) = value
    BY <1>3, <2>1, ContentsOfString
  <2> QED
    BY <1>8, <1>9, <1>10, <2>1, <2>2
<1>11. r \in Seq(Chars) \cup {Failed}
  <2>1. CASE i \in 0..(n - 1) /\ value # NoValue /\ Len(v) = 1
    <3>1. CASE value \in Strings
      BY <1>10, <2>1, <3>1
    <3>2. CASE value = Itself
      <4>1. v = a
        BY <1>3, <3>2 DEF Contents
      <4>4. n = 1
        BY <1>1, <2>1, <4>1
      <4>5. i = 0
        BY <2>1, <4>4
      <4>2. Contents(value, removed) = removed
        BY <3>2 DEF Contents
      <4>3. removed \in Seq(Chars)
        <5>1. PICK one, from \in Nat : one = 1 /\ from = i
          BY <4>5
        <5>4. from + one <= Len(a)
          BY <1>1, <4>4, <4>5, <5>1
        <5>2. PICK empty \in Seq(Chars) : empty = <<>>
          BY EmptySeq
        <5>3. Differs(Replace(a, from, one, empty), a, from, one, empty)
          BY <1>1, <5>4, PartReplaced
        <5> QED
          BY <1>5, <5>1, <5>2, <5>3 DEF Differs
      <4> QED
        BY <1>8, <1>9, <2>1, <4>2, <4>3
    <3> QED
      BY <2>1, <3>1, <3>2 DEF Values
  <2> QED
    BY <1>7, <2>1
<1> QED
  BY <1>1, <1>2, <1>3, <1>4, <1>7, <1>10, <1>11

\* What SetSlice() returns.
LEMMA SliceWritten ==
  ASSUME NEW a \in Strings, NEW key \in Slices, NEW value \in Values
  PROVE  LET n == Len(a)
             v == Contents(value, a)
             r == SetSlice(a, key, value)
         IN  /\ r \in Seq(Chars) \cup {Failed}
             /\ StepOf(key) # 1 /\ Len(v) # Cardinality(Selected(key, n)) => r = Failed
             /\ StepOf(key) = 1 => r \in Seq(Chars) /\ IsReplaced(key, a, v, r)
             /\ StepOf(key) # 1 /\ value \in Strings /\ Len(v) = Cardinality(Selected(key, n)) =>
                  r \in Seq(Chars) /\ IsReplaced(key, a, v, r)
<1>1. PICK n \in Nat : n = Len(a) /\ a \in Seq(Chars)
  BY StringIsSeq, LenProperties
<1>2. key \in Keys
  BY KeysOfCalls
<1>3. PICK v \in Seq(Chars) : v = Contents(value, a)
  BY ContentsAreChars
<1>4. PICK s : s = GetIndices(key, n)
  OBVIOUS
<1>5. s.step = StepOf(key)
  BY <1>2, <1>4, EndsAgree
<1>6. PICK item : IsItems(item, key, n)
  BY <1>2, SliceItems
<1>7. PICK m \in Nat : m = s.length /\ m = Cardinality(Selected(key, n))
  BY <1>4, <1>6 DEF IsItems
<1>8. PICK r : r = SetSlice(a, key, value)
  OBVIOUS
<1>9. r = CASE s.step = 1 -> SetRange(a, s, v)
            [] s.step # 1 /\ Len(v) = m -> SetExtended(a, s, value)
            [] OTHER -> Failed
  BY <1>1, <1>3, <1>4, <1>7, <1>8 DEF SetSlice
<1>10. s.step # 1 /\ Len(v) # m => r = Failed
  BY <1>9, Zenon
<1>11. ASSUME s.step = 1
       PROVE  r \in Seq(Chars) /\ IsReplaced(key, a, v, r)
  <2>1. r = SetRange(a, s, v)
    BY <1>9, <1>11, Zenon
  <2> QED
    BY <1>1, <1>2, <1>4, <1>5, <1>11, <2>1, RangeIsReplaced
<1>12. ASSUME s.step # 1, Len(v) = m
       PROVE  r \in Seq(Chars) /\ (value \in Strings => IsReplaced(key, a, v, r))
  <2>1. r = SetExtended(a, s, value)
    BY <1>9, <1>12, Zenon
  <2>2. ASSUME NEW b \in Seq(Chars), Len(b) = n, NEW j \in 1..m
        PROVE  Contents(value, b)[j] \in Chars
    <3>1. CASE value = Itself
      <4>1. v = a /\ Contents(value, b) = b
        BY <1>3, <3>1 DEF Contents
      <4>2. j \in 1..Len(b)
        BY <1>1, <1>12, <2>2, <4>1
      <4> QED
        BY <4>1, <4>2, ElementOfSeq
    <3>2. CASE value # Itself
      <4>1. Contents(value, b) = v
        BY <1>3, <3>2 DEF Contents
      <4> QED
        BY <1>12, <4>1, ElementOfSeq
    <3> QED
      BY <3>1, <3>2
  <2>3. Written(r, a, item, m, value)
    BY <1>1, <1>2, <1>4, <1>6, <1>7, <2>1, <2>2, ExtendedWritten
  <2>4. r \in Seq(Chars)
    BY <2>3 DEF Written
  <2>5. ASSUME value \in Strings
        PROVE  IsReplaced(key, a, v, r)
    <3>1. v = value
      BY <1>3, <2>5, ContentsAreChars
    <3> QED
      BY <1>1, <1>2, <1>4, <1>5, <1>7, <1>12, <2>1, <3>1, ExtendedIsReplaced
  <2> QED
    BY <2>4, <2>5
<1> QED
  BY <1>1, <1>3, <1>5, <1>7, <1>8, <1>10, <1>11, <1>12

LEMMA ItemWriteRight ==
  ASSUME NEW a \in Strings, NEW key \in Indexes, NEW value \in Strings \cup {NoValue}, NEW r,
         r = SetIndex(a, key.index, value), NEW c,
         c = [op |-> "set", key |-> key, value |-> value, before |-> a, result |-> r],
         NEW new, new = IF r = Failed THEN a ELSE r
  PROVE  IsRight(c, new)
<1>1. PICK n \in Nat : n = Len(a)
  BY StringIsSeq, LenProperties
<1>2. PICK i \in Int : i = IF key.index < 0 THEN key.index + n ELSE key.index
  BY KeysOfCalls
<1>3. PICK v : v = Contents(value, a)
  OBVIOUS
<1>4. /\ i \notin 0..(n - 1) \/ value = NoValue \/ Len(v) # 1 => r = Failed
      /\ i \in 0..(n - 1) /\ value \in Strings /\ Len(v) = 1 =>
           r \in Seq(Chars) /\ IsReplaced(OneItem(i), a, v, r)
  <2>1. value \in Values
    BY DEF Values
  <2> QED
    BY <1>1, <1>2, <1>3, <2>1, IndexWritten
<1>5. c.op = "set" /\ c.key = key /\ c.value = value /\ c.before = a /\ c.result = r /\ IsIndex(key) /\ key.index \in Int
  BY KeysOfCalls
<1>6. key.index \notin (-n)..(n - 1) <=> i \notin 0..(n - 1)
  BY <1>2, <1>5
<1>7. IsWrong(c) <=> i \notin 0..(n - 1) \/ value = NoValue \/ Len(v) # 1
  BY <1>1, <1>3, <1>5, <1>6 DEF IsWrong
<1>8. CASE IsWrong(c)
  <2>1. r = Failed /\ new = a
    BY <1>4, <1>7, <1>8
  <2> QED
    BY <1>5, <1>8, <2>1 DEF IsRight
<1>9. CASE ~IsWrong(c)
  <2>1. r \in Seq(Chars) /\ IsReplaced(OneItem(i), a, v, r)
    BY <1>4, <1>7, <1>9
  <2>2. r \notin {Failed, Crashed} /\ new = r
    BY <2>1, ArrayAssumption
  <2>3. AsSlice(key, n) = OneItem(i)
    BY <1>2, <1>5 DEF AsSlice, OneItem
  <2> QED
    BY <1>1, <1>3, <1>5, <1>9, <2>1, <2>2, <2>3 DEF IsRight
<1> QED
  BY <1>8, <1>9

LEMMA SliceWriteRight ==
  ASSUME NEW a \in Strings, NEW key \in Slices, NEW value \in Values,
         key.step \notin {Unset, 1} => value \in Strings, NEW r, r = SetSlice(a, key, value), NEW c,
         c = [op |-> "set", key |-> key, value |-> value, before |-> a, result |-> r],
         NEW new, new = IF r = Failed THEN a ELSE r
  PROVE  IsRight(c, new)
<1>1. PICK n \in Nat : n = Len(a)
  BY StringIsSeq, LenProperties
<1>2. PICK v : v = Contents(value, a)
  OBVIOUS
<1>3. /\ StepOf(key) # 1 /\ Len(v) # Cardinality(Selected(key, n)) => r = Failed
      /\ StepOf(key) = 1 => r \in Seq(Chars) /\ IsReplaced(key, a, v, r)
      /\ StepOf(key) # 1 /\ value \in Strings /\ Len(v) = Cardinality(Selected(key, n)) =>
           r \in Seq(Chars) /\ IsReplaced(key, a, v, r)
  BY <1>1, <1>2, SliceWritten
<1>4. c.op = "set" /\ c.key = key /\ c.value = value /\ c.before = a /\ c.result = r /\ ~IsIndex(key)
  BY KeysOfCalls
<1>5. IsWrong(c) <=> StepOf(key) # 1 /\ Len(v) # Cardinality(Selected(key, n))
  BY <1>1, <1>2, <1>4 DEF IsWrong
<1>6. StepOf(key) # 1 => value \in Strings
  BY DEF StepOf
<1>7. CASE IsWrong(c)
  <2>1. r = Failed /\ new = a
    BY <1>3, <1>5, <1>7
  <2> QED
    BY <1>4, <1>7, <2>1 DEF IsRight
<1>8. CASE ~IsWrong(c)
  <2>1. r \in Seq(Chars) /\ IsReplaced(key, a, v, r)
    BY <1>3, <1>5, <1>6, <1>8
  <2>2. r \notin {Failed, Crashed} /\ new = r
    BY <2>1, ArrayAssumption
  <2>3. AsSlice(key, n) = key
    BY <1>4 DEF AsSlice
  <2> QED
    BY <1>1, <1>2, <1>4, <1>8, <2>1, <2>2, <2>3 DEF IsRight
<1> QED
  BY <1>7, <1>8

\* What DeleteSlice() returns.
LEMMA SliceDeleted ==
  ASSUME NEW a \in Strings, NEW key \in Slices, NEW r, r = DeleteSlice(a, key)
  PROVE  /\ r \in Strings \cup {Crashed}
         /\ StepOf(key) = 1 => r \in Strings /\ IsDeleted(key, a, r)
<1>1. PICK n \in Nat : n = Len(a) /\ a \in Seq(Chars) /\ n <= MaxArray
  BY StringIsSeq, LenProperties
<1>2. key \in Keys
  BY KeysOfCalls
<1>3. PICK s : s = GetIndices(key, n)
  OBVIOUS
<1>4. s.step = StepOf(key)
  BY <1>2, <1>3, EndsAgree
<1>5. r = CASE s.step = 1 -> SetRange(a, s, <<>>)
            [] s.step # 1 /\ s.length = 0 -> a
            [] OTHER -> Crashed
  BY <1>1, <1>3 DEF DeleteSlice
<1>6. CASE s.step = 1
  <2>1. r = SetRange(a, s, <<>>)
    BY <1>5, <1>6, Zenon
  <2>2. r \in Seq(Chars) /\ Len(r) <= Len(a) /\ IsDeleted(key, a, r)
    BY <1>1, <1>2, <1>3, <1>4, <1>6, <2>1, RangeIsDeleted
  <2>3. PICK l \in Nat : l = Len(r)
    BY <2>2, LenProperties
  <2>4. Len(r) <= MaxArray
    BY <1>1, <2>2, <2>3, ArrayAssumption
  <2> QED
    BY <2>2, <2>4, StringIsSeq
<1>7. CASE s.step # 1
  <2>1. r = a \/ r = Crashed
    BY <1>5, <1>7
  <2> QED
    BY <1>4, <1>7, <2>1
<1> QED
  BY <1>6, <1>7

LEMMA SliceDeleteRight ==
  ASSUME NEW a \in Strings, NEW key \in Slices, key.step \in {Unset, 1}, NEW r, r = DeleteSlice(a, key),
         NEW c, c = [op |-> "del", key |-> key, before |-> a, result |-> r],
         NEW new, new = IF r \in {Failed, Crashed} THEN a ELSE r
  PROVE  IsRight(c, new)
<1>1. c.op = "del" /\ c.key = key /\ c.before = a /\ c.result = r /\ ~IsIndex(key)
  BY KeysOfCalls
<1>2. StepOf(key) = 1
  BY DEF StepOf
<1>3. r \in Strings /\ IsDeleted(key, a, r)
  BY <1>2, SliceDeleted
<1>4. r \notin {Failed, Crashed} /\ new = r
  BY <1>3, StringIsSeq, ArrayAssumption
<1>5. ~IsWrong(c) /\ AsSlice(key, Len(a)) = key
  BY <1>1 DEF IsWrong, AsSlice
<1> QED
  BY <1>1, <1>3, <1>4, <1>5 DEF IsRight

-----------------------------------------------------------------------------
(* The specification *)

LEMMA ArrayStep ==
  ASSUME ArrayTypeOK, ArrayNext
  PROVE  ArrayTypeOK' /\ (usages = {} => usages' = {} /\ SlicesAsInPython')
<1>1. usages \in ArrayPrograms /\ array \in Strings
  BY DEF ArrayTypeOK
<1>2. CASE Get
  <2>1. usages' = usages /\ array' = array
    BY <1>2 DEF Get
  <2>2. CASE \E i \in Indexes : /\ i.index >= 0 \/ "negative" \in usages
                                /\ call' = [op |-> "get", key |-> i, before |-> array,
                                            result |-> GetIndex(array, i.index)]
    <3>1. PICK key \in Indexes : /\ key.index >= 0 \/ "negative" \in usages
                                 /\ call' = [op |-> "get", key |-> key, before |-> array,
                                             result |-> GetIndex(array, key.index)]
      BY <2>2
    <3>2. ArrayTypeOK'
      BY <1>1, <2>1, <3>1 DEF ArrayTypeOK
    <3>3. ASSUME usages = {}
          PROVE  IsRight(call', array')
      <4>1. key.index >= 0
        BY <3>1, <3>3
      <4> QED
        BY <1>1, <2>1, <3>1, <4>1, ItemReadRight
    <3> QED
      BY <2>1, <3>2, <3>3 DEF SlicesAsInPython, IsRight
  <2>3. CASE \E s \in Slices : call' = [op |-> "get", key |-> s, before |-> array, result |-> GetSlice(array, s)]
    <3>1. PICK key \in Slices : call' = [op |-> "get", key |-> key, before |-> array, result |-> GetSlice(array, key)]
      BY <2>3
    <3>2. ArrayTypeOK'
      BY <1>1, <2>1, <3>1 DEF ArrayTypeOK
    <3>3. IsRight(call', array')
      BY <1>1, <2>1, <3>1, SliceReadRight
    <3> QED
      BY <2>1, <3>2, <3>3 DEF SlicesAsInPython, IsRight
  <2> QED
    BY <1>2, <2>2, <2>3 DEF Get
<1>3. CASE Set
  <2>1. ASSUME NEW key, NEW value, NEW r, Assign(key, value, r), r \in Seq(Chars) \cup {Failed}
        PROVE  /\ usages' = usages /\ array' \in Strings /\ array' = IF r = Failed THEN array ELSE r
               /\ call' = [op |-> "set", key |-> key, value |-> value, before |-> array, result |-> r]
               /\ ArrayTypeOK'
    <3>1. /\ usages' = usages /\ array' = IF r = Failed THEN array ELSE r
          /\ call' = [op |-> "set", key |-> key, value |-> value, before |-> array, result |-> r]
          /\ r # Failed => Len(r) <= MaxArray
      BY <2>1 DEF Assign
    <3>2. array' \in Strings
      BY <1>1, <2>1, <3>1, StringIsSeq
    <3> QED
      BY <1>1, <3>1, <3>2 DEF ArrayTypeOK
  <2>2. ASSUME NEW value \in Values, NEW key \in Indexes, value = Itself => "aliases" \in usages,
               Assign(key, value, SetIndex(array, key.index, value))
        PROVE  ArrayTypeOK' /\ (usages = {} => usages' = {} /\ SlicesAsInPython')
    <3>1. PICK r : r = SetIndex(array, key.index, value)
      OBVIOUS
    <3>2. r \in Seq(Chars) \cup {Failed}
      BY <1>1, <3>1, IndexWritten
    <3>3. /\ usages' = usages /\ array' = IF r = Failed THEN array ELSE r
          /\ call' = [op |-> "set", key |-> key, value |-> value, before |-> array, result |-> r]
          /\ ArrayTypeOK'
      BY <2>1, <2>2, <3>1, <3>2
    <3>4. ASSUME usages = {}
          PROVE  IsRight(call', array')
      <4>1. value \in Strings \cup {NoValue}
        BY <2>2, <3>4 DEF Values
      <4> QED
        BY <1>1, <3>1, <3>3, <4>1, ItemWriteRight
    <3> QED
      BY <3>3, <3>4 DEF SlicesAsInPython, IsRight
  <2>3. ASSUME NEW value \in Values, NEW key \in Slices,
               key.step \notin {Unset, 1} => value \in Strings \/ "aliases" \in usages,
               Assign(key, value, SetSlice(array, key, value))
        PROVE  ArrayTypeOK' /\ (usages = {} => usages' = {} /\ SlicesAsInPython')
    <3>1. PICK r : r = SetSlice(array, key, value)
      OBVIOUS
    <3>2. r \in Seq(Chars) \cup {Failed}
      BY <1>1, <3>1, SliceWritten
    <3>3. /\ usages' = usages /\ array' = IF r = Failed THEN array ELSE r
          /\ call' = [op |-> "set", key |-> key, value |-> value, before |-> array, result |-> r]
          /\ ArrayTypeOK'
      BY <2>1, <2>3, <3>1, <3>2
    <3>4. ASSUME usages = {}
          PROVE  IsRight(call', array')
      <4>1. key.step \notin {Unset, 1} => value \in Strings
        BY <2>3, <3>4
      <4> QED
        BY <1>1, <3>1, <3>3, <4>1, SliceWriteRight
    <3> QED
      BY <3>3, <3>4 DEF SlicesAsInPython, IsRight
  <2> QED
    BY <1>3, <2>2, <2>3 DEF Set, Values
<1>4. CASE DeleteItems
  <2>1. ASSUME NEW key, NEW r, Removed(key, r), r \in Strings \cup {Failed, Crashed}
        PROVE  /\ usages' = usages /\ array' = IF r \in {Failed, Crashed} THEN array ELSE r
               /\ call' = [op |-> "del", key |-> key, before |-> array, result |-> r]
               /\ ArrayTypeOK'
    <3>1. /\ usages' = usages /\ array' = IF r \in {Failed, Crashed} THEN array ELSE r
          /\ call' = [op |-> "del", key |-> key, before |-> array, result |-> r]
      BY <2>1 DEF Removed
    <3>2. array' \in Strings
      BY <1>1, <2>1, <3>1
    <3> QED
      BY <1>1, <3>1, <3>2 DEF ArrayTypeOK
  <2>2. CASE \E i \in Indexes : "deletes" \in usages /\ Removed(i, DeleteIndex(array, i.index))
    <3>1. PICK key \in Indexes : "deletes" \in usages /\ Removed(key, DeleteIndex(array, key.index))
      BY <2>2
    <3>2. DeleteIndex(array, key.index) \in {Failed, Crashed}
      BY DEF DeleteIndex
    <3>3. ArrayTypeOK'
      BY <2>1, <3>1, <3>2
    <3> QED
      BY <3>1, <3>3
  <2>3. CASE \E s \in Slices : /\ s.step \notin {Unset, 1} => "deletes" \in usages
                               /\ Removed(s, DeleteSlice(array, s))
    <3>1. PICK key \in Slices : /\ key.step \notin {Unset, 1} => "deletes" \in usages
                                /\ Removed(key, DeleteSlice(array, key))
      BY <2>3
    <3>2. PICK r : r = DeleteSlice(array, key)
      OBVIOUS
    <3>3. r \in Strings \cup {Failed, Crashed}
      BY <1>1, <3>2, SliceDeleted
    <3>4. /\ usages' = usages /\ array' = IF r \in {Failed, Crashed} THEN array ELSE r
          /\ call' = [op |-> "del", key |-> key, before |-> array, result |-> r]
          /\ ArrayTypeOK'
      BY <2>1, <3>1, <3>2, <3>3
    <3>5. ASSUME usages = {}
          PROVE  IsRight(call', array')
      <4>1. key.step \in {Unset, 1}
        BY <3>1, <3>5
      <4> QED
        BY <1>1, <3>2, <3>4, <4>1, SliceDeleteRight
    <3> QED
      BY <3>4, <3>5 DEF SlicesAsInPython, IsRight
  <2> QED
    BY <1>4, <2>2, <2>3 DEF DeleteItems
<1>5. CASE Returned
  BY <1>1, <1>5 DEF Returned, ArrayTypeOK, SlicesAsInPython
<1> QED
  BY <1>2, <1>3, <1>4, <1>5 DEF ArrayNext

\* For every set of bytes and bound of lengths: the types of arrays and calls.
THEOREM ArrayTypeCorrect == ArraySpec => []ArrayTypeOK
<1>1. ArrayInit => ArrayTypeOK
  BY DEF ArrayInit, ArrayTypeOK
<1>2. ArrayTypeOK /\ [ArrayNext]_arrayVars => ArrayTypeOK'
  <2>1. ArrayTypeOK /\ UNCHANGED arrayVars => ArrayTypeOK'
    BY DEF ArrayTypeOK, arrayVars
  <2> QED
    BY <2>1, ArrayStep
<1> QED
  BY <1>1, <1>2, PTL DEF ArraySpec

\* For every program that does not assign an array to parts of itself, read at negative indexes
\* or delete items and extended slices: items and slices are read, changed and deleted as
\* Python says of sequences, and an error changes nothing.
THEOREM SlicesLikePython == ArraySpec => [](usages = {} => SlicesAsInPython)
<1> DEFINE ArrayInv == ArrayTypeOK /\ (usages = {} => SlicesAsInPython)
<1>1. ArrayInit => ArrayInv
  BY DEF ArrayInit, ArrayTypeOK, SlicesAsInPython
<1>2. ArrayInv /\ [ArrayNext]_arrayVars => ArrayInv'
  <2>1. ArrayInv /\ UNCHANGED arrayVars => ArrayInv'
    BY DEF ArrayTypeOK, SlicesAsInPython, arrayVars
  <2>2. ASSUME ArrayInv, ArrayNext PROVE ArrayInv'
    <3>1. usages' = usages
      BY <2>2 DEF ArrayNext, Get, Set, Assign, DeleteItems, Removed, Returned
    <3> QED
      BY <2>2, <3>1, ArrayStep
  <2> QED
    BY <2>1, <2>2
<1> QED
  BY <1>1, <1>2, PTL DEF ArraySpec

=============================================================================
