----------------------------- MODULE ByteArrays ------------------------------
(***************************************************************************)
(* Items and slices of QByteArray (PySide6/glue/qtcore.cpp): the glue      *)
(* carries out on Qt's array what Python says of mutable sequences. An     *)
(* operation is called, and its effect compared with the rules of Python   *)
(* before the next one.                                                    *)
(***************************************************************************)
EXTENDS Integers, Sequences, FiniteSets

CONSTANTS
  Chars,          \* of an array
  MaxArray,       \* bound: length of arrays and values
  Unset,          \* a missing start, stop or step
  NoValue,           \* Python's None, as a value
  Itself,         \* the array that is changed, as a value
  Failed,         \* the result of an operation that raises an error
  Crashed,        \* of one that uses a null pointer
  ArrayPrograms   \* the programs looked at

\* What a program may do: assign the array, or None, to an extended slice or an item of
\* itself (aliases); use negative indexes to read (negative); delete items and extended
\* slices (deletes).
ASSUME ArrayAssumption ==
  /\ Chars # {} /\ MaxArray \in Nat \ {0}
  /\ Unset \notin Int
  /\ NoValue \notin Seq(Chars) /\ Itself \notin Seq(Chars)
  /\ Failed \notin Seq(Chars) /\ Crashed \notin Seq(Chars)
  /\ ArrayPrograms \subseteq SUBSET {"aliases", "negative", "deletes"}

VARIABLES
  usages,   \* of the program; they do not change
  array,    \* the contents
  call      \* what is called, with the contents before and the result, or Idle

arrayVars == <<usages, array, call>>

Strings == UNION {[1..n -> Chars] : n \in 0..MaxArray}
NotCalled == [op |-> "none"]

Least(a, b) == IF a < b THEN a ELSE b
Most(a, b) == IF a < b THEN b ELSE a

-----------------------------------------------------------------------------
(* CPython and Qt *)

\* PySlice_GetIndicesEx()
Adjusted(i, n, step) ==
  LET j == IF i < 0 THEN i + n ELSE i IN
  IF j < 0 THEN (IF step < 0 THEN -1 ELSE 0) ELSE IF j >= n THEN (IF step < 0 THEN n - 1 ELSE n) ELSE j
GetIndices(key, n) ==
  LET step == IF key.step = Unset THEN 1 ELSE key.step
      start == IF key.start = Unset THEN IF step < 0 THEN n - 1 ELSE 0 ELSE Adjusted(key.start, n, step)
      stop == IF key.stop = Unset THEN IF step < 0 THEN -1 ELSE n ELSE Adjusted(key.stop, n, step)
  IN  [start |-> start, stop |-> stop, step |-> step,
       length |-> IF step < 0 THEN IF stop < start THEN (start - stop - 1) \div (-step) + 1 ELSE 0
                              ELSE IF start < stop THEN (stop - start - 1) \div step + 1 ELSE 0]

\* QByteArray::replace(): as far as there are bytes; not from behind the end.
Replace(a, from, length, with) ==
  IF from > Len(a) THEN a
  ELSE SubSeq(a, 1, from) \o with \o SubSeq(a, from + Most(length, 0) + 1, Len(a))

-----------------------------------------------------------------------------
(* __mgetitem__ *)

GetIndex(a, i) == IF i < 0 \/ i >= Len(a) THEN Failed ELSE <<a[i + 1]>>

GetSlice(a, key) ==
  LET s == GetIndices(key, Len(a)) IN
  CASE s.length <= 0 -> <<>>
    [] s.length > 0 /\ s.step = 1 -> SubSeq(a, s.start + 1, s.stop)
    [] OTHER -> [k \in 1..s.length |-> a[s.start + (k - 1) * s.step + 1]]

-----------------------------------------------------------------------------
(* __msetitem__ *)

\* The contents of a value now
Contents(value, a) == IF value = Itself THEN a ELSE IF value = NoValue THEN <<>> ELSE value

\* The item is removed before the value is read.
SetIndex(a, index, value) ==
  LET i == IF index < 0 THEN index + Len(a) ELSE index IN
  IF i < 0 \/ i >= Len(a) \/ value = NoValue THEN Failed
  ELSE LET removed == Replace(a, i, 1, <<>>) IN
       IF Len(Contents(value, a)) # 1 THEN Failed ELSE Replace(removed, i, 0, Contents(value, removed))

\* Item after item; the value is read while the array changes.
SetExtended(a, s, value) ==
  LET after[j \in 0..s.length] ==
        IF j = 0 THEN a
        ELSE Replace(after[j - 1], s.start + (j - 1) * s.step, 1, <<Contents(value, after[j - 1])[j]>>)
  IN  after[s.length]

\* Mutation of SetRange: the length as the distance of the ends.
SetRangeToStop(a, s, value) ==
  SubSeq(a, 1, s.start) \o value \o SubSeq(a, s.stop + 1, Len(a))

SetRange(a, s, value) == Replace(a, s.start, s.length, value)

SetSlice(a, key, value) ==
  LET s == GetIndices(key, Len(a)) IN
  CASE s.step = 1 -> SetRange(a, s, Contents(value, a))
    [] s.step # 1 /\ Len(Contents(value, a)) = s.length -> SetExtended(a, s, value)
    [] OTHER -> Failed

\* "case 1: value is nullptr, means delete the items within the range": the value is looked
\* at before an item is removed, and for the message that an extended slice has more items.
DeleteIndex(a, index) == IF index \in (-Len(a))..(Len(a) - 1) THEN Crashed ELSE Failed

DeleteSlice(a, key) ==
  LET s == GetIndices(key, Len(a)) IN
  CASE s.step = 1 -> SetRange(a, s, <<>>)
    [] s.step # 1 /\ s.length = 0 -> a
    [] OTHER -> Crashed

-----------------------------------------------------------------------------
Bounds == {Unset} \cup (-(MaxArray + 1))..(MaxArray + 1)
Strides == {Unset} \cup ((-2)..2 \ {0})
Slices == [start : Bounds, stop : Bounds, step : Strides]
Indexes == [index : (-(MaxArray + 1))..(MaxArray + 1)]
IsIndex(key) == "index" \in DOMAIN key

Get ==
  /\ call = NotCalled
  /\ \/ \E i \in Indexes : /\ i.index >= 0 \/ "negative" \in usages
                           /\ call' = [op |-> "get", key |-> i, before |-> array, result |-> GetIndex(array, i.index)]
     \/ \E s \in Slices : call' = [op |-> "get", key |-> s, before |-> array, result |-> GetSlice(array, s)]
  /\ UNCHANGED <<usages, array>>

\* The array is as it was if an error is raised; longer ones than the bound are not followed.
Assign(key, value, result) ==
  /\ result # Failed => Len(result) <= MaxArray
  /\ array' = IF result = Failed THEN array ELSE result
  /\ call' = [op |-> "set", key |-> key, value |-> value, before |-> array, result |-> result]
  /\ UNCHANGED usages

Set ==
  /\ call = NotCalled
  /\ \E value \in Strings \cup {NoValue, Itself} :
       \/ \E i \in Indexes : /\ value = Itself => "aliases" \in usages
                             /\ Assign(i, value, SetIndex(array, i.index, value))
       \/ \E s \in Slices : /\ s.step \notin {Unset, 1} => value \in Strings \/ "aliases" \in usages
                            /\ Assign(s, value, SetSlice(array, s, value))

\* A crash ends the process.
Removed(key, result) ==
  /\ array' = IF result \in {Failed, Crashed} THEN array ELSE result
  /\ call' = [op |-> "del", key |-> key, before |-> array, result |-> result]
  /\ UNCHANGED usages

DeleteItems ==
  /\ call = NotCalled
  /\ \/ \E i \in Indexes : /\ "deletes" \in usages
                           /\ Removed(i, DeleteIndex(array, i.index))
     \/ \E s \in Slices : /\ s.step \notin {Unset, 1} => "deletes" \in usages
                          /\ Removed(s, DeleteSlice(array, s))

Returned ==
  /\ call # NotCalled /\ call.result # Crashed
  /\ call' = NotCalled
  /\ UNCHANGED <<usages, array>>

ArrayInit == usages \in ArrayPrograms /\ array \in Strings /\ call = NotCalled

ArrayNext == Get \/ Set \/ DeleteItems \/ Returned

ArraySpec == ArrayInit /\ [][ArrayNext]_arrayVars

-----------------------------------------------------------------------------
(* Properties *)

ArrayTypeOK ==
  /\ usages \in ArrayPrograms /\ array \in Strings
  /\ call # NotCalled => call.op \in {"get", "set", "del"} /\ call.before \in Strings

\* Python's rules. The ends of a slice: between 0 and the length, from the end if negative;
\* without one, all to this side.
EndOf(i, n, missing, step) ==
  LET j == IF i < 0 THEN i + n ELSE i IN
  IF i = Unset THEN missing ELSE IF step > 0 THEN Most(0, Least(j, n)) ELSE Most(-1, Least(j, n - 1))
StepOf(key) == IF key.step = Unset THEN 1 ELSE key.step
FirstOf(key, n) == EndOf(key.start, n, IF StepOf(key) > 0 THEN 0 ELSE n - 1, StepOf(key))
PastOf(key, n) == EndOf(key.stop, n, IF StepOf(key) > 0 THEN n ELSE -1, StepOf(key))

\* The items "start + k * step" before the stop
Selected(key, n) ==
  {x \in 0..(n - 1) : \E k \in 0..n : /\ x = FirstOf(key, n) + k * StepOf(key)
                                      /\ IF StepOf(key) > 0 THEN x < PastOf(key, n) ELSE x > PastOf(key, n)}
\* The place of an item among them
Place(key, n, x) == Cardinality({y \in Selected(key, n) : IF StepOf(key) > 0 THEN y <= x ELSE y >= x})

IsPart(key, a, part) ==
  /\ Len(part) = Cardinality(Selected(key, Len(a)))
  /\ \A x \in Selected(key, Len(a)) : part[Place(key, Len(a), x)] = a[x + 1]

\* A value takes the place of a part: of a range, whatever its length; else item by item.
IsReplaced(key, a, value, new) ==
  LET n == Len(a)  chosen == Selected(key, n) IN
  IF StepOf(key) = 1
  THEN new = SubSeq(a, 1, FirstOf(key, n)) \o value \o SubSeq(a, Most(FirstOf(key, n), PastOf(key, n)) + 1, n)
  ELSE /\ Len(new) = n
       /\ \A x \in 0..(n - 1) : new[x + 1] = IF x \in chosen THEN value[Place(key, n, x)] ELSE a[x + 1]

\* The items of a part are gone; the others keep their order.
IsDeleted(key, a, new) ==
  LET n == Len(a)  chosen == Selected(key, n) IN
  /\ Len(new) = n - Cardinality(chosen)
  /\ \A x \in 0..(n - 1) \ chosen : new[x + 1 - Cardinality({y \in chosen : y < x})] = a[x + 1]

\* What is an error: an index outside; a value that is not one item; another number of items
\* than an extended slice has.
IsWrong(c) ==
  LET n == Len(c.before) IN
  IF IsIndex(c.key)
  THEN c.key.index \notin (-n)..(n - 1) \/ (c.op = "set" /\ (c.value = NoValue \/ Len(Contents(c.value, c.before)) # 1))
  ELSE c.op = "set" /\ StepOf(c.key) # 1 /\ Len(Contents(c.value, c.before)) # Cardinality(Selected(c.key, n))

\* An item as a slice
AsSlice(key, n) ==
  IF ~IsIndex(key) THEN key
  ELSE LET i == IF key.index < 0 THEN key.index + n ELSE key.index IN [start |-> i, stop |-> i + 1, step |-> 1]

\* Items and slices of an array are read, changed and deleted as Python says of sequences,
\* whatever the ends, the step and the length of the value; an error changes nothing.
SlicesAsInPython ==
  call # NotCalled =>
    LET key == AsSlice(call.key, Len(call.before)) IN
    IF IsWrong(call) THEN call.result = Failed /\ array = call.before
    ELSE /\ call.result \notin {Failed, Crashed}
         /\ CASE call.op = "get" -> IsPart(key, call.before, call.result) /\ array = call.before
              [] call.op = "set" -> IsReplaced(key, call.before, Contents(call.value, call.before), array)
              [] call.op = "del" -> IsDeleted(key, call.before, array)
=============================================================================
