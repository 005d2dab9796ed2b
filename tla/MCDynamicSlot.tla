----------------------------- MODULE MCDynamicSlot -----------------------------
(* Small instances of DynamicSlot. *)
EXTENDS DynamicSlot, TLC

CONSTANTS o1, o2, f1, f2

\* A bound method of a plain Python object and a slot of a QObject.
MethodAndIndex == {[kind |-> "method", obj |-> o1, fn |-> f1],
                   [kind |-> "index",  obj |-> o2, fn |-> f1]}

\* One callable of each kind; o1 has a bound method and a C function.
AllKinds == MethodAndIndex \cup
            {[kind |-> "cfunction", obj |-> o1,       fn |-> f2],
             [kind |-> "callable",  obj |-> NoObject, fn |-> f2]}

\* o2 has a slot in its meta object and a decorated method, which has none.
Decorated == AllKinds \cup {[kind |-> "method", obj |-> o2, fn |-> f2]}

ConnSymmetry == Permutations(ConnIds)
=============================================================================
