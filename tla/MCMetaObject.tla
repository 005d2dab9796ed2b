----------------------------- MODULE MCMetaObject -----------------------------
(* A Qt class with a signal, and classes that mix and redefine signals and slots. *)
EXTENDS MetaObject

CONSTANTS n1, n2, n3

Static == <<[kind |-> "signal", name |-> n1]>>

\* A class with a slot and a mixin with a signal; the Qt signal again.
Mixed == <<<<[kind |-> "slot", name |-> n2]>>, <<[kind |-> "signal", name |-> n3]>>>>
Redefined == <<<<[kind |-> "slot", name |-> n3], [kind |-> "signal", name |-> n1]>>>>
SomeBodies == {Mixed, Redefined}
=============================================================================
