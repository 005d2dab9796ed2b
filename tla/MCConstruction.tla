--------------------------- MODULE MCConstruction ---------------------------
(* Instances of Construction for TLC. *)
EXTENDS Construction, TLC

Letters == "a" :> "A" @@ "b" :> "B" @@ "s" :> "S" @@ "e" :> "E" @@ "t" :> "T"

Class(wrapped) == [wrapped |-> wrapped, props |-> {}, overloaded |-> {}, signals |-> {}, methods |-> {}, objects |-> {}]

\* Names: ab, abA, esA, with default setters, with another one, without
ab == <<"a", "b">>
abA == <<"a", "b", "A">>
esA == <<"e", "s", "A">>
aba == <<"a", "b", "a">>
ab_a == <<"a", "b", "_", "a">>
es_a == <<"e", "s", "_", "a">>
Standard(n) == n \o <<":", ":">>
Special(n) == n \o <<":", "b", "A", "e", ":", "s", "e", "t", "T">> \o n
ReadOnly(n) == n \o <<":">>

Widget == [Class(TRUE) EXCEPT !.props = {Standard(abA), Special(esA)}, !.signals = {ab}]
Base == [Class(TRUE) EXCEPT !.props = {Standard(ab), ReadOnly(aba)}]
Overloaded == [Base EXCEPT !.overloaded = {ab}]
Overrides(names) == [Class(FALSE) EXCEPT !.methods = names]
WithObject == [Class(FALSE) EXCEPT !.objects = {aba}]

SomeMros == {
  <<Widget, Base>>,
  <<Widget, Overloaded>>,
  <<Overrides({Setter(ab_a, TRUE), Setter(abA, FALSE)}), Widget>>,
  <<WithObject, Widget>>}

SomeKeywords == {ab, aba, abA, ab_a, esA, es_a}
=============================================================================
