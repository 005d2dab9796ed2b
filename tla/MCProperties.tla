---------------------------- MODULE MCProperties ----------------------------
(* Instances of Properties for TLC. *)
EXTENDS Properties, TLC

\* A line with a mixin at the end, or first; and a diamond
SomeHierarchies == {
  "Qt" :> <<>> @@ "A" :> <<"Qt">> @@ "M" :> <<>> @@ "B" :> <<"A", "M">> @@ "C" :> <<"B">>,
  "Qt" :> <<>> @@ "A" :> <<"Qt">> @@ "M" :> <<>> @@ "B" :> <<"M", "A">> @@ "C" :> <<"B">>,
  "Qt" :> <<>> @@ "A" :> <<"Qt">> @@ "B" :> <<"A">> @@ "C" :> <<"A">> @@ "D" :> <<"B", "C">>}

\* A mro that keeps the last of each, as Python's does in lines and diamonds
LastOfEach ==
  [h \in SomeHierarchies |-> [c \in DOMAIN h |->
     LET all == Above[h][c]
         LastOf(d) == SelectLastInSeq(all, LAMBDA e : e = d)
     IN  SetToSortSeq(ToSet(all), LAMBDA d, e : LastOf(d) < LastOf(e))]]

\* Read-only and constant; with a signal; with all accessors; with None for a setter
Plain == [fget |-> "function", fset |-> "null", freset |-> "null", fdel |-> "null",
          notify |-> FALSE, constant |-> FALSE]
SomeProperties == {[Plain EXCEPT !.constant = TRUE],
                   [Plain EXCEPT !.notify = TRUE],
                   [Plain EXCEPT !.fset = "function", !.freset = "function", !.notify = TRUE],
                   [Plain EXCEPT !.fset = "None"]}
=============================================================================
