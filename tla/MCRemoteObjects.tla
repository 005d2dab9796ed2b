--------------------------- MODULE MCRemoteObjects ---------------------------
(* Instances of RemoteObjects for TLC. *)
EXTENDS RemoteObjects

Pod(enums, known) == [kind |-> "pod", enums |-> enums, default |-> "none", known |-> known]
AClass(enums, default) == [kind |-> "class", enums |-> enums, default |-> default, known |-> TRUE]

SomeAsts == {<<Pod(1, TRUE), AClass(1, "good")>>, <<AClass(0, "bad")>>, <<Pod(1, FALSE)>>}

\* Both ways
SomeBindings == {{<<o, p>> \in Sources \X Sources : o # p}}
=============================================================================
