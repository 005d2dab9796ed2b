-------------------------- MODULE MCSignalInstance --------------------------
(* Instances of SignalInstance for TLC. *)
EXTENDS SignalInstance

\* Signals of a C++ class, as the meta object lists them
CppSignals == {
  MetaMethods(<<"i">>, 1),                                \* f(int = 0)
  MetaMethods(<<"i", "s">>, 1),                           \* f(int, QString = {})
  MetaMethods(<<"i", "s">>, 2),
  MetaMethods(<<"i">>, 0) \o MetaMethods(<<"s", "i">>, 0)}

Tuple(args) == [kind |-> "tuple", args |-> args]

Written(home, name, overloads) == [home |-> home, name |-> name, overloads |-> overloads]

\* Signals of a Python class
PythonSignals == {<<Tuple(<<>>)>>, <<Tuple(<<"i">>), Tuple(<<"s", "i">>)>>, <<Tuple(<<"void">>), Tuple(<<"i">>)>>,
           <<[kind |-> "list", args |-> <<"i">>], Tuple(<<"s">>)>>}

BaseEntries == {Nothing, Method} \cup {[signatures |-> w, method |-> m] : w \in CppSignals, m \in BOOLEAN}
SubEntries(n) == {Nothing, Method} \cup {Written(n, n, p) : p \in PythonSignals}

\* One attribute with everything; or two that are signals, one of them under two names, or
\* with a name= of the other, or with names exchanged, or in the meta object only.
OneName == {[Sub |-> ("a" :> s @@ "b" :> Nothing), Base |-> ("a" :> b @@ "b" :> Nothing), hidden |-> [n \in {"a", "b"} |-> <<>>]] :
              s \in SubEntries("a"), b \in BaseEntries}
Other == {Written("b", "b", <<Tuple(<<"i">>)>>), Written("b", "a", <<Tuple(<<"i">>)>>)}
TwoNames ==
  {[Sub |-> ("a" :> s @@ "b" :> t), Base |-> [n \in {"a", "b"} |-> Nothing], hidden |-> [n \in {"a", "b"} |-> <<>>]] :
     s \in {Written("a", "a", <<Tuple(<<"i">>), Tuple(<<"s">>)>>)}, t \in Other \cup {
            Written("a", "a", <<Tuple(<<"i">>), Tuple(<<"s">>)>>)}}
HiddenName ==
  {[Sub |-> ("a" :> s @@ "b" :> Nothing), Base |-> [n \in {"a", "b"} |-> Nothing], hidden |-> ("a" :> <<>> @@ "b" :> h)] :
     s \in {Nothing, Written("a", "a", <<Tuple(<<"i">>)>>)}, h \in CppSignals}
Exchanged ==
  {[Sub |-> ("a" :> Written("a", "b", <<Tuple(<<"i">>)>>) @@ "b" :> Written("b", "a", <<Tuple(<<"i">>)>>)),
    Base |-> ("a" :> b @@ "b" :> Nothing), hidden |-> [n \in {"a", "b"} |-> <<>>]] : b \in {Nothing, Method}}
SomeLayouts == OneName \cup TwoNames \cup Exchanged \cup HiddenName

SomeSlots == {[kind |-> "function", count |-> 0, defaults |-> 0], [kind |-> "method", count |-> 3, defaults |-> 1],
              [kind |-> "method", count |-> 2, defaults |-> 0], [kind |-> "other", count |-> 0, defaults |-> 0]}
=============================================================================
