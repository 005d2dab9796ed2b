--------------------------- MODULE SignalInstance ---------------------------
(***************************************************************************)
(* Signals of a QObject as Python sees them (libpyside/pysidesignal.cpp).  *)
(*                                                                         *)
(* A Signal object in the dict of a class lists overloads. An object gets  *)
(* SignalInstances, one for each overload, chained; the first one of a     *)
(* chain is kept in the dict of the object, where it hides what the        *)
(* classes have. connect(), disconnect() and emit() look for an overload   *)
(* along the chain, from the instance they are called on. There is one     *)
(* object here, of the Python class Sub that inherits the wrapped class    *)
(* Base; a step is a call under the GIL.                                   *)
(***************************************************************************)
EXTENDS Integers, FiniteSets, SequencesExt, Selection

CONSTANTS
  Names,          \* names of attributes
  Types,          \* types of parameters
  Slots,          \* callables, see SlotRecord
  Layouts,        \* what classes a program may have, see ClassesAssumption
  MaxConnections, \* bound: connections at a time
  Early           \* the program uses signals before the constructor of QObject ran

Nothing == [kind |-> "nothing"]
Method == [kind |-> "method"]

\* Code of a callable: how many arguments it takes, self included, how many have
\* defaults. Not a "function": other callables and functions that take *args.
SlotRecord == [kind : {"function", "method", "other"}, count : Nat, defaults : Nat]
ASSUME SlotAssumption == \A s \in Slots : s \in SlotRecord /\ s.defaults <= s.count

-----------------------------------------------------------------------------
(* Signal objects *)

\* PySideSignalData::Signature, for some sequences of parameters
Signatures(P) == [params : P, argCount : Nat, cloned : BOOLEAN]
Signature(params, argCount, cloned) == [params |-> params, argCount |-> argCount, cloned |-> cloned]

\* parseSignature(): a list is not taken for a tuple; None is a type, "void", that the
\* normalized signature does not show.
parseSignature(kind, args) ==
  IF kind = "list" THEN Signature(<<>>, 1, FALSE)
  ELSE Signature(Chosen(args, Types), Len(args), FALSE)

\* A Signal object; home tells which one it is.
Signal(home, name, signatures, method) ==
  [kind |-> "signal", home |-> home, name |-> name, signatures |-> signatures, method |-> method]

\* signalTpInit(), for a list of tuples (or lists) of types
Declared(home, name, overloads) ==
  Signal(home, name, [i \in 1 .. Len(overloads) |->
                        parseSignature(overloads[i].kind, overloads[i].args)], FALSE)

\* The methods of a meta object that moc makes of signals with default arguments:
\* the full one, then clones with fewer parameters.
MetaMethods(params, defaults) ==
  [i \in 1 .. defaults + 1 |->
     Signature(SubSeq(params, 1, Len(params) - i + 1), Len(params) - i + 1, i > 1)]

\* compareSignals() with std::stable_sort: signatures without parameters come first.
Promoted(signatures) ==
  Chosen(signatures, Signatures({<<>>})) \o Chosen(signatures, Signatures(Seq(Types) \ {<<>>}))

\* registerSignals() and _addSignalToWrapper(): the signals of one name; a method of
\* that name is kept in the Signal object.
registerSignals(home, signatures, method) ==
  Signal(home, home[2], Promoted(signatures), method)

\* What is written in a Python class: Signal(...), maybe with a name or under several names;
\* the signals of one name of a C++ class, and whether it has a method of that name, too;
\* the signals of its meta object that are in no dict.
Overload == [kind : {"tuple", "list"}, args : Seq(Types \cup {"void"})]
Declaration == [home : Names, name : Names, overloads : Seq(Overload) \ {<<>>}]
CppSignal == [signatures : Seq(Signatures(Seq(Types))) \ {<<>>}, method : BOOLEAN]
ASSUME ClassesAssumption ==
  /\ "void" \notin Types
  /\ \A l \in Layouts, n \in Names :
       /\ l.Sub[n] \in {Nothing, Method} \/ l.Sub[n] \in Declaration
       /\ l.Base[n] \in {Nothing, Method} \/ l.Base[n] \in CppSignal
       /\ l.hidden[n] \in Seq(Signatures(Seq(Types)))

Mro == {"Sub", "Base"}

\* The dicts of the two classes
Dicts(l) ==
  [Sub |-> [n \in Names |-> IF l.Sub[n] \in {Nothing, Method} THEN l.Sub[n]
              ELSE Declared(<<"Sub", l.Sub[n].home>>, l.Sub[n].name, l.Sub[n].overloads)],
   Base |-> [n \in Names |-> IF l.Base[n] \in {Nothing, Method} THEN l.Base[n]
              ELSE registerSignals(<<"Base", n>>, l.Base[n].signatures, l.Base[n].method)],
   hidden |-> l.hidden]

-----------------------------------------------------------------------------

VARIABLES
  layout,         \* dicts and hidden signals; never changes
  dict,           \* SignalInstances in the dict of the object, with their chains
  phase,          \* of the QObject: "raw" (its constructor did not run), "alive", "deleted"
  connections     \* what is connected to its signals

signalVars == <<layout, dict, phase, connections>>

NoChain == [links |-> <<>>]

\* instanceInitialize(): one instance for each signature, with one shared source, a
\* null pointer if there is no QObject yet.
instanceInitialize(signal, source) ==
  [home |-> signal.home, name |-> signal.name, links |-> signal.signatures,
   method |-> signal.method, source |-> source]

\* newObjectFromMethod(): "previous" is never set, so nothing is linked to the first.
newObjectFromMethod(n) ==
  [home |-> <<"hidden", n>>, name |-> n, links |-> <<Head(layout.hidden[n])>>,
   method |-> FALSE, source |-> TRUE]

IsSignal(c, n) == layout[c][n].kind = "signal"
IsMethod(c, n) == layout[c][n].kind = "method" \/ (IsSignal(c, n) /\ layout[c][n].method)

\* The first class of the mro that is in a set; what an attribute lookup finds.
First(cs) == IF "Sub" \in cs THEN "Sub" ELSE IF "Base" \in cs THEN "Base" ELSE "none"
Lookup(n) == First({c \in Mro : layout[c][n] # Nothing})
Found(n) == IF Lookup(n) = "none" THEN Nothing ELSE layout[Lookup(n)][n]

Signals(n) == {c \in Mro : IsSignal(c, n)}

\* Mutation of Updated: the last Signal of the mro.
BaseFirst(cs) == IF "Base" \in cs THEN "Base" ELSE IF "Sub" \in cs THEN "Sub" ELSE "none"
UpdatedFromBase(n) == IF dict[n] = NoChain /\ Signals(n) # {}
                      THEN instanceInitialize(layout[BaseFirst(Signals(n))][n], TRUE) ELSE dict[n]

\* updateSourceObject(): for each name the first Signal of the mro, unless the dict of
\* the object has the name.
Updated(n) == IF dict[n] = NoChain /\ Signals(n) # {}
              THEN instanceInitialize(layout[First(Signals(n))][n], TRUE) ELSE dict[n]

\* signalDescrGet(): kept under the name of the signal, not the one of the attribute.
DictName(n) == Found(n).name

-----------------------------------------------------------------------------
(* Overloads *)

isSourceDeleted(chain) == ~ (chain.source /\ phase = "alive")

\* argCount(): the range of arguments a function takes, without self.
ArgMax(s) == s.count - (IF s.kind = "method" THEN 1 ELSE 0)
ArgMin(s) == ArgMax(s) - s.defaults

\* findSignalInstance(), from instance i on: 0 if there is none.
findSignalInstance(chain, i, argCount) ==
  LET ks == {k \in i .. Len(chain.links) : chain.links[k].argCount = argCount}
  IN IF ks = {} THEN 0 ELSE CHOOSE k \in ks : \A j \in ks : k <= j

\* Mutation of findSignalInstanceForSlot: default arguments are not looked at.
FindForAllArguments(chain, i, s) ==
  LET k == findSignalInstance(chain, i, ArgMax(s)) IN IF s.kind = "other" \/ k = 0 THEN i ELSE k

\* findSignalInstanceForSlot(): as many arguments as possible; the instance itself if
\* no overload fits, if there is one only, or if nothing is known of the callable.
findSignalInstanceForSlot(chain, i, s) ==
  LET fitting == {c \in ArgMin(s) .. ArgMax(s) : findSignalInstance(chain, i, c) # 0} IN
  IF s.kind = "other" \/ i = Len(chain.links) \/ fitting = {} THEN i
  ELSE findSignalInstance(chain, i, CHOOSE c \in fitting : \A d \in fitting : d <= c)

\* getCallbackSignature(): how many arguments the callable is given.
Delivered(params, s) ==
  IF s.kind = "other" \/ Len(params) <= ArgMax(s) THEN Len(params) ELSE ArgMax(s)

\* argCountInSignature(): counts commas, so no parameters look like one.
argCountInSignature(l) == IF l.params = <<>> THEN 1 ELSE Len(l.params)

\* signalInstanceEmit(): the instance that is emitted with n arguments, from instance i.
EmittedFrom(chain, i, n) ==
  LET clones == {j \in i + 1 .. Len(chain.links) :
                   chain.links[j].cloned /\ argCountInSignature(chain.links[j]) = n} IN
  IF n < argCountInSignature(chain.links[i]) /\ clones # {}
  THEN CHOOSE j \in clones : \A k \in clones : j <= k
  ELSE i

\* QMetaObject::checkConnectArgs()
checkConnectArgs(l, m) == IsPrefix(m.params, l.params)

Pairs(chain, i, target, j) ==
  {p \in (i .. Len(chain.links)) \X (j .. Len(target.links)) :
     checkConnectArgs(chain.links[p[1]], target.links[p[2]])}

\* Mutation of getHomonymousMethod: the mro is not searched.
OwnHomonymousMethod(chain) == IF chain.method THEN chain.home[1] ELSE "none"

\* _getHomonymousMethod(): the method kept in the Signal, or the first callable of that
\* name in the mro; a Signal there counts if it keeps a method.
getHomonymousMethod(chain) ==
  IF chain.method THEN chain.home[1] ELSE First({c \in Mro : IsMethod(c, chain.name)})

-----------------------------------------------------------------------------
\* An object made in C++, which gets a wrapper later, has no Python class.
SignalInit ==
  /\ layout \in {Dicts(l) : l \in Layouts}
  /\ dict = [n \in Names |-> NoChain]
  /\ phase \in {"raw"} \cup {p \in {"alive"} : \A n \in Names : layout["Sub"][n] = Nothing}
  /\ connections = {}

\* The constructor of the QObject, with updateSourceObject() at its end.
updateSourceObject ==
  /\ phase = "raw"
  /\ phase' = "alive"
  /\ dict' = [n \in Names |-> Updated(n)]
  /\ UNCHANGED <<layout, connections>>

\* Attribute access that finds a Signal in a class.
signalDescrGet(n) ==
  /\ phase # "raw" \/ Early
  /\ dict[n] = NoChain
  /\ Found(n).kind = "signal"
  /\ dict[DictName(n)] = NoChain
  /\ dict' = [dict EXCEPT ![DictName(n)] = instanceInitialize(Found(n), phase = "alive")]
  /\ UNCHANGED <<layout, phase, connections>>

\* getHiddenDataFromQObject(): it finds signals of the meta object only.
getHiddenDataFromQObject(n) ==
  /\ phase = "alive"
  /\ dict[n] = NoChain /\ Found(n) = Nothing /\ layout.hidden[n] # <<>>
  /\ dict' = [dict EXCEPT ![n] = newObjectFromMethod(n)]
  /\ UNCHANGED <<layout, phase, connections>>

\* Connections of one overload to a callable
ConnectionsTo(chain, k, s) ==
  {c \in connections : c.name = chain.name /\ c.params = chain.links[k].params /\ c.slot = s}

\* signalInstanceConnect() with a callable, on instance i of the chain. (A callable
\* that is connected to the signal is not connected again: see DynamicSlot.)
signalInstanceConnect(n, i, s) ==
  /\ ~isSourceDeleted(dict[n])
  /\ LET k == findSignalInstanceForSlot(dict[n], i, s) IN
     /\ ConnectionsTo(dict[n], k, s) = {} /\ Cardinality(connections) < MaxConnections
     /\ connections' = connections \cup {[name |-> dict[n].name, params |-> dict[n].links[k].params,
                                          slot |-> s, from |-> <<n, i>>, to |-> <<>>]}
  /\ UNCHANGED <<layout, dict, phase>>

\* signalInstanceConnect() with a SignalInstance: the first pair that fits.
ConnectSignal(n, i, m, j) ==
  /\ Pairs(dict[n], i, dict[m], j) # {}
  /\ ~isSourceDeleted(dict[n]) /\ ~isSourceDeleted(dict[m])
  /\ LET p == CHOOSE p \in Pairs(dict[n], i, dict[m], j) : \A q \in Pairs(dict[n], i, dict[m], j) :
                p[1] < q[1] \/ (p[1] = q[1] /\ p[2] <= q[2])
         to == [kind |-> "signal", name |-> dict[m].name, params |-> dict[m].links[p[2]].params] IN
     /\ ConnectionsTo(dict[n], p[1], to) = {} /\ Cardinality(connections) < MaxConnections
     /\ connections' = connections \cup {[name |-> dict[n].name, params |-> dict[n].links[p[1]].params,
                                          slot |-> to, from |-> <<n, i>>, to |-> <<m, j>>]}
  /\ UNCHANGED <<layout, dict, phase>>

\* Mutation of SlotToCut: the instance itself.
CutItself(chain, i, s) == i

\* signalInstanceDisconnect() with a callable: "try the matching signature, fall back to
\* first"
SlotToCut(chain, i, s) == findSignalInstanceForSlot(chain, i, s)
signalInstanceDisconnect(n, i, s) ==
  /\ ~isSourceDeleted(dict[n])
  /\ connections' = connections \ ConnectionsTo(dict[n], SlotToCut(dict[n], i, s), s)
  /\ UNCHANGED <<layout, dict, phase>>

\* with a SignalInstance: only the two instances themselves are compared.
DisconnectSignal(n, i, m, j) ==
  /\ checkConnectArgs(dict[n].links[i], dict[m].links[j])
  /\ ~isSourceDeleted(dict[n]) /\ ~isSourceDeleted(dict[m])
  /\ connections' = connections \ ConnectionsTo(dict[n], i,
       [kind |-> "signal", name |-> dict[m].name, params |-> dict[m].links[j].params])
  /\ UNCHANGED <<layout, dict, phase>>

\* without an argument: all receivers of this overload
DisconnectReceivers(n, i) ==
  /\ ~isSourceDeleted(dict[n])
  /\ connections' = {c \in connections : c.name # dict[n].name \/ c.params # dict[n].links[i].params}
  /\ UNCHANGED <<layout, dict, phase>>

\* with a connection
DisconnectId(c) ==
  /\ connections' = connections \ {c}
  /\ UNCHANGED <<layout, dict, phase>>

\* The QObject is destroyed, its wrapper stays.
SourceDeleted ==
  /\ phase = "alive"
  /\ phase' = "deleted"
  /\ connections' = {}
  /\ UNCHANGED <<layout, dict>>

\* Instances the program can hold: the first one of a chain, and the one that
\* signalInstanceGetItem() finds for a signature, walking from the first.
Held(n) == {i \in 1 .. Len(dict[n].links) : \A j \in 1 .. i - 1 :
              dict[n].links[j].params # dict[n].links[i].params}

SignalNext ==
  \/ updateSourceObject
  \/ \E n \in Names : signalDescrGet(n)
  \/ \E n \in Names : getHiddenDataFromQObject(n)
  \/ \E n \in Names : \E i \in Held(n), s \in Slots : signalInstanceConnect(n, i, s)
  \/ \E n \in Names : \E i \in Held(n), s \in Slots : signalInstanceDisconnect(n, i, s)
  \/ \E n, m \in Names : \E i \in Held(n), j \in Held(m) : ConnectSignal(n, i, m, j)
  \/ \E n, m \in Names : \E i \in Held(n), j \in Held(m) : DisconnectSignal(n, i, m, j)
  \/ \E n \in Names : \E i \in Held(n) : DisconnectReceivers(n, i)
  \/ \E c \in connections : DisconnectId(c)
  \/ SourceDeleted

SignalSpec == SignalInit /\ [][SignalNext]_signalVars

-----------------------------------------------------------------------------
(* Properties *)

\* All values are of the expected form, and a QObject that does not live has no
\* connections.
SignalTypeOK ==
  /\ layout \in {Dicts(l) : l \in Layouts}
  /\ phase \in {"raw", "alive", "deleted"}
  /\ \A n \in Names : dict[n] = NoChain \/
       (dict[n].links # <<>> /\ dict[n].name \in Names /\ dict[n].source \in BOOLEAN)
  /\ \A c \in connections : phase = "alive" /\ c.from[2] \in Held(c.from[1])

\* emit() with fewer arguments than the instance has parameters emits the clone for so
\* many arguments, if there is one behind the instance. (The number of parameters is
\* taken from commas, which is wrong for a clone without any; it never is behind another
\* overload because registerSignals() sorts.)
EveryDefaultEmits ==
  \A m \in Names : \A i \in Held(m) : \A n \in 0 .. Len(dict[m].links[i].params) - 1 :
    (\E j \in i + 1 .. Len(dict[m].links) : dict[m].links[j].cloned /\ Len(dict[m].links[j].params) = n)
    => Len(dict[m].links[EmittedFrom(dict[m], i, n)].params) = n

\* However an instance came into the dict of the object, it is one of the Signal that the
\* class has under this name, and while the QObject lives the instance leads to it; if
\* each Signal object has one name and is used after the constructor.
LookupFindsItsSignal ==
  (~Early /\ \A c \in Mro, n \in Names : IsSignal(c, n) =>
      layout[c][n].home = <<c, n>> /\ layout[c][n].name = n)
  => \A n \in Names : dict[n] # NoChain /\ Found(n).kind = "signal" =>
       dict[n].home = Found(n).home /\ (phase = "alive" => dict[n].source)

\* A function is given as many arguments as it takes, if there is an overload for that;
\* and if the declared numbers of arguments are right (they are not for None and lists).
SlotsGetWhatTheyTake ==
  \A c \in connections : c.slot.kind \in {"function", "method"} =>
    LET links == dict[c.from[1]].links
        range == ArgMin(c.slot) .. ArgMax(c.slot) IN
    (/\ \A k \in 1 .. Len(links) : links[k].argCount = Len(links[k].params)
     /\ \E k \in c.from[2] .. Len(links) : Len(links[k].params) \in range)
    => Delivered(c.params, c.slot) \in range

\* The overload that is taken fits the arguments of a call and the parameters of a slot.
OverloadsFit == EveryDefaultEmits /\ SlotsGetWhatTheyTake

\* disconnect() with the same callable on the instance that was used for connect() cuts
\* the connection; for signals, if the two instances fit (connect() looks further along
\* the chains, disconnect() does not).
DisconnectFindsIt ==
  \A c \in connections :
    LET n == c.from[1]
        i == c.from[2] IN
    IF c.to = <<>> THEN c \in ConnectionsTo(dict[n], SlotToCut(dict[n], i, c.slot), c.slot)
    ELSE checkConnectArgs(dict[n].links[i], dict[c.to[1]].links[c.to[2]]) =>
           /\ c \in ConnectionsTo(dict[n], i, c.slot)
           /\ c.slot.params = dict[c.to[1]].links[c.to[2]].params

\* What obj.n(...) calls: the class with the method.
Called(n) ==
  IF dict[n] # NoChain THEN getHomonymousMethod(dict[n])
  ELSE IF Found(n).kind = "signal" THEN getHomonymousMethod(instanceInitialize(Found(n), TRUE))
  ELSE IF Found(n).kind = "method" THEN Lookup(n) ELSE "none"

\* A signal that comes into the dict of an object does not change which method a call
\* reaches; unless the Signal keeps a method that the Python class overrides, or has
\* another name than the attribute and may be used before the constructor.
CallsReachTheirMethod ==
  [][\A n \in Names :
       /\ ~ (layout["Sub"][n].kind = "method" /\ IsSignal("Base", n) /\ layout["Base"][n].method)
       /\ Early /\ Found(n).kind = "signal" => Found(n).name = n
       => Called(n)' = Called(n)]_dict
=============================================================================
