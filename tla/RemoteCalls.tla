---------------------------- MODULE RemoteCalls ----------------------------
(***************************************************************************)
(* A source and its replica (libpysideremoteobjects: pysidedynamicclass.cpp, *)
(* pysidedynamicpod.cpp, pysidecapsulemethod.cpp, pysidedynamiccommon.cpp). *)
(*                                                                         *)
(* Both have types made from the same .rep file. A property or a method of *)
(* the replica is a descriptor whose handler converts what it is given and *)
(* sends the index in the meta object; nothing changes but in the source,  *)
(* which notifies the replica of it. QtRemoteObjects, which is external,   *)
(* carries packets in order both ways, and loses those on their way when   *)
(* the connection is lost; a new connection begins with all values.        *)
(***************************************************************************)
EXTENDS Naturals, FiniteSets, SequencesExt

CONSTANTS
  Reps,             \* .rep files looked at
  Items,            \* values of the items of a property
  MaxRequests,      \* bound: what the programs ask for
  MaxConnections    \* bound: connections

\* A property: its name, written as a sequence of the first letter and the rest; how many
\* items it has, one unless it is a POD; whether it can be written by the replica, is
\* notified. A method: its name, and for one that repc makes of a property the property's
\* number; how many arguments; whether it returns something; whether the program overrides it.
RepProperty == [name : STRING \X STRING, writable : BOOLEAN, notifies : BOOLEAN, size : Nat \ {0}]
RepMethod(properties) == [name : STRING \X STRING, push : BOOLEAN, of : 0..properties, count : Nat,
                          returns : BOOLEAN, overridden : BOOLEAN]

\* repc makes pushX of a property x or X; a .rep with both is not looked at: pushX sets X.
Pushes(r, m) ==
  /\ m.of # 0 => m.push /\ m.count = 1
  /\ m.push => \A p \in 1..Len(r.props) :
                 (r.props[p].name \in {m.name, <<"lower", m.name[2]>>}) <=> (p = m.of)

ASSUME RemoteCallAssumption ==
  /\ MaxRequests \in Nat /\ MaxConnections \in Nat /\ Items # {}
  /\ \A r \in Reps :
       /\ r.props \in Seq(RepProperty)
       /\ r.methods \in Seq(RepMethod(Len(r.props)))
       /\ \A m \in ToSet(r.methods) : Pushes(r, m)

VARIABLES
  rep,            \* it does not change
  requests,       \* how many there were
  connections,    \* how many there were
  connected,
  source,         \* values of the properties
  replica,        \* what the replica has of them
  acquired,       \* it exists
  toSource,       \* packets
  toReplica,
  awaited,        \* calls that wait for a reply, by number
  strayed         \* history: requests that reached another property or method

remoteCallVars == <<rep, requests, connections, connected, source, replica, acquired, toSource, toReplica, awaited, strayed>>

Props == 1..Len(rep.props)
Methods == 1..Len(rep.methods)

\* Conversion to the type of the property. An item is given as itself, or as what can be
\* converted to it, or as something else.
Given == {<<"like", v>> : v \in Items} \cup {<<"other", CHOOSE v \in Items : TRUE>>}
Error == <<>>

\* PodDefs::tp_new(): the number of arguments, then each is taken or converted. A property
\* that is no POD has one item, which its converter takes.
Converted(given, p) ==
  IF Len(given) # rep.props[p].size \/ \E i \in 1..Len(given) : given[i][1] = "other" THEN Error
  ELSE [i \in 1..Len(given) |-> given[i][2]]

\* generateProperties(): the values a type begins with, the first for each item
Default == [p \in Props |-> [i \in 1..rep.props[p].size |-> CHOOSE v \in Items : TRUE]]

-----------------------------------------------------------------------------
(* Indexes *)

\* createDynamicClassImpl(): what a meta object has below the properties and the methods
\* of the type; methods come after the signals.
Below(side) == IF side = "source" THEN 1 ELSE 3
Signals == Cardinality({p \in Props : rep.props[p].notifies})
PropertyIndex(side, p) == Below(side) + p
MethodIndex(side, m) == Below(side) + Signals + m

\* send(): the index less what the replica's class has below; the source adds its own.
Sent(index) == (index - Below("replica")) + Below("source")

PropertyAt(index) == index - Below("source")
MethodAt(index) == index - Below("source") - Signals

\* The name after "push": as it is, or with a lower case first letter
Lowered(name) == <<"lower", name[2]>>
Named(name) == SelectInSeq(rep.props, LAMBDA p : p.name = name)
PushedBy(m) ==
  LET name == rep.methods[m].name IN
  IF rep.methods[m].push THEN IF Named(name) # 0 THEN Named(name) ELSE Named(Lowered(name)) ELSE 0

-----------------------------------------------------------------------------
(* The source *)

\* The packet of a changed property, if that is notified and someone listens.
Change(p, value) ==
  IF connected /\ rep.props[p].notifies THEN <<[kind |-> "change", prop |-> p, value |-> value]>> ELSE <<>>

\* capsule_method_handler() of a source with one argument; an error changes nothing. What
\* the packets are followed by is given.
SetSource(p, value, then) ==
  IF value \in {Error, source[p]} THEN UNCHANGED source /\ toReplica' = toReplica \o then
  ELSE /\ source' = [source EXCEPT ![p] = value]
       /\ toReplica' = toReplica \o Change(p, value) \o then

Asked == /\ requests < MaxRequests /\ requests' = requests + 1

\* source.p = value
SourceSets(p, given) ==
  /\ Asked
  /\ SetSource(p, Converted(given, p), <<>>)
  /\ UNCHANGED <<rep, connections, connected, replica, acquired, toSource, awaited, strayed>>

-----------------------------------------------------------------------------
(* The replica *)

\* ReplicaDefs::tp_init(): the node gets to know the replica, then it has the defaults.
Acquire ==
  /\ ~acquired
  /\ acquired' = TRUE
  /\ replica' = Default
  /\ UNCHANGED <<rep, requests, connections, connected, source, toSource, toReplica, awaited, strayed>>

\* Without connection nothing is sent.
Send(packet) == toSource' = IF connected THEN Append(toSource, packet) ELSE toSource

\* Mutation of ShownAfterWrite: the replica has the value at once.
ShownAtOnce(p, value) == [replica EXCEPT ![p] = value]

ShownAfterWrite(p, value) == replica

\* replica.p = value: CapsuleProperty_descr_set(), capsule_method_handler()
ReplicaWrites(p, given) ==
  /\ Asked /\ acquired /\ rep.props[p].writable
  /\ LET value == Converted(given, p) IN
     IF value = Error THEN UNCHANGED <<replica, toSource>>
     ELSE /\ replica' = ShownAfterWrite(p, value)
          /\ Send([kind |-> "write", index |-> Sent(PropertyIndex("replica", p)), value |-> value,
                   meant |-> p, call |-> 0])
  /\ UNCHANGED <<rep, connections, connected, source, acquired, toReplica, awaited, strayed>>

\* replica.method(...): CapsuleMethod_descr_get(), capsule_method_handler(). The arguments
\* are counted and sent as they are, of whatever type. A method that returns something is
\* sent with a number, for the reply.
ReplicaCalls(m, args) ==
  /\ Asked /\ acquired
  /\ LET method == rep.methods[m] IN
     IF Len(args) # method.count
         THEN UNCHANGED <<toSource, awaited>>
         ELSE /\ Send([kind |-> "invoke", index |-> Sent(MethodIndex("replica", m)),
                       value |-> IF method.of = 0 THEN <<>> ELSE args[1],
                       meant |-> m, call |-> IF method.returns THEN requests' ELSE 0])
              /\ awaited' = IF method.returns /\ connected THEN awaited \cup {requests'} ELSE awaited
  /\ UNCHANGED <<rep, connections, connected, source, replica, acquired, toReplica, strayed>>

-----------------------------------------------------------------------------
(* Packets *)

\* The node of the replica asks for the source: all values are sent.
Connect ==
  /\ acquired /\ ~connected /\ connections < MaxConnections
  /\ connections' = connections + 1
  /\ connected' = TRUE
  /\ toReplica' = <<[kind |-> "init", values |-> source]>> /\ toSource' = <<>>
  /\ UNCHANGED <<rep, requests, source, replica, acquired, awaited, strayed>>

Disconnect ==
  /\ connected /\ connections < MaxConnections
  /\ connected' = FALSE
  /\ toReplica' = <<>> /\ toSource' = <<>> /\ awaited' = {}
  /\ UNCHANGED <<rep, requests, connections, source, replica, acquired, strayed>>

\* Mutation of Reply: an error is not answered.
ReplyUnlessError(m, call) == IF call # 0 /\ rep.methods[m].overridden THEN <<[kind |-> "reply", call |-> call]>> ELSE <<>>

Reply(m, call) == IF call # 0 THEN <<[kind |-> "reply", call |-> call]>> ELSE <<>>

\* A property is written, as by the program of the source.
DeliverWrite ==
  /\ toSource # <<>> /\ Head(toSource).kind = "write"
  /\ LET packet == Head(toSource)  p == PropertyAt(packet.index) IN
       /\ strayed' = IF p = packet.meant THEN strayed ELSE strayed \cup {p}
       /\ p \in Props /\ SetSource(p, packet.value, <<>>)
  /\ toSource' = Tail(toSource)
  /\ UNCHANGED <<rep, requests, connections, connected, replica, acquired, awaited>>

\* A method is called: the override; or the handler, which sets the property that a push
\* method is named after, where the argument is converted; or raises NotImplementedError,
\* which is printed. The reply follows in each case.
DeliverCall ==
  /\ toSource # <<>> /\ Head(toSource).kind = "invoke"
  /\ LET packet == Head(toSource)  m == MethodAt(packet.index)  p == PushedBy(m) IN
       /\ strayed' = IF m = packet.meant /\ (rep.methods[m].overridden \/ p = rep.methods[m].of)
                     THEN strayed ELSE strayed \cup {m}
       /\ IF m \in Methods /\ ~rep.methods[m].overridden /\ p # 0
          THEN SetSource(p, Converted(packet.value, p), Reply(m, packet.call))
          ELSE UNCHANGED source /\ toReplica' = toReplica \o Reply(m, packet.call)
  /\ toSource' = Tail(toSource)
  /\ UNCHANGED <<rep, requests, connections, connected, replica, acquired, awaited>>

\* The replica's node takes values as they come.
DeliverToReplica ==
  /\ toReplica # <<>> /\ acquired
  /\ LET packet == Head(toReplica) IN
       /\ replica' = CASE packet.kind = "init" -> packet.values
                       [] packet.kind = "change" -> [replica EXCEPT ![packet.prop] = packet.value]
                       [] packet.kind = "reply" -> replica
       /\ awaited' = IF packet.kind = "reply" THEN awaited \ {packet.call} ELSE awaited
  /\ toReplica' = Tail(toReplica)
  /\ UNCHANGED <<rep, requests, connections, connected, source, acquired, toSource, strayed>>

RemoteCallInit ==
  /\ rep \in Reps
  /\ requests = 0 /\ connections = 0 /\ connected = FALSE
  /\ source = Default /\ replica = Default /\ acquired = FALSE
  /\ toSource = <<>> /\ toReplica = <<>> /\ awaited = {} /\ strayed = {}

GivenTo(p) == UNION {[1..n -> Given] : n \in {0, rep.props[p].size}}

RemoteCallNext ==
  \/ Acquire \/ Connect \/ Disconnect
  \/ \E p \in Props : \E given \in GivenTo(p) : SourceSets(p, given) \/ ReplicaWrites(p, given)
  \/ \E m \in Methods : \E n \in {0, rep.methods[m].count} :
       \E args \in [1..n -> IF rep.methods[m].of = 0 THEN {<<>>} ELSE GivenTo(rep.methods[m].of)] : ReplicaCalls(m, args)
  \/ DeliverWrite \/ DeliverCall \/ DeliverToReplica

\* The event loops of both sides run, and the replica is acquired: packets arrive.
RemoteCallFairness ==
  /\ WF_remoteCallVars(Acquire \/ Connect)
  /\ WF_remoteCallVars(DeliverWrite \/ DeliverCall) /\ WF_remoteCallVars(DeliverToReplica)

RemoteCallSpec == RemoteCallInit /\ [][RemoteCallNext]_remoteCallVars /\ RemoteCallFairness

-----------------------------------------------------------------------------
(* Properties *)

RemoteCallTypeOK ==
  /\ rep \in Reps
  /\ requests \in 0..MaxRequests /\ connections \in 0..MaxConnections
  /\ connected \in BOOLEAN /\ acquired \in BOOLEAN
  /\ \A p \in Props : {source[p], replica[p]} \subseteq [1..rep.props[p].size -> Items]
  /\ awaited \subseteq 1..MaxRequests

\* What the replica will have once all packets have come
Arriving(p) ==
  LET i == SelectLastInSeq(toReplica, LAMBDA k : k.kind = "init" \/ (k.kind = "change" /\ k.prop = p)) IN
  IF i = 0 THEN replica[p] ELSE IF toReplica[i].kind = "init" THEN toReplica[i].values[p] ELSE toReplica[i].value

\* While connected, the replica is behind the source by the packets on their way: it shows
\* no value but those the source had, and takes none for its own that the source refused or
\* never got. What it asked for reaches the property or the method it was asked of.
ReplicaFollowsSource ==
  /\ strayed = {}
  /\ connected => \A p \in Props : rep.props[p].notifies => Arriving(p) = source[p]

\* Once there is a replica, and when a connection lasts, the replica comes to have the values
\* of the source, and every call that returns something its reply.
ReplicaConverges ==
  /\ <>acquired => <>[](connected /\ \A p \in Props : rep.props[p].notifies => replica[p] = source[p])
  /\ <>[](awaited = {})
=============================================================================
