----------------------------- MODULE MCObjects -----------------------------
(* For TLC: wrappers, meta calls, signals, sweeps of connectionHash, property objects,    *)
(* layouts and byte arrays. The parts share no state, so a behaviour is one of one part;  *)
(* the others rest, each in one of its initial states.                                    *)
EXTENDS WrapperLife, MetaCall, MCSignalInstance, Accessors, WidgetLayouts, ByteArrays,
  MCReceiverSweep

VARIABLE part

CONSTANTS f1, f2, p1, p2

\* One function refers to a property, one does not.
SomeReferences == f1 :> p1 @@ f2 :> Null

MCInit ==
  /\ part \in {"wrappers", "calls", "signals", "accessors", "layouts", "arrays", "sweeps"}
  /\ WrapperInit /\ MetaInit /\ SignalInit /\ AccessorInit /\ LayoutInit /\ ArrayInit /\ SweepInit
  /\ part # "wrappers" => habits = {} /\ home = [a \in Addresses |-> CHOOSE t \in Threads : TRUE]
  /\ part # "calls" => habit = {"drops", "unknownTypes"}
  /\ part # "signals" => layout = Dicts(CHOOSE l \in Layouts : TRUE)
  /\ part # "accessors" => ways = {}
  /\ part # "layouts" => manners = {"parents"}
  /\ part # "arrays" => usages = {} /\ array = <<>>
  /\ part # "sweeps" => hashed = CHOOSE h \in Homes : TRUE

MCNext ==
  \/ part = "wrappers" /\ WrapperNext /\ UNCHANGED <<part, metaVars, signalVars, accessorVars, layoutVars, arrayVars, sweepVars>>
  \/ part = "calls" /\ MetaNext /\ UNCHANGED <<part, wrapperVars, signalVars, accessorVars, layoutVars, arrayVars, sweepVars>>
  \/ part = "signals" /\ SignalNext /\ UNCHANGED <<part, wrapperVars, metaVars, accessorVars, layoutVars, arrayVars, sweepVars>>
  \/ part = "accessors" /\ AccessorNext /\ UNCHANGED <<part, wrapperVars, metaVars, signalVars, layoutVars, arrayVars, sweepVars>>
  \/ part = "layouts" /\ LayoutNext /\ UNCHANGED <<part, wrapperVars, metaVars, signalVars, accessorVars, arrayVars, sweepVars>>
  \/ /\ part = "arrays" /\ ArrayNext
     /\ UNCHANGED <<part, wrapperVars, metaVars, signalVars, accessorVars, layoutVars, sweepVars>>
  \/ /\ part = "sweeps" /\ SweepNext
     /\ UNCHANGED <<part, wrapperVars, metaVars, signalVars, accessorVars, layoutVars, arrayVars>>

MCSpec ==
  /\ MCInit
  /\ [][MCNext]_<<part, wrapperVars, metaVars, signalVars, accessorVars, layoutVars, arrayVars, sweepVars>>
  /\ SweepFairness

\* Wrappers, calls, signals, sweeps, property objects, layouts and arrays are
\* well-formed.
ObjectsTypeOK ==
  /\ WrapperTypeOK /\ MetaTypeOK /\ SignalTypeOK /\ AccessorTypeOK /\ LayoutTypeOK /\ ArrayTypeOK
  /\ SweepTypeOK
=============================================================================
