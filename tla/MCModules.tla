----------------------------- MODULE MCModules ------------------------------
(* For TLC: what single modules of Qt need - objects that QML creates, calls of a replica, *)
(* bytes in a pipe, and callables that Qt holds. The parts share no state, so a behaviour  *)
(* is one of one part; the others rest, each in one of its initial states.                 *)
EXTENDS QmlCreation, RemoteCalls, IOPipe, HeldCallables

VARIABLE part

Property(c, w, s) == [name |-> <<c, "x">>, writable |-> w, notifies |-> TRUE, size |-> s]
Push(c, of) == [name |-> <<c, "x">>, push |-> TRUE, of |-> of, count |-> 1, returns |-> FALSE, overridden |-> FALSE]
Plain(r, o) == [name |-> <<"lower", "m">>, push |-> FALSE, of |-> 0, count |-> 0, returns |-> r, overridden |-> o]

\* A property read only, with the push method of it; a POD; two properties, and one writable.
SomeReps == {
  [props |-> <<Property("lower", FALSE, 1)>>, methods |-> <<Plain(TRUE, TRUE), Push("upper", 1)>>],
  [props |-> <<Property("upper", TRUE, 2)>>, methods |-> <<Push("upper", 1), Plain(FALSE, FALSE)>>],
  [props |-> <<[Property("lower", TRUE, 1) EXCEPT !.name = <<"lower", "y">>], Property("lower", FALSE, 1)>>,
   methods |-> <<Push("upper", 2), Plain(TRUE, FALSE)>>]}

\* One end writes more than the other.
SomeBytes == <<4, 1>>

MCInit ==
  /\ part \in {"creation", "replica", "pipe", "callables"}
  /\ CreationInit /\ RemoteCallInit /\ PipeInit /\ HoldInit
  /\ part # "creation" => practices = CHOOSE p \in CreationPrograms : TRUE
  /\ part # "replica" => rep = CHOOSE r \in Reps : TRUE
  /\ part # "callables" => conduct = CHOOSE c \in HoldPrograms : TRUE

MCNext ==
  \/ part = "creation" /\ CreationNext /\ UNCHANGED <<part, remoteCallVars, pipeVars, holdVars>>
  \/ part = "replica" /\ RemoteCallNext /\ UNCHANGED <<part, creationVars, pipeVars, holdVars>>
  \/ part = "pipe" /\ PipeNext /\ UNCHANGED <<part, creationVars, remoteCallVars, holdVars>>
  \/ part = "callables" /\ HoldNext /\ UNCHANGED <<part, creationVars, remoteCallVars, pipeVars>>

\* CreationFairness, RemoteCallFairness and PipeFairness, each for its part
Creating(A) == part = "creation" /\ A
Calling(A) == part = "replica" /\ A

MCFairness ==
  /\ \A t \in Threads :
       /\ SF_creationVars(Creating(SetNext(t))) /\ SF_creationVars(Creating(AcquireGil(t) \/ Regain(t)))
       /\ SF_creationVars(Creating(Body(t))) /\ WF_creationVars(Creating(YieldGil(t)))
  /\ WF_remoteCallVars(Calling(Acquire \/ Connect))
  /\ WF_remoteCallVars(Calling(DeliverWrite \/ DeliverCall)) /\ WF_remoteCallVars(Calling(DeliverToReplica))
  /\ PipeFairness

MCSpec == MCInit /\ [][MCNext]_<<part, creationVars, remoteCallVars, pipeVars, holdVars>> /\ MCFairness
=============================================================================
