-------------------------- MODULE ConnectionRegistry --------------------------
(***************************************************************************)
(* What a user of signals and slots may rely on: a link joins a living     *)
(* sender to a living receiver, it exists until somebody removes it or one *)
(* of its ends dies, and a death removes the links of the dead and no      *)
(* others.  The three purposes of connectionHash named in dynamicslot.cpp  *)
(* amount to this.                                                         *)
(***************************************************************************)
CONSTANTS
  Ends,           \* objects that can be linked
  Ids,            \* identities of links
  NoLink

VARIABLES
  up,             \* the ends that live
  links           \* the links that exist

Link == [from : Ends, to : Ends]

Init ==
  /\ up \in SUBSET Ends
  /\ links = [i \in Ids |-> NoLink]

Exists(i) == links[i] # NoLink

Remove(is) == links' = [i \in Ids |-> IF i \in is THEN NoLink ELSE links[i]]

Appear(e) ==
  /\ e \notin up
  /\ up' = up \cup {e}
  /\ UNCHANGED links

Connect(i, l) ==
  /\ ~Exists(i)
  /\ {l.from, l.to} \subseteq up
  /\ links' = [links EXCEPT ![i] = l]
  /\ UNCHANGED up

\* Somebody removes links of one sender.
Disconnect(e, is) ==
  /\ \A i \in is : Exists(i) /\ links[i].from = e
  /\ Remove(is)
  /\ UNCHANGED up

\* The links of the dead, and only those, go with them.
Die(e) ==
  /\ e \in up
  /\ up' = up \ {e}
  /\ Remove({i \in Ids : Exists(i) /\ e \in {links[i].from, links[i].to}})

Next ==
  \/ \E e \in Ends : Appear(e) \/ Die(e)
  \/ \E i \in Ids, l \in Link : Connect(i, l)
  \/ \E e \in Ends, is \in SUBSET Ids : Disconnect(e, is)

Spec == Init /\ [][Next]_<<up, links>>

=============================================================================
