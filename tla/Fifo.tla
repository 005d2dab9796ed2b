-------------------------------- MODULE Fifo --------------------------------
(***************************************************************************)
(* What a pipe promises to those at its ends: bytes arrive in the order in *)
(* which they were written, each once, and the reader is told of them.     *)
(* Opening the pipe again may lose bytes that were not taken yet, the      *)
(* oldest first.                                                           *)
(***************************************************************************)
EXTENDS Naturals, Sequences

CONSTANTS
  Ends,   \* each is a reader of what the other writes
  Bytes,  \* that are written
  MaxPut  \* bound: bytes written at once

VARIABLES
  channel,    \* end -> bytes on their way to it
  received,   \* end -> bytes it has taken
  due,        \* ends that have not been told yet of some bytes
  opens       \* how often the pipe was opened

fifoVars == <<channel, received, due, opens>>

FifoInit ==
  /\ channel = [e \in Ends |-> <<>>]
  /\ received = [e \in Ends |-> <<>>]
  /\ due = {} /\ opens = 0

Put(e) ==
  /\ \E n \in 1..MaxPut : \E s \in [1..n -> Bytes] : channel' = [channel EXCEPT ![e] = @ \o s]
  /\ due' = due \cup {e}
  /\ UNCHANGED <<received, opens>>

Take(e) ==
  /\ \E n \in 1..Len(channel[e]) :
       /\ channel' = [channel EXCEPT ![e] = SubSeq(@, n + 1, Len(@))]
       /\ received' = [received EXCEPT ![e] = @ \o SubSeq(channel[e], 1, n)]
  /\ UNCHANGED <<due, opens>>

Tell(e) ==
  /\ e \in due
  /\ due' = due \ {e}
  /\ UNCHANGED <<channel, received, opens>>

Open ==
  /\ opens' = opens + 1
  /\ \A e \in Ends : \E n \in 0..Len(channel[e]) : channel'[e] = SubSeq(channel[e], n + 1, Len(channel[e]))
  /\ DOMAIN channel' = Ends
  /\ UNCHANGED <<received, due>>

FifoNext == Open \/ \E e \in Ends : Put(e) \/ Take(e) \/ Tell(e)

FifoSpec == FifoInit /\ [][FifoNext]_fifoVars /\ \A e \in Ends : WF_fifoVars(Tell(e))
=============================================================================
