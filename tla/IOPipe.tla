------------------------------- MODULE IOPipe -------------------------------
(***************************************************************************)
(* QIOPipe (PySide6/QtCore/glue/qiopipe.cpp): two devices, each of which   *)
(* reads what is written to the other. QIODevice, which is external, reads *)
(* ahead in chunks. Slots of the signals may read and write again.         *)
(***************************************************************************)
EXTENDS Naturals, FiniteSets, SequencesExt

CONSTANTS
  MaxBuffer,  \* that of an int in the code
  Chunk,      \* that QIODevice reads ahead
  MaxBytes,   \* bound: end -> bytes written to the other end by it
  MaxWrites,  \* bound: writes inside each other
  MaxOpens    \* bound: calls of open()

ASSUME PipeAssumption == {MaxBuffer, Chunk, MaxWrites, MaxOpens} \subseteq Nat /\ MaxBytes \in [{1, 2} -> Nat]

End == {1, 2}
Other(e) == 3 - e
Mode == {"read", "write", "both"}

VARIABLES
  opened,     \* calls of open()
  mode,       \* end -> how it is open; "closed" at first
  exists,     \* ends
  m_buffer,   \* end -> bytes that were written to the other
  ahead,      \* end -> those QIODevice has read ahead
  taken,      \* history: end -> those the program has read
  writes      \* calls of writeData() that run, the innermost last: [end, step]

pipeVars == <<opened, mode, exists, m_buffer, ahead, taken, writes>>

Readable(e) == mode[e] \in {"read", "both"}
Writable(e) == mode[e] \in {"write", "both"}

\* open() of the second end: "mode ^ QIODevice::ReadWrite" for one direction
Opposite(m) == CASE m = "read" -> "write" [] m = "write" -> "read" [] m = "both" -> "both"

\* QIODevice::open() forgets what was read ahead; m_buffer stays.
Open(m) ==
  /\ exists = End
  /\ opened < MaxOpens /\ opened' = opened + 1
  /\ mode' = <<m, Opposite(m)>>
  /\ ahead' = [e \in End |-> <<>>]
  /\ UNCHANGED <<exists, m_buffer, taken, writes>>

\* The bytes the program writes are numbered.
Written(e) == Len(taken[Other(e)]) + Len(ahead[Other(e)]) + Len(m_buffer[Other(e)])
NextBytes(e, n) == [i \in 1..n |-> (Written(e) + i) % 3]

Smaller(a, b) == IF a < b THEN a ELSE b

\* writeData(): no more than the other buffer has room for
Accepted(e, len) == Smaller(len, MaxBuffer - Len(m_buffer[Other(e)]))

\* Nothing is written if the other end is gone (-1), or has no room (0): no signal.
Write(e, len) ==
  /\ Writable(e) /\ e \in exists /\ Other(e) \in exists
  /\ Len(writes) < MaxWrites /\ Written(e) + len <= MaxBytes[e]
  /\ LET n == Accepted(e, len) IN
       /\ n > 0
       /\ m_buffer' = [m_buffer EXCEPT ![Other(e)] = @ \o NextBytes(e, n)]
  /\ writes' = Append(writes, [end |-> e, step |-> "bytesWritten"])
  /\ UNCHANGED <<opened, mode, exists, ahead, taken>>

\* The slots of bytesWritten() have run; those of readyRead() of the other end run.
ReadyRead ==
  /\ writes # <<>> /\ Last(writes).step = "bytesWritten"
  /\ writes' = [writes EXCEPT ![Len(writes)].step = "readyRead"]
  /\ UNCHANGED <<opened, mode, exists, m_buffer, ahead, taken>>

WriteReturns ==
  /\ writes # <<>> /\ Last(writes).step = "readyRead"
  /\ writes' = Front(writes)
  /\ UNCHANGED <<opened, mode, exists, m_buffer, ahead, taken>>

\* Mutation of ReadData: one byte too many goes.
ReadDataTooMuch(e, maxlen) ==
  [got |-> SubSeq(m_buffer[e], 1, Smaller(maxlen, Len(m_buffer[e]))),
   left |-> SubSeq(m_buffer[e], Smaller(maxlen, Len(m_buffer[e])) + 2, Len(m_buffer[e]))]

\* readData()
ReadData(e, maxlen) ==
  [got |-> SubSeq(m_buffer[e], 1, Smaller(maxlen, Len(m_buffer[e]))),
   left |-> SubSeq(m_buffer[e], Smaller(maxlen, Len(m_buffer[e])) + 1, Len(m_buffer[e]))]

\* QIODevice::read(): what was read ahead first, then a chunk from readData()
Read(e, len) ==
  /\ Readable(e) /\ e \in exists
  /\ LET more == IF Len(ahead[e]) >= len THEN [got |-> <<>>, left |-> m_buffer[e]]
                 ELSE ReadData(e, IF len - Len(ahead[e]) > Chunk THEN len - Len(ahead[e]) ELSE Chunk)
         all == ahead[e] \o more.got
         n == Smaller(len, Len(all))
     IN  /\ n > 0
         /\ m_buffer' = [m_buffer EXCEPT ![e] = more.left]
         /\ taken' = [taken EXCEPT ![e] = @ \o SubSeq(all, 1, n)]
         /\ ahead' = [ahead EXCEPT ![e] = SubSeq(all, n + 1, Len(all))]
  /\ UNCHANGED <<opened, mode, exists, writes>>

\* ~QIOPipePrivate(): the second end first; slots of destroyed() may still use the first.
\* (A program that deletes the pipe in a slot of its signals deletes the writing end.)
DestroyEnd(e) ==
  /\ writes = <<>>
  /\ e \in exists /\ (e = 1 => exists = {1})
  /\ exists' = exists \ {e}
  /\ UNCHANGED <<opened, mode, m_buffer, ahead, taken, writes>>

PipeInit ==
  /\ opened = 0 /\ mode = [e \in End |-> "closed"]
  /\ exists = End
  /\ m_buffer = [e \in End |-> <<>>] /\ ahead = [e \in End |-> <<>>] /\ taken = [e \in End |-> <<>>]
  /\ writes = <<>>

PipeNext ==
  \/ \E m \in Mode : Open(m)
  \/ \E e \in End, len \in 1..2 : Write(e, len) \/ Read(e, len)
  \/ ReadyRead \/ WriteReturns
  \/ \E e \in End : DestroyEnd(e)

\* Slots return, and emissions go on.
PipeFairness == WF_pipeVars(ReadyRead) /\ WF_pipeVars(WriteReturns)

PipeSpec == PipeInit /\ [][PipeNext]_pipeVars /\ PipeFairness

-----------------------------------------------------------------------------
(* Properties *)

PipeTypeOK ==
  /\ opened \in 0..MaxOpens
  /\ mode \in [End -> Mode \cup {"closed"}] /\ exists \subseteq End
  /\ \A e \in End : Len(m_buffer[e]) <= MaxBuffer
  /\ Len(writes) <= MaxWrites

\* The ends of a pipe implement a FIFO with notification: the bytes written to one are read
\* at the other in order, each once, whatever slots read and write in the middle of a
\* write, however the device reads ahead, when the buffer is full; and readyRead() is
\* emitted after each. Opening the pipe again loses the bytes read ahead, and those only.
Queue == INSTANCE Fifo WITH
  Ends <- End, Bytes <- 0..2, MaxPut <- 2, opens <- opened,
  channel <- [e \in End |-> ahead[e] \o m_buffer[e]],
  received <- taken,
  due <- {Other(writes[i].end) : i \in {j \in 1..Len(writes) : writes[j].step = "bytesWritten"}}
PipeIsFifo == Queue!FifoSpec
=============================================================================
