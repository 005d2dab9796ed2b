---------------------------- MODULE Interpreter ----------------------------
(***************************************************************************)
(* What the Python interpreter shares between threads: the GIL.            *)
(***************************************************************************)
EXTENDS Naturals

CONSTANTS
  Threads,
  NoThread

ASSUME ThreadAssumption == NoThread \notin Threads

VARIABLE gil    \* the thread that has it, or NoThread

=============================================================================
