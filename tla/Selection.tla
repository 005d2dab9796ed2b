------------------------------ MODULE Selection ------------------------------
(***************************************************************************)
(* Parts and totals of sequences: SelectSeq and a sum, written as          *)
(* recursive functions, which the prover can unfold.                       *)
(***************************************************************************)
EXTENDS Naturals, Sequences

\* The elements of a sequence that are in a set, in their order.
Chosen(seq, S) ==
  LET chosen[i \in 0 .. Len(seq)] ==
        IF i = 0 THEN <<>>
        ELSE IF seq[i] \in S THEN Append(chosen[i - 1], seq[i]) ELSE chosen[i - 1]
  IN chosen[Len(seq)]

\* The sum of a sequence of numbers.
Total(seq) ==
  LET upTo[i \in 0 .. Len(seq)] == IF i = 0 THEN 0 ELSE upTo[i - 1] + seq[i]
  IN upTo[Len(seq)]
=============================================================================
