---------------------------- MODULE MCReceiverSweep ----------------------------
(* Three receivers, the first with two connections, and eight buckets, half of which may *)
(* be used: all keys want the last, or no two the same.                                  *)
EXTENDS ReceiverSweep, TLC

CONSTANTS o1, o2, o3, k1, k2, k3, k4

ReceiverOfKey == (k1 :> o1) @@ (k2 :> o1) @@ (k3 :> o2) @@ (k4 :> o3)

SomeHomes == {[k \in Keys |-> Buckets - 1], (k1 :> 0) @@ (k2 :> 3) @@ (k3 :> 1) @@ (k4 :> 2)}
=============================================================================
