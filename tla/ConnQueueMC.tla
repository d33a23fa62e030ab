---------------------------- MODULE ConnQueueMC ----------------------------
(* An instance of ConnQueue for TLC. *)
EXTENDS ConnQueue

CONSTANTS n1, n2, n3, n4, n5

FiveNodes == {n1, n2, n3, n4, n5}
=============================================================================
