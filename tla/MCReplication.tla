--------------------------- MODULE MCReplication ---------------------------
(***************************************************************************)
(* Replication for TLC: the nodes are interchangeable.                     *)
(***************************************************************************)
EXTENDS Replication, TLC

NodeSymmetry == Permutations(Node)
=============================================================================
