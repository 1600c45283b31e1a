---------------------------- MODULE MCReplication ----------------------------
(* Replication with values for its constants: see the .cfg files. *)
EXTENDS Replication, TLC

Symmetry == Permutations(Value)
=============================================================================
