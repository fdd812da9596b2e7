---------------------------- MODULE MCMigration ----------------------------
(* Small instances of Migration for TLC. *)
EXTENDS Migration, TLC

CONSTANTS n1, n2, n3, u1, u2

(* Nodes are compared for equality only. *)
Interchangeable == Permutations(Node)
=============================================================================
