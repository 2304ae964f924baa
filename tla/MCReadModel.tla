---------------------------- MODULE MCReadModel ----------------------------
(* Values of the constants of ReadModel for TLC. *)
EXTENDS ReadModel, TLC

SameTasks == Permutations(Tasks)
=============================================================================
