----------------------------- MODULE MCJobRunner -----------------------------
(* JobRunner with the tasks, pool sizes and processors given in the .cfg. *)
EXTENDS JobRunner
=============================================================================
