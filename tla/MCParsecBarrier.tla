-------------------------- MODULE MCParsecBarrier ---------------------------
(* ParsecBarrier with the threads and rounds given in the .cfg. *)
EXTENDS ParsecBarrier
=============================================================================
