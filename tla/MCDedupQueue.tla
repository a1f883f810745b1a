---------------------------- MODULE MCDedupQueue ----------------------------
(* DedupQueue with the threads, sizes and batches given in the .cfg. *)
EXTENDS DedupQueue
=============================================================================
