-------------------------- MODULE MCTurkeyProtocol --------------------------
(* TurkeyProtocol with the clients, resources and pools given in the .cfg. *)
EXTENDS TurkeyProtocol
=============================================================================
