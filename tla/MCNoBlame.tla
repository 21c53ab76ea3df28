------------------------------ MODULE MCNoBlame ------------------------------
(* A small instance of NoBlame: an address space of 32 bytes. *)
EXTENDS NoBlame
=============================================================================
