------------------------------ MODULE MCIridia -------------------------------
(* Small instances of Iridia. *)
EXTENDS Iridia

(* Two lines of the master PIC beside the cascade, and one of the slave. *)
Lines == {2, 3, 4, 9}
=============================================================================
