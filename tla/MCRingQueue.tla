---------------------------- MODULE MCRingQueue ------------------------------
(* Small instances of RingQueue. *)
EXTENDS RingQueue

(* Ordering values that fit in the low word. *)
LowKeys == {[hi |-> 0, lo |-> l] : l \in 0 .. 2}
=============================================================================
