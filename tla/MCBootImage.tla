----------------------------- MODULE MCBootImage -----------------------------
(* Small instances of BootImage: programs of up to three sections that     *)
(* take several turns of a deflate loop with buffers of 4 and 3 bytes.     *)
EXTENDS BootImage

Section ==
  [type : {"progbits"}, addr : {0, 9, 18}, size : {1, 4, 8, 9}, zsize : {1, 3, 7}]
    \cup [type : {"nobits"}, addr : {5, 9, 18}, size : {0, 3, 4, 7}, zsize : {1}]
    \cup {[type |-> "other", addr |-> 0, size |-> 0, zsize |-> 1]}
SmallPrograms == UNION {[1 .. n -> Section] : n \in 1 .. 3}
Memory == 0 .. 31
=============================================================================
