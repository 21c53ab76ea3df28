----------------------------- MODULE UdbfsList -----------------------------
(***************************************************************************)
(* The chained list of opened inodes of a mount (toolchain/udbfslib/link.c *)
(* and unlink.c) as pure operators on the record                           *)
(*    [root, next, prev, live, state]                                      *)
(* live is the set of nodes that are allocated; reading or writing a node  *)
(* that was freed is undefined behaviour and puts the list in the state    *)
(* "wild", of which nothing more is said.                                  *)
(***************************************************************************)
EXTENDS Integers, FiniteSets

CONSTANTS Handle,   \* the memory inodes malloc can return
          NULL

ASSUME HandleAssumption == IsFiniteSet(Handle) /\ NULL \notin Handle

EmptyList == [root |-> NULL, live |-> {}, state |-> "sound",
              next |-> [n \in Handle |-> NULL], prev |-> [n \in Handle |-> NULL]]

Wild(l) == [l EXCEPT !.state = "wild"]

\* udbfslib_link of a node fresh from malloc, both links NULL.
link(l, n) ==
    IF l.root # NULL /\ l.root \notin l.live
    THEN Wild(l)
    ELSE [l EXCEPT !.root = n,
                   !.live = @ \cup {n},
                   !.next[n] = l.root,
                   !.prev = [m \in Handle |-> IF m = n THEN NULL
                                              ELSE IF m = l.root THEN n
                                              ELSE @[m]]]

\* Unlinking the first node: the new first node keeps its previous link.
UnlinkFirst(l, n) ==
    IF l.root # n THEN l
    ELSE [l EXCEPT !.root = l.next[n], !.next[n] = NULL]

\* Unlinking any other node.  The node's own previous link is overwritten where
\* the previous node's next link is meant, so the previous node keeps pointing
\* at the node.
UnlinkInner(l, n) ==
    LET after == l.next[n]
        moved == [l EXCEPT !.prev[n] = after]
    IN  IF l.prev[n] \notin l.live THEN Wild(l)
        ELSE IF l.next[l.prev[n]] # n THEN l
        ELSE IF after = NULL THEN [moved EXCEPT !.prev[n] = NULL]
        ELSE IF after \notin l.live THEN Wild(l)
        ELSE IF l.prev[after] # n THEN moved
        ELSE [moved EXCEPT !.prev[after] = after, !.next[n] = NULL, !.prev[n] = NULL]

\* Fault: the list root is left on the removed node.
unlinkKeepsRoot(l, n) == [l EXCEPT !.next[n] = NULL]

\* udbfslib_unlink; every return that finds the list out of sync only prints.
unlink(l, n) == IF l.prev[n] = NULL THEN UnlinkFirst(l, n) ELSE UnlinkInner(l, n)

\* The nodes a walk along the list meets, up to the first that was freed.
Walked(l) ==
    LET reach[k \in 0 .. Cardinality(Handle)] ==
          IF k = 0 THEN {l.root} \ {NULL}
          ELSE reach[k - 1] \cup ({l.next[n] : n \in reach[k - 1] \cap l.live} \ {NULL})
    IN  reach[Cardinality(Handle)]

\* free() of a node.
FreeNode(l, n) == [l EXCEPT !.live = @ \ {n}]
=============================================================================
