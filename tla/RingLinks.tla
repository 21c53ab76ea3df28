------------------------------ MODULE RingLinks ------------------------------
(***************************************************************************)
(* The ring queue library, src/uuu/lib/queue/ring.asm, as pure operators.  *)
(*                                                                         *)
(* A ring queue node holds two pointers.  The links of every node live in  *)
(* one memory, modelled by a record q of two functions, q.next and q.prev, *)
(* over the set of node addresses.  Each library call is split into the    *)
(* sanity checks that guard it (SANITY_CHECKS is defined at ring.asm:24)   *)
(* and the stores it performs when they succeed.                           *)
(***************************************************************************)
EXTENDS Naturals

(* "When that node is alone, or when the ring is empty, its left and right *)
(* neighboors are itself": def_ring_queue's initial contents.              *)
Alone(N) == [next |-> [n \in N |-> n], prev |-> [n \in N |-> n]]

(* The two loopback checks made on a node about to be linked. *)
LoopsBack(q, i) == q.next[i] = i /\ q.prev[i] = i

(* Fault: the store of the right neighbour's back link is missing. *)
LinkBetweenOneWay(q, a, i, b) ==
  [next |-> [q.next EXCEPT ![i] = b, ![a] = i], prev |-> [q.prev EXCEPT ![i] = a]]

(* The four stores that leave  a <-> i <-> b. *)
LinkBetween(q, a, i, b) ==
  [next |-> [q.next EXCEPT ![i] = b, ![a] = i],
   prev |-> [q.prev EXCEPT ![i] = a, ![b] = i]]

(* Fault: a node that is already linked is accepted. *)
CanInsertBeforeUnchecked(q, i, r) == q.next[q.prev[r]] = r

CanInsertBefore(q, i, r) == LoopsBack(q, i) /\ q.next[q.prev[r]] = r

insert_before(q, i, r) == LinkBetween(q, q.prev[r], i, r)

(* Fault: the neighbour's .next is compared in place of its .previous. *)
CanInsertAfterWrongLink(q, i, r) == LoopsBack(q, i) /\ q.next[q.next[r]] = r

CanInsertAfter(q, i, r) == LoopsBack(q, i) /\ q.prev[q.next[r]] = r

insert_after(q, i, r) == LinkBetween(q, r, i, q.next[r])

(* Both neighbours must point at i, and i must have a neighbour. *)
CanRemove(q, i) ==
  /\ q.prev[q.next[i]] = i
  /\ q.next[q.prev[i]] = i
  /\ q.next[i] # i

(* Fault: the removed node keeps its links, as without SANITY_CHECKS. *)
removeKeepsLinks(q, i) ==
  [next |-> [q.next EXCEPT ![q.prev[i]] = q.next[i]],
   prev |-> [q.prev EXCEPT ![q.next[i]] = q.prev[i]]]

(* Close the ring around i, then loop i back on itself. *)
remove(q, i) ==
  [next |-> [q.next EXCEPT ![q.prev[i]] = q.next[i], ![i] = i],
   prev |-> [q.prev EXCEPT ![q.next[i]] = q.prev[i], ![i] = i]]

(* Fault: jae in place of jbe on the low words. *)
StopsBeforeDescending(k, m) == k.hi < m.hi \/ k.lo >= m.lo

(* link_ordered_64 orders by a 64 bit value kept as two 32 bit words; the  *)
(* search stops in front of the first member for which this comparison,    *)
(* jb on the high words and then jbe on the low words, succeeds.           *)
StopsBefore(k, m) == k.hi < m.hi \/ k.lo <= m.lo
=============================================================================
