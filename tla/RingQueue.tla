------------------------------ MODULE RingQueue ------------------------------
(***************************************************************************)
(* Clients of the ring queue library: every sequence of calls to           *)
(* insert_before, insert_after, link_ordered_64 and remove, one call at a  *)
(* time.  link_ordered_64 loops; each turn of its loop is a step of its    *)
(* own, with the registers eax (the node), ebx (the ring), ecx (the member *)
(* being looked at) and edx (the one before it) as state.                  *)
(*                                                                         *)
(* Two history variables record what the calls promise: ring[n] is the     *)
(* ring on which node n was put and pos[n] its place on it, counted from   *)
(* the head.  They are updated the way RingSpec says and never guard a     *)
(* step of the code.                                                       *)
(***************************************************************************)
EXTENDS RingLinks, RingSpec

CONSTANTS
  Ordered,      \* the heads whose rings are filled by link_ordered_64 only
  Key           \* the 64 bit ordering values, records of words hi and lo

ASSUME OrderedAssumption == Ordered \subseteq Head
ASSUME KeyAssumption == Key \subseteq [hi : Nat, lo : Nat] /\ Key # {}

VARIABLES
  q,            \* the links of all nodes
  key,          \* the ordering value stored before each member's links
  walk,         \* the link_ordered_64 call in progress
  ret           \* the last call, its node and how it returned

vars == <<q, key, walk, ret, ring, pos>>

Idle == [pc |-> "idle"]

Walks == [pc : {"search"}, eax : Member, ebx : Ordered, ecx : Node, edx : Node]

Searching == walk.pc = "search"

NoCall == [out |-> "none"]

Rets == [op : {"insert_before", "insert_after", "link", "remove"},
         node : Member, out : {"running", "ok", "other"}]

Returned(op, i, out) == ret' = [op |-> op, node |-> i, out |-> out]

OnRing(n) == ring[n] # NoRing

Init ==
  /\ q = Alone(Node)
  /\ \E k \in Key : key = [m \in Member |-> k]
  /\ walk = Idle
  /\ ret = NoCall
  /\ PromiseInit

(* The caller may name as reference a head or a node that is on a ring; a  *)
(* ring that is kept in order is only filled by link_ordered_64.           *)
Reference(r) == OnRing(r) /\ ring[r] \notin Ordered

InsertBefore(i, r) ==
  /\ walk = Idle
  /\ Reference(r)
  /\ IF CanInsertBefore(q, i, r)
     THEN /\ q' = insert_before(q, i, r)
          /\ Inserted(i, ring[r], IF r \in Head THEN Length(r) + 1
                                                      ELSE pos[r])
          /\ Returned("insert_before", i, "ok")
     ELSE Returned("insert_before", i, "other") /\ UNCHANGED <<q, ring, pos>>
  /\ UNCHANGED <<key, walk>>

InsertAfter(i, r) ==
  /\ walk = Idle
  /\ Reference(r)
  /\ IF CanInsertAfter(q, i, r)
     THEN /\ q' = insert_after(q, i, r)
          /\ Inserted(i, ring[r], pos[r] + 1)
          /\ Returned("insert_after", i, "ok")
     ELSE Returned("insert_after", i, "other") /\ UNCHANGED <<q, ring, pos>>
  /\ UNCHANGED <<key, walk>>

(* Fault: the node and the ring are passed in each other's register. *)
LinkOrderedCallSwapped(i, h, k) ==
  /\ walk = Idle
  /\ LoopsBack(q, i)
  /\ key' = [key EXCEPT ![i] = k]
  /\ walk' = [pc |-> "search", eax |-> h, ebx |-> i, ecx |-> q.next[h], edx |-> h]
  /\ Returned("link", i, "running")
  /\ UNCHANGED <<q, ring, pos>>

(* The caller stores the ordering value, then calls; on a node that loops  *)
(* back the search starts at the first member of the ring.                 *)
LinkOrderedCall(i, h, k) ==
  /\ walk = Idle
  /\ IF LoopsBack(q, i)
     THEN /\ key' = [key EXCEPT ![i] = k]
          /\ walk' = [pc |-> "search", eax |-> i, ebx |-> h,
                      ecx |-> q.next[h], edx |-> h]
          /\ Returned("link", i, "running")
     ELSE Returned("link", i, "other") /\ UNCHANGED <<key, walk>>
  /\ UNCHANGED <<q, ring, pos>>

(* The head of the loop: the member looked at must point back. *)
PointsBack == q.prev[walk.ecx] = walk.edx

AtInsertionPoint ==
  walk.ecx # walk.ebx => StopsBefore(key[walk.eax], key[walk.ecx])

(* Fault: the loop remembers the member it passed but looks at it again. *)
LinkOrderedHopStays ==
  /\ walk' = [walk EXCEPT !.ecx = walk.ecx]
  /\ UNCHANGED <<q, ret, ring, pos>>

LinkOrderedHop ==
  /\ walk' = [walk EXCEPT !.edx = walk.ecx, !.ecx = q.next[walk.ecx]]
  /\ UNCHANGED <<q, ret, ring, pos>>

LinkOrderedInsert ==
  /\ q' = LinkBetween(q, walk.edx, walk.eax, walk.ecx)
  /\ Inserted(walk.eax, walk.ebx, pos[walk.edx] + 1)
  /\ walk' = Idle
  /\ Returned("link", walk.eax, "ok")

LinkOrderedFail ==
  /\ walk' = Idle
  /\ Returned("link", walk.eax, "other")
  /\ UNCHANGED <<q, ring, pos>>

LinkOrderedStep ==
  /\ Searching
  /\ IF ~PointsBack THEN LinkOrderedFail
     ELSE IF AtInsertionPoint THEN LinkOrderedInsert
     ELSE LinkOrderedHop
  /\ UNCHANGED key

Remove(i) ==
  /\ walk = Idle
  /\ IF CanRemove(q, i)
     THEN /\ q' = remove(q, i)
          /\ Removed(i)
          /\ Returned("remove", i, "ok")
     ELSE Returned("remove", i, "other") /\ UNCHANGED <<q, ring, pos>>
  /\ UNCHANGED <<key, walk>>

Next ==
  \/ \E i \in Member, r \in Node : InsertBefore(i, r) \/ InsertAfter(i, r)
  \/ \E i \in Member, h \in Ordered, k \in Key : LinkOrderedCall(i, h, k)
  \/ LinkOrderedStep
  \/ \E i \in Member : Remove(i)

Spec == Init /\ [][Next]_vars

(* The library runs on the caller's thread: its loop is never abandoned. *)
FairSpec == Spec /\ WF_vars(LinkOrderedStep)

-----------------------------------------------------------------------------
TypeOK ==
  /\ q \in [next : [Node -> Node], prev : [Node -> Node]]
  /\ key \in [Member -> Key]
  /\ walk \in Walks \cup {Idle}
  /\ ret \in Rets \cup {NoCall}
  /\ ring \in [Node -> Head \cup {NoRing}]
  /\ pos \in [Node -> Nat]

(* Between any two calls, and while a search is under way, the two links   *)
(* of every node are each other's inverse: following .next and then        *)
(* .previous comes back, for ring heads and members alike.                 *)
LinksInverse == \A n \in Node : q.prev[q.next[n]] = n /\ q.next[q.prev[n]] = n

(* The links lead from a head through exactly the nodes the calls have put *)
(* on its ring, in the order they promised, and from the last of them back *)
(* to the head; a member loops back exactly when it is on no ring.         *)
LinksFollowPlaces ==
  /\ \A m \in Member : ring[m] = NoRing <=> q.next[m] = m
  /\ \A n \in Node : OnRing(n) =>
       /\ ring[q.next[n]] = ring[n]
       /\ IF q.next[n] \in Head THEN pos[n] = Length(ring[n])
                               ELSE pos[q.next[n]] = pos[n] + 1

(* The 64 bit order of two ordering values. *)
AtMost(k, m) == k.hi < m.hi \/ (k.hi = m.hi /\ k.lo <= m.lo)

(* A ring filled by link_ordered_64 only is in order: no member is         *)
(* followed by one with a smaller 64 bit value ("Link a thread into a      *)
(* ordered ring list", ring.asm:154).                                      *)
OrderedRings ==
  \A m \in Member : ring[m] \in Ordered /\ q.next[m] \in Member =>
    AtMost(key[m], key[q.next[m]])

(* A call returns through "other" only if its node was already linked, or, *)
(* for remove, was not linked: the checks never reject a proper call.      *)
FailsOnlyOnMisuse ==
  [][ret'.out = "other" => (OnRing(ret'.node) <=> ret'.op # "remove")]_vars

(* The library keeps the promise of RingSpec: each call either inserts one *)
(* unlinked node at one place, or removes one linked node, or does nothing *)
(* to any ring.                                                            *)
KeepsPromise == Promise

(* A search for the insertion point comes to an end. *)
SearchEnds == Searching ~> ~Searching
=============================================================================
