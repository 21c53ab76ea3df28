------------------------------ MODULE RingSpec -------------------------------
(***************************************************************************)
(* What the ring queue library promises, whatever its representation:      *)
(* each node is on at most one ring, at one place of it; inserting a node  *)
(* moves the nodes behind it back by one place and removing it closes the  *)
(* gap, and nothing else changes.                                          *)
(***************************************************************************)
EXTENDS Naturals, FiniteSets

CONSTANTS
  Head,         \* the ring heads: timer_ring, ready_for_execution, ...
  Member,       \* the nodes that are put on rings
  NoRing        \* the ring of a node that is on none

Node == Head \cup Member

ASSUME MemberAssumption == IsFiniteSet(Member) /\ Head \cap Member = {}
ASSUME NoRingAssumption == NoRing \notin Head

VARIABLES
  ring,         \* the ring each node is on
  pos           \* its place on that ring, counted from the head at 0

On(h) == {m \in Member : ring[m] = h}

Length(h) == Cardinality(On(h))

PromiseInit ==
  /\ ring = [n \in Node |-> IF n \in Head THEN n ELSE NoRing]
  /\ pos = [n \in Node |-> 0]

(* What inserting node i at place p of ring h does to the places. *)
Inserted(i, h, p) ==
  /\ ring' = [ring EXCEPT ![i] = h]
  /\ pos' = [n \in Node |-> IF n = i THEN p
                            ELSE IF n \in On(h) /\ pos[n] >= p THEN pos[n] + 1
                            ELSE pos[n]]

PromiseInsert(i, h, p) ==
  /\ ring[i] = NoRing
  /\ p \in 1 .. Length(h) + 1
  /\ Inserted(i, h, p)

(* What taking node i off its ring does to the places. *)
Removed(i) ==
  /\ ring' = [ring EXCEPT ![i] = NoRing]
  /\ pos' = [n \in Node |-> IF n = i THEN 0
                            ELSE IF n \in On(ring[i]) /\ pos[n] > pos[i]
                                 THEN pos[n] - 1
                            ELSE pos[n]]

PromiseRemove(i) == ring[i] # NoRing /\ Removed(i)

PromiseNext ==
  \E i \in Member :
    \/ \E h \in Head : \E p \in 1 .. Length(h) + 1 : PromiseInsert(i, h, p)
    \/ PromiseRemove(i)

Promise == PromiseInit /\ [][PromiseNext]_<<ring, pos>>
=============================================================================
