--------------------------- MODULE RingQueueProofs ---------------------------
(***************************************************************************)
(* Proofs about RingQueue, for any heads, any finite set of members and    *)
(* any keys.                                                               *)
(***************************************************************************)
EXTENDS RingQueue, FiniteSetTheorems, TLAPS

(* Heads are on their own ring at place 0; members are at places from 1 to *)
(* the ring's length, no two at the same one.                              *)
Places ==
  /\ \A h \in Head : ring[h] = h /\ pos[h] = 0
  /\ \A m \in Member : OnRing(m) => pos[m] \in 1 .. Length(ring[m])
  /\ \A m, n \in Node : OnRing(m) /\ ring[m] = ring[n] /\ pos[m] = pos[n] => m = n

(* A search stands between two neighbours of its ring and its node is on   *)
(* no ring; the call has not returned yet.                                 *)
SearchStands ==
  Searching => /\ ring[walk.eax] = NoRing
               /\ ring[walk.edx] = walk.ebx
               /\ walk.ecx = q.next[walk.edx]
               /\ ret.out = "running"

(* The inductive invariant. *)
RingInv ==
  /\ TypeOK
  /\ LinksInverse
  /\ LinksFollowPlaces
  /\ Places
  /\ SearchStands

-----------------------------------------------------------------------------
(* The length of a ring is a natural number, and inserting a node adds one *)
(* to the length of its ring and leaves the others alone.                  *)
LEMMA LengthNat ==
  ASSUME TypeOK, NEW h \in Head
  PROVE  IsFiniteSet(On(h)) /\ Length(h) \in Nat
<1>1. IsFiniteSet(On(h))
  BY MemberAssumption, FS_Subset DEF On
<1>2. QED
  BY <1>1, FS_CardinalityType DEF Length

(* A ring that gains a node is one longer. *)
LEMMA LengthInserted ==
  ASSUME TypeOK, NEW i \in Member, NEW h \in Head, NEW p \in Nat,
         ring[i] = NoRing, Inserted(i, h, p), NEW g \in Head
  PROVE  Length(g)' = IF g = h THEN Length(g) + 1
                                       ELSE Length(g)
<1>1. i \in Node /\ i \notin On(h)
  BY NoRingAssumption DEF Node, On
<1>2. CASE g = h
  <2>1. On(h)' = On(h) \cup {i}
    BY <1>1 DEF On, Inserted, TypeOK, Node
  <2>2. QED
    BY <1>1, <1>2, <2>1, LengthNat, FS_AddElement DEF Length
<1>3. CASE g # h
  <2>1. On(g)' = On(g)
    BY <1>1, <1>3, NoRingAssumption DEF On, Inserted, TypeOK, Node
  <2>2. QED
    BY <1>3, <2>1 DEF Length
<1>4. QED
  BY <1>2, <1>3

(* A ring that loses a node is one shorter. *)
LEMMA LengthRemoved ==
  ASSUME TypeOK, NEW i \in Member, ring[i] \in Head, Removed(i),
         NEW g \in Head
  PROVE  Length(g)' = IF g = ring[i] THEN Length(g) - 1
                                             ELSE Length(g)
<1>1. i \in Node /\ i \in On(ring[i])
  BY DEF Node, On
<1>2. CASE g = ring[i]
  <2>1. On(g)' = On(g) \ {i}
    BY <1>1, <1>2, NoRingAssumption DEF On, Removed, TypeOK, Node
  <2>2. QED
    BY <1>1, <1>2, <2>1, LengthNat, FS_RemoveElement DEF Length
<1>3. CASE g # ring[i]
  <2>1. On(g)' = On(g)
    BY <1>1, <1>3, NoRingAssumption DEF On, Removed, TypeOK, Node
  <2>2. QED
    BY <1>3, <2>1 DEF Length
<1>4. QED
  BY <1>2, <1>3

-----------------------------------------------------------------------------
(* The links and the history of a ring agree; the part of the invariant    *)
(* that does not mention a search.                                         *)
Agree == LinksInverse /\ LinksFollowPlaces /\ Places

(* Linking an unlinked node behind a node that is on a ring, and recording *)
(* it one place further, keeps links and history in agreement and is an    *)
(* insertion of RingSpec.                                                  *)
LEMMA LinkBehind ==
  ASSUME TypeOK, Agree, NEW a \in Node, NEW i \in Member,
         ring[a] # NoRing, ring[i] = NoRing,
         q' = LinkBetween(q, a, i, q.next[a]),
         Inserted(i, ring[a], pos[a] + 1)
  PROVE  /\ q' \in [next : [Node -> Node], prev : [Node -> Node]]
         /\ ring' \in [Node -> Head \cup {NoRing}]
         /\ pos' \in [Node -> Nat]
         /\ Agree'
         /\ PromiseNext
<1> DEFINE b == q.next[a]
           h == ring[a]
<1>1. /\ i \in Node /\ b \in Node /\ h \in Head
      /\ q.next[i] = i /\ q.prev[i] = i
      /\ a # i /\ b # i
      /\ q.prev[b] = a
      /\ ring[b] = h
  BY DEF TypeOK, Node, Agree, LinksInverse, LinksFollowPlaces, OnRing
<1>2. /\ q'.next = [q.next EXCEPT ![i] = b, ![a] = i]
      /\ q'.prev = [q.prev EXCEPT ![i] = a, ![b] = i]
  BY DEF LinkBetween
<1>3. q' \in [next : [Node -> Node], prev : [Node -> Node]]
  BY <1>1 DEF LinkBetween, TypeOK
<1>4. ring' = [ring EXCEPT ![i] = h] /\ ring' \in [Node -> Head \cup {NoRing}]
  BY <1>1 DEF Inserted, TypeOK
<1>5. /\ pos' \in [Node -> Nat]
      /\ pos'[i] = pos[a] + 1
      /\ \A n \in Node : n # i =>
           pos'[n] = IF n \in Member /\ ring[n] = h /\ pos[n] >= pos[a] + 1
                     THEN pos[n] + 1 ELSE pos[n]
  BY <1>1 DEF Inserted, TypeOK, On
<1>6. \A g \in Head : /\ Length(g) \in Nat
                      /\ Length(g)' = IF g = h THEN Length(g) + 1 ELSE Length(g)
  <2>1. pos[a] + 1 \in Nat
    BY DEF TypeOK
  <2>2. QED
    BY <1>1, <2>1, LengthNat, LengthInserted
<1>7. pos[a] + 1 \in 1 .. Length(h) + 1
  <2>1. CASE a \in Head
    BY <1>1, <1>6, <2>1 DEF Places, Agree, TypeOK
  <2>2. CASE a \in Member
    BY <1>6, <2>2 DEF Places, Agree, OnRing, TypeOK
  <2>3. QED
    BY <2>1, <2>2 DEF Node
<1>8. LinksInverse'
  BY <1>1, <1>2 DEF LinksInverse, Agree, TypeOK
<1>9. Places'
  <2>1. \A g \in Head : ring'[g] = g /\ pos'[g] = 0
    BY <1>1, <1>4, <1>5, MemberAssumption DEF Places, Agree, Node, TypeOK
  <2>3. ASSUME NEW m \in Member, ring'[m] # NoRing
        PROVE  pos'[m] \in 1 .. Length(ring[m])'
    <3>1. m \in Node /\ \A g \in Head : g = ring'[m] => Length(ring[m])' = Length(g)'
      BY DEF Node, Length, On
    <3>2. CASE m = i
      BY <1>1, <1>4, <1>5, <1>6, <1>7, <3>2 DEF TypeOK
    <3>3. CASE m # i
      <4>1. ring'[m] = ring[m] /\ ring[m] \in Head
        BY <1>4, <2>3, <3>1, <3>3 DEF TypeOK
      <4>2. pos[m] \in 1 .. Length(ring[m])
        BY <2>3, <4>1 DEF Places, Agree, OnRing
      <4>3. QED
        BY <1>5, <1>6, <3>1, <3>3, <4>1, <4>2 DEF TypeOK
    <3>4. QED
      BY <3>2, <3>3
  <2>4. ASSUME NEW m \in Node, NEW n \in Node,
               ring'[m] # NoRing, ring'[m] = ring'[n], pos'[m] = pos'[n]
        PROVE  m = n
    <3>1. \A x \in Node : ring[x] = h /\ x # i /\ x \notin Member => pos[x] = 0
      BY <1>1 DEF Places, Agree, Node
    <3>2. QED
      BY <1>1, <1>4, <1>5, <2>4, <3>1, SMTT(30) DEF Places, Agree, OnRing, TypeOK
  <2>5. QED
    BY <2>1, <2>3, <2>4 DEF Places, OnRing
<1>10. LinksFollowPlaces'
  <2>1. \A m \in Member : ring'[m] = NoRing <=> q'.next[m] = m
    BY <1>1, <1>2, <1>4, NoRingAssumption
       DEF LinksFollowPlaces, Agree, TypeOK, Node, OnRing
  <2>2. ASSUME NEW n \in Node, ring'[n] # NoRing
        PROVE  /\ ring'[q'.next[n]] = ring'[n]
               /\ IF q'.next[n] \in Head THEN pos'[n] = Length(ring[n])'
                                         ELSE pos'[q'.next[n]] = pos'[n] + 1
    <3>1. \A g \in Head : g = ring'[n] => Length(ring[n])' = Length(g)'
      BY DEF Length, On
    <3>2. i \notin Head
      BY MemberAssumption
    <3>3. CASE n = i
      <4>1. q'.next[n] = b /\ ring'[n] = h /\ ring'[b] = h
        BY <1>1, <1>2, <1>4, <3>3 DEF TypeOK
      <4>2. CASE b \in Head
        <5>1. pos[a] = Length(h)
          BY <1>1, <4>2 DEF LinksFollowPlaces, Agree, OnRing
        <5>2. QED
          BY <1>1, <1>5, <1>6, <3>1, <3>3, <4>1, <4>2, <5>1
      <4>3. CASE b \notin Head
        <5>1. pos[b] = pos[a] + 1 /\ b \in Member
          BY <1>1, <4>3 DEF LinksFollowPlaces, Agree, OnRing, Node
        <5>2. QED
          BY <1>1, <1>5, <3>3, <4>1, <4>3, <5>1 DEF TypeOK
      <4>4. QED
        BY <4>2, <4>3
    <3>4. CASE n = a
      BY <1>1, <1>2, <1>4, <1>5, <3>2, <3>4 DEF TypeOK
    <3>5. CASE n # i /\ n # a
      <4>1. /\ q'.next[n] = q.next[n] /\ q.next[n] # i /\ q.next[n] \in Node
            /\ ring'[n] = ring[n] /\ ring[n] \in Head
            /\ ring'[q.next[n]] = ring[n]
            /\ ring[q.next[n]] = ring[n]
        BY <1>1, <1>2, <1>4, <2>2, <3>5
           DEF TypeOK, Agree, LinksInverse, LinksFollowPlaces, OnRing
      <4>2. ring[n] = h => pos[n] # pos[a]
        BY <3>5, <4>1, NoRingAssumption DEF Places, Agree, OnRing
      <4>3. CASE q.next[n] \in Head
        <5>1. pos[n] = Length(ring[n])
          BY <4>1, <4>3, NoRingAssumption DEF LinksFollowPlaces, Agree, OnRing
        <5>2. pos[a] <= Length(h)
          BY <1>1, <1>6, <1>7 DEF TypeOK
        <5>3. ring[n] = h => n \in Member
          <6>1. ASSUME ring[n] = h, n \in Head
                PROVE  FALSE
            <7>1. pos[n] = 0 /\ Length(h) = 0
              BY <5>1, <6>1 DEF Places, Agree
            <7>2. pos[a] = 0
              BY <5>2, <6>1, <7>1 DEF TypeOK
            <7>3. QED
              BY <4>2, <6>1, <7>1, <7>2
          <6>2. QED
            BY <6>1 DEF Node
        <5>4. QED
          BY <1>5, <1>6, <3>1, <3>5, <4>1, <4>2, <4>3, <5>1, <5>2, <5>3 DEF TypeOK
      <4>4. CASE q.next[n] \notin Head
        <5>1. pos[q.next[n]] = pos[n] + 1 /\ q.next[n] \in Member
          BY <4>1, <4>4, NoRingAssumption DEF LinksFollowPlaces, Agree, OnRing, Node
        <5>2. ring[n] = h /\ n \notin Member => pos[n] = 0
          BY DEF Places, Agree, Node
        <5>3. pos[n] \in Nat /\ pos[a] \in Nat
          BY DEF TypeOK
        <5>4. QED
          BY <1>5, <3>5, <4>1, <4>2, <4>4, <5>1, <5>2, <5>3
      <4>5. QED
        BY <4>3, <4>4
    <3>6. QED
      BY <3>3, <3>4, <3>5
  <2>3. QED
    BY <2>1, <2>2 DEF LinksFollowPlaces, OnRing
<1>11. PromiseNext
  BY <1>1, <1>7 DEF PromiseNext, PromiseInsert
<1>12. QED
  BY <1>3, <1>4, <1>5, <1>8, <1>9, <1>10, <1>11 DEF Agree

(* Unlinking a member that is on a ring and closing the gap in its history *)
(* keeps links and history in agreement and is a removal of RingSpec.      *)
LEMMA Unlink ==
  ASSUME TypeOK, Agree, NEW i \in Member, ring[i] # NoRing,
         q' = remove(q, i), Removed(i)
  PROVE  /\ q' \in [next : [Node -> Node], prev : [Node -> Node]]
         /\ ring' \in [Node -> Head \cup {NoRing}]
         /\ pos' \in [Node -> Nat]
         /\ Agree'
         /\ PromiseNext
<1> DEFINE a == q.prev[i]
           b == q.next[i]
           h == ring[i]
<1>1. /\ i \in Node /\ a \in Node /\ b \in Node /\ h \in Head
      /\ q.next[a] = i /\ q.prev[b] = i /\ b # i /\ a # i
      /\ ring[b] = h
  BY DEF TypeOK, Node, Agree, LinksInverse, LinksFollowPlaces, OnRing
<1>2. ring[a] = h
  <2>1. ring[a] # NoRing
    BY <1>1, NoRingAssumption DEF Agree, LinksFollowPlaces, Places, Node
  <2>2. QED
    BY <1>1, <2>1 DEF Agree, LinksFollowPlaces, OnRing
<1>3. /\ q'.next = [q.next EXCEPT ![a] = b, ![i] = i]
      /\ q'.prev = [q.prev EXCEPT ![b] = a, ![i] = i]
      /\ q' \in [next : [Node -> Node], prev : [Node -> Node]]
  BY <1>1 DEF remove, TypeOK
<1>4. /\ ring' = [ring EXCEPT ![i] = NoRing]
      /\ ring' \in [Node -> Head \cup {NoRing}]
  BY <1>1 DEF Removed, TypeOK
<1>5. /\ pos'[i] = 0
      /\ \A n \in Node : n # i =>
           pos'[n] = IF n \in Member /\ ring[n] = h /\ pos[n] > pos[i]
                     THEN pos[n] - 1 ELSE pos[n]
      /\ pos' \in [Node -> Nat]
  BY <1>1 DEF Removed, TypeOK, On
<1>6. \A g \in Head : /\ Length(g) \in Nat
                      /\ Length(g)' = IF g = h THEN Length(g) - 1 ELSE Length(g)
  BY <1>1, LengthNat, LengthRemoved
<1>7. pos[i] \in 1 .. Length(h)
  BY DEF Agree, Places, OnRing
<1>8. LinksInverse'
  BY <1>1, <1>3 DEF LinksInverse, Agree, TypeOK
<1>9. Places'
  <2>1. \A g \in Head : ring'[g] = g /\ pos'[g] = 0
    BY <1>1, <1>4, <1>5, MemberAssumption DEF Places, Agree, Node, TypeOK
  <2>2. ASSUME NEW m \in Member, ring'[m] # NoRing
        PROVE  pos'[m] \in 1 .. Length(ring[m])'
    <3>1. /\ m \in Node /\ m # i
          /\ \A g \in Head : g = ring'[m] => Length(ring[m])' = Length(g)'
      BY <1>1, <1>4, <2>2, ZenonT(60) DEF Node, Length, On, TypeOK
    <3>2. ring'[m] = ring[m] /\ ring[m] \in Head
      BY <1>4, <2>2, <3>1 DEF TypeOK
    <3>3. pos[m] \in 1 .. Length(ring[m])
      BY <2>2, <3>2 DEF Places, Agree, OnRing
    <3>4. ring[m] = h => pos[m] # pos[i]
      BY <1>1, <3>1 DEF Places, Agree, OnRing
    <3>5. QED
      BY <1>5, <1>6, <1>7, <3>1, <3>2, <3>3, <3>4 DEF TypeOK
  <2>3. ASSUME NEW m \in Node, NEW n \in Node,
               ring'[m] # NoRing, ring'[m] = ring'[n], pos'[m] = pos'[n]
        PROVE  m = n
    <3>1. /\ m # i /\ n # i /\ ring[m] = ring[n] /\ ring[m] # NoRing
      BY <1>1, <1>4, <2>3 DEF TypeOK
    <3>2. \A x \in Node : ring[x] = h /\ x # i =>
            pos[x] # pos[i] /\ (x \notin Member => pos[x] = 0)
      BY <1>1 DEF Places, Agree, Node, OnRing
    <3>3. /\ pos[m] \in Nat /\ pos[n] \in Nat /\ pos[i] \in Nat
          /\ pos[i] > 0
      BY <1>1, <1>6, <1>7 DEF TypeOK
    <3>4. pos[m] = pos[n]
      BY <1>5, <2>3, <3>1, <3>2, <3>3
    <3>5. QED
      BY <3>1, <3>4 DEF Places, Agree, OnRing
  <2>4. QED
    BY <2>1, <2>2, <2>3 DEF Places, OnRing
<1>10. LinksFollowPlaces'
  <2>1. \A m \in Member : ring'[m] = NoRing <=> q'.next[m] = m
    <3>1. ASSUME a \in Member, a = b
          PROVE  FALSE
      <4>1. pos[i] = pos[a] + 1 /\ pos[a] = pos[i] + 1
        BY <1>1, <1>2, <3>1, MemberAssumption
           DEF LinksFollowPlaces, Agree, TypeOK, OnRing, Node
      <4>2. QED
        BY <1>1, <4>1 DEF TypeOK
    <3>2. QED
      BY <1>1, <1>2, <1>3, <1>4, <3>1, NoRingAssumption
         DEF LinksFollowPlaces, Agree, TypeOK, Node, OnRing
  <2>2. ASSUME NEW n \in Node, ring'[n] # NoRing
        PROVE  /\ ring'[q'.next[n]] = ring'[n]
               /\ IF q'.next[n] \in Head THEN pos'[n] = Length(ring[n])'
                                         ELSE pos'[q'.next[n]] = pos'[n] + 1
    <3>1. \A g \in Head : g = ring'[n] => Length(ring[n])' = Length(g)'
      BY DEF Length, On
    <3>2. i \notin Head
      BY MemberAssumption
    <3>3. n # i /\ ring'[n] = ring[n] /\ ring[n] \in Head
      BY <1>1, <1>4, <2>2 DEF TypeOK
    <3>4. /\ pos[n] \in Nat /\ pos[i] \in Nat /\ pos[i] > 0
          /\ ring[n] = h => pos[n] # pos[i]
          /\ ring[n] = h /\ n \notin Member => pos[n] = 0
      BY <1>1, <1>6, <1>7, <3>3 DEF TypeOK, Places, Agree, OnRing, Node
    <3>5. CASE n = a
      <4>1. q'.next[n] = b /\ ring'[b] = h /\ pos[i] = pos[a] + 1
        BY <1>1, <1>2, <1>3, <1>4, <3>2, <3>5
           DEF TypeOK, LinksFollowPlaces, Agree, OnRing
      <4>2. CASE b \in Head
        <5>1. pos[i] = Length(h)
          BY <1>1, <4>2 DEF LinksFollowPlaces, Agree, OnRing
        <5>2. QED
          BY <1>2, <1>5, <1>6, <3>1, <3>3, <3>4, <3>5, <4>1, <4>2, <5>1
      <4>3. CASE b \notin Head
        <5>1. pos[b] = pos[i] + 1 /\ b \in Member
          BY <1>1, <4>3 DEF LinksFollowPlaces, Agree, OnRing, Node
        <5>2. QED
          BY <1>1, <1>2, <1>5, <3>3, <3>4, <3>5, <4>1, <4>3, <5>1
      <4>4. QED
        BY <4>2, <4>3
    <3>6. CASE n # a
      <4>1. /\ q'.next[n] = q.next[n] /\ q.next[n] # i /\ q.next[n] \in Node
            /\ ring'[q.next[n]] = ring[n]
            /\ ring[q.next[n]] = ring[n]
        BY <1>1, <1>3, <1>4, <3>3, <3>6, NoRingAssumption
           DEF TypeOK, Agree, LinksInverse, LinksFollowPlaces, OnRing
      <4>2. CASE q.next[n] \in Head
        <5>1. pos[n] = Length(ring[n])
          BY <3>3, <4>2, NoRingAssumption DEF LinksFollowPlaces, Agree, OnRing
        <5>2. QED
          BY <1>5, <1>6, <1>7, <3>1, <3>3, <3>4, <4>1, <4>2, <5>1
      <4>3. CASE q.next[n] \notin Head
        <5>1. pos[q.next[n]] = pos[n] + 1 /\ q.next[n] \in Member
          BY <3>3, <4>1, <4>3, NoRingAssumption
             DEF LinksFollowPlaces, Agree, OnRing, Node
        <5>2. ring[n] = h => pos[q.next[n]] # pos[i]
          BY <1>1, <4>1 DEF Places, Agree, OnRing
        <5>3. QED
          BY <1>5, <3>3, <3>4, <4>1, <4>3, <5>1, <5>2
      <4>4. QED
        BY <4>2, <4>3
    <3>7. QED
      BY <3>5, <3>6
  <2>3. QED
    BY <2>1, <2>2 DEF LinksFollowPlaces, OnRing
<1>11. PromiseNext
  BY DEF PromiseNext, PromiseRemove
<1>12. QED
  BY <1>3, <1>4, <1>5, <1>8, <1>9, <1>10, <1>11 DEF Agree

-----------------------------------------------------------------------------
(* The initial state satisfies the invariant. *)
LEMMA InitRingInv == Init => RingInv
<1> SUFFICES ASSUME Init
             PROVE  RingInv
  OBVIOUS
<1>1. TypeOK
  BY DEF Init, PromiseInit, TypeOK, Alone, Node
<1>2. LinksInverse
  BY DEF Init, Alone, LinksInverse, Node
<1>3. \A h \in Head : Length(h) = 0
  <2>1. ASSUME NEW h \in Head
        PROVE  On(h) = {}
    BY MemberAssumption, NoRingAssumption DEF Init, PromiseInit, On, Node
  <2>2. QED
    BY <2>1, FS_EmptySet DEF Length
<1>4. LinksFollowPlaces
  BY <1>3, MemberAssumption, NoRingAssumption
     DEF Init, PromiseInit, Alone, LinksFollowPlaces, OnRing, Node
<1>5. Places
  BY MemberAssumption, NoRingAssumption DEF Init, PromiseInit, Places, OnRing, Node
<1>6. SearchStands
  BY DEF Init, Idle, SearchStands, Searching
<1>7. QED
  BY <1>1, <1>2, <1>4, <1>5, <1>6 DEF RingInv

(* Facts about a search under way. *)
LEMMA SearchFacts ==
  ASSUME RingInv, Searching
  PROVE  /\ walk \in Walks
         /\ walk.eax \in Member /\ walk.ebx \in Ordered
         /\ walk.edx \in Node /\ walk.ecx = q.next[walk.edx]
         /\ ring[walk.eax] = NoRing /\ ring[walk.edx] = walk.ebx
         /\ ring[walk.edx] # NoRing
         /\ PointsBack
         /\ ret.out = "running"
<1>1. walk \in Walks
  BY DEF RingInv, TypeOK, Idle, Searching
<1>2. QED
  BY <1>1, OrderedAssumption, NoRingAssumption
     DEF Walks, RingInv, SearchStands, LinksInverse, PointsBack

(* Every step keeps the invariant, is a step of RingSpec or changes no     *)
(* ring, and fails only on misuse.                                         *)
LEMMA StepRingInv ==
  ASSUME RingInv, Next
  PROVE  /\ RingInv'
         /\ PromiseNext \/ UNCHANGED <<ring, pos>>
         /\ ret'.out = "other" => (OnRing(ret'.node) <=> ret'.op # "remove")
<1> USE DEF RingInv
<1>a. Agree
  BY DEF Agree
<1>b. ASSUME UNCHANGED <<q, ring, pos>>
      PROVE  LinksInverse' /\ LinksFollowPlaces' /\ Places'
  BY <1>b DEF LinksInverse, LinksFollowPlaces, Places, OnRing, Length, On
<1>1. ASSUME NEW i \in Member, NEW r \in Node, InsertBefore(i, r)
      PROVE  /\ RingInv'
             /\ PromiseNext \/ UNCHANGED <<ring, pos>>
             /\ ret'.out = "other" => (OnRing(ret'.node) <=> ret'.op # "remove")
  <2>1. CASE CanInsertBefore(q, i, r)
    <3> DEFINE a == q.prev[r]
    <3>1. a \in Node /\ q.next[a] = r /\ ring[i] = NoRing /\ ring[r] # NoRing
      BY <1>1, <2>1
         DEF CanInsertBefore, LoopsBack, LinksFollowPlaces, TypeOK, InsertBefore,
             Reference, OnRing
    <3>2. ring[a] = ring[r]
      <4>1. ring[a] # NoRing
        BY <3>1, NoRingAssumption DEF LinksFollowPlaces, Places, Node
      <4>2. QED
        BY <3>1, <4>1 DEF LinksFollowPlaces, OnRing
    <3>3. pos[a] + 1 = IF r \in Head THEN Length(r) + 1 ELSE pos[r]
      BY <3>1, <3>2 DEF LinksFollowPlaces, Places, OnRing
    <3>4. q' = LinkBetween(q, a, i, q.next[a]) /\ Inserted(i, ring[a], pos[a] + 1)
      BY <1>1, <2>1, <3>1, <3>2, <3>3 DEF InsertBefore, insert_before
    <3>5. /\ q' \in [next : [Node -> Node], prev : [Node -> Node]]
          /\ ring' \in [Node -> Head \cup {NoRing}]
          /\ pos' \in [Node -> Nat]
          /\ Agree'
          /\ PromiseNext
      BY <1>a, <3>1, <3>2, <3>4, LinkBehind
    <3>6. QED
      BY <1>1, <2>1, <3>5
         DEF InsertBefore, Returned, TypeOK, Rets, SearchStands, Searching, Idle, Agree
  <2>2. CASE ~CanInsertBefore(q, i, r)
    <3>1. UNCHANGED <<q, ring, pos>> /\ ret' \in Rets /\ walk' = Idle /\ key' = key
      BY <1>1, <2>2 DEF InsertBefore, Returned, Rets
    <3>2. ring[i] # NoRing
      BY <1>1, <2>2 DEF CanInsertBefore, LoopsBack, LinksInverse, LinksFollowPlaces,
                        Node
    <3>3. QED
      BY <1>1, <1>b, <2>2, <3>1, <3>2
         DEF InsertBefore, Returned, TypeOK, SearchStands, Searching, Idle, OnRing
  <2>3. QED
    BY <2>1, <2>2
<1>2. ASSUME NEW i \in Member, NEW r \in Node, InsertAfter(i, r)
      PROVE  /\ RingInv'
             /\ PromiseNext \/ UNCHANGED <<ring, pos>>
             /\ ret'.out = "other" => (OnRing(ret'.node) <=> ret'.op # "remove")
  <2>1. CASE CanInsertAfter(q, i, r)
    <3>1. ring[i] = NoRing /\ ring[r] # NoRing
      BY <1>2, <2>1 DEF CanInsertAfter, LoopsBack, LinksFollowPlaces, InsertAfter,
                        Reference, OnRing
    <3>2. /\ q' \in [next : [Node -> Node], prev : [Node -> Node]]
          /\ ring' \in [Node -> Head \cup {NoRing}]
          /\ pos' \in [Node -> Nat]
          /\ Agree'
          /\ PromiseNext
      BY <1>2, <1>a, <2>1, <3>1, LinkBehind DEF InsertAfter, insert_after
    <3>3. QED
      BY <1>2, <2>1, <3>2
         DEF InsertAfter, Returned, TypeOK, Rets, SearchStands, Searching, Idle, Agree
  <2>2. CASE ~CanInsertAfter(q, i, r)
    <3>1. UNCHANGED <<q, ring, pos>> /\ ret' \in Rets /\ walk' = Idle /\ key' = key
      BY <1>2, <2>2 DEF InsertAfter, Returned, Rets
    <3>2. ring[i] # NoRing
      BY <1>2, <2>2 DEF CanInsertAfter, LoopsBack, LinksInverse, LinksFollowPlaces,
                        Node
    <3>3. QED
      BY <1>2, <1>b, <2>2, <3>1, <3>2
         DEF InsertAfter, Returned, TypeOK, SearchStands, Searching, Idle, OnRing
  <2>3. QED
    BY <2>1, <2>2
<1>3. ASSUME NEW i \in Member, NEW h \in Ordered, NEW k \in Key,
             LinkOrderedCall(i, h, k)
      PROVE  /\ RingInv'
             /\ PromiseNext \/ UNCHANGED <<ring, pos>>
             /\ ret'.out = "other" => (OnRing(ret'.node) <=> ret'.op # "remove")
  <2>0. h \in Head /\ h \in Node
    BY OrderedAssumption DEF Node
  <2>1. UNCHANGED <<q, ring, pos>> /\ ret' \in Rets
    BY <1>3 DEF LinkOrderedCall, Returned, Rets
  <2>2. CASE LoopsBack(q, i)
    <3>1. walk' \in Walks /\ key' \in [Member -> Key]
      <4>1. q.next[h] \in Node
        BY <2>0 DEF TypeOK
      <4>2. walk' \in Walks
        BY <1>3, <2>0, <2>2, <4>1 DEF LinkOrderedCall, Walks
      <4>3. key' \in [Member -> Key]
        BY <1>3, <2>2 DEF LinkOrderedCall, TypeOK
      <4>4. QED
        BY <4>2, <4>3
    <3>2. SearchStands'
      BY <1>3, <2>0, <2>1, <2>2
         DEF LinkOrderedCall, SearchStands, LoopsBack, LinksFollowPlaces, Places,
             Returned
    <3>3. QED
      BY <1>3, <1>b, <2>1, <2>2, <3>1, <3>2 DEF LinkOrderedCall, Returned, TypeOK
  <2>3. CASE ~LoopsBack(q, i)
    <3>1. ring[i] # NoRing
      BY <2>3 DEF LoopsBack, LinksInverse, LinksFollowPlaces, Node
    <3>2. QED
      BY <1>3, <1>b, <2>1, <2>3, <3>1
         DEF LinkOrderedCall, Returned, TypeOK, SearchStands, Searching, Idle, OnRing
  <2>4. QED
    BY <2>2, <2>3
<1>4. ASSUME LinkOrderedStep
      PROVE  /\ RingInv'
             /\ PromiseNext \/ UNCHANGED <<ring, pos>>
             /\ ret'.out = "other" => (OnRing(ret'.node) <=> ret'.op # "remove")
  <2>1. /\ walk \in Walks
        /\ walk.eax \in Member /\ walk.ebx \in Ordered
        /\ walk.edx \in Node /\ walk.ecx = q.next[walk.edx]
        /\ ring[walk.eax] = NoRing /\ ring[walk.edx] = walk.ebx
        /\ ring[walk.edx] # NoRing
        /\ PointsBack
        /\ ret.out = "running"
    BY <1>4, SearchFacts DEF LinkOrderedStep
  <2>2. CASE AtInsertionPoint
    <3>1. LinkOrderedInsert /\ key' = key
      BY <1>4, <2>1, <2>2 DEF LinkOrderedStep
    <3>2. /\ q' \in [next : [Node -> Node], prev : [Node -> Node]]
          /\ ring' \in [Node -> Head \cup {NoRing}]
          /\ pos' \in [Node -> Nat]
          /\ Agree'
          /\ PromiseNext
      BY <1>a, <2>1, <3>1, LinkBehind DEF LinkOrderedInsert
    <3>3. QED
      BY <2>1, <3>1, <3>2
         DEF LinkOrderedInsert, Returned, TypeOK, Rets, SearchStands, Searching, Idle, Agree
  <2>3. CASE ~AtInsertionPoint
    <3>1. LinkOrderedHop /\ key' = key
      BY <1>4, <2>1, <2>3 DEF LinkOrderedStep
    <3>2. /\ walk.ecx \in Node /\ q.next[walk.ecx] \in Node
          /\ ring[walk.ecx] = walk.ebx
      BY <2>1 DEF TypeOK, LinksFollowPlaces, OnRing
    <3>3. walk' \in Walks /\ SearchStands'
      BY <2>1, <3>1, <3>2 DEF LinkOrderedHop, Walks, SearchStands, Searching
    <3>4. ret'.out # "other"
      BY <2>1, <3>1 DEF LinkOrderedHop
    <3>5. QED
      BY <1>b, <3>1, <3>3, <3>4 DEF LinkOrderedHop, TypeOK
  <2>4. QED
    BY <2>2, <2>3
<1>5. ASSUME NEW i \in Member, Remove(i)
      PROVE  /\ RingInv'
             /\ PromiseNext \/ UNCHANGED <<ring, pos>>
             /\ ret'.out = "other" => (OnRing(ret'.node) <=> ret'.op # "remove")
  <2>1. CASE CanRemove(q, i)
    <3>1. ring[i] # NoRing
      BY <2>1 DEF CanRemove, LinksFollowPlaces
    <3>2. /\ q' \in [next : [Node -> Node], prev : [Node -> Node]]
          /\ ring' \in [Node -> Head \cup {NoRing}]
          /\ pos' \in [Node -> Nat]
          /\ Agree'
          /\ PromiseNext
      BY <1>5, <1>a, <2>1, <3>1, Unlink DEF Remove
    <3>3. QED
      BY <1>5, <2>1, <3>2
         DEF Remove, Returned, TypeOK, Rets, SearchStands, Searching, Idle, Agree
  <2>2. CASE ~CanRemove(q, i)
    <3>1. UNCHANGED <<q, ring, pos>> /\ ret' \in Rets /\ walk' = Idle /\ key' = key
      BY <1>5, <2>2 DEF Remove, Returned, Rets
    <3>2. ring[i] = NoRing
      BY <2>2 DEF CanRemove, LinksInverse, LinksFollowPlaces, Node
    <3>3. QED
      BY <1>5, <1>b, <2>2, <3>1, <3>2
         DEF Remove, Returned, TypeOK, SearchStands, Searching, Idle, OnRing
  <2>3. QED
    BY <2>1, <2>2
<1>6. QED
  BY <1>1, <1>2, <1>3, <1>4, <1>5 DEF Next

(* A stuttering step keeps the invariant. *)
LEMMA StutterRingInv == RingInv /\ UNCHANGED vars => RingInv'
<1> SUFFICES ASSUME RingInv, UNCHANGED vars
             PROVE  RingInv'
  OBVIOUS
<1> USE DEF RingInv, vars
<1>1. TypeOK' /\ LinksInverse'
  BY DEF TypeOK, LinksInverse
<1>2. LinksFollowPlaces'
  BY DEF LinksFollowPlaces, OnRing, Length, On
<1>3. Places'
  BY DEF Places, OnRing, Length, On
<1>4. SearchStands'
  BY DEF SearchStands, Searching
<1>5. QED
  BY <1>1, <1>2, <1>3, <1>4

(* RingInv is an invariant of the library, for any rings and members. *)
THEOREM RingInvariant == Spec => []RingInv
<1>1. RingInv /\ [Next]_vars => RingInv'
  BY StepRingInv, StutterRingInv
<1>2. QED
  BY <1>1, InitRingInv, PTL DEF Spec

(* The state of the library is always well typed. *)
THEOREM TypeCorrect == Spec => []TypeOK
<1>1. RingInv => TypeOK
  BY DEF RingInv
<1>2. QED
  BY <1>1, RingInvariant, PTL

(* The forward and backward links of every node stay each other's inverse  *)
(* under every sequence of calls (ring.asm:62-67, 124-129, 202-208 and     *)
(* 247-252).                                                               *)
THEOREM LinksStayInverse == Spec => []LinksInverse
<1>1. RingInv => LinksInverse
  BY DEF RingInv
<1>2. QED
  BY <1>1, RingInvariant, PTL

(* The links of every ring lead through exactly the nodes that were put on *)
(* it, in the promised order.                                              *)
THEOREM LinksStayInPlace == Spec => []LinksFollowPlaces
<1>1. RingInv => LinksFollowPlaces
  BY DEF RingInv
<1>2. QED
  BY <1>1, RingInvariant, PTL

(* The library implements RingSpec. *)
THEOREM RingRefinement == Spec => KeepsPromise
<1>1. Init => PromiseInit
  BY DEF Init
<1>2. RingInv /\ [Next]_vars => [PromiseNext]_<<ring, pos>>
  BY StepRingInv DEF vars
<1>3. QED
  BY <1>1, <1>2, RingInvariant, PTL DEF Spec, KeepsPromise, Promise

(* No proper call is ever rejected: the sanity checks of ring.asm report   *)
(* nothing but a node linked twice or removed while unlinked, and the one  *)
(* inside the search of link_ordered_64 (ring.asm:184), which would return *)
(* with two registers still on the stack, never fails.                     *)
THEOREM NoProperCallFails == Spec => FailsOnlyOnMisuse
<1>1. RingInv /\ [Next]_vars =>
        [ret'.out = "other" => (OnRing(ret'.node) <=> ret'.op # "remove")]_vars
  BY StepRingInv
<1>2. QED
  BY <1>1, RingInvariant, PTL DEF Spec, FailsOnlyOnMisuse

-----------------------------------------------------------------------------
(* All ordering values have the same high word. *)
OneHighWord == \A k, m \in Key : k.hi = m.hi

(* The members of ordered rings are in order, and a search has only passed *)
(* members with smaller values.                                            *)
OrderInv ==
  /\ OrderedRings
  /\ Searching /\ walk.edx \in Member => AtMost(key[walk.edx], key[walk.eax])

(* The order of 64 bit values is transitive. *)
LEMMA AtMostTransitive ==
  ASSUME NEW k \in Key, NEW m \in Key, NEW n \in Key, AtMost(k, m), AtMost(m, n)
  PROVE  AtMost(k, n)
BY KeyAssumption DEF AtMost

(* Every step keeps the rings ordered and the search in order. *)
LEMMA StepOrderInv ==
  ASSUME OneHighWord, RingInv, OrderInv, Next
  PROVE  OrderInv'
<1> USE DEF RingInv
<1>0. \A m \in Member : m \in Node /\ m \notin Head /\ key[m] \in Key
  BY MemberAssumption DEF Node, TypeOK
<1>1. ASSUME NEW i \in Member, NEW r \in Node, InsertBefore(i, r)
      PROVE  OrderInv'
  <2>1. CASE CanInsertBefore(q, i, r)
    <3> DEFINE a == q.prev[r]
    <3>1. /\ a \in Node /\ i \in Node /\ ring[r] \notin Ordered
          /\ walk' = Idle /\ key' = key /\ ring[i] = NoRing
          /\ q'.next = [q.next EXCEPT ![i] = r, ![a] = i]
          /\ ring' = [ring EXCEPT ![i] = ring[r]]
      BY <1>0, <1>1, <2>1
         DEF InsertBefore, insert_before, LinkBetween, Inserted, Reference, TypeOK,
             CanInsertBefore, LoopsBack, LinksFollowPlaces
    <3>2. a \in Member /\ a # i => ring[a] = ring[r]
      <4>1. q.next[a] = r /\ ring[r] # NoRing
        BY <1>1, <2>1 DEF CanInsertBefore, InsertBefore, Reference, OnRing
      <4>2. ASSUME a \in Member, a # i
            PROVE  ring[a] # NoRing
        BY <3>1, <4>1, <4>2 DEF LinksFollowPlaces
      <4>3. QED
        BY <3>1, <4>1, <4>2 DEF LinksFollowPlaces, OnRing
    <3>3. QED
      BY <1>0, <3>1, <3>2 DEF OrderInv, OrderedRings, Searching, Idle, TypeOK
  <2>2. CASE ~CanInsertBefore(q, i, r)
    BY <1>1, <2>2 DEF InsertBefore, OrderInv, OrderedRings, Searching, Idle
  <2>3. QED
    BY <2>1, <2>2
<1>2. ASSUME NEW i \in Member, NEW r \in Node, InsertAfter(i, r)
      PROVE  OrderInv'
  <2>1. CASE CanInsertAfter(q, i, r)
    <3>1. /\ i \in Node /\ ring[r] \notin Ordered
          /\ walk' = Idle /\ key' = key /\ ring[i] = NoRing
          /\ q'.next = [q.next EXCEPT ![i] = q.next[r], ![r] = i]
          /\ ring' = [ring EXCEPT ![i] = ring[r]]
      BY <1>0, <1>2, <2>1
         DEF InsertAfter, insert_after, LinkBetween, Inserted, Reference, TypeOK,
             CanInsertAfter, LoopsBack, LinksFollowPlaces
    <3>2. QED
      BY <1>0, <3>1 DEF OrderInv, OrderedRings, Searching, Idle, TypeOK
  <2>2. CASE ~CanInsertAfter(q, i, r)
    BY <1>2, <2>2 DEF InsertAfter, OrderInv, OrderedRings, Searching, Idle
  <2>3. QED
    BY <2>1, <2>2
<1>3. ASSUME NEW i \in Member, NEW h \in Ordered, NEW k \in Key,
             LinkOrderedCall(i, h, k)
      PROVE  OrderInv'
  <2>1. CASE LoopsBack(q, i)
    <3>1. /\ ring[i] = NoRing /\ h \notin Member
          /\ key' = [key EXCEPT ![i] = k] /\ UNCHANGED <<q, ring>>
          /\ walk'.edx = h
      BY <1>3, <2>1, OrderedAssumption, MemberAssumption
         DEF LinkOrderedCall, LoopsBack, LinksFollowPlaces
    <3>2. \A m \in Member : ring[m] \in Ordered => m # i /\ q.next[m] # i
      BY <1>0, <3>1, NoRingAssumption, OrderedAssumption
         DEF LinksFollowPlaces, OnRing
    <3>3. OrderedRings'
      BY <1>0, <3>1, <3>2 DEF OrderInv, OrderedRings, TypeOK
    <3>4. QED
      BY <3>1, <3>3 DEF OrderInv
  <2>2. CASE ~LoopsBack(q, i)
    BY <1>3, <2>2 DEF LinkOrderedCall, OrderInv, OrderedRings, Searching
  <2>3. QED
    BY <2>1, <2>2
<1>4. ASSUME LinkOrderedStep
      PROVE  OrderInv'
  <2>1. /\ walk \in Walks
        /\ walk.eax \in Member /\ walk.ebx \in Ordered
        /\ walk.edx \in Node /\ walk.ecx = q.next[walk.edx]
        /\ ring[walk.eax] = NoRing /\ ring[walk.edx] = walk.ebx
        /\ ring[walk.edx] # NoRing
        /\ PointsBack
    BY <1>4, SearchFacts DEF LinkOrderedStep
  <2>2. walk.ecx \in Node /\ ring[walk.ecx] = walk.ebx
    BY <2>1 DEF TypeOK, LinksFollowPlaces, OnRing
  <2>3. walk.ebx \in Head /\ walk.ebx \notin Member
    BY <2>1, OrderedAssumption, MemberAssumption
  <2>4. CASE AtInsertionPoint
    <3>1. /\ q'.next = [q.next EXCEPT ![walk.eax] = walk.ecx, ![walk.edx] = walk.eax]
          /\ ring' = [ring EXCEPT ![walk.eax] = walk.ebx]
          /\ key' = key /\ walk' = Idle
      BY <1>4, <2>1, <2>4
         DEF LinkOrderedStep, LinkOrderedInsert, LinkBetween, Inserted
    <3>2. walk.edx \in Member => AtMost(key[walk.edx], key[walk.eax])
      BY <1>4 DEF OrderInv, LinkOrderedStep
    <3>3. walk.ecx \in Member => AtMost(key[walk.eax], key[walk.ecx])
      <4>1. ASSUME walk.ecx \in Member
            PROVE  StopsBefore(key[walk.eax], key[walk.ecx])
        BY <2>3, <2>4, <4>1 DEF AtInsertionPoint
      <4>2. ASSUME walk.ecx \in Member
            PROVE  key[walk.eax].hi = key[walk.ecx].hi
        BY <1>0, <2>1, <4>2, OneHighWord DEF OneHighWord
      <4>3. QED
        BY <1>0, <2>1, <4>1, <4>2, KeyAssumption DEF StopsBefore, AtMost
    <3>4. QED
      BY <1>0, <2>1, <2>2, <3>1, <3>2, <3>3
         DEF OrderInv, OrderedRings, Searching, Idle, TypeOK
  <2>5. CASE ~AtInsertionPoint
    <3>1. /\ UNCHANGED <<q, key, ring>>
          /\ walk'.edx = walk.ecx /\ walk'.eax = walk.eax
      BY <1>4, <2>1, <2>5 DEF LinkOrderedStep, LinkOrderedHop, Walks
    <3>2. walk.ecx \in Member => AtMost(key[walk.ecx], key[walk.eax])
      <4>1. ASSUME walk.ecx \in Member
            PROVE  /\ key[walk.eax].hi = key[walk.ecx].hi
                   /\ key[walk.eax] \in Key /\ key[walk.ecx] \in Key
        BY <1>0, <2>1, <4>1, OneHighWord DEF OneHighWord
      <4>2. QED
        BY <2>5, <4>1, KeyAssumption DEF AtInsertionPoint, StopsBefore, AtMost
    <3>3. QED
      BY <3>1, <3>2 DEF OrderInv, OrderedRings
  <2>6. QED
    BY <2>4, <2>5
<1>5. ASSUME NEW i \in Member, Remove(i)
      PROVE  OrderInv'
  <2>1. CASE CanRemove(q, i)
    <3> DEFINE a == q.prev[i]
               b == q.next[i]
    <3>1. /\ a \in Node /\ b \in Node /\ i \in Node
          /\ q'.next = [q.next EXCEPT ![a] = b, ![i] = i]
          /\ ring' = [ring EXCEPT ![i] = NoRing]
          /\ key' = key /\ walk' = Idle
          /\ q.next[a] = i
      BY <1>0, <1>5, <2>1 DEF Remove, remove, Removed, CanRemove, TypeOK
    <3>2. a \in Member /\ b \in Member /\ ring[a] \in Ordered =>
            AtMost(key[a], key[b])
      <4>1. SUFFICES ASSUME a \in Member, b \in Member, ring[a] \in Ordered
                     PROVE  AtMost(key[a], key[b])
        OBVIOUS
      <4>2. ring[i] = ring[a]
        BY <3>1, <4>1, OrderedAssumption, NoRingAssumption
           DEF LinksFollowPlaces, OnRing
      <4>3. AtMost(key[a], key[i]) /\ AtMost(key[i], key[b])
        BY <3>1, <4>1, <4>2 DEF OrderInv, OrderedRings
      <4>4. QED
        BY <1>0, <4>1, <4>3, AtMostTransitive
    <3>3. QED
      BY <1>0, <3>1, <3>2, NoRingAssumption, OrderedAssumption
         DEF OrderInv, OrderedRings, Searching, Idle, TypeOK
  <2>2. CASE ~CanRemove(q, i)
    BY <1>5, <2>2 DEF Remove, OrderInv, OrderedRings, Searching, Idle
  <2>3. QED
    BY <2>1, <2>2
<1>6. QED
  BY <1>1, <1>2, <1>3, <1>4, <1>5 DEF Next

(* Rings filled by link_ordered_64 stay in order as long as all ordering   *)
(* values share their high word: the comparison at ring.asm:191-194 is     *)
(* only wrong when the high words differ.                                  *)
THEOREM OrderedByLowWord == OneHighWord => (Spec => []OrderedRings)
<1> SUFFICES ASSUME OneHighWord
             PROVE  Spec => []OrderedRings
  OBVIOUS
<1>1. Init => OrderInv
  BY OrderedAssumption, NoRingAssumption, MemberAssumption
     DEF Init, PromiseInit, OrderInv, OrderedRings, Searching, Idle, Node
<1>2. RingInv /\ OrderInv /\ [Next]_vars => OrderInv'
  <2>1. OrderInv /\ UNCHANGED vars => OrderInv'
    BY DEF OrderInv, OrderedRings, Searching, vars
  <2>2. QED
    BY <2>1, StepOrderInv
<1>3. OrderInv => OrderedRings
  BY DEF OrderInv
<1>4. QED
  BY <1>1, <1>2, <1>3, RingInvariant, PTL DEF Spec
=============================================================================
