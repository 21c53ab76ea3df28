---------------------------- MODULE IridiaProofs ----------------------------
(***************************************************************************)
(* Iridia's rings, masks and interrupts are right for any number of lines, *)
(* clients and threads, as long as threads keep to the uses that the code  *)
(* supports (Allow is empty).                                              *)
(*                                                                         *)
(* The stores of irq.disconnect are interrupted anywhere.  The inductive   *)
(* invariant says, for every point of the call, which links already agree: *)
(* while a client is half out its successor no longer points back at it,   *)
(* but the links the handler follows are still whole, because the forward  *)
(* link is moved in a single store.                                        *)
(***************************************************************************)
EXTENDS Iridia, NumberLemmas

(* The ring each node is on. *)
ring == [p \in Node |-> IF p \in Line THEN p ELSE line[p]]

(* Links do not leave the ring. *)
RingsClosed ==
  \A p \in Node : ring[p] # NoLine =>
    ring[q.next[p]] = ring[p] /\ ring[q.prev[p]] = ring[p]

(* A call is between its two stores around client p, or behind which node  *)
(* p comes.                                                                *)
HalfOut(p) == \E t \in Thread : call[t].pc = "close next" /\ call[t].client = p
BehindHalfOut(p) == \E t \in Thread : call[t].pc = "close next" /\ call[t].ebx = p

(* Neighbours point at each other, but around a client that is half out. *)
LinksPaired ==
  \A p \in Node : ring[p] # NoLine =>
    /\ q.prev[q.next[p]] = p \/ HalfOut(p)
    /\ q.next[q.prev[p]] = p \/ BehindHalfOut(p)

(* A client on no line is linked to itself, or a call is still doing that. *)
LooseClients ==
  \A c \in Client : line[c] = NoLine =>
    \/ q.next[c] = c /\ q.prev[c] = c
    \/ \E t \in Thread : call[t].pc \in {"loop next", "loop previous"} /\ call[t].client = c

(* Forward links climb, so that a walk ends. *)
Climbs(rank) ==
  \A c \in Client : line[c] # NoLine /\ q.next[c] \in Client => rank[c] < rank[q.next[c]]

(* What a call has read still holds when the call uses it. *)
Holds(k) ==
  /\ k.line # Cascade
  /\ k.pc \in {"check", "close previous", "close next"} =>
       k.ebx = q.next[k.client] /\ k.ecx = q.prev[k.client]
  /\ k.pc = "check" => line[k.client] \in {k.line, NoLine}
  /\ k.pc \in {"close previous", "close next"} => line[k.client] = k.line
  /\ k.pc = "close next" => q.next[k.ecx] = k.client /\ q.prev[k.ebx] = k.ecx
  /\ k.pc \notin {"check", "close previous", "close next"} => line[k.client] = NoLine
  /\ k.pc = "loop previous" => q.next[k.client] = k.client
  /\ k.pc \in {"read", "write"} => ~HasClients(k.line)
  /\ k.pc = "write" => k.al = masked \cap Pic(k.line)

CallsHold == \A k \in {call[t] : t \in Thread} : k = Idle \/ Holds(k)

(* Two calls work on different lines and clients, and only one is between  *)
(* the in and the out of a PIC's mask.                                     *)
CallsApart ==
  \A t, u \in Thread : t # u /\ Working(t) /\ Working(u) =>
    /\ call[t].line # call[u].line /\ call[t].client # call[u].client
    /\ call[t].pc = "write" /\ call[u].pc = "write" => call[t].line \notin Pic(call[u].line)

(* A line that is off but still unmasked is one a call is about to mask. *)
LinesMasked ==
  \A l \in Line \ {Cascade} :
    \/ HasClients(l)
    \/ l \in masked
    \/ \E t \in Thread : /\ call[t].pc \in {"loop next", "loop previous", "test", "read", "write"}
                         /\ call[t].line = l

ClientsOn ==
  /\ Cascade \notin masked /\ serving = {}
  /\ \A c \in Client : line[c] # NoLine =>
       line[c] # Cascade /\ line[c] \notin masked /\ idt[line[c]] = "irq"

(* The interrupt being handled stands on its own ring. *)
WalkOnRing == isr # NoIsr => ring[isr.edi] = isr.line

IridiaInv ==
  /\ TypeOK
  /\ RingsClosed /\ LinksPaired /\ LooseClients
  /\ CallsHold /\ CallsApart
  /\ LinesMasked /\ ClientsOn /\ WalkOnRing
  /\ \E rank \in [Client -> Nat] : Climbs(rank)
-----------------------------------------------------------------------------
(* From n and the clients M, links lead to clients of M or the head l. *)
Closed(next, M, n, l) == \A p \in M \cup {n} : next[p] \in M \cup {l}

(* Links between the clients of M climb. *)
Rises(rank, next, M, l) == \A p \in M : next[p] # l => rank[p] < rank[next[p]]

(* W is the least set that has the first node behind n and, with a node,   *)
(* the next one.                                                           *)
Least(W, next, M, n, l) ==
  /\ W \subseteq M
  /\ next[n] \in W \cup {l}
  /\ \A x \in W : next[x] \in W \cup {l}
  /\ \A S : next[n] \in S \cup {l} /\ (\A x \in S \cap M : next[x] \in S \cup {l})
            => W \subseteq S

Nodes(next, n, l) == Walk(next, n, l)[Cardinality(Client) + 1].nodes

(* w holds the steps of the walk from n to l. *)
Visits(w, m, next, M, n, l) ==
  /\ w \in [0 .. m -> [at : M \cup {l}, nodes : SUBSET M]]
  /\ w[0] = [at |-> next[n], nodes |-> {}]
  /\ \A k \in 1 .. m :
       w[k] = IF w[k - 1].at = l THEN w[k - 1]
              ELSE [at |-> next[w[k - 1].at], nodes |-> w[k - 1].nodes \cup {w[k - 1].at}]

(* The recursive function that defines Walk exists, and its values stay on *)
(* the ring M of the head l.                                               *)
LEMMA WalkVisits ==
  ASSUME NEW M \in SUBSET Client, NEW l \in Line, NEW n, NEW next,
         Closed(next, M, n, l)
  PROVE  Visits(Walk(next, n, l), Cardinality(Client) + 1, next, M, n, l)
<1> USE DEF Closed
<1>1. PICK m \in Nat : m = Cardinality(Client) + 1
  BY LineAssumption, FS_CardinalityType
<1>2. PICK A : A = [at : M \cup {l}, nodes : SUBSET M]
  OBVIOUS
<1>3. PICK step : step = [v \in A |-> IF v.at = l THEN v
                                      ELSE [at |-> next[v.at], nodes |-> v.nodes \cup {v.at}]]
  OBVIOUS
<1>4. step \in [A -> A]
  <2>1. ASSUME NEW v \in A, v.at # l
        PROVE  [at |-> next[v.at], nodes |-> v.nodes \cup {v.at}] \in A
    BY <1>2, <2>1
  <2>2. QED
    BY <1>3, <2>1
<1>5. PICK a \in A : a = [at |-> next[n], nodes |-> {}]
  BY <1>2
<1>6. PICK f \in [0 .. m -> A] : Iterates(f, m, a, step)
  BY <1>4, IterationExists
<1>7. f = [k \in 0 .. m |->
             IF k = 0 THEN [at |-> next[n], nodes |-> {}]
             ELSE IF f[k - 1].at = l THEN f[k - 1]
             ELSE [at |-> next[f[k - 1].at], nodes |-> f[k - 1].nodes \cup {f[k - 1].at}]]
  <2>1. ASSUME NEW k \in 0 .. m, k # 0
        PROVE  step[f[k - 1]] = IF f[k - 1].at = l THEN f[k - 1]
             ELSE [at |-> next[f[k - 1].at], nodes |-> f[k - 1].nodes \cup {f[k - 1].at}]
    <3>1. k - 1 \in 0 .. m
      BY <2>1
    <3>2. f[k - 1] \in A
      BY <3>1
    <3>3. QED
      BY <3>2, <1>3
  <2>2. QED
    BY <1>5, <1>6, <2>1 DEF Iterates
<1>8. \E g : g = [k \in 0 .. Cardinality(Client) + 1 |->
             IF k = 0 THEN [at |-> next[n], nodes |-> {}]
             ELSE IF g[k - 1].at = l THEN g[k - 1]
             ELSE [at |-> next[g[k - 1].at], nodes |-> g[k - 1].nodes \cup {g[k - 1].at}]]
  BY <1>1, <1>7
<1>9. PICK w : w = Walk(next, n, l)
  OBVIOUS
<1>10. w = [k \in 0 .. Cardinality(Client) + 1 |->
             IF k = 0 THEN [at |-> next[n], nodes |-> {}]
             ELSE IF w[k - 1].at = l THEN w[k - 1]
             ELSE [at |-> next[w[k - 1].at], nodes |-> w[k - 1].nodes \cup {w[k - 1].at}]]
  BY <1>8, <1>9 DEF Walk
<1>11. w[0] = [at |-> next[n], nodes |-> {}]
  BY <1>1, <1>10
<1>12. ASSUME NEW k \in 1 .. m
       PROVE  w[k] = IF w[k - 1].at = l THEN w[k - 1]
                     ELSE [at |-> next[w[k - 1].at], nodes |-> w[k - 1].nodes \cup {w[k - 1].at}]
  <2>1. k \in 0 .. Cardinality(Client) + 1 /\ k # 0
    BY <1>1
  <2>2. QED
    BY <1>10, <2>1
<1>13. \A k \in 0 .. m : w[k] \in A
  <2> DEFINE S == {k \in 0 .. m : w[k] \in A}
  <2>1. 0 \in S
    BY <1>5, <1>11
  <2>2. ASSUME NEW k \in 0 .. m - 1, k \in S PROVE k + 1 \in S
    <3>1. k + 1 \in 1 .. m /\ (k + 1) - 1 = k
      OBVIOUS
    <3>2. w[k + 1] = IF w[k].at = l THEN w[k]
                     ELSE [at |-> next[w[k].at], nodes |-> w[k].nodes \cup {w[k].at}]
      BY <1>12, <3>1
    <3>3. w[k] \in A
      BY <2>2
    <3>4. w[k + 1] = step[w[k]]
      BY <1>3, <3>2, <3>3
    <3>5. w[k + 1] \in A
      BY <1>4, <3>3, <3>4
    <3>6. QED
      BY <3>1, <3>5
  <2> HIDE DEF S
  <2>3. \A k \in 0 .. m : k \in S
    BY <2>1, <2>2, BoundedInduction
  <2>4. QED
    BY <2>3 DEF S
<1>14. w \in [0 .. m -> A]
  BY <1>1, <1>10, <1>13
<1>15. QED
  BY <1>1, <1>2, <1>9, <1>11, <1>12, <1>14 DEF Visits

(* The walk ends at the head when its links climb, and has then visited    *)
(* the least set of clients that it could.                                 *)
LEMMA WalkLeast ==
  ASSUME NEW M \in SUBSET Client, NEW l \in Line, NEW n, NEW next,
         Closed(next, M, n, l),
         NEW rank \in [Client -> Nat], Rises(rank, next, M, l)
  PROVE  Least(Nodes(next, n, l), next, M, n, l)
<1> USE DEF Closed, Rises
<1>1. PICK m \in Nat : m = Cardinality(Client) + 1
  BY LineAssumption, FS_CardinalityType
<1>2. PICK w : w = Walk(next, n, l)
  OBVIOUS
<1>3. Visits(w, m, next, M, n, l)
  BY <1>1, <1>2, WalkVisits
<1>4. \A k \in 1 .. m :
         w[k] = IF w[k - 1].at = l THEN w[k - 1]
                ELSE [at |-> next[w[k - 1].at], nodes |-> w[k - 1].nodes \cup {w[k - 1].at}]
  BY <1>3 DEF Visits
<1>5. ASSUME NEW k \in 0 .. m - 1
      PROVE  /\ w[k].at \in M \cup {l} /\ w[k].nodes \subseteq M
             /\ w[k].at = l => w[k + 1] = w[k]
             /\ w[k].at # l => /\ w[k + 1].at = next[w[k].at]
                              /\ w[k + 1].nodes = w[k].nodes \cup {w[k].at}
  <2>1. k + 1 \in 1 .. m /\ (k + 1) - 1 = k /\ k \in 0 .. m
    OBVIOUS
  <2>2. w[k + 1] = IF w[k].at = l THEN w[k]
                   ELSE [at |-> next[w[k].at], nodes |-> w[k].nodes \cup {w[k].at}]
    BY <1>4, <2>1
  <2>3. w[k] \in [at : M \cup {l}, nodes : SUBSET M]
    BY <1>3, <2>1 DEF Visits
  <2>4. QED
    BY <2>2, <2>3
<1>6. l \notin M /\ w[0].at = next[n] /\ w[0].nodes = {}
  BY <1>3, LineAssumption DEF Visits
<1>7. \A k \in 0 .. m :
         /\ next[n] \in w[k].nodes \cup {w[k].at}
         /\ \A x \in w[k].nodes : next[x] \in w[k].nodes \cup {w[k].at}
         /\ w[k].at # l => /\ \A x \in w[k].nodes : rank[x] < rank[w[k].at]
                          /\ IsFiniteSet(w[k].nodes) /\ Cardinality(w[k].nodes) = k
  <2> DEFINE Good(k) ==
               /\ next[n] \in w[k].nodes \cup {w[k].at}
               /\ \A x \in w[k].nodes : next[x] \in w[k].nodes \cup {w[k].at}
               /\ w[k].at # l => /\ \A x \in w[k].nodes : rank[x] < rank[w[k].at]
                                /\ IsFiniteSet(w[k].nodes) /\ Cardinality(w[k].nodes) = k
             T == {k \in 0 .. m : Good(k)}
  <2>1. Good(0)
    BY <1>6, FS_EmptySet
  <2>2. ASSUME NEW k \in 0 .. m - 1, Good(k) PROVE Good(k + 1)
    <3>1. CASE w[k].at = l
      BY <1>5, <2>2, <3>1
    <3>2. CASE w[k].at # l
      <4>1. PICK y \in M : y = w[k].at /\ y # l
        BY <1>5, <3>2
      <4>2. PICK V \in SUBSET M : V = w[k].nodes
        BY <1>5
      <4>3. w[k + 1].at = next[y] /\ w[k + 1].nodes = V \cup {y}
        BY <1>5, <3>2, <4>1, <4>2
      <4>4. /\ next[n] \in V \cup {y}
            /\ \A x \in V : next[x] \in V \cup {y}
            /\ \A x \in V : rank[x] < rank[y]
            /\ IsFiniteSet(V) /\ Cardinality(V) = k
        BY <2>2, <4>1, <4>2
      <4>5. y \notin V
        BY <4>4
      <4>6. IsFiniteSet(V \cup {y}) /\ Cardinality(V \cup {y}) = k + 1
        BY <4>4, <4>5, FS_AddElement
      <4>7. next[y] # l => \A x \in V \cup {y} : rank[x] < rank[next[y]]
        <5> SUFFICES ASSUME next[y] # l, NEW x \in V \cup {y}
                     PROVE  rank[x] < rank[next[y]]
          OBVIOUS
        <5>1. next[y] \in M /\ rank[next[y]] \in Nat /\ rank[y] \in Nat /\ rank[x] \in Nat
          OBVIOUS
        <5>2. rank[y] < rank[next[y]] /\ (x = y \/ rank[x] < rank[y])
          BY <4>4
        <5>3. QED
          BY <5>1, <5>2
      <4>8. QED
        BY <4>3, <4>4, <4>6, <4>7
    <3>3. QED
      BY <3>1, <3>2
  <2> HIDE DEF Good
  <2>3. \A k \in 0 .. m : k \in T
    <3>1. 0 \in T /\ \A k \in 0 .. m - 1 : k \in T => k + 1 \in T
      BY <2>1, <2>2
    <3> HIDE DEF T
    <3>2. QED
      BY <3>1, BoundedInduction
  <2>4. QED
    BY <2>3 DEF Good
<1>8. w[m].at \in M \cup {l} /\ w[m].nodes \in SUBSET M
  BY <1>3 DEF Visits
<1>9. w[m].at = l
  <2> SUFFICES ASSUME w[m].at # l PROVE FALSE
    OBVIOUS
  <2>1. Cardinality(w[m].nodes) = m
    BY <1>7
  <2>2. Cardinality(w[m].nodes) <= Cardinality(Client) /\ Cardinality(Client) \in Nat
    BY <1>8, LineAssumption, FS_Subset, FS_CardinalityType
  <2>3. QED
    BY <1>1, <2>1, <2>2
<1>10. Nodes(next, n, l) = w[m].nodes
  BY <1>1, <1>2 DEF Nodes
<1>11. ASSUME NEW S, next[n] \in S \cup {l}, \A x \in S \cap M : next[x] \in S \cup {l}
       PROVE  w[m].nodes \subseteq S
  <2> DEFINE T == {k \in 0 .. m : w[k].nodes \subseteq S /\ w[k].at \in S \cup {l}}
  <2>1. 0 \in T
    BY <1>6, <1>11
  <2>2. ASSUME NEW k \in 0 .. m - 1, k \in T PROVE k + 1 \in T
    <3>1. w[k].nodes \subseteq S /\ w[k].at \in S \cup {l}
      BY <2>2
    <3>2. w[k + 1].nodes \subseteq S /\ w[k + 1].at \in S \cup {l}
      BY <1>5, <1>11, <3>1
    <3>3. QED
      BY <3>2
  <2> HIDE DEF T
  <2>3. m \in T
    BY <2>1, <2>2, BoundedInduction
  <2>4. QED
    BY <2>3 DEF T
<1>12. QED
  BY <1>7, <1>8, <1>9, <1>10, <1>11 DEF Least

(* A walk whose next node is the head is over. *)
LEMMA WalkOver ==
  ASSUME NEW M \in SUBSET Client, NEW l \in Line, NEW n, NEW next,
         Closed(next, M, n, l), next[n] = l,
         NEW rank \in [Client -> Nat], Rises(rank, next, M, l)
  PROVE  Nodes(next, n, l) = {}
<1>1. PICK W : W = Nodes(next, n, l)
  OBVIOUS
<1>2. PICK S : S = {}
  OBVIOUS
<1>3. next[n] \in S \cup {l} /\ \A x \in S \cap M : next[x] \in S \cup {l}
  BY <1>2
<1>4. Least(W, next, M, n, l)
  BY <1>1, WalkLeast
<1>5. W \subseteq S
  BY <1>3, <1>4 DEF Least
<1>6. QED
  BY <1>1, <1>2, <1>5

(* One step of a walk leaves the nodes ahead but the one it steps on. *)
LEMMA WalkStep ==
  ASSUME NEW M \in SUBSET Client, NEW l \in Line, NEW n, NEW next,
         Closed(next, M, n, l), next[n] # l,
         NEW rank \in [Client -> Nat], Rises(rank, next, M, l)
  PROVE  /\ next[n] \in Nodes(next, n, l)
         /\ Nodes(next, next[n], l) = Nodes(next, n, l) \ {next[n]}
<1>1. PICK x \in M : x = next[n]
  BY DEF Closed
<1>2. Closed(next, M, x, l)
  BY <1>1 DEF Closed
<1>3. PICK V : V = Nodes(next, n, l)
  OBVIOUS
<1>4. PICK W : W = Nodes(next, x, l)
  OBVIOUS
<1>5. Least(V, next, M, n, l) /\ Least(W, next, M, x, l)
  BY <1>2, <1>3, <1>4, WalkLeast
<1>6. x \in V
  BY <1>1, <1>5 DEF Least
<1>7. W \subseteq V
  BY <1>5, <1>6 DEF Least
<1>8. V \subseteq W \cup {x}
  BY <1>1, <1>5 DEF Least
<1>9. x \notin W
  <2> DEFINE S == {y \in M : rank[x] < rank[y]}
  <2>1. next[x] \in S \cup {l}
    BY <1>2 DEF Closed, Rises
  <2>2. ASSUME NEW y \in S PROVE next[y] \in S \cup {l}
    <3>1. next[y] \in M \cup {l} /\ (next[y] # l => rank[y] < rank[next[y]])
      BY DEF Closed, Rises
    <3>2. rank[x] \in Nat /\ rank[y] \in Nat /\ rank[x] < rank[y]
      OBVIOUS
    <3>3. CASE next[y] # l
      <4>1. rank[next[y]] \in Nat
        BY <3>1, <3>3
      <4>2. QED
        BY <3>1, <3>2, <3>3, <4>1
    <3>4. QED
      BY <3>3
  <2>3. W \subseteq S
    BY <1>5, <2>1, <2>2 DEF Least
  <2>4. QED
    BY <2>3
<1>10. QED
  BY <1>1, <1>3, <1>4, <1>6, <1>7, <1>8, <1>9

(* Links that a walk does not follow do not matter to it. *)
LEMMA WalkSame ==
  ASSUME NEW M \in SUBSET Client, NEW l \in Line, NEW n, NEW next, NEW other,
         Closed(next, M, n, l), \A p \in M \cup {n} : other[p] = next[p],
         NEW rank \in [Client -> Nat], Rises(rank, next, M, l)
  PROVE  Nodes(other, n, l) = Nodes(next, n, l)
<1>1. Closed(other, M, n, l) /\ Rises(rank, other, M, l)
  BY DEF Closed, Rises
<1>2. PICK V : V = Nodes(next, n, l)
  OBVIOUS
<1>3. PICK W : W = Nodes(other, n, l)
  OBVIOUS
<1>4. Least(V, next, M, n, l) /\ Least(W, other, M, n, l)
  BY <1>1, <1>2, <1>3, WalkLeast
<1>5. V \subseteq W /\ W \subseteq V
  BY <1>4 DEF Least
<1>6. QED
  BY <1>2, <1>3, <1>5

(* A walk from the head meets every client that has one in front of it. *)
LEMMA WalkMeetsAll ==
  ASSUME NEW M \in SUBSET Client, NEW l \in Line, NEW next,
         Closed(next, M, l, l),
         NEW rank \in [Client -> Nat], Rises(rank, next, M, l),
         \A c \in M : \E p \in M \cup {l} : next[p] = c
  PROVE  Nodes(next, l, l) = M
<1>1. PICK W : W = Nodes(next, l, l)
  OBVIOUS
<1>2. Least(W, next, M, l, l)
  BY <1>1, WalkLeast
<1>3. M \subseteq W
  <2> SUFFICES ASSUME NEW d \in M, d \notin W PROVE FALSE
    OBVIOUS
  <2> DEFINE T == {rank[c] : c \in M \ W}
  <2>1. T \in SUBSET Nat /\ T # {}
    OBVIOUS
  <2>2. PICK r \in T : \A y \in T : r <= y
    <3> HIDE DEF T
    <3>1. QED
      BY <2>1, LeastNumber
  <2>3. PICK c \in M \ W : \A y \in M \ W : rank[c] <= rank[y]
    BY <2>2
  <2>4. PICK p \in M \cup {l} : next[p] = c
    OBVIOUS
  <2>5. c # l
    BY LineAssumption
  <2>6. p # l /\ p \notin W
    BY <1>2, <2>3, <2>4, <2>5 DEF Least
  <2>7. rank[p] < rank[c] /\ rank[c] <= rank[p]
    BY <2>3, <2>4, <2>5, <2>6 DEF Rises
  <2>8. QED
    BY <2>6, <2>7
<1>4. QED
  BY <1>1, <1>2, <1>3 DEF Least
-----------------------------------------------------------------------------
(* Facts about the constants, in the form the provers need. *)
LEMMA Lines ==
  /\ Line \cap Client = {} /\ NoLine \notin Line /\ Line \subseteq Int /\ Line \subseteq Vector
  /\ \A l \in Line : l \in Pic(l) /\ Pic(l) \subseteq Line
  /\ \A k, l \in Line : k \in Pic(l) => Pic(k) = Pic(l)
<1>1. Line \subseteq Int
  BY LineAssumption
<1>2. QED
  BY <1>1, LineAssumption DEF Pic, Vector

(* The call that a thread is making. *)
LEMMA CallAt ==
  ASSUME TypeOK, NEW t \in Thread, Working(t)
  PROVE  /\ call[t] \in Calls
         /\ call[t].client \in Client /\ call[t].line \in Line
         /\ call[t].ebx \in Node /\ call[t].ecx \in Node /\ call[t].al \in SUBSET Line
<1>1. call[t] # Idle
  BY DEF Working, Idle
<1>2. call[t] \in Calls
  BY <1>1 DEF TypeOK
<1>3. QED
  BY <1>2 DEF Calls

(* A thread's step changes its own call only. *)
LEMMA GotoCall ==
  ASSUME TypeOK, NEW t \in Thread, Working(t),
         NEW pc \in {"check", "close previous", "close next", "loop next",
                     "loop previous", "test", "read", "write"}, Goto(t, pc)
  PROVE  /\ call' \in [Thread -> Calls \cup {Idle}]
         /\ \A u \in Thread \ {t} : call'[u] = call[u]
         /\ call'[t] = [call[t] EXCEPT !.pc = pc]
         /\ call'[t].pc = pc
         /\ call'[t].client = call[t].client /\ call'[t].line = call[t].line
         /\ call'[t].ebx = call[t].ebx /\ call'[t].ecx = call[t].ecx /\ call'[t].al = call[t].al
<1>1. call[t] \in Calls
  BY CallAt
<1>2. call'[t] = [call[t] EXCEPT !.pc = pc] /\ \A u \in Thread \ {t} : call'[u] = call[u]
  BY DEF Goto, TypeOK
<1>3. call'[t] \in Calls
  BY <1>1, <1>2 DEF Calls
<1>4. call' \in [Thread -> Calls \cup {Idle}]
  BY <1>3 DEF Goto, TypeOK
<1>5. QED
  BY <1>1, <1>2, <1>4 DEF Calls

(* A thread's return leaves the other calls. *)
LEMMA ReturnsCall ==
  ASSUME TypeOK, NEW t \in Thread, Returns(t)
  PROVE  /\ call' \in [Thread -> Calls \cup {Idle}]
         /\ \A u \in Thread \ {t} : call'[u] = call[u]
         /\ call'[t] = Idle
BY DEF Returns, TypeOK

(* A walk's record. *)
LEMMA IsrType ==
  ASSUME TypeOK, isr # NoIsr
  PROVE  /\ isr \in [line : Line, edi : Node, top : {"esp", "eax"}]
         /\ isr.line \in Line /\ isr.edi \in Node /\ isr.line # NoLine
BY LineAssumption DEF TypeOK

(* A thread at a step of its call is working. *)
LEMMA AtWorks ==
  ASSUME NEW t, NEW pc, At(t, pc), pc # "idle" PROVE Working(t)
BY DEF At, Working

(* Every step keeps the types. *)
LEMMA TypeStep ==
  ASSUME TypeOK, [Next]_vars
  PROVE  TypeOK'
<1> USE DEF Node
<1>1. CASE UNCHANGED vars
  BY <1>1 DEF vars, TypeOK
<1>2. ASSUME NEW v \in Claimed, set_handler(v, "own") \/ unset_handler(v) PROVE TypeOK'
  <2>1. PICK h \in {"own", "unhandled"} : set_handler(v, h)
    BY <1>2 DEF unset_handler
  <2>2. idt' \in [Vector -> {"irq", "own", "unhandled"}]
    BY <2>1 DEF TypeOK, set_handler
  <2>3. QED
    BY <2>1, <2>2 DEF TypeOK, set_handler
<1>3. ASSUME NEW v \in Vector, _unhandled_interrupt(v) PROVE TypeOK'
  BY <1>3 DEF TypeOK, _unhandled_interrupt
<1>4. ASSUME NEW c \in Client, NEW l \in Line, irq_connect(c, l) PROVE TypeOK'
  <2>1. CASE CanInsertAfter(q, c, l)
    <3>1. q' = insert_after(q, c, l) /\ masked' = masked \ {l}
          /\ line' = [line EXCEPT ![c] = l] /\ machine' = machine
      BY <1>4, <2>1 DEF irq_connect, connect_links
    <3>2. q' \in [next : [Node -> Node], prev : [Node -> Node]]
      BY <3>1 DEF insert_after, LinkBetween, TypeOK
    <3>3. line' \in [Client -> Line \cup {NoLine}]
      BY <3>1 DEF TypeOK
    <3>4. QED
      BY <1>4, <3>1, <3>2, <3>3 DEF TypeOK, irq_connect
  <2>2. CASE ~CanInsertAfter(q, c, l)
    BY <1>4, <2>2 DEF TypeOK, irq_connect
  <2>3. QED
    BY <2>1, <2>2
<1>5. ASSUME NEW t \in Thread, NEW c \in Client, NEW l \in Line, irq_disconnect(t, c, l)
      PROVE  TypeOK'
  <2>1. [pc |-> "check", client |-> c, line |-> l,
         ebx |-> q.next[c], ecx |-> q.prev[c], al |-> {}] \in Calls
    BY DEF Calls, TypeOK
  <2>2. call' \in [Thread -> Calls \cup {Idle}]
    BY <1>5, <2>1 DEF TypeOK, irq_disconnect
  <2>3. QED
    BY <1>5, <2>2 DEF TypeOK, irq_disconnect
<1>6. ASSUME NEW t \in Thread, DisconnectStep(t) PROVE TypeOK'
  <2>1. CASE RemoveChecks(t)
    <3>1. call' \in [Thread -> Calls \cup {Idle}]
      BY <2>1, AtWorks, GotoCall, ReturnsCall DEF RemoveChecks
    <3>2. QED
      BY <2>1, <3>1 DEF TypeOK, RemoveChecks
  <2>2. CASE ClosePrevious(t)
    <3>1. call' \in [Thread -> Calls \cup {Idle}] /\ call[t].ebx \in Node /\ call[t].ecx \in Node
      BY <2>2, AtWorks, GotoCall, CallAt DEF ClosePrevious
    <3>2. q' \in [next : [Node -> Node], prev : [Node -> Node]]
      BY <2>2, <3>1 DEF TypeOK, ClosePrevious
    <3>3. QED
      BY <2>2, <3>1, <3>2 DEF TypeOK, ClosePrevious
  <2>3. CASE CloseNext(t)
    <3>1. /\ call' \in [Thread -> Calls \cup {Idle}]
          /\ call[t].ebx \in Node /\ call[t].ecx \in Node /\ call[t].client \in Client
      BY <2>3, AtWorks, GotoCall, CallAt DEF CloseNext
    <3>2. q' \in [next : [Node -> Node], prev : [Node -> Node]]
      BY <2>3, <3>1 DEF TypeOK, CloseNext
    <3>3. QED
      BY <2>3, <3>1, <3>2 DEF TypeOK, CloseNext
  <2>4. CASE LoopNext(t)
    <3>1. call' \in [Thread -> Calls \cup {Idle}] /\ call[t].client \in Client
      BY <2>4, AtWorks, GotoCall, CallAt DEF LoopNext
    <3>2. q' \in [next : [Node -> Node], prev : [Node -> Node]]
      BY <2>4, <3>1 DEF TypeOK, LoopNext
    <3>3. QED
      BY <2>4, <3>1, <3>2 DEF TypeOK, LoopNext
  <2>5. CASE LoopPrevious(t)
    <3>1. call' \in [Thread -> Calls \cup {Idle}] /\ call[t].client \in Client
      BY <2>5, AtWorks, GotoCall, CallAt DEF LoopPrevious
    <3>2. q' \in [next : [Node -> Node], prev : [Node -> Node]]
      BY <2>5, <3>1 DEF TypeOK, LoopPrevious
    <3>3. QED
      BY <2>5, <3>1, <3>2 DEF TypeOK, LoopPrevious
  <2>6. CASE TestRing(t)
    <3>1. call' \in [Thread -> Calls \cup {Idle}]
      BY <2>6, AtWorks, GotoCall, ReturnsCall DEF TestRing
    <3>2. QED
      BY <2>6, <3>1 DEF TypeOK, TestRing
  <2>7. CASE ReadMask(t)
    <3>1. call[t] \in Calls
      BY <2>7, AtWorks, CallAt DEF ReadMask
    <3>2. masked \cap Pic(call[t].line) \in SUBSET Line
      BY DEF TypeOK
    <3>3. [call[t] EXCEPT !.pc = "write", !.al = masked \cap Pic(call[t].line)] \in Calls
      BY <3>1, <3>2 DEF Calls
    <3>4. call' \in [Thread -> Calls \cup {Idle}]
      BY <2>7, <3>3 DEF TypeOK, ReadMask
    <3>5. QED
      BY <2>7, <3>4 DEF TypeOK, ReadMask
  <2>8. CASE WriteMask(t)
    <3>1. /\ call' \in [Thread -> Calls \cup {Idle}]
          /\ call[t].line \in Line /\ call[t].al \in SUBSET Line
      BY <2>8, AtWorks, CallAt, ReturnsCall DEF WriteMask
    <3>2. QED
      BY <2>8, <3>1 DEF TypeOK, WriteMask
  <2>9. QED
    BY <1>6, <2>1, <2>2, <2>3, <2>4, <2>5, <2>6, <2>7, <2>8 DEF DisconnectStep
<1>7. ASSUME NEW l \in Line, _irq_common(l) PROVE TypeOK'
  BY <1>7 DEF TypeOK, _irq_common, Requested
<1>8. CASE CallClient
  <2>1. isr' \in [line : Line, edi : Node, top : {"esp", "eax"}]
    BY <1>8, IsrType DEF CallClient, TypeOK
  <2>2. QED
    BY <1>8, <2>1 DEF TypeOK, CallClient
<1>9. CASE CycledRing
  BY <1>9 DEF TypeOK, CycledRing
<1>10. QED
  BY <1>1, <1>2, <1>3, <1>4, <1>5, <1>6, <1>7, <1>8, <1>9 DEF Next
-----------------------------------------------------------------------------
On(l) == {c \in Client : line[c] = l}

(* What ring says of heads and clients. *)
LEMMA RingValues ==
  /\ \A l \in Line : ring[l] = l
  /\ \A c \in Client : ring[c] = line[c]
BY LineAssumption DEF ring, Node

(* What the invariant says of the call a thread is making. *)
LEMMA WorkHolds ==
  ASSUME IridiaInv, NEW t \in Thread, Working(t), NEW k, k = call[t]
  PROVE  Holds(k)
<1>1. k # Idle
  BY DEF Working, Idle
<1>2. QED
  BY <1>1 DEF IridiaInv, CallsHold

(* The forward links of a ring are what the lemmas about walks ask for. *)
LEMMA RingSound ==
  ASSUME IridiaInv, NEW l \in Line, NEW n \in Node, ring[n] = l
  PROVE  /\ Closed(q.next, On(l), n, l)
         /\ \E rank \in [Client -> Nat] : Rises(rank, q.next, On(l), l)
<1>1. \A p \in Node : p \in On(l) \cup {l} <=> ring[p] = l
  BY RingValues, LineAssumption DEF On, Node
<1>2. \A p \in Node : q.next[p] \in Node
  BY DEF IridiaInv, TypeOK
<1>3. \A p \in Node : ring[p] = l => ring[q.next[p]] = l
  BY LineAssumption DEF IridiaInv, RingsClosed
<1>4. Closed(q.next, On(l), n, l)
  BY <1>1, <1>2, <1>3 DEF Closed, On, Node
<1>5. PICK rank \in [Client -> Nat] : Climbs(rank)
  BY DEF IridiaInv
<1>6. Rises(rank, q.next, On(l), l)
  BY <1>4, <1>5, LineAssumption DEF Rises, Climbs, Closed, On
<1>7. QED
  BY <1>4, <1>6

(* Every connected client is the next of a node on its ring, half out or   *)
(* not.                                                                    *)
LEMMA HasPredecessor ==
  ASSUME IridiaInv, NEW l \in Line, NEW c \in On(l)
  PROVE  \E p \in On(l) \cup {l} : q.next[p] = c
<1>1. c \in Node /\ ring[c] = l /\ l # NoLine
  BY RingValues, LineAssumption DEF On, Node
<1>2. \A p \in Node : ring[p] = l => p \in On(l) \cup {l}
  BY RingValues DEF On, Node
<1>3. q.prev[c] \in Node /\ ring[q.prev[c]] = l
  BY <1>1 DEF IridiaInv, TypeOK, RingsClosed
<1>4. CASE q.next[q.prev[c]] = c
  BY <1>2, <1>3, <1>4
<1>5. CASE BehindHalfOut(c)
  <2>1. PICK t \in Thread : call[t].pc = "close next" /\ call[t].ebx = c
    BY <1>5 DEF BehindHalfOut
  <2>2. PICK k : k = call[t]
    OBVIOUS
  <2>3. Holds(k) /\ k.client \in Client
    BY <2>1, <2>2, CallAt, WorkHolds DEF Working, IridiaInv
  <2>4. q.next[k.client] = c /\ line[k.client] = k.line
    BY <2>1, <2>2, <2>3 DEF Holds
  <2>5. k.line \in Line
    BY <2>1, <2>2, CallAt DEF Working, IridiaInv
  <2>6. ring[c] = line[k.client]
    <3>1. k.client \in Node /\ ring[k.client] # NoLine /\ ring[k.client] = line[k.client]
      BY <2>3, <2>4, <2>5, RingValues, LineAssumption DEF Node
    <3>2. QED
      BY <2>4, <3>1 DEF IridiaInv, RingsClosed
  <2>7. QED
    BY <1>1, <2>3, <2>4, <2>6 DEF On
<1>6. QED
  BY <1>1, <1>4, <1>5 DEF IridiaInv, LinksPaired

(* A walk from the head of a line visits the clients connected to it. *)
LEMMA WalkVisitsClients ==
  ASSUME IridiaInv, NEW l \in Line
  PROVE  Nodes(q.next, l, l) = On(l)
<1>1. l \in Node /\ ring[l] = l
  BY RingValues DEF Node
<1>2. Closed(q.next, On(l), l, l)
  BY <1>1, RingSound
<1>3. PICK rank \in [Client -> Nat] : Rises(rank, q.next, On(l), l)
  BY <1>1, RingSound
<1>4. On(l) \in SUBSET Client /\ \A c \in On(l) : \E p \in On(l) \cup {l} : q.next[p] = c
  BY HasPredecessor DEF On
<1>5. QED
  BY <1>2, <1>3, <1>4, WalkMeetsAll

(* A head that is linked to itself has no clients. *)
LEMMA EmptyRing ==
  ASSUME IridiaInv, NEW l \in Line
  PROVE  q.next[l] = l <=> ~HasClients(l)
<1>1. l \in Node /\ ring[l] = l /\ l # NoLine
  BY RingValues, LineAssumption DEF Node
<1>2. CASE q.next[l] = l
  <2>1. Closed(q.next, On(l), l, l) /\ On(l) \in SUBSET Client
    BY <1>1, RingSound DEF On
  <2>2. PICK rank \in [Client -> Nat] : Rises(rank, q.next, On(l), l)
    BY <1>1, RingSound
  <2>3. On(l) = {}
    BY <1>2, <2>1, <2>2, WalkOver, WalkVisitsClients
  <2>4. QED
    BY <1>2, <2>3 DEF On, HasClients
<1>3. CASE q.next[l] # l
  <2>1. q.next[l] \in Node /\ ring[q.next[l]] = l
    BY <1>1 DEF IridiaInv, TypeOK, RingsClosed
  <2>2. QED
    BY <1>3, <2>1, RingValues DEF Node, HasClients
<1>4. QED
  BY <1>2, <1>3
-----------------------------------------------------------------------------
(* A step works on the ring of line l and on client c, and on nothing that *)
(* another call is about.                                                  *)
OnlyRing(l, c) ==
  /\ line[c] \in {l, NoLine} /\ line'[c] \in {l, NoLine}
  /\ \A d \in Client \ {c} : line'[d] = line[d]
  /\ \A p \in Node \ {c} : ring[p] # l => q'.next[p] = q.next[p] /\ q'.prev[p] = q.prev[p]
  /\ \A u \in Thread : Working(u) /\ (call[u].line # l \/ call[u].client # c) => call'[u] = call[u]

(* Such a step leaves what the other calls rely on. *)
LEMMA OthersHold ==
  ASSUME IridiaInv, NEW l \in Line, NEW c \in Client, OnlyRing(l, c),
         NEW u \in Thread, Working(u), call[u].line # l, call[u].client # c,
         NEW k, k = call[u],
         k.pc = "write" => masked' \cap Pic(k.line) = masked \cap Pic(k.line)
  PROVE  Holds(k)'
<1>1. Holds(k) /\ k.client \in Client /\ k.line \in Line /\ k.ebx \in Node /\ k.ecx \in Node
  BY WorkHolds, CallAt DEF IridiaInv
<1>2. /\ k.client \in Node \ {c} /\ ring[k.client] = line[k.client]
      /\ line[k.client] \in {k.line, NoLine} /\ line'[k.client] = line[k.client]
  BY <1>1, RingValues DEF Holds, Node, OnlyRing
<1>3. l # NoLine /\ k.line # NoLine /\ ring[c] = line[c]
  BY <1>1, RingValues, LineAssumption
<1>4. q'.next[k.client] = q.next[k.client] /\ q'.prev[k.client] = q.prev[k.client]
  BY <1>2, <1>3 DEF OnlyRing
<1>5. ASSUME k.pc = "close next"
      PROVE  q'.next[k.ecx] = q.next[k.ecx] /\ q'.prev[k.ebx] = q.prev[k.ebx]
  <2>1. ring[k.ebx] = k.line /\ ring[k.ecx] = k.line
    BY <1>1, <1>2, <1>3, <1>5 DEF Holds, IridiaInv, RingsClosed
  <2>2. k.ebx # c /\ k.ecx # c
    BY <1>3, <2>1 DEF OnlyRing
  <2>3. QED
    BY <1>1, <2>1, <2>2 DEF OnlyRing
<1>6. HasClients(k.line)' <=> HasClients(k.line)
  BY <1>1, <1>3 DEF HasClients, OnlyRing
<1>7. QED
  BY <1>1, <1>2, <1>4, <1>5, <1>6 DEF Holds

(* A call that is removing a connected client, and the neighbours it has   *)
(* read, are on the ring of its line.                                      *)
LEMMA OwnRing ==
  ASSUME IridiaInv, NEW u \in Thread, call[u].pc \in {"close previous", "close next"}
  PROVE  /\ Working(u) /\ call[u].line \in Line /\ call[u].line # NoLine
         /\ call[u].client \in Client /\ call[u].client \in Node
         /\ call[u].ebx \in Node /\ call[u].ecx \in Node
         /\ line[call[u].client] = call[u].line
         /\ call[u].ebx = q.next[call[u].client] /\ call[u].ecx = q.prev[call[u].client]
         /\ ring[call[u].client] = call[u].line
         /\ ring[call[u].ebx] = call[u].line /\ ring[call[u].ecx] = call[u].line
<1>1. Working(u)
  BY DEF Working
<1>2. PICK k : k = call[u]
  OBVIOUS
<1>3. Holds(k) /\ k.client \in Client /\ k.line \in Line /\ k.ebx \in Node /\ k.ecx \in Node
  BY <1>1, <1>2, WorkHolds, CallAt DEF IridiaInv
<1>4. /\ line[k.client] = k.line
      /\ k.ebx = q.next[k.client] /\ k.ecx = q.prev[k.client]
  BY <1>2, <1>3 DEF Holds
<1>5. k.client \in Node /\ ring[k.client] = k.line /\ k.line # NoLine
  BY <1>3, <1>4, RingValues, LineAssumption DEF Node
<1>6. ring[k.ebx] = k.line /\ ring[k.ecx] = k.line
  BY <1>4, <1>5 DEF IridiaInv, RingsClosed
<1>7. QED
  BY <1>1, <1>2, <1>3, <1>4, <1>5, <1>6

(* Such a step leaves the other rings as they are. *)
LEMMA OthersLinked ==
  ASSUME IridiaInv, NEW l \in Line, NEW c \in Client, OnlyRing(l, c),
         NEW p \in Node, ring[p] \notin {l, NoLine}
  PROVE  /\ ring'[q'.next[p]] = ring'[p] /\ ring'[q'.prev[p]] = ring'[p]
         /\ q'.prev[q'.next[p]] = p \/ HalfOut(p)'
         /\ q'.next[q'.prev[p]] = p \/ BehindHalfOut(p)'
<1>1. /\ q.next[p] \in Node /\ q.prev[p] \in Node
      /\ ring[q.next[p]] = ring[p] /\ ring[q.prev[p]] = ring[p]
  BY DEF IridiaInv, TypeOK, RingsClosed
<1>2. p # c /\ q.next[p] # c /\ q.prev[p] # c
  BY <1>1, RingValues DEF OnlyRing
<1>3. \A x \in Node \ {c} : ring'[x] = ring[x]
  BY DEF ring, Node, OnlyRing
<1>4. \A x \in {p, q.next[p], q.prev[p]} : q'.next[x] = q.next[x] /\ q'.prev[x] = q.prev[x]
  BY <1>1, <1>2 DEF OnlyRing
<1>5. ASSUME HalfOut(p) PROVE HalfOut(p)'
  <2>1. PICK u \in Thread : call[u].pc = "close next" /\ call[u].client = p
    BY <1>5 DEF HalfOut
  <2>2. call'[u] = call[u]
    BY <2>1, OwnRing DEF OnlyRing
  <2>3. QED
    BY <2>1, <2>2 DEF HalfOut
<1>6. ASSUME BehindHalfOut(p) PROVE BehindHalfOut(p)'
  <2>1. PICK u \in Thread : call[u].pc = "close next" /\ call[u].ebx = p
    BY <1>6 DEF BehindHalfOut
  <2>2. call'[u] = call[u]
    BY <2>1, OwnRing DEF OnlyRing
  <2>3. QED
    BY <2>1, <2>2 DEF BehindHalfOut
<1>7. (q.prev[q.next[p]] = p \/ HalfOut(p)) /\ (q.next[q.prev[p]] = p \/ BehindHalfOut(p))
  BY DEF IridiaInv, LinksPaired
<1>8. ring'[q'.next[p]] = ring'[p] /\ ring'[q'.prev[p]] = ring'[p]
  BY <1>1, <1>2, <1>3, <1>4
<1>9. QED
  BY <1>4, <1>5, <1>6, <1>7, <1>8

(* So that only the ring of l, and c, remain to be looked at. *)
LEMMA RingsStep ==
  ASSUME IridiaInv, NEW l \in Line, NEW c \in Client, OnlyRing(l, c),
         \A p \in Node : ring'[p] = l =>
           /\ ring'[q'.next[p]] = l /\ ring'[q'.prev[p]] = l
           /\ q'.prev[q'.next[p]] = p \/ HalfOut(p)'
           /\ q'.next[q'.prev[p]] = p \/ BehindHalfOut(p)',
         line'[c] = NoLine =>
           \/ q'.next[c] = c /\ q'.prev[c] = c
           \/ \E t \in Thread : call'[t].pc \in {"loop next", "loop previous"} /\ call'[t].client = c
  PROVE  RingsClosed' /\ LinksPaired' /\ LooseClients'
<1>1. \A x \in Node \ {c} : ring'[x] = ring[x]
  BY DEF ring, Node, OnlyRing
<1>2. ring'[c] = line'[c]
  BY LineAssumption DEF ring, Node
<1>3. ASSUME NEW p \in Node, ring'[p] # NoLine
      PROVE  /\ ring'[q'.next[p]] = ring'[p] /\ ring'[q'.prev[p]] = ring'[p]
             /\ q'.prev[q'.next[p]] = p \/ HalfOut(p)'
             /\ q'.next[q'.prev[p]] = p \/ BehindHalfOut(p)'
  <2>1. CASE ring'[p] = l
    BY <2>1
  <2>2. CASE ring'[p] # l
    <3>1. ring[p] \notin {l, NoLine}
      BY <1>1, <1>2, <1>3, <2>2 DEF OnlyRing
    <3>2. QED
      BY <3>1, OthersLinked
  <2>3. QED
    BY <2>1, <2>2
<1>4. RingsClosed'
  BY <1>3 DEF RingsClosed
<1>5. LinksPaired'
  BY <1>3 DEF LinksPaired
<1>6. LooseClients'
  <2> SUFFICES ASSUME NEW d \in Client, line'[d] = NoLine
               PROVE  \/ q'.next[d] = d /\ q'.prev[d] = d
                      \/ \E t \in Thread : /\ call'[t].pc \in {"loop next", "loop previous"}
                                          /\ call'[t].client = d
    BY DEF LooseClients
  <2>1. CASE d = c
    BY <2>1
  <2>2. CASE d # c
    <3>1. line[d] = NoLine /\ d \in Node \ {c} /\ ring[d] # l
      BY <2>2, RingValues, LineAssumption DEF OnlyRing, Node
    <3>2. q'.next[d] = q.next[d] /\ q'.prev[d] = q.prev[d]
      BY <3>1 DEF OnlyRing
    <3>3. CASE q.next[d] = d /\ q.prev[d] = d
      BY <3>2, <3>3
    <3>4. ASSUME NEW u \in Thread, call[u].pc \in {"loop next", "loop previous"}, call[u].client = d
          PROVE  call'[u] = call[u]
      BY <2>2, <3>4 DEF OnlyRing, Working
    <3>5. QED
      BY <3>1, <3>3, <3>4 DEF IridiaInv, LooseClients
  <2>3. QED
    BY <2>1, <2>2
<1>7. QED
  BY <1>4, <1>5, <1>6

(* The calls hold after a step of thread t that its own call survives. *)
LEMMA CallsStep ==
  ASSUME IridiaInv, NEW l \in Line, NEW c \in Client, OnlyRing(l, c),
         NEW t \in Thread,
         \A u \in Thread \ {t} : call'[u] = call[u],
         \A u \in Thread \ {t} : Working(u) => call[u].line # l /\ call[u].client # c,
         \A u \in Thread \ {t} : call[u].pc = "write" =>
            masked' \cap Pic(call[u].line) = masked \cap Pic(call[u].line),
         NEW j, j = call'[t], j = Idle \/ Holds(j)'
  PROVE  CallsHold'
<1> SUFFICES ASSUME NEW u \in Thread, NEW k, k = call'[u], k # Idle PROVE Holds(k)'
  BY DEF CallsHold
<1>1. CASE u = t
  BY <1>1
<1>2. CASE u # t
  <2>1. k = call[u] /\ Working(u)
    <3>1. k = call[u]
      BY <1>2
    <3>2. k \in Calls
      BY <3>1 DEF IridiaInv, TypeOK
    <3>3. QED
      BY <3>1, <3>2 DEF Working, Calls
  <2>2. QED
    BY <1>2, <2>1, OthersHold
<1>3. QED
  BY <1>1, <1>2

(* A call that goes on keeps apart from the others. *)
LEMMA ApartStep ==
  ASSUME IridiaInv, NEW t \in Thread, \A u \in Thread \ {t} : call'[u] = call[u],
         \/ call'[t] = Idle
         \/ /\ Working(t) /\ call'[t].pc # "write"
            /\ call'[t].line = call[t].line /\ call'[t].client = call[t].client
  PROVE  CallsApart'
BY DEF IridiaInv, CallsApart, Working, Idle
-----------------------------------------------------------------------------
(* On a ring no call works on, all neighbours point at each other. *)
LEMMA QuietRing ==
  ASSUME IridiaInv, NEW l \in Line, NEW p \in Node, ring[p] = l,
         \A u \in Thread : call[u].pc = "close next" => call[u].line # l
  PROVE  q.prev[q.next[p]] = p /\ q.next[q.prev[p]] = p
<1>1. ~HalfOut(p)
  BY OwnRing DEF HalfOut
<1>2. ~BehindHalfOut(p)
  BY OwnRing DEF BehindHalfOut
<1>3. QED
  BY <1>1, <1>2, LineAssumption DEF IridiaInv, LinksPaired

(* A step that leaves links, masks and calls keeps what is said of them. *)
LEMMA FrameKeeps ==
  ASSUME IridiaInv, UNCHANGED <<q, masked, call, line>>
  PROVE  /\ RingsClosed' /\ LinksPaired' /\ LooseClients'
         /\ CallsHold' /\ CallsApart' /\ LinesMasked'
         /\ \E rank \in [Client -> Nat] : Climbs(rank)'
<1>1. ring' = ring
  BY DEF ring
<1>2. RingsClosed'
  BY <1>1 DEF IridiaInv, RingsClosed
<1>3. LinksPaired'
  BY <1>1 DEF IridiaInv, LinksPaired, HalfOut, BehindHalfOut
<1>4. LooseClients'
  BY DEF IridiaInv, LooseClients
<1>5. CallsHold'
  BY ZenonT(60) DEF IridiaInv, CallsHold, Holds, HasClients
<1>6. CallsApart'
  BY DEF IridiaInv, CallsApart, Working
<1>7. LinesMasked'
  BY DEF IridiaInv, LinesMasked, HasClients
<1>8. \E rank \in [Client -> Nat] : Climbs(rank)'
  BY DEF IridiaInv, Climbs
<1>9. QED
  BY <1>2, <1>3, <1>4, <1>5, <1>6, <1>7, <1>8

(* irq.connect links its client on a ring that no call works on. *)
LEMMA ConnectKeeps ==
  ASSUME IridiaInv, Allow = {}, NEW c \in Client, NEW l \in Line, irq_connect(c, l)
  PROVE  IridiaInv'
<1>1. TypeOK /\ TypeOK'
  BY TypeStep DEF IridiaInv, Next
<1>2. /\ line[c] = NoLine /\ l # Cascade /\ idt[l] = "irq"
      /\ ~Unfinished(l, c) /\ ~MaskHeld(l)
      /\ UNCHANGED <<serving, idt, isr, call>>
  BY DEF irq_connect
<1>3. CASE ~CanInsertAfter(q, c, l)
  <2>1. UNCHANGED <<q, masked, line>>
    BY <1>3 DEF irq_connect
  <2>2. ClientsOn' /\ WalkOnRing'
    BY <1>2, <2>1 DEF IridiaInv, ClientsOn, WalkOnRing, ring
  <2>3. QED
    BY <1>1, <1>2, <2>1, <2>2, FrameKeeps DEF IridiaInv
<1>4. CASE CanInsertAfter(q, c, l)
  <2>1. /\ masked' = masked \ {l} /\ line' = [line EXCEPT ![c] = l]
        /\ q' = insert_after(q, c, l)
    BY <1>4 DEF irq_connect, connect_links
  <2>2. PICK b : b = q.next[l]
    OBVIOUS
  <2>3. /\ c \in Node /\ l \in Node /\ c # l /\ l # NoLine /\ ring[l] = l /\ ring[c] = NoLine
        /\ b \in Node /\ ring[b] = l
    BY <1>1, <1>2, <2>2, RingValues, LineAssumption DEF Node, IridiaInv, RingsClosed, TypeOK
  <2>4. /\ q'.next = [q.next EXCEPT ![c] = b, ![l] = c]
        /\ q'.prev = [q.prev EXCEPT ![c] = l, ![b] = c]
    BY <2>1, <2>2 DEF insert_after, LinkBetween
  <2>5. /\ \A p \in Node : q'.next[p] = IF p = l THEN c ELSE IF p = c THEN b ELSE q.next[p]
        /\ \A p \in Node : q'.prev[p] = IF p = b THEN c ELSE IF p = c THEN l ELSE q.prev[p]
    BY <1>1, <2>3, <2>4 DEF TypeOK
  <2>6. line'[c] = l /\ \A d \in Client \ {c} : line'[d] = line[d]
    BY <1>1, <2>1 DEF TypeOK
  <2>7. \A u \in Thread : Working(u) => call[u].line # l /\ call[u].client # c
    BY <1>2 DEF Unfinished
  <2>8. OnlyRing(l, c)
    BY <1>2, <2>3, <2>5, <2>6 DEF OnlyRing
  <2>9. \A p \in Node : ring'[p] = l <=> p = c \/ ring[p] = l
    <3>1. \A p \in Node : ring'[p] = IF p \in Line THEN p ELSE line'[p]
      BY DEF ring
    <3>2. \A p \in Node : p # c => ring'[p] = ring[p]
      BY <2>6, <3>1 DEF ring, Node
    <3>3. ring'[c] = l
      BY <2>3, <2>6, <3>1, LineAssumption
    <3>4. QED
      BY <3>2, <3>3
  <2>10. ASSUME NEW p \in Node, ring[p] = l
         PROVE  /\ q.prev[q.next[p]] = p /\ q.next[q.prev[p]] = p
                /\ q.next[p] \in Node /\ ring[q.next[p]] = l
                /\ q.prev[p] \in Node /\ ring[q.prev[p]] = l
    <3>1. q.prev[q.next[p]] = p /\ q.next[q.prev[p]] = p
      BY <2>7, <2>10, QuietRing DEF Working
    <3>2. QED
      BY <1>1, <2>3, <2>10, <3>1 DEF IridiaInv, RingsClosed, TypeOK
  <2>11. b # c
    BY <2>3
  <2>12. ASSUME NEW p \in Node, ring'[p] = l
         PROVE  /\ ring'[q'.next[p]] = l /\ ring'[q'.prev[p]] = l
                /\ q'.prev[q'.next[p]] = p
                /\ q'.next[q'.prev[p]] = p
    <3>1. CASE p = c
      BY <2>3, <2>5, <2>9, <2>11, <3>1
    <3>2. CASE p # c
      <4>1. ring[p] = l
        BY <2>9, <2>12, <3>2
      <4>2. ring'[q'.next[p]] = l /\ ring'[q'.prev[p]] = l
        BY <2>3, <2>5, <2>9, <2>10, <3>2, <4>1
      <4>3. q'.prev[q'.next[p]] = p
        BY <2>2, <2>3, <2>5, <2>10, <2>11, <3>2, <4>1
      <4>4. q'.next[q'.prev[p]] = p
        BY <2>2, <2>3, <2>5, <2>10, <2>11, <3>2, <4>1
      <4>5. QED
        BY <4>2, <4>3, <4>4
    <3>3. QED
      BY <3>1, <3>2
  <2>13. RingsClosed' /\ LinksPaired' /\ LooseClients'
    BY <2>3, <2>6, <2>8, <2>12, RingsStep
  <2>14. CallsHold'
    <3> SUFFICES ASSUME NEW u \in Thread, NEW k, k = call'[u], k # Idle PROVE Holds(k)'
      BY DEF CallsHold
    <3>1. k = call[u] /\ k \in Calls /\ Working(u)
      BY <1>1, <1>2 DEF TypeOK, Working, Calls
    <3>2. k.pc = "write" => masked' \cap Pic(k.line) = masked \cap Pic(k.line)
      <4> SUFFICES ASSUME k.pc = "write" PROVE l \notin Pic(k.line)
        BY <2>1
      <4>1. k.line \in Line /\ k.line \notin Pic(l)
        BY <1>2, <3>1 DEF MaskHeld, Calls
      <4>2. QED
        BY <4>1, Lines
    <3>3. QED
      BY <2>7, <2>8, <3>1, <3>2, OthersHold
  <2>15. CallsApart'
    BY <1>2 DEF IridiaInv, CallsApart, Working
  <2>16. LinesMasked'
    <3>1. HasClients(l)'
      BY <2>6 DEF HasClients
    <3>2. ASSUME NEW j \in Line \ {Cascade}, j # l
          PROVE  /\ HasClients(j) => HasClients(j)'
                 /\ j \in masked => j \in masked'
      <4>1. ASSUME NEW d \in Client, line[d] = j PROVE line'[d] = j
        BY <1>2, <2>6, <4>1, LineAssumption
      <4>2. QED
        BY <2>1, <3>2, <4>1 DEF HasClients
    <3>3. QED
      BY <1>2, <3>1, <3>2 DEF IridiaInv, LinesMasked
  <2>17. ClientsOn'
    BY <1>2, <2>1, <2>3, <2>6 DEF IridiaInv, ClientsOn
  <2>18. WalkOnRing'
    BY <1>1, <1>2, <2>9, <2>3, <2>6, IsrType DEF IridiaInv, WalkOnRing, ring, Node
  <2>19. \E rank \in [Client -> Nat] : Climbs(rank)'
    <3>1. PICK rank \in [Client -> Nat] : Climbs(rank)
      BY DEF IridiaInv
    <3>2. PICK r : r = [d \in Client |-> IF d = c THEN 0 ELSE rank[d] + 1]
      OBVIOUS
    <3>3. r \in [Client -> Nat]
      BY <3>2
    <3>4. ASSUME NEW d \in Client, line'[d] # NoLine, q'.next[d] \in Client
          PROVE  r[d] < r[q'.next[d]]
      <4>1. d \in Node /\ d # l
        BY LineAssumption DEF Node
      <4>2. CASE d = c
        BY <2>3, <2>5, <2>11, <3>2, <3>4, <4>1, <4>2
      <4>3. CASE d # c
        <5>1. q'.next[d] = q.next[d] /\ line[d] # NoLine /\ ring[d] = line[d]
          BY <2>5, <2>6, <3>4, <4>1, <4>3, RingValues
        <5>2. q.next[d] # c
          BY <2>3, <4>1, <5>1 DEF IridiaInv, RingsClosed
        <5>3. rank[d] < rank[q.next[d]]
          BY <3>1, <3>4, <5>1 DEF Climbs
        <5>4. QED
          BY <3>2, <3>4, <4>3, <5>1, <5>2, <5>3
      <4>4. QED
        BY <4>2, <4>3
    <3>5. QED
      BY <3>3, <3>4 DEF Climbs
  <2>20. QED
    BY <1>1, <2>13, <2>14, <2>15, <2>16, <2>17, <2>18, <2>19 DEF IridiaInv
<1>5. QED
  BY <1>3, <1>4

(* A handler is set on a vector that no client relies on. *)
LEMMA HandlerKeeps ==
  ASSUME IridiaInv, Allow = {}, NEW v \in Claimed, NEW h \in {"own", "unhandled"}, set_handler(v, h)
  PROVE  IridiaInv'
<1>1. TypeOK'
  BY TypeStep DEF IridiaInv, Next, unset_handler
<1>2. UNCHANGED <<machine, q, masked, serving, isr, call, line>> /\ idt' = [idt EXCEPT ![v] = h]
  BY DEF set_handler
<1>3. v \in Fault \/ ~HasClients(v)
  BY DEF set_handler
<1>4. ASSUME NEW c \in Client, line[c] # NoLine PROVE idt'[line[c]] = idt[line[c]]
  <2>1. line[c] \in Line /\ line[c] \in Vector
    BY <1>4 DEF IridiaInv, TypeOK, Vector
  <2>2. line[c] # v
    BY <1>3, <2>1, LineAssumption DEF HasClients
  <2>3. QED
    BY <1>2, <2>1, <2>2 DEF IridiaInv, TypeOK
<1>5. ClientsOn'
  BY <1>2, <1>4 DEF IridiaInv, ClientsOn
<1>6. WalkOnRing'
  BY <1>2 DEF IridiaInv, WalkOnRing, ring
<1>7. QED
  BY <1>1, <1>2, <1>5, <1>6, FrameKeeps DEF IridiaInv

(* The handler's own steps change neither links nor calls. *)
LEMMA InterruptKeeps ==
  ASSUME IridiaInv,
         \/ \E v \in Vector : _unhandled_interrupt(v)
         \/ \E l \in Line : _irq_common(l)
         \/ CallClient
         \/ CycledRing
  PROVE  IridiaInv'
<1>1. TypeOK' /\ TypeOK
  BY TypeStep DEF IridiaInv, Next
<1>2. UNCHANGED <<q, masked, idt, call, line>>
  BY DEF _unhandled_interrupt, _irq_common, CallClient, CycledRing
<1>3. serving' = {}
  BY DEF _unhandled_interrupt, _irq_common, CallClient, CycledRing, Requested, acknowledge,
         IridiaInv, ClientsOn
<1>4. ring' = ring
  BY <1>2 DEF ring
<1>5. WalkOnRing'
  <2>1. CASE \E v \in Vector : _unhandled_interrupt(v)
    BY <1>4, <2>1 DEF _unhandled_interrupt, IridiaInv, WalkOnRing
  <2>2. ASSUME NEW l \in Line, _irq_common(l) PROVE WalkOnRing'
    <3>1. isr'.line = l /\ isr'.edi = l
      BY <2>2 DEF _irq_common
    <3>2. QED
      BY <1>4, <3>1, RingValues DEF WalkOnRing
  <2>3. CASE CallClient
    <3>1. /\ isr # NoIsr /\ isr' = [isr EXCEPT !.edi = q.next[isr.edi], !.top = "eax"]
      BY <2>3 DEF CallClient
    <3>2. /\ isr \in [line : Line, edi : Node, top : {"esp", "eax"}]
          /\ isr.line # NoLine /\ isr.edi \in Node
      BY <1>1, <3>1, IsrType
    <3>3. isr'.line = isr.line /\ isr'.edi = q.next[isr.edi]
      BY <3>1, <3>2
    <3>4. ring[q.next[isr.edi]] = isr.line
      BY <3>1, <3>2 DEF IridiaInv, WalkOnRing, RingsClosed
    <3>5. QED
      BY <1>4, <3>3, <3>4 DEF WalkOnRing
  <2>4. CASE CycledRing
    BY <2>4 DEF CycledRing, WalkOnRing, NoIsr
  <2>5. QED
    BY <2>1, <2>2, <2>3, <2>4
<1>6. ClientsOn'
  BY <1>2, <1>3 DEF IridiaInv, ClientsOn
<1>7. QED
  BY <1>1, <1>2, <1>5, <1>6, FrameKeeps DEF IridiaInv

(* A step of thread t that leaves the links, and is not about to finish    *)
(* with a half removed client.                                             *)
LEMMA QuietKeeps ==
  ASSUME IridiaInv, UNCHANGED <<q, line>>, NEW t \in Thread,
         \A u \in Thread \ {t} : call'[u] = call[u],
         call[t].pc \notin {"close next", "loop next", "loop previous"}
  PROVE  /\ RingsClosed' /\ LinksPaired' /\ LooseClients'
         /\ \E rank \in [Client -> Nat] : Climbs(rank)'
<1>1. ring' = ring
  BY DEF ring
<1>2. RingsClosed'
  BY <1>1 DEF IridiaInv, RingsClosed
<1>3. \A p : (HalfOut(p) => HalfOut(p)') /\ (BehindHalfOut(p) => BehindHalfOut(p)')
  BY DEF HalfOut, BehindHalfOut
<1>4. LinksPaired'
  BY <1>1, <1>3 DEF IridiaInv, LinksPaired
<1>5. LooseClients'
  BY ZenonT(60) DEF IridiaInv, LooseClients
<1>6. \E rank \in [Client -> Nat] : Climbs(rank)'
  BY DEF IridiaInv, Climbs
<1>7. QED
  BY <1>2, <1>4, <1>5, <1>6

(* Starting a call reads the neighbours of a client no other call is at. *)
LEMMA StartKeeps ==
  ASSUME IridiaInv, Allow = {}, NEW t \in Thread, NEW c \in Client, NEW l \in Line,
         irq_disconnect(t, c, l)
  PROVE  IridiaInv'
<1>1. TypeOK /\ TypeOK'
  BY TypeStep DEF IridiaInv, Next
<1>2. /\ ~Working(t) /\ line[c] \in {l, NoLine} /\ l # Cascade /\ ~Unfinished(l, c)
      /\ UNCHANGED <<machine, q, masked, serving, idt, isr, line>>
  BY DEF irq_disconnect
<1>3. PICK k : k = [pc |-> "check", client |-> c, line |-> l,
                    ebx |-> q.next[c], ecx |-> q.prev[c], al |-> {}]
  OBVIOUS
<1>4. call'[t] = k /\ \A u \in Thread \ {t} : call'[u] = call[u]
  BY <1>1, <1>3 DEF irq_disconnect, TypeOK
<1>5. \A u \in Thread : Working(u) => u # t /\ call[u].line # l /\ call[u].client # c
  BY <1>2 DEF Unfinished
<1>6. OnlyRing(l, c)
  BY <1>2, <1>4, <1>5 DEF OnlyRing
<1>7. Holds(k)'
  BY <1>2, <1>3 DEF Holds
<1>8. CallsHold'
  BY <1>2, <1>4, <1>5, <1>6, <1>7, CallsStep
<1>9. CallsApart'
  BY <1>3, <1>4, <1>5 DEF IridiaInv, CallsApart, Working
<1>10. call[t].pc = "idle"
  BY <1>2 DEF Working
<1>11. LinesMasked'
  BY <1>2, <1>4, <1>10 DEF IridiaInv, LinesMasked, HasClients
<1>12. ClientsOn' /\ WalkOnRing'
  BY <1>2 DEF IridiaInv, ClientsOn, WalkOnRing, ring
<1>13. QED
  BY <1>1, <1>2, <1>4, <1>8, <1>9, <1>10, <1>11, <1>12, QuietKeeps DEF IridiaInv
-----------------------------------------------------------------------------
(* What a step of a call may assume: its record, what it holds, and that   *)
(* the other calls are elsewhere.                                          *)
LEMMA CallContext ==
  ASSUME IridiaInv, NEW t \in Thread, Working(t), NEW k, k = call[t]
  PROVE  /\ TypeOK /\ Holds(k)
         /\ k.client \in Client /\ k.client \in Node /\ k.line \in Line /\ k.line \in Node
         /\ k.line # NoLine /\ k.line # k.client /\ k.line # Cascade
         /\ k.ebx \in Node /\ k.ecx \in Node
         /\ ring[k.client] = line[k.client] /\ line[k.client] \in {k.line, NoLine}
         /\ \A u \in Thread \ {t} : Working(u) => call[u].line # k.line /\ call[u].client # k.client
<1>1. /\ TypeOK /\ Holds(k) /\ k.client \in Client /\ k.line \in Line
      /\ k.ebx \in Node /\ k.ecx \in Node
  BY WorkHolds, CallAt DEF IridiaInv
<1>2. \A u \in Thread \ {t} : Working(u) => call[u].line # k.line /\ call[u].client # k.client
  BY DEF IridiaInv, CallsApart
<1>3. line[k.client] \in {k.line, NoLine} /\ k.line # Cascade
  BY <1>1 DEF Holds
<1>4. QED
  BY <1>1, <1>2, <1>3, RingValues, LineAssumption DEF Node

(* While no client is half out, other calls keep off the ring of a call.   *)
LEMMA OwnRingQuiet ==
  ASSUME IridiaInv, NEW t \in Thread, Working(t), call[t].pc # "close next",
         NEW p \in Node, ring[p] = call[t].line
  PROVE  q.prev[q.next[p]] = p /\ q.next[q.prev[p]] = p
<1>1. call[t].line \in Line
  BY CallContext
<1>2. \A u \in Thread : call[u].pc = "close next" => call[u].line # call[t].line
  BY DEF Working, IridiaInv, CallsApart
<1>3. QED
  BY <1>1, <1>2, QuietRing

(* A line that is off stays masked, or about to be. *)
LEMMA MaskedStep ==
  ASSUME IridiaInv, UNCHANGED line, masked \subseteq masked', NEW t \in Thread,
         \A u \in Thread \ {t} : call'[u] = call[u],
         \/ call[t].pc \notin {"loop next", "loop previous", "test", "read", "write"}
         \/ /\ call'[t].pc \in {"loop next", "loop previous", "test", "read", "write"}
            /\ call'[t].line = call[t].line
         \/ HasClients(call[t].line) \/ call[t].line \in masked'
  PROVE  LinesMasked'
<1> SUFFICES ASSUME NEW l \in Line \ {Cascade}
             PROVE  \/ HasClients(l)'
                    \/ l \in masked'
                    \/ \E u \in Thread :
                         /\ call'[u].pc \in {"loop next", "loop previous", "test", "read", "write"}
                         /\ call'[u].line = l
  BY DEF LinesMasked
<1>1. HasClients(l)' <=> HasClients(l)
  BY DEF HasClients
<1>2. CASE HasClients(l) \/ l \in masked
  BY <1>1, <1>2
<1>3. ASSUME NEW u \in Thread, call[u].line = l,
             call[u].pc \in {"loop next", "loop previous", "test", "read", "write"}
      PROVE  \/ HasClients(l)'
             \/ l \in masked'
             \/ \E w \in Thread :
                  /\ call'[w].pc \in {"loop next", "loop previous", "test", "read", "write"}
                  /\ call'[w].line = l
  BY <1>1, <1>3
<1>4. QED
  BY <1>2, <1>3 DEF IridiaInv, LinesMasked

(* remove's checks let only a connected client through. *)
LEMMA ChecksKeep ==
  ASSUME IridiaInv, NEW t \in Thread, RemoveChecks(t)
  PROVE  IridiaInv'
<1>1. Working(t) /\ call[t].pc = "check" /\ UNCHANGED <<machine, q, masked, serving, idt, isr, line>>
  BY AtWorks DEF RemoveChecks, At
<1>2. PICK k : k = call[t]
  OBVIOUS
<1>3. /\ TypeOK /\ Holds(k) /\ k.client \in Client /\ k.line \in Line
      /\ line[k.client] \in {k.line, NoLine}
      /\ \A u \in Thread \ {t} : Working(u) => call[u].line # k.line /\ call[u].client # k.client
  BY <1>1, <1>2, CallContext
<1>4. TypeOK'
  BY <1>3, TypeStep DEF Next, DisconnectStep
<1>5. PICK j : j = call'[t]
  OBVIOUS
<1>6. /\ \A u \in Thread \ {t} : call'[u] = call[u]
      /\ \/ j = Idle
         \/ /\ k.ebx # k.client
            /\ j.pc = "close previous" /\ j.client = k.client /\ j.line = k.line
            /\ j.ebx = k.ebx /\ j.ecx = k.ecx
  BY <1>1, <1>2, <1>3, <1>5, GotoCall, ReturnsCall DEF RemoveChecks
<1>7. OnlyRing(k.line, k.client)
  BY <1>1, <1>2, <1>3, <1>6 DEF OnlyRing
<1>8. line[k.client] = NoLine => q.next[k.client] = k.client
  BY <1>1, <1>2, <1>3 DEF IridiaInv, LooseClients, Working
<1>9. k.ebx = q.next[k.client] /\ k.ecx = q.prev[k.client] /\ k.line # Cascade
  BY <1>1, <1>2, <1>3 DEF Holds
<1>10. j = Idle \/ Holds(j)'
  BY <1>1, <1>3, <1>6, <1>8, <1>9 DEF Holds
<1>11. CallsHold'
  BY <1>1, <1>3, <1>5, <1>6, <1>7, <1>10, CallsStep
<1>12. CallsApart'
  BY <1>1, <1>2, <1>5, <1>6, ApartStep
<1>13. LinesMasked'
  BY <1>1, <1>6, MaskedStep
<1>14. ClientsOn' /\ WalkOnRing'
  BY <1>1 DEF IridiaInv, ClientsOn, WalkOnRing, ring
<1>15. QED
  BY <1>1, <1>4, <1>6, <1>11, <1>12, <1>13, <1>14, QuietKeeps DEF IridiaInv

(* The successor stops pointing back at the client, which is now half out. *)
LEMMA ClosePreviousKeeps ==
  ASSUME IridiaInv, NEW t \in Thread, ClosePrevious(t)
  PROVE  IridiaInv'
<1>1. Working(t) /\ call[t].pc = "close previous" /\ UNCHANGED <<machine, masked, serving, idt, isr, line>>
  BY AtWorks DEF ClosePrevious, At
<1>2. PICK k : k = call[t]
  OBVIOUS
<1>3. /\ TypeOK /\ Holds(k) /\ k.client \in Client /\ k.client \in Node /\ k.line \in Line
      /\ k.line # NoLine /\ k.ebx \in Node /\ k.ecx \in Node
      /\ \A u \in Thread \ {t} : Working(u) => call[u].line # k.line /\ call[u].client # k.client
  BY <1>1, <1>2, CallContext
<1>4. /\ line[k.client] = k.line /\ ring[k.client] = k.line
      /\ k.ebx = q.next[k.client] /\ k.ecx = q.prev[k.client]
      /\ ring[k.ebx] = k.line /\ ring[k.ecx] = k.line
  BY <1>1, <1>2, OwnRing
<1>5. TypeOK' /\ ring' = ring
  BY <1>1, <1>3, TypeStep DEF Next, DisconnectStep, ring
<1>6. PICK j : j = call'[t]
  OBVIOUS
<1>7. /\ \A u \in Thread \ {t} : call'[u] = call[u]
      /\ j.pc = "close next" /\ j.client = k.client /\ j.line = k.line
      /\ j.ebx = k.ebx /\ j.ecx = k.ecx
  BY <1>1, <1>2, <1>3, <1>6, GotoCall DEF ClosePrevious
<1>8. q' = [q EXCEPT !.prev[k.ebx] = k.ecx]
  BY <1>2 DEF ClosePrevious
<1>9. /\ q'.next = q.next
      /\ \A p \in Node : q'.prev[p] = IF p = k.ebx THEN k.ecx ELSE q.prev[p]
  BY <1>3, <1>8 DEF TypeOK
<1>10. OnlyRing(k.line, k.client)
  BY <1>1, <1>2, <1>3, <1>4, <1>7, <1>9 DEF OnlyRing
<1>11. ASSUME NEW p \in Node, ring[p] = k.line
       PROVE  /\ q.prev[q.next[p]] = p /\ q.next[q.prev[p]] = p
              /\ q.next[p] \in Node /\ ring[q.next[p]] = k.line
              /\ q.prev[p] \in Node /\ ring[q.prev[p]] = k.line
  <2>1. q.prev[q.next[p]] = p /\ q.next[q.prev[p]] = p
    BY <1>1, <1>2, <1>11, OwnRingQuiet
  <2>2. QED
    BY <1>3, <1>11, <2>1 DEF IridiaInv, RingsClosed, TypeOK
<1>12. \A p : (p = k.client => HalfOut(p)') /\ (p = k.ebx => BehindHalfOut(p)')
  BY <1>6, <1>7 DEF HalfOut, BehindHalfOut
<1>13. ASSUME NEW p \in Node, ring[p] = k.line
       PROVE  /\ ring[q'.next[p]] = k.line /\ ring[q'.prev[p]] = k.line
              /\ q'.prev[q'.next[p]] = p \/ HalfOut(p)'
              /\ q'.next[q'.prev[p]] = p \/ BehindHalfOut(p)'
  <2>1. q'.next[p] = q.next[p] /\ q.next[p] \in Node /\ ring[q.next[p]] = k.line
    BY <1>9, <1>11, <1>13
  <2>2. ring[q'.prev[p]] = k.line
    BY <1>4, <1>9, <1>11, <1>13
  <2>3. q'.prev[q'.next[p]] = p \/ p = k.client
    <3>1. q.prev[q.next[p]] = p /\ q.prev[k.ebx] = k.client
      BY <1>3, <1>4, <1>11, <1>13
    <3>2. QED
      BY <1>9, <2>1, <3>1
  <2>4. q'.next[q'.prev[p]] = p \/ p = k.ebx
    BY <1>9, <1>11, <1>13
  <2>5. QED
    BY <1>12, <2>1, <2>2, <2>3, <2>4
<1>14. RingsClosed' /\ LinksPaired' /\ LooseClients'
  BY <1>1, <1>3, <1>4, <1>5, <1>10, <1>13, RingsStep
<1>15. PICK rank \in [Client -> Nat] : Climbs(rank)
  BY DEF IridiaInv
<1>16. k.ebx # k.client /\ Climbs(rank)'
  <2>1. k.ebx # k.client
    BY <1>3, <1>4, <1>15 DEF Climbs
  <2>2. Climbs(rank)'
    BY <1>1, <1>9, <1>15 DEF Climbs
  <2>3. QED
    BY <2>1, <2>2
<1>17. Holds(j)'
  <2>1. q'.next[k.client] = k.ebx /\ q'.prev[k.client] = k.ecx
    BY <1>3, <1>4, <1>9, <1>16
  <2>2. q'.next[k.ecx] = k.client /\ q'.prev[k.ebx] = k.ecx
    BY <1>3, <1>4, <1>9, <1>11
  <2>3. k.line # Cascade
    BY <1>3 DEF Holds
  <2>4. QED
    BY <1>1, <1>4, <1>7, <2>1, <2>2, <2>3 DEF Holds
<1>18. CallsHold'
  BY <1>1, <1>3, <1>6, <1>7, <1>10, <1>17, CallsStep
<1>19. CallsApart'
  BY <1>1, <1>2, <1>6, <1>7, ApartStep
<1>20. LinesMasked'
  BY <1>1, <1>7, MaskedStep
<1>21. ClientsOn' /\ WalkOnRing'
  BY <1>1, <1>5 DEF IridiaInv, ClientsOn, WalkOnRing
<1>22. QED
  BY <1>5, <1>14, <1>16, <1>18, <1>19, <1>20, <1>21 DEF IridiaInv

(* The store that takes the client off its ring: a walk passes it by. *)
LEMMA CloseNextKeeps ==
  ASSUME IridiaInv, NEW t \in Thread, CloseNext(t)
  PROVE  IridiaInv'
<1>1. Working(t) /\ call[t].pc = "close next" /\ UNCHANGED <<machine, masked, serving, idt, isr>>
  BY AtWorks DEF CloseNext, At
<1>2. PICK k : k = call[t]
  OBVIOUS
<1>3. /\ TypeOK /\ Holds(k) /\ k.client \in Client /\ k.client \in Node /\ k.line \in Line
      /\ k.line # NoLine /\ k.ebx \in Node /\ k.ecx \in Node /\ ring[k.client] = line[k.client]
      /\ \A u \in Thread \ {t} : Working(u) => call[u].line # k.line /\ call[u].client # k.client
  BY <1>1, <1>2, CallContext
<1>4. TypeOK'
  BY <1>3, TypeStep DEF Next, DisconnectStep
<1>5. PICK j : j = call'[t]
  OBVIOUS
<1>6. /\ \A u \in Thread \ {t} : call'[u] = call[u]
      /\ j.pc = "loop next" /\ j.client = k.client /\ j.line = k.line
  BY <1>1, <1>2, <1>3, <1>5, GotoCall DEF CloseNext
<1>7. /\ line[k.client] = k.line /\ ring[k.client] = k.line
      /\ q.next[k.client] = k.ebx /\ q.prev[k.client] = k.ecx
      /\ q.next[k.ecx] = k.client /\ q.prev[k.ebx] = k.ecx
      /\ ring[k.ebx] = k.line /\ ring[k.ecx] = k.line
  <2>1. q.next[k.ecx] = k.client /\ q.prev[k.ebx] = k.ecx
    BY <1>1, <1>2, <1>3 DEF Holds
  <2>2. QED
    BY <1>1, <1>2, <2>1, OwnRing
<1>8. q' = [q EXCEPT !.next[k.ecx] = k.ebx] /\ line' = [line EXCEPT ![k.client] = NoLine]
  BY <1>2 DEF CloseNext
<1>9. /\ q'.prev = q.prev
      /\ \A p \in Node : q'.next[p] = IF p = k.ecx THEN k.ebx ELSE q.next[p]
  BY <1>3, <1>8 DEF TypeOK
<1>10. line'[k.client] = NoLine /\ \A d \in Client \ {k.client} : line'[d] = line[d]
  BY <1>3, <1>8 DEF TypeOK
<1>11. OnlyRing(k.line, k.client)
  BY <1>1, <1>2, <1>3, <1>6, <1>7, <1>9, <1>10 DEF OnlyRing
<1>12. /\ \A p \in Node : p # k.client => ring'[p] = ring[p]
       /\ ring'[k.client] = NoLine
  BY <1>3, <1>10, LineAssumption DEF ring, Node
<1>13. PICK rank \in [Client -> Nat] : Climbs(rank)
  BY DEF IridiaInv
<1>14. k.ebx # k.client /\ k.ecx # k.client
  BY <1>3, <1>7, <1>13 DEF Climbs
<1>15. ASSUME NEW p \in Node, ring[p] = k.line
       PROVE  /\ q.prev[q.next[p]] = p \/ p = k.client
              /\ q.next[q.prev[p]] = p \/ p = k.ebx
              /\ q.next[p] \in Node /\ ring[q.next[p]] = k.line
              /\ q.prev[p] \in Node /\ ring[q.prev[p]] = k.line
  <2>1. \A u \in Thread : call[u].pc = "close next" /\ call[u].line = k.line => u = t
    BY <1>3 DEF Working
  <2>2. HalfOut(p) => p = k.client
    <3>1. ASSUME NEW u \in Thread, call[u].pc = "close next", call[u].client = p
          PROVE  u = t
      BY <1>15, <2>1, <3>1, OwnRing
    <3>2. QED
      BY <1>2, <3>1 DEF HalfOut
  <2>3. BehindHalfOut(p) => p = k.ebx
    <3>1. ASSUME NEW u \in Thread, call[u].pc = "close next", call[u].ebx = p
          PROVE  u = t
      BY <1>15, <2>1, <3>1, OwnRing
    <3>2. QED
      BY <1>2, <3>1 DEF BehindHalfOut
  <2>4. /\ q.prev[q.next[p]] = p \/ HalfOut(p)
        /\ q.next[q.prev[p]] = p \/ BehindHalfOut(p)
    BY <1>3, <1>15 DEF IridiaInv, LinksPaired
  <2>5. /\ q.next[p] \in Node /\ ring[q.next[p]] = k.line
        /\ q.prev[p] \in Node /\ ring[q.prev[p]] = k.line
    BY <1>3, <1>15 DEF IridiaInv, RingsClosed, TypeOK
  <2>6. QED
    BY <2>2, <2>3, <2>4, <2>5
<1>16. ASSUME NEW p \in Node, ring'[p] = k.line
       PROVE  /\ ring'[q'.next[p]] = k.line /\ ring'[q'.prev[p]] = k.line
              /\ q'.prev[q'.next[p]] = p
              /\ q'.next[q'.prev[p]] = p
  <2>1. p # k.client /\ ring[p] = k.line
    BY <1>3, <1>12, <1>16
  <2>2. /\ q.prev[q.next[p]] = p
        /\ q.next[q.prev[p]] = p \/ p = k.ebx
        /\ q.next[p] \in Node /\ ring[q.next[p]] = k.line
        /\ q.prev[p] \in Node /\ ring[q.prev[p]] = k.line
    BY <1>15, <2>1
  <2>3. q.next[p] = k.client => p = k.ecx
    BY <1>7, <2>2
  <2>4. q.prev[p] # k.client
    BY <1>7, <1>14, <2>2
  <2>5. ring'[q'.next[p]] = k.line /\ q'.prev[q'.next[p]] = p
    BY <1>3, <1>7, <1>9, <1>12, <1>14, <2>1, <2>2, <2>3
  <2>6. ring'[q'.prev[p]] = k.line
    BY <1>9, <1>12, <2>2, <2>4
  <2>7. q'.next[q'.prev[p]] = p
    BY <1>7, <1>9, <2>1, <2>2
  <2>8. QED
    BY <2>5, <2>6, <2>7
<1>17. RingsClosed' /\ LinksPaired' /\ LooseClients'
  BY <1>3, <1>5, <1>6, <1>11, <1>16, RingsStep
<1>18. Climbs(rank)'
  <2> SUFFICES ASSUME NEW d \in Client, line'[d] # NoLine, q'.next[d] \in Client
               PROVE  rank[d] < rank[q'.next[d]]
    BY DEF Climbs
  <2>1. d # k.client /\ line[d] # NoLine /\ d \in Node
    BY <1>10 DEF Node
  <2>2. CASE d # k.ecx
    BY <1>9, <1>13, <2>1, <2>2 DEF Climbs
  <2>3. CASE d = k.ecx
    <3>1. q'.next[d] = k.ebx /\ k.ebx \in Client
      BY <1>9, <2>1, <2>3
    <3>2. rank[d] < rank[k.client]
      BY <1>3, <1>7, <1>13, <2>1, <2>3 DEF Climbs
    <3>3. rank[k.client] < rank[k.ebx]
      BY <1>3, <1>7, <1>13, <3>1 DEF Climbs
    <3>4. rank[d] \in Nat /\ rank[k.client] \in Nat /\ rank[k.ebx] \in Nat
      BY <1>3, <3>1
    <3>5. QED
      BY <3>1, <3>2, <3>3, <3>4
  <2>4. QED
    BY <2>2, <2>3
<1>19. Holds(j)'
  BY <1>3, <1>6, <1>10 DEF Holds
<1>20. CallsHold'
  BY <1>1, <1>3, <1>5, <1>6, <1>11, <1>19, CallsStep
<1>21. CallsApart'
  BY <1>1, <1>2, <1>5, <1>6, ApartStep
<1>22. LinesMasked'
  <2> SUFFICES ASSUME NEW l \in Line \ {Cascade}, l # k.line
               PROVE  \/ HasClients(l)' \/ l \in masked
                      \/ \E u \in Thread :
                           /\ call'[u].pc \in {"loop next", "loop previous", "test", "read", "write"}
                           /\ call'[u].line = l
    BY <1>1, <1>5, <1>6 DEF LinesMasked
  <2>1. HasClients(l) => HasClients(l)'
    BY <1>7, <1>10 DEF HasClients
  <2>2. ASSUME NEW u \in Thread, call[u].line = l PROVE call'[u] = call[u]
    BY <1>2, <1>6, <2>2
  <2>3. QED
    BY <2>1, <2>2 DEF IridiaInv, LinesMasked
<1>23. ClientsOn'
  BY <1>1, <1>10 DEF IridiaInv, ClientsOn
<1>24. isr' = NoIsr
  BY DEF CloseNext, At, ThreadRuns
<1>25. QED
  BY <1>4, <1>17, <1>18, <1>20, <1>21, <1>22, <1>23, <1>24 DEF IridiaInv, WalkOnRing

(* The removed client is off every ring: looping it back touches none. *)
LEMMA LoopNextKeeps ==
  ASSUME IridiaInv, NEW t \in Thread, LoopNext(t)
  PROVE  IridiaInv'
<1>1. Working(t) /\ call[t].pc = "loop next" /\ UNCHANGED <<machine, masked, serving, idt, isr, line>>
  BY AtWorks DEF LoopNext, At
<1>2. PICK k : k = call[t]
  OBVIOUS
<1>3. /\ TypeOK /\ Holds(k) /\ k.client \in Client /\ k.client \in Node /\ k.line \in Line
      /\ k.line # NoLine /\ ring[k.client] = line[k.client] /\ k.line # Cascade
      /\ \A u \in Thread \ {t} : Working(u) => call[u].line # k.line /\ call[u].client # k.client
  BY <1>1, <1>2, CallContext
<1>4. TypeOK'
  BY <1>3, TypeStep DEF Next, DisconnectStep
<1>5. PICK j : j = call'[t]
  OBVIOUS
<1>6. /\ \A u \in Thread \ {t} : call'[u] = call[u]
      /\ j.pc = "loop previous" /\ j.client = k.client /\ j.line = k.line
  BY <1>1, <1>2, <1>3, <1>5, GotoCall DEF LoopNext
<1>7. line[k.client] = NoLine /\ ("loop previous" = k.pc => q.next[k.client] = k.client)
  BY <1>1, <1>2, <1>3 DEF Holds
<1>8. q' = [q EXCEPT !.next[k.client] = k.client]
  BY <1>2 DEF LoopNext
<1>9. /\ q'.prev = q.prev /\ q'.next[k.client] = k.client
      /\ \A p \in Node : p # k.client => q'.next[p] = q.next[p]
  BY <1>3, <1>8 DEF TypeOK
<1>10. OnlyRing(k.line, k.client) /\ ring' = ring
  BY <1>1, <1>2, <1>3, <1>6, <1>7, <1>9 DEF OnlyRing, ring
<1>11. ASSUME NEW p \in Node, ring[p] = k.line
       PROVE  /\ ring[q'.next[p]] = k.line /\ ring[q'.prev[p]] = k.line
              /\ q'.prev[q'.next[p]] = p
              /\ q'.next[q'.prev[p]] = p
  <2>1. /\ q.next[p] \in Node /\ ring[q.next[p]] = k.line
        /\ q.prev[p] \in Node /\ ring[q.prev[p]] = k.line
    BY <1>3, <1>11 DEF IridiaInv, RingsClosed, TypeOK
  <2>2. q.prev[q.next[p]] = p /\ q.next[q.prev[p]] = p
    BY <1>1, <1>2, <1>11, OwnRingQuiet
  <2>3. p # k.client /\ q.next[p] # k.client /\ q.prev[p] # k.client
    BY <1>3, <1>7, <1>11, <2>1
  <2>4. QED
    BY <1>9, <2>1, <2>2, <2>3
<1>12. RingsClosed' /\ LinksPaired' /\ LooseClients'
  BY <1>1, <1>2, <1>3, <1>5, <1>6, <1>7, <1>9, <1>10, <1>11, RingsStep
<1>13. \E rank \in [Client -> Nat] : Climbs(rank)'
  <2>1. PICK rank \in [Client -> Nat] : Climbs(rank)
    BY DEF IridiaInv
  <2>2. \A d \in Client : line[d] # NoLine => q'.next[d] = q.next[d]
    BY <1>7, <1>9 DEF Node
  <2>3. Climbs(rank)'
    BY <1>1, <2>1, <2>2 DEF Climbs
  <2>4. QED
    BY <2>3
<1>14. Holds(j)'
  BY <1>1, <1>3, <1>6, <1>7, <1>9 DEF Holds
<1>15. CallsHold'
  BY <1>1, <1>3, <1>5, <1>6, <1>10, <1>14, CallsStep
<1>16. CallsApart'
  BY <1>1, <1>2, <1>5, <1>6, ApartStep
<1>17. LinesMasked'
  BY <1>1, <1>2, <1>5, <1>6, MaskedStep
<1>18. ClientsOn' /\ WalkOnRing'
  BY <1>1, <1>10 DEF IridiaInv, ClientsOn, WalkOnRing
<1>19. QED
  BY <1>4, <1>12, <1>13, <1>15, <1>16, <1>17, <1>18 DEF IridiaInv

(* The removed client is linked to itself and may be connected again. *)
LEMMA LoopPreviousKeeps ==
  ASSUME IridiaInv, NEW t \in Thread, LoopPrevious(t)
  PROVE  IridiaInv'
<1>1. Working(t) /\ call[t].pc = "loop previous" /\ UNCHANGED <<machine, masked, serving, idt, isr, line>>
  BY AtWorks DEF LoopPrevious, At
<1>2. PICK k : k = call[t]
  OBVIOUS
<1>3. /\ TypeOK /\ Holds(k) /\ k.client \in Client /\ k.client \in Node /\ k.line \in Line
      /\ k.line # NoLine /\ ring[k.client] = line[k.client] /\ k.line # Cascade
      /\ \A u \in Thread \ {t} : Working(u) => call[u].line # k.line /\ call[u].client # k.client
  BY <1>1, <1>2, CallContext
<1>4. TypeOK'
  BY <1>3, TypeStep DEF Next, DisconnectStep
<1>5. PICK j : j = call'[t]
  OBVIOUS
<1>6. /\ \A u \in Thread \ {t} : call'[u] = call[u]
      /\ j.pc = "test" /\ j.client = k.client /\ j.line = k.line
  BY <1>1, <1>2, <1>3, <1>5, GotoCall DEF LoopPrevious
<1>7. line[k.client] = NoLine /\ ("loop previous" = k.pc => q.next[k.client] = k.client)
  BY <1>1, <1>2, <1>3 DEF Holds
<1>8. q' = [q EXCEPT !.prev[k.client] = k.client]
  BY <1>2 DEF LoopPrevious
<1>9. /\ q'.next = q.next /\ q'.prev[k.client] = k.client
      /\ \A p \in Node : p # k.client => q'.prev[p] = q.prev[p]
  BY <1>3, <1>8 DEF TypeOK
<1>10. OnlyRing(k.line, k.client) /\ ring' = ring
  BY <1>1, <1>2, <1>3, <1>6, <1>7, <1>9 DEF OnlyRing, ring
<1>11. ASSUME NEW p \in Node, ring[p] = k.line
       PROVE  /\ ring[q'.next[p]] = k.line /\ ring[q'.prev[p]] = k.line
              /\ q'.prev[q'.next[p]] = p
              /\ q'.next[q'.prev[p]] = p
  <2>1. /\ q.next[p] \in Node /\ ring[q.next[p]] = k.line
        /\ q.prev[p] \in Node /\ ring[q.prev[p]] = k.line
    BY <1>3, <1>11 DEF IridiaInv, RingsClosed, TypeOK
  <2>2. q.prev[q.next[p]] = p /\ q.next[q.prev[p]] = p
    BY <1>1, <1>2, <1>11, OwnRingQuiet
  <2>3. p # k.client /\ q.next[p] # k.client /\ q.prev[p] # k.client
    BY <1>3, <1>7, <1>11, <2>1
  <2>4. QED
    BY <1>9, <2>1, <2>2, <2>3
<1>12. RingsClosed' /\ LinksPaired' /\ LooseClients'
  BY <1>1, <1>2, <1>3, <1>5, <1>6, <1>7, <1>9, <1>10, <1>11, RingsStep, ZenonT(60)
<1>13. \E rank \in [Client -> Nat] : Climbs(rank)'
  <2>1. PICK rank \in [Client -> Nat] : Climbs(rank)
    BY DEF IridiaInv
  <2>2. \A d \in Client : line[d] # NoLine => q'.next[d] = q.next[d]
    BY <1>7, <1>9 DEF Node
  <2>3. Climbs(rank)'
    BY <1>1, <2>1, <2>2 DEF Climbs
  <2>4. QED
    BY <2>3
<1>14. Holds(j)'
  BY <1>1, <1>3, <1>6, <1>7, <1>9 DEF Holds
<1>15. CallsHold'
  BY <1>1, <1>3, <1>5, <1>6, <1>10, <1>14, CallsStep
<1>16. CallsApart'
  BY <1>1, <1>2, <1>5, <1>6, ApartStep
<1>17. LinesMasked'
  BY <1>1, <1>2, <1>5, <1>6, MaskedStep
<1>18. ClientsOn' /\ WalkOnRing'
  BY <1>1, <1>10 DEF IridiaInv, ClientsOn, WalkOnRing
<1>19. QED
  BY <1>4, <1>12, <1>13, <1>15, <1>16, <1>17, <1>18 DEF IridiaInv

(* An empty ring means a line without clients, and only then is it masked. *)
LEMMA TestKeeps ==
  ASSUME IridiaInv, NEW t \in Thread, TestRing(t)
  PROVE  IridiaInv'
<1>1. Working(t) /\ call[t].pc = "test" /\ UNCHANGED <<machine, q, masked, serving, idt, isr, line>>
  BY AtWorks DEF TestRing, At
<1>2. PICK k : k = call[t]
  OBVIOUS
<1>3. /\ TypeOK /\ Holds(k) /\ k.client \in Client /\ k.client \in Node /\ k.line \in Line
      /\ k.line # NoLine /\ ring[k.client] = line[k.client] /\ k.line # Cascade
      /\ \A u \in Thread \ {t} : Working(u) => call[u].line # k.line /\ call[u].client # k.client
  BY <1>1, <1>2, CallContext
<1>4. TypeOK'
  BY <1>3, TypeStep DEF Next, DisconnectStep
<1>5. PICK j : j = call'[t]
  OBVIOUS
<1>6. /\ \A u \in Thread \ {t} : call'[u] = call[u]
      /\ \/ j = Idle /\ q.next[k.line] # k.line
         \/ /\ q.next[k.line] = k.line
            /\ j.pc = "read" /\ j.client = k.client /\ j.line = k.line
  BY <1>1, <1>2, <1>3, <1>5, GotoCall, ReturnsCall DEF TestRing
<1>7. q.next[k.line] = k.line <=> ~HasClients(k.line)
  BY <1>3, EmptyRing
<1>8. line[k.client] = NoLine
  BY <1>1, <1>2, <1>3 DEF Holds
<1>9. OnlyRing(k.line, k.client)
  BY <1>1, <1>2, <1>3, <1>6, <1>8 DEF OnlyRing
<1>10. j = Idle \/ Holds(j)'
  BY <1>1, <1>3, <1>6, <1>7, <1>8 DEF Holds, HasClients
<1>11. CallsHold'
  BY <1>1, <1>3, <1>5, <1>6, <1>9, <1>10, CallsStep
<1>12. CallsApart'
  BY <1>1, <1>2, <1>5, <1>6, ApartStep
<1>13. LinesMasked'
  BY <1>1, <1>2, <1>5, <1>6, <1>7, MaskedStep
<1>14. ClientsOn' /\ WalkOnRing'
  BY <1>1 DEF IridiaInv, ClientsOn, WalkOnRing, ring
<1>15. QED
  BY <1>1, <1>4, <1>6, <1>11, <1>12, <1>13, <1>14, QuietKeeps DEF IridiaInv

(* The mask is read while no other call is about to write it. *)
LEMMA ReadKeeps ==
  ASSUME IridiaInv, Allow = {}, NEW t \in Thread, ReadMask(t)
  PROVE  IridiaInv'
<1>1. Working(t) /\ call[t].pc = "read" /\ UNCHANGED <<machine, q, masked, serving, idt, isr, line>>
  BY AtWorks DEF ReadMask, At
<1>2. PICK k : k = call[t]
  OBVIOUS
<1>3. /\ TypeOK /\ Holds(k) /\ k.client \in Client /\ k.client \in Node /\ k.line \in Line
      /\ k.line # NoLine /\ ring[k.client] = line[k.client] /\ k.line # Cascade
      /\ \A u \in Thread \ {t} : Working(u) => call[u].line # k.line /\ call[u].client # k.client
  BY <1>1, <1>2, CallContext
<1>4. TypeOK'
  BY <1>3, TypeStep DEF Next, DisconnectStep
<1>5. PICK j : j = call'[t]
  OBVIOUS
<1>6. /\ \A u \in Thread \ {t} : call'[u] = call[u]
      /\ j.pc = "write" /\ j.client = k.client /\ j.line = k.line
      /\ j.al = masked \cap Pic(k.line)
  <2>1. k \in Calls
    BY <1>1, <1>2, <1>3, CallAt
  <2>2. call' = [call EXCEPT ![t].pc = "write", ![t].al = masked \cap Pic(k.line)]
    BY <1>2 DEF ReadMask
  <2>3. j = [k EXCEPT !.pc = "write", !.al = masked \cap Pic(k.line)]
    BY <1>2, <1>3, <1>5, <2>2 DEF TypeOK
  <2>4. QED
    BY <1>3, <2>1, <2>2, <2>3 DEF TypeOK, Calls
<1>7. line[k.client] = NoLine /\ ~HasClients(k.line)
  BY <1>1, <1>2, <1>3 DEF Holds
<1>8. OnlyRing(k.line, k.client)
  BY <1>1, <1>2, <1>3, <1>6, <1>7 DEF OnlyRing
<1>9. Holds(j)'
  BY <1>1, <1>3, <1>6, <1>7 DEF Holds, HasClients
<1>10. CallsHold'
  BY <1>1, <1>3, <1>5, <1>6, <1>8, <1>9, CallsStep
<1>11. \A u \in Thread : call[u].pc = "write" =>
          call[u].line \notin Pic(k.line) /\ k.line \notin Pic(call[u].line)
  <2> SUFFICES ASSUME NEW u \in Thread, call[u].pc = "write"
               PROVE  call[u].line \notin Pic(k.line) /\ k.line \notin Pic(call[u].line)
    OBVIOUS
  <2>1. call[u].line \notin Pic(k.line)
    BY <1>2 DEF ReadMask, MaskHeld
  <2>2. call[u].line \in Line
    BY <1>3, CallAt DEF Working
  <2>3. QED
    BY <1>3, <2>1, <2>2, Lines
<1>12. CallsApart'
  <2> SUFFICES ASSUME NEW u \in Thread, NEW w \in Thread, u # w, Working(u)', Working(w)'
               PROVE  /\ call'[u].line # call'[w].line /\ call'[u].client # call'[w].client
                      /\ call'[u].pc = "write" /\ call'[w].pc = "write"
                           => call'[u].line \notin Pic(call'[w].line)
    BY DEF CallsApart, Pic
  <2>1. CASE u # t /\ w # t
    BY <1>6, <2>1 DEF IridiaInv, CallsApart, Working
  <2>2. CASE u = t
    BY <1>3, <1>5, <1>6, <1>11, <2>2 DEF Working
  <2>3. CASE w = t
    BY <1>3, <1>5, <1>6, <1>11, <2>3 DEF Working
  <2>4. QED
    BY <2>1, <2>2, <2>3
<1>13. LinesMasked'
  BY <1>1, <1>2, <1>5, <1>6, MaskedStep
<1>14. ClientsOn' /\ WalkOnRing'
  BY <1>1 DEF IridiaInv, ClientsOn, WalkOnRing, ring
<1>15. QED
  BY <1>1, <1>4, <1>6, <1>10, <1>12, <1>13, <1>14, QuietKeeps DEF IridiaInv

(* The mask that is written differs from the PIC's by the line only. *)
LEMMA WriteKeeps ==
  ASSUME IridiaInv, NEW t \in Thread, WriteMask(t)
  PROVE  IridiaInv'
<1>1. Working(t) /\ call[t].pc = "write" /\ UNCHANGED <<machine, q, serving, idt, isr, line>>
  BY AtWorks DEF WriteMask, At
<1>2. PICK k : k = call[t]
  OBVIOUS
<1>3. /\ TypeOK /\ Holds(k) /\ k.client \in Client /\ k.client \in Node /\ k.line \in Line
      /\ k.line # NoLine /\ ring[k.client] = line[k.client] /\ k.line # Cascade
      /\ \A u \in Thread \ {t} : Working(u) => call[u].line # k.line /\ call[u].client # k.client
  BY <1>1, <1>2, CallContext
<1>4. TypeOK'
  BY <1>3, TypeStep DEF Next, DisconnectStep
<1>5. PICK j : j = call'[t]
  OBVIOUS
<1>6. j = Idle /\ \A u \in Thread \ {t} : call'[u] = call[u]
  BY <1>3, <1>5, ReturnsCall DEF WriteMask
<1>7. line[k.client] = NoLine /\ ~HasClients(k.line) /\ k.al = masked \cap Pic(k.line)
  BY <1>1, <1>2, <1>3 DEF Holds
<1>8. masked' = masked \cup {k.line}
  <2>1. masked' = (masked \ Pic(k.line)) \cup k.al \cup {k.line}
    BY <1>2 DEF WriteMask
  <2>2. QED
    BY <1>7, <2>1
<1>9. OnlyRing(k.line, k.client)
  BY <1>1, <1>2, <1>3, <1>6, <1>7 DEF OnlyRing
<1>10. ASSUME NEW u \in Thread \ {t}, call[u].pc = "write"
       PROVE  masked' \cap Pic(call[u].line) = masked \cap Pic(call[u].line)
  <2>1. k.line \notin Pic(call[u].line)
    BY <1>1, <1>2, <1>10 DEF IridiaInv, CallsApart, Working
  <2>2. QED
    BY <1>8, <2>1
<1>11. CallsHold'
  BY <1>3, <1>5, <1>6, <1>9, <1>10, CallsStep
<1>12. CallsApart'
  BY <1>5, <1>6, ApartStep
<1>13. LinesMasked'
  BY <1>1, <1>2, <1>6, <1>8, MaskedStep
<1>14. ClientsOn' /\ WalkOnRing'
  <2>1. Cascade \notin masked'
    BY <1>3, <1>8 DEF IridiaInv, ClientsOn
  <2>2. \A c \in Client : line[c] # k.line
    BY <1>7 DEF HasClients
  <2>3. QED
    BY <1>1, <1>8, <2>1, <2>2 DEF IridiaInv, ClientsOn, WalkOnRing, ring
<1>15. QED
  BY <1>1, <1>4, <1>6, <1>11, <1>12, <1>13, <1>14, QuietKeeps DEF IridiaInv
-----------------------------------------------------------------------------
(* After __interrupt_init every ring is empty and no call is made. *)
LEMMA InitIridiaInv == Init => IridiaInv
<1> SUFFICES ASSUME Init PROVE IridiaInv
  OBVIOUS
<1>1. /\ q.next = [n \in Node |-> n] /\ q.prev = [n \in Node |-> n]
      /\ masked = Line \ {Cascade} /\ serving = {} /\ isr = NoIsr
      /\ \A c \in Client : line[c] = NoLine
      /\ \A t \in Thread : call[t] = Idle
  BY DEF Init, Alone
<1>2. TypeOK
  <2>1. q \in [next : [Node -> Node], prev : [Node -> Node]]
    BY DEF Init, Alone
  <2>2. call \in [Thread -> Calls \cup {Idle}]
    BY DEF Init
  <2>3. idt \in [Vector -> {"irq", "own", "unhandled"}]
    BY DEF Init
  <2>4. QED
    BY <2>1, <2>2, <2>3 DEF Init, TypeOK
<1>3. RingsClosed /\ LinksPaired
  BY <1>1 DEF RingsClosed, LinksPaired
<1>4. LooseClients
  BY <1>1 DEF LooseClients, Node
<1>5. CallsHold
  BY <1>1 DEF CallsHold
<1>6. CallsApart
  BY <1>1 DEF CallsApart, Working, Idle
<1>7. LinesMasked /\ ClientsOn /\ WalkOnRing
  BY <1>1 DEF LinesMasked, ClientsOn, WalkOnRing
<1>8. \E rank \in [Client -> Nat] : Climbs(rank)
  <2>1. [c \in Client |-> 0] \in [Client -> Nat] /\ Climbs([c \in Client |-> 0])
    BY <1>1 DEF Climbs
  <2>2. QED
    BY <2>1
<1>9. QED
  BY <1>2, <1>3, <1>4, <1>5, <1>6, <1>7, <1>8 DEF IridiaInv

(* Every step keeps the invariant. *)
LEMMA StepIridiaInv ==
  ASSUME IridiaInv, Allow = {}, [Next]_vars
  PROVE  IridiaInv'
<1>1. CASE UNCHANGED vars
  <2>1. TypeOK'
    BY TypeStep DEF IridiaInv
  <2>2. ClientsOn' /\ WalkOnRing'
    BY <1>1 DEF vars, IridiaInv, ClientsOn, WalkOnRing, ring
  <2>3. QED
    BY <1>1, <2>1, <2>2, FrameKeeps DEF vars, IridiaInv
<1>2. ASSUME NEW v \in Claimed, set_handler(v, "own") \/ unset_handler(v) PROVE IridiaInv'
  BY <1>2, HandlerKeeps DEF unset_handler
<1>3. ASSUME NEW c \in Client, NEW l \in Line, irq_connect(c, l) PROVE IridiaInv'
  BY <1>3, ConnectKeeps
<1>4. ASSUME NEW t \in Thread, NEW c \in Client, NEW l \in Line, irq_disconnect(t, c, l)
      PROVE  IridiaInv'
  BY <1>4, StartKeeps
<1>5. ASSUME NEW t \in Thread, DisconnectStep(t) PROVE IridiaInv'
  BY <1>5, ChecksKeep, ClosePreviousKeeps, CloseNextKeeps, LoopNextKeeps, LoopPreviousKeeps,
     TestKeeps, ReadKeeps, WriteKeeps DEF DisconnectStep
<1>6. QED
  BY <1>1, <1>2, <1>3, <1>4, <1>5, InterruptKeeps DEF Next

(* So the invariant holds in every reachable state. *)
LEMMA AlwaysIridiaInv ==
  ASSUME Allow = {}
  PROVE  Spec => []IridiaInv
<1>1. IridiaInv /\ [Next]_vars => IridiaInv'
  BY StepIridiaInv
<1>2. QED
  BY <1>1, InitIridiaInv, PTL DEF Spec

(* Whatever removals are half done, the handler's walk over a line finds   *)
(* exactly the clients connected to it (irq.disconnect's stores against    *)
(* _irq_common's .cycle).                                                  *)
THEOREM WalksFindClients ==
  ASSUME Allow = {}
  PROVE  Spec => []WalkFindsClients
<1>1. IridiaInv => WalkFindsClients
  BY WalkVisitsClients DEF WalkFindsClients, Ahead, Nodes, On
<1>2. QED
  BY <1>1, AlwaysIridiaInv, PTL

(* A connected client's line is unmasked, acknowledged and leads to the    *)
(* common handler, and a line that irq.disconnect has emptied is masked.   *)
THEOREM MasksFollowRings ==
  ASSUME Allow = {}
  PROVE  Spec => []MasksMatchRings
<1>1. ASSUME IridiaInv PROVE MasksMatchRings
  <2>1. ClientsReachable
    BY <1>1 DEF IridiaInv, ClientsOn, ClientsReachable, Passes
  <2>2. IdleLinesMasked
    BY <1>1 DEF IridiaInv, LinesMasked, IdleLinesMasked, Working
  <2>3. QED
    BY <1>1, <2>1, <2>2 DEF IridiaInv, MasksMatchRings
<1>2. QED
  BY <1>1, AlwaysIridiaInv, PTL
-----------------------------------------------------------------------------
promised == <<line, isr.line, Uncalled>>

(* A thread runs only while no interrupt is handled: nothing is uncalled. *)
LEMMA NothingUncalled ==
  ASSUME isr = NoIsr, isr' = NoIsr
  PROVE  Uncalled = {} /\ Uncalled' = {} /\ isr'.line = isr.line
BY DEF Uncalled

(* Connecting a client, from a thread or from a client's own procedure,    *)
(* leaves the walk in progress as it is.                                   *)
LEMMA ConnectPromised ==
  ASSUME IridiaInv, Allow = {}, NEW c \in Client, NEW l \in Line, irq_connect(c, l)
  PROVE  Irq!Connect(c, l) \/ UNCHANGED promised
<1>1. line[c] = NoLine /\ isr' = isr /\ TypeOK
  BY DEF irq_connect, IridiaInv
<1>2. CASE ~CanInsertAfter(q, c, l)
  BY <1>1, <1>2 DEF irq_connect, promised, Uncalled, Ahead
<1>3. CASE CanInsertAfter(q, c, l)
  <2>1. line' = [line EXCEPT ![c] = l] /\ q' = insert_after(q, c, l)
    BY <1>3 DEF irq_connect, connect_links
  <2>2. CASE isr = NoIsr
    BY <1>1, <2>1, <2>2, NothingUncalled DEF Irq!Connect
  <2>3. CASE isr # NoIsr
    <3>1. isr.line \in Line /\ isr.edi \in Node /\ isr.edi # isr.line /\ ring[isr.edi] = isr.line
          /\ isr.line # NoLine
      BY <1>1, <2>3, IsrType DEF irq_connect, InClient, ThreadRuns, IridiaInv, WalkOnRing
    <3>2. PICK n : n = isr.edi
      OBVIOUS
    <3>3. PICK j : j = isr.line
      OBVIOUS
    <3>4. n \in On(j) /\ c \notin On(j) /\ On(j) \in SUBSET Client
      BY <1>1, <3>1, <3>2, <3>3, RingValues DEF On, Node
    <3>5. \A p \in On(j) \cup {n} : q'.next[p] = q.next[p]
      <4>1. q'.next = [q.next EXCEPT ![c] = q.next[l], ![l] = c]
        BY <2>1 DEF insert_after, LinkBetween
      <4>2. \A p \in On(j) : p \in Node /\ p # c /\ p # l
        BY <3>4, LineAssumption DEF On, Node
      <4>3. QED
        BY <1>1, <3>4, <4>1, <4>2 DEF TypeOK
    <3>6. Closed(q.next, On(j), n, j)
      BY <3>1, <3>2, <3>3, RingSound
    <3>7. PICK rank \in [Client -> Nat] : Rises(rank, q.next, On(j), j)
      BY <3>1, <3>2, <3>3, RingSound
    <3>8. Nodes(q'.next, n, j) = Nodes(q.next, n, j)
      BY <3>1, <3>3, <3>4, <3>5, <3>6, <3>7, WalkSame
    <3>9. Uncalled' = Uncalled
      BY <1>1, <2>3, <3>2, <3>3, <3>8 DEF Uncalled, Ahead, Nodes
    <3>10. QED
      BY <1>1, <2>1, <3>9 DEF Irq!Connect
  <2>4. QED
    BY <2>2, <2>3
<1>4. QED
  BY <1>2, <1>3

(* An interrupt starts with every client of its line uncalled. *)
LEMMA InterruptPromised ==
  ASSUME IridiaInv, NEW l \in Line, _irq_common(l)
  PROVE  Irq!Interrupt(l)
<1>1. isr = NoIsr /\ isr' = [line |-> l, edi |-> l, top |-> "esp"] /\ UNCHANGED <<q, line>>
  BY DEF _irq_common, ThreadRuns
<1>2. isr'.line = l /\ isr'.edi = l /\ isr' # NoIsr /\ isr.line = NoLine
  BY <1>1, LineAssumption DEF NoIsr
<1>3. Uncalled' = Nodes(q.next, l, l)
  BY <1>1, <1>2 DEF Uncalled, Ahead, Nodes
<1>4. Uncalled' = {c \in Client : line[c] = l}
  BY <1>3, WalkVisitsClients DEF On
<1>5. QED
  BY <1>1, <1>2, <1>4 DEF Irq!Interrupt

(* The handler's next call is one that was due, and it is due once. *)
LEMMA CallPromised ==
  ASSUME IridiaInv, CallClient
  PROVE  \E c \in Client : Irq!Call(c)
<1>1. /\ isr # NoIsr /\ q.next[isr.edi] # isr.line /\ UNCHANGED <<q, line>>
      /\ isr' = [isr EXCEPT !.edi = q.next[isr.edi], !.top = "eax"]
  BY DEF CallClient
<1>2. /\ isr \in [line : Line, edi : Node, top : {"esp", "eax"}]
      /\ isr.line \in Line /\ isr.edi \in Node /\ ring[isr.edi] = isr.line /\ isr.line # NoLine
  BY <1>1, IsrType DEF IridiaInv, WalkOnRing
<1>3. PICK n : n = isr.edi
  OBVIOUS
<1>4. PICK j : j = isr.line
  OBVIOUS
<1>5. Closed(q.next, On(j), n, j) /\ On(j) \in SUBSET Client
  BY <1>2, <1>3, <1>4, RingSound DEF On
<1>6. PICK rank \in [Client -> Nat] : Rises(rank, q.next, On(j), j)
  BY <1>2, <1>3, <1>4, RingSound
<1>7. /\ q.next[n] \in Nodes(q.next, n, j)
      /\ Nodes(q.next, q.next[n], j) = Nodes(q.next, n, j) \ {q.next[n]}
  BY <1>1, <1>2, <1>3, <1>4, <1>5, <1>6, WalkStep
<1>8. isr'.line = j /\ isr'.edi = q.next[n] /\ isr' # NoIsr
  BY <1>1, <1>2, <1>3, <1>4 DEF NoIsr
<1>9. Uncalled = Nodes(q.next, n, j) /\ Uncalled' = Nodes(q.next, q.next[n], j)
  BY <1>1, <1>3, <1>4, <1>8 DEF Uncalled, Ahead, Nodes
<1>10. q.next[n] \in Client
  BY <1>1, <1>3, <1>4, <1>5 DEF Closed
<1>11. Irq!Call(q.next[n])
  BY <1>1, <1>4, <1>7, <1>8, <1>9 DEF Irq!Call
<1>12. QED
  BY <1>10, <1>11

(* The handler returns when no client is left to call. *)
LEMMA ReturnPromised ==
  ASSUME IridiaInv, CycledRing
  PROVE  Irq!Return
<1>1. isr # NoIsr /\ q.next[isr.edi] = isr.line /\ isr' = NoIsr /\ UNCHANGED line
  BY DEF CycledRing
<1>2. isr.line \in Line /\ isr.edi \in Node /\ ring[isr.edi] = isr.line /\ isr.line # NoLine
  BY <1>1, IsrType DEF IridiaInv, WalkOnRing
<1>3. PICK n : n = isr.edi
  OBVIOUS
<1>4. PICK j : j = isr.line
  OBVIOUS
<1>5. Closed(q.next, On(j), n, j) /\ On(j) \in SUBSET Client
  BY <1>2, <1>3, <1>4, RingSound DEF On
<1>6. PICK rank \in [Client -> Nat] : Rises(rank, q.next, On(j), j)
  BY <1>2, <1>3, <1>4, RingSound
<1>7. Nodes(q.next, n, j) = {}
  BY <1>1, <1>2, <1>3, <1>4, <1>5, <1>6, WalkOver
<1>8. Uncalled = {} /\ Uncalled' = {} /\ isr'.line = NoLine
  BY <1>1, <1>3, <1>4, <1>7 DEF Uncalled, Ahead, Nodes, NoIsr
<1>9. QED
  BY <1>1, <1>2, <1>8 DEF Irq!Return

(* A removal takes effect for the interrupts with one store. *)
LEMMA DisconnectPromised ==
  ASSUME IridiaInv, NEW t \in Thread, DisconnectStep(t)
  PROVE  (\E c \in Client : Irq!Disconnect(c)) \/ UNCHANGED promised
<1>1. isr = NoIsr /\ isr' = NoIsr
  BY DEF DisconnectStep, RemoveChecks, ClosePrevious, CloseNext, LoopNext, LoopPrevious,
         TestRing, ReadMask, WriteMask, At, ThreadRuns
<1>2. Uncalled = {} /\ Uncalled' = {} /\ isr'.line = isr.line
  BY <1>1, NothingUncalled
<1>3. CASE CloseNext(t)
  <2>1. call[t].client \in Client /\ line[call[t].client] # NoLine
    BY <1>3, OwnRing DEF CloseNext, At
  <2>2. Irq!Disconnect(call[t].client)
    BY <1>1, <1>2, <1>3, <2>1 DEF CloseNext, Irq!Disconnect, NoIsr
  <2>3. QED
    BY <2>1, <2>2
<1>4. CASE ~CloseNext(t)
  <2>1. line' = line
    BY <1>4 DEF DisconnectStep, RemoveChecks, ClosePrevious, LoopNext, LoopPrevious,
               TestRing, ReadMask, WriteMask
  <2>2. QED
    BY <1>2, <2>1 DEF promised
<1>5. QED
  BY <1>3, <1>4

(* Iridia keeps the promise of IrqSpec: each interrupt calls once every    *)
(* client that was connected to the line when it arrived.                  *)
THEOREM IrqRefinement ==
  ASSUME Allow = {}
  PROVE  Spec => KeepsIrqPromise
<1>1. Init => Irq!PromiseInit
  BY DEF Init, Irq!PromiseInit, Uncalled, NoIsr
<1>2. ASSUME IridiaInv, [Next]_vars PROVE [Irq!PromiseNext]_promised
  <2>1. CASE UNCHANGED vars
    BY <2>1 DEF vars, promised, Uncalled, Ahead
  <2>2. ASSUME NEW v \in Claimed, set_handler(v, "own") \/ unset_handler(v)
        PROVE  UNCHANGED promised
    BY <2>2 DEF set_handler, unset_handler, promised, Uncalled, Ahead
  <2>3. ASSUME NEW v \in Vector, _unhandled_interrupt(v) PROVE UNCHANGED promised
    BY <2>3 DEF _unhandled_interrupt, promised, Uncalled, Ahead
  <2>4. ASSUME NEW c \in Client, NEW l \in Line, irq_connect(c, l)
        PROVE  [Irq!PromiseNext]_promised
    BY <1>2, <2>4, ConnectPromised DEF Irq!PromiseNext
  <2>5. ASSUME NEW t \in Thread, NEW c \in Client, NEW l \in Line, irq_disconnect(t, c, l)
        PROVE  UNCHANGED promised
    BY <2>5 DEF irq_disconnect, promised, Uncalled, Ahead
  <2>6. ASSUME NEW t \in Thread, DisconnectStep(t) PROVE [Irq!PromiseNext]_promised
    BY <1>2, <2>6, DisconnectPromised DEF Irq!PromiseNext
  <2>7. ASSUME NEW l \in Line, _irq_common(l) PROVE Irq!PromiseNext
    BY <1>2, <2>7, InterruptPromised DEF Irq!PromiseNext
  <2>8. CASE CallClient
    BY <1>2, <2>8, CallPromised DEF Irq!PromiseNext
  <2>9. CASE CycledRing
    BY <1>2, <2>9, ReturnPromised DEF Irq!PromiseNext
  <2>10. QED
    BY <1>2, <2>1, <2>2, <2>3, <2>4, <2>5, <2>6, <2>7, <2>8, <2>9 DEF Next
<1>3. QED
  BY <1>1, <1>2, AlwaysIridiaInv, PTL DEF Spec, KeepsIrqPromise, Irq!Promise, promised
=============================================================================
