---------------------------- MODULE AvalonProofs ----------------------------
(***************************************************************************)
(* Proofs about Avalon, for any pools, any words and any interrupts.       *)
(***************************************************************************)
EXTENDS Avalon, NumberLemmas, FiniteSetTheorems, TLAPS

(* A client that makes none of the uses known to go wrong, does not        *)
(* correct a drift, and stays within the first Word ticks, where the order *)
(* of link_ordered_64 and the two reads of ticks_count are right.          *)
Careful ==
    /\ Allow = {} /\ Drifts = {}
    /\ Delays \subseteq Nat /\ Deadlines \subseteq Nat
    /\ Priorities \subseteq 0 .. Word - 1 /\ Rates \subseteq 0 .. Word - 1
    /\ Times \subseteq Ticks /\ Before \subseteq Ticks
    /\ 2 * MaxTicks + PitLimit < Word

Linking == call.pc \in {"low", "high", "ready", "search", "left", "right"}

LinkCall == [pc       : {"low", "high", "ready", "search", "left", "right"},
             kind     : {"end", "start", "ready"},
             node     : Node,
             ring     : {timer_ring, ready_for_execution},
             t        : Thread,
             priority : Priorities,
             start    : Delays,
             delay    : Delays \cup Deadlines,
             sum      : Nat,
             at       : Node \X Node]

TimeCall == [pc : {"time"}, low : Nat, since : Nat, to : Times]

(* The records in full. *)
Shapes ==
    /\ TypeOK
    /\ pools \in [ring : Seq(Pool), free : [Pool -> SUBSET Slot]]
    /\ q \in [next : [Node -> Node], prev : [Node -> Node]]
    /\ call \in {NoCall, [pc |-> "spin"]} \cup LinkCall \cup TimeCall
    /\ clock.drift = 0

(* A thread that is not handed out is held by nobody and has no timer; and *)
(* nobody holds the init thread.                                           *)
Out(t) == t[1] \in ToSet(pools.ring) /\ t[2] \notin pools.free[t[1]]

ThreadsOut ==
    /\ Out(InitThread) /\ thread[InitThread].held = 0
    /\ \A t \in Thread : ~Out(t) =>
         thread[t].held = 0 /\ Start(t) \notin armed /\ End(t) \notin armed

(* While the new node's link to the right is missing, the ring that the    *)
(* missing store will complete.                                            *)
Half  == call.pc = "right" /\ call.ring = timer_ring
Links == IF Half THEN [q EXCEPT !.prev[call.at[2]] = call.node] ELSE q
Ring  == IF Half THEN armed \cup {call.node} ELSE armed

(* The i-th node from the timer ring's head on and round to it.            *)
Nth(s, n, i) == IF i \in 1 .. n THEN s[i] ELSE timer_ring

(* s is the way round the ring: the set S, in the order of the times.     *)
InOrder(lk, S, tm, s, n) ==
    /\ \A i \in 1 .. n : s[i] \in S
    /\ \A m \in S : \E i \in 1 .. n : s[i] = m
    /\ \A i, j \in 1 .. n : i # j => s[i] # s[j]
    /\ \A i \in 0 .. n : /\ lk.next[Nth(s, n, i)] = Nth(s, n, i + 1)
                         /\ lk.prev[Nth(s, n, i + 1)] = Nth(s, n, i)
    /\ \A i, j \in 1 .. n : i < j => tm[s[i]] <= tm[s[j]]

Ringed(lk, S, tm) == \E n \in Nat : \E s \in [1 .. n -> Node] : InOrder(lk, S, tm, s, n)

RingWhole == Ringed(Links, Ring, time)

(* Only threads' timers are on the ring, and at first the boot resolution. *)
Armed ==
    /\ armed \subseteq Node \ {timer_ring, ready_for_execution, Start(InitThread)}
    /\ \A m \in armed : time[m] < Word
    /\ Reprogram \in armed =>
         /\ armed = {Reprogram} /\ ~Linking /\ call.pc # "spin"
         /\ clock.ticks = 0 /\ time[Reprogram] = 0

ReadyLinked == call.pc = "spin" \/ (call.pc = "right" /\ call.ring = ready_for_execution)

ReadyRing ==
    /\ \E t \in Thread : q.next[ready_for_execution] = Start(t)
    /\ ~ReadyLinked => /\ q.next[ready_for_execution] = Start(InitThread)
                       /\ q.next[Start(InitThread)] = ready_for_execution

Loose ==
    ~ReadyLinked => \A m \in Node \ (Ring \cup {timer_ring, ready_for_execution, Start(InitThread)}) :
                      LoopsBack(q, m)

(* The arguments of a thread.schedule under way. *)
Arguments ==
    Linking =>
      /\ call.t # InitThread /\ thread[call.t].held > 0
      /\ uuu2ticks(call.delay) <= MaxTicks /\ uuu2ticks(call.start) <= MaxTicks
      /\ call.node = IF call.kind = "end" THEN End(call.t) ELSE Start(call.t)
      /\ call.ring = IF call.kind = "ready" THEN ready_for_execution ELSE timer_ring
      /\ Start(call.t) \notin armed
      /\ call.pc # "ready" => call.node \notin armed
      /\ call.pc = "ready" => call.kind = "end"
      /\ call.pc \in {"low", "high"} => call.kind # "ready"
      /\ call.pc = "high" => call.sum <= 2 * MaxTicks + PitLimit

(* Where its search stands. *)
Place ==
    call.pc \in {"search", "left", "right"} =>
      /\ call.ring = timer_ring =>
           /\ time[call.node] < Word
           /\ call.at[1] \in armed \cup {timer_ring} /\ call.at[2] \in armed \cup {timer_ring}
           /\ call.pc # "right" => call.at[2] = q.next[call.at[1]]
           /\ call.at[1] # timer_ring => time[call.at[1]] <= time[call.node]
           /\ call.pc # "search" /\ call.at[2] # timer_ring => time[call.node] <= time[call.at[2]]
      /\ call.ring = ready_for_execution =>
           /\ call.at[1] \in {ready_for_execution, Start(InitThread)}
           /\ call.at[2] \in {ready_for_execution, Start(InitThread)}

(* The clock while a call is under way. *)
ClockInCall ==
    call.pc \notin {"idle", "spin"} => clock.ticks <= MaxTicks + PitLimit

Reading ==
    call.pc = "time" => call.low = Lo(call.since) /\ call.since <= clock.ticks

(* The inductive invariant. *)
TimerInv ==
    /\ Shapes
    /\ Running => /\ ThreadsOut /\ RingWhole /\ Armed /\ ReadyRing /\ Loose
                  /\ Arguments /\ Place /\ ClockInCall /\ Reading
-----------------------------------------------------------------------------
(* The nodes are distinct. *)
LEMMA Nodes ==
    /\ timer_ring \in Node /\ ready_for_execution \in Node /\ Reprogram \in Node
    /\ timer_ring # ready_for_execution /\ timer_ring # Reprogram
    /\ ready_for_execution # Reprogram
    /\ \A t \in Thread :
         /\ Start(t) \in Node /\ End(t) \in Node
         /\ Start(t) \notin {timer_ring, ready_for_execution, Reprogram}
         /\ End(t) \notin {timer_ring, ready_for_execution, Reprogram}
         /\ Start(t)[2] = t
         /\ \A u \in Thread : Start(t) # End(u) /\ (t # u => Start(t) # Start(u) /\ End(t) # End(u))
BY DEF Node, timer_ring, ready_for_execution, Reprogram, Start, End

(* Registers. *)
LEMMA Registers ==
    /\ Word \in Nat /\ Short \in Nat /\ PitLimit \in Nat /\ AdjMult \in Nat /\ AdjDiv \in Nat
    /\ Word >= 2 /\ Short >= 2 /\ PitLimit >= 2
    /\ Long \in Nat /\ Long > Word
    /\ PitLimit \div 2 \in Nat /\ PitLimit \div 2 >= 1
<1>1. /\ Word \in Nat /\ Short \in Nat /\ PitLimit \in Nat /\ AdjMult \in Nat /\ AdjDiv \in Nat
      /\ Word >= 2 /\ Short >= 2 /\ PitLimit >= 2
  BY ClockAssumption
<1>2. Word * Word \in Nat /\ Word * Word >= 2 * Word
  BY <1>1
<1>3. QED
  BY <1>1, <1>2 DEF Long

(* Sums of 64 bits stay in range, and small ones do not wrap. *)
LEMMA AddRange ==
    ASSUME NEW x \in Nat, NEW y \in Nat
    PROVE  Add(x, y) \in Ticks /\ (x + y < Long => Add(x, y) = x + y)
<1>1. PICK L \in Nat : L = Long /\ L > 0
  BY Registers
<1>2. (x + y) % L \in 0 .. L - 1 /\ (x + y < L => (x + y) % L = x + y)
  BY <1>1
<1>3. QED
  BY <1>1, <1>2 DEF Add, Ticks

(* Differences of 64 bits stay in range. *)
LEMMA SubRange ==
    ASSUME NEW x \in Ticks, NEW y \in Ticks
    PROVE  Sub(x, y) \in Ticks
<1>1. PICK L \in Nat : L = Long /\ L > 0
  BY Registers
<1>2. x + L - y \in Nat
  BY <1>1 DEF Ticks
<1>3. (x + L - y) % L \in 0 .. L - 1
  BY <1>1, <1>2
<1>4. QED
  BY <1>1, <1>3 DEF Sub, Ticks

(* A number below Word has no high word. *)
LEMMA Small ==
    ASSUME NEW x \in Nat, x < Word
    PROVE  Lo(x) = x /\ Hi(x) = 0
BY Registers DEF Lo, Hi

(* The conversions between ticks and microseconds give numbers. *)
LEMMA ScaleNat ==
    ASSUME NEW x \in Nat
    PROVE  uuu2ticks(x) \in Nat /\ ticks2uuu(x) \in Nat
<1>1. PICK L \in Nat : L = Long /\ L > 0
  BY Registers
<1>2. PICK d \in Nat : d = (2 * x) % L
  BY <1>1
<1>3. \A m \in Nat : (d * m) \div Word \in Nat
  BY Registers
<1>4. QED
  BY <1>1, <1>2, <1>3, Registers DEF uuu2ticks, ticks2uuu, Scale

(* thread.acquire takes a free thread. *)
LEMMA Acquired ==
    ASSUME NEW p \in [ring : Seq(Pool), free : [Pool -> SUBSET Slot]], CanAcquire(p)
    PROVE  /\ acquired(p) \in Thread
           /\ acquired(p)[1] \in ToSet(p.ring)
           /\ acquired(p)[2] \in p.free[acquired(p)[1]]
           /\ acquire(p) \in [ring : Seq(Pool), free : [Pool -> SUBSET Slot]]
           /\ acquire(p).ring = p.ring
           /\ \A u \in Thread : u[2] \in acquire(p).free[u[1]] <=> u[2] \in p.free[u[1]] /\ u # acquired(p)
<1>1. HasFree(p) \in SUBSET Nat /\ HasFree(p) # {} /\ HasFree(p) \subseteq 1 .. Len(p.ring)
  BY DEF HasFree, CanAcquire
<1>2. PICK i : i = Min(HasFree(p))
  OBVIOUS
<1>3. i \in HasFree(p)
  <2>1. \E x \in HasFree(p) : \A y \in HasFree(p) : x <= y
    BY <1>1, LeastNumber
  <2>2. QED
    BY <1>2, <2>1 DEF Min
<1>4. PICK b : b = p.ring[i]
  OBVIOUS
<1>5. b \in Pool /\ b \in ToSet(p.ring) /\ p.free[b] # {} /\ p.free[b] \in SUBSET Slot
  BY <1>1, <1>3, <1>4 DEF HasFree, ToSet
<1>6. p.free[b] \in SUBSET Nat
  BY <1>5, PoolsAssumption DEF Slot
<1>7. PICK k : k = Min(p.free[b])
  OBVIOUS
<1>8. k \in p.free[b]
  <2>1. \E x \in p.free[b] : \A y \in p.free[b] : x <= y
    BY <1>5, <1>6, LeastNumber
  <2>2. QED
    BY <1>7, <2>1 DEF Min
<1>9. acquired(p) = <<b, k>>
  BY <1>2, <1>4, <1>7 DEF acquired
<1>10. acquire(p) = [p EXCEPT !.free[b] = p.free[b] \ {k}]
  BY <1>9 DEF acquire
<1>11. acquire(p).ring = p.ring /\ acquire(p).free = [p.free EXCEPT ![b] = p.free[b] \ {k}]
  BY <1>10
<1>12. ASSUME NEW u \in Thread
       PROVE  u[2] \in acquire(p).free[u[1]] <=> u[2] \in p.free[u[1]] /\ u # acquired(p)
  <2>1. u = <<u[1], u[2]>> /\ u[1] \in Pool
    BY DEF Thread
  <2>2. QED
    BY <1>5, <1>9, <1>11, <2>1
<1>13. QED
  BY <1>5, <1>8, <1>9, <1>10, <1>11, <1>12, SMTT(30) DEF Thread
-----------------------------------------------------------------------------
(* What a ring that leads round S in both directions, by the times, is.    *)
LEMMA RingFacts ==
    ASSUME NEW lk, NEW S \in SUBSET (Node \ {timer_ring}), NEW tm \in [Node -> Nat],
           Ringed(lk, S, tm)
    PROVE  /\ \A m \in S \cup {timer_ring} :
                lk.next[m] \in S \cup {timer_ring} /\ lk.prev[lk.next[m]] = m
           /\ \A m \in S : lk.next[m] # m
           /\ lk.next[timer_ring] = timer_ring => S = {}
           /\ lk.next[timer_ring] # timer_ring => \A m \in S : tm[lk.next[timer_ring]] <= tm[m]
<1>0. PICK n \in Nat : \E s \in [1 .. n -> Node] : InOrder(lk, S, tm, s, n)
  BY DEF Ringed
<1>1. PICK s \in [1 .. n -> Node] : InOrder(lk, S, tm, s, n)
  BY <1>0
<1>2. \A m \in S \cup {timer_ring} : \E i \in 0 .. n : m = Nth(s, n, i)
  BY <1>1 DEF InOrder, Nth
<1>3. \A i \in 0 .. n + 1 : Nth(s, n, i) \in S \cup {timer_ring}
  BY <1>1 DEF InOrder, Nth
<1>4. \A m \in S \cup {timer_ring} :
         lk.next[m] \in S \cup {timer_ring} /\ lk.prev[lk.next[m]] = m
  BY <1>1, <1>2, <1>3, SMTT(30) DEF InOrder
<1>5. ASSUME NEW m \in S PROVE lk.next[m] # m
  <2>1. PICK i \in 1 .. n : s[i] = m
    BY <1>1 DEF InOrder
  <2>2. Nth(s, n, i) = m /\ lk.next[m] = Nth(s, n, i + 1)
    BY <1>1, <2>1 DEF InOrder, Nth
  <2>3. CASE i + 1 \in 1 .. n
    BY <1>1, <2>1, <2>2, <2>3 DEF InOrder, Nth
  <2>4. CASE i + 1 \notin 1 .. n
    BY <2>2, <2>4 DEF Nth
  <2>5. QED
    BY <2>3, <2>4
<1>6. lk.next[timer_ring] = Nth(s, n, 1)
  <2>1. 0 \in 0 .. n /\ 0 + 1 = 1 /\ Nth(s, n, 0) = timer_ring
    BY DEF Nth
  <2>2. QED
    BY <1>1, <2>1 DEF InOrder
<1>7. lk.next[timer_ring] = timer_ring => S = {}
  <2>1. ASSUME n >= 1 PROVE Nth(s, n, 1) # timer_ring
    BY <1>1, <2>1 DEF InOrder, Nth
  <2>2. n = 0 => S = {}
    BY <1>1 DEF InOrder
  <2>3. QED
    BY <1>6, <2>1, <2>2
<1>8. ASSUME lk.next[timer_ring] # timer_ring, NEW m \in S
      PROVE  tm[lk.next[timer_ring]] <= tm[m]
  <2>1. n >= 1 /\ lk.next[timer_ring] = s[1]
    BY <1>6, <1>8 DEF Nth
  <2>2. PICK i \in 1 .. n : s[i] = m
    BY <1>1 DEF InOrder
  <2>3. CASE i = 1
    BY <2>1, <2>2, <2>3
  <2>4. CASE i # 1
    BY <1>1, <2>1, <2>2, <2>4 DEF InOrder
  <2>5. QED
    BY <2>3, <2>4
<1>9. QED
  BY <1>4, <1>5, <1>7, <1>8

(* Links of other nodes do not matter, nor do their times. *)
LEMMA OtherLinks ==
    ASSUME NEW lk, NEW lk2, NEW S \in SUBSET Node, NEW tm, NEW tm2,
           Ringed(lk, S, tm),
           \A m \in S \cup {timer_ring} : lk2.next[m] = lk.next[m] /\ lk2.prev[m] = lk.prev[m],
           \A m \in S : tm2[m] = tm[m]
    PROVE  Ringed(lk2, S, tm2)
<1>0. PICK n \in Nat : \E s \in [1 .. n -> Node] : InOrder(lk, S, tm, s, n)
  BY DEF Ringed
<1>1. PICK s \in [1 .. n -> Node] : InOrder(lk, S, tm, s, n)
  BY <1>0
<1>2. \A i \in 0 .. n + 1 : Nth(s, n, i) \in S \cup {timer_ring}
  BY <1>1 DEF InOrder, Nth
<1>3. \A i \in 0 .. n : /\ lk2.next[Nth(s, n, i)] = Nth(s, n, i + 1)
                        /\ lk2.prev[Nth(s, n, i + 1)] = Nth(s, n, i)
  BY <1>1, <1>2, SMTT(30) DEF InOrder
<1>4. \A i, j \in 1 .. n : i < j => tm2[s[i]] <= tm2[s[j]]
  BY <1>1 DEF InOrder
<1>5. InOrder(lk2, S, tm2, s, n)
  BY <1>1, <1>3, <1>4 DEF InOrder
<1>6. QED
  BY <1>5 DEF Ringed

(* The stores of a link, and the links after them. *)
Linked(lk, lk2, a, x, b) ==
    /\ lk2.next[x] = b /\ lk2.next[a] = x
    /\ lk2.prev[x] = a /\ lk2.prev[b] = x
    /\ \A m \in Node : (m \notin {x, a} => lk2.next[m] = lk.next[m])
                       /\ (m \notin {x, b} => lk2.prev[m] = lk.prev[m])

(* Linking a node in between two neighbours whose times allow it. *)
LEMMA LinkInOrder ==
    ASSUME NEW lk, NEW lk2, NEW S \in SUBSET (Node \ {timer_ring}), NEW tm \in [Node -> Nat],
           Ringed(lk, S, tm), NEW x \in Node \ (S \cup {timer_ring}),
           NEW a \in S \cup {timer_ring}, NEW b, b = lk.next[a],
           a # timer_ring => tm[a] <= tm[x], b # timer_ring => tm[x] <= tm[b],
           Linked(lk, lk2, a, x, b)
    PROVE  Ringed(lk2, S \cup {x}, tm)
<1>0. PICK n \in Nat : \E s \in [1 .. n -> Node] : InOrder(lk, S, tm, s, n)
  BY DEF Ringed
<1>1. PICK s \in [1 .. n -> Node] : InOrder(lk, S, tm, s, n)
  BY <1>0
<1>2. PICK k \in 0 .. n : a = Nth(s, n, k)
  BY <1>1 DEF InOrder, Nth
<1>3. PICK r : r = [i \in 1 .. n + 1 |-> IF i <= k THEN s[i] ELSE IF i = k + 1 THEN x ELSE s[i - 1]]
  OBVIOUS
<1>4. /\ r \in [1 .. n + 1 -> Node]
      /\ \A i \in 1 .. k : r[i] = s[i]
      /\ r[k + 1] = x
      /\ \A i \in k + 2 .. n + 1 : r[i] = s[i - 1]
  BY <1>3
<1>5. b = Nth(s, n, k + 1)
  BY <1>1, <1>2 DEF InOrder
<1>6. /\ \A i \in 1 .. n : s[i] \in S
      /\ \A m \in S : \E i \in 1 .. n : s[i] = m
      /\ \A i, j \in 1 .. n : i # j => s[i] # s[j]
      /\ \A i, j \in 1 .. n : i < j => tm[s[i]] <= tm[s[j]]
  BY <1>1 DEF InOrder
<1> DEFINE Was(i) == \/ i \in 1 .. k /\ i \in 1 .. n /\ r[i] = s[i]
                     \/ i = k + 1 /\ r[i] = x
                     \/ i > k + 1 /\ i - 1 \in 1 .. n /\ r[i] = s[i - 1]
<1>40. \A i \in 1 .. n + 1 : Was(i)
  <2>1. ASSUME NEW i \in 1 .. n + 1 PROVE Was(i)
    <3>1. CASE i <= k
      BY <1>4, <3>1
    <3>2. CASE i = k + 1
      BY <1>4, <3>2
    <3>3. CASE i > k + 1
      <4>1. i \in k + 2 .. n + 1 /\ i - 1 \in 1 .. n
        BY <3>3
      <4>2. QED
        BY <1>4, <3>3, <4>1
    <3>4. QED
      BY <3>1, <3>2, <3>3
  <2>2. QED
    BY <2>1
<1>7. \A i \in 1 .. n + 1 : r[i] \in S \cup {x}
  BY <1>6, <1>40
<1>8. \A m \in S \cup {x} : \E i \in 1 .. n + 1 : r[i] = m
  <2>1. ASSUME NEW m \in S PROVE \E i \in 1 .. n + 1 : r[i] = m
    <3>1. PICK i \in 1 .. n : s[i] = m
      BY <1>6
    <3>2. CASE i <= k
      BY <1>4, <3>1, <3>2
    <3>3. CASE i > k
      <4>1. i + 1 \in k + 2 .. n + 1 /\ r[i + 1] = s[i]
        BY <1>4, <3>3
      <4>2. QED
        BY <3>1, <4>1
    <3>4. QED
      BY <3>2, <3>3
  <2>2. QED
    BY <1>4, <2>1
<1>9. ASSUME NEW i \in 1 .. n + 1, NEW j \in 1 .. n + 1, i # j PROVE r[i] # r[j]
  <2>1. Was(i) /\ Was(j)
    BY <1>40
  <2>2. \A c \in 1 .. n : s[c] # x
    BY <1>6
  <2>3. i - 1 # j - 1
    BY <1>9
  <2>4. QED
    BY <1>6, <1>9, <2>1, <2>2, <2>3
<1>10. ASSUME NEW i \in 1 .. n + 1, NEW j \in 1 .. n + 1, i < j PROVE tm[r[i]] <= tm[r[j]]
  <2>0. tm[x] \in Nat /\ \A c \in 1 .. n : tm[s[c]] \in Nat
    OBVIOUS
  <2>1. ASSUME NEW c \in 1 .. k PROVE tm[s[c]] <= tm[x]
    <3>1. k \in 1 .. n /\ c \in 1 .. n
      OBVIOUS
    <3>2. a = s[k] /\ a # timer_ring
      BY <1>2, <1>6, <3>1 DEF Nth
    <3>3. tm[s[c]] <= tm[s[k]]
      BY <1>6, <2>0, <3>1
    <3>4. QED
      BY <2>0, <3>1, <3>2, <3>3
  <2>2. ASSUME NEW c \in k + 1 .. n PROVE tm[x] <= tm[s[c]]
    <3>1. k + 1 \in 1 .. n /\ c \in 1 .. n
      OBVIOUS
    <3>2. b = s[k + 1] /\ b # timer_ring
      BY <1>5, <1>6, <3>1 DEF Nth
    <3>3. tm[s[k + 1]] <= tm[s[c]]
      BY <1>6, <2>0, <3>1
    <3>4. QED
      BY <2>0, <3>1, <3>2, <3>3
  <2>3. Was(i) /\ Was(j)
    BY <1>40
  <2>4. CASE r[i] = x /\ i = k + 1
    <3>1. j - 1 \in k + 1 .. n /\ r[j] = s[j - 1]
      BY <1>10, <2>3, <2>4
    <3>2. QED
      BY <2>2, <2>4, <3>1
  <2>5. CASE r[j] = x /\ j = k + 1
    <3>1. i \in 1 .. k /\ r[i] = s[i]
      BY <1>10, <2>3, <2>5
    <3>2. QED
      BY <2>1, <2>5, <3>1
  <2>6. CASE i # k + 1 /\ j # k + 1
    <3>1. PICK c \in 1 .. n : r[i] = s[c] /\ c = IF i <= k THEN i ELSE i - 1
      BY <2>3, <2>6
    <3>2. PICK d \in 1 .. n : r[j] = s[d] /\ d = IF j <= k THEN j ELSE j - 1
      BY <2>3, <2>6
    <3>3. c < d
      BY <1>10, <2>6, <3>1, <3>2
    <3>4. QED
      BY <1>6, <3>1, <3>2, <3>3
  <2>7. QED
    BY <2>3, <2>4, <2>5, <2>6
<1>11. ASSUME NEW i \in 0 .. n + 1
       PROVE  /\ lk2.next[Nth(r, n + 1, i)] = Nth(r, n + 1, i + 1)
              /\ lk2.prev[Nth(r, n + 1, i + 1)] = Nth(r, n + 1, i)
  <2>1. \A j \in 0 .. k : Nth(r, n + 1, j) = Nth(s, n, j)
    BY <1>4 DEF Nth
  <2>2. Nth(r, n + 1, k + 1) = x
    BY <1>4 DEF Nth
  <2>3. \A j \in k + 2 .. n + 2 : Nth(r, n + 1, j) = Nth(s, n, j - 1)
    BY <1>4 DEF Nth
  <2>4. \A j \in 0 .. n : j # k => Nth(s, n, j) # a
    BY <1>2, <1>6 DEF Nth
  <2>5. \A j \in 1 .. n + 1 : j # k + 1 => Nth(s, n, j) # b
    BY <1>5, <1>6 DEF Nth
  <2>6. \A j \in 0 .. n + 1 : Nth(s, n, j) \in Node /\ Nth(s, n, j) # x
    BY <1>6, Nodes DEF Nth
  <2>7. \A j \in 0 .. n : /\ lk.next[Nth(s, n, j)] = Nth(s, n, j + 1)
                          /\ lk.prev[Nth(s, n, j + 1)] = Nth(s, n, j)
    BY <1>1 DEF InOrder
  <2>8. CASE i < k
    <3>1. Nth(r, n + 1, i) = Nth(s, n, i) /\ Nth(r, n + 1, i + 1) = Nth(s, n, i + 1)
      BY <2>1, <2>8, SMTT(30)
    <3>2. Nth(s, n, i) # a /\ Nth(s, n, i + 1) # b
      BY <2>4, <2>5, <2>8
    <3>3. PICK u, v : u = Nth(s, n, i) /\ v = Nth(s, n, i + 1)
      OBVIOUS
    <3>4. u \in Node /\ v \in Node /\ u \notin {x, a} /\ v \notin {x, b} /\ lk.next[u] = v /\ lk.prev[v] = u
      BY <2>6, <2>7, <2>8, <3>2, <3>3, SMTT(30)
    <3>5. QED
      BY <3>1, <3>3, <3>4 DEF Linked
  <2>9. CASE i = k
    BY <1>2, <2>1, <2>2, <2>9 DEF Linked
  <2>10. CASE i = k + 1
    <3>1. Nth(r, n + 1, i + 1) = b
      BY <1>5, <2>3, <2>10
    <3>2. QED
      BY <2>2, <2>10, <3>1 DEF Linked
  <2>11. CASE i > k + 1
    <3>1. Nth(r, n + 1, i) = Nth(s, n, i - 1) /\ Nth(r, n + 1, i + 1) = Nth(s, n, i)
      <4>1. i \in k + 2 .. n + 2 /\ i + 1 \in k + 2 .. n + 2 /\ (i + 1) - 1 = i
        BY <2>11
      <4>2. QED
        BY <2>3, <4>1
    <3>2. Nth(s, n, i - 1) # a /\ Nth(s, n, i) # b
      BY <2>4, <2>5, <2>11
    <3>3. i - 1 \in 0 .. n /\ (i - 1) + 1 = i
      BY <2>11
    <3>4. PICK u, v : u = Nth(s, n, i - 1) /\ v = Nth(s, n, i)
      OBVIOUS
    <3>5. u \in Node /\ v \in Node /\ u \notin {x, a} /\ v \notin {x, b}
      BY <2>6, <3>2, <3>3, <3>4
    <3>6. lk.next[u] = v /\ lk.prev[v] = u
      BY <2>7, <3>3, <3>4
    <3>7. QED
      BY <3>1, <3>4, <3>5, <3>6 DEF Linked
  <2>12. QED
    BY <2>8, <2>9, <2>10, <2>11
<1>12. InOrder(lk2, S \cup {x}, tm, r, n + 1)
  BY <1>7, <1>8, <1>9, <1>10, <1>11 DEF InOrder
<1>13. QED
  BY <1>4, <1>12 DEF Ringed

(* The ring in the words of TimerRingHoldsArmed. *)
LEMMA RingIsSequence ==
    ASSUME armed \in SUBSET (Node \ {timer_ring}), Ringed(q, armed, time)
    PROVE  \E s \in SetToSeqs(armed) :
             /\ Chained(s)
             /\ \A i, j \in DOMAIN s : i < j => time[s[i]] <= time[s[j]]
<1>0. PICK n \in Nat : \E s \in [1 .. n -> Node] : InOrder(q, armed, time, s, n)
  BY DEF Ringed
<1>1. PICK s \in [1 .. n -> Node] : InOrder(q, armed, time, s, n)
  BY <1>0
<1>2. s \in [1 .. n -> armed]
  BY <1>1 DEF InOrder
<1>3. s \in Bijection(1 .. n, armed)
  BY <1>1, <1>2 DEF InOrder, Bijection, Injection, Surjection, IsInjective
<1>4. Cardinality(armed) = n
  BY <1>3, FS_CountingElements DEF ExistsBijection
<1>5. s \in SetToSeqs(armed)
  BY <1>1, <1>2, <1>4 DEF SetToSeqs, InOrder
<1>6. PICK c : c = <<timer_ring>> \o s \o <<timer_ring>>
  OBVIOUS
<1>7. s \in Seq(Node) /\ Len(s) = n
  OBVIOUS
<1>8. /\ Len(c) = n + 2
      /\ \A i \in 1 .. n + 2 : c[i] = Nth(s, n, i - 1)
  <2>1. PICK d : d = <<timer_ring>> \o s
    OBVIOUS
  <2>2. d \in Seq(Node) /\ Len(d) = n + 1 /\ \A i \in 1 .. n + 1 : d[i] = Nth(s, n, i - 1)
    BY <1>7, <2>1, Nodes DEF Nth
  <2>3. Len(c) = n + 2 /\ c[n + 2] = timer_ring /\ \A i \in 1 .. n + 1 : c[i] = d[i]
    <3>1. c = d \o <<timer_ring>> /\ <<timer_ring>> \in Seq(Node) /\ Len(<<timer_ring>>) = 1
      BY <1>6, <2>1, Nodes
    <3>2. Len(c) = n + 2 /\ \A i \in 1 .. n + 2 : c[i] = IF i <= n + 1 THEN d[i] ELSE <<timer_ring>>[i - (n + 1)]
      BY <2>2, <3>1
    <3>3. (n + 2) - (n + 1) = 1 /\ n + 2 \in 1 .. n + 2
      OBVIOUS
    <3>4. c[n + 2] = timer_ring
      BY <3>2, <3>3
    <3>5. QED
      BY <3>2, <3>4
  <2>4. Nth(s, n, n + 1) = timer_ring
    BY DEF Nth
  <2>5. QED
    BY <2>2, <2>3, <2>4
<1>9. ASSUME NEW i \in 1 .. Len(c) - 1
      PROVE  q.next[c[i]] = c[i + 1] /\ q.prev[c[i + 1]] = c[i]
  <2>1. i - 1 \in 0 .. n /\ (i - 1) + 1 = i /\ (i + 1) - 1 = i /\ i \in 1 .. n + 2 /\ i + 1 \in 1 .. n + 2
    BY <1>8
  <2>2. c[i] = Nth(s, n, i - 1) /\ c[i + 1] = Nth(s, n, i)
    BY <1>8, <2>1
  <2>3. QED
    BY <1>1, <2>1, <2>2 DEF InOrder
<1>10. Chained(s)
  BY <1>6, <1>9 DEF Chained
<1>11. QED
  BY <1>1, <1>5, <1>7, <1>10 DEF InOrder
-----------------------------------------------------------------------------
(* The pools at boot, and the thread of __scheduler_init. *)
LEMMA Boot ==
    /\ BootPool \in [ring : Seq(Pool), free : [Pool -> SUBSET Slot]]
    /\ Len(BootPool.ring) = Len(BootPools) /\ ToSet(BootPool.ring) = ToSet(BootPools)
    /\ CanAcquire(BootPool)
    /\ InitThread \in Thread /\ InitThread[1] \in ToSet(BootPool.ring)
    /\ \A u \in Thread : u[2] \in BootPool.free[u[1]] <=> u[1] \in ToSet(BootPool.ring)
<1>1. PICK n \in Nat : n = Len(BootPools) /\ n > 0
  BY AvalonAssumption
<1>2. BootPools \in [1 .. n -> Pool]
  BY <1>1, AvalonAssumption
<1>3. BootPool.ring = [i \in 1 .. n |-> BootPools[(n - i) + 1]]
  BY <1>1 DEF BootPool, Reverse
<1>4. BootPool.ring \in Seq(Pool) /\ DOMAIN BootPool.ring = 1 .. n /\ Len(BootPool.ring) = n
  BY <1>2, <1>3
<1>5. ToSet(BootPool.ring) = ToSet(BootPools)
  <2>1. \A i \in 1 .. n : (n - i) + 1 \in 1 .. n /\ (n - ((n - i) + 1)) + 1 = i
    OBVIOUS
  <2>2. \A i \in 1 .. n : BootPool.ring[i] = BootPools[(n - i) + 1]
    BY <1>3
  <2>3. \A i \in 1 .. n : BootPools[i] = BootPool.ring[(n - i) + 1]
    BY <2>1, <2>2
  <2>4. QED
    <3>1. DOMAIN BootPools = 1 .. n
      BY <1>2
    <3>2. ToSet(BootPools) \subseteq ToSet(BootPool.ring)
      <4> SUFFICES ASSUME NEW i \in 1 .. n PROVE BootPools[i] \in ToSet(BootPool.ring)
        BY <3>1 DEF ToSet
      <4>1. (n - i) + 1 \in DOMAIN BootPool.ring /\ BootPools[i] = BootPool.ring[(n - i) + 1]
        BY <1>4, <2>1, <2>3
      <4>2. QED
        BY <4>1 DEF ToSet
    <3>3. ToSet(BootPool.ring) \subseteq ToSet(BootPools)
      <4> SUFFICES ASSUME NEW i \in 1 .. n PROVE BootPool.ring[i] \in ToSet(BootPools)
        BY <1>4 DEF ToSet
      <4>1. (n - i) + 1 \in DOMAIN BootPools /\ BootPool.ring[i] = BootPools[(n - i) + 1]
        BY <2>1, <2>2, <3>1
      <4>2. QED
        BY <4>1 DEF ToSet
    <3>4. QED
      BY <3>2, <3>3
<1>6. BootPool.free = [b \in Pool |-> IF b \in ToSet(BootPools) THEN Slot ELSE {}]
  BY DEF BootPool
<1>7. BootPool \in [ring : Seq(Pool), free : [Pool -> SUBSET Slot]]
  BY <1>4, <1>6 DEF BootPool
<1>8. 0 \in Slot
  BY PoolsAssumption DEF Slot
<1>9. 1 \in HasFree(BootPool)
  <2>1. 1 \in DOMAIN BootPool.ring /\ BootPool.ring[1] \in Pool /\ BootPool.ring[1] \in ToSet(BootPool.ring)
    BY <1>1, <1>4 DEF ToSet
  <2>2. QED
    BY <1>5, <1>6, <1>8, <2>1 DEF HasFree
<1>10. CanAcquire(BootPool)
  BY <1>9 DEF CanAcquire
<1>11. QED
  BY <1>1, <1>4, <1>5, <1>6, <1>7, <1>10, Acquired DEF InitThread, Thread

(* __scheduler_init leaves one timer, Reprogram, and the init thread. *)
LEMMA InitInv ==
    ASSUME Careful, Init
    PROVE  TimerInv
<1>0. PICK i : i = Start(InitThread)
  OBVIOUS
<1>1. /\ i \in Node /\ i \notin {timer_ring, ready_for_execution, Reprogram}
      /\ timer_ring \in Node /\ ready_for_execution \in Node /\ Reprogram \in Node
      /\ timer_ring # ready_for_execution /\ timer_ring # Reprogram
      /\ ready_for_execution # Reprogram
  BY <1>0, Boot, Nodes
<1>2. PICK q0 : q0 = insert_after(Alone(Node), i, ready_for_execution)
  OBVIOUS
<1>3. /\ q0 \in [next : [Node -> Node], prev : [Node -> Node]]
      /\ q0.next = [m \in Node |-> IF m = i THEN ready_for_execution ELSE IF m = ready_for_execution THEN i ELSE m]
      /\ q0.prev = [m \in Node |-> IF m = i THEN ready_for_execution ELSE IF m = ready_for_execution THEN i ELSE m]
  BY <1>1, <1>2 DEF insert_after, Alone, LinkBetween
<1>4. /\ q \in [next : [Node -> Node], prev : [Node -> Node]]
      /\ q.next[timer_ring] = Reprogram /\ q.next[Reprogram] = timer_ring
      /\ q.prev[timer_ring] = Reprogram /\ q.prev[Reprogram] = timer_ring
      /\ q.next[i] = ready_for_execution /\ q.next[ready_for_execution] = i
      /\ \A m \in Node \ {timer_ring, Reprogram, i, ready_for_execution} : LoopsBack(q, m)
  <2>1. q = insert_after(q0, Reprogram, timer_ring)
    BY <1>0, <1>2 DEF Init
  <2>2. q0.next[timer_ring] = timer_ring
    BY <1>1, <1>3
  <2>3. q = [next |-> [q0.next EXCEPT ![Reprogram] = timer_ring, ![timer_ring] = Reprogram],
             prev |-> [q0.prev EXCEPT ![Reprogram] = timer_ring, ![timer_ring] = Reprogram]]
    BY <2>1, <2>2 DEF insert_after, LinkBetween
  <2>4. QED
    BY <1>1, <1>3, <2>3 DEF LoopsBack
<1>5. /\ machine = "running" /\ exec = InitThread /\ armed = {Reprogram} /\ call = NoCall
      /\ call.pc = "idle"
  BY DEF Init, NoCall
<1>6. time \in [Node -> Ticks] /\ time[Reprogram] = 0
  <2>1. 0 \in Ticks
    BY Registers DEF Ticks
  <2>2. PICK before \in Before : time = [m \in Node |-> IF m = timer_ring THEN before ELSE 0]
    BY DEF Init
  <2>3. QED
    BY <1>1, <2>1, <2>2 DEF Careful
<1>7. clock \in [ticks : Ticks, drift : Ticks, rate : 0 .. Word - 1, frac : 0 .. Short - 1,
                  per : 0 .. PitLimit - 1, new : 2 .. PitLimit - 1,
                  pit : 0 .. PitLimit \div 2 - 1, adj : Ticks]
  BY Registers, AvalonAssumption DEF Init, Ticks
<1>8. thread \in [Thread -> [status : 0 .. 255, frame : {"none", "built", "saved"}, held : Nat]]
  BY DEF Init
<1>9. pools \in [ring : Seq(Pool), free : [Pool -> SUBSET Slot]]
  BY Boot, Acquired DEF Init
<1>10. Shapes
  BY <1>4, <1>5, <1>6, <1>7, <1>8, <1>9, Boot, Nodes DEF Init, Shapes, TypeOK
<1>11. ThreadsOut
  <2>1. /\ pools.ring = BootPool.ring
        /\ \A u \in Thread : u[2] \in pools.free[u[1]] <=> u[1] \in ToSet(BootPool.ring) /\ u # InitThread
    BY Boot, Acquired DEF Init, InitThread
  <2>2. \A t \in Thread : thread[t].held = 0
    BY DEF Init
  <2>3. QED
    BY <1>5, <2>1, <2>2, Boot, Nodes DEF ThreadsOut, Out
<1>12. RingWhole
  <2>1. PICK s : s = [j \in 1 .. 1 |-> Reprogram]
    OBVIOUS
  <2>2. s \in [1 .. 1 -> Node] /\ s[1] = Reprogram
    BY <1>1, <2>1
  <2>3. \A j \in 0 .. 1 : /\ q.next[Nth(s, 1, j)] = Nth(s, 1, j + 1)
                          /\ q.prev[Nth(s, 1, j + 1)] = Nth(s, 1, j)
    BY <1>4, <2>2 DEF Nth
  <2>4. InOrder(q, armed, time, s, 1)
    BY <1>5, <2>2, <2>3 DEF InOrder
  <2>5. QED
    BY <1>5, <2>2, <2>4 DEF RingWhole, Ringed, Links, Ring, Half
<1>13. Armed
  BY <1>0, <1>1, <1>5, <1>6, Registers DEF Armed, Linking, Init
<1>14. ReadyRing /\ Loose
  BY <1>0, <1>4, <1>5, Boot DEF ReadyRing, Loose, ReadyLinked, Ring, Half
<1>15. Arguments /\ Place /\ ClockInCall /\ Reading
  BY <1>5 DEF Arguments, Linking, Place, ClockInCall, Reading
<1>16. QED
  BY <1>10, <1>11, <1>12, <1>13, <1>14, <1>15 DEF TimerInv
-----------------------------------------------------------------------------
(* Steps of calls that leave rings and timers alone. *)
LEMMA RingsAlone ==
    ASSUME TimerInv, Running, call.pc \in {"idle", "time"}, call'.pc \in {"idle", "time"},
           UNCHANGED <<q, armed, time>>, clock'.ticks = clock.ticks
    PROVE  RingWhole' /\ Armed' /\ ReadyRing' /\ Loose' /\ Arguments' /\ Place'
<1>1. ~Half /\ ~Half' /\ Links = q /\ Links' = q /\ Ring = armed /\ Ring' = armed
  BY DEF Half, Links, Ring
<1>2. RingWhole'
  <2>1. Ringed(q, armed, time)
    BY <1>1 DEF TimerInv, RingWhole
  <2>2. QED
    BY <1>1, <2>1 DEF RingWhole
<1>3. ~ReadyLinked /\ ~ReadyLinked' /\ ~Linking /\ ~Linking'
  BY DEF ReadyLinked, Linking
<1>4. Armed'
  BY <1>3 DEF TimerInv, Armed
<1>5. ReadyRing' /\ Loose'
  BY <1>1, <1>3 DEF TimerInv, ReadyRing, Loose
<1>6. Arguments' /\ Place'
  BY <1>3 DEF Arguments, Place
<1>7. QED
  BY <1>2, <1>4, <1>5, <1>6

(* thread.add_pool brings threads that nobody has and no ring. *)
LEMMA AddPoolInv ==
    ASSUME Careful, TimerInv, NEW b \in Pool, thread_add_pool(b)
    PROVE  TimerInv'
<1>1. /\ Running /\ Running' /\ call.pc = "idle" /\ call' = call
      /\ UNCHANGED <<machine, exec, clock, q, time, thread, armed>>
      /\ b \notin ToSet(pools.ring)
  BY DEF thread_add_pool, CanCall, Running
<1>2. /\ pools \in [ring : Seq(Pool), free : [Pool -> SUBSET Slot]]
      /\ pools' = [ring |-> <<b>> \o pools.ring, free |-> [pools.free EXCEPT ![b] = Slot]]
  BY DEF thread_add_pool, add_pool, TimerInv, Shapes
<1>3. /\ pools' \in [ring : Seq(Pool), free : [Pool -> SUBSET Slot]]
      /\ pools'.free = [pools.free EXCEPT ![b] = Slot]
      /\ pools'.ring = <<b>> \o pools.ring
  BY <1>2
<1>4. ToSet(pools'.ring) = ToSet(pools.ring) \cup {b}
  <2>1. PICK r \in Seq(Pool) : r = pools.ring
    BY <1>2
  <2>2. PICK n \in Nat : n = Len(r)
    BY <2>1
  <2>3. PICK c : c = <<b>> \o r
    OBVIOUS
  <2>4. DOMAIN c = 1 .. n + 1 /\ c[1] = b /\ \A i \in 1 .. n : c[i + 1] = r[i] /\ i + 1 \in 1 .. n + 1
    BY <2>2, <2>3
  <2>5. \A i \in 1 .. n + 1 : i = 1 \/ (i - 1 \in 1 .. n /\ (i - 1) + 1 = i)
    OBVIOUS
  <2>6. DOMAIN r = 1 .. n
    BY <2>1, <2>2
  <2>7. ToSet(r) \cup {b} \subseteq ToSet(c)
    BY <2>4, <2>6 DEF ToSet
  <2>8. ASSUME NEW y \in ToSet(c) PROVE y \in ToSet(r) \cup {b}
    <3>1. PICK i \in 1 .. n + 1 : y = c[i]
      BY <2>4 DEF ToSet
    <3>2. CASE i = 1
      BY <2>4, <3>1, <3>2
    <3>3. CASE i # 1
      <4>1. PICK j \in 1 .. n : j + 1 = i
        BY <2>5, <3>3
      <4>2. y = r[j]
        BY <2>4, <3>1, <4>1
      <4>3. QED
        BY <2>6, <4>2 DEF ToSet
    <3>4. QED
      BY <3>2, <3>3
  <2>9. QED
    BY <1>3, <2>1, <2>3, <2>7, <2>8
<1>5. Shapes'
  BY <1>1, <1>3 DEF TimerInv, Shapes, TypeOK
<1>6. ThreadsOut'
  <2>1. ThreadsOut
    BY <1>1 DEF TimerInv
  <2>2. \A t \in Thread : t[1] \in Pool /\ t[2] \in Slot
    BY DEF Thread
  <2>3. \A t \in Thread : (t[1] \in ToSet(pools'.ring) /\ t[2] \notin pools'.free[t[1]]) <=> Out(t)
    BY <1>1, <1>2, <1>3, <1>4, <2>2 DEF Out
  <2>4. QED
    BY <1>1, <2>1, <2>3, Boot DEF ThreadsOut, Out
<1>7. RingWhole' /\ Armed' /\ ReadyRing' /\ Loose' /\ Arguments' /\ Place'
  BY <1>1, RingsAlone
<1>8. ClockInCall' /\ Reading'
  BY <1>1 DEF ClockInCall, Reading
<1>9. QED
  BY <1>5, <1>6, <1>7, <1>8 DEF TimerInv

(* thread.initialize only builds a frame. *)
LEMMA InitializeInv ==
    ASSUME Careful, TimerInv, NEW t \in Thread, thread_initialize(t)
    PROVE  TimerInv'
<1>1. /\ Running /\ Running' /\ call.pc = "idle" /\ call' = call
      /\ UNCHANGED <<machine, exec, clock, pools, q, time, armed>>
      /\ thread' = [thread EXCEPT ![t].frame = "built"]
  BY DEF thread_initialize, CanCall, Running
<1>2. /\ thread' \in [Thread -> [status : 0 .. 255, frame : {"none", "built", "saved"}, held : Nat]]
      /\ \A u \in Thread : thread'[u].held = thread[u].held
  <2>1. thread \in [Thread -> [status : 0 .. 255, frame : {"none", "built", "saved"}, held : Nat]]
    BY DEF TimerInv, Shapes, TypeOK
  <2>2. PICK w \in [status : 0 .. 255, frame : {"none", "built", "saved"}, held : Nat] : w = thread[t]
    BY <2>1
  <2>3. PICK v : v = [w EXCEPT !.frame = "built"]
    OBVIOUS
  <2>4. v \in [status : 0 .. 255, frame : {"none", "built", "saved"}, held : Nat] /\ v.held = w.held
    BY <2>3
  <2>5. thread' = [thread EXCEPT ![t] = v]
    BY <1>1, <2>2, <2>3
  <2>6. QED
    BY <2>1, <2>2, <2>4, <2>5
<1>3. Shapes'
  BY <1>1, <1>2 DEF TimerInv, Shapes, TypeOK
<1>4. ThreadsOut'
  BY <1>1, <1>2, Boot DEF TimerInv, ThreadsOut, Out
<1>5. RingWhole' /\ Armed' /\ ReadyRing' /\ Loose' /\ Arguments' /\ Place'
  BY <1>1, RingsAlone
<1>6. ClockInCall' /\ Reading'
  BY <1>1 DEF ClockInCall, Reading
<1>7. QED
  BY <1>3, <1>4, <1>5, <1>6 DEF TimerInv

(* The rate of the correction concerns no ring. *)
LEMMA RateInv ==
    ASSUME Careful, TimerInv, NEW r \in Rates, set_tick_drift_correction_rate(r)
    PROVE  TimerInv'
<1>1. /\ Running /\ Running' /\ call.pc = "idle" /\ call' = call
      /\ UNCHANGED <<machine, exec, thread, pools, q, time, armed>>
      /\ clock' = [clock EXCEPT !.rate = r]
  BY DEF set_tick_drift_correction_rate, CanCall, Running
<1>2. clock'.ticks = clock.ticks
  BY <1>1 DEF TimerInv, Shapes, TypeOK
<1>3. Shapes'
  BY <1>1, ZenonT(60) DEF Careful, TimerInv, Shapes, TypeOK
<1>4. ThreadsOut'
  BY <1>1 DEF TimerInv, ThreadsOut, Out
<1>5. RingWhole' /\ Armed' /\ ReadyRing' /\ Loose' /\ Arguments' /\ Place'
  BY <1>1, <1>2, RingsAlone
<1>6. ClockInCall' /\ Reading'
  BY <1>1 DEF ClockInCall, Reading
<1>7. QED
  BY <1>3, <1>4, <1>5, <1>6 DEF TimerInv

(* set_uuutime begins: it remembers the low word and when it read it. *)
LEMMA SetTimeInv ==
    ASSUME Careful, TimerInv, NEW t \in Times, set_uuutime(t)
    PROVE  TimerInv'
<1>1. /\ Running /\ Running' /\ call.pc = "idle" /\ clock.ticks <= MaxTicks
      /\ UNCHANGED <<machine, exec, clock, thread, pools, q, time, armed>>
      /\ call' = [pc |-> "time", low |-> Lo(clock.ticks), since |-> clock.ticks, to |-> t]
  BY DEF set_uuutime, CanCall, Running
<1>2. clock.ticks \in Nat /\ Lo(clock.ticks) \in Nat
  BY Registers, SMTT(30) DEF TimerInv, Shapes, TypeOK, Ticks, Lo
<1>3. call' \in TimeCall /\ call'.pc = "time"
  BY <1>1, <1>2 DEF TimeCall
<1>4. Shapes'
  BY <1>1, <1>3 DEF TimerInv, Shapes, TypeOK
<1>5. ThreadsOut'
  BY <1>1 DEF TimerInv, ThreadsOut, Out
<1>6. RingWhole' /\ Armed' /\ ReadyRing' /\ Loose' /\ Arguments' /\ Place'
  BY <1>1, <1>3, RingsAlone
<1>7. ClockInCall' /\ Reading'
  BY <1>1, <1>2, Registers, AvalonAssumption DEF ClockInCall, Reading
<1>8. QED
  BY <1>4, <1>5, <1>6, <1>7 DEF TimerInv

(* set_uuutime ends: only the adjustment changes. *)
LEMMA AdjustInv ==
    ASSUME Careful, TimerInv, AdjustTime
    PROVE  TimerInv'
<1>1. /\ Running /\ Running' /\ call.pc = "time" /\ call' = NoCall /\ call'.pc = "idle"
      /\ UNCHANGED <<machine, exec, thread, pools, q, time, armed>>
      /\ clock' = [clock EXCEPT !.adj = Add(clock.adj, Sub(call.to, get_uuutime(call.low)))]
  BY DEF AdjustTime, Running, NoCall
<1>2. call \in TimeCall /\ clock.ticks \in Nat /\ clock.adj \in Ticks /\ Ticks \subseteq Nat
  <2>1. call \in {NoCall, [pc |-> "spin"]} \cup LinkCall \cup TimeCall
    BY DEF TimerInv, Shapes
  <2>2. call \in TimeCall
    BY <1>1, <2>1 DEF LinkCall, NoCall
  <2>3. Ticks \subseteq Nat
    BY Registers DEF Ticks
  <2>4. QED
    BY <2>2, <2>3 DEF TimerInv, Shapes, TypeOK
<1>3. get_uuutime(call.low) \in Ticks
  <2>1. PICK h \in Nat : h = Hi(clock.ticks)
    BY <1>2, Registers DEF Hi
  <2>2. Join(h, call.low) \in Nat
    BY <1>2, <2>1, Registers DEF Join, TimeCall
  <2>3. QED
    BY <1>2, <2>1, <2>2, ScaleNat, AddRange DEF get_uuutime
<1>4. Sub(call.to, get_uuutime(call.low)) \in Ticks
  BY <1>2, <1>3, SubRange DEF TimeCall, Careful
<1>5. Add(clock.adj, Sub(call.to, get_uuutime(call.low))) \in Ticks
  BY <1>2, <1>4, AddRange
<1>6. clock'.ticks = clock.ticks
  BY <1>1 DEF TimerInv, Shapes, TypeOK
<1>7. Shapes'
  BY <1>1, <1>5, ZenonT(60) DEF TimerInv, Shapes, TypeOK
<1>8. ThreadsOut'
  BY <1>1 DEF TimerInv, ThreadsOut, Out
<1>9. RingWhole' /\ Armed' /\ ReadyRing' /\ Loose' /\ Arguments' /\ Place'
  BY <1>1, <1>6, RingsAlone
<1>10. ClockInCall' /\ Reading'
  BY <1>1 DEF ClockInCall, Reading
<1>11. QED
  BY <1>7, <1>8, <1>9, <1>10 DEF TimerInv

(* thread.acquire: the nodes it resets are on no ring, since nobody has them. *)
LEMMA AcquireInv ==
    ASSUME Careful, TimerInv, thread_acquire
    PROVE  TimerInv'
<1>1. /\ Running /\ Running' /\ call.pc = "idle" /\ call' = call /\ CanAcquire(pools)
      /\ UNCHANGED <<machine, exec, clock, time, armed>>
      /\ pools' = acquire(pools)
  BY DEF thread_acquire, CanCall, Running
<1>2. PICK t : t = acquired(pools)
  OBVIOUS
<1>3. PICK a, e : a = Start(t) /\ e = End(t)
  OBVIOUS
<1>4. /\ q' = [next |-> [q.next EXCEPT ![a] = a, ![e] = e], prev |-> [q.prev EXCEPT ![a] = a, ![e] = e]]
      /\ thread' = [thread EXCEPT ![t].status = 0, ![t].held = @ + 1]
  BY <1>2, <1>3 DEF thread_acquire
<1>5. /\ pools \in [ring : Seq(Pool), free : [Pool -> SUBSET Slot]]
      /\ q \in [next : [Node -> Node], prev : [Node -> Node]]
      /\ thread \in [Thread -> [status : 0 .. 255, frame : {"none", "built", "saved"}, held : Nat]]
      /\ ThreadsOut
  BY <1>1 DEF TimerInv, Shapes, TypeOK
<1>6. /\ t \in Thread /\ t[1] \in ToSet(pools.ring) /\ t[2] \in pools.free[t[1]]
      /\ pools' \in [ring : Seq(Pool), free : [Pool -> SUBSET Slot]]
      /\ pools'.ring = pools.ring
      /\ \A u \in Thread : u[2] \in pools'.free[u[1]] <=> u[2] \in pools.free[u[1]] /\ u # t
  BY <1>1, <1>2, <1>5, Acquired
<1>7. t # InitThread /\ thread[t].held = 0 /\ a \notin armed /\ e \notin armed
  BY <1>3, <1>5, <1>6 DEF ThreadsOut, Out
<1>8. /\ a \in Node /\ e \in Node /\ a # e
      /\ {a, e} \cap {timer_ring, ready_for_execution, Start(InitThread)} = {}
  BY <1>3, <1>6, <1>7, Nodes, Boot
<1>9. /\ q' \in [next : [Node -> Node], prev : [Node -> Node]]
      /\ \A m \in Node : m \notin {a, e} => q'.next[m] = q.next[m] /\ q'.prev[m] = q.prev[m]
      /\ \A m \in {a, e} : LoopsBack(q', m)
  <2>1. /\ q'.next = [q.next EXCEPT ![a] = a, ![e] = e]
        /\ q'.prev = [q.prev EXCEPT ![a] = a, ![e] = e]
    BY <1>4
  <2>2. q.next \in [Node -> Node] /\ q.prev \in [Node -> Node]
    BY <1>5
  <2>3. q'.next \in [Node -> Node] /\ q'.prev \in [Node -> Node]
    BY <1>8, <2>1, <2>2
  <2>4. \A m \in {a, e} : LoopsBack(q', m)
    BY <1>8, <2>1, <2>2 DEF LoopsBack
  <2>5. QED
    BY <1>4, <1>8, <2>1, <2>2, <2>3, <2>4
<1>10. /\ thread' \in [Thread -> [status : 0 .. 255, frame : {"none", "built", "saved"}, held : Nat]]
       /\ \A u \in Thread : u # t => thread'[u].held = thread[u].held
  <2>1. PICK w \in [status : 0 .. 255, frame : {"none", "built", "saved"}, held : Nat] : w = thread[t]
    BY <1>5, <1>6
  <2>2. PICK v : v = [status |-> 0, frame |-> w.frame, held |-> w.held + 1]
    OBVIOUS
  <2>3. v \in [status : 0 .. 255, frame : {"none", "built", "saved"}, held : Nat]
    BY <2>2
  <2>4. thread' = [thread EXCEPT ![t] = v]
    BY <1>4, <1>5, <1>6, <2>1, <2>2
  <2>5. QED
    BY <1>5, <1>6, <2>3, <2>4
<1>11. Shapes'
  BY <1>1, <1>6, <1>9, <1>10 DEF TimerInv, Shapes, TypeOK
<1>12. ThreadsOut'
  <2>1. \A u \in Thread : ~(u[1] \in ToSet(pools'.ring) /\ u[2] \notin pools'.free[u[1]]) => u # t /\ ~Out(u)
    BY <1>6 DEF Out
  <2>2. \A u \in Thread : Out(u) => u[1] \in ToSet(pools'.ring) /\ u[2] \notin pools'.free[u[1]]
    BY <1>6 DEF Out
  <2>3. QED
    BY <1>1, <1>5, <1>7, <1>10, <2>1, <2>2, Boot DEF ThreadsOut, Out
<1>13. ~Half /\ ~Half' /\ Links = q /\ Links' = q' /\ Ring = armed /\ Ring' = armed
       /\ ~ReadyLinked /\ ~Linking /\ ~Linking'
  BY <1>1 DEF Half, Links, Ring, ReadyLinked, Linking
<1>14. RingWhole'
  <2>1. Ringed(q, armed, time) /\ armed \in SUBSET Node
    BY <1>1, <1>13 DEF TimerInv, RingWhole, Shapes, TypeOK
  <2>2. \A m \in armed \cup {timer_ring} : q'.next[m] = q.next[m] /\ q'.prev[m] = q.prev[m]
    BY <1>7, <1>8, <1>9, <2>1, Nodes, ZenonT(60)
  <2>3. Ringed(q', armed, time)
    BY <2>1, <2>2, OtherLinks
  <2>4. QED
    BY <1>1, <1>13, <2>3 DEF RingWhole
<1>15. Armed'
  BY <1>1 DEF TimerInv, Armed, Linking
<1>16. ReadyRing'
  <2>1. /\ ready_for_execution \in Node /\ Start(InitThread) \in Node
        /\ q'.next[ready_for_execution] = q.next[ready_for_execution]
        /\ q'.next[Start(InitThread)] = q.next[Start(InitThread)]
    BY <1>8, <1>9, Nodes, Boot
  <2>2. QED
    BY <1>1, <1>13, <2>1 DEF TimerInv, ReadyRing
<1>17. Loose'
  BY <1>1, <1>9, <1>13 DEF TimerInv, Loose, LoopsBack
<1>18. Arguments' /\ Place' /\ ClockInCall' /\ Reading'
  BY <1>1 DEF Arguments, Linking, Place, ClockInCall, Reading
<1>19. QED
  BY <1>11, <1>12, <1>14, <1>15, <1>16, <1>17, <1>18 DEF TimerInv

(* thread.schedule begins: its nodes are loose, and its times are in bounds. *)
LEMMA ScheduleInv ==
    ASSUME Careful, TimerInv, NEW t \in Thread, NEW p \in Priorities,
           NEW d \in Delays, NEW e \in Deadlines, thread_schedule(t, p, d, e)
    PROVE  TimerInv'
<1>1. /\ Running /\ Running' /\ call.pc = "idle" /\ clock.ticks <= MaxTicks
      /\ UNCHANGED <<machine, exec, clock, pools, q, time, armed>>
      /\ Reprogram \notin armed \/ clock.ticks > 0
      /\ thread[t].held > 0 /\ Unused(t)
      /\ clock.ticks + uuu2ticks(d) <= MaxTicks /\ clock.ticks + uuu2ticks(e) <= MaxTicks
      /\ thread' = [thread EXCEPT ![t].status = (p \div Short) % 256]
      /\ call' = [pc |-> "low", kind |-> "end", node |-> End(t), ring |-> timer_ring,
                  t |-> t, priority |-> p, start |-> d, delay |-> e,
                  sum |-> 0, at |-> <<timer_ring, timer_ring>>]
  BY DEF thread_schedule, CanCall, Running, Held, Careful
<1>2. /\ clock.ticks \in Nat /\ uuu2ticks(d) \in Nat /\ uuu2ticks(e) \in Nat
      /\ MaxTicks \in Nat /\ PitLimit \in Nat
  BY Registers, ScaleNat, AvalonAssumption DEF TimerInv, Shapes, TypeOK, Ticks, Careful
<1>3. call' \in LinkCall /\ call'.pc = "low"
  BY <1>1, Nodes DEF LinkCall
<1>4. /\ thread' \in [Thread -> [status : 0 .. 255, frame : {"none", "built", "saved"}, held : Nat]]
      /\ \A u \in Thread : thread'[u].held = thread[u].held
  <2>1. thread \in [Thread -> [status : 0 .. 255, frame : {"none", "built", "saved"}, held : Nat]]
    BY DEF TimerInv, Shapes, TypeOK
  <2>2. PICK w \in [status : 0 .. 255, frame : {"none", "built", "saved"}, held : Nat] : w = thread[t]
    BY <2>1
  <2>3. (p \div Short) % 256 \in 0 .. 255
    <3>1. p \in Nat
      BY Registers DEF Careful
    <3>2. PICK k \in Nat : k = p \div Short
      BY <3>1, Registers
    <3>3. QED
      BY <3>2
  <2>4. PICK v : v = [w EXCEPT !.status = (p \div Short) % 256]
    OBVIOUS
  <2>5. v \in [status : 0 .. 255, frame : {"none", "built", "saved"}, held : Nat] /\ v.held = w.held
    BY <2>3, <2>4
  <2>6. thread' = [thread EXCEPT ![t] = v]
    BY <1>1, <2>2, <2>4
  <2>7. QED
    BY <2>1, <2>2, <2>5, <2>6
<1>5. Shapes'
  BY <1>1, <1>3, <1>4 DEF TimerInv, Shapes, TypeOK
<1>6. ThreadsOut'
  BY <1>1, <1>4, Boot DEF TimerInv, ThreadsOut, Out
<1>7. t # InitThread
  BY <1>1 DEF TimerInv, ThreadsOut
<1>8. ~Half /\ ~Half' /\ Links = q /\ Links' = q /\ Ring = armed /\ Ring' = armed
      /\ ~ReadyLinked /\ ~ReadyLinked'
  BY <1>1, <1>3 DEF Half, Links, Ring, ReadyLinked
<1>9. Ringed(q, armed, time)
  BY <1>1, <1>8 DEF TimerInv, RingWhole
<1>10. RingWhole'
  BY <1>1, <1>8, <1>9 DEF RingWhole
<1>11. Start(t) \notin armed /\ End(t) \notin armed
  <2>1. armed \in SUBSET (Node \ {timer_ring}) /\ time \in [Node -> Nat]
    BY <1>1 DEF TimerInv, Armed, Shapes, TypeOK, Ticks
  <2>2. \A m \in armed : q.next[m] # m
    BY <1>9, <2>1, RingFacts
  <2>3. QED
    BY <1>1, <2>2 DEF Unused
<1>12. Reprogram \notin armed
  BY <1>1, <1>2 DEF TimerInv, Armed
<1>13. Armed'
  BY <1>1, <1>12 DEF TimerInv, Armed
<1>14. ReadyRing' /\ Loose'
  BY <1>1, <1>8 DEF TimerInv, ReadyRing, Loose
<1>15. Arguments'
  BY <1>1, <1>2, <1>3, <1>4, <1>7, <1>11 DEF Arguments
<1>16. Place' /\ ClockInCall' /\ Reading'
  BY <1>1, <1>2, <1>3 DEF Place, ClockInCall, Reading
<1>17. QED
  BY <1>5, <1>6, <1>10, <1>13, <1>14, <1>15, <1>16 DEF TimerInv
-----------------------------------------------------------------------------
(* What holds in every step of thread.schedule. *)
LEMMA InCall ==
    ASSUME Careful, TimerInv, Running, Linking
    PROVE  /\ call \in LinkCall /\ call.t \in Thread /\ call.t # InitThread
           /\ call.node \in Node
           /\ call.node \notin {timer_ring, ready_for_execution, Start(InitThread), Reprogram}
           /\ Reprogram \notin armed
           /\ armed \in SUBSET (Node \ {timer_ring}) /\ time \in [Node -> Nat]
           /\ q \in [next : [Node -> Node], prev : [Node -> Node]]
           /\ MaxTicks \in Nat /\ PitLimit \in Nat /\ Word \in Nat
           /\ clock.ticks \in Nat /\ clock.ticks <= MaxTicks + PitLimit
           /\ uuu2ticks(call.delay) \in Nat /\ uuu2ticks(call.delay) <= MaxTicks
           /\ uuu2ticks(call.start) \in Nat /\ uuu2ticks(call.start) <= MaxTicks
<1>1. call.pc \in {"low", "high", "ready", "search", "left", "right"}
  BY DEF Linking
<1>2. call \in {NoCall, [pc |-> "spin"]} \cup LinkCall \cup TimeCall
  BY DEF TimerInv, Shapes
<1>3. call \in LinkCall
  BY <1>1, <1>2 DEF NoCall, TimeCall
<1>4. call.t \in Thread /\ call.node \in Node /\ call.start \in Delays /\ call.delay \in Delays \cup Deadlines
  BY <1>3 DEF LinkCall
<1>5. Arguments /\ Armed /\ ClockInCall
  BY DEF TimerInv
<1>6. call.t # InitThread /\ call.node = IF call.kind = "end" THEN End(call.t) ELSE Start(call.t)
  BY <1>5 DEF Arguments
<1>7. call.node \notin {timer_ring, ready_for_execution, Start(InitThread), Reprogram}
  BY <1>4, <1>6, Nodes, Boot
<1>8. armed \in SUBSET (Node \ {timer_ring}) /\ time \in [Node -> Nat] /\ Reprogram \notin armed
  BY <1>5 DEF Armed, TimerInv, Shapes, TypeOK, Ticks
<1>9. clock.ticks \in Nat /\ clock.ticks <= MaxTicks + PitLimit
  BY <1>1, <1>5 DEF ClockInCall, TimerInv, Shapes, TypeOK, Ticks
<1>10. /\ uuu2ticks(call.delay) \in Nat /\ uuu2ticks(call.delay) <= MaxTicks
       /\ uuu2ticks(call.start) \in Nat /\ uuu2ticks(call.start) <= MaxTicks
  BY <1>4, <1>5, ScaleNat DEF Arguments, Careful
<1>11. QED
  BY <1>3, <1>4, <1>6, <1>7, <1>8, <1>9, <1>10, Registers, AvalonAssumption DEF TimerInv, Shapes

(* The low word of the expiry. *)
LEMMA ReadLowInv ==
    ASSUME Careful, TimerInv, ReadTicksLow
    PROVE  TimerInv'
<1>1. /\ Running /\ Running' /\ call.pc = "low" /\ Linking
      /\ UNCHANGED <<machine, exec, clock, pools, q, time, thread, armed>>
      /\ call' = [call EXCEPT !.pc = "high", !.sum = Lo(uuu2ticks(call.delay)) + Lo(clock.ticks)]
  BY DEF ReadTicksLow, Running, Linking
<1>2. PICK x \in Nat : x = Lo(uuu2ticks(call.delay)) + Lo(clock.ticks) /\ x <= 2 * MaxTicks + PitLimit
  <2>1. uuu2ticks(call.delay) < Word /\ clock.ticks < Word
    BY <1>1, InCall DEF Careful
  <2>2. Lo(uuu2ticks(call.delay)) = uuu2ticks(call.delay) /\ Lo(clock.ticks) = clock.ticks
    BY <1>1, <2>1, InCall, Small
  <2>3. QED
    BY <1>1, <2>2, InCall
<1>3. call \in LinkCall
  BY <1>1, InCall
<1>4. /\ call' \in LinkCall /\ call'.pc = "high" /\ call'.kind = call.kind /\ call'.node = call.node
      /\ call'.ring = call.ring /\ call'.t = call.t /\ call'.delay = call.delay
      /\ call'.start = call.start /\ call'.sum = x
  BY <1>1, <1>2, <1>3 DEF LinkCall
<1>5. Shapes'
  BY <1>1, <1>4 DEF TimerInv, Shapes, TypeOK
<1>6. ThreadsOut'
  BY <1>1 DEF TimerInv, ThreadsOut, Out
<1>7. ~Half /\ ~Half' /\ Links = q /\ Links' = q /\ Ring = armed /\ Ring' = armed
      /\ ~ReadyLinked /\ ~ReadyLinked'
  BY <1>1, <1>4 DEF Half, Links, Ring, ReadyLinked
<1>8. RingWhole'
  <2>1. Ringed(q, armed, time)
    BY <1>1, <1>7 DEF TimerInv, RingWhole
  <2>2. QED
    BY <1>1, <1>7, <2>1 DEF RingWhole
<1>9. Armed'
  BY <1>1, InCall DEF TimerInv, Armed
<1>10. ReadyRing' /\ Loose'
  BY <1>1, <1>7 DEF TimerInv, ReadyRing, Loose
<1>11. Arguments'
  <2>1. Arguments
    BY <1>1 DEF TimerInv
  <2>2. QED
    BY <1>1, <1>2, <1>4, <2>1 DEF Arguments
<1>12. Place' /\ ClockInCall' /\ Reading'
  BY <1>1, <1>4, InCall DEF Place, ClockInCall, Reading
<1>13. QED
  BY <1>5, <1>6, <1>8, <1>9, <1>10, <1>11, <1>12 DEF TimerInv

(* The node about to be linked loops back, and the search begins. *)
LEMMA BeginInv ==
    ASSUME Careful, TimerInv, Running, Linking, call.pc \in {"high", "ready"},
           NEW c \in LinkCall, c.t = call.t, c.delay = call.delay, c.start = call.start,
           c.node = IF c.kind = "end" THEN End(c.t) ELSE Start(c.t),
           c.ring = IF c.kind = "ready" THEN ready_for_execution ELSE timer_ring,
           c.node \notin armed, NEW v \in Ticks, c.ring = timer_ring => v < Word,
           time' = [time EXCEPT ![c.node] = v], LinkBegin(c),
           UNCHANGED <<machine, exec, clock, pools, thread>>
    PROVE  TimerInv'
<1>1. /\ call.t \in Thread /\ call.t # InitThread /\ Reprogram \notin armed
      /\ armed \in SUBSET (Node \ {timer_ring}) /\ time \in [Node -> Nat]
      /\ clock.ticks <= MaxTicks + PitLimit
  BY InCall
<1>2. c.node \in Node /\ c.node \notin {timer_ring, ready_for_execution, Start(InitThread), Reprogram}
  BY <1>1, Nodes, Boot
<1>3. ~Half /\ Links = q /\ Ring = armed /\ ~ReadyLinked
  BY DEF Half, Links, Ring, ReadyLinked
<1>4. LoopsBack(q, c.node)
  BY <1>2, <1>3 DEF TimerInv, Loose
<1>5. UNCHANGED <<q, armed>> /\ call' = [c EXCEPT !.pc = "search", !.at = <<c.ring, q.next[c.ring]>>]
  BY <1>4 DEF LinkBegin
<1>6. /\ q \in [next : [Node -> Node], prev : [Node -> Node]]
      /\ c.ring \in Node /\ q.next[c.ring] \in Node
  BY Nodes DEF TimerInv, Shapes, LinkCall
<1>7. /\ call' \in LinkCall /\ call'.pc = "search" /\ call'.kind = c.kind /\ call'.node = c.node
      /\ call'.ring = c.ring /\ call'.t = c.t /\ call'.delay = c.delay /\ call'.start = c.start
      /\ call'.at = <<c.ring, q.next[c.ring]>>
  BY <1>5, <1>6 DEF LinkCall
<1>8. /\ time' \in [Node -> Ticks] /\ time'[c.node] = v
      /\ \A m \in Node : m # c.node => time'[m] = time[m]
  BY <1>2 DEF TimerInv, Shapes, TypeOK
<1>9. Shapes'
  BY <1>5, <1>7, <1>8 DEF TimerInv, Shapes, TypeOK
<1>10. ThreadsOut'
  BY <1>5 DEF TimerInv, ThreadsOut, Out
<1>11. ~Half' /\ Links' = q /\ Ring' = armed /\ ~ReadyLinked' /\ Running'
  BY <1>5, <1>7 DEF Half, Links, Ring, ReadyLinked, Running
<1>12. Ringed(q, armed, time)
  BY <1>3 DEF TimerInv, RingWhole
<1>13. RingWhole'
  <2>1. \A m \in armed : time'[m] = time[m]
    BY <1>1, <1>8
  <2>2. Ringed(q, armed, time')
    <3>1. PICK tm : tm = time'
      OBVIOUS
    <3>2. armed \in SUBSET Node /\ \A m \in armed : tm[m] = time[m]
      BY <1>1, <2>1, <3>1
    <3>3. \A m \in armed \cup {timer_ring} : q.next[m] = q.next[m] /\ q.prev[m] = q.prev[m]
      OBVIOUS
    <3>4. Ringed(q, armed, tm)
      BY <1>12, <3>2, <3>3, OtherLinks
    <3>5. QED
      BY <3>1, <3>4
  <2>3. QED
    BY <1>11, <2>2 DEF RingWhole
<1>14. Armed'
  BY <1>1, <1>5, <1>8 DEF TimerInv, Armed
<1>15. ReadyRing' /\ Loose'
  BY <1>3, <1>5, <1>11 DEF TimerInv, ReadyRing, Loose
<1>16. Arguments'
  <2>1. Arguments
    BY DEF TimerInv
  <2>2. QED
    BY <1>1, <1>5, <1>7, <2>1 DEF Arguments
<1>17. Place'
  <2>1. CASE c.ring = timer_ring
    <3>1. q.next[timer_ring] \in armed \cup {timer_ring}
      BY <1>1, <1>12, RingFacts
    <3>2. call'.at[1] = timer_ring /\ call'.at[2] = q.next[timer_ring]
      BY <1>7, <2>1
    <3>3. timer_ring # ready_for_execution
      BY Nodes
    <3>4. QED
      BY <1>5, <1>7, <1>8, <2>1, <3>1, <3>2, <3>3 DEF Place
  <2>2. CASE c.ring = ready_for_execution
    <3>1. q.next[ready_for_execution] = Start(InitThread)
      BY <1>3 DEF TimerInv, ReadyRing
    <3>2. call'.at[1] = ready_for_execution /\ call'.at[2] = Start(InitThread)
      BY <1>7, <2>2, <3>1
    <3>3. timer_ring # ready_for_execution
      BY Nodes
    <3>4. QED
      BY <1>7, <2>2, <3>2, <3>3 DEF Place
  <2>3. QED
    BY <2>1, <2>2
<1>18. ClockInCall' /\ Reading'
  BY <1>1, <1>7 DEF ClockInCall, Reading
<1>19. QED
  BY <1>9, <1>10, <1>13, <1>14, <1>15, <1>16, <1>17, <1>18 DEF TimerInv

(* The high word: below Word ticks the sum of the halves is the sum. *)
LEMMA ReadHighInv ==
    ASSUME Careful, TimerInv, ReadTicksHigh
    PROVE  TimerInv'
<1>1. /\ Running /\ call.pc = "high" /\ Linking /\ LinkBegin(call)
      /\ UNCHANGED <<machine, exec, clock, pools, thread>>
      /\ time' = [time EXCEPT ![call.node] =
                   ((Hi(uuu2ticks(call.delay)) + Hi(clock.ticks)) * Word + call.sum) % Long]
  BY DEF ReadTicksHigh, Linking
<1>2. /\ call \in LinkCall /\ call.sum \in Nat /\ call.sum < Word
      /\ call.kind # "ready" /\ call.node \notin armed
      /\ call.node = IF call.kind = "end" THEN End(call.t) ELSE Start(call.t)
      /\ call.ring = IF call.kind = "ready" THEN ready_for_execution ELSE timer_ring
  <2>1. call \in LinkCall /\ call.sum \in Nat /\ MaxTicks \in Nat /\ PitLimit \in Nat /\ Word \in Nat
    BY <1>1, InCall DEF LinkCall
  <2>2. QED
    BY <1>1, <2>1 DEF TimerInv, Arguments, Careful
<1>3. Hi(uuu2ticks(call.delay)) = 0 /\ Hi(clock.ticks) = 0
  <2>1. uuu2ticks(call.delay) < Word /\ clock.ticks < Word
    BY <1>1, InCall DEF Careful
  <2>2. QED
    BY <1>1, <2>1, InCall, Small
<1>4. ((Hi(uuu2ticks(call.delay)) + Hi(clock.ticks)) * Word + call.sum) % Long = call.sum
  <2>1. PICK L \in Nat : L = Long /\ L > Word /\ Word \in Nat
    BY Registers
  <2>2. (0 + 0) * Word + call.sum = call.sum
    BY <1>2, <2>1
  <2>3. call.sum % L = call.sum
    BY <1>2, <2>1
  <2>4. QED
    BY <1>3, <2>1, <2>2, <2>3
<1>5. time' = [time EXCEPT ![call.node] = call.sum]
  BY <1>1, <1>4
<1>6. call.sum \in Ticks
  BY <1>2, Registers DEF Ticks
<1>7. QED
  BY <1>1, <1>2, <1>5, <1>6, BeginInv

(* A delay of 0 goes to the ready ring, and leaves the timer ring alone. *)
LEMMA ReadyInv ==
    ASSUME Careful, TimerInv, ReadyImmediately
    PROVE  TimerInv'
<1>1. PICK c : c = [call EXCEPT !.kind = "ready", !.node = Start(call.t), !.ring = ready_for_execution]
  OBVIOUS
<1>2. /\ Running /\ call.pc = "ready" /\ Linking /\ LinkBegin(c)
      /\ UNCHANGED <<machine, exec, clock, pools, thread>>
      /\ time' = [time EXCEPT ![Start(call.t)] = call.priority]
  BY <1>1 DEF ReadyImmediately, Linking
<1>3. call \in LinkCall /\ call.t \in Thread /\ call.priority \in Priorities
  BY <1>2, InCall DEF LinkCall
<1>4. /\ c \in LinkCall /\ c.kind = "ready" /\ c.node = Start(call.t) /\ c.ring = ready_for_execution
      /\ c.t = call.t /\ c.delay = call.delay /\ c.start = call.start
  BY <1>1, <1>3, Nodes DEF LinkCall
<1>5. Start(call.t) \notin armed
  BY <1>2 DEF TimerInv, Arguments
<1>6. call.priority \in Ticks
  <2>1. PICK L \in Nat : L = Long /\ L > Word /\ Word \in Nat
    BY Registers
  <2>2. call.priority \in 0 .. Word - 1
    BY <1>3 DEF Careful
  <2>3. QED
    BY <2>1, <2>2 DEF Ticks
<1>7. timer_ring # ready_for_execution
  BY Nodes
<1>8. QED
  BY <1>2, <1>4, <1>5, <1>6, <1>7, BeginInv

(* A round of the search moves between neighbours, past timers not later. *)
LEMMA SearchInv ==
    ASSUME Careful, TimerInv, LinkSearch
    PROVE  TimerInv'
<1>0. PICK b : b = call.at[2]
  OBVIOUS
<1> DEFINE stop == b = call.ring \/ StopsBefore(Words(time[call.node]), Words(time[b]))
<1>1. /\ Running /\ call.pc = "search" /\ Linking
      /\ UNCHANGED <<exec, clock, pools, q, time, thread, armed>>
      /\ machine' = IF q.prev[b] = call.at[1] THEN machine ELSE "wild"
      /\ call' = IF stop THEN [call EXCEPT !.pc = "left"] ELSE [call EXCEPT !.at = <<b, q.next[b]>>]
  BY <1>0 DEF LinkSearch, Linking
<1>2. /\ call \in LinkCall /\ call.at \in Node \X Node /\ b \in Node /\ q.next[b] \in Node
      /\ call.node \in Node /\ Word \in Nat /\ Reprogram \notin armed
      /\ armed \in SUBSET (Node \ {timer_ring}) /\ time \in [Node -> Nat]
      /\ clock.ticks <= MaxTicks + PitLimit
  BY <1>0, <1>1, InCall DEF LinkCall
<1>3. /\ call' \in LinkCall /\ call'.pc = (IF stop THEN "left" ELSE "search")
      /\ call'.kind = call.kind /\ call'.node = call.node
      /\ call'.ring = call.ring /\ call'.t = call.t /\ call'.delay = call.delay
      /\ call'.start = call.start
      /\ call'.at = (IF stop THEN call.at ELSE <<b, q.next[b]>>)
  <2>1. <<b, q.next[b]>> \in Node \X Node
    BY <1>2
  <2>2. CASE stop
    BY <1>1, <1>2, <2>2 DEF LinkCall
  <2>3. CASE ~stop
    BY <1>1, <1>2, <2>1, <2>3 DEF LinkCall
  <2>4. QED
    BY <2>2, <2>3
<1>4. Shapes'
  BY <1>1, <1>3 DEF TimerInv, Shapes, TypeOK, Running
<1>5. ThreadsOut'
  BY <1>1 DEF TimerInv, ThreadsOut, Out
<1>6. ~Half /\ ~Half' /\ Links = q /\ Links' = q /\ Ring = armed /\ Ring' = armed
      /\ ~ReadyLinked /\ ~ReadyLinked'
  BY <1>1, <1>3 DEF Half, Links, Ring, ReadyLinked
<1>7. Ringed(q, armed, time)
  BY <1>1, <1>6 DEF TimerInv, RingWhole
<1>8. RingWhole'
  BY <1>1, <1>6, <1>7 DEF RingWhole
<1>9. Armed'
  BY <1>1, <1>2 DEF TimerInv, Armed
<1>10. ReadyRing' /\ Loose'
  BY <1>1, <1>6 DEF TimerInv, ReadyRing, Loose
<1>11. Arguments'
  <2>1. Arguments
    BY <1>1 DEF TimerInv
  <2>2. QED
    BY <1>1, <1>3, <2>1 DEF Arguments
<1>12. Place'
  <2>0. timer_ring # ready_for_execution /\ Place
    BY <1>1, Nodes DEF TimerInv
  <2>1. CASE call.ring = timer_ring
    <3>1. /\ time[call.node] < Word
          /\ call.at[1] \in armed \cup {timer_ring} /\ b \in armed \cup {timer_ring}
          /\ b = q.next[call.at[1]]
          /\ call.at[1] # timer_ring => time[call.at[1]] <= time[call.node]
      BY <1>0, <1>1, <2>0, <2>1 DEF Place
    <3>2. q.next[b] \in armed \cup {timer_ring}
      BY <1>2, <1>7, <3>1, RingFacts, ZenonT(60)
    <3>3. b # timer_ring => (StopsBefore(Words(time[call.node]), Words(time[b])) <=> time[call.node] <= time[b])
      <4>1. ASSUME b # timer_ring
            PROVE  /\ time[call.node] \in Nat /\ time[b] \in Nat
                   /\ time[call.node] < Word /\ time[b] < Word
        BY <1>1, <1>2, <3>1, <4>1 DEF TimerInv, Armed
      <4>2. ASSUME b # timer_ring
            PROVE  /\ Words(time[call.node]) = [hi |-> 0, lo |-> time[call.node]]
                   /\ Words(time[b]) = [hi |-> 0, lo |-> time[b]]
        BY <4>1, <4>2, Small DEF Words
      <4>3. QED
        BY <4>1, <4>2 DEF StopsBefore
    <3>4. CASE stop
      BY <1>0, <1>1, <1>3, <2>0, <2>1, <3>1, <3>3, <3>4 DEF Place
    <3>5. CASE ~stop
      <4>1. b # timer_ring /\ time[b] <= time[call.node]
        <5>1. b # timer_ring
          BY <2>1, <3>5
        <5>2. ~(time[call.node] <= time[b])
          BY <3>3, <3>5, <5>1
        <5>3. QED
          BY <1>2, <5>1, <5>2
      <4>2. call'.at[1] = b /\ call'.at[2] = q.next[b] /\ call'.pc = "search"
        BY <1>3, <3>5
      <4>3. QED
        BY <1>1, <1>3, <2>0, <2>1, <3>1, <3>2, <4>1, <4>2 DEF Place
    <3>6. QED
      BY <3>4, <3>5
  <2>2. CASE call.ring = ready_for_execution
    <3>1. /\ call.at[1] \in {ready_for_execution, Start(InitThread)}
          /\ b \in {ready_for_execution, Start(InitThread)}
      BY <1>0, <1>1, <2>0, <2>2 DEF Place
    <3>2. q.next[b] \in {ready_for_execution, Start(InitThread)}
      BY <1>1, <1>6, <3>1 DEF TimerInv, ReadyRing
    <3>3. call'.at[1] \in {ready_for_execution, Start(InitThread)} /\ call'.at[2] \in {ready_for_execution, Start(InitThread)}
      BY <1>0, <1>3, <3>1, <3>2
    <3>4. QED
      BY <1>3, <2>0, <2>2, <3>3 DEF Place
  <2>3. QED
    BY <1>2, <2>1, <2>2 DEF LinkCall
<1>13. ClockInCall' /\ Reading'
  BY <1>1, <1>2, <1>3 DEF ClockInCall, Reading
<1>14. QED
  BY <1>4, <1>5, <1>8, <1>9, <1>10, <1>11, <1>12, <1>13 DEF TimerInv

(* The left store: from here on the ring to be completed has the node. *)
LEMMA StoreLeftInv ==
    ASSUME Careful, TimerInv, StoreLeft
    PROVE  TimerInv'
<1>0. PICK a, b, x : a = call.at[1] /\ b = call.at[2] /\ x = call.node
  OBVIOUS
<1>1. /\ Running /\ Running' /\ call.pc = "left" /\ Linking
      /\ UNCHANGED <<machine, exec, clock, pools, time, thread, armed>>
      /\ q' = [next |-> [q.next EXCEPT ![x] = b, ![a] = x], prev |-> [q.prev EXCEPT ![x] = a]]
      /\ call' = [call EXCEPT !.pc = "right"]
  BY <1>0 DEF StoreLeft, Linking, Running
<1>2. /\ call \in LinkCall /\ a \in Node /\ b \in Node /\ x \in Node
      /\ x \notin {timer_ring, ready_for_execution, Start(InitThread), Reprogram}
      /\ Reprogram \notin armed
      /\ armed \in SUBSET (Node \ {timer_ring}) /\ time \in [Node -> Nat]
      /\ clock.ticks <= MaxTicks + PitLimit
      /\ q.next \in [Node -> Node] /\ q.prev \in [Node -> Node]
  BY <1>0, <1>1, InCall DEF LinkCall
<1>3. /\ call' \in LinkCall /\ call'.pc = "right"
      /\ call'.kind = call.kind /\ call'.node = x
      /\ call'.ring = call.ring /\ call'.t = call.t /\ call'.delay = call.delay
      /\ call'.start = call.start /\ call'.at = call.at
  BY <1>0, <1>1, <1>2 DEF LinkCall
<1>4. /\ Place /\ Arguments /\ Armed /\ ReadyRing /\ Loose
      /\ x \notin armed
  BY <1>0, <1>1 DEF TimerInv, Arguments
<1>5. ~Half /\ Links = q /\ Ring = armed /\ ~ReadyLinked
  BY <1>1 DEF Half, Links, Ring, ReadyLinked
<1>6. Ringed(q, armed, time)
  BY <1>1, <1>5 DEF TimerInv, RingWhole
<1>7. timer_ring # ready_for_execution /\ armed \cap {ready_for_execution, Start(InitThread)} = {}
      /\ timer_ring # Start(InitThread) /\ ready_for_execution \in Node /\ Start(InitThread) \in Node
      /\ timer_ring \in Node
  BY <1>4, Nodes, Boot DEF Armed
<1>8. /\ q'.next \in [Node -> Node] /\ q'.prev \in [Node -> Node]
      /\ q' \in [next : [Node -> Node], prev : [Node -> Node]]
      /\ q'.next[a] = x /\ (a # x => q'.next[x] = b) /\ q'.prev[x] = a
      /\ \A m \in Node : (m \notin {x, a} => q'.next[m] = q.next[m]) /\ (m # x => q'.prev[m] = q.prev[m])
  <2>1. q'.next = [q.next EXCEPT ![x] = b, ![a] = x] /\ q'.prev = [q.prev EXCEPT ![x] = a]
    BY <1>1
  <2>2. q'.next \in [Node -> Node] /\ q'.prev \in [Node -> Node]
    BY <1>2, <2>1
  <2>3. q' \in [next : [Node -> Node], prev : [Node -> Node]]
    BY <1>1, <2>1, <2>2
  <2>4. QED
    BY <1>2, <2>1, <2>2, <2>3
<1>9. Shapes'
  BY <1>1, <1>3, <1>8 DEF TimerInv, Shapes, TypeOK
<1>10. ThreadsOut'
  BY <1>1 DEF TimerInv, ThreadsOut, Out
<1>11. Armed'
  BY <1>1, <1>2, <1>4 DEF Armed
<1>12. Arguments'
  BY <1>0, <1>1, <1>3, <1>4 DEF Arguments
<1>13. ClockInCall' /\ Reading'
  BY <1>1, <1>2, <1>3 DEF ClockInCall, Reading
<1>14. CASE call.ring = timer_ring
  <2>1. /\ time[x] < Word
        /\ a \in armed \cup {timer_ring} /\ b \in armed \cup {timer_ring}
        /\ b = q.next[a]
        /\ a # timer_ring => time[a] <= time[x]
        /\ b # timer_ring => time[x] <= time[b]
    BY <1>0, <1>1, <1>4, <1>14 DEF Place
  <2>2. Half' /\ Ring' = armed \cup {x} /\ ~ReadyLinked'
    BY <1>1, <1>3, <1>7, <1>14 DEF Half, Ring, ReadyLinked
  <2>3. PICK lk : lk = Links'
    OBVIOUS
  <2>4. lk = [q' EXCEPT !.prev[b] = x]
    BY <1>0, <1>3, <2>2, <2>3 DEF Links
  <2>5. lk.next = q'.next /\ lk.prev = [q'.prev EXCEPT ![b] = x]
    BY <1>8, <2>4
  <2>6. Linked(q, lk, a, x, b)
    <3>1. a # x /\ b # x
      BY <1>2, <1>4, <2>1
    <3>2. QED
      BY <1>2, <1>8, <2>5, <3>1 DEF Linked
  <2>7. x \in Node \ (armed \cup {timer_ring})
    BY <1>2, <1>4
  <2>8. Ringed(lk, armed \cup {x}, time)
    BY <1>2, <1>6, <2>1, <2>6, <2>7, LinkInOrder
  <2>9. RingWhole'
    BY <1>1, <2>2, <2>3, <2>8 DEF RingWhole
  <2>10. ReadyRing'
    <3>1. /\ q'.next[ready_for_execution] = q.next[ready_for_execution]
          /\ q'.next[Start(InitThread)] = q.next[Start(InitThread)]
      BY <1>2, <1>7, <1>8, <2>1
    <3>2. QED
      BY <1>4, <1>5, <3>1 DEF ReadyRing
  <2>11. Loose'
    <3>1. ASSUME NEW m \in Node \ ((armed \cup {x}) \cup {timer_ring, ready_for_execution, Start(InitThread)})
          PROVE  LoopsBack(q', m)
      <4>1. LoopsBack(q, m)
        BY <1>4, <1>5 DEF Loose
      <4>2. m \notin {x, a}
        BY <2>1
      <4>3. QED
        BY <1>8, <4>1, <4>2 DEF LoopsBack
    <3>2. QED
      BY <2>2, <3>1 DEF Loose
  <2>12. Place'
    BY <1>0, <1>1, <1>3, <1>7, <1>14, <2>1 DEF Place
  <2>13. QED
    BY <1>9, <1>10, <1>11, <1>12, <1>13, <2>9, <2>10, <2>11, <2>12 DEF TimerInv
<1>15. CASE call.ring = ready_for_execution
  <2>1. a \in {ready_for_execution, Start(InitThread)} /\ b \in {ready_for_execution, Start(InitThread)}
    BY <1>0, <1>1, <1>4, <1>15 DEF Place
  <2>2. ~Half' /\ Ring' = armed /\ Links' = q' /\ ReadyLinked'
    BY <1>1, <1>3, <1>7, <1>15 DEF Half, Ring, Links, ReadyLinked
  <2>3. RingWhole'
    <3>1. PICK lk : lk = q'
      OBVIOUS
    <3>2. armed \in SUBSET Node /\ \A m \in armed \cup {timer_ring} : m \in Node /\ m \notin {x, a}
      BY <1>2, <1>4, <1>7, <2>1
    <3>3. \A m \in armed \cup {timer_ring} : lk.next[m] = q.next[m] /\ lk.prev[m] = q.prev[m]
      BY <1>8, <3>1, <3>2
    <3>4. Ringed(lk, armed, time)
      BY <1>6, <3>2, <3>3, OtherLinks
    <3>5. QED
      BY <1>1, <2>2, <3>1, <3>4 DEF RingWhole
  <2>4. ReadyRing'
    <3>1. x = Start(call.t) /\ call.t \in Thread
      BY <1>0, <1>1, <1>4, <1>7, <1>15, <1>2 DEF Arguments, LinkCall
    <3>2. CASE a = ready_for_execution
      BY <1>8, <2>2, <3>1, <3>2 DEF ReadyRing
    <3>3. CASE a # ready_for_execution
      <4>1. q'.next[ready_for_execution] = q.next[ready_for_execution]
        BY <1>2, <1>7, <1>8, <3>3
      <4>2. QED
        BY <1>4, <2>2, <4>1 DEF ReadyRing
    <3>4. QED
      BY <3>2, <3>3
  <2>5. Loose'
    BY <2>2 DEF Loose
  <2>6. Place'
    BY <1>0, <1>3, <1>7, <1>15, <2>1 DEF Place
  <2>7. QED
    BY <1>9, <1>10, <1>11, <1>12, <1>13, <2>3, <2>4, <2>5, <2>6 DEF TimerInv
<1>16. QED
  BY <1>2, <1>14, <1>15 DEF LinkCall

(* The right store completes it. *)
LEMMA StoreRightInv ==
    ASSUME Careful, TimerInv, StoreRight
    PROVE  TimerInv'
<1>0. PICK b, x : b = call.at[2] /\ x = call.node
  OBVIOUS
<1>1. /\ Running /\ Running' /\ call.pc = "right" /\ Linking
      /\ UNCHANGED <<machine, exec, clock, pools, time, thread>>
      /\ q' = [q EXCEPT !.prev[b] = x]
      /\ armed' = IF call.kind = "ready" THEN armed ELSE armed \cup {x}
      /\ call' = AfterLink
  BY <1>0 DEF StoreRight, Linking, Running
<1>2. /\ call \in LinkCall /\ b \in Node /\ x \in Node /\ call.t \in Thread /\ call.t # InitThread
      /\ x \notin {timer_ring, ready_for_execution, Start(InitThread), Reprogram}
      /\ Reprogram \notin armed
      /\ armed \in SUBSET (Node \ {timer_ring}) /\ time \in [Node -> Nat]
      /\ clock.ticks <= MaxTicks + PitLimit /\ uuu2ticks(call.start) <= MaxTicks
      /\ q \in [next : [Node -> Node], prev : [Node -> Node]]
  BY <1>0, <1>1, InCall DEF LinkCall
<1>3. /\ Place /\ Arguments /\ Armed /\ ReadyRing /\ Loose /\ ThreadsOut /\ RingWhole
      /\ x \notin armed /\ Start(call.t) \notin armed /\ thread[call.t].held > 0
      /\ call.ring = (IF call.kind = "ready" THEN ready_for_execution ELSE timer_ring)
      /\ x = IF call.kind = "end" THEN End(call.t) ELSE Start(call.t)
  BY <1>0, <1>1 DEF TimerInv, Arguments
<1>4. /\ q' \in [next : [Node -> Node], prev : [Node -> Node]]
      /\ q'.next = q.next /\ q'.prev = [q.prev EXCEPT ![b] = x]
  BY <1>1, <1>2
<1>5. /\ timer_ring # ready_for_execution /\ armed \cap {ready_for_execution, Start(InitThread)} = {}
      /\ timer_ring # Start(InitThread) /\ timer_ring \in Node
  BY <1>3, Nodes, Boot DEF Armed
<1>6. ThreadsOut'
  <2>1. Out(call.t)
    BY <1>2, <1>3 DEF ThreadsOut, TimerInv, Shapes, TypeOK
  <2>2. \A u \in Thread : u # call.t => x # Start(u) /\ x # End(u)
    BY <1>2, <1>3, Nodes
  <2>3. \A u \in Thread : ~Out(u) => Start(u) \notin armed' /\ End(u) \notin armed'
    BY <1>1, <1>3, <2>1, <2>2 DEF ThreadsOut
  <2>4. QED
    BY <1>1, <1>3, <2>3 DEF ThreadsOut, Out
<1>7. CASE call.kind = "ready"
  <2>1. call' = [pc |-> "spin"] /\ call'.pc = "spin"
    BY <1>1, <1>7 DEF AfterLink
  <2>2. armed' = armed /\ b \in {ready_for_execution, Start(InitThread)}
    BY <1>0, <1>1, <1>3, <1>7 DEF Place
  <2>3. Shapes'
    BY <1>1, <1>4, <2>1, <2>2 DEF TimerInv, Shapes, TypeOK
  <2>4. ~Half /\ ~Half' /\ Links = q /\ Links' = q' /\ Ring = armed /\ Ring' = armed /\ ReadyLinked'
    BY <1>3, <1>5, <1>7, <2>1, <2>2 DEF Half, Links, Ring, ReadyLinked
  <2>5. RingWhole'
    <3>1. PICK lk : lk = q'
      OBVIOUS
    <3>2. armed \in SUBSET Node /\ \A m \in armed \cup {timer_ring} : m \in Node /\ m # b
      BY <1>2, <1>5, <2>2
    <3>3. \A m \in armed \cup {timer_ring} : lk.next[m] = q.next[m] /\ lk.prev[m] = q.prev[m]
      BY <1>2, <1>4, <3>1, <3>2
    <3>4. Ringed(lk, armed, time)
      BY <1>3, <2>4, <3>2, <3>3, OtherLinks DEF RingWhole
    <3>5. QED
      BY <1>1, <2>4, <3>1, <3>4 DEF RingWhole
  <2>6. Armed'
    BY <1>1, <1>2, <1>3, <2>2 DEF Armed
  <2>7. ReadyRing' /\ Loose'
    BY <1>3, <1>4, <2>4 DEF ReadyRing, Loose
  <2>8. Arguments' /\ Place' /\ ClockInCall' /\ Reading'
    BY <2>1 DEF Arguments, Linking, Place, ClockInCall, Reading
  <2>9. QED
    BY <1>6, <2>3, <2>5, <2>6, <2>7, <2>8 DEF TimerInv
<1>8. CASE call.kind # "ready"
  <2>1. armed' = armed \cup {x} /\ call.ring = timer_ring
    BY <1>1, <1>3, <1>8
  <2>2. \/ /\ call' = NoCall /\ call'.pc = "idle"
        \/ /\ call' \in LinkCall /\ call'.pc = "ready" /\ call.kind = "end" /\ call'.kind = "end"
           /\ call'.node = x /\ call'.ring = timer_ring /\ call'.t = call.t
           /\ call'.delay = call.delay /\ call'.start = call.start
        \/ /\ call' \in LinkCall /\ call'.pc = "low" /\ call.kind = "end" /\ call'.kind = "start"
           /\ call'.node = Start(call.t) /\ call'.ring = timer_ring /\ call'.t = call.t
           /\ call'.delay = call.start /\ call'.start = call.start
    <3>1. CASE call.kind = "end" /\ call.start = 0
      <4>1. call' = [call EXCEPT !.pc = "ready"]
        BY <1>1, <3>1 DEF AfterLink
      <4>2. QED
        BY <1>0, <1>2, <2>1, <3>1, <4>1 DEF LinkCall
    <3>2. CASE call.kind = "end" /\ call.start # 0
      <4>1. call' = [call EXCEPT !.pc = "low", !.kind = "start", !.node = Start(call.t), !.delay = call.start]
        BY <1>1, <3>2 DEF AfterLink
      <4>2. QED
        BY <1>0, <1>2, <2>1, <3>2, <4>1, Nodes DEF LinkCall
    <3>3. CASE call.kind # "end"
      <4>1. call' = NoCall
        BY <1>1, <1>8, <3>3 DEF AfterLink
      <4>2. QED
        BY <4>1 DEF NoCall
    <3>4. QED
      BY <3>1, <3>2, <3>3
  <2>3. call'.pc \in {"idle", "ready", "low"}
    BY <2>2
  <2>4. armed' \subseteq Node
    BY <1>2, <2>1
  <2>5. Shapes'
    BY <1>1, <1>4, <2>2, <2>3, <2>4 DEF TimerInv, Shapes, TypeOK
  <2>6. /\ Half /\ ~Half' /\ Links' = q' /\ Ring = armed \cup {x} /\ Ring' = armed \cup {x}
        /\ ~ReadyLinked /\ ~ReadyLinked' /\ Links = q'
    BY <1>0, <1>1, <1>5, <2>1, <2>3 DEF Half, Links, Ring, ReadyLinked
  <2>7. RingWhole'
    <3>1. PICK lk : lk = q'
      OBVIOUS
    <3>2. Ringed(lk, armed \cup {x}, time)
      BY <1>3, <2>6, <3>1 DEF RingWhole
    <3>3. QED
      BY <1>1, <2>6, <3>1, <3>2 DEF RingWhole
  <2>8. time[x] < Word /\ b \in armed \cup {timer_ring}
    BY <1>0, <1>1, <1>3, <2>1 DEF Place
  <2>9. Armed'
    BY <1>1, <1>2, <1>3, <2>1, <2>8 DEF Armed
  <2>10. ReadyRing'
    BY <1>3, <1>4, <2>6 DEF ReadyRing
  <2>11. Loose'
    <3>1. ASSUME NEW m \in Node \ ((armed \cup {x}) \cup {timer_ring, ready_for_execution, Start(InitThread)})
          PROVE  LoopsBack(q', m)
      <4>1. LoopsBack(q, m) /\ m # b
        BY <1>3, <2>6, <2>8 DEF Loose
      <4>2. QED
        BY <1>2, <1>4, <4>1 DEF LoopsBack
    <3>2. QED
      BY <2>6, <3>1 DEF Loose
  <2>12. Arguments'
    <3>1. CASE call'.pc = "idle"
      BY <3>1 DEF Arguments, Linking
    <3>2. CASE call'.pc = "ready"
      <4>1. Start(call.t) \notin armed'
        BY <1>2, <1>3, <2>1, <2>2, <3>2, Nodes
      <4>2. QED
        BY <1>1, <1>2, <1>3, <2>2, <3>2, <4>1 DEF Arguments
    <3>3. CASE call'.pc = "low"
      <4>1. Start(call.t) \notin armed'
        BY <1>2, <1>3, <2>1, <2>2, <3>3, Nodes
      <4>2. QED
        BY <1>1, <1>2, <1>3, <2>2, <3>3, <4>1 DEF Arguments
    <3>4. QED
      BY <2>3, <3>1, <3>2, <3>3
  <2>13. Place' /\ ClockInCall' /\ Reading'
    BY <1>1, <1>2, <2>3 DEF Place, ClockInCall, Reading
  <2>14. QED
    BY <1>6, <2>5, <2>7, <2>9, <2>10, <2>11, <2>12, <2>13 DEF TimerInv
<1>9. QED
  BY <1>7, <1>8
-----------------------------------------------------------------------------
ClockType == [ticks : Ticks, drift : Ticks, rate : 0 .. Word - 1, frac : 0 .. Short - 1,
              per : 0 .. PitLimit - 1, new : 2 .. PitLimit - 1,
              pit : 0 .. PitLimit \div 2 - 1, adj : Ticks]

(* One tick without a drift, and a change of the resolution. *)
LEMMA TickType ==
    ASSUME NEW k \in ClockType, k.drift = 0
    PROVE  /\ tick(k) \in ClockType
           /\ tick(k).drift = 0
           /\ tick(k).ticks = Add(k.ticks, k.per)
           /\ resolution_programmer(tick(k)) \in ClockType
           /\ resolution_programmer(tick(k)).drift = 0
           /\ resolution_programmer(tick(k)).ticks = Add(k.ticks, k.per)
<1>1. PICK n : n = Add(k.ticks, k.per)
  OBVIOUS
<1>2. n \in Ticks
  <2>1. k.ticks \in Nat /\ k.per \in Nat
    BY Registers DEF ClockType, Ticks
  <2>2. QED
    BY <1>1, <2>1, AddRange
<1>3. PICK c : c = tick(k)
  OBVIOUS
<1>4. c = [k EXCEPT !.ticks = n]
  BY <1>1, <1>3 DEF tick
<1>5. c \in ClockType /\ c.drift = 0 /\ c.ticks = n
  BY <1>2, <1>4 DEF ClockType
<1>6. set_timer(c.new) \in 0 .. PitLimit \div 2 - 1
  <2>1. PICK h \in Nat : h = PitLimit \div 2 /\ h >= 1
    BY Registers
  <2>2. c.new \in Nat
    BY <1>5, Registers DEF ClockType
  <2>3. c.new % h \in 0 .. h - 1
    BY <2>1, <2>2
  <2>4. QED
    BY <2>1, <2>3 DEF set_timer
<1>7. c.new \in 0 .. PitLimit - 1
  BY <1>5 DEF ClockType
<1>8. /\ resolution_programmer(c) \in ClockType
      /\ resolution_programmer(c).drift = 0
      /\ resolution_programmer(c).ticks = n
  <2>1. PICK p : p = set_timer(c.new)
    OBVIOUS
  <2>2. resolution_programmer(c) = [c EXCEPT !.per = c.new, !.pit = p]
    BY <2>1 DEF resolution_programmer
  <2>3. QED
    BY <1>5, <1>6, <1>7, <2>1, <2>2 DEF ClockType
<1>9. QED
  BY <1>1, <1>3, <1>5, <1>8

(* ring_queue.remove stays within the nodes. *)
LEMMA RemoveType ==
    ASSUME NEW lk \in [next : [Node -> Node], prev : [Node -> Node]], NEW n \in Node
    PROVE  remove(lk, n) \in [next : [Node -> Node], prev : [Node -> Node]]
BY DEF remove

(* The interrupt handler: when it returns, no registered timer is due. *)
LEMMA PitInv ==
    ASSUME Careful, TimerInv, pit_interrupt
    PROVE  /\ TimerInv'
           /\ machine' = "running" => \A n \in armed' : time[n] > clock'.ticks
<1>1. PICK c : c = tick(clock)
  OBVIOUS
<1>2. PICK now : now = c.ticks
  OBVIOUS
<1>3. PICK first : first = Visit(q, timer_ring, now)
  OBVIOUS
<1>4. PICK from : from = IF first = "reprogram" THEN q.next[Reprogram] ELSE timer_ring
  OBVIOUS
<1>5. PICK q1 : q1 = IF first = "reprogram" THEN remove(q, Reprogram) ELSE q
  OBVIOUS
<1>6. PICK last : last = IF first = "reprogram" THEN Visit(q1, from, now) ELSE first
  OBVIOUS
<1>7. PICK y : y = q1.next[from]
  OBVIOUS
<1>8. PICK t : t = q1.next[ready_for_execution][2]
  OBVIOUS
<1>9. PICK frames : frames = [thread EXCEPT ![exec].frame = "saved"]
  OBVIOUS
<1>10. /\ Running /\ InBounds /\ UNCHANGED <<pools, time, call>>
       /\ clock' = (IF first = "reprogram" THEN resolution_programmer(c) ELSE c)
       /\ q' = (IF last = "hung" THEN remove(q1, y) ELSE q1)
       /\ armed' = armed \ ((IF last = "hung" THEN {y} ELSE {}) \cup (IF first = "reprogram" THEN {Reprogram} ELSE {}))
       /\ thread' = frames
       /\ exec' = (IF last = "cycled" THEN t ELSE exec)
       /\ machine' = IF last # "cycled" THEN last
                     ELSE IF frames[t].frame = "built" THEN "wild" ELSE "running"
  BY <1>1, <1>2, <1>3, <1>4, <1>5, <1>6, <1>7, <1>8, <1>9 DEF pit_interrupt
<1>11. /\ clock \in ClockType /\ clock.drift = 0 /\ clock.ticks \in Nat
       /\ q \in [next : [Node -> Node], prev : [Node -> Node]]
       /\ exec \in Thread /\ time \in [Node -> Ticks] /\ time \in [Node -> Nat]
       /\ thread \in [Thread -> [status : 0 .. 255, frame : {"none", "built", "saved"}, held : Nat]]
       /\ armed \in SUBSET Node
  BY Registers, SMTT(30) DEF TimerInv, Shapes, TypeOK, ClockType, Ticks
<1>12. /\ ThreadsOut /\ RingWhole /\ Armed /\ ReadyRing /\ Loose
       /\ Arguments /\ Place /\ ClockInCall /\ Reading
  BY <1>10 DEF TimerInv
<1>13. /\ c \in ClockType /\ c.drift = 0 /\ c.ticks = Add(clock.ticks, clock.per)
       /\ resolution_programmer(c) \in ClockType /\ resolution_programmer(c).drift = 0
       /\ resolution_programmer(c).ticks = c.ticks
  BY <1>1, <1>11, TickType
<1>14. clock' \in ClockType /\ clock'.drift = 0 /\ clock'.ticks = now /\ now \in Nat
  BY <1>2, <1>10, <1>13, Registers DEF ClockType, Ticks
<1>15. /\ thread' \in [Thread -> [status : 0 .. 255, frame : {"none", "built", "saved"}, held : Nat]]
       /\ \A u \in Thread : thread'[u].held = thread[u].held
  <2>1. PICK w \in [status : 0 .. 255, frame : {"none", "built", "saved"}, held : Nat] : w = thread[exec]
    BY <1>11
  <2>2. PICK v : v = [w EXCEPT !.frame = "saved"]
    OBVIOUS
  <2>3. v \in [status : 0 .. 255, frame : {"none", "built", "saved"}, held : Nat] /\ v.held = w.held
    BY <2>2
  <2>4. thread' = [thread EXCEPT ![exec] = v]
    BY <1>9, <1>10, <2>1, <2>2
  <2>5. QED
    BY <1>11, <2>1, <2>3, <2>4
<1>16. PICK u0 \in Thread : q.next[ready_for_execution] = Start(u0)
  BY <1>12 DEF ReadyRing
<1>17. CASE Reprogram \in armed
  <2>1. /\ armed = {Reprogram} /\ ~Linking /\ call.pc # "spin" /\ time[Reprogram] = 0 /\ clock.ticks = 0
    BY <1>12, <1>17 DEF Armed
  <2>2. ~Half /\ Links = q /\ Ring = armed /\ ~ReadyLinked /\ call.pc \notin {"low", "high", "ready", "search", "left", "right"}
    BY <2>1 DEF Half, Links, Ring, ReadyLinked, Linking
  <2>3. Ringed(q, {Reprogram}, time)
    BY <1>12, <2>1, <2>2 DEF RingWhole
  <2>4. /\ q.next[timer_ring] = Reprogram /\ q.next[Reprogram] = timer_ring
        /\ q.prev[timer_ring] = Reprogram /\ q.prev[Reprogram] = timer_ring
    <3>1. {Reprogram} \in SUBSET (Node \ {timer_ring})
      BY Nodes
    <3>2. /\ \A m \in {Reprogram} \cup {timer_ring} :
                q.next[m] \in {Reprogram} \cup {timer_ring} /\ q.prev[q.next[m]] = m
          /\ \A m \in {Reprogram} : q.next[m] # m
          /\ q.next[timer_ring] = timer_ring => {Reprogram} = {}
      BY <1>11, <2>3, <3>1, RingFacts, ZenonT(60)
    <3>3. QED
      BY <3>2
  <2>5. timer_ring # Reprogram /\ timer_ring \in Node /\ Reprogram \in Node
        /\ ready_for_execution \in Node /\ ready_for_execution \notin {timer_ring, Reprogram}
        /\ Start(InitThread) \in Node /\ Start(InitThread) \notin {timer_ring, Reprogram}
    BY Nodes, Boot
  <2>6. first = "reprogram"
    BY <1>3, <1>14, <2>1, <2>4, <2>5 DEF Visit, CanRemove
  <2>7. /\ from = timer_ring /\ q1 = remove(q, Reprogram)
    BY <1>4, <1>5, <2>4, <2>6
  <2>8. /\ q1 \in [next : [Node -> Node], prev : [Node -> Node]]
        /\ q1.next[timer_ring] = timer_ring /\ q1.prev[timer_ring] = timer_ring
        /\ LoopsBack(q1, Reprogram)
        /\ \A m \in Node \ {timer_ring, Reprogram} : q1.next[m] = q.next[m] /\ q1.prev[m] = q.prev[m]
    <3>1. q1 = [next |-> [q.next EXCEPT ![timer_ring] = timer_ring, ![Reprogram] = Reprogram],
                prev |-> [q.prev EXCEPT ![timer_ring] = timer_ring, ![Reprogram] = Reprogram]]
      BY <2>4, <2>7 DEF remove
    <3>2. q.next \in [Node -> Node] /\ q.prev \in [Node -> Node]
      BY <1>11
    <3>3. /\ q1.next = [q.next EXCEPT ![timer_ring] = timer_ring, ![Reprogram] = Reprogram]
          /\ q1.prev = [q.prev EXCEPT ![timer_ring] = timer_ring, ![Reprogram] = Reprogram]
      BY <3>1
    <3>4. q1.next \in [Node -> Node] /\ q1.prev \in [Node -> Node]
      BY <2>5, <3>2, <3>3
    <3>5. q1 \in [next : [Node -> Node], prev : [Node -> Node]]
      BY <3>1, <3>3, <3>4
    <3>6. QED
      BY <2>5, <3>2, <3>3, <3>5 DEF LoopsBack
  <2>9. last = "cycled"
    BY <1>6, <2>6, <2>7, <2>8 DEF Visit
  <2>10. t \in Thread
    BY <1>8, <1>16, <2>5, <2>8, Nodes
  <2>11. q' = q1 /\ armed' = {} /\ exec' \in Thread /\ machine' \in {"running", "wild"}
    BY <1>10, <2>1, <2>6, <2>9, <2>10
  <2>12. Shapes'
    BY <1>10, <1>11, <1>14, <1>15, <2>8, <2>11, ZenonT(60) DEF TimerInv, Shapes, TypeOK, ClockType
  <2>13. ThreadsOut'
    BY <1>10, <1>12, <1>15, <2>11, Boot DEF ThreadsOut, Out
  <2>14. ~Half' /\ Links' = q1 /\ Ring' = {} /\ ~ReadyLinked'
    BY <1>10, <2>2, <2>11 DEF Half, Links, Ring, ReadyLinked
  <2>15. RingWhole'
    <3>1. PICK s : s = [i \in 1 .. 0 |-> Reprogram]
      OBVIOUS
    <3>2. s \in [1 .. 0 -> Node]
      BY <3>1
    <3>3. \A i \in 0 .. 0 : /\ q1.next[Nth(s, 0, i)] = Nth(s, 0, i + 1)
                            /\ q1.prev[Nth(s, 0, i + 1)] = Nth(s, 0, i)
      BY <2>8 DEF Nth
    <3>4. InOrder(q1, {}, time, s, 0)
      BY <3>3 DEF InOrder
    <3>5. Ringed(q1, {}, time)
      BY <3>2, <3>4 DEF Ringed
    <3>6. QED
      BY <1>10, <2>14, <3>5 DEF RingWhole
  <2>16. Armed'
    BY <2>11 DEF Armed
  <2>17. ReadyRing'
    BY <1>12, <2>2, <2>5, <2>8, <2>11 DEF ReadyRing
  <2>18. Loose'
    <3>1. ASSUME NEW m \in Node \ ({} \cup {timer_ring, ready_for_execution, Start(InitThread)})
          PROVE  LoopsBack(q1, m)
      <4>1. CASE m = Reprogram
        BY <2>8, <4>1
      <4>2. CASE m # Reprogram
        <5>1. LoopsBack(q, m)
          BY <1>12, <2>1, <2>2, <4>2 DEF Loose
        <5>2. QED
          BY <2>8, <4>2, <5>1 DEF LoopsBack
      <4>3. QED
        BY <4>1, <4>2
    <3>2. QED
      BY <2>11, <2>14, <3>1 DEF Loose
  <2>19. Arguments' /\ Place'
    BY <1>10, <2>2 DEF Arguments, Linking, Place
  <2>20. ClockInCall' /\ Reading'
    <3>1. clock.per \in 0 .. PitLimit - 1 /\ PitLimit \in Nat /\ MaxTicks \in Nat /\ PitLimit < Word
      BY <1>11, Registers, AvalonAssumption DEF ClockType, Careful
    <3>2. 0 + clock.per < Long
      BY <3>1, Registers
    <3>3. now = clock.per
      BY <1>2, <1>13, <2>1, <3>1, <3>2, AddRange
    <3>4. now <= MaxTicks + PitLimit /\ clock.ticks <= now
      BY <2>1, <3>1, <3>3
    <3>5. ClockInCall'
      BY <1>14, <3>4 DEF ClockInCall
    <3>6. ASSUME call.pc = "time" PROVE call.since \in Nat
      BY <3>6 DEF TimerInv, Shapes, NoCall, LinkCall, TimeCall
    <3>7. Reading'
      BY <1>10, <1>11, <1>12, <1>14, <3>4, <3>6 DEF Reading
    <3>8. QED
      BY <3>5, <3>7
  <2>21. QED
    BY <2>11, <2>12, <2>13, <2>15, <2>16, <2>17, <2>18, <2>19, <2>20 DEF TimerInv
<1>18. CASE Reprogram \notin armed
  <2>1. Ring \in SUBSET (Node \ {timer_ring, Reprogram}) /\ armed \subseteq Ring
    <3>1. CASE Half
      <4>1. Linking
        BY <3>1 DEF Half, Linking
      <4>2. QED
        BY <1>10, <1>18, <3>1, <4>1, InCall DEF Ring
    <3>2. CASE ~Half
      BY <1>12, <1>18, <3>2 DEF Ring, Armed
    <3>3. QED
      BY <3>1, <3>2
  <2>2. Links.next = q.next
    BY <1>11 DEF Links
  <2>3. PICK lk : lk = Links
    OBVIOUS
  <2>4. PICK z : z = q.next[timer_ring]
    OBVIOUS
  <2>5. /\ z \in Ring \cup {timer_ring}
        /\ z = timer_ring => Ring = {}
        /\ z # timer_ring => \A m \in Ring : time[z] <= time[m]
    <3>1. Ringed(lk, Ring, time) /\ Ring \in SUBSET (Node \ {timer_ring}) /\ lk.next[timer_ring] = z
      BY <1>12, <2>1, <2>2, <2>3, <2>4 DEF RingWhole
    <3>2. QED
      BY <1>11, <3>1, RingFacts
  <2>6. z # Reprogram /\ z \in Node
    BY <2>1, <2>5, Nodes
  <2>7. first \in {"cycled", "lock_2", "wild", "hung"}
    BY <1>3, <2>4, <2>6 DEF Visit
  <2>8. from = timer_ring /\ q1 = q /\ last = first /\ y = z
    BY <1>4, <1>5, <1>6, <1>7, <2>4, <2>7
  <2>9. t \in Thread
    BY <1>8, <1>16, <2>8, Nodes
  <2>10. /\ q' \in [next : [Node -> Node], prev : [Node -> Node]] /\ armed' \subseteq Node
         /\ exec' \in Thread /\ machine' \in {"running", "wild", "hung", "lock_2"}
    BY <1>10, <1>11, <2>6, <2>7, <2>8, <2>9, RemoveType
  <2>11. Shapes'
    BY <1>10, <1>11, <1>14, <1>15, <2>10 DEF TimerInv, Shapes, TypeOK, ClockType
  <2>12. CASE machine' # "running"
    BY <2>11, <2>12 DEF TimerInv, Running
  <2>13. CASE machine' = "running"
    <3>1. first = "cycled"
      BY <1>10, <2>7, <2>8, <2>13
    <3>2. q' = q /\ armed' = armed
      BY <1>10, <2>8, <3>1
    <3>3. z = timer_ring \/ time[z] > now
      BY <1>3, <2>4, <3>1 DEF Visit
    <3>4. ASSUME NEW n \in armed PROVE time[n] > clock'.ticks
      <4>1. z # timer_ring /\ time[z] <= time[n] /\ time[z] > now
        BY <2>1, <2>5, <3>3
      <4>2. time[z] \in Nat /\ time[n] \in Nat
        BY <1>11, <2>6
      <4>3. QED
        BY <1>14, <4>1, <4>2
    <3>5. ThreadsOut'
      BY <1>10, <1>12, <1>15, <3>2, Boot DEF ThreadsOut, Out
    <3>6. RingWhole'
      BY <1>10, <1>12, <3>2 DEF RingWhole, Links, Ring, Half
    <3>7. Armed'
      BY <1>10, <1>12, <1>18, <3>2 DEF Armed
    <3>8. ReadyRing' /\ Loose'
      BY <1>10, <1>12, <3>2 DEF ReadyRing, Loose, ReadyLinked, Ring, Half
    <3>9. Arguments'
      <4>1. ASSUME Linking PROVE call.t \in Thread
        BY <1>10, <4>1, InCall
      <4>2. QED
        BY <1>10, <1>12, <1>15, <3>2, <4>1 DEF Arguments, Linking
    <3>10. Place'
      BY <1>10, <1>12, <3>2 DEF Place
    <3>11. ASSUME call.pc \notin {"idle", "spin"}
           PROVE  now <= MaxTicks + PitLimit /\ clock.ticks <= now
      <4>1. clock.ticks <= MaxTicks
        BY <1>10, <3>11 DEF InBounds, Settled
      <4>2. clock.per \in 0 .. PitLimit - 1 /\ PitLimit \in Nat /\ MaxTicks \in Nat
        BY <1>11, Registers, AvalonAssumption DEF ClockType
      <4>3. clock.ticks + clock.per < Long
        BY <1>11, <4>1, <4>2, Registers DEF Careful
      <4>4. now = clock.ticks + clock.per
        BY <1>2, <1>11, <1>13, <4>2, <4>3, AddRange
      <4>5. QED
        BY <1>11, <4>1, <4>2, <4>4
    <3>12. ClockInCall' /\ Reading'
      <4>1. ClockInCall'
        BY <1>10, <1>14, <3>11 DEF ClockInCall
      <4>2. ASSUME call.pc = "time" PROVE call.since \in Nat
        BY <4>2 DEF TimerInv, Shapes, NoCall, LinkCall, TimeCall
      <4>3. Reading'
        BY <1>10, <1>11, <1>12, <1>14, <3>11, <4>2 DEF Reading
      <4>4. QED
        BY <4>1, <4>3
    <3>13. QED
      BY <2>11, <3>2, <3>4, <3>5, <3>6, <3>7, <3>8, <3>9, <3>10, <3>12 DEF TimerInv
  <2>14. QED
    BY <2>12, <2>13
<1>19. QED
  BY <1>17, <1>18
-----------------------------------------------------------------------------
(* Arithmetic modulo L: quotient and rest exist, and the rest is unique.   *)
LEMMA Quotient ==
    ASSUME NEW x \in Nat, NEW L \in Nat, L > 0
    PROVE  \E k \in Nat : x = L * k + (x % L) /\ x % L \in 0 .. L - 1
BY Z3

(* A number that is r more than a multiple of L has the rest r. *)
LEMMA RestUnique ==
    ASSUME NEW x \in Nat, NEW L \in Nat, L > 0, NEW r \in 0 .. L - 1,
           NEW k \in Int, x = L * k + r
    PROVE  x % L = r
<1>1. x % L \in 0 .. L - 1 /\ x \div L \in Int /\ x = L * (x \div L) + (x % L)
  OBVIOUS
<1>2. PICK s \in 0 .. L - 1, j \in Int : s = x % L /\ j = x \div L
  BY <1>1
<1>3. L * (j - k) = r - s
  BY <1>1, <1>2
<1>4. j - k = 0
  <2>1. CASE j - k >= 1
    <3>1. L * (j - k) >= L
      BY <2>1
    <3>2. QED
      BY <1>3, <3>1
  <2>2. CASE j - k <= -1
    <3>1. L * (j - k) <= -L
      BY <2>2
    <3>2. QED
      BY <1>3, <3>1
  <2>3. QED
    BY <2>1, <2>2
<1>5. QED
  BY <1>2, <1>3, <1>4

(* The adjustment that set_uuutime stores makes up exactly the difference, *)
(* through every carry out of 64 bits.                                     *)
LEMMA AdjustExact ==
    ASSUME NEW a \in Nat, NEW adj \in Ticks, NEW to \in Ticks
    PROVE  Add(a, Add(adj, Sub(to, Add(a, adj)))) = to
<1>1. PICK L \in Nat : L = Long /\ L > 0
  BY Registers
<1>2. adj \in 0 .. L - 1 /\ to \in 0 .. L - 1
  BY <1>1 DEF Ticks
<1>3. PICK s : s = (a + adj) % L
  OBVIOUS
<1>4. PICK k1 \in Nat : a + adj = L * k1 + s /\ s \in 0 .. L - 1
  <2>1. PICK x \in Nat : x = a + adj
    BY <1>2
  <2>2. QED
    BY <1>1, <1>3, <2>1, Quotient
<1>5. PICK d : d = (to + L - s) % L
  OBVIOUS
<1>6. to + L - s \in Nat
  BY <1>2, <1>4
<1>7. PICK k2 \in Nat : to + L - s = L * k2 + d /\ d \in 0 .. L - 1
  BY <1>1, <1>5, <1>6, Quotient
<1>8. PICK e : e = (adj + d) % L
  OBVIOUS
<1>9. PICK k3 \in Nat : adj + d = L * k3 + e /\ e \in 0 .. L - 1
  <2>1. PICK x \in Nat : x = adj + d
    BY <1>2, <1>7
  <2>2. QED
    BY <1>1, <1>8, <2>1, Quotient
<1>10. PICK k \in Int : k = ((k1 + 1) - k2) - k3
  OBVIOUS
<1>11. L * k = ((L * k1 + L) - L * k2) - L * k3
  BY <1>10
<1>12. a + e = L * k + to
  BY <1>2, <1>4, <1>7, <1>9, <1>11
<1>13. (a + e) % L = to
  BY <1>1, <1>2, <1>9, <1>12, RestUnique
<1>14. Add(a, adj) = s
  BY <1>1, <1>3 DEF Add
<1>15. Sub(to, s) = d
  BY <1>1, <1>5 DEF Sub
<1>16. Add(adj, d) = e
  BY <1>1, <1>8 DEF Add
<1>17. Add(a, e) = to
  BY <1>1, <1>13 DEF Add
<1>18. QED
  BY <1>14, <1>15, <1>16, <1>17
-----------------------------------------------------------------------------
(* Every step keeps the invariant. *)
LEMMA StepInv ==
    ASSUME Careful, TimerInv, Next
    PROVE  TimerInv'
<1>1. CASE ClientCall
  <2>1. \A t \in Thread : ~thread_release(t)
    BY DEF thread_release, Careful
  <2>2. ~set_timer_resolution_ticks /\ ~set_timer_resolution
    BY DEF set_timer_resolution_ticks, set_timer_resolution, ChangeResolution, Careful
  <2>3. ~\E d \in Drifts : correct_tick_drift(d)
    BY DEF Careful
  <2>4. QED
    BY <1>1, <2>1, <2>2, <2>3, AddPoolInv, AcquireInv, InitializeInv, ScheduleInv, RateInv, SetTimeInv
       DEF ClientCall
<1>2. CASE CallStep
  <2>1. ~StoreDriftHigh
    <3>1. call \in {NoCall, [pc |-> "spin"]} \cup LinkCall \cup TimeCall
      BY DEF TimerInv, Shapes
    <3>2. call.pc # "drift"
      BY <3>1 DEF NoCall, LinkCall, TimeCall
    <3>3. QED
      BY <3>2 DEF StoreDriftHigh
  <2>2. QED
    BY <1>2, <2>1, ReadLowInv, ReadHighInv, ReadyInv, SearchInv, StoreLeftInv, StoreRightInv, AdjustInv
       DEF CallStep
<1>3. CASE pit_interrupt
  BY <1>3, PitInv
<1>4. QED
  BY <1>1, <1>2, <1>3 DEF Next

(* A step that changes nothing keeps the invariant. *)
LEMMA StutterInv ==
    ASSUME TimerInv, UNCHANGED vars
    PROVE  TimerInv'
<1>1. /\ machine' = machine /\ exec' = exec /\ clock' = clock /\ pools' = pools /\ q' = q
      /\ time' = time /\ thread' = thread /\ armed' = armed /\ call' = call
  BY DEF vars
<1>2. Shapes'
  BY <1>1 DEF TimerInv, Shapes, TypeOK
<1>3. RingWhole = RingWhole' /\ Running = Running'
  BY <1>1 DEF RingWhole, Links, Ring, Half, Running
<1>4. ThreadsOut = ThreadsOut' /\ Armed = Armed'
  BY <1>1 DEF ThreadsOut, Out, Armed, Linking
<1>5. ReadyRing = ReadyRing' /\ Loose = Loose'
  BY <1>1 DEF ReadyRing, Loose, ReadyLinked, Ring, Half
<1>6. Arguments = Arguments' /\ Place = Place'
  BY <1>1 DEF Arguments, Linking, Place
<1>7. ClockInCall = ClockInCall' /\ Reading = Reading'
  BY <1>1 DEF ClockInCall, Reading
<1>8. QED
  BY <1>2, <1>3, <1>4, <1>5, <1>6, <1>7 DEF TimerInv

(* TimerInv holds in every state a careful client and the interrupts reach.*)
THEOREM TimersInvariant == ASSUME Careful PROVE Spec => []TimerInv
<1>1. Init => TimerInv
  BY InitInv
<1>2. TimerInv /\ [Next]_vars => TimerInv'
  BY StepInv, StutterInv
<1>3. QED
  BY <1>1, <1>2, PTL DEF Spec

(* TypeOK: every field of the scheduler's state stays in its range. *)
THEOREM SchedulerTyped == ASSUME Careful PROVE Spec => []TypeOK
<1>1. TimerInv => TypeOK
  BY DEF TimerInv, Shapes
<1>2. QED
  BY <1>1, TimersInvariant, PTL

(* TimerRingHoldsArmed: the timer ring leads in both directions through    *)
(* exactly the timers registered and not expired, earliest first, wherever *)
(* the interrupts fall into thread.schedule and the search for a place.    *)
THEOREM TimersRinged == ASSUME Careful PROVE Spec => []TimerRingHoldsArmed
<1>1. TimerInv => TimerRingHoldsArmed
  <2> SUFFICES ASSUME TimerInv, Running, call.pc # "right"
               PROVE  \E s \in SetToSeqs(armed) :
                        /\ Chained(s)
                        /\ \A i, j \in DOMAIN s : i < j => time[s[i]] <= time[s[j]]
    BY DEF TimerRingHoldsArmed
  <2>1. Ringed(q, armed, time)
    BY DEF TimerInv, RingWhole, Links, Ring, Half
  <2>2. armed \in SUBSET (Node \ {timer_ring})
    BY DEF TimerInv, Armed
  <2>3. QED
    BY <2>1, <2>2, RingIsSequence
<1>2. QED
  BY <1>1, TimersInvariant, PTL

(* NoTimerMissed: when the handler returns to a thread no registered timer *)
(* is due, also when it interrupted a registration half way.               *)
THEOREM TimersNoticed == ASSUME Careful PROVE Spec => NoTimerMissed
<1> DEFINE A == clock'.ticks # clock.ticks /\ machine' = "running"
                  => \A n \in armed' : time[n] > clock'.ticks
<1>1. TimerInv /\ [Next]_vars => [A]_vars
  <2> SUFFICES ASSUME TimerInv, Next, clock'.ticks # clock.ticks, machine' = "running"
               PROVE  \A n \in armed' : time[n] > clock'.ticks
    OBVIOUS
  <2>0. clock \in ClockType
    BY DEF TimerInv, Shapes, TypeOK, ClockType
  <2>1. CASE ClientCall
    <3>1. ~set_timer_resolution_ticks /\ ~set_timer_resolution /\ ~\E d \in Drifts : correct_tick_drift(d)
      BY DEF set_timer_resolution_ticks, set_timer_resolution, ChangeResolution, Careful
    <3>2. ASSUME NEW r \in Rates, set_tick_drift_correction_rate(r) PROVE clock'.ticks = clock.ticks
      BY <2>0, <3>2 DEF set_tick_drift_correction_rate, ClockType
    <3>3. QED
      BY <2>1, <3>1, <3>2 DEF ClientCall, thread_add_pool, thread_acquire, thread_release,
         thread_initialize, thread_schedule, set_uuutime
  <2>2. CASE CallStep
    <3>1. ASSUME AdjustTime PROVE clock'.ticks = clock.ticks
      BY <2>0, <3>1 DEF AdjustTime, ClockType
    <3>2. ASSUME StoreDriftHigh PROVE clock'.ticks = clock.ticks
      BY <2>0, <3>2 DEF StoreDriftHigh, ClockType
    <3>3. QED
      BY <2>2, <3>1, <3>2 DEF CallStep, ReadTicksLow, ReadTicksHigh, ReadyImmediately, LinkSearch,
         StoreLeft, StoreRight
  <2>3. CASE pit_interrupt
    BY <2>3, PitInv
  <2>4. QED
    BY <2>1, <2>2, <2>3 DEF Next
<1>2. QED
  BY <1>1, TimersInvariant, PTL DEF Spec, NoTimerMissed

(* SetTimeTakes: right after set_uuutime the time was the one asked for at *)
(* some moment of the call.                                                *)
THEOREM TimeSet == ASSUME Careful PROVE Spec => SetTimeTakes
<1> DEFINE A == call.pc = "time" /\ call'.pc = "idle"
                  => \E x \in call.since .. clock.ticks : Add(ticks2uuu(x), clock'.adj) = call.to
<1>1. TimerInv /\ [Next]_vars => [A]_vars
  <2> SUFFICES ASSUME TimerInv, Next, call.pc = "time", call'.pc = "idle"
               PROVE  \E x \in call.since .. clock.ticks : Add(ticks2uuu(x), clock'.adj) = call.to
    OBVIOUS
  <2>1. ~ClientCall
    BY DEF ClientCall, CanCall, thread_add_pool, thread_acquire, thread_release, thread_initialize,
       thread_schedule, set_timer_resolution_ticks, set_timer_resolution, ChangeResolution,
       set_tick_drift_correction_rate, correct_tick_drift, set_uuutime
  <2>2. ~pit_interrupt
    BY DEF pit_interrupt
  <2>3. AdjustTime
    BY <2>1, <2>2 DEF Next, CallStep, ReadTicksLow, ReadTicksHigh, ReadyImmediately, LinkSearch,
       StoreLeft, StoreRight, StoreDriftHigh
  <2>4. call \in TimeCall
    <3>1. call \in {NoCall, [pc |-> "spin"]} \cup LinkCall \cup TimeCall
      BY DEF TimerInv, Shapes
    <3>2. QED
      BY <3>1 DEF LinkCall, NoCall
  <2>5. PICK since : since = call.since
    OBVIOUS
  <2>6. /\ clock \in ClockType /\ since \in Nat /\ clock.ticks \in Nat /\ since <= clock.ticks
        /\ call.low = Lo(since) /\ clock.ticks < Word /\ call.to \in Ticks
    <3>1. clock \in ClockType
      BY DEF TimerInv, Shapes, TypeOK, ClockType
    <3>2. clock.ticks \in Nat /\ since \in Nat /\ call.to \in Ticks
      <4>1. clock.ticks \in Ticks /\ Ticks \subseteq Nat
        BY <3>1, Registers DEF ClockType, Ticks
      <4>2. since \in Nat /\ call.to \in Times
        BY <2>4, <2>5 DEF TimeCall
      <4>3. Times \subseteq Ticks
        BY DEF Careful
      <4>4. QED
        BY <4>1, <4>2, <4>3
    <3>3. Reading /\ ClockInCall
      BY <2>3 DEF TimerInv, AdjustTime
    <3>4. QED
      BY <2>5, <3>1, <3>2, <3>3, Registers, AvalonAssumption DEF Reading, ClockInCall, Careful
  <2>7. Join(Hi(clock.ticks), call.low) = since
    <3>1. Hi(clock.ticks) = 0 /\ Lo(since) = since
      BY <2>6, Small, Registers
    <3>2. QED
      BY <2>6, <3>1, Registers DEF Join
  <2>8. PICK a \in Nat : a = ticks2uuu(since)
    BY <2>6, ScaleNat
  <2>9. clock' = [clock EXCEPT !.adj = Add(clock.adj, Sub(call.to, Add(a, clock.adj)))]
    BY <2>3, <2>7, <2>8 DEF AdjustTime, get_uuutime
  <2>10. clock'.adj = Add(clock.adj, Sub(call.to, Add(a, clock.adj))) /\ clock.adj \in Ticks
    BY <2>6, <2>9 DEF ClockType
  <2>11. Add(a, clock'.adj) = call.to
    BY <2>6, <2>10, AdjustExact
  <2>12. since \in call.since .. clock.ticks
    BY <2>5, <2>6
  <2>13. QED
    BY <2>8, <2>11, <2>12
<1>2. QED
  BY <1>1, TimersInvariant, PTL DEF Spec, SetTimeTakes
-----------------------------------------------------------------------------
(* What is left holds for every use in Allow: it is about the clock alone, *)
(* whatever happens to the rings.                                          *)
ClockFields == {"ticks", "drift", "rate", "frac", "per", "new", "pit", "adj"}

(* Every resolution asked for fits in the 15 bits that __set_timer keeps.  *)
PitCounts ==
    /\ BootResolution < PitLimit \div 2
    /\ \A n \in Resolutions : n \in Nat /\ n < PitLimit \div 2
    /\ \A us \in Micros : us \in Nat /\ (us * AdjMult) % Word < PitLimit \div 2

PitGood ==
    /\ DOMAIN clock = ClockFields
    /\ clock.new \in 0 .. PitLimit \div 2 - 1
    /\ PitMatchesClock

(* An interrupt leaves the counts per interrupt alone, the drift or not.   *)
LEMMA TickKeeps ==
    ASSUME NEW k, DOMAIN k = ClockFields
    PROVE  /\ DOMAIN tick(k) = ClockFields
           /\ tick(k).per = k.per /\ tick(k).new = k.new /\ tick(k).pit = k.pit
           /\ tick(k).rate = k.rate /\ tick(k).adj = k.adj
<1>1. PICK d : d = IF k.drift = 0 THEN k ELSE correct_drift(k)
  OBVIOUS
<1>2. /\ DOMAIN d = ClockFields
      /\ d.per = k.per /\ d.new = k.new /\ d.pit = k.pit /\ d.rate = k.rate /\ d.adj = k.adj
  <2>1. CASE k.drift = 0
    BY <1>1, <2>1
  <2>2. CASE k.drift # 0
    <3>1. PICK f : f = ((k.frac + k.rate) % Word) % Short
      OBVIOUS
    <3>2. PICK m : m = [k EXCEPT !.frac = f]
      OBVIOUS
    <3>3. /\ DOMAIN m = ClockFields
          /\ m.per = k.per /\ m.new = k.new /\ m.pit = k.pit /\ m.rate = k.rate /\ m.adj = k.adj
      BY <3>2 DEF ClockFields
    <3>4. PICK a : a = ((k.frac + k.rate) % Word) \div Short
      OBVIOUS
    <3>5. PICK x, y : x = Sub(m.drift, StepOf(k, a)) /\ y = Add(m.ticks, StepOf(k, a))
      OBVIOUS
    <3>6. m.drift = k.drift /\ m.ticks = k.ticks
      BY <3>2 DEF ClockFields
    <3>7. d = IF a = 0 THEN m ELSE [m EXCEPT !.drift = x, !.ticks = y]
      BY <1>1, <2>2, <3>1, <3>2, <3>3, <3>4, <3>5, <3>6 DEF correct_drift, ClockFields
    <3>8. QED
      BY <3>3, <3>7 DEF ClockFields
  <2>3. QED
    BY <2>1, <2>2
<1>3. PICK y : y = Add(d.ticks, k.per)
  OBVIOUS
<1>4. tick(k) = [d EXCEPT !.ticks = y]
  BY <1>1, <1>3 DEF tick
<1>5. QED
  BY <1>2, <1>4 DEF ClockFields

(* The clock after the steps other than an interrupt. *)
LEMMA ClockSteps ==
    ASSUME Next
    PROVE  \/ clock' = clock
           \/ \E n \in Resolutions \cup {(us * AdjMult) % Word : us \in Micros} :
                n >= 2 /\ clock' = [clock EXCEPT !.new = n]
           \/ \E r \in Rates : clock' = [clock EXCEPT !.rate = r]
           \/ \E d \in Drifts : /\ clock' = [clock EXCEPT !.drift = Join(Hi(@), Lo(d))]
                                /\ call' = [pc |-> "drift", drift |-> d]
           \/ /\ call.pc = "drift"
              /\ clock' = [clock EXCEPT !.drift = Join(Hi(call.drift), Lo(@))]
           \/ \E x : clock' = [clock EXCEPT !.adj = x]
           \/ clock' = tick(clock) \/ clock' = resolution_programmer(tick(clock))
<1>1. CASE ClientCall
  BY <1>1 DEF ClientCall, thread_add_pool, thread_acquire, thread_release, thread_initialize,
     thread_schedule, set_timer_resolution_ticks, set_timer_resolution, ChangeResolution,
     set_tick_drift_correction_rate, correct_tick_drift, set_uuutime
<1>2. CASE CallStep
  BY <1>2 DEF CallStep, ReadTicksLow, ReadTicksHigh, ReadyImmediately, LinkSearch, StoreLeft,
     StoreRight, StoreDriftHigh, AdjustTime
<1>3. CASE pit_interrupt
  BY <1>3 DEF pit_interrupt
<1>4. QED
  BY <1>1, <1>2, <1>3 DEF Next

(* PitMatchesClock: the number of ticks added per interrupt is the count   *)
(* the PIT was given, through every delayed change of the resolution, as   *)
(* long as the counts fit in 15 bits.                                      *)
THEOREM PitFollowed == ASSUME PitCounts PROVE Spec => []PitMatchesClock
<1>1. PICK h \in Nat : h = PitLimit \div 2 /\ h >= 1
  BY Registers
<1>2. Init => PitGood
  <2> SUFFICES ASSUME Init PROVE PitGood
    OBVIOUS
  <2>1. DOMAIN clock = ClockFields /\ clock.per = 0 /\ clock.new = BootResolution
    BY DEF Init, ClockFields
  <2>2. QED
    BY <2>1, <1>1, AvalonAssumption DEF PitGood, PitMatchesClock, PitCounts
<1>3. ASSUME PitGood, Next PROVE PitGood'
  <2> DEFINE k == clock'
  <2> SUFFICES /\ DOMAIN clock' = ClockFields /\ clock'.new \in 0 .. h - 1
               /\ clock'.per # 0 => clock'.pit = clock'.per
    BY <1>1 DEF PitGood, PitMatchesClock
  <2>1. /\ DOMAIN clock = ClockFields /\ clock.new \in 0 .. h - 1
        /\ clock.per # 0 => clock.pit = clock.per
    BY <1>1, <1>3 DEF PitGood, PitMatchesClock
  <2>2. CASE \E n \in Resolutions \cup {(us * AdjMult) % Word : us \in Micros} :
               n >= 2 /\ clock' = [clock EXCEPT !.new = n]
    <3>1. PICK n \in Resolutions \cup {(us * AdjMult) % Word : us \in Micros} :
            n >= 2 /\ clock' = [clock EXCEPT !.new = n]
      BY <2>2
    <3>2. \A us \in Nat : (us * AdjMult) % Word \in Nat
      BY Registers
    <3>3. n \in 0 .. h - 1
      BY <1>1, <3>1, <3>2 DEF PitCounts
    <3>4. QED
      BY <2>1, <3>1, <3>3 DEF ClockFields
  <2>3. CASE clock' = tick(clock)
    BY <2>1, <2>3, TickKeeps
  <2>4. CASE clock' = resolution_programmer(tick(clock))
    <3>1. PICK c : c = tick(clock)
      OBVIOUS
    <3>2. DOMAIN c = ClockFields /\ c.new \in 0 .. h - 1
      BY <2>1, <3>1, TickKeeps
    <3>3. set_timer(c.new) = c.new
      BY <1>1, <3>2 DEF set_timer
    <3>4. clock' = [c EXCEPT !.per = c.new, !.pit = c.new]
      BY <2>4, <3>1, <3>3 DEF resolution_programmer
    <3>5. QED
      BY <3>2, <3>4 DEF ClockFields
  <2>5. CASE \E r \in Rates : clock' = [clock EXCEPT !.rate = r]
    BY <2>1, <2>5 DEF ClockFields
  <2>6. CASE \E x : clock' = [clock EXCEPT !.adj = x]
    BY <2>1, <2>6 DEF ClockFields
  <2>7. CASE \E x : clock' = [clock EXCEPT !.drift = x]
    BY <2>1, <2>7 DEF ClockFields
  <2>8. CASE clock' = clock
    BY <2>1, <2>8
  <2>9. QED
    BY <1>3, <2>2, <2>3, <2>4, <2>5, <2>6, <2>7, <2>8, ClockSteps
<1>4. PitGood /\ UNCHANGED vars => PitGood'
  BY DEF PitGood, PitMatchesClock, vars
<1>5. PitGood /\ [Next]_vars => PitGood'
  BY <1>3, <1>4
<1>6. PitGood => PitMatchesClock
  BY DEF PitGood
<1>7. QED
  BY <1>2, <1>5, <1>6, PTL DEF Spec
-----------------------------------------------------------------------------
(* A drift to be added that is read as a positive number, and rates that   *)
(* are words.                                                              *)
DriftAhead ==
    /\ Drifts \subseteq 0 .. Word \div 2 - 1 /\ Rates \subseteq 0 .. Word - 1
    /\ Resolutions \subseteq Nat /\ Micros \subseteq Nat

DriftClock(k) ==
    /\ DOMAIN k = ClockFields
    /\ k.ticks \in Ticks /\ k.drift \in 0 .. Word \div 2 - 1
    /\ k.rate \in 0 .. Word - 1 /\ k.frac \in 0 .. Short - 1
    /\ k.per \in Nat /\ k.new \in Nat

DriftGood ==
    /\ DriftClock(clock)
    /\ "pc" \in DOMAIN call
    /\ call.pc = "drift" => call.drift \in 0 .. Word \div 2 - 1

(* The step of one interrupt: no more than is left of the drift, and no    *)
(* more than the rate.                                                     *)
LEMMA StepBounds ==
    ASSUME NEW k, DriftClock(k), NEW a \in Nat, a < Word \div 2
    PROVE  StepOf(k, a) \in Nat /\ StepOf(k, a) <= k.drift /\ StepOf(k, a) <= a
<1>1. PICK w \in Nat : w = Word \div 2 /\ w >= 1 /\ w < Word
  BY Registers
<1>2. k.drift \in Nat /\ k.drift < w
  BY <1>1 DEF DriftClock
<1>3. Lo(k.drift) = k.drift /\ Hi(k.drift) = 0
  BY <1>1, <1>2, Small, Registers
<1>4. Signed(a) = a /\ Signed(k.drift) = k.drift
  BY <1>1, <1>2 DEF Signed
<1>5. StepOf(k, a) = IF a < k.drift THEN a ELSE k.drift
  BY <1>1, <1>3, <1>4 DEF StepOf
<1>6. QED
  BY <1>2, <1>5

(* What the count gains beside the ticks of the interrupt is the step.     *)
LEMMA SubAdd ==
    ASSUME NEW x \in Nat, NEW s \in Ticks, NEW p \in Nat
    PROVE  Sub(Add(Add(x, s), p), Add(x, p)) = s
<1>1. PICK L \in Nat : L = Long /\ L > 0
  BY Registers
<1>2. s \in 0 .. L - 1
  BY <1>1 DEF Ticks
<1>3. PICK u : u = (x + s) % L
  OBVIOUS
<1>4. PICK k1 \in Nat : x + s = L * k1 + u /\ u \in 0 .. L - 1
  <2>1. PICK y \in Nat : y = x + s
    BY <1>2
  <2>2. QED
    BY <1>1, <1>3, <2>1, Quotient
<1>5. PICK v : v = (u + p) % L
  OBVIOUS
<1>6. PICK k2 \in Nat : u + p = L * k2 + v /\ v \in 0 .. L - 1
  <2>1. PICK y \in Nat : y = u + p
    BY <1>4
  <2>2. QED
    BY <1>1, <1>5, <2>1, Quotient
<1>7. PICK z : z = (x + p) % L
  OBVIOUS
<1>8. PICK k3 \in Nat : x + p = L * k3 + z /\ z \in 0 .. L - 1
  <2>1. PICK y \in Nat : y = x + p
    OBVIOUS
  <2>2. QED
    BY <1>1, <1>7, <2>1, Quotient
<1>9. PICK k \in Int : k = ((k3 + 1) - k1) - k2
  OBVIOUS
<1>10. L * k = ((L * k3 + L) - L * k1) - L * k2
  BY <1>9
<1>11. PICK y \in Nat : y = v + L - z
  BY <1>6, <1>8
<1>12. y = L * k + s
  BY <1>2, <1>4, <1>6, <1>8, <1>10, <1>11
<1>13. y % L = s
  BY <1>1, <1>2, <1>12, RestUnique
<1>14. Add(x, s) = u /\ Add(u, p) = v /\ Add(x, p) = z /\ Sub(v, z) = s
  BY <1>1, <1>3, <1>5, <1>7, <1>11, <1>13 DEF Add, Sub
<1>15. QED
  BY <1>14

(* One interrupt, in full. *)
LEMMA TickDrift ==
    ASSUME NEW k, DriftClock(k)
    PROVE  /\ DriftClock(tick(k))
           /\ \E s \in Nat : /\ s <= k.drift /\ s <= (k.rate + Short - 1) \div Short
                             /\ tick(k).drift = k.drift - s
                             /\ tick(k).ticks = Add(Add(k.ticks, s), k.per)
<1>1. PICK w \in Nat : w = Word \div 2 /\ w >= 1 /\ w < Word /\ w < Long
  BY Registers
<1>2. /\ k.ticks \in Nat /\ k.ticks < Long /\ k.drift \in Nat /\ k.drift < w
      /\ k.rate \in Nat /\ k.rate < Word /\ k.frac \in Nat /\ k.frac < Short /\ k.per \in Nat
  BY <1>1, Registers DEF DriftClock, Ticks
<1>3. Add(k.ticks, 0) = k.ticks
  BY <1>2, AddRange
<1>4. DOMAIN k = ClockFields
  BY DEF DriftClock
<1>5. PICK d : d = IF k.drift = 0 THEN k ELSE correct_drift(k)
  OBVIOUS
<1>6. PICK bound \in Nat : bound = (k.rate + Short - 1) \div Short
  BY <1>2, Registers
<1>7. \E s \in Nat : /\ s <= k.drift /\ s <= bound
                     /\ d.drift = k.drift - s /\ d.ticks = Add(k.ticks, s)
                     /\ d.frac \in 0 .. Short - 1 /\ DOMAIN d = ClockFields
  <2>1. CASE k.drift = 0
    <3>1. /\ 0 <= k.drift /\ 0 <= bound /\ d.drift = k.drift - 0 /\ d.ticks = Add(k.ticks, 0)
          /\ d.frac \in 0 .. Short - 1 /\ DOMAIN d = ClockFields
      BY <1>2, <1>3, <1>4, <1>5, <1>6, <2>1, Registers
    <3>2. QED
      BY <3>1
  <2>2. CASE k.drift # 0
    <3>1. PICK sum \in Nat : sum = (k.frac + k.rate) % Word /\ sum < Word /\ sum <= k.frac + k.rate
      <4>1. PICK y \in Nat : y = k.frac + k.rate
        BY <1>2
      <4>2. y % Word \in Nat /\ y % Word < Word /\ y % Word <= y
        BY Registers
      <4>3. QED
        BY <4>1, <4>2
    <3>2. PICK a \in Nat : a = sum \div Short /\ a < w /\ a <= bound
      <4>1. PICK a \in Nat, b \in Nat : a = sum \div Short /\ b = k.rate + Short - 1
        BY <1>2, Registers
      <4>2. sum <= b
        BY <1>2, <3>1, <4>1, Registers
      <4>3. PICK A \in Int, r1 \in 0 .. Short - 1 : A = Short * a /\ sum = A + r1
        BY <4>1, Registers
      <4>4. PICK B \in Int, r2 \in 0 .. Short - 1 : B = Short * bound /\ b = B + r2
        BY <4>1, <1>6, Registers
      <4>5. a <= bound
        <5>1. CASE a >= bound + 1
          <6>1. A >= B + Short
            BY <4>3, <4>4, <5>1, Registers
          <6>2. QED
            BY <6>1, <4>2, <4>3, <4>4, Registers
        <5>2. QED
          BY <5>1
      <4>6. A >= 2 * a
        BY <4>3, Registers
      <4>7. Word = 2 * w
        BY <1>1, ClockAssumption
      <4>8. a < w
        BY <3>1, <4>3, <4>6, <4>7, Registers
      <4>9. QED
        BY <4>1, <4>5, <4>8
    <3>3. PICK s \in Nat : s = StepOf(k, a) /\ s <= k.drift /\ s <= a
      BY <1>1, <3>2, StepBounds
    <3>4. PICK f \in 0 .. Short - 1 : f = sum % Short
      BY Registers
    <3>5. PICK m : m = [k EXCEPT !.frac = f]
      OBVIOUS
    <3>6. DOMAIN m = ClockFields /\ m.drift = k.drift /\ m.ticks = k.ticks /\ m.frac = f
      BY <1>4, <3>5 DEF ClockFields
    <3>7. PICK x, y : x = Sub(k.drift, s) /\ y = Add(k.ticks, s)
      OBVIOUS
    <3>8. x = k.drift - s
      <4>1. PICK L \in Nat : L = Long /\ L > 0
        BY Registers
      <4>2. PICK z \in Nat, r \in 0 .. L - 1 : z = k.drift + L - s /\ r = k.drift - s
        BY <1>1, <1>2, <3>3, <4>1
      <4>3. z = L * 1 + r
        BY <4>2, <1>2
      <4>4. z % L = r
        BY <4>1, <4>3, RestUnique
      <4>5. QED
        BY <3>7, <4>1, <4>2, <4>4 DEF Sub
    <3>9. d = IF a = 0 THEN m ELSE [m EXCEPT !.drift = x, !.ticks = y]
      BY <1>5, <2>2, <3>1, <3>2, <3>3, <3>4, <3>5, <3>6, <3>7 DEF correct_drift, ClockFields
    <3>10. CASE a = 0
      <4>1. s = 0 /\ d = m
        BY <3>3, <3>9, <3>10
      <4>2. QED
        BY <1>2, <1>3, <1>6, <3>4, <3>6, <4>1
    <3>11. CASE a # 0
      <4>1. d.drift = x /\ d.ticks = y /\ d.frac = f /\ DOMAIN d = ClockFields
        BY <3>6, <3>9, <3>11 DEF ClockFields
      <4>2. QED
        BY <3>2, <3>3, <3>4, <3>7, <3>8, <4>1
    <3>12. QED
      BY <3>10, <3>11
  <2>3. QED
    BY <2>1, <2>2
<1>8. PICK s \in Nat : /\ s <= k.drift /\ s <= bound
                       /\ d.drift = k.drift - s /\ d.ticks = Add(k.ticks, s)
                       /\ d.frac \in 0 .. Short - 1 /\ DOMAIN d = ClockFields
  BY <1>7
<1>9. PICK y : y = Add(Add(k.ticks, s), k.per)
  OBVIOUS
<1>10. y \in Ticks
  <2>1. Add(k.ticks, s) \in Ticks
    BY <1>2, AddRange
  <2>2. Add(k.ticks, s) \in Nat
    BY <2>1, Registers DEF Ticks
  <2>3. QED
    BY <1>2, <1>9, <2>2, AddRange
<1>11. tick(k) = [d EXCEPT !.ticks = y]
  BY <1>5, <1>8, <1>9 DEF tick, ClockFields
<1>12. tick(k).drift = k.drift - s /\ tick(k).ticks = y /\ tick(k).frac \in 0 .. Short - 1
  BY <1>8, <1>11 DEF ClockFields
<1>13. /\ DOMAIN tick(k) = ClockFields
       /\ tick(k).per = k.per /\ tick(k).new = k.new /\ tick(k).rate = k.rate
  BY <1>4, TickKeeps
<1>14. DriftClock(tick(k))
  <2>1. k.drift - s \in 0 .. Word \div 2 - 1
    BY <1>1, <1>2, <1>8
  <2>2. QED
    BY <1>10, <1>12, <1>13, <2>1 DEF DriftClock
<1>15. QED
  BY <1>6, <1>8, <1>9, <1>12, <1>14

(* DriftWorkedOff: an interrupt advances the clock by ticks_per_irq and by *)
(* a correction that is taken from the drift, within the rate and never    *)
(* more than is left, through the overflow of the fraction and the signed  *)
(* comparison of the low words, and across the wrap of ticks_count.        *)
THEOREM DriftCorrected == ASSUME DriftAhead PROVE Spec => DriftWorkedOff
<1>1. PICK w \in Nat : w = Word \div 2 /\ w >= 1 /\ w < Word /\ w < Long
  BY Registers
<1>2. \A x, y \in 0 .. w - 1 : Join(Hi(x), Lo(y)) = y
  <2> TAKE x, y \in 0 .. w - 1
  <2>1. x \in Nat /\ y \in Nat /\ x < Word /\ y < Word
    BY <1>1, Registers
  <2>2. Hi(x) = 0 /\ Lo(y) = y
    BY <2>1, Small
  <2>3. QED
    BY <2>2, Registers DEF Join
<1>3. Init => DriftGood
  <2> SUFFICES ASSUME Init PROVE DriftGood
    OBVIOUS
  <2>1. /\ DOMAIN clock = ClockFields /\ clock.ticks = 0 /\ clock.drift = 0 /\ clock.rate = 0
        /\ clock.frac = 0 /\ clock.per = 0 /\ clock.new = BootResolution
    BY DEF Init, ClockFields
  <2>2. "pc" \in DOMAIN call /\ call.pc # "drift"
    BY DEF Init, NoCall
  <2>3. BootResolution \in Nat
    BY AvalonAssumption
  <2>4. 0 \in Ticks
    BY Registers DEF Ticks
  <2>5. QED
    BY <1>1, <2>1, <2>2, <2>3, <2>4, Registers DEF DriftGood, DriftClock
<1>4. ASSUME DriftGood, Next PROVE "pc" \in DOMAIN call' /\ (call'.pc = "drift" => call'.drift \in 0 .. w - 1)
  <2>1. "pc" \in DOMAIN call /\ (call.pc = "drift" => call.drift \in 0 .. w - 1)
    BY <1>1, <1>4 DEF DriftGood
  <2>2. CASE ClientCall
    <3>1. ASSUME NEW d \in Drifts, correct_tick_drift(d)
          PROVE  "pc" \in DOMAIN call' /\ call'.drift \in 0 .. w - 1
      BY <1>1, <3>1 DEF correct_tick_drift, DriftAhead
    <3>2. QED
      BY <2>1, <2>2, <3>1 DEF ClientCall, thread_add_pool, thread_acquire, thread_release,
         thread_initialize, thread_schedule, set_timer_resolution_ticks, set_timer_resolution,
         ChangeResolution, set_tick_drift_correction_rate, set_uuutime, NoCall
  <2>3. CASE CallStep
    <3>1. ASSUME NEW c, "pc" \in DOMAIN c, c.pc # "drift", LinkBegin(c)
          PROVE  "pc" \in DOMAIN call' /\ call'.pc # "drift"
      <4>1. CASE LoopsBack(q, c.node)
        BY <3>1, <4>1 DEF LinkBegin
      <4>2. CASE ~LoopsBack(q, c.node)
        BY <3>1, <4>2 DEF LinkBegin, NoCall
      <4>3. QED
        BY <4>1, <4>2
    <3>2. ASSUME ReadTicksHigh PROVE "pc" \in DOMAIN call' /\ call'.pc # "drift"
      BY <2>1, <3>1, <3>2 DEF ReadTicksHigh
    <3>3. ASSUME ReadyImmediately PROVE "pc" \in DOMAIN call' /\ call'.pc # "drift"
      <4>1. PICK c : c = [call EXCEPT !.kind = "ready", !.node = Start(call.t), !.ring = ready_for_execution]
        OBVIOUS
      <4>2. "pc" \in DOMAIN c /\ c.pc = call.pc
        BY <2>1, <4>1
      <4>3. QED
        BY <3>1, <3>3, <4>1, <4>2 DEF ReadyImmediately
    <3>4. ASSUME StoreRight PROVE "pc" \in DOMAIN call' /\ call'.pc # "drift"
      <4>1. CASE call.kind = "end" /\ call.start = 0
        BY <2>1, <3>4, <4>1 DEF StoreRight, AfterLink
      <4>2. CASE call.kind = "end" /\ call.start # 0
        BY <2>1, <3>4, <4>2 DEF StoreRight, AfterLink
      <4>3. CASE call.kind = "ready"
        BY <2>1, <3>4, <4>3 DEF StoreRight, AfterLink
      <4>4. CASE call.kind \notin {"end", "ready"}
        BY <2>1, <3>4, <4>4 DEF StoreRight, AfterLink, NoCall
      <4>5. QED
        BY <4>1, <4>2, <4>3, <4>4
    <3>5. ASSUME ReadTicksLow \/ StoreLeft \/ StoreDriftHigh \/ AdjustTime
          PROVE  "pc" \in DOMAIN call' /\ call'.pc # "drift"
      <4>1. ASSUME ReadTicksLow PROVE "pc" \in DOMAIN call' /\ call'.pc # "drift"
        <5>1. PICK x : x = Lo(uuu2ticks(call.delay)) + Lo(clock.ticks)
          OBVIOUS
        <5>2. call' = [call EXCEPT !.pc = "high", !.sum = x]
          BY <4>1, <5>1 DEF ReadTicksLow
        <5>3. QED
          BY <2>1, <5>2
      <4>2. ASSUME StoreLeft PROVE "pc" \in DOMAIN call' /\ call'.pc # "drift"
        BY <2>1, <4>2 DEF StoreLeft
      <4>3. ASSUME StoreDriftHigh \/ AdjustTime PROVE call' = NoCall
        BY <4>3 DEF StoreDriftHigh, AdjustTime
      <4>4. QED
        BY <3>5, <4>1, <4>2, <4>3 DEF NoCall
    <3>6. ASSUME LinkSearch PROVE "pc" \in DOMAIN call' /\ call'.pc # "drift"
      <4>1. PICK x : call' = [call EXCEPT !.pc = "left"] \/ call' = [call EXCEPT !.at = x]
        BY <3>6 DEF LinkSearch
      <4>2. call.pc = "search"
        BY <3>6 DEF LinkSearch
      <4>3. QED
        BY <2>1, <4>1, <4>2
    <3>7. QED
      BY <2>3, <3>2, <3>3, <3>4, <3>5, <3>6 DEF CallStep
  <2>4. CASE pit_interrupt
    BY <2>1, <2>4 DEF pit_interrupt
  <2>5. QED
    BY <1>4, <2>2, <2>3, <2>4 DEF Next
<1>5. ASSUME DriftGood, Next
      PROVE  /\ DriftClock(clock')
             /\ \/ clock'.ticks = clock.ticks
                \/ \E s \in Nat : /\ s <= clock.drift /\ s <= (clock.rate + Short - 1) \div Short
                                  /\ clock'.drift = clock.drift - s
                                  /\ clock'.ticks = Add(Add(clock.ticks, s), clock.per)
  <2>1. DriftClock(clock)
    BY <1>5 DEF DriftGood
  <2>2. CASE clock' = clock
    BY <2>1, <2>2
  <2>3. CASE \E n \in Resolutions \cup {(us * AdjMult) % Word : us \in Micros} :
               n >= 2 /\ clock' = [clock EXCEPT !.new = n]
    <3>1. PICK n \in Resolutions \cup {(us * AdjMult) % Word : us \in Micros} :
            clock' = [clock EXCEPT !.new = n]
      BY <2>3
    <3>2. \A us \in Nat : (us * AdjMult) % Word \in Nat
      BY Registers
    <3>3. n \in Nat
      BY <3>1, <3>2 DEF DriftAhead
    <3>4. QED
      BY <2>1, <3>1, <3>3 DEF DriftClock, ClockFields
  <2>4. CASE \E r \in Rates : clock' = [clock EXCEPT !.rate = r]
    BY <2>1, <2>4 DEF DriftClock, ClockFields, DriftAhead
  <2>5. CASE \E d \in Drifts : clock' = [clock EXCEPT !.drift = Join(Hi(@), Lo(d))]
    <3>1. PICK d \in Drifts : clock' = [clock EXCEPT !.drift = Join(Hi(clock.drift), Lo(d))]
      BY <2>5
    <3>2. d \in 0 .. w - 1 /\ clock.drift \in 0 .. w - 1
      BY <1>1, <2>1 DEF DriftAhead, DriftClock
    <3>3. clock' = [clock EXCEPT !.drift = d]
      BY <1>2, <3>1, <3>2
    <3>4. QED
      BY <1>1, <2>1, <3>2, <3>3 DEF DriftClock, ClockFields
  <2>6. CASE call.pc = "drift" /\ clock' = [clock EXCEPT !.drift = Join(Hi(call.drift), Lo(@))]
    <3>1. call.drift \in 0 .. w - 1 /\ clock.drift \in 0 .. w - 1
      BY <1>1, <1>5, <2>1, <2>6 DEF DriftGood, DriftClock
    <3>2. clock' = [clock EXCEPT !.drift = clock.drift]
      BY <1>2, <2>6, <3>1
    <3>3. QED
      BY <1>1, <2>1, <3>1, <3>2 DEF DriftClock, ClockFields
  <2>7. CASE \E x : clock' = [clock EXCEPT !.adj = x]
    BY <2>1, <2>7 DEF DriftClock, ClockFields
  <2>8. CASE clock' = tick(clock)
    BY <2>1, <2>8, TickDrift
  <2>9. CASE clock' = resolution_programmer(tick(clock))
    <3>1. PICK c : c = tick(clock)
      OBVIOUS
    <3>2. PICK p : p = set_timer(c.new)
      OBVIOUS
    <3>3. clock' = [c EXCEPT !.per = c.new, !.pit = p]
      BY <2>9, <3>1, <3>2 DEF resolution_programmer
    <3>4. DriftClock(c)
      BY <2>1, <3>1, TickDrift
    <3>5. DriftClock(clock') /\ clock'.drift = c.drift /\ clock'.ticks = c.ticks
      BY <3>3, <3>4 DEF DriftClock, ClockFields
    <3>6. QED
      BY <2>1, <3>1, <3>5, TickDrift
  <2>10. QED
    BY <1>5, <2>2, <2>3, <2>4, <2>5, <2>6, <2>7, <2>8, <2>9, ClockSteps
<1> DEFINE A == clock'.ticks # clock.ticks =>
                  LET step == Sub(clock'.ticks, Add(clock.ticks, clock.per)) IN
                  /\ step <= clock.drift
                  /\ step <= (clock.rate + Short - 1) \div Short
                  /\ clock'.drift = clock.drift - step
<1>6. ASSUME DriftGood, Next PROVE A
  <2> SUFFICES ASSUME clock'.ticks # clock.ticks PROVE A
    OBVIOUS
  <2>1. PICK s \in Nat : /\ s <= clock.drift /\ s <= (clock.rate + Short - 1) \div Short
                         /\ clock'.drift = clock.drift - s
                         /\ clock'.ticks = Add(Add(clock.ticks, s), clock.per)
    BY <1>5, <1>6
  <2>2. s \in Ticks /\ clock.ticks \in Nat /\ clock.per \in Nat
    <3>1. clock.drift \in 0 .. w - 1 /\ clock.ticks \in Ticks /\ clock.per \in Nat
      BY <1>1, <1>6 DEF DriftGood, DriftClock
    <3>2. QED
      BY <1>1, <2>1, <3>1, Registers DEF Ticks
  <2>3. Sub(clock'.ticks, Add(clock.ticks, clock.per)) = s
    BY <2>1, <2>2, SubAdd
  <2>4. QED
    BY <2>1, <2>3
<1>7. DriftGood /\ [Next]_vars => DriftGood'
  <2>1. ASSUME DriftGood, Next PROVE DriftGood'
    BY <1>1, <1>4, <1>5, <2>1 DEF DriftGood, DriftClock
  <2>2. ASSUME DriftGood, UNCHANGED vars PROVE DriftGood'
    BY <2>2 DEF DriftGood, DriftClock, vars
  <2>3. QED
    BY <2>1, <2>2
<1>8. DriftGood /\ [Next]_vars => [A]_vars
  BY <1>6
<1>9. QED
  BY <1>3, <1>7, <1>8, PTL DEF Spec, DriftWorkedOff
-----------------------------------------------------------------------------
(* The pre-allocated pools are different ones. *)
PoolsApart ==
    /\ \A i, j \in 1 .. Len(BootPools) : BootPools[i] = BootPools[j] => i = j
    /\ Priorities \subseteq Nat

(* Why the count holds: a pool that was not added has no free thread, and  *)
(* a thread that is held belongs to a pool that was added.                 *)
PoolGood ==
    /\ pools \in [ring : Seq(Pool), free : [Pool -> SUBSET Slot]]
    /\ thread \in [Thread -> [status : Nat, frame : {"none", "built", "saved"}, held : Nat]]
    /\ \A b \in Pool \ ToSet(pools.ring) : pools.free[b] = {}
    /\ \A t \in Thread : thread[t].held > 0 => t[1] \in ToSet(pools.ring)
    /\ IsFiniteSet(FreeThreads) /\ IsFiniteSet(Holdings)
    /\ ThreadsConserved

(* One holding more. *)
LEMMA HeldOneMore ==
    ASSUME thread \in [Thread -> [status : Nat, frame : {"none", "built", "saved"}, held : Nat]],
           thread' \in [Thread -> [status : Nat, frame : {"none", "built", "saved"}, held : Nat]],
           NEW t \in Thread, NEW h \in Nat, thread[t].held = h, thread'[t].held = h + 1,
           \A u \in Thread \ {t} : thread'[u].held = thread[u].held
    PROVE  Holdings' = Holdings \cup {<<t, h + 1>>} /\ <<t, h + 1>> \notin Holdings
<1>1. 1 .. h + 1 = (1 .. h) \cup {h + 1} /\ h + 1 \notin 1 .. h
  <2>1. 1 .. h + 1 \subseteq (1 .. h) \cup {h + 1} /\ h + 1 \notin 1 .. h
    OBVIOUS
  <2>2. (1 .. h) \cup {h + 1} \subseteq 1 .. h + 1
    OBVIOUS
  <2>3. QED
    BY <2>1, <2>2
<1>2. \A u \in Thread \ {t} : {u} \X (1 .. thread'[u].held) = {u} \X (1 .. thread[u].held)
  OBVIOUS
<1>3. {t} \X (1 .. thread'[t].held) = ({t} \X (1 .. thread[t].held)) \cup {<<t, h + 1>>}
  BY <1>1
<1>4. <<t, h + 1>> \notin Holdings
  BY <1>1 DEF Holdings
<1>5. Holdings' \subseteq Holdings \cup {<<t, h + 1>>}
  BY <1>2, <1>3 DEF Holdings
<1>6. Holdings \cup {<<t, h + 1>>} \subseteq Holdings'
  BY <1>2, <1>3 DEF Holdings
<1>7. QED
  BY <1>4, <1>5, <1>6

(* One holding less. *)
LEMMA HeldOneLess ==
    ASSUME thread \in [Thread -> [status : Nat, frame : {"none", "built", "saved"}, held : Nat]],
           thread' \in [Thread -> [status : Nat, frame : {"none", "built", "saved"}, held : Nat]],
           NEW t \in Thread, NEW h \in Nat, thread[t].held = h + 1, thread'[t].held = h,
           \A u \in Thread \ {t} : thread'[u].held = thread[u].held
    PROVE  Holdings' = Holdings \ {<<t, h + 1>>} /\ <<t, h + 1>> \in Holdings
<1>1. 1 .. h = (1 .. h + 1) \ {h + 1} /\ h + 1 \in 1 .. h + 1
  <2>1. 1 .. h \subseteq (1 .. h + 1) \ {h + 1} /\ h + 1 \in 1 .. h + 1
    OBVIOUS
  <2>2. (1 .. h + 1) \ {h + 1} \subseteq 1 .. h
    OBVIOUS
  <2>3. QED
    BY <2>1, <2>2
<1>2. \A u \in Thread \ {t} : {u} \X (1 .. thread'[u].held) = {u} \X (1 .. thread[u].held)
  OBVIOUS
<1>3. {t} \X (1 .. thread'[t].held) = ({t} \X (1 .. thread[t].held)) \ {<<t, h + 1>>}
  BY <1>1
<1>4. <<t, h + 1>> \in Holdings
  BY <1>1 DEF Holdings
<1>5. Holdings' \subseteq Holdings \ {<<t, h + 1>>}
  BY <1>2, <1>3 DEF Holdings
<1>6. Holdings \ {<<t, h + 1>>} \subseteq Holdings'
  BY <1>2, <1>3 DEF Holdings
<1>7. QED
  BY <1>4, <1>5, <1>6

(* The pools at boot: all their threads are free but init. *)
LEMMA PoolsAtBoot ==
    ASSUME PoolsApart, Init
    PROVE  PoolGood
<1>1. PICK n \in Nat : n = Len(BootPools) /\ n > 0 /\ BootPools \in [1 .. n -> Pool]
  BY AvalonAssumption
<1>2. Len(BootPool.ring) = n /\ ToSet(BootPool.ring) = ToSet(BootPools)
  BY <1>1, Boot
<1>3. PICK B : B = ToSet(BootPools)
  OBVIOUS
<1>4. B \in SUBSET Pool /\ IsFiniteSet(B) /\ Cardinality(B) = n
  <2>1. B \in SUBSET Pool
    BY <1>1, <1>3 DEF ToSet
  <2>2. BootPools \in Bijection(1 .. n, B)
    <3>1. BootPools \in [1 .. n -> B] /\ \A b \in B : \E i \in 1 .. n : BootPools[i] = b
      BY <1>1, <1>3 DEF ToSet
    <3>2. \A i, j \in 1 .. n : BootPools[i] = BootPools[j] => i = j
      BY <1>1 DEF PoolsApart
    <3>3. QED
      BY <3>1, <3>2 DEF Bijection, Injection, Surjection, IsInjective
  <2>3. IsFiniteSet(1 .. n) /\ Cardinality(1 .. n) = n
    <3>1. IsFiniteSet(1 .. n) /\ Cardinality(1 .. n) = IF 1 > n THEN 0 ELSE (n - 1) + 1
      BY FS_Interval
    <3>2. QED
      BY <1>1, <3>1
  <2>4. ExistsBijection(1 .. n, B)
    BY <2>2 DEF ExistsBijection
  <2>5. QED
    BY <2>1, <2>3, <2>4, FS_Bijection
<1>5. IsFiniteSet(Slot) /\ Cardinality(Slot) = Slots
  BY PoolsAssumption, FS_Interval DEF Slot
<1>6. IsFiniteSet(B \X Slot) /\ Cardinality(B \X Slot) = n * Slots
  BY <1>4, <1>5, FS_Product
<1>7. /\ pools \in [ring : Seq(Pool), free : [Pool -> SUBSET Slot]] /\ pools.ring = BootPool.ring
      /\ \A u \in Thread : u[2] \in pools.free[u[1]] <=> u[1] \in B /\ u # InitThread
  BY <1>2, <1>3, Boot, Acquired DEF Init, InitThread
<1>8. InitThread \in B \X Slot
  BY <1>2, <1>3, Boot DEF Thread
<1>9. FreeThreads = (B \X Slot) \ {InitThread}
  <2>1. \A u \in B \X Slot : u \in Thread /\ u[1] \in B
    BY <1>4 DEF Thread
  <2>2. \A u \in Thread : u[1] \in B => u \in B \X Slot
    BY DEF Thread
  <2>3. QED
    BY <1>7, <2>1, <2>2 DEF FreeThreads
<1>10. IsFiniteSet(FreeThreads) /\ Cardinality(FreeThreads) = n * Slots - 1
  BY <1>6, <1>8, <1>9, FS_RemoveElement
<1>11. /\ thread \in [Thread -> [status : Nat, frame : {"none", "built", "saved"}, held : Nat]]
       /\ \A t \in Thread : thread[t].held = 0
  BY DEF Init
<1>12. Holdings = {}
  BY <1>11 DEF Holdings
<1>13. IsFiniteSet(Holdings) /\ Cardinality(Holdings) = 0
  BY <1>12, FS_EmptySet
<1>14. n * Slots - 1 + 0 + 1 = Slots * n
  BY PoolsAssumption
<1>15. ThreadsConserved
  BY <1>2, <1>7, <1>10, <1>13, <1>14 DEF ThreadsConserved
<1>16. ASSUME NEW b \in Pool \ ToSet(pools.ring) PROVE pools.free[b] = {}
  <2>1. b \notin B /\ pools.free[b] \in SUBSET Slot
    BY <1>2, <1>3, <1>7
  <2>2. ASSUME NEW s \in pools.free[b] PROVE FALSE
    <3>1. <<b, s>> \in Thread
      BY <2>1 DEF Thread
    <3>2. QED
      BY <1>7, <2>1, <3>1
  <2>3. QED
    BY <2>2
<1>17. QED
  BY <1>7, <1>10, <1>11, <1>13, <1>15, <1>16 DEF PoolGood

(* The count after a step that moves threads between free and held. *)
LEMMA CountKept ==
    ASSUME PoolGood, FreeThreads' = FreeThreads, Holdings' = Holdings, pools'.ring = pools.ring
    PROVE  IsFiniteSet(FreeThreads') /\ IsFiniteSet(Holdings') /\ ThreadsConserved'
BY DEF PoolGood, ThreadsConserved

(* A new pool brings Slots free threads. *)
LEMMA AddPoolCounts ==
    ASSUME PoolGood, NEW b \in Pool, thread_add_pool(b)
    PROVE  PoolGood'
<1>1. /\ pools \in [ring : Seq(Pool), free : [Pool -> SUBSET Slot]] /\ b \notin ToSet(pools.ring)
      /\ pools.free[b] = {} /\ thread' = thread
      /\ IsFiniteSet(FreeThreads) /\ IsFiniteSet(Holdings)
  BY DEF PoolGood, thread_add_pool
<1>2. pools' = [ring |-> <<b>> \o pools.ring, free |-> [pools.free EXCEPT ![b] = Slot]]
  BY DEF thread_add_pool, add_pool
<1>3. pools' \in [ring : Seq(Pool), free : [Pool -> SUBSET Slot]] /\ Len(pools'.ring) = Len(pools.ring) + 1
  BY <1>1, <1>2
<1>4. ToSet(pools'.ring) = ToSet(pools.ring) \cup {b}
  <2>1. PICK n \in Nat : n = Len(pools.ring) /\ DOMAIN pools.ring = 1 .. n
    BY <1>1
  <2>2. /\ DOMAIN pools'.ring = 1 .. n + 1 /\ pools'.ring[1] = b
        /\ \A i \in 1 .. n : pools'.ring[i + 1] = pools.ring[i]
    BY <1>1, <1>2, <2>1
  <2>3. ToSet(pools.ring) \cup {b} \subseteq ToSet(pools'.ring)
    BY <2>1, <2>2 DEF ToSet
  <2>4. ToSet(pools'.ring) \subseteq ToSet(pools.ring) \cup {b}
    <3>1. ASSUME NEW i \in 1 .. n + 1, i # 1 PROVE i - 1 \in 1 .. n /\ pools'.ring[i] = pools.ring[i - 1]
      <4>1. i - 1 \in 1 .. n /\ (i - 1) + 1 = i
        BY <3>1
      <4>2. QED
        BY <2>2, <4>1
    <3>2. SUFFICES ASSUME NEW x \in ToSet(pools'.ring) PROVE x \in ToSet(pools.ring) \cup {b}
      OBVIOUS
    <3>3. PICK i \in 1 .. n + 1 : x = pools'.ring[i]
      BY <2>2 DEF ToSet
    <3>4. CASE i = 1
      BY <2>2, <3>3, <3>4
    <3>5. CASE i # 1
      <4>1. i - 1 \in 1 .. n /\ x = pools.ring[i - 1]
        BY <3>1, <3>3, <3>5
      <4>2. QED
        BY <2>1, <4>1 DEF ToSet
    <3>6. QED
      BY <3>4, <3>5
  <2>5. QED
    BY <2>3, <2>4
<1>5. FreeThreads' = FreeThreads \cup ({b} \X Slot)
  <2>1. ASSUME NEW u \in Thread
        PROVE  u[2] \in pools'.free[u[1]] <=> u[2] \in pools.free[u[1]] \/ u \in {b} \X Slot
    BY <1>1, <1>2 DEF Thread
  <2>2. {b} \X Slot \subseteq Thread
    BY DEF Thread
  <2>3. QED
    BY <2>1, <2>2 DEF FreeThreads
<1>6. FreeThreads \cap ({b} \X Slot) = {}
  BY <1>1 DEF FreeThreads
<1>7. IsFiniteSet({b} \X Slot) /\ Cardinality({b} \X Slot) = Slots
  <2>1. IsFiniteSet(Slot) /\ Cardinality(Slot) = Slots
    BY PoolsAssumption, FS_Interval DEF Slot
  <2>2. IsFiniteSet({b}) /\ Cardinality({b}) = 1
    BY FS_Singleton
  <2>3. QED
    BY <2>1, <2>2, FS_Product, PoolsAssumption
<1>8. PICK F \in Nat, H \in Nat : F = Cardinality(FreeThreads) /\ H = Cardinality(Holdings)
  BY <1>1, FS_CardinalityType
<1>9. IsFiniteSet(FreeThreads') /\ Cardinality(FreeThreads') = F + Slots
  <2>1. PICK X, Y : X = FreeThreads /\ Y = {b} \X Slot
    OBVIOUS
  <2>2. /\ IsFiniteSet(X \cup Y)
        /\ Cardinality(X \cup Y) = Cardinality(X) + Cardinality(Y) - Cardinality(X \cap Y)
    BY <1>1, <1>7, <2>1, FS_Union
  <2>3. Cardinality(X \cap Y) = 0
    BY <1>6, <2>1, FS_EmptySet
  <2>4. QED
    BY <1>5, <1>7, <1>8, <2>1, <2>2, <2>3, PoolsAssumption
<1>10. Holdings' = Holdings
  BY <1>1 DEF Holdings
<1>11. ThreadsConserved'
  <2>1. F + H + 1 = Slots * Len(pools.ring)
    BY <1>8 DEF PoolGood, ThreadsConserved
  <2>2. PICK n \in Nat : n = Len(pools.ring)
    BY <1>1
  <2>3. Slots * (n + 1) = Slots * n + Slots
    BY PoolsAssumption
  <2>4. F + Slots + H + 1 = Slots * (n + 1)
    BY <2>1, <2>2, <2>3, PoolsAssumption
  <2>5. QED
    BY <1>3, <1>8, <1>9, <1>10, <2>2, <2>4 DEF ThreadsConserved
<1>12. \A c \in Pool \ ToSet(pools'.ring) : pools'.free[c] = {}
  BY <1>1, <1>2, <1>4 DEF PoolGood
<1>13. \A t \in Thread : thread'[t].held > 0 => t[1] \in ToSet(pools'.ring)
  BY <1>1, <1>4 DEF PoolGood
<1>14. QED
  BY <1>1, <1>3, <1>9, <1>10, <1>11, <1>12, <1>13 DEF PoolGood

(* thread.acquire moves one thread from free to held. *)
LEMMA AcquireCounts ==
    ASSUME PoolGood, thread_acquire
    PROVE  PoolGood'
<1>1. /\ pools \in [ring : Seq(Pool), free : [Pool -> SUBSET Slot]] /\ CanAcquire(pools)
      /\ thread \in [Thread -> [status : Nat, frame : {"none", "built", "saved"}, held : Nat]]
      /\ IsFiniteSet(FreeThreads) /\ IsFiniteSet(Holdings)
  BY DEF PoolGood, thread_acquire
<1>2. PICK t : t = acquired(pools)
  OBVIOUS
<1>3. PICK p : p = acquire(pools)
  OBVIOUS
<1>4. /\ pools' = p /\ p \in [ring : Seq(Pool), free : [Pool -> SUBSET Slot]] /\ p.ring = pools.ring
      /\ t \in Thread /\ t[1] \in ToSet(pools.ring) /\ t[2] \in pools.free[t[1]]
      /\ \A u \in Thread : u[2] \in p.free[u[1]] <=> u[2] \in pools.free[u[1]] /\ u # t
  BY <1>1, <1>2, <1>3, Acquired DEF thread_acquire
<1>5. PICK w \in [status : Nat, frame : {"none", "built", "saved"}, held : Nat], h \in Nat :
        w = thread[t] /\ h = w.held
  BY <1>1, <1>4
<1>6. thread' = [thread EXCEPT ![t] = [w EXCEPT !.status = 0, !.held = h + 1]]
  <2>1. thread' = [thread EXCEPT ![t].status = 0, ![t].held = @ + 1]
    BY <1>2 DEF thread_acquire
  <2>2. QED
    BY <1>1, <1>4, <1>5, <2>1
<1>7. PICK v : v = [w EXCEPT !.status = 0, !.held = h + 1]
  OBVIOUS
<1>8. v \in [status : Nat, frame : {"none", "built", "saved"}, held : Nat] /\ v.held = h + 1
  <2>1. v = [status |-> 0, frame |-> w.frame, held |-> h + 1]
    BY <1>5, <1>7
  <2>2. QED
    BY <1>5, <2>1
<1>9. /\ thread' \in [Thread -> [status : Nat, frame : {"none", "built", "saved"}, held : Nat]]
      /\ thread'[t].held = h + 1 /\ thread[t].held = h
      /\ \A u \in Thread \ {t} : thread'[u].held = thread[u].held
  BY <1>1, <1>4, <1>5, <1>6, <1>7, <1>8
<1>10. FreeThreads' = FreeThreads \ {t} /\ t \in FreeThreads
  BY <1>4 DEF FreeThreads
<1>11. Holdings' = Holdings \cup {<<t, h + 1>>} /\ <<t, h + 1>> \notin Holdings
  BY <1>1, <1>4, <1>9, HeldOneMore
<1>12. PICK F \in Nat, H \in Nat : F = Cardinality(FreeThreads) /\ H = Cardinality(Holdings)
  BY <1>1, FS_CardinalityType
<1>13. IsFiniteSet(FreeThreads') /\ Cardinality(FreeThreads') = F - 1
  BY <1>1, <1>10, <1>12, FS_RemoveElement
<1>14. IsFiniteSet(Holdings') /\ Cardinality(Holdings') = H + 1
  BY <1>1, <1>11, <1>12, FS_AddElement
<1>15. F + H + 1 = Slots * Len(pools.ring)
  BY <1>12 DEF PoolGood, ThreadsConserved
<1>16. (F - 1) + (H + 1) + 1 = F + H + 1
  OBVIOUS
<1>17. ThreadsConserved'
  BY <1>4, <1>13, <1>14, <1>15, <1>16 DEF ThreadsConserved
<1>18. \A b \in Pool \ ToSet(pools'.ring) : pools'.free[b] = {}
  <2> SUFFICES ASSUME NEW b \in Pool \ ToSet(p.ring), NEW s \in p.free[b] PROVE FALSE
    BY <1>4
  <2>1. s \in Slot /\ pools.free[b] = {}
    BY <1>4 DEF PoolGood
  <2>2. <<b, s>> \in Thread
    BY <2>1 DEF Thread
  <2>3. QED
    BY <1>4, <2>1, <2>2
<1>19. ASSUME NEW u \in Thread, thread'[u].held > 0 PROVE u[1] \in ToSet(pools'.ring)
  BY <1>4, <1>9, <1>19 DEF PoolGood
<1>20. QED
  BY <1>4, <1>9, <1>13, <1>14, <1>17, <1>18, <1>19 DEF PoolGood

(* thread.release moves one from held to free, be it another one. *)
LEMMA ReleaseCounts ==
    ASSUME PoolGood, NEW t \in Thread, thread_release(t)
    PROVE  PoolGood'
<1>1. /\ pools \in [ring : Seq(Pool), free : [Pool -> SUBSET Slot]]
      /\ thread \in [Thread -> [status : Nat, frame : {"none", "built", "saved"}, held : Nat]]
      /\ IsFiniteSet(FreeThreads) /\ IsFiniteSet(Holdings) /\ thread[t].held > 0
      /\ CanRelease(pools, t)
  BY DEF PoolGood, thread_release, Held
<1>2. PICK b \in Pool, k \in Nat : t = <<b, k>> /\ k \in Slot
  BY PoolsAssumption DEF Thread, Slot
<1>3. /\ k + 1 \in Slot /\ k + 1 \notin pools.free[b] /\ b \in ToSet(pools.ring)
      /\ pools' = [pools EXCEPT !.free[b] = pools.free[b] \cup {k + 1}]
  <2>1. release_id(t) = k + 1 /\ t[1] = b
    BY <1>2 DEF release_id
  <2>2. k + 1 <= Slots - 1 /\ k + 1 \notin pools.free[b]
    BY <1>1, <2>1 DEF CanRelease
  <2>3. pools' = [pools EXCEPT !.free[b] = @ \cup {k + 1}]
    BY <2>1 DEF thread_release, release
  <2>4. b \in ToSet(pools.ring)
    BY <1>1, <2>1 DEF PoolGood
  <2>5. QED
    BY <2>2, <2>3, <2>4, PoolsAssumption DEF Slot
<1>4. pools'.ring = pools.ring /\ pools'.free = [pools.free EXCEPT ![b] = pools.free[b] \cup {k + 1}]
  BY <1>1, <1>2, <1>3
<1>5. pools' \in [ring : Seq(Pool), free : [Pool -> SUBSET Slot]]
  BY <1>1, <1>2, <1>3, <1>4
<1>6. PICK u : u = <<b, k + 1>>
  OBVIOUS
<1>7. u \in Thread /\ u \notin FreeThreads /\ FreeThreads' = FreeThreads \cup {u}
  <2>1. u \in Thread /\ u[1] = b /\ u[2] = k + 1
    BY <1>2, <1>3, <1>6 DEF Thread
  <2>2. ASSUME NEW x \in Thread PROVE x[2] \in pools'.free[x[1]] <=> x[2] \in pools.free[x[1]] \/ x = u
    <3>1. x = <<x[1], x[2]>> /\ x[1] \in Pool
      BY DEF Thread
    <3>2. QED
      BY <1>1, <1>2, <1>4, <1>6, <3>1
  <2>3. QED
    BY <1>3, <2>1, <2>2 DEF FreeThreads
<1>8. PICK w \in [status : Nat, frame : {"none", "built", "saved"}, held : Nat], h \in Nat :
        w = thread[t] /\ h + 1 = w.held
  <2>1. PICK w \in [status : Nat, frame : {"none", "built", "saved"}, held : Nat] : w = thread[t]
    BY <1>1
  <2>2. w.held \in Nat /\ w.held > 0
    BY <1>1, <2>1
  <2>3. w.held - 1 \in Nat /\ (w.held - 1) + 1 = w.held
    BY <2>2
  <2>4. QED
    BY <2>1, <2>3
<1>9. thread' = [thread EXCEPT ![t] = [w EXCEPT !.held = h]]
  <2>1. thread' = [thread EXCEPT ![t].held = @ - 1]
    BY DEF thread_release
  <2>2. w.held - 1 = h
    BY <1>8
  <2>3. QED
    BY <1>1, <1>8, <2>1, <2>2
<1>10. PICK v : v = [w EXCEPT !.held = h]
  OBVIOUS
<1>11. v \in [status : Nat, frame : {"none", "built", "saved"}, held : Nat] /\ v.held = h
  BY <1>1, <1>8, <1>10
<1>12. /\ thread' \in [Thread -> [status : Nat, frame : {"none", "built", "saved"}, held : Nat]]
       /\ thread'[t].held = h /\ thread[t].held = h + 1
       /\ \A x \in Thread \ {t} : thread'[x].held = thread[x].held
  BY <1>1, <1>8, <1>9, <1>10, <1>11
<1>13. Holdings' = Holdings \ {<<t, h + 1>>} /\ <<t, h + 1>> \in Holdings
  BY <1>1, <1>12, HeldOneLess
<1>14. PICK F \in Nat, H \in Nat : F = Cardinality(FreeThreads) /\ H = Cardinality(Holdings)
  BY <1>1, FS_CardinalityType
<1>15. IsFiniteSet(FreeThreads') /\ Cardinality(FreeThreads') = F + 1
  BY <1>1, <1>7, <1>14, FS_AddElement
<1>16. IsFiniteSet(Holdings') /\ Cardinality(Holdings') = H - 1
  <2>1. PICK S, x : S = Holdings /\ x = <<t, h + 1>>
    OBVIOUS
  <2>2. IsFiniteSet(S) /\ x \in S /\ Holdings' = S \ {x}
    BY <1>1, <1>13, <2>1
  <2>3. IsFiniteSet(S \ {x}) /\ Cardinality(S \ {x}) = Cardinality(S) - 1
    BY <2>2, FS_RemoveElement
  <2>4. QED
    BY <1>14, <2>1, <2>2, <2>3
<1>17. F + H + 1 = Slots * Len(pools.ring)
  BY <1>14 DEF PoolGood, ThreadsConserved
<1>18. (F + 1) + (H - 1) + 1 = F + H + 1
  OBVIOUS
<1>19. ThreadsConserved'
  BY <1>4, <1>15, <1>16, <1>17, <1>18 DEF ThreadsConserved
<1>20. \A c \in Pool \ ToSet(pools'.ring) : pools'.free[c] = {}
  BY <1>1, <1>3, <1>4 DEF PoolGood
<1>21. ASSUME NEW x \in Thread, thread'[x].held > 0 PROVE x[1] \in ToSet(pools'.ring)
  BY <1>1, <1>4, <1>12, <1>21 DEF PoolGood
<1>22. QED
  BY <1>5, <1>12, <1>15, <1>16, <1>19, <1>20, <1>21 DEF PoolGood

(* ThreadsConserved: thread.acquire and thread.release neither lose a      *)
(* thread nor invent one, although release frees the slot behind the one   *)
(* it was given, and whatever the client does beside.                      *)
THEOREM NoThreadLost == ASSUME PoolsApart PROVE Spec => []ThreadsConserved
<1>1. Init => PoolGood
  BY PoolsAtBoot
<1>2. ASSUME PoolGood, pools' = pools,
             thread' \in [Thread -> [status : Nat, frame : {"none", "built", "saved"}, held : Nat]],
             \A t \in Thread : thread'[t].held = thread[t].held
      PROVE  PoolGood'
  <2>1. FreeThreads' = FreeThreads
    BY <1>2 DEF FreeThreads
  <2>2. Holdings' = Holdings
    BY <1>2 DEF Holdings
  <2>3. IsFiniteSet(FreeThreads') /\ IsFiniteSet(Holdings') /\ ThreadsConserved'
    BY <1>2, <2>1, <2>2, CountKept
  <2>4. QED
    BY <1>2, <2>3 DEF PoolGood
<1>3. ASSUME PoolGood, pools' = pools, thread' = thread PROVE PoolGood'
  BY <1>2, <1>3 DEF PoolGood
<1>4. ASSUME PoolGood, Next PROVE PoolGood'
  <2>0. thread \in [Thread -> [status : Nat, frame : {"none", "built", "saved"}, held : Nat]]
    BY <1>4 DEF PoolGood
  <2>1. ASSUME NEW t \in Thread, thread_initialize(t) PROVE PoolGood'
    <3>1. pools' = pools /\ thread' = [thread EXCEPT ![t].frame = "built"]
      BY <2>1 DEF thread_initialize
    <3>2. /\ thread' \in [Thread -> [status : Nat, frame : {"none", "built", "saved"}, held : Nat]]
          /\ \A u \in Thread : thread'[u].held = thread[u].held
      BY <2>0, <3>1
    <3>3. QED
      BY <1>2, <1>4, <3>1, <3>2
  <2>2. ASSUME NEW t \in Thread, NEW p \in Priorities, NEW s \in Delays, NEW e \in Deadlines,
               thread_schedule(t, p, s, e)
        PROVE  PoolGood'
    <3>1. PICK x \in Nat : x = (p \div Short) % 256
      BY Registers DEF PoolsApart
    <3>2. pools' = pools /\ thread' = [thread EXCEPT ![t].status = x]
      BY <2>2, <3>1 DEF thread_schedule
    <3>3. /\ thread' \in [Thread -> [status : Nat, frame : {"none", "built", "saved"}, held : Nat]]
          /\ \A u \in Thread : thread'[u].held = thread[u].held
      BY <2>0, <3>2
    <3>4. QED
      BY <1>2, <1>4, <3>2, <3>3
  <2>3. CASE pit_interrupt
    <3>1. pools' = pools /\ thread' = [thread EXCEPT ![exec].frame = "saved"]
      BY <2>3 DEF pit_interrupt
    <3>2. /\ thread' \in [Thread -> [status : Nat, frame : {"none", "built", "saved"}, held : Nat]]
          /\ \A u \in Thread : thread'[u].held = thread[u].held
      BY <2>0, <3>1
    <3>3. QED
      BY <1>2, <1>4, <3>1, <3>2
  <2>4. CASE CallStep
    BY <1>3, <1>4, <2>4 DEF CallStep, ReadTicksLow, ReadTicksHigh, ReadyImmediately, LinkSearch,
       StoreLeft, StoreRight, StoreDriftHigh, AdjustTime
  <2>5. CASE ClientCall
    <3>1. ASSUME \/ set_timer_resolution_ticks \/ set_timer_resolution
                 \/ \E r \in Rates : set_tick_drift_correction_rate(r)
                 \/ \E d \in Drifts : correct_tick_drift(d)
                 \/ \E t \in Times : set_uuutime(t)
          PROVE  pools' = pools /\ thread' = thread
      BY <3>1 DEF set_timer_resolution_ticks, set_timer_resolution, ChangeResolution,
         set_tick_drift_correction_rate, correct_tick_drift, set_uuutime
    <3>2. QED
      BY <1>3, <1>4, <2>1, <2>2, <2>5, <3>1, AddPoolCounts, AcquireCounts, ReleaseCounts DEF ClientCall
  <2>6. QED
    BY <1>4, <2>3, <2>4, <2>5 DEF Next
<1>5. PoolGood /\ UNCHANGED vars => PoolGood'
  BY <1>3 DEF vars
<1>6. PoolGood /\ [Next]_vars => PoolGood'
  BY <1>4, <1>5
<1>7. PoolGood => ThreadsConserved
  BY DEF PoolGood
<1>8. QED
  BY <1>1, <1>6, <1>7, PTL DEF Spec
=============================================================================
