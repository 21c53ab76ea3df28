--------------------------- MODULE NoBlameProofs ---------------------------
(***************************************************************************)
(* Proofs about NoBlame, for any size of memory, any requests, any values  *)
(* and any threads, as long as no call begins before the last one has      *)
(* stored memory_frame and no request wraps around.                        *)
(***************************************************************************)
EXTENDS NoBlame, TLAPS

(* The blocks of n bytes, and a block where memory has been handed out. *)
Block(n) == [at : Nat, holds : [Bytes(n) -> Byte]]

Lies(b) ==
  \E n \in Nat \ {0} :
    /\ b \in Block(n)
    /\ b.at % 4 = 0
    /\ frame <= b.at
    /\ memory_bottom <= b.at
    /\ b.at + n <= memory_top

Keeps(b) == \A i \in DOMAIN b.holds : b.holds[i] # Any => mem[b.at + i] = b.holds[i]

Apart(b, c) == Span(b) \cap Span(c) = {}

(* A call that has computed its frame and not stored it; nobody else has   *)
(* touched memory_frame since.  The block it replaces is no longer held    *)
(* but still holds what its owner wrote.                                   *)
Waiting(k) ==
  /\ k \in [pc : {"store"}, op : {"bare", "allocate", "reallocate"}, n : Request,
            old : {k.old}, eax : {frame - RoundUp(k.n)}]
  /\ k.n # 0 /\ k.n + 3 < Word /\ RoundUp(k.n) <= frame
  /\ k.op # "bare" => k.n > 4
  /\ IF k.op = "reallocate"
     THEN /\ Lies(k.old) /\ Keeps(k.old)
          /\ \A b \in held : Apart(b, k.old)
     ELSE k.old = NoBlock

MemoryTypeOK ==
  /\ machine \in {"running", "wild"}
  /\ frame \in 0 .. memory_top /\ frame % 4 = 0
  /\ mem \in [0 .. Word - 1 -> Byte]
  /\ ret \in {"none", "ok", "moved", "no memory", "other"}

(* The inductive invariant. *)
CallsWait ==
  /\ DOMAIN call = Thread
  /\ \A k \in {call[t] : t \in Thread} : k = Idle \/ Waiting(k)
  /\ \A t, u \in Thread : call[t] # Idle /\ call[u] # Idle => t = u

BlocksKept ==
  /\ \A b \in held : Lies(b) /\ Keeps(b)
  /\ \A b, c \in held : b # c => Apart(b, c)

MemoryInv == MemoryTypeOK /\ CallsWait /\ BlocksKept

-----------------------------------------------------------------------------
(* The numbers the invariant speaks of. *)
LEMMA FrameType ==
  ASSUME MemoryInv
  PROVE  frame \in 0 .. memory_top /\ frame \in Nat /\ mem \in [0 .. Word - 1 -> Byte]
<1>1. frame \in 0 .. memory_top /\ mem \in [0 .. Word - 1 -> Byte]
  BY DEF MemoryInv, MemoryTypeOK
<1>2. QED
  BY <1>1, MemoryAssumption

(* The rounded size has room for the bytes asked for, and from 5 bytes on  *)
(* for the two dwords of the header.                                       *)
LEMMA RoundUpRoom ==
  ASSUME NEW n \in Nat, n + 3 < Word
  PROVE  /\ RoundUp(n) \in n .. n + 3
         /\ RoundUp(n) % 4 = 0
         /\ n > 4 => RoundUp(n) >= 8
BY MemoryAssumption DEF RoundUp, Wrap

(* What the definitions say of a block. *)
LEMMA BlockSpan ==
  ASSUME NEW n \in Nat, NEW b \in Block(n)
  PROVE  /\ DOMAIN b.holds = Bytes(n)
         /\ Span(b) = {a \in Int : b.at <= a /\ a < b.at + n}
<1>1. DOMAIN b.holds = Bytes(n) /\ b.at \in Nat
  BY DEF Block
<1>2. ASSUME NEW a \in Span(b) PROVE a \in Int /\ b.at <= a /\ a < b.at + n
  BY <1>1 DEF Span, Bytes
<1>3. ASSUME NEW a \in Int, b.at <= a, a < b.at + n PROVE a \in Span(b)
  <2>1. a - b.at \in Bytes(n) /\ a = b.at + (a - b.at)
    BY <1>1, <1>3 DEF Bytes
  <2>2. QED
    BY <1>1, <2>1 DEF Span
<1>4. QED
  BY <1>1, <1>2, <1>3

(* A block that lies between the frame and the top has its bytes there. *)
LEMMA LiesInside ==
  ASSUME NEW b, Lies(b), frame \in Nat
  PROVE  /\ b.at % 4 = 0 /\ b.at \in Nat
         /\ Span(b) \subseteq memory_bottom .. memory_top - 1
         /\ \A a \in Span(b) : frame <= a
<1>1. PICK n \in Nat \ {0} : /\ b \in Block(n) /\ b.at % 4 = 0 /\ frame <= b.at
                            /\ memory_bottom <= b.at /\ b.at + n <= memory_top
  BY DEF Lies
<1>2. b.at \in Nat
  BY <1>1 DEF Block
<1>3. QED
  BY <1>1, <1>2, BlockSpan, MemoryAssumption

(* A block keeps its place when the frame moves down. *)
LEMMA LiesLower ==
  ASSUME NEW b, Lies(b), frame \in Int, frame' \in Int, frame' <= frame
  PROVE  Lies(b)'
<1>1. PICK n \in Nat \ {0} : /\ b \in Block(n) /\ b.at % 4 = 0 /\ frame <= b.at
                            /\ memory_bottom <= b.at /\ b.at + n <= memory_top
  BY DEF Lies
<1>2. b.at \in Nat
  BY <1>1 DEF Block
<1>3. frame' <= b.at
  BY <1>1, <1>2
<1>4. QED
  BY <1>1, <1>3 DEF Lies, Block, Bytes, Byte

-----------------------------------------------------------------------------
(* Nothing is handed out when the manager starts. *)
LEMMA InitMemoryInv == Init => MemoryInv
<1> SUFFICES ASSUME Init PROVE MemoryInv
  OBVIOUS
<1>1. MemoryTypeOK
  BY MemoryAssumption DEF Init, MemoryTypeOK, Byte
<1>2. CallsWait
  BY DEF Init, CallsWait
<1>3. BlocksKept
  BY DEF Init, BlocksKept
<1>4. QED
  BY <1>1, <1>2, <1>3 DEF MemoryInv

(* A call begins. *)
LEMMA EnterMemoryInv ==
  ASSUME MemoryInv, "wraps" \notin Allow, "overlap" \notin Allow,
         NEW t \in Thread, NEW op \in {"bare", "allocate", "reallocate"},
         NEW n \in Request, NEW b,
         IF op = "reallocate" THEN b \in held ELSE b = NoBlock,
         Enter(t, op, n, b)
  PROVE  MemoryInv'
<1>0. PICK k : k = [pc |-> "store", op |-> op, n |-> n, old |-> b,
                    eax |-> MinusFrame(frame, RoundUp(n))]
  OBVIOUS
<1>1. /\ UNCHANGED <<frame, mem>>
      /\ \A u \in Thread : call[u] = Idle
      /\ n + 3 < Word /\ RoundUp(n) <= frame
  BY DEF Enter
<1>2. MemoryTypeOK'
  BY <1>1 DEF MemoryInv, MemoryTypeOK, Enter
<1>3. BlocksKept'
  <2>1. \A c : (Lies(c) => Lies(c)') /\ (Keeps(c) => Keeps(c)')
    BY <1>1 DEF Lies, Keeps
  <2>2. held' \subseteq held
    BY DEF Enter
  <2>3. \A c \in held' : Lies(c)' /\ Keeps(c)'
    BY <2>1, <2>2 DEF MemoryInv, BlocksKept
  <2>4. \A c, d \in held' : c # d => Apart(c, d)'
    BY <2>2 DEF MemoryInv, BlocksKept, Apart, Span
  <2>5. QED
    BY <2>3, <2>4 DEF BlocksKept
<1>4. CASE Refused(op, n)
  BY <1>1, <1>2, <1>3, <1>4 DEF MemoryInv, CallsWait, Enter
<1>5. CASE ~Refused(op, n)
  <2>1. call' = [call EXCEPT ![t] = k] /\ held' = held \ {b}
    BY <1>0, <1>5 DEF Enter
  <2>2. n \in Nat /\ n # 0 /\ (op # "bare" => n > 4)
    BY <1>5, RequestAssumption, MemoryAssumption DEF Refused
  <2>3. MinusFrame(frame, RoundUp(n)) = frame - RoundUp(n)
    BY <1>1 DEF MinusFrame
  <2>4. op = "reallocate" =>
          /\ Lies(b)' /\ Keeps(b)'
          /\ \A c \in held' : Apart(c, b)'
    BY <1>1, <2>1 DEF MemoryInv, BlocksKept, Lies, Keeps, Apart, Span
  <2>5. Waiting(k)'
    BY <1>0, <1>1, <2>2, <2>3, <2>4 DEF Waiting
  <2>6. CallsWait'
    <3>1. DOMAIN call' = Thread /\ call'[t] = k /\ \A u \in Thread : u # t => call'[u] = Idle
      BY <1>1, <2>1 DEF MemoryInv, CallsWait
    <3>2. QED
      BY <2>5, <3>1 DEF CallsWait
  <2>7. QED
    BY <1>2, <1>3, <2>6 DEF MemoryInv
<1>6. QED
  BY <1>4, <1>5

(* The call of a thread stores the frame it computed.  Its block ends where *)
(* the frame was, so that neither its header nor the bytes it copies reach  *)
(* a block handed out earlier.                                              *)
LEMMA StoreMemoryInv ==
  ASSUME MemoryInv, NEW t \in Thread, Store(t)
  PROVE  MemoryInv'
<1>1. PICK k : k = call[t]
  OBVIOUS
<1>2. /\ Waiting(k)
      /\ \A u \in Thread : u # t => call[u] = Idle
      /\ frame \in Nat /\ frame <= memory_top /\ frame % 4 = 0
      /\ mem \in [0 .. Word - 1 -> Byte]
  <2>1. k # Idle
    BY <1>1 DEF Store
  <2>2. Waiting(k)
    BY <1>1, <2>1 DEF MemoryInv, CallsWait
  <2>3. \A u \in Thread : u # t => call[u] = Idle
    BY <1>1, <2>1 DEF MemoryInv, CallsWait
  <2>4. frame % 4 = 0
    BY DEF MemoryInv, MemoryTypeOK
  <2>5. frame <= memory_top
    BY FrameType, MemoryAssumption
  <2>6. QED
    BY <2>2, <2>3, <2>4, <2>5, FrameType
<1>3. /\ k.n \in Nat /\ k.n # 0 /\ k.n < Word /\ (k.op # "bare" => k.n > 4)
      /\ k.eax = frame - RoundUp(k.n)
      /\ RoundUp(k.n) <= frame
      /\ RoundUp(k.n) \in k.n .. k.n + 3
      /\ RoundUp(k.n) % 4 = 0
      /\ k.op # "bare" => RoundUp(k.n) >= 8
      /\ k.op \in {"bare", "allocate", "reallocate"}
  <2>1. k.n \in Nat /\ k.n + 3 < Word /\ k.n < Word
    BY <1>2, RequestAssumption, MemoryAssumption DEF Waiting
  <2>2. QED
    BY <1>2, <2>1, RoundUpRoom DEF Waiting
<1>4. /\ k.eax \in Nat /\ k.eax % 4 = 0 /\ k.eax + k.n <= frame
      /\ k.eax <= frame /\ k.eax + k.n <= memory_top /\ k.eax + k.n < Word
      /\ (k.op # "bare" => k.eax + 8 <= frame)
  <2>1. \A f, r, n \in Nat : r <= f /\ r \in n .. n + 3 /\ f % 4 = 0 /\ r % 4 = 0
          => f - r \in Nat /\ (f - r) % 4 = 0 /\ (f - r) + n <= f /\ f - r <= f
             /\ (r >= 8 => (f - r) + 8 <= f)
    OBVIOUS
  <2>2. RoundUp(k.n) \in Nat
    BY <1>3
  <2>3. /\ k.eax \in Nat /\ k.eax % 4 = 0 /\ k.eax + k.n <= frame /\ k.eax <= frame
        /\ (k.op # "bare" => k.eax + 8 <= frame)
    BY <1>2, <1>3, <2>1, <2>2
  <2>4. frame \in Nat /\ frame <= memory_top /\ memory_top \in Nat /\ memory_top < Word
        /\ Word \in Nat /\ k.n \in Nat /\ k.eax \in Nat /\ k.eax + k.n <= frame
    BY <1>2, <1>3, <2>3, MemoryAssumption
  <2>5. k.eax + k.n <= memory_top /\ k.eax + k.n < Word
    BY <2>4
  <2>6. QED
    BY <2>3, <2>5
<1>5. frame' = k.eax /\ call' = [call EXCEPT ![t] = Idle]
  BY <1>1 DEF Store
<1>6. CallsWait'
  BY <1>2, <1>5 DEF MemoryInv, CallsWait
<1>7. k.op = "reallocate" =>
        /\ \E m \in Nat : k.old \in Block(m) /\ k.old.at + m <= memory_top
        /\ Keeps(k.old)
  BY <1>2, <1>3 DEF Waiting, Lies
<1>8. Written(k) \in [0 .. Word - 1 -> Byte]
  <2> SUFFICES ASSUME NEW a \in 0 .. Word - 1, k.op = "reallocate",
                      a >= k.eax, a - k.eax < k.n
               PROVE  mem[Wrap(k.old.at + (a - k.eax))] \in Byte
    BY <1>2 DEF Written, Header, Byte
  <2>1. k.old.at \in Nat /\ k.old.at < Word
    BY <1>7, MemoryAssumption DEF Block
  <2>2. Wrap(k.old.at + (a - k.eax)) \in 0 .. Word - 1
    BY <1>3, <1>4, <2>1, MemoryAssumption DEF Wrap
  <2>3. QED
    BY <1>2, <2>2
<1>9. MemoryTypeOK'
  <2>1. frame' \in 0 .. memory_top /\ (frame % 4 = 0)'
    BY <1>2, <1>4, <1>5, MemoryAssumption
  <2>2. mem' \in [0 .. Word - 1 -> Byte]
    BY <1>1, <1>2, <1>8 DEF Store
  <2>3. QED
    BY <2>1, <2>2 DEF MemoryInv, MemoryTypeOK, Store
<1>10. \A b \in held : Lies(b)'
  <2>1. frame \in Int /\ frame' \in Int /\ frame' <= frame
    BY <1>2, <1>4, <1>5
  <2>2. QED
    BY <2>1, LiesLower DEF MemoryInv, BlocksKept
<1>11. CASE ~Fits(k.eax)
  <2>1. UNCHANGED <<mem, held>>
    BY <1>1, <1>11 DEF Store
  <2>2. BlocksKept'
    BY <1>10, <2>1 DEF MemoryInv, BlocksKept, Keeps, Apart, Span
  <2>3. QED
    BY <1>6, <1>9, <2>2 DEF MemoryInv
<1>12. CASE Fits(k.eax)
  <2>1. PICK new : new = [at |-> k.eax, holds |-> Expected(k)]
    OBVIOUS
  <2>2. mem' = Written(k) /\ held' = held \cup {new}
    BY <1>1, <1>12, <2>1 DEF Store
  <2>3. Expected(k) \in [Bytes(k.n) -> Byte]
    <3>1. k.op = "reallocate" =>
            \A i \in DOMAIN k.old.holds : k.old.holds[i] \in Byte
      BY <1>7 DEF Block
    <3>2. QED
      BY <1>3, <3>1 DEF Expected, Byte, Header
  <2>4. new \in Block(k.n) /\ new.at = k.eax /\ new.holds = Expected(k)
    BY <1>4, <2>1, <2>3 DEF Block
  <2>5. Lies(new)'
    <3>1. /\ k.n \in Nat \ {0} /\ new \in Block(k.n) /\ new.at % 4 = 0
          /\ frame' <= new.at /\ memory_bottom <= new.at /\ new.at + k.n <= memory_top
      BY <1>3, <1>4, <1>5, <1>12, <2>4, MemoryAssumption DEF Fits
    <3>2. QED
      BY <3>1 DEF Lies, Block, Bytes, Byte
  <2>6. \A a \in 0 .. Word - 1 : a >= frame => mem'[a] = mem[a]
    BY <1>2, <1>3, <1>4, <2>2 DEF Written
  <2>7. ASSUME NEW b \in held
        PROVE  Keeps(b)' /\ Apart(b, new)' /\ Apart(new, b)'
    <3>1. Lies(b) /\ Keeps(b)
      BY DEF MemoryInv, BlocksKept
    <3>2. /\ \A i \in DOMAIN b.holds : b.at + i \in Span(b)
          /\ Span(b) \subseteq memory_bottom .. memory_top - 1
          /\ \A a \in Span(b) : frame <= a
      BY <1>2, <3>1, LiesInside DEF Span
    <3>3. \A i \in DOMAIN b.holds : mem'[b.at + i] = mem[b.at + i]
      BY <1>2, <2>6, <3>2, MemoryAssumption
    <3>4. \A a \in Span(new) : a < frame /\ a \in Int
      BY <1>2, <1>3, <1>4, <2>4, BlockSpan, SMTT(30)
    <3>5. Span(b) \cap Span(new) = {}
      BY <1>2, <3>2, <3>4, MemoryAssumption
    <3>6. QED
      BY <3>1, <3>3, <3>5 DEF Keeps, Apart, Span
  <2>8. Keeps(new)'
    <3> SUFFICES ASSUME NEW i \in Bytes(k.n), Expected(k)[i] # Any
                 PROVE  Written(k)[k.eax + i] = Expected(k)[i]
      BY <2>2, <2>3, <2>4 DEF Keeps
    <3>1. /\ k.eax + i \in 0 .. Word - 1 /\ k.eax + i >= k.eax
          /\ (k.eax + i) - k.eax = i /\ i < k.n /\ i >= 0
      <4>1. i \in Int /\ i < k.n /\ i >= 0
        BY <1>3 DEF Bytes
      <4>2. QED
        BY <1>3, <1>4, <4>1, MemoryAssumption
    <3>2. CASE k.op # "reallocate"
      BY <1>3, <3>1, <3>2 DEF Written, Expected
    <3>3. CASE k.op = "reallocate"
      <4>1. i \in DOMAIN k.old.holds /\ Expected(k)[i] = k.old.holds[i]
        BY <3>3 DEF Expected
      <4>2. k.old.at + i \in 0 .. Word - 1 /\ mem[k.old.at + i] = k.old.holds[i]
        <5>1. PICK m \in Nat : k.old \in Block(m) /\ k.old.at + m <= memory_top
          BY <1>7, <3>3
        <5>2. k.old.at \in Nat /\ i < m
          BY <4>1, <5>1 DEF Block, Bytes
        <5>3. mem[k.old.at + i] = k.old.holds[i]
          BY <1>7, <3>3, <4>1 DEF Keeps
        <5>4. i \in Int /\ i >= 0
          BY DEF Bytes
        <5>5. k.old.at + i \in 0 .. Word - 1
          BY <5>1, <5>2, <5>4, MemoryAssumption
        <5>6. QED
          BY <5>3, <5>5
      <4>3. Wrap(k.old.at + i) = k.old.at + i
        BY <4>2, MemoryAssumption DEF Wrap
      <4>4. QED
        BY <3>1, <3>3, <4>1, <4>2, <4>3 DEF Written
    <3>4. QED
      BY <3>2, <3>3
  <2>9. BlocksKept'
    <3>1. \A b \in held' : Lies(b)' /\ Keeps(b)'
      BY <1>10, <2>2, <2>5, <2>7, <2>8
    <3>2. \A b, c \in held' : b # c => Apart(b, c)'
      BY <2>2, <2>7 DEF MemoryInv, BlocksKept, Apart, Span
    <3>3. QED
      BY <3>1, <3>2 DEF BlocksKept
  <2>10. QED
    BY <1>6, <1>9, <2>9 DEF MemoryInv
<1>13. QED
  BY <1>11, <1>12

(* deallocate only takes a block out of its owner's hands. *)
LEMMA DeallocateMemoryInv ==
  ASSUME MemoryInv, NEW t \in Thread, NEW b \in held, deallocate(t, b)
  PROVE  MemoryInv'
<1>1. UNCHANGED <<machine, frame, mem, call>> /\ held' \subseteq held
  BY DEF deallocate
<1>2. MemoryTypeOK'
  BY <1>1 DEF MemoryInv, MemoryTypeOK, deallocate
<1>3. \A c : (Lies(c) => Lies(c)') /\ (Keeps(c) => Keeps(c)')
  BY <1>1 DEF Lies, Keeps
<1>4. CallsWait'
  <2>1. \A k : Waiting(k) => Waiting(k)'
    BY <1>1, <1>3 DEF Waiting, Apart, Span
  <2>2. QED
    BY <1>1, <2>1 DEF MemoryInv, CallsWait
<1>5. BlocksKept'
  BY <1>1, <1>3 DEF MemoryInv, BlocksKept, Apart, Span
<1>6. QED
  BY <1>2, <1>4, <1>5 DEF MemoryInv

(* An owner that fills its block changes bytes of no other one. *)
LEMMA FillMemoryInv ==
  ASSUME MemoryInv, NEW b \in held, NEW first \in {0, 8}, NEW v \in Value,
         Fill(b, first, v)
  PROVE  MemoryInv'
<1>1. PICK c : c = [b EXCEPT !.holds = [i \in DOMAIN b.holds |->
                                          IF i >= first THEN v ELSE b.holds[i]]]
  OBVIOUS
<1>2. /\ UNCHANGED <<machine, frame, call, ret>>
      /\ held' = (held \ {b}) \cup {c}
      /\ mem' = [a \in 0 .. Word - 1 |->
                   IF a - b.at \in DOMAIN b.holds /\ a >= b.at + first THEN v ELSE mem[a]]
  BY <1>1 DEF Fill
<1>3. mem \in [0 .. Word - 1 -> Byte] /\ frame \in 0 .. memory_top /\ frame \in Nat
  BY FrameType
<1>4. MemoryTypeOK'
  <2>1. mem' \in [0 .. Word - 1 -> Byte]
    BY <1>2, <1>3 DEF Byte
  <2>2. QED
    BY <1>2, <2>1 DEF MemoryInv, MemoryTypeOK
<1>5. Lies(b) /\ Keeps(b)
  BY DEF MemoryInv, BlocksKept
<1>6. PICK n \in Nat \ {0} : /\ b \in Block(n) /\ b.at % 4 = 0 /\ frame <= b.at
                            /\ memory_bottom <= b.at /\ b.at + n <= memory_top
  BY <1>5 DEF Lies
<1>7. /\ b.at \in Nat /\ DOMAIN b.holds = Bytes(n)
      /\ c \in Block(n) /\ c.at = b.at
      /\ \A i \in Bytes(n) : c.holds[i] = IF i >= first THEN v ELSE b.holds[i]
  BY <1>1, <1>6 DEF Block, Byte
<1>8. Span(c) = Span(b)
  BY <1>6, <1>7, BlockSpan
<1>9. Lies(c)'
  BY <1>2, <1>6, <1>7 DEF Lies, Block, Bytes, Byte
<1>10. Keeps(c)'
  <2> SUFFICES ASSUME NEW i \in Bytes(n), c.holds[i] # Any
               PROVE  mem'[b.at + i] = c.holds[i]
    BY <1>6, <1>7, BlockSpan DEF Keeps
  <2>1. i \in Int /\ i >= 0 /\ i < n
    BY DEF Bytes
  <2>2. /\ b.at + i \in 0 .. Word - 1 /\ (b.at + i) - b.at = i
        /\ (b.at + i >= b.at + first) <=> (i >= first)
    <3>1. b.at + n <= memory_top /\ memory_top < Word /\ memory_top \in Nat /\ Word \in Nat
      BY <1>6, MemoryAssumption
    <3>2. QED
      BY <1>7, <2>1, <3>1
  <2>3. mem'[b.at + i] = IF i >= first THEN v ELSE mem[b.at + i]
    BY <1>2, <1>7, <2>2
  <2>4. QED
    BY <1>5, <1>7, <2>3 DEF Keeps
<1>11. ASSUME NEW d, Lies(d), Keeps(d), Apart(d, b)
       PROVE  Lies(d)' /\ Keeps(d)' /\ Apart(d, c)' /\ Apart(c, d)'
  <2>1. Lies(d)'
    BY <1>2, <1>11 DEF Lies
  <2>2. Apart(d, c)' /\ Apart(c, d)'
    BY <1>8, <1>11 DEF Apart, Span
  <2>3. \A i \in DOMAIN d.holds : mem'[d.at + i] = mem[d.at + i]
    <3> SUFFICES ASSUME NEW i \in DOMAIN d.holds
                 PROVE  mem'[d.at + i] = mem[d.at + i]
      OBVIOUS
    <3>1. d.at + i \in Span(d)
      BY DEF Span
    <3>2. d.at + i \in memory_bottom .. memory_top - 1
      BY <1>3, <1>11, <3>1, LiesInside
    <3>3. d.at + i \in 0 .. Word - 1 /\ d.at + i \in Int
      BY <3>2, MemoryAssumption
    <3>4. (d.at + i) - b.at \notin DOMAIN b.holds
      <4>1. d.at + i \notin Span(b)
        BY <1>11, <3>1 DEF Apart
      <4>2. b.at + ((d.at + i) - b.at) = d.at + i
        BY <1>7, <3>3
      <4>3. QED
        BY <4>1, <4>2 DEF Span
    <3>5. QED
      BY <1>2, <3>3, <3>4
  <2>4. Keeps(d)'
    BY <1>11, <2>3 DEF Keeps
  <2>5. QED
    BY <2>1, <2>2, <2>4
<1>12. BlocksKept'
  <2>1. \A d \in held \ {b} : Lies(d) /\ Keeps(d) /\ Apart(d, b)
    BY DEF MemoryInv, BlocksKept
  <2>2. \A d \in held' : Lies(d)' /\ Keeps(d)'
    BY <1>2, <1>9, <1>10, <1>11, <2>1
  <2>3. \A d, e \in held \ {b} : d # e => Apart(d, e)'
    BY DEF MemoryInv, BlocksKept, Apart, Span
  <2>4. \A d, e \in held' : d # e => Apart(d, e)'
    BY <1>2, <1>11, <2>1, <2>3
  <2>5. QED
    BY <2>2, <2>4 DEF BlocksKept
<1>13. CallsWait'
  <2>1. ASSUME NEW k, Waiting(k) PROVE Waiting(k)'
    <3>1. CASE k.op # "reallocate"
      BY <1>2, <2>1, <3>1 DEF Waiting
    <3>2. CASE k.op = "reallocate"
      <4>1. Lies(k.old) /\ Keeps(k.old) /\ \A d \in held : Apart(d, k.old)
        BY <2>1, <3>2 DEF Waiting
      <4>2. Apart(k.old, b)
        BY <4>1 DEF Apart
      <4>3. Lies(k.old)' /\ Keeps(k.old)' /\ Apart(c, k.old)'
        BY <1>11, <4>1, <4>2
      <4>4. \A d \in held' : Apart(d, k.old)'
        BY <1>2, <4>1, <4>3 DEF Apart, Span
      <4>5. QED
        BY <1>2, <2>1, <3>2, <4>3, <4>4 DEF Waiting
    <3>3. QED
      BY <3>1, <3>2
  <2>2. QED
    BY <1>2, <2>1 DEF MemoryInv, CallsWait
<1>14. QED
  BY <1>4, <1>12, <1>13 DEF MemoryInv

(* Every step keeps the invariant. *)
LEMMA StepMemoryInv ==
  ASSUME "wraps" \notin Allow, "overlap" \notin Allow, MemoryInv, [Next]_vars
  PROVE  MemoryInv'
<1>1. ASSUME NEW t \in Thread, NEW n \in Request, allocate_bare(t, n)
      PROVE  MemoryInv'
  BY <1>1, EnterMemoryInv DEF allocate_bare
<1>2. ASSUME NEW t \in Thread, NEW n \in Request, allocate(t, n)
      PROVE  MemoryInv'
  BY <1>2, EnterMemoryInv DEF allocate
<1>3. ASSUME NEW t \in Thread, NEW n \in Request, NEW b \in held, reallocate(t, n, b)
      PROVE  MemoryInv'
  BY <1>3, EnterMemoryInv DEF reallocate
<1>4. CASE UNCHANGED vars
  <2>1. \A c : (Lies(c) => Lies(c)') /\ (Keeps(c) => Keeps(c)')
    BY <1>4 DEF vars, Lies, Keeps
  <2>2. \A k : Waiting(k) => Waiting(k)'
    BY <1>4, <2>1 DEF vars, Waiting, Apart, Span
  <2>3. CallsWait'
    BY <1>4, <2>2 DEF vars, MemoryInv, CallsWait
  <2>4. BlocksKept'
    BY <1>4, <2>1 DEF vars, MemoryInv, BlocksKept, Apart, Span
  <2>5. MemoryTypeOK'
    BY <1>4 DEF vars, MemoryInv, MemoryTypeOK
  <2>6. QED
    BY <2>3, <2>4, <2>5 DEF MemoryInv
<1>5. QED
  BY <1>1, <1>2, <1>3, <1>4, StoreMemoryInv, DeallocateMemoryInv, FillMemoryInv DEF Next

(* What the runs check follows from the inductive invariant. *)
LEMMA MemoryInvImplies ==
  ASSUME MemoryInv
  PROVE  TypeOK /\ BlocksInside /\ BlocksDisjoint /\ ContentsKept
<1>1. frame \in 0 .. memory_top /\ frame \in Nat
  BY FrameType
<1>2. ASSUME NEW t \in Thread, call[t] # Idle PROVE call[t].eax \in 0 .. memory_top
  <2>1. PICK k : k = call[t]
    OBVIOUS
  <2>2. Waiting(k)
    BY <1>2, <2>1 DEF MemoryInv, CallsWait
  <2>3. k.n \in Nat /\ k.n + 3 < Word /\ RoundUp(k.n) <= frame /\ k.eax = frame - RoundUp(k.n)
    BY <2>2, RequestAssumption, MemoryAssumption DEF Waiting
  <2>4. RoundUp(k.n) \in Nat
    BY <2>3, RoundUpRoom
  <2>5. QED
    BY <1>1, <2>1, <2>3, <2>4, MemoryAssumption
<1>3. TypeOK
  BY <1>2 DEF MemoryInv, MemoryTypeOK, TypeOK
<1>4. BlocksInside
  BY <1>1, LiesInside DEF MemoryInv, BlocksKept, BlocksInside
<1>5. BlocksDisjoint
  BY DEF MemoryInv, BlocksKept, BlocksDisjoint, Apart
<1>6. ContentsKept
  BY DEF MemoryInv, BlocksKept, ContentsKept, Keeps
<1>7. QED
  BY <1>3, <1>4, <1>5, <1>6

-----------------------------------------------------------------------------
(* So it holds in every reachable state. *)
LEMMA AlwaysMemoryInv ==
  ASSUME "wraps" \notin Allow, "overlap" \notin Allow
  PROVE  Spec => []MemoryInv
<1>1. MemoryInv /\ [Next]_vars => MemoryInv'
  BY StepMemoryInv
<1>2. QED
  BY <1>1, InitMemoryInv, PTL DEF Spec

(* The frame, the calls in progress and every byte of memory stay in their *)
(* ranges: moving memory_frame never takes it below address 0.             *)
THEOREM FrameStaysInRange ==
  ASSUME "wraps" \notin Allow, "overlap" \notin Allow
  PROVE  Spec => []TypeOK
<1>1. MemoryInv => TypeOK
  BY MemoryInvImplies
<1>2. QED
  BY <1>1, AlwaysMemoryInv, PTL

(* Every block handed out lies between memory_bottom and memory_top, also  *)
(* after refused requests have moved memory_frame below the bottom.        *)
THEOREM HandedOutInside ==
  ASSUME "wraps" \notin Allow, "overlap" \notin Allow
  PROVE  Spec => []BlocksInside
<1>1. MemoryInv => BlocksInside
  BY MemoryInvImplies
<1>2. QED
  BY <1>1, AlwaysMemoryInv, PTL

(* No byte is handed out twice. *)
THEOREM HandedOutDisjoint ==
  ASSUME "wraps" \notin Allow, "overlap" \notin Allow
  PROVE  Spec => []BlocksDisjoint
<1>1. MemoryInv => BlocksDisjoint
  BY MemoryInvImplies
<1>2. QED
  BY <1>1, AlwaysMemoryInv, PTL

(* What an owner wrote, the header of a reference counted block and the    *)
(* bytes carried over by reallocate stay where they are.                   *)
THEOREM OwnersKeepContents ==
  ASSUME "wraps" \notin Allow, "overlap" \notin Allow
  PROVE  Spec => []ContentsKept
<1>1. MemoryInv => ContentsKept
  BY MemoryInvImplies
<1>2. QED
  BY <1>1, AlwaysMemoryInv, PTL
=============================================================================
