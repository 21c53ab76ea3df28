------------------------------- MODULE NoBlame -------------------------------
(***************************************************************************)
(* NoBlame, the memory manager (sys/memory_manager/x86/noblame.asm): it    *)
(* hands out memory from memory_top down to memory_bottom by moving        *)
(* memory_frame, and takes none back.  Threads call it and write what they *)
(* got; they are preempted between the instruction that reads memory_frame *)
(* and the one that stores it.                                             *)
(*                                                                         *)
(* machine  "running", or "wild" after a return to garbage.                *)
(* frame    memory_frame.                                                  *)
(* mem      the bytes of the address space.                                *)
(* call     each thread's call in progress; eax is the new frame.          *)
(* ret      how the last call returned.                                    *)
(* held     the blocks in the hands of the threads (history): address,     *)
(*          bytes asked for, and what their owner may expect in each.      *)
(*                                                                         *)
(* Addresses and sizes are numbers below Word.  Allow names uses that a    *)
(* run lets the threads make although they are known to go wrong.          *)
(***************************************************************************)
EXTENDS Integers

CONSTANTS
  Word,             \* 2^32
  memory_bottom, memory_top,
  Request,          \* the sizes asked for
  Value,            \* what the owners of blocks write
  Thread,
  Any,              \* the expectation of a byte not written yet
  Allow

Uses == {"wraps", "overlap", "refused reallocation"}

ASSUME MemoryAssumption ==
  /\ Word \in Nat /\ Word % 4 = 0
  /\ memory_bottom \in Nat /\ memory_top \in Nat
  /\ 0 < memory_bottom /\ memory_bottom <= memory_top /\ memory_top < Word
  /\ memory_top % 4 = 0
ASSUME RequestAssumption == Request \subseteq 0 .. Word - 1
ASSUME AllowAssumption == Allow \subseteq Uses

VARIABLES machine, frame, mem, call, ret, held

vars == <<machine, frame, mem, call, ret, held>>

Idle == [pc |-> "idle"]

Byte == Value \cup {"ref", "destroy", Any}

Init ==
  /\ machine = "running"
  /\ frame = memory_top
  /\ mem = [a \in 0 .. Word - 1 |-> Any]
  /\ call = [t \in Thread |-> Idle]
  /\ ret = "none"
  /\ held = {}
-----------------------------------------------------------------------------
(* Fault: the size is cut down to a multiple of 4. *)
RoundDown(n) == n - (n % 4)

(* What a register holds after an addition. *)
Wrap(a) == IF a < Word THEN a ELSE a - Word

(* add eax, 3; and eax, -4 *)
RoundUp(n) == Wrap(n + 3) - (Wrap(n + 3) % 4)

(* Fault: the size is not negated. *)
PlusFrame(f, s) == f + s

(* neg eax; add eax, [memory_frame] *)
MinusFrame(f, s) == IF s <= f THEN f - s ELSE f - s + Word

(* Fault: jb in place of jbe. *)
RefusedBelow4(op, n) == IF op = "bare" THEN n = 0 ELSE n < 4

(* Sizes that are refused before the frame is touched. *)
Refused(op, n) == IF op = "bare" THEN n = 0 ELSE n <= 4

(* The calls: a block of size n, with or without the two dwords of a       *)
(* reference counted object, or in place of block b.                       *)
Enter(t, op, n, b) ==
  /\ machine = "running"
  /\ call[t] = Idle
  /\ "overlap" \in Allow \/ \A u \in Thread : call[u] = Idle
  /\ "refused reallocation" \in Allow \/ op # "reallocate" \/ ~Refused(op, n)
  /\ "wraps" \in Allow \/ (n + 3 < Word /\ RoundUp(n) <= frame)
  /\ IF Refused(op, n)
     THEN /\ ret' = "other"
          /\ machine' = IF op = "reallocate" THEN "wild" ELSE "running"
          /\ UNCHANGED <<call, held>>
     ELSE /\ call' = [call EXCEPT ![t] = [pc |-> "store", op |-> op, n |-> n, old |-> b,
                                          eax |-> MinusFrame(frame, RoundUp(n))]]
          /\ held' = held \ {b}
          /\ UNCHANGED <<machine, ret>>
  /\ UNCHANGED <<frame, mem>>

NoBlock == [at |-> 0, holds |-> <<>>]

allocate_bare(t, n) == Enter(t, "bare", n, NoBlock)
allocate(t, n)      == Enter(t, "allocate", n, NoBlock)
reallocate(t, n, b) == b \in held /\ Enter(t, "reallocate", n, b)

(* Fault: the frame before the request is compared. *)
FitsBefore(a) == frame >= memory_bottom

(* cmp eax, memory_bottom; jb .nomem *)
Fits(a) == a >= memory_bottom

(* The first two dwords: the count 1 and mem.deallocate. *)
Header(i) == IF i < 4 THEN "ref" ELSE "destroy"

Bytes(n) == 0 .. n - 1

(* What the call leaves in memory: the header, and for reallocate, as many *)
(* bytes from the old block as the new one has.                            *)
Written(k) ==
  [a \in 0 .. Word - 1 |->
     LET i == a - k.eax IN
     IF k.op = "reallocate" /\ a >= k.eax /\ i < k.n THEN mem[Wrap(k.old.at + i)]
     ELSE IF k.op # "bare" /\ a >= k.eax /\ i < 8 THEN Header(i)
     ELSE mem[a]]

Expected(k) ==
  [i \in Bytes(k.n) |->
     CASE k.op = "bare"     -> Any
       [] k.op = "allocate" -> IF i < 8 THEN Header(i) ELSE Any
       [] OTHER             -> IF i \in DOMAIN k.old.holds THEN k.old.holds[i] ELSE Any]

(* The store, the comparison and the return.  allocate lists the return    *)
(* points of allocate_bare in the wrong order, and reports lack of memory  *)
(* as "other"; reallocate then returns with three words on the stack.      *)
Store(t) ==
  LET k == call[t] IN
  /\ machine = "running"
  /\ k # Idle
  /\ frame' = k.eax
  /\ call' = [call EXCEPT ![t] = Idle]
  /\ IF Fits(k.eax)
     THEN /\ mem' = Written(k)
          /\ held' = held \cup {[at |-> k.eax, holds |-> Expected(k)]}
          /\ ret' = IF k.op = "reallocate" THEN "moved" ELSE "ok"
          /\ UNCHANGED machine
     ELSE /\ ret' = IF k.op = "bare" THEN "no memory" ELSE "other"
          /\ machine' = IF k.op = "reallocate" THEN "wild" ELSE "running"
          /\ UNCHANGED <<mem, held>>

(* deallocate compares the address with the two ends, and keeps the block. *)
deallocate(t, b) ==
  /\ machine = "running"
  /\ call[t] = Idle
  /\ b \in held
  /\ IF b.at < memory_top /\ b.at >= memory_bottom
     THEN held' = held \ {b} /\ ret' = "ok"
     ELSE ret' = "other" /\ UNCHANGED held
  /\ UNCHANGED <<machine, frame, mem, call>>

(* The owner fills the bytes from the i-th on. *)
Fill(b, first, v) ==
  /\ machine = "running"
  /\ b \in held
  /\ mem' = [a \in 0 .. Word - 1 |->
               IF a - b.at \in DOMAIN b.holds /\ a >= b.at + first THEN v ELSE mem[a]]
  /\ held' = (held \ {b}) \cup
             {[b EXCEPT !.holds = [i \in DOMAIN b.holds |-> IF i >= first THEN v ELSE b.holds[i]]]}
  /\ UNCHANGED <<machine, frame, call, ret>>

Next ==
  \/ \E t \in Thread, n \in Request :
       allocate_bare(t, n) \/ allocate(t, n) \/ \E b \in held : reallocate(t, n, b)
  \/ \E t \in Thread : Store(t)
  \/ \E t \in Thread, b \in held : deallocate(t, b)
  \/ \E b \in held, first \in {0, 8}, v \in Value : Fill(b, first, v)

Spec == Init /\ [][Next]_vars
-----------------------------------------------------------------------------
Span(b) == {b.at + i : i \in DOMAIN b.holds}

TypeOK ==
  /\ machine \in {"running", "wild"}
  /\ frame \in 0 .. memory_top
  /\ mem \in [0 .. Word - 1 -> Byte]
  /\ \A t \in Thread : call[t] = Idle \/ call[t].eax \in 0 .. memory_top
  /\ ret \in {"none", "ok", "moved", "no memory", "other"}

(* Every block handed out lies between memory_bottom and memory_top and    *)
(* starts at a multiple of 4, whatever requests were refused before.       *)
BlocksInside ==
  \A b \in held : b.at % 4 = 0 /\ Span(b) \subseteq memory_bottom .. memory_top - 1

(* No byte belongs to two of the blocks. *)
BlocksDisjoint == \A b, c \in held : b # c => Span(b) \cap Span(c) = {}

(* What an owner wrote to its block, the header mem.allocate put there and *)
(* the bytes reallocate carried over stay there, whatever is allocated,    *)
(* moved or written elsewhere.                                             *)
ContentsKept ==
  \A b \in held : \A i \in DOMAIN b.holds : b.holds[i] # Any => mem[b.at + i] = b.holds[i]
=============================================================================
