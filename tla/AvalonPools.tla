---------------------------- MODULE AvalonPools ----------------------------
(***************************************************************************)
(* Avalon's thread pools (sys/scheduler/x86/avalon.asm), as pure           *)
(* operators.  p.ring lists the pools from thread_pools_ring on (the ring  *)
(* queue library implements a sequence, see RingSpec), p.free[b] is pool   *)
(* b's bitmap, a set of slots.  A thread ID is a pool and a slot.          *)
(***************************************************************************)
EXTENDS Naturals, Sequences, FiniteSetsExt

CONSTANTS Pool, Slots       \* Slots is 32, the width of a bitmap

ASSUME PoolsAssumption == Slots \in Nat \ {0}

Slot   == 0 .. Slots - 1
Thread == Pool \X Slot

\* thread.add_pool: insert_after the head, and all threads are free.
add_pool(p, b) == [ring |-> <<b>> \o p.ring, free |-> [p.free EXCEPT ![b] = Slot]]

\* "they move on to the next thread pool until all pools have been searched"
HasFree(p)    == {i \in DOMAIN p.ring : p.free[p.ring[i]] # {}}
CanAcquire(p) == HasFree(p) # {}

acquired(p) == LET b == p.ring[Min(HasFree(p))] IN <<b, Min(p.free[b])>>

acquire(p) == LET t == acquired(p) IN [p EXCEPT !.free[t[1]] = @ \ {t[2]}]

(* thread.release shifts the distance from the pool to the END of the      *)
(* thread's stack, where thread.acquire had added one to the slot.         *)
release_id(t) == t[2] + 1

\* Fault: a bit that is set already is set once more.
CanReleaseTwice(p, t) == release_id(t) <= Slots - 1

CanRelease(p, t) ==
    /\ release_id(t) <= Slots - 1
    /\ release_id(t) \notin p.free[t[1]]

release(p, t) == [p EXCEPT !.free[t[1]] = @ \cup {release_id(t)}]
=============================================================================
