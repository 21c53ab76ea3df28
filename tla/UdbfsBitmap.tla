---------------------------- MODULE UdbfsBitmap ----------------------------
(***************************************************************************)
(* The allocation bitmaps of udbfslib (toolchain/udbfslib/allocate_bit.c,  *)
(* free_inode.c) as pure operators.  A bitmap is the record                *)
(*    [bits, free, count]                                                  *)
(* where bits is the number of bits its bytes hold (a multiple of 8, never *)
(* smaller than the number of objects), free the set of bits that are 1    *)
(* (1 means free), and count the separately kept free count, which is      *)
(* saved in the superblock and not recomputed from the bits.               *)
(***************************************************************************)
EXTENDS Integers, FiniteSets, FiniteSetsExt

\* The bits of a bitmap for n objects: (n + 7) >> 3 bytes of 8 bits.
BitmapBits(n) == 8 * ((n + 7) \div 8)

\* Fault: a free count of zero does not stop the allocation.
allocate_bitUncounted(m) ==
    IF m.free = {}
    THEN [id |-> 0, map |-> m]
    ELSE [id |-> Min(m.free), map |-> [m EXCEPT !.free = @ \ {Min(@)}, !.count = @ - 1]]

\* Fault: the free count is not taken down.
allocate_bitKeepsCount(m) ==
    IF m.count > m.bits \/ m.count = 0 \/ m.free = {}
    THEN [id |-> 0, map |-> m]
    ELSE [id |-> Min(m.free), map |-> [m EXCEPT !.free = @ \ {Min(@)}]]

\* The lowest free bit is taken; id 0 means failure (the count is too large
\* or zero, or no bit is set although the count says so).
allocate_bit(m) ==
    IF m.count > m.bits \/ m.count = 0 \/ m.free = {}
    THEN [id |-> 0, map |-> m]
    ELSE LET id == Min(m.free)
         IN  [id |-> id, map |-> [m EXCEPT !.free = @ \ {id}, !.count = @ - 1]]

\* The bit that is freed for an object: bit_id & 0x03 within its byte.
FreedBit(id) == 8 * (id \div 8) + (id % 4)

\* Fault: the bit of the following object is freed.
deallocate_bitNext(m, id) ==
    [ret |-> 0, map |-> [m EXCEPT !.free = @ \cup {FreedBit(id) + 1}]]

\* Sets the bit free; the free count is left alone.  -1: the count is at its
\* limit, or the bit is free already.
deallocate_bit(m, id) ==
    IF m.count + 1 > m.bits \/ FreedBit(id) \in m.free
    THEN [ret |-> -1, map |-> m]
    ELSE [ret |-> 0, map |-> [m EXCEPT !.free = @ \cup {FreedBit(id)}]]
=============================================================================
