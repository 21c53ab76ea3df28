------------------------------- MODULE Mkudbfs -------------------------------
(***************************************************************************)
(* mkudbfs (toolchain/mkudbfs/mkudbfs.c): finds the size of a device, lays *)
(* a file system out on it, makes the root table, and writes superblock    *)
(* and bitmaps; and what udbfslib makes of the device afterwards, with the *)
(* offsets of mount.c and the block tree of UdbfsTree.                     *)
(*                                                                         *)
(* dev    the device or file: kind, bytes, and the size asked for, 0 if    *)
(*        none was.                                                        *)
(* pc     the step that comes next; "done" at the end, "halt" after        *)
(*        exit(-1), "wild" after allocate_bit ran off its bitmap, "killed".*)
(* size, delta  fs_size and the stride of the search for it.               *)
(* sb     the superblock in memory, without the two free counts.           *)
(* bb, ib the bitmaps in memory: bits next to limit - 1 are 1 (free), as   *)
(*        the lowest is taken each time; count is the superblock's number. *)
(* todo, cols   the columns still to be added and the list of columns.     *)
(* disk   what was written: extents of the device and their content.  A    *)
(*        write takes the extents it touches away.                         *)
(*                                                                         *)
(* Sizes and positions are bytes, except in a column, where they are bits. *)
(* Every device has less than 2^31 bytes.  Allow names uses that a run     *)
(* makes although they are known to go wrong.                              *)
(***************************************************************************)
EXTENDS Integers, Sequences, SequencesExt, FiniteSetsExt, TLC

CONSTANTS Devices,   \* records [kind, bytes, asked]
          Tables,    \* sequences of columns; mkfs makes RootTable
          Delta,     \* the first stride, 1 << 30
          Junk,      \* what malloc leaves in the superblock
          NoBlock,
          Allow

Uses == {"tiny_device", "odd_block", "killed_late", "junk", "other_blocks"}

ASSUME DeviceAssumption ==
    \A d \in Devices : /\ d.kind \in {"block", "file"}
                       /\ d.bytes \in Nat /\ d.bytes \div 1024 < 2 ^ 21
                       /\ d.asked \in 0 .. d.bytes
ASSUME FormatAssumption == Delta \in Nat \ {0} /\ 0 \in Junk /\ Allow \subseteq Uses

VARIABLES dev, pc, size, delta, sb, bb, ib, todo, cols, disk

vars == <<dev, pc, size, delta, sb, bb, ib, todo, cols, disk>>

KB == 1024
INODE == 64
SUPER == 120
TABLE == 40
COLUMN == 160

BLOCK_SIZE == 2 ^ (7 + sb.block_size)
Entries    == 2 ^ (4 + sb.block_size)
Blocks(n)  == (n + BLOCK_SIZE - 1) \div BLOCK_SIZE

NoMap     == [next |-> 0, limit |-> 0, count |-> 0, bytes |-> 0, run |-> "ok"]
Free(map) == map.next .. map.limit - 1

\* The size asked for, or the whole device.
fs_bytes(d) == IF d.asked = 0 THEN d.bytes ELSE d.asked

\* With no size asked for, a block device is searched and a file is measured.
Init ==
    /\ dev \in {d \in Devices : fs_bytes(d) >= 64 * 256 \/ "tiny_device" \in Allow}
    /\ IF dev.asked = 0 /\ dev.kind = "block"
       THEN pc = "probe" /\ size = 0
       ELSE pc = "layout" /\ size = fs_bytes(dev)
    /\ delta = Delta
    /\ sb = [block_size |-> 1]
    /\ bb = NoMap
    /\ ib = NoMap
    /\ todo = <<>>
    /\ cols = <<>>
    /\ disk = {}
-----------------------------------------------------------------------------
\* Fault: the stride is rounded up.
ProbeRoundsUp ==
    /\ pc = "probe"
    /\ delta > 0
    /\ IF size + delta <= dev.bytes
       THEN size' = size + delta /\ UNCHANGED delta
       ELSE delta' = (delta + 1) \div 2 /\ UNCHANGED size
    /\ UNCHANGED <<dev, pc, sb, bb, ib, todo, cols, disk>>

\* lseek on a block device refuses offsets past its end.
Probe ==
    /\ pc = "probe"
    /\ delta > 0
    /\ IF size + delta <= dev.bytes
       THEN size' = size + delta /\ UNCHANGED delta
       ELSE delta' = delta \div 2 /\ UNCHANGED size
    /\ UNCHANGED <<dev, pc, sb, bb, ib, todo, cols, disk>>

ProbeEnd ==
    /\ pc = "probe"
    /\ delta = 0
    /\ pc' = "layout"
    /\ UNCHANGED <<dev, size, delta, sb, bb, ib, todo, cols, disk>>

\* The bytes are full of ones; the last one gets a one for each of the other
\* full bytes, shifted through 8 bits.
generate_bitmap(n) ==
    LET bytes == (n + 7) \div 8
    IN  [NoMap EXCEPT !.limit = 8 * (bytes - 1) + Min({8, n \div 8}),
                      !.count = n, !.bytes = bytes]

\* The largest of the five sizes that makes 2000 blocks.
block_size(n) == Max({s \in 1 .. 5 : n \div 2 ^ (7 + s) >= 2000} \cup {1})

\* The blocks below 2 KB, which hold boot sector and superblock.
inode_first_block(s) == IF s < 4 THEN 2 ^ (4 - s) ELSE 1

inode_count(n) == Max({64, n \div (128 * KB)})

\* boot_loader_inode is not set.
Layout ==
    /\ pc = "layout"
    /\ \E j \in IF "junk" \in Allow THEN Junk ELSE {0} :
         LET s == block_size(size)
         IN  /\ sb' = [block_size |-> s, block_count |-> size \div 2 ^ (7 + s),
                       inode_first_block |-> inode_first_block(s),
                       inode_count |-> inode_count(size), boot_loader_inode |-> j,
                       bitmaps_block |-> 0, bad_block_inode |-> 0, journal_inode |-> 0]
             /\ bb' = generate_bitmap(sb'.block_count)
             /\ ib' = generate_bitmap(sb'.inode_count)
    /\ pc' = "reserve"
    /\ UNCHANGED <<dev, size, delta, todo, cols, disk>>
-----------------------------------------------------------------------------
\* After n calls of allocate_bit.  A count of zero ends the program; a count
\* that promises more bits than there are makes it search the memory behind
\* the bitmap.
Allocated(m, n) ==
    LET bits == m.limit - m.next
    IN  IF n <= m.count /\ n <= bits THEN [m EXCEPT !.next = @ + n, !.count = @ - n]
        ELSE IF m.count <= bits THEN [m EXCEPT !.run = "halt"]
        ELSE [m EXCEPT !.run = "wild"]

\* The bit returned and the bitmap left by one call.
allocate_bit(m) == [id |-> m.next, map |-> Allocated(m, 1)]

\* The next step, unless an allocation ended the run.
Then(map, next) == IF map.run = "ok" THEN next ELSE map.run

\* Fault: an inode is taken to have 32 bytes.
inode_table_blocksHalf == Blocks(sb.inode_count * 32)

inode_table_blocks == Blocks(sb.inode_count * INODE)
bitmaps_blocks     == Blocks(ib.bytes + bb.bytes)

Reserve ==
    LET below == sb.inode_first_block + inode_table_blocks
    IN  /\ pc = "reserve"
        /\ bb' = Allocated(bb, below + bitmaps_blocks)
        /\ sb' = [sb EXCEPT !.bitmaps_block = Allocated(bb, below).next]
        /\ pc' = Then(bb', "table")
        /\ UNCHANGED <<dev, size, delta, ib, todo, cols, disk>>
-----------------------------------------------------------------------------
Ints(n)   == [type |-> "int32", size |-> 1, count |-> n]
RootTable == <<Ints(1), Ints(1), [type |-> "varchar", size |-> 255, count |-> 1],
               Ints(1), Ints(4)>>

natural_boundary ==
    [int1 |-> 1, int2 |-> 2, int4 |-> 4, int8 |-> 8, int16 |-> 16, int32 |-> 32,
     int64 |-> 64, int128 |-> 128, char |-> 32, varchar |-> 32, float |-> 64, data |-> 32,
     shareddata |-> 32, datetime |-> 64, enumeration |-> 32]

Column == [type : DOMAIN natural_boundary, size : Nat, count : Nat]

ASSUME TablesAssumption == Tables \subseteq Seq(Column)

\* A column of more than a byte takes whole bytes.
encoded_size(c) ==
    LET one  == IF c.type = "shareddata" THEN 96 ELSE natural_boundary[c.type]
        each == IF c.type = "enumeration" THEN one ELSE one * c.size
        bits == (IF c.type = "varchar" THEN each + 32 ELSE each) * c.count
    IN  IF bits > 8 THEN 8 * ((bits + 7) \div 8) ELSE bits

table_bytes(cs) == TABLE + COLUMN * Len(cs)

\* The single block that is left for the first entry of an index level is not
\* written: the tests are for more than 1.
Kept(w, n) == IF n \in {5, 5 + w, 5 + w + w * w} THEN n - 1 ELSE n

\* create_table, called once by mkfs, and create_file in it.
create_table ==
    /\ pc = "table"
    /\ \E t \in Tables : /\ todo' = t
                        /\ LET n == Blocks(table_bytes(t))
                           IN  Kept(Entries, n) = n \/ "odd_block" \in Allow
    /\ cols' = <<>>
    /\ ib' = allocate_bit(ib).map
    /\ pc' = Then(ib', "column")
    /\ UNCHANGED <<dev, size, delta, sb, bb, disk>>

\* New columns go to the head of the list.
add_column ==
    /\ pc = "column"
    /\ todo # <<>>
    /\ cols' = <<Head(todo)>> \o cols
    /\ todo' = Tail(todo)
    /\ UNCHANGED <<dev, pc, size, delta, sb, bb, ib, disk>>

\* Each turn of the sort takes the first of the columns with the largest
\* boundary off the list.
reorder_columns_by_size(cs) ==
    LET n == Len(cs)
        Sooner(i, j) == LET a == natural_boundary[cs[i].type]
                            b == natural_boundary[cs[j].type]
                        IN  a > b \/ (a = b /\ i < j)
        rank(j) == 1 + Cardinality({i \in 1 .. n : Sooner(i, j)})
    IN  [k \in 1 .. n |-> cs[CHOOSE j \in 1 .. n : rank(j) = k]]

\* The bit at which each column starts in a record, and where the last ends.
Starts(cs) ==
    LET at[k \in 1 .. Len(cs) + 1] == IF k = 1 THEN 0 ELSE at[k - 1] + encoded_size(cs[k - 1])
    IN  at

\* Whole bytes, then a multiple of 1 << alignment (4 bytes), at least 4.
record_size(cs) ==
    LET bytes == (Starts(cs)[Len(cs) + 1] + 7) \div 8
    IN  Max({4, 4 * ((bytes + 3) \div 4)})

define_table ==
    /\ pc = "column"
    /\ todo = <<>>
    /\ cols' = reorder_columns_by_size(cols)
    /\ pc' = "root"
    /\ UNCHANGED <<dev, size, delta, sb, bb, ib, todo, disk>>
-----------------------------------------------------------------------------
Extent(at, len, what) == [at |-> at, len |-> len, what |-> what]

\* Writes of extents that do not meet each other.
Written(d, new) ==
    {e \in d : \A x \in new : e.at + e.len <= x.at \/ x.at + x.len <= e.at} \cup new

inode_at(id) == id * INODE + sb.inode_first_block * BLOCK_SIZE

\* Fault: an index block takes its first block into its second entry.
file_pathNext(w, k) ==
    IF k < 4 THEN <<k>>
    ELSE IF k < 4 + w THEN <<4, k - 3>>
    ELSE <<5, (k - 4 - w) \div w, (k - 4) % w>>

\* Where close_file and the functions below it put the k-th block of a file, with
\* w entries in an index block.
file_path(w, k) ==
    LET bind == k - 4 - w
        tind == bind - w * w
    IN  IF k < 4 THEN <<k>>
        ELSE IF bind < 0 THEN <<4, k - 4>>
        ELSE IF tind < 0 THEN <<5, bind \div w, bind % w>>
        ELSE <<6, tind \div (w * w), (tind \div w) % w, tind % w>>

\* The first block of a file that lies under path p.
first_block(w, p) ==
    LET at(n) == IF n <= Len(p) THEN p[n] ELSE 0
    IN  CASE p[1] < 4 -> p[1]
          [] p[1] = 4 -> 4 + at(2)
          [] p[1] = 5 -> 4 + w + at(2) * w + at(3)
          [] p[1] = 6 -> 4 + w + w * w + (at(2) * w + at(3)) * w + at(4)

\* How many index blocks the first n blocks need.
index_blocks(w, n) ==
    LET Up(a, b) == (a + b - 1) \div b
        tind == n - 4 - w - w * w
        bind == IF tind > 0 THEN w * w ELSE n - 4 - w
    IN  (IF n > 4 THEN 1 ELSE 0)
          + (IF bind > 0 THEN 1 + Up(bind, w) ELSE 0)
          + (IF tind > 0 THEN 1 + Up(tind, w * w) + Up(tind, w) ELSE 0)

\* The paths of the first n blocks and of the index blocks above them.
paths(w, n) ==
    UNION {LET p == file_path(w, k) IN {SubSeq(p, 1, i) : i \in 1 .. Len(p)} : k \in 0 .. n - 1}

\* The index blocks above p whose first block is p's.
opened_with(w, p) ==
    Cardinality({i \in 1 .. Len(p) - 1 : first_block(w, SubSeq(p, 1, i)) = first_block(w, p)})

\* The ids of a file of n blocks: an index block is allocated when the first
\* block below it is, and before what it points to.
file_tree(w, map, n) ==
    LET m == Kept(w, n)
    IN  [id  |-> [p \in paths(w, m) |->
                    LET k == first_block(w, p)
                    IN  map.next + k + index_blocks(w, k) + opened_with(w, p)],
         map |-> Allocated(map, m + index_blocks(w, m))]

IsIndex(p) == Len(p) < p[1] - 2

\* What write_block writes for path p: a block of the file or an index block.
block_content(w, id, p) ==
    IF IsIndex(p)
    THEN [kind  |-> "index",
          entry |-> [e \in 0 .. w - 1 |->
                       IF Append(p, e) \in DOMAIN id THEN id[Append(p, e)] ELSE 0]]
    ELSE [kind |-> "data", nth |-> first_block(w, p)]

inode_content(bytes, id) ==
    [kind |-> "inode", size |-> bytes,
     slot |-> [s \in 0 .. 6 |-> IF <<s>> \in DOMAIN id THEN id[<<s>>] ELSE 0]]

\* generate_table_definition writes the table to its file and closes it.  When
\* the device is too small, what was written by then does not matter: no
\* superblock is.
close_root ==
    LET n == Blocks(table_bytes(cols))
        blocks(id) == {Extent(id[p] * BLOCK_SIZE, BLOCK_SIZE, block_content(Entries, id, p)) :
                         p \in DOMAIN id}
        inode(id)  == Extent(inode_at(0), INODE, inode_content(table_bytes(cols), id))
    IN  /\ pc = "root"
        /\ \E f \in {file_tree(Entries, bb, n)} :
             /\ bb' = f.map
             /\ pc' = Then(f.map, "bad")
             /\ disk' = IF f.map.run # "ok" THEN disk
                        ELSE Written(Written(disk, blocks(f.id)), {inode(f.id)})
        /\ UNCHANGED <<dev, size, delta, sb, ib, todo, cols>>

\* create_file and close_file of a file without blocks.
empty_file(field, next) ==
    LET got == allocate_bit(ib)
    IN  /\ ib' = got.map
        /\ sb' = [sb EXCEPT ![field] = got.id]
        /\ disk' = Written(disk, {Extent(inode_at(got.id), INODE, inode_content(0, <<>>))})
        /\ pc' = Then(ib', next)
        /\ UNCHANGED <<dev, size, delta, bb, todo, cols>>

bad_blocks == pc = "bad" /\ empty_file("bad_block_inode", "journal")
journal    == pc = "journal" /\ empty_file("journal_inode", "super")

write_superblock ==
    /\ pc = "super"
    /\ disk' = Written(disk, {Extent(KB, SUPER,
                                     [kind |-> "super", free_block_count |-> bb.count,
                                      free_inode_count |-> ib.count, sb |-> sb])})
    /\ pc' = "bitmaps"
    /\ UNCHANGED <<dev, size, delta, sb, bb, ib, todo, cols>>

\* One lseek, two writes.
write_bitmaps ==
    LET at == BLOCK_SIZE * sb.bitmaps_block
        Bits(m) == [kind |-> "bitmap", free |-> Free(m)]
    IN  /\ pc = "bitmaps"
        /\ disk' = Written(disk, {Extent(at, bb.bytes, Bits(bb)),
                                  Extent(at + bb.bytes, ib.bytes, Bits(ib))})
        /\ pc' = "done"
        /\ UNCHANGED <<dev, size, delta, sb, bb, ib, todo, cols>>

Over == {"done", "halt", "wild", "killed"}

\* The program is stopped.  Between superblock and bitmaps it leaves a device
\* that mounts with whatever bitmaps it had.
Killed ==
    /\ pc \notin Over
    /\ pc # "bitmaps" \/ "killed_late" \in Allow
    /\ pc' = "killed"
    /\ UNCHANGED <<dev, size, delta, sb, bb, ib, todo, cols, disk>>

Step == \/ Probe \/ ProbeEnd \/ Layout \/ Reserve
        \/ create_table \/ add_column \/ define_table \/ close_root
        \/ bad_blocks \/ journal \/ write_superblock \/ write_bitmaps

-----------------------------------------------------------------------------
\* What is read at an offset of a device: the content of an extent, or garbage.
ContentOf(d, at, len) ==
    LET found == {e \in d : e.at = at /\ e.len = len}
    IN  IF found = {} THEN [kind |-> "garbage"] ELSE (CHOOSE e \in found : TRUE).what

Content(at, len) == ContentOf(disk, at, len)

super == Content(KB, SUPER)

\* validate_superblock.
Mountable ==
    /\ super.kind = "super"
    /\ super.sb.block_size <= 20
    /\ super.free_inode_count <= super.sb.inode_count
    /\ super.free_block_count <= super.sb.block_count

\* The fields udbfs_mount computes from the superblock.
mnt == LET bs == 2 ^ (super.sb.block_size + 7)
           at == super.sb.bitmaps_block * bs
           bytes(n) == (n + 7) \div 8
       IN  [block_size         |-> bs,
            block_bitmap       |-> Content(at, bytes(super.sb.block_count)),
            inode_bitmap       |-> Content(at + bytes(super.sb.block_count),
                                           bytes(super.sb.inode_count)),
            inode_table_offset |-> super.sb.inode_first_block * bs]

\* udbfslib on this device.
Lib == INSTANCE UdbfsTree WITH W <- mnt.block_size \div 8

\* udbfs_open_inode and the block the library selects for byte at of the file.
opened(id)   == Content(mnt.inode_table_offset + INODE * id, INODE)
loaded(b)    == Content(b * mnt.block_size, mnt.block_size)
selected(i, at) ==
    LET p == Lib!SelectedPath(at \div 8)
        id[n \in 1 .. Len(p)] ==
            IF n = 1 THEN i.slot[p[1]]
            ELSE LET b == loaded(id[n - 1]) IN IF b.kind = "index" THEN b.entry[p[n]] ELSE 0
    IN  loaded(id[Len(p)])

TypeOK ==
    /\ dev \in Devices
    /\ pc \in Over \cup {"probe", "layout", "reserve", "table", "column", "root", "bad",
                         "journal", "super", "bitmaps"}
    /\ size \in 0 .. dev.bytes
    /\ delta \in 0 .. Delta
    /\ sb.block_size \in 1 .. 5
    /\ \A m \in {bb, ib} : /\ Free(m) \subseteq 0 .. 8 * m.bytes - 1
                           /\ m.count \in Nat /\ m.run \in {"ok", "halt", "wild"}
    /\ Range(todo) \cup Range(cols) \subseteq UNION {Range(t) : t \in Tables}

\* The search by halving strides ends with the size of the device, to the byte.
SizeFound == pc \notin {"probe", "killed"} /\ dev.asked = 0 => size = dev.bytes

\* The superblock, the inode table with all its inodes, the bitmaps and the
\* blocks of the root table lie apart from each other and from the boot sector,
\* on the device, in blocks that the block bitmap has taken.
RegionsApart ==
    LET table   == Extent(mnt.inode_table_offset, INODE * super.sb.inode_count, "inodes")
        regions == {e \in disk : e.what.kind # "inode"} \cup {table}
        blocks(e) == e.at \div BLOCK_SIZE .. (e.at + e.len - 1) \div BLOCK_SIZE
    IN  \A e \in regions : /\ e.at >= 512 /\ e.at + e.len <= dev.bytes
                            /\ mnt.block_bitmap.free \cap blocks(e) = {}
                            /\ \A x \in regions \ {e} :
                                 e.at + e.len <= x.at \/ x.at + x.len <= e.at

\* The bits below a limit are taken, exactly as many as the free counts leave
\* out, all others are free, and no boot loader is installed.
FreshBitmaps ==
    LET taken   == super.sb.block_count - super.free_block_count
        bits(n) == 8 * ((n + 7) \div 8)
    IN  /\ mnt.block_bitmap = [kind |-> "bitmap",
                               free |-> taken .. bits(super.sb.block_count) - 1]
        /\ mnt.inode_bitmap = [kind |-> "bitmap",
                               free |-> 3 .. bits(super.sb.inode_count) - 1]
        /\ super.free_inode_count = super.sb.inode_count - 3
        /\ super.sb.boot_loader_inode = 0
        /\ {opened(i).kind : i \in 0 .. 2} = {"inode"}

\* When mkudbfs is done the device mounts; and a device that mounts, after a
\* stop half-way too, is an initial state of module Udbfs: the whole device is
\* laid out, no part of it lies on another, and the bitmaps say so.
FormattedForUdbfs ==
    /\ TypeOK
    /\ SizeFound
    /\ pc = "done" => Mountable
    /\ pc \in Over /\ Mountable => FreshBitmaps /\ RegionsApart

\* Every column starts at a multiple of its natural boundary, ends before the
\* next one, and lies in the record.
ColumnsAligned ==
    LET at == Starts(cols)
    IN  \A k \in 1 .. Len(cols) : /\ at[k] % natural_boundary[cols[k].type] = 0
                                  /\ at[k] + encoded_size(cols[k]) <= at[k + 1]
                                  /\ at[k + 1] <= 8 * record_size(cols)

\* The library that opens inode 0 finds the size and every block of the root
\* table, in order, along the path it selects for it.
RootReadsBack ==
    LET root == opened(0)
    IN  /\ root.kind = "inode" /\ root.size = table_bytes(cols)
        /\ \A k \in 0 .. Blocks(root.size) - 1 :
             selected(root, k * BLOCK_SIZE) = [kind |-> "data", nth |-> k]

\* The root table: what it defines is laid out on natural boundaries, and what
\* mkudbfs wrote of it is what udbfslib reads.
RootTableWhole == pc = "done" => ColumnsAligned /\ RootReadsBack
=============================================================================
