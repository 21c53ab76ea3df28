------------------------------ MODULE UdbfsBoot ------------------------------
(***************************************************************************)
(* From an empty device to a running stage 2: mkudbfs formats the device,  *)
(* udb-instboot (toolchain/udbfstools/udb-instboot.c) installs an image on *)
(* it through udbfslib, over an older one if there is one, and the boot    *)
(* sector (sys/bootloader/x86/stage1.asm) loads it block by block with     *)
(* its own reading of the same structures.                                 *)
(*                                                                         *)
(* vol    the device udb-instboot has worked on, as extents; {} before.    *)
(* tree   the blocks of the installed image, by their paths (history).     *)
(* made   the image installed last: its version, its blocks, and the        *)
(*        blocks of the file (history).                                    *)
(* cpu    the registers and variables of stage 1, by their names there:    *)
(*        bx counts down to the next index block, bp counts the blocks     *)
(*        loaded, di is their number, si the next word to read, bind the   *)
(*        operand of the self-modifying instruction; at7a00 and at7e00 are *)
(*        the two blocks of memory it reads ids from, and mem the blocks   *)
(*        loaded one behind the other.                                     *)
(*                                                                         *)
(* Images are whole numbers of blocks, and the device has room for them.   *)
(* The BIOS reads what it is asked for in the end: stage 1 retries for as  *)
(* long as it does not.                                                    *)
(***************************************************************************)
EXTENDS Mkudbfs

CONSTANTS Images,          \* numbers of blocks
          MaxInstalls,     \* bound on the runs of udb-instboot
          Spt, Heads       \* sectors per track and heads, from the BIOS

ASSUME BootAssumption == /\ Images \subseteq Nat \ {0}
                         /\ MaxInstalls \in Nat /\ Spt \in 1 .. 63 /\ Heads \in 1 .. 256

VARIABLES vol, tree, made, cpu

boot_vars == <<dev, pc, size, delta, sb, bb, ib, todo, cols, disk, vol, tree, made, cpu>>

Off == [at |-> "off"]

BootInit == Init /\ vol = {} /\ tree = <<>> /\ made = [version |-> 0, last |-> 0, blocks |-> 0] /\ cpu = Off

mkudbfs == Step /\ UNCHANGED <<vol, tree, made, cpu>>
stopped == Killed /\ UNCHANGED <<vol, tree, made, cpu>>
-----------------------------------------------------------------------------
volume       == IF vol = {} THEN disk ELSE vol
volume_super == ContentOf(volume, KB, SUPER)

\* Fault: the index blocks are not counted.
extendedBare(old, was, next, n) ==
    [p \in DOMAIN old \cup {p \in paths(Entries, n) : first_block(Entries, p) >= was} |->
       IF p \in DOMAIN old THEN old[p] ELSE next + first_block(Entries, p) - was]

\* The tree once the library, which selects the same paths, wrote n blocks to an
\* inode with the tree old of was blocks: it allocates each new block and then,
\* from the inode down, the index blocks that are missing above it.
extended(old, was, next, n) ==
    [p \in DOMAIN old \cup {p \in paths(Entries, n) : first_block(Entries, p) >= was} |->
       LET k == first_block(Entries, p)
       IN  IF p \in DOMAIN old THEN old[p]
           ELSE next + k - was + index_blocks(Entries, k) - index_blocks(Entries, was)
                  + (IF IsIndex(p) THEN 1 + opened_with(Entries, p) ELSE 0)]

\* The image's content of the block under path p of a tree.
image_content(id, p, version) ==
    LET c == block_content(Entries, id, p)
    IN  IF c.kind = "data" THEN [kind |-> "image", version |-> version, nth |-> c.nth] ELSE c

\* The inode that is opened, or created and set in the superblock.
boot_loader_inode(super0) ==
    IF super0.sb.boot_loader_inode = 0
    THEN super0.sb.inode_count - super0.free_inode_count
    ELSE super0.sb.boot_loader_inode

\* What the library writes for an image of n blocks: its blocks and the index
\* blocks, the inode, and at the unmount the bitmaps and the superblock.
install_writes(id, n, version, size0, super0) ==
    LET map_at == sb.bitmaps_block * BLOCK_SIZE
        Bits(first, limit) == [kind |-> "bitmap", free |-> first .. limit - 1]
    IN  {Extent(id[p] * BLOCK_SIZE, BLOCK_SIZE, image_content(id, p, version)) :
           p \in {r \in DOMAIN id : IsIndex(r) \/ first_block(Entries, r) < n}}
        \cup {Extent(inode_at(super0.sb.boot_loader_inode), INODE, inode_content(size0, id)),
              Extent(map_at, bb.bytes,
                     Bits(super0.sb.block_count - super0.free_block_count, bb.limit)),
              Extent(map_at + bb.bytes, ib.bytes,
                     Bits(super0.sb.inode_count - super0.free_inode_count, ib.limit)),
              Extent(KB, SUPER, super0)}

\* One run of udb-instboot: mount, open or create, write, close, unmount.  An
\* image on top of a longer one leaves the end of that.  Growing a file whose
\* four direct blocks are not all there goes wrong (module Udbfs).
instboot(n) ==
    LET was     == made.blocks
        blocks  == Max({n, was})
        new     == blocks - was + index_blocks(Entries, blocks) - index_blocks(Entries, was)
        taken   == volume_super.sb.block_count - volume_super.free_block_count
        version == made.version + 1
        saved   == [volume_super EXCEPT !.free_block_count = @ - new,
                                        !.free_inode_count = IF was = 0 THEN @ - 1 ELSE @,
                                        !.sb.boot_loader_inode = boot_loader_inode(volume_super)]
    IN  /\ pc = "done"
        /\ cols = reorder_columns_by_size(Reverse(RootTable))
        /\ BLOCK_SIZE = 512 \/ "other_blocks" \in Allow
        /\ cpu = Off
        /\ version <= MaxInstalls
        /\ was = 0 \/ was >= 4 \/ n <= was
        /\ new <= volume_super.free_block_count
        /\ made' = [version |-> version, last |-> n, blocks |-> blocks]
        /\ \E id \in {extended(tree, was, taken, n)} :
             \E writes \in {install_writes(id, n, version, blocks * BLOCK_SIZE, saved)} :
               tree' = id /\ vol' = Written(volume, writes)
        /\ UNCHANGED <<dev, pc, size, delta, sb, bb, ib, todo, cols, disk, cpu>>
-----------------------------------------------------------------------------
\* Fault: the BIOS's highest head number is taken for the number of heads.
chsLast(lba) ==
    [s |-> (lba % Spt) + 1, h |-> (lba \div Spt) % (Heads - 1), c |-> (lba \div Spt) \div (Heads - 1)]

\* load_sector's division; the BIOS reported Heads - 1.
chs(lba) == [s |-> (lba % Spt) + 1, h |-> (lba \div Spt) % Heads, c |-> (lba \div Spt) \div Heads]

\* int 0x13, function 2: the byte offset of the sector.
int13(a) == 512 * ((a.c * Heads + a.h) * Spt + a.s - 1)

\* load_block for blocks of one sector.
load_block(b) == ContentOf(vol, int13(chs(b)), 512)

\* A block of ids as stage 1 finds it in memory: words from 0 on.
word(block, i) == IF block.kind = "index" THEN block.entry[i] ELSE 0

\* Up to the loop: the superblock, the inode's block, the file's size, and the
\* double indirect block.  at7e00 then holds the inode, whose words 1 to 7 are
\* the block ids.
stage1_start ==
    LET super0 == ContentOf(vol, int13(chs(2)), SUPER)
        id0    == super0.sb.boot_loader_inode
        at     == int13(chs(super0.sb.inode_first_block + id0 \div 8)) + ((id0 * INODE) % 512)
        inode  == ContentOf(vol, at, INODE)
    IN  /\ cpu = Off
        /\ vol # {}
        /\ cpu' = IF BLOCK_SIZE # 512 THEN [at |-> "wild"] ELSE
                  [at |-> "loop", bx |-> 64 + 5, bp |-> 0, si |-> <<"inode", 0>>, bind |-> 0,
                   di |-> (inode.size + 511) \div 512, inode |-> inode,
                   at7a00 |-> load_block(inode.slot[5]), at7e00 |-> inode, mem |-> <<>>]
        /\ UNCHANGED <<dev, pc, size, delta, sb, bb, ib, todo, cols, disk, vol, tree, made>>

\* The word si points to.
lods(si, c) ==
    CASE si[1] = "inode"  -> IF c.at7e00.kind = "inode" THEN c.at7e00.slot[si[2]] ELSE 0
      [] si[1] = "at7e00" -> word(c.at7e00, si[2])
      [] si[1] = "at7a00" -> word(c.at7a00, si[2])

\* .load_block
loaded_block(c) ==
    [c EXCEPT !.mem = Append(@, load_block(lods(c.si, c))),
              !.si = <<@[1], @[2] + 1>>, !.bp = @ + 1]

\* .load_indirect: the index block replaces what was at 0x7e00.
loaded_indirect(c) == [c EXCEPT !.at7e00 = load_block(lods(c.si, c)), !.si = <<"at7e00", 0>>]

\* Fault: the operand is advanced before it is used.
loaded_bindNext(c) ==
    loaded_indirect([c EXCEPT !.bx = 64, !.si = <<"at7a00", c.bind + 1>>, !.bind = @ + 1])

\* .load_bind
loaded_bind(c) == loaded_indirect([c EXCEPT !.bx = 64, !.si = <<"at7a00", c.bind>>, !.bind = @ + 1])

\* One turn of loading_object; after the last, stage 2 is entered.
loading_object ==
    /\ cpu.at = "loop"
    /\ \E c \in {[cpu EXCEPT !.bx = @ - 1]} :
         \E d \in {IF c.bx = 0 THEN loaded_bind(c)
                   ELSE IF c.bp = 4 THEN loaded_indirect(c) ELSE c} :
           \E e \in {loaded_block(d)} :
             cpu' = IF e.bp = e.di THEN [e EXCEPT !.at = "stage2"] ELSE e
    /\ UNCHANGED <<dev, pc, size, delta, sb, bb, ib, todo, cols, disk, vol, tree, made>>

BootNext == mkudbfs \/ stopped \/ (\E n \in Images : instboot(n)) \/ stage1_start \/ loading_object

BootSpec == /\ BootInit /\ [][BootNext]_boot_vars
            /\ WF_boot_vars(mkudbfs) /\ WF_boot_vars(loading_object)
-----------------------------------------------------------------------------
\* Stage 1 enters stage 2 with the blocks of the file in memory one behind the
\* other: the whole image installed last, and behind it what an older, longer
\* one left.
ImageLoaded ==
    /\ cpu.at # "wild"
    /\ cpu.at = "stage2" =>
         /\ Len(cpu.mem) = made.blocks
         /\ \A k \in 1 .. Len(cpu.mem) :
              /\ cpu.mem[k].kind = "image" /\ cpu.mem[k].nth = k - 1
              /\ k <= made.last => cpu.mem[k].version = made.version

\* The installation keeps the file system whole: what mkudbfs wrote for the root
\* table and the system inodes is still there, the image's blocks are distinct
\* and taken, and the free count is the number of free bits.
InstallKeepsDisk ==
    vol # {} =>
      LET free == ContentOf(vol, sb.bitmaps_block * BLOCK_SIZE, bb.bytes).free
      IN  /\ {e \in disk : e.what.kind \in {"data", "index", "inode"}} \subseteq vol
          /\ Cardinality({tree[p] : p \in DOMAIN tree}) = Cardinality(DOMAIN tree)
          /\ \A p \in DOMAIN tree : tree[p] \notin free
          /\ volume_super.free_block_count =
               Cardinality(free \cap 0 .. volume_super.sb.block_count - 1)

\* Whatever the device, mkudbfs ends; and a boot sector that started loading
\* enters stage 2.
EndsInStage2 == <>(pc \in Over) /\ (cpu.at = "loop" ~> cpu.at = "stage2")
=============================================================================
