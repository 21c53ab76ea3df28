------------------------------- MODULE Udbfs -------------------------------
(***************************************************************************)
(* The Unununium database file system library (toolchain/udbfslib): one    *)
(* device, formatted by mkudbfs, mounted, used and unmounted by one        *)
(* single-threaded client at a time, which may die at any moment.          *)
(*                                                                         *)
(* disk   what the device holds: word (the blocks), inode (the inode       *)
(*        table), bb and ib (the two bitmaps without their counts), super. *)
(* mnt    the mount structure; pc tells how far mount or unmount has come, *)
(*        at is the unmount loop's inode pointer.                          *)
(* list   the list of opened inodes.                                       *)
(* inode  the memory inodes.                                               *)
(* client what the client was told: the files it owns, how many words it   *)
(*        wrote to each, which of them changed since the last unmount, and *)
(*        how often it died.                                               *)
(*                                                                         *)
(* Data words are negative numbers that tell file and position, so that no *)
(* data word is a block id.  malloc never fails and the device never       *)
(* reports an error.  Allow names the uses of the library that a run lets  *)
(* the client make although they are known to go wrong.                    *)
(***************************************************************************)
EXTENDS UdbfsBitmap, UdbfsList, UdbfsTree

CONSTANTS NBlocks,      \* superblock.block_count
          NInodes,      \* superblock.inode_count
          Meta,         \* blocks 0 .. Meta - 1 are taken by mkudbfs
          MaxSize,      \* bound on the words of a file
          MaxFiles,     \* bound on the files a client creates
          MaxCrashes,   \* bound on the crashes
          Signature,    \* values of unique_fs_signature
          Allow

Uses == {"two_open", "grow_reopened", "create_when_full", "index_when_full",
         "free", "free_any", "torn_unmount"}

ASSUME SizeAssumption == /\ NBlocks \in Nat /\ NInodes \in Nat /\ Meta \in 1 .. NBlocks
                         /\ NInodes > 3 /\ MaxSize \in Nat /\ Allow \subseteq Uses

VARIABLES disk, mnt, list, inode, client

vars == <<disk, mnt, list, inode, client>>

\* mkudbfs gives inode 0 to the root table, 1 to the bad blocks, 2 to the journal.
SystemInodes == 0 .. 2
BlockBit     == 0 .. BitmapBits(NBlocks) - 1
InodeBit     == 0 .. BitmapBits(NInodes) - 1
ClientInode  == InodeBit \ SystemInodes

OldWord == -1
Datum(id, at) == -(2 + id * (MaxSize + 1) + at)

Down   == [pc |-> "down"]
NoNode == [id |-> 0, cursor |-> 0, size |-> 0, block |-> NoTree]

\* A freshly formatted device: every bit past the counts is free too.
Init ==
    /\ \E s \in Signature :
         disk = [word  |-> [b \in BlockBit |-> [e \in Entry |-> OldWord]],
                 inode |-> [i \in InodeBit |-> [size |-> 0, slot |-> [s0 \in Slot |-> 0]]],
                 bb    |-> BlockBit \ 0 .. Meta - 1,
                 ib    |-> ClientInode,
                 super |-> [free_block_count |-> NBlocks - Meta,
                            free_inode_count |-> NInodes - 3,
                            boot_loader_inode |-> 0, signature |-> s]]
    /\ mnt = Down
    /\ list = EmptyList
    /\ inode = [h \in Handle |-> NoNode]
    /\ client = [files |-> {}, len |-> [i \in InodeBit |-> 0], changed |-> {}, crashes |-> 0]
-----------------------------------------------------------------------------
Sound   == list.state = "sound"
Mounted == mnt.pc = "up" /\ Sound
Opened  == {inode[h].id : h \in list.live}

\* Fault: the block bitmap in memory starts out as at format time.
mountForgetsBlocks ==
    /\ mnt.pc = "down"
    /\ \E s \in Signature :
         mnt' = [pc |-> "up", at |-> NULL,
                 bb |-> [bits |-> BitmapBits(NBlocks), free |-> BlockBit \ 0 .. Meta - 1,
                         count |-> disk.super.free_block_count],
                 ib |-> [bits |-> BitmapBits(NInodes), free |-> disk.ib,
                         count |-> disk.super.free_inode_count],
                 boot_loader_inode |-> disk.super.boot_loader_inode, signature |-> s]
    /\ list' = EmptyList
    /\ inode' = [h \in Handle |-> NoNode]
    /\ UNCHANGED <<disk, client>>

\* The part of udbfslib_validate_superblock that the library's own saves can
\* change; magic number, version and block size never do.
validate_superblock(super) ==
    super.free_inode_count <= NInodes /\ super.free_block_count <= NBlocks

\* udbfs_mount.  A superblock that does not validate leaves nothing mounted.
\* unique_fs_signature is not among the fields copied from the superblock, so
\* the mount structure holds what malloc left there.
mount ==
    /\ mnt.pc = "down"
    /\ IF ~validate_superblock(disk.super)
       THEN mnt' = Down
       ELSE \E s \in Signature :
              mnt' = [pc |-> "up", at |-> NULL,
                      bb |-> [bits |-> BitmapBits(NBlocks), free |-> disk.bb,
                              count |-> disk.super.free_block_count],
                      ib |-> [bits |-> BitmapBits(NInodes), free |-> disk.ib,
                              count |-> disk.super.free_inode_count],
                      boot_loader_inode |-> disk.super.boot_loader_inode, signature |-> s]
    /\ list' = EmptyList
    /\ inode' = [h \in Handle |-> NoNode]
    /\ UNCHANGED <<disk, client>>

MayOpen(h) ==
    /\ Mounted
    /\ h \notin list.live
    /\ list.live = {} \/ "two_open" \in Allow

\* udbfs_create_inode.  Without a free inode the structure is freed while it
\* is still linked.  Given the inode of a file it has, the client goes on
\* expecting that file's words.
create_inode(h) ==
    LET linked == link(list, h)
        got    == allocate_bit(mnt.ib)
    IN  /\ MayOpen(h)
        /\ Cardinality(client.files) < MaxFiles
        /\ got.id # 0 \/ "create_when_full" \in Allow
        /\ mnt' = [mnt EXCEPT !.ib = got.map]
        /\ IF got.id = 0
           THEN /\ list' = FreeNode(linked, h)
                /\ UNCHANGED <<inode, client>>
           ELSE /\ list' = linked
                /\ inode' = [inode EXCEPT ![h] = [NoNode EXCEPT !.id = got.id]]
                /\ client' = IF got.id \in client.files THEN client
                             ELSE [client EXCEPT !.files = @ \cup {got.id},
                                                 !.len[got.id] = 0,
                                                 !.changed = @ \cup {got.id}]
        /\ UNCHANGED disk

\* udbfs_open_inode.  Nothing looks whether the inode is open already.
open_inode(h, id) ==
    /\ MayOpen(h)
    /\ id \in client.files
    /\ list' = link(list, h)
    /\ inode' = [inode EXCEPT ![h] =
                   [id |-> id, cursor |-> 0, size |-> disk.inode[id].size,
                    block |-> LoadedTree(disk.inode[id].slot, disk.word)]]
    /\ UNCHANGED <<disk, mnt, client>>
-----------------------------------------------------------------------------
\* Fault: the index blocks are allocated before the data block is, and one of
\* them is given the data block's id.
extend_inodeSharesId(tree, map) ==
    LET data == allocate_bit(map)
        free == {p \in Path : IsData(p) /\ tree[p] = NoBlock}
    IN  IF data.id = 0 \/ free = {}
        THEN [path |-> <<>>, tree |-> tree, map |-> data.map]
        ELSE LET p == CHOOSE p \in free : \A r \in free : ~Before(r, p)
             IN  [path |-> p, map |-> data.map,
                  tree |-> [r \in Path |-> IF r = p \/ (r \in Above(p) /\ tree[r] = NoBlock)
                                           THEN data.id ELSE tree[r]]]

\* Fault: a failed allocation of the data block is not noticed.
extend_inodeUnchecked(tree, map) ==
    LET data == allocate_bit(map)
        free == {p \in Path : IsData(p) /\ tree[p] = NoBlock}
        p    == CHOOSE p \in free : \A r \in free : ~Before(r, p)
    IN  [path |-> p, map |-> data.map, tree |-> [tree EXCEPT ![p] = data.id]]

\* udbfslib_extend_inode and the extend functions below it: the data block is
\* allocated first, then, from the inode down, every index block that is
\* missing above the first place without a data block.  A failed index
\* allocation is not noticed: the structure keeps id 0.  A full tree loses the
\* data block.
extend_inode(tree, map) ==
    LET got[n \in 0 .. 4] == IF n = 0 THEN [id |-> 0, map |-> map]
                             ELSE allocate_bit(got[n - 1].map)
        free == {p \in Path : IsData(p) /\ tree[p] = NoBlock}
    IN  IF got[1].id = 0 \/ free = {}
        THEN [path |-> <<>>, tree |-> tree, map |-> got[1].map]
        ELSE LET p      == CHOOSE p \in free : \A r \in free : ~Before(r, p)
                 made   == {a \in Above(p) : tree[a] = NoBlock}
                 nth(a) == 2 + Cardinality({b \in made : Len(b) < Len(a)})
             IN  [path |-> p,
                  map  |-> got[1 + Cardinality(made)].map,
                  tree |-> [r \in Path |-> IF r = p THEN got[1].id
                                           ELSE IF r \in made THEN got[nth(r)].id
                                           ELSE tree[r]]]

\* The structure the cursor is in, NoBlock past the largest file.
select_active_inode_block(i) ==
    IF i.cursor < MaxFile THEN i.block[SelectedPath(i.cursor)] ELSE NoBlock

\* What a careful client does not do: write past the blocks of an inode it
\* opened when some direct block is missing, or need an index block that the
\* device has no room for.
Careful(i, x) ==
    /\ i.block[x.path] = 0 => "grow_reopened" \in Allow
    /\ \A r \in Path : IsIndex(r) /\ i.block[r] = NoBlock /\ x.tree[r] = 0 =>
         "index_when_full" \in Allow

\* The block a turn of udbfs_write_to_inode writes to: the one the cursor is
\* in, or else the one the inode is extended by.
Target(i, map) ==
    IF select_active_inode_block(i) = NoBlock
    THEN extend_inode(i.block, map)
    ELSE [path |-> SelectedPath(i.cursor), tree |-> i.block, map |-> map]

\* The device after positions from .. end - 1 of file id are written there.
Put(word, x, id, from, end) ==
    [word EXCEPT ![x.tree[x.path]] =
       [e \in Entry |-> IF e + offset_start(x.path) \in from .. end - 1
                        THEN Datum(id, e + offset_start(x.path)) ELSE @[e]]]

\* One turn of the loop of udbfs_write_to_inode: a call for n words, or what
\* an earlier turn left of it.  A call that spans blocks is a run of turns.
write_to_inode(h, n) ==
    LET i   == inode[h]
        x   == Target(i, mnt.bb)
        end == i.cursor + Min({n, offset_start(x.path) + W - i.cursor})
    IN  /\ Mounted
        /\ h \in list.live
        /\ i.cursor + n <= MaxSize
        /\ mnt' = [mnt EXCEPT !.bb = x.map]
        /\ IF x.path = <<>>
           THEN UNCHANGED <<disk, inode, client>>
           ELSE /\ Careful(i, x)
                /\ disk' = [disk EXCEPT !.word = Put(@, x, i.id, i.cursor, end)]
                /\ inode' = [inode EXCEPT ![h].block = x.tree, ![h].cursor = end,
                                          ![h].size = IF end > @ THEN end ELSE @]
                /\ client' = [client EXCEPT !.len[i.id] = IF end > @ THEN end ELSE @,
                                            !.changed = IF end > client.len[i.id]
                                                        THEN @ \cup {i.id} ELSE @]
        /\ UNCHANGED list

\* One turn of the loop of udbfs_read_from_inode.  A place without a block is
\* reported and then dereferenced.
read_from_inode(h, n) ==
    LET i    == inode[h]
        left == i.size - i.cursor
    IN  /\ Mounted
        /\ h \in list.live
        /\ left > 0
        /\ IF select_active_inode_block(i) = NoBlock
           THEN list' = Wild(list) /\ UNCHANGED inode
           ELSE /\ inode' = [inode EXCEPT ![h].cursor =
                       @ + Min({n, left, offset_start(SelectedPath(@)) + W - @})]
                /\ UNCHANGED list
        /\ UNCHANGED <<disk, mnt, client>>
-----------------------------------------------------------------------------
\* Fault: the inode is written back before its index blocks are.
closeSkipsIndex(h) ==
    /\ list' = FreeNode(unlink(list, h), h)
    /\ disk' = [disk EXCEPT !.inode[inode[h].id] =
                  [size |-> inode[h].size, slot |-> SavedSlots(inode[h].block)]]
    /\ inode' = [inode EXCEPT ![h] = NoNode]

\* udbfs_close_inode: unlink, save the index blocks and the inode, free.
close(h) ==
    /\ list' = FreeNode(unlink(list, h), h)
    /\ disk' = [disk EXCEPT !.word = SavedIndex(inode[h].block, @),
                            !.inode[inode[h].id] =
                              [size |-> inode[h].size, slot |-> SavedSlots(inode[h].block)]]
    /\ inode' = [inode EXCEPT ![h] = NoNode]

close_inode(h) ==
    /\ Mounted
    /\ h \in list.live
    /\ close(h)
    /\ UNCHANGED <<mnt, client>>

\* udbfs_free_inode.  The blocks of the inode stay allocated.
free_inode(id) ==
    LET done == deallocate_bit(mnt.ib, id)
    IN  /\ Mounted
        /\ ("free" \in Allow /\ FreedBit(id) = id) \/ "free_any" \in Allow
        /\ id \in client.files \cup mnt.ib.free
        /\ IF \/ \E n \in Walked(list) \cap list.live : inode[n].id = id
              \/ ~(Walked(list) \subseteq list.live)
           THEN UNCHANGED <<mnt, client>>
           ELSE /\ mnt' = [mnt EXCEPT !.ib = done.map]
                /\ client' = IF done.ret = 0
                             THEN [client EXCEPT !.files = @ \ {id}, !.changed = @ \ {id},
                                                 !.len[id] = 0]
                             ELSE client
        /\ list' = IF Walked(list) \subseteq list.live THEN list ELSE Wild(list)
        /\ UNCHANGED <<disk, inode>>

\* udbfs_set_boot_loader_inode, called, as by udb-instboot, for an inode that is
\* open when there is no boot loader yet.
set_boot_loader_inode(id) ==
    /\ Mounted
    /\ id \in Opened
    /\ mnt.boot_loader_inode = 0
    /\ mnt' = IF id < NInodes THEN [mnt EXCEPT !.boot_loader_inode = id] ELSE mnt
    /\ UNCHANGED <<disk, list, inode, client>>
-----------------------------------------------------------------------------
\* udbfs_unmount, one action per save: a crash may come between them.
unmount ==
    /\ Mounted
    /\ mnt' = [mnt EXCEPT !.pc = "closing", !.at = list.root]
    /\ UNCHANGED <<disk, list, inode, client>>

unmount_close ==
    /\ mnt.pc = "closing" /\ Sound /\ mnt.at # NULL
    /\ IF mnt.at \in list.live
       THEN close(mnt.at) /\ mnt' = [mnt EXCEPT !.at = list.next[mnt.at]]
       ELSE list' = Wild(list) /\ UNCHANGED <<disk, mnt, inode>>
    /\ UNCHANGED client

\* Fault: the block bitmap is not saved.
save_block_bitmapSkipped ==
    /\ mnt.pc = "closing" /\ Sound /\ mnt.at = NULL
    /\ mnt' = [mnt EXCEPT !.pc = "save_inode_bitmap"]
    /\ UNCHANGED <<disk, list, inode, client>>

save_block_bitmap ==
    /\ mnt.pc = "closing" /\ Sound /\ mnt.at = NULL
    /\ disk' = [disk EXCEPT !.bb = mnt.bb.free]
    /\ mnt' = [mnt EXCEPT !.pc = "save_inode_bitmap"]
    /\ UNCHANGED <<list, inode, client>>

save_inode_bitmap ==
    /\ mnt.pc = "save_inode_bitmap"
    /\ disk' = [disk EXCEPT !.ib = mnt.ib.free]
    /\ mnt' = [mnt EXCEPT !.pc = "save_superblock"]
    /\ UNCHANGED <<list, inode, client>>

save_superblock ==
    /\ mnt.pc = "save_superblock"
    /\ disk' = [disk EXCEPT !.super =
                  [free_block_count |-> mnt.bb.count, free_inode_count |-> mnt.ib.count,
                   boot_loader_inode |-> mnt.boot_loader_inode, signature |-> mnt.signature]]
    /\ mnt' = Down
    /\ client' = [client EXCEPT !.changed = {}]
    /\ UNCHANGED <<list, inode>>

\* The client process dies.  The files it changed since the last unmount are
\* given up, here and by every later client.
Crash ==
    /\ mnt.pc # "down"
    /\ client.crashes < MaxCrashes
    /\ mnt.pc \in {"save_inode_bitmap", "save_superblock"} => "torn_unmount" \in Allow
    /\ mnt' = Down
    /\ list' = EmptyList
    /\ inode' = [h \in Handle |-> NoNode]
    /\ client' = [client EXCEPT !.files = @ \ client.changed, !.changed = {},
                                !.crashes = @ + 1]
    /\ UNCHANGED disk

Next ==
    \/ mount
    \/ \E h \in Handle : create_inode(h)
    \/ \E h \in Handle, id \in ClientInode : open_inode(h, id)
    \/ \E h \in Handle, n \in 1 .. W : write_to_inode(h, n)
    \/ \E h \in Handle, n \in 1 .. W : read_from_inode(h, n)
    \/ \E h \in Handle : close_inode(h)
    \/ \E id \in ClientInode : free_inode(id)
    \/ \E id \in ClientInode : set_boot_loader_inode(id)
    \/ unmount \/ unmount_close
    \/ save_block_bitmap \/ save_inode_bitmap \/ save_superblock
    \/ Crash

Spec == Init /\ [][Next]_vars
-----------------------------------------------------------------------------
Bitmap(bit) == [bits : Nat, free : SUBSET bit, count : Nat]

\* Every part of the state has its type.
TypeOK ==
    /\ disk.bb \subseteq BlockBit /\ disk.ib \subseteq InodeBit
    /\ DOMAIN disk.word = BlockBit /\ DOMAIN disk.inode = InodeBit
    /\ disk.super.boot_loader_inode \in 0 .. NInodes - 1
    /\ mnt.pc \in {"down", "up", "closing", "save_inode_bitmap", "save_superblock"}
    /\ mnt.pc # "down" => mnt.bb \in Bitmap(BlockBit) /\ mnt.ib \in Bitmap(InodeBit)
    /\ list.live \subseteq Handle
    /\ client.files \subseteq ClientInode /\ client.changed \subseteq client.files

\* The tree through which a file is read: the opened inode's, or the one that
\* opening it would load.
TreeOf(f) ==
    IF f \in Opened
    THEN inode[CHOOSE h \in list.live : inode[h].id = f].block
    ELSE LoadedTree(disk.inode[f].slot, disk.word)

SizeOf(f) ==
    IF f \in Opened THEN inode[CHOOSE h \in list.live : inode[h].id = f].size
    ELSE disk.inode[f].size

\* Every file of the client has the size it wrote and holds, at every position,
\* the word written there: through growth over all levels of the tree, close
\* and reopen, unmount and remount; and across crashes of this and of later
\* clients for the files that were not changed since the last unmount.
FilesReadBack ==
    \A f \in client.files :
       /\ SizeOf(f) = client.len[f]
       /\ LET tree == TreeOf(f)
          IN  \A at \in 0 .. client.len[f] - 1 :
                LET b == tree[SelectedPath(at)]
                IN  b \in BlockBit /\ disk.word[b][at % W] = Datum(f, at)

BlocksOf(f) == {TreeOf(f)[p] : p \in Path} \ {NoBlock, 0}

\* A block belongs to one place of one file: no two files share one, no file
\* has it twice, none is outside the device or among the blocks mkudbfs took,
\* and none is free in the bitmap allocations are made from.
OneOwner ==
    LET free == IF mnt.pc = "down" THEN disk.bb ELSE mnt.bb.free
    IN  /\ \A f \in client.files :
             /\ BlocksOf(f) \subseteq Meta .. NBlocks - 1
             /\ BlocksOf(f) \cap free = {}
             /\ LET tree == TreeOf(f)
                IN  \A p, r \in Path :
                      tree[p] = tree[r] /\ tree[p] \notin {NoBlock, 0} => p = r
        /\ \A f, g \in client.files : f # g => BlocksOf(f) \cap BlocksOf(g) = {}

\* The free counts never promise more than the bitmaps hold, in memory and in
\* the superblock, and the block count is exact: allocate_bit trusts the count,
\* and only the count keeps it from the bits past the end of the device.
CountsCovered ==
    LET Covered(blocks, bb, inodes, ib) ==
          /\ blocks = Cardinality(bb \cap 0 .. NBlocks - 1)
          /\ inodes <= Cardinality(ib \cap 0 .. NInodes - 1)
    IN  IF mnt.pc = "down"
        THEN Covered(disk.super.free_block_count, disk.bb, disk.super.free_inode_count, disk.ib)
        ELSE Covered(mnt.bb.count, mnt.bb.free, mnt.ib.count, mnt.ib.free)

\* The list of opened inodes leads to the inodes that are open and to no other
\* node, and no freed node has been used.
ListsOpenInodes ==
    /\ Sound
    /\ list.root \in list.live \cup {NULL}
    /\ \A n \in list.live : /\ list.next[n] \in list.live \cup {NULL}
                            /\ list.prev[n] \in list.live \cup {NULL}
                            /\ n = list.root \/ \E m \in list.live : list.next[m] = n

\* The blocks mkudbfs took (boot block, superblock, inode table, bitmaps) are
\* never written as a file's data or index blocks: block id 0 is no block.
MetaBlocksKept ==
    \A b \in 0 .. Meta - 1 : \A e \in Entry : disk.word[b][e] = OldWord

\* When freeing an inode succeeds, that inode becomes free, and no other.
FreesItsInode ==
    [][\A id \in ClientInode :
         free_inode(id) /\ mnt' # mnt => mnt'.ib.free = mnt.ib.free \cup {id}]_vars
=============================================================================
