----------------------------- MODULE UdbfsTree -----------------------------
(***************************************************************************)
(* The block tree of an inode (toolchain/udbfslib: select_active_inode_    *)
(* block.c, load_*block.c, unload_block.c, write_to_inode.c).              *)
(*                                                                         *)
(* A word is 8 bytes, the size of one index entry, so a block of W words   *)
(* is also an index block of W entries (block_size >> 3).  A block of the  *)
(* tree is named by its path: the slot of the inode (0..3 direct, 4 ind,   *)
(* 5 bind, 6 tind) followed by the entry taken in each index block.  A     *)
(* tree is a function from paths to block ids, NoBlock where no memory     *)
(* structure exists: a structure with id 0 and no structure differ.        *)
(***************************************************************************)
EXTENDS Integers, Sequences, SequencesExt, FiniteSetsExt

CONSTANTS W, NoBlock

ASSUME NoBlockAssumption == NoBlock \notin Int

ASSUME WAssumption == W \in Nat \ {0}

Slot  == 0 .. 6
Entry == 0 .. W - 1

Path == {<<s>> : s \in Slot}
          \cup {<<s, i>> : s \in 4 .. 6, i \in Entry}
          \cup {<<s, i, j>> : s \in 5 .. 6, i \in Entry, j \in Entry}
          \cup {<<6, i, j, k>> : i \in Entry, j \in Entry, k \in Entry}

Depth(s)     == IF s < 4 THEN 0 ELSE s - 3
IsData(p)    == Len(p) = Depth(p[1]) + 1
IsIndex(p)   == ~IsData(p)
Above(p)     == {SubSeq(p, 1, n) : n \in 1 .. Len(p) - 1}

dir_storage  == 4 * W
ind_storage  == W * W
bind_storage == W * ind_storage
tind_storage == W * bind_storage
MaxFile      == dir_storage + ind_storage + bind_storage + tind_storage

\* Fault: the double indirect entries are taken in blocks, not in index blocks.
SelectedPathMixed(cursor) ==
    LET past == cursor - dir_storage - ind_storage
    IN  IF cursor < dir_storage THEN <<cursor \div W>>
        ELSE IF cursor < dir_storage + ind_storage
        THEN <<4, (cursor - dir_storage) \div W>>
        ELSE IF past < bind_storage
        THEN <<5, (past % ind_storage) \div W, past \div ind_storage>>
        ELSE LET rest == past - bind_storage
             IN  <<6, rest \div bind_storage, (rest % bind_storage) \div ind_storage,
                   (rest % ind_storage) \div W>>

\* udbfslib_select_active_inode_block: the path of the block the cursor is in.
SelectedPath(cursor) ==
    LET past == cursor - dir_storage - ind_storage
    IN  IF cursor < dir_storage THEN <<cursor \div W>>
        ELSE IF cursor < dir_storage + ind_storage
        THEN <<4, (cursor - dir_storage) \div W>>
        ELSE IF past < bind_storage
        THEN <<5, past \div ind_storage, (past % ind_storage) \div W>>
        ELSE LET rest == past - bind_storage
             IN  <<6, rest \div bind_storage, (rest % bind_storage) \div ind_storage,
                   (rest % ind_storage) \div W>>

\* The offset_start of a data block, as the load and the extend functions sum
\* it up on their way down the tree.
offset_start(p) ==
    CASE Depth(p[1]) = 0 -> p[1] * W
      [] Depth(p[1]) = 1 -> dir_storage + p[2] * W
      [] Depth(p[1]) = 2 -> dir_storage + ind_storage + p[2] * ind_storage + p[3] * W
      [] Depth(p[1]) = 3 -> dir_storage + ind_storage + bind_storage
                              + p[2] * bind_storage + p[3] * ind_storage + p[4] * W

\* The extend functions try the paths in this order.
Before(p, r) == offset_start(p) < offset_start(r)

NoTree == [p \in Path |-> NoBlock]

\* The four direct blocks always get a structure, even for id 0; an index block
\* with id 0 gets none.
LoadedSlot(slot, s) == IF s < 4 \/ slot[s] # 0 THEN slot[s] ELSE NoBlock

\* Entry e of the index block with the given id: no structure where it is 0.
\* Nothing is loaded through an index block past the end of the device.
LoadedEntry(word, id, e) ==
    IF id \in DOMAIN word /\ word[id][e] # 0 THEN word[id][e] ELSE NoBlock

\* The tree open_inode loads for a physical inode with the given slots.
LoadedTree(slot, word) ==
    LET tree[p \in Path] == IF Len(p) = 1 THEN LoadedSlot(slot, p[1])
                            ELSE LoadedEntry(word, tree[Front(p)], Last(p))
    IN  tree

\* The ids close_inode and the unload functions store: 0 for no structure.
StoredId(tree, p) == IF tree[p] = NoBlock THEN 0 ELSE tree[p]

SavedSlots(tree) == [s \in Slot |-> StoredId(tree, <<s>>)]

\* The device after the index blocks are written at their ids.  Blocks that
\* share an id (0, after a failed allocation) overwrite each other, the one
\* nearest to the inode in the highest slot last.
SavedIndex(tree, word) ==
    LET at(b) == {p \in Path : IsIndex(p) /\ tree[p] = b}
        Later(p, r) == p[1] > r[1] \/ (p[1] = r[1] /\ Len(p) <= Len(r))
    IN  [b \in DOMAIN word |->
           IF at(b) = {} THEN word[b]
           ELSE LET p == CHOOSE p \in at(b) : \A r \in at(b) : Later(p, r)
                IN  [e \in Entry |-> StoredId(tree, Append(p, e))]]
=============================================================================
