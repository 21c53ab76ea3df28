--------------------------- MODULE UdbfsBootProofs ---------------------------
(***************************************************************************)
(* The proofs about modules Mkudbfs and UdbfsBoot.                         *)
(*                                                                         *)
(* Both invariants describe the device exactly.  FInv gives, for each step *)
(* of mkudbfs, the superblock, the two bitmaps and the set of extents      *)
(* written, from the three numbers that the layout chose (s, n, m: block   *)
(* size, blocks, inodes) and the columns c of the root table.  VInv gives  *)
(* the volume after any number of runs of udb-instboot, from the number of *)
(* blocks of the file and the version of each, and the registers of stage  *)
(* 1 from the number of blocks loaded.  What the runs check of the device  *)
(* is then read off these descriptions.                                    *)
(*                                                                         *)
(* Both rest on one result about the tree of index blocks: numbered in the *)
(* order in which mkudbfs, and in the one in which udbfslib, allocates     *)
(* them, no two blocks of a file have the same number and all lie below    *)
(* their count (PlacesApart, PlaceBounds).                                 *)
(***************************************************************************)
EXTENDS UdbfsBoot, NumberLemmas
-----------------------------------------------------------------------------
\* The paths of a file of blocks: the index blocks above each, and where mkudbfs
\* and udbfslib put them.

\* The numbers of ids in a block, for the five block sizes.
Widths == {32, 64, 128, 256, 512}

\* The three digits of a number to the base w.
LEMMA Digits ==
  ASSUME NEW w \in Widths, NEW t \in Nat
  PROVE  /\ t \div (w * w) \in Nat /\ (t \div w) % w \in 0 .. w - 1 /\ t % w \in 0 .. w - 1
         /\ t = ((t \div (w * w)) * w + ((t \div w) % w)) * w + (t % w)
<1>1. CASE w = 32
  BY <1>1
<1>2. CASE w = 64
  BY <1>2
<1>3. CASE w = 128
  BY <1>3
<1>4. CASE w = 256
  BY <1>4
<1>5. CASE w = 512
  BY <1>5
<1> QED BY <1>1, <1>2, <1>3, <1>4, <1>5 DEF Widths

\* Rounding up.
Up(a, b) == (a + b - 1) \div b

\* How many index blocks a file of n blocks has, by its deepest level.
LEMMA IndexBlocks ==
  ASSUME NEW w \in Widths, NEW n \in Nat
  PROVE  index_blocks(w, n) = IF n <= 4 THEN 0
                              ELSE IF n <= 4 + w THEN 1
                              ELSE IF n <= 4 + w + w * w THEN 2 + Up(n - 4 - w, w)
                              ELSE LET t == n - 4 - w - w * w
                                   IN  3 + w + Up(t, w * w) + Up(t, w)
<1>1. CASE n <= 4 + w + w * w
    BY <1>1 DEF index_blocks, Up, Widths
<1>2. CASE n > 4 + w + w * w
    BY <1>2 DEF index_blocks, Up, Widths
<1> QED BY <1>1, <1>2 DEF Widths

\* A longer file has no fewer index blocks.
LEMMA Grows ==
  ASSUME NEW w \in Widths, NEW k \in Nat, NEW m \in Nat, k < m
  PROVE  /\ index_blocks(w, k) \in Nat /\ index_blocks(w, k) <= index_blocks(w, k + 1)
         /\ index_blocks(w, k + 1) <= index_blocks(w, m)
<1>1. CASE w = 32
  BY <1>1 DEF index_blocks
<1>2. CASE w = 64
  BY <1>2 DEF index_blocks
<1>3. CASE w = 128
  BY <1>3 DEF index_blocks
<1>4. CASE w = 256
  BY <1>4 DEF index_blocks
<1>5. CASE w = 512
  BY <1>5 DEF index_blocks
<1> QED BY <1>1, <1>2, <1>3, <1>4, <1>5 DEF Widths

\* Index blocks are counted in numbers.
LEMMA IndexNat ==
  ASSUME NEW w \in Widths, NEW k \in Nat
  PROVE  index_blocks(w, k) \in Nat
<1>1. k < k + 1 /\ k + 1 \in Nat
  OBVIOUS
<1>2. QED
  BY <1>1, Grows

\* Block k of a file is the entry a of the single, a and b of the double, a, b and
\* c of the triple indirect level.
InInd(w, a, k)        == k \in Nat /\ a \in 0 .. w - 1 /\ k = 4 + a
InBind(w, a, b, k)    == /\ k \in Nat /\ a \in 0 .. w - 1 /\ b \in 0 .. w - 1
                         /\ k = 4 + w + a * w + b
InTind(w, a, b, c, k) == /\ k \in Nat /\ a \in Nat /\ b \in 0 .. w - 1 /\ c \in 0 .. w - 1
                         /\ k = 4 + w + w * w + (a * w + b) * w + c

\* Each block is in one of the four levels.
LEMMA Shapes ==
  ASSUME NEW w \in Widths, NEW k \in Nat
  PROVE  \/ k \in 0 .. 3
         \/ \E a : InInd(w, a, k)
         \/ \E a, b : InBind(w, a, b, k)
         \/ \E a, b, c : InTind(w, a, b, c, k)
<1>0. w \in Nat
  BY DEF Widths
<1>1. CASE k < 4
  BY <1>1
<1>2. CASE k >= 4 /\ k < 4 + w
  <2>1. InInd(w, k - 4, k)
    BY <1>0, <1>2 DEF InInd
  <2>2. QED
    BY <2>1
<1>3. CASE k >= 4 + w /\ k < 4 + w + w * w
  <2>1. PICK t \in Nat : t = k - 4 - w /\ t < w * w
    BY <1>0, <1>3
  <2>2. t \div w \in 0 .. w - 1 /\ t % w \in 0 .. w - 1 /\ t = (t \div w) * w + (t % w)
    BY <2>1 DEF Widths
  <2>3. InBind(w, t \div w, t % w, k)
    BY <1>0, <1>3, <2>1, <2>2 DEF InBind
  <2>4. QED
    BY <2>3
<1>4. CASE k >= 4 + w + w * w
  <2>1. PICK t \in Nat : t = k - 4 - w - w * w
    BY <1>0, <1>4
  <2>2. PICK a, b, c : a = t \div (w * w) /\ b = (t \div w) % w /\ c = t % w
    OBVIOUS
  <2>3. a \in Nat /\ b \in 0 .. w - 1 /\ c \in 0 .. w - 1 /\ t = (a * w + b) * w + c
    BY <2>2, Digits
  <2>4. InTind(w, a, b, c, k)
    BY <1>0, <2>1, <2>3 DEF InTind
  <2>5. QED
    BY <2>4
<1>5. QED
  BY <1>0, <1>1, <1>2, <1>3, <1>4

\* The first file block below a path of one step,
LEMMA First1 ==
  ASSUME NEW w \in Nat
  PROVE  /\ first_block(w, <<4>>) = 4 /\ first_block(w, <<5>>) = 4 + w
         /\ first_block(w, <<6>>) = 4 + w + w * w
         /\ \A s \in 0 .. 3 : first_block(w, <<s>>) = s
BY DEF first_block

\* of two steps,
LEMMA First2 ==
  ASSUME NEW w \in Nat, NEW a \in Nat
  PROVE  /\ first_block(w, <<4, a>>) = 4 + a
         /\ first_block(w, <<5, a>>) = 4 + w + a * w
         /\ first_block(w, <<6, a>>) = 4 + w + w * w + (a * w) * w
BY DEF first_block

\* of three steps,
LEMMA First3 ==
  ASSUME NEW w \in Nat, NEW a \in Nat, NEW b \in Nat
  PROVE  /\ first_block(w, <<5, a, b>>) = 4 + w + a * w + b
         /\ first_block(w, <<6, a, b>>) = 4 + w + w * w + (a * w + b) * w
BY DEF first_block

\* and of four.
LEMMA First4 ==
  ASSUME NEW w \in Nat, NEW a \in Nat, NEW b \in Nat, NEW c \in Nat
  PROVE  first_block(w, <<6, a, b, c>>) = 4 + w + w * w + (a * w + b) * w + c
BY DEF first_block

\* The path of a direct block, which needs no index block;
LEMMA Direct ==
  ASSUME NEW w \in Widths, NEW k \in 0 .. 3
  PROVE  file_path(w, k) = <<k>> /\ index_blocks(w, k + 1) = index_blocks(w, k)
BY DEF file_path, index_blocks, Widths

\* of one below the single indirect block, whose first opens that block;
LEMMA Indirect ==
  ASSUME NEW w \in Widths, NEW a, NEW k, InInd(w, a, k)
  PROVE  /\ file_path(w, k) = <<4, a>>
         /\ index_blocks(w, k + 1) = index_blocks(w, k) + (IF a = 0 THEN 1 ELSE 0)
<1>1. CASE w = 32
  BY <1>1 DEF file_path, index_blocks, InInd
<1>2. CASE w = 64
  BY <1>2 DEF file_path, index_blocks, InInd
<1>3. CASE w = 128
  BY <1>3 DEF file_path, index_blocks, InInd
<1>4. CASE w = 256
  BY <1>4 DEF file_path, index_blocks, InInd
<1>5. CASE w = 512
  BY <1>5 DEF file_path, index_blocks, InInd
<1>6. QED
  BY <1>1, <1>2, <1>3, <1>4, <1>5 DEF Widths

\* A number is its quotient and its remainder.
LEMMA DivMod ==
  ASSUME NEW d \in Nat \ {0}, NEW a \in Nat, NEW b \in 0 .. d - 1
  PROVE  (a * d + b) \div d = a /\ (a * d + b) % d = b
OBVIOUS

\* of one below the double indirect block;
LEMMA Double ==
  ASSUME NEW w \in Widths, NEW a, NEW b, NEW k, InBind(w, a, b, k)
  PROVE  /\ file_path(w, k) = <<5, a, b>>
         /\ index_blocks(w, k + 1) =
              index_blocks(w, k) + (IF b # 0 THEN 0 ELSE IF a # 0 THEN 1 ELSE 2)
<1>0. /\ k \in Nat /\ a \in 0 .. w - 1 /\ b \in 0 .. w - 1 /\ k = 4 + w + a * w + b
  BY DEF InBind
<1>1. file_path(w, k) = <<5, a, b>>
  <2>1. PICK t \in Nat : t = a * w + b /\ k = 4 + w + t
    BY <1>0 DEF Widths
  <2>2. t \div w = a /\ t % w = b
    BY <1>0, <2>1, DivMod DEF Widths
  <2>3. t < w * w
    BY <1>0, <2>1 DEF Widths
  <2>4. k - 4 - w = t /\ k - 4 - w - w * w < 0 /\ ~(k < 4)
    BY <1>0, <2>1, <2>3 DEF Widths
  <2>5. QED
    BY <1>0, <2>2, <2>4 DEF file_path
<1>2. index_blocks(w, k + 1) =
        index_blocks(w, k) + (IF b # 0 THEN 0 ELSE IF a # 0 THEN 1 ELSE 2)
  <2>1. CASE w = 32
    BY <1>0, <2>1, SMTT(60) DEF index_blocks
  <2>2. CASE w = 64
    BY <1>0, <2>2, SMTT(60) DEF index_blocks
  <2>3. CASE w = 128
    BY <1>0, <2>3, SMTT(60) DEF index_blocks
  <2>4. CASE w = 256
    BY <1>0, <2>4, SMTT(60) DEF index_blocks
  <2>5. CASE w = 512
    BY <1>0, <2>5, SMTT(60) DEF index_blocks
  <2>6. QED
    BY <2>1, <2>2, <2>3, <2>4, <2>5 DEF Widths
<1>3. QED
  BY <1>1, <1>2

\* and of one below the triple indirect block.
LEMMA Triple ==
  ASSUME NEW w \in Widths, NEW a, NEW b, NEW c, NEW k, InTind(w, a, b, c, k)
  PROVE  /\ file_path(w, k) = <<6, a, b, c>>
         /\ index_blocks(w, k + 1) = index_blocks(w, k)
                + (IF c # 0 THEN 0 ELSE IF b # 0 THEN 1 ELSE IF a # 0 THEN 2 ELSE 3)
<1>0. /\ k \in Nat /\ a \in Nat /\ b \in 0 .. w - 1 /\ c \in 0 .. w - 1
      /\ k = 4 + w + w * w + (a * w + b) * w + c
  BY DEF InTind
<1>1. file_path(w, k) = <<6, a, b, c>>
  <2>1. PICK t \in Nat : t = (a * w + b) * w + c /\ k = 4 + w + w * w + t
    BY <1>0 DEF Widths
  <2>2. t \div w = a * w + b /\ t % w = c
    <3>1. PICK u \in Nat : u = a * w + b /\ t = u * w + c
      BY <1>0, <2>1 DEF Widths
    <3>2. w \in Nat \ {0} /\ c \in 0 .. w - 1
      BY <1>0 DEF Widths
    <3>3. (u * w + c) \div w = u /\ (u * w + c) % w = c
      BY <3>2, DivMod
    <3>4. QED
      BY <3>1, <3>3
  <2>3. (t \div w) % w = b
    BY <1>0, <2>2, DivMod DEF Widths
  <2>4. t \div (w * w) = a
    <3> HIDE <2>2, <2>3
    <3>1. CASE w = 32
      BY <1>0, <3>1, <2>1
    <3>2. CASE w = 64
      BY <1>0, <3>2, <2>1
    <3>3. CASE w = 128
      BY <1>0, <3>3, <2>1
    <3>4. CASE w = 256
      BY <1>0, <3>4, <2>1
    <3>5. CASE w = 512
      BY <1>0, <3>5, <2>1
    <3>6. QED
      BY <1>0, <3>1, <3>2, <3>3, <3>4, <3>5 DEF Widths
  <2>5. k - 4 - w - w * w = t /\ ~(k - 4 - w < 0) /\ ~(k - 4 - w - w * w < 0) /\ ~(k < 4)
    BY <1>0, <2>1 DEF Widths
  <2>6. QED
    BY <1>0, <2>2, <2>3, <2>4, <2>5 DEF file_path
<1>2. index_blocks(w, k + 1) = index_blocks(w, k)
        + (IF c # 0 THEN 0 ELSE IF b # 0 THEN 1 ELSE IF a # 0 THEN 2 ELSE 3)
  <2>1. PICK t \in Nat : t = (a * w + b) * w + c /\ k = 4 + w + w * w + t
    BY <1>0 DEF Widths
  <2>2. /\ (t + w) \div w = a * w + b + 1
        /\ (t + w - 1) \div w = a * w + b + (IF c = 0 THEN 0 ELSE 1)
    <3>1. CASE w = 32
      BY <1>0, <3>1, <2>1
    <3>2. CASE w = 64
      BY <1>0, <3>2, <2>1
    <3>3. CASE w = 128
      BY <1>0, <3>3, <2>1
    <3>4. CASE w = 256
      BY <1>0, <3>4, <2>1
    <3>5. CASE w = 512
      BY <1>0, <3>5, <2>1
    <3>6. QED
      BY <1>0, <3>1, <3>2, <3>3, <3>4, <3>5 DEF Widths
  <2>3. (t + w * w) \div (w * w) = a + 1
    <3>1. CASE w = 32
      BY <1>0, <3>1, <2>1
    <3>2. CASE w = 64
      BY <1>0, <3>2, <2>1
    <3>3. CASE w = 128
      BY <1>0, <3>3, <2>1
    <3>4. CASE w = 256
      BY <1>0, <3>4, <2>1
    <3>5. CASE w = 512
      BY <1>0, <3>5, <2>1
    <3>6. QED
      BY <1>0, <3>1, <3>2, <3>3, <3>4, <3>5 DEF Widths
  <2>4. (t + w * w - 1) \div (w * w) = a + (IF b = 0 /\ c = 0 THEN 0 ELSE 1)
    <3>1. CASE w = 32
      BY <1>0, <3>1, <2>1
    <3>2. CASE w = 64
      BY <1>0, <3>2, <2>1
    <3>3. CASE w = 128
      BY <1>0, <3>3, <2>1
    <3>4. CASE w = 256
      BY <1>0, <3>4, <2>1
    <3>5. CASE w = 512
      BY <1>0, <3>5, <2>1
    <3>6. QED
      BY <1>0, <3>1, <3>2, <3>3, <3>4, <3>5 DEF Widths
  <2>5. index_blocks(w, k + 1) = 3 + w + (t + w * w) \div (w * w) + (t + w) \div w
    <3>1. index_blocks(w, k + 1) = 3 + w + Up(t + 1, w * w) + Up(t + 1, w)
      BY <1>0, <2>1, IndexBlocks DEF Widths
    <3>2. Up(t + 1, w * w) = (t + w * w) \div (w * w) /\ Up(t + 1, w) = (t + w) \div w
      BY <1>0, <2>1 DEF Up, Widths
    <3>3. QED
      BY <1>0, <3>1, <3>2
  <2>6. t # 0 => index_blocks(w, k) = 3 + w + (t + w * w - 1) \div (w * w) + (t + w - 1) \div w
    <3>1. t # 0 => /\ ~(k <= 4) /\ ~(k <= 4 + w) /\ ~(k <= 4 + w + w * w)
                   /\ k - 4 - w - w * w = t
      BY <1>0, <2>1 DEF Widths
    <3>2. t # 0 => index_blocks(w, k) = 3 + w + Up(t, w * w) + Up(t, w)
      BY <1>0, <3>1, IndexBlocks
    <3>3. QED
      BY <1>0, <3>2 DEF Up
  <2>7. t = 0 => index_blocks(w, k) = 2 + w
    BY <1>0, <2>1 DEF index_blocks, Widths
  <2>8. t = 0 <=> a = 0 /\ b = 0 /\ c = 0
    BY <1>0, <2>1 DEF Widths
  <2>9. QED
    BY <1>0, <2>2, <2>3, <2>4, <2>5, <2>6, <2>7, <2>8 DEF Widths
<1>3. QED
  BY <1>1, <1>2

\* The first entries of a tuple.
LEMMA Tops1 ==
  ASSUME NEW a
  PROVE  /\ SubSeq(<<a>>, 1, 1) = <<a>>
         /\ Len(<<a>>) = 1
<1>1. /\ SubSeq(<<a>>, 1, 1) = [i \in 1 .. 1 |-> <<a>>[i]]
  OBVIOUS
<1>2. /\ <<a>> = [i \in 1 .. 1 |-> <<a>>[i]]
  OBVIOUS
<1>3. QED
  BY <1>1, <1>2

\* What is left of a path of two steps when it is cut,
LEMMA Tops2 ==
  ASSUME NEW a, NEW b
  PROVE  /\ SubSeq(<<a, b>>, 1, 1) = <<a>>
         /\ SubSeq(<<a, b>>, 1, 2) = <<a, b>>
         /\ Len(<<a, b>>) = 2
<1>1. /\ SubSeq(<<a, b>>, 1, 1) = [i \in 1 .. 1 |-> <<a, b>>[i]]
      /\ SubSeq(<<a, b>>, 1, 2) = [i \in 1 .. 2 |-> <<a, b>>[i]]
  OBVIOUS
<1>2. /\ <<a>> = [i \in 1 .. 1 |-> <<a, b>>[i]]
      /\ <<a, b>> = [i \in 1 .. 2 |-> <<a, b>>[i]]
  OBVIOUS
<1>3. QED
  BY <1>1, <1>2

\* of three,
LEMMA Tops3 ==
  ASSUME NEW a, NEW b, NEW c
  PROVE  /\ SubSeq(<<a, b, c>>, 1, 1) = <<a>>
         /\ SubSeq(<<a, b, c>>, 1, 2) = <<a, b>>
         /\ SubSeq(<<a, b, c>>, 1, 3) = <<a, b, c>>
         /\ Len(<<a, b, c>>) = 3
<1>1. /\ SubSeq(<<a, b, c>>, 1, 1) = [i \in 1 .. 1 |-> <<a, b, c>>[i]]
      /\ SubSeq(<<a, b, c>>, 1, 2) = [i \in 1 .. 2 |-> <<a, b, c>>[i]]
      /\ SubSeq(<<a, b, c>>, 1, 3) = [i \in 1 .. 3 |-> <<a, b, c>>[i]]
  OBVIOUS
<1>2. /\ <<a>> = [i \in 1 .. 1 |-> <<a, b, c>>[i]]
      /\ <<a, b>> = [i \in 1 .. 2 |-> <<a, b, c>>[i]]
      /\ <<a, b, c>> = [i \in 1 .. 3 |-> <<a, b, c>>[i]]
  OBVIOUS
<1>3. QED
  BY <1>1, <1>2

\* and of four.
LEMMA Tops4 ==
  ASSUME NEW a, NEW b, NEW c, NEW d
  PROVE  /\ SubSeq(<<a, b, c, d>>, 1, 1) = <<a>>
         /\ SubSeq(<<a, b, c, d>>, 1, 2) = <<a, b>>
         /\ SubSeq(<<a, b, c, d>>, 1, 3) = <<a, b, c>>
         /\ SubSeq(<<a, b, c, d>>, 1, 4) = <<a, b, c, d>>
         /\ Len(<<a, b, c, d>>) = 4
<1>1. /\ SubSeq(<<a, b, c, d>>, 1, 1) = [i \in 1 .. 1 |-> <<a, b, c, d>>[i]]
      /\ SubSeq(<<a, b, c, d>>, 1, 2) = [i \in 1 .. 2 |-> <<a, b, c, d>>[i]]
      /\ SubSeq(<<a, b, c, d>>, 1, 3) = [i \in 1 .. 3 |-> <<a, b, c, d>>[i]]
      /\ SubSeq(<<a, b, c, d>>, 1, 4) = [i \in 1 .. 4 |-> <<a, b, c, d>>[i]]
  OBVIOUS
<1>2. /\ <<a>> = [i \in 1 .. 1 |-> <<a, b, c, d>>[i]]
      /\ <<a, b>> = [i \in 1 .. 2 |-> <<a, b, c, d>>[i]]
      /\ <<a, b, c>> = [i \in 1 .. 3 |-> <<a, b, c, d>>[i]]
      /\ <<a, b, c, d>> = [i \in 1 .. 4 |-> <<a, b, c, d>>[i]]
  OBVIOUS
<1>3. QED
  BY <1>1, <1>2

\* The path of a block cut off behind its i-th step, and the first block below.
Top(w, k, i)   == SubSeq(file_path(w, k), 1, i)
First(w, k, i) == first_block(w, Top(w, k, i))

\* The cuts of the path of a direct block and the first blocks below them;
LEMMA DirectTops ==
  ASSUME NEW w \in Widths, NEW k \in 0 .. 3
  PROVE  Len(file_path(w, k)) = 1 /\ Top(w, k, 1) = <<k>> /\ First(w, k, 1) = k
<1>1. file_path(w, k) = <<k>>
  BY Direct
<1>2. Len(file_path(w, k)) = 1 /\ Top(w, k, 1) = <<k>>
  BY <1>1, Tops1 DEF Top
<1>3. QED
  BY <1>2, First1 DEF First, Widths

\* of one below the single indirect block,
LEMMA IndirectTops ==
  ASSUME NEW w \in Widths, NEW a, NEW k, InInd(w, a, k)
  PROVE  /\ Len(file_path(w, k)) = 2 /\ Top(w, k, 1) = <<4>> /\ Top(w, k, 2) = <<4, a>>
         /\ First(w, k, 1) = 4 /\ First(w, k, 2) = k
<1>1. file_path(w, k) = <<4, a>>
  BY Indirect
<1>2. Len(file_path(w, k)) = 2 /\ Top(w, k, 1) = <<4>> /\ Top(w, k, 2) = <<4, a>>
  BY <1>1, Tops2 DEF Top
<1>3. w \in Nat /\ a \in Nat
  BY DEF Widths, InInd
<1>4. first_block(w, <<4>>) = 4
  BY <1>3, First1
<1>5. first_block(w, <<4, a>>) = 4 + a
  BY <1>3, First2
<1>6. k = 4 + a
  BY DEF InInd
<1>7. QED
  BY <1>2, <1>4, <1>5, <1>6 DEF First

\* the double indirect block,
LEMMA DoubleTops ==
  ASSUME NEW w \in Widths, NEW a, NEW b, NEW k, InBind(w, a, b, k)
  PROVE  /\ Len(file_path(w, k)) = 3 /\ Top(w, k, 1) = <<5>>
         /\ Top(w, k, 2) = <<5, a>> /\ Top(w, k, 3) = <<5, a, b>>
         /\ First(w, k, 1) = 4 + w /\ First(w, k, 2) = 4 + w + a * w /\ First(w, k, 3) = k
<1>1. file_path(w, k) = <<5, a, b>>
  BY Double
<1>2. /\ Len(file_path(w, k)) = 3 /\ Top(w, k, 1) = <<5>>
      /\ Top(w, k, 2) = <<5, a>> /\ Top(w, k, 3) = <<5, a, b>>
  BY <1>1, Tops3 DEF Top
<1>3. w \in Nat /\ a \in Nat /\ b \in Nat
  BY DEF Widths, InBind
<1>4. first_block(w, <<5>>) = 4 + w
  BY <1>3, First1
<1>5. first_block(w, <<5, a>>) = 4 + w + a * w
  BY <1>3, First2
<1>6. first_block(w, <<5, a, b>>) = 4 + w + a * w + b
  BY <1>3, First3
<1>7. k = 4 + w + a * w + b
  BY DEF InBind
<1>8. QED
  BY <1>2, <1>4, <1>5, <1>6, <1>7 DEF First

\* and the triple indirect block.
LEMMA TripleTops ==
  ASSUME NEW w \in Widths, NEW a, NEW b, NEW c, NEW k, InTind(w, a, b, c, k)
  PROVE  /\ Len(file_path(w, k)) = 4 /\ Top(w, k, 1) = <<6>> /\ Top(w, k, 2) = <<6, a>>
         /\ Top(w, k, 3) = <<6, a, b>> /\ Top(w, k, 4) = <<6, a, b, c>>
         /\ First(w, k, 1) = 4 + w + w * w
         /\ First(w, k, 2) = 4 + w + w * w + (a * w) * w
         /\ First(w, k, 3) = 4 + w + w * w + (a * w + b) * w
         /\ First(w, k, 4) = k
<1>1. file_path(w, k) = <<6, a, b, c>>
  BY Triple
<1>2. /\ Len(file_path(w, k)) = 4 /\ Top(w, k, 1) = <<6>> /\ Top(w, k, 2) = <<6, a>>
      /\ Top(w, k, 3) = <<6, a, b>> /\ Top(w, k, 4) = <<6, a, b, c>>
  BY <1>1, Tops4 DEF Top
<1>3. w \in Nat /\ a \in Nat /\ b \in Nat /\ c \in Nat
  BY DEF Widths, InTind
<1>4. first_block(w, <<6>>) = 4 + w + w * w
  BY <1>3, First1
<1>5. first_block(w, <<6, a>>) = 4 + w + w * w + (a * w) * w
  BY <1>3, First2
<1>6. first_block(w, <<6, a, b>>) = 4 + w + w * w + (a * w + b) * w
  BY <1>3, First3
<1>7. first_block(w, <<6, a, b, c>>) = 4 + w + w * w + (a * w + b) * w + c
  BY <1>3, First4
<1>8. k = 4 + w + w * w + (a * w + b) * w + c
  BY DEF InTind
<1>9. QED
  BY <1>2, <1>4, <1>5, <1>6, <1>7, <1>8 DEF First

\* What lies under a path cut short begins with a block whose path is cut to the
\* same.
CutAt(w, k, i) ==
    /\ First(w, k, i) \in 0 .. k
    /\ Len(file_path(w, First(w, k, i))) = Len(file_path(w, k))
    /\ Top(w, First(w, k, i), i) = Top(w, k, i)
    /\ i = Len(file_path(w, k)) => First(w, k, i) = k

\* Whatever the block, its path is so cut.
LEMMA Cut ==
  ASSUME NEW w \in Widths, NEW k \in Nat, NEW i \in 1 .. Len(file_path(w, k))
  PROVE  CutAt(w, k, i)
<1>0. w \in Nat /\ 0 \in 0 .. w - 1
  BY DEF Widths
<1>1. CASE k \in 0 .. 3
  <2>1. First(w, k, 1) = k /\ Len(file_path(w, k)) = 1
    BY <1>1, DirectTops
  <2>2. i = 1
    BY <2>1
  <2>3. QED
    BY <2>1, <2>2 DEF CutAt
<1>2. ASSUME NEW a, InInd(w, a, k) PROVE CutAt(w, k, i)
  <2>1. /\ Len(file_path(w, k)) = 2 /\ Top(w, k, 1) = <<4>>
        /\ First(w, k, 1) = 4 /\ First(w, k, 2) = k
    BY <1>2, IndirectTops
  <2>2. Len(file_path(w, 4)) = 2 /\ Top(w, 4, 1) = <<4>>
    <3>1. InInd(w, 0, 4)
      BY <1>0 DEF InInd
    <3>2. QED
      BY <3>1, IndirectTops
  <2>3. i = 1 \/ i = 2
    BY <2>1
  <2>4. 4 \in 0 .. k
    BY <1>2 DEF InInd
  <2>5. QED
    BY <2>1, <2>2, <2>3, <2>4 DEF CutAt
<1>3. ASSUME NEW a, NEW b, InBind(w, a, b, k) PROVE CutAt(w, k, i)
  <2>1. /\ Len(file_path(w, k)) = 3 /\ Top(w, k, 1) = <<5>> /\ Top(w, k, 2) = <<5, a>>
        /\ First(w, k, 1) = 4 + w /\ First(w, k, 2) = 4 + w + a * w /\ First(w, k, 3) = k
    BY <1>3, DoubleTops
  <2>2. PICK k1 \in Nat, k2 \in Nat : k1 = 4 + w /\ k2 = 4 + w + a * w
    BY <1>0, <1>3 DEF InBind
  <2>3. InBind(w, 0, 0, k1) /\ InBind(w, a, 0, k2)
    BY <1>0, <1>3, <2>2 DEF InBind
  <2>4. /\ Len(file_path(w, k1)) = 3 /\ Top(w, k1, 1) = <<5>>
        /\ Len(file_path(w, k2)) = 3 /\ Top(w, k2, 2) = <<5, a>>
    BY <2>3, DoubleTops
  <2>5. i = 1 \/ i = 2 \/ i = 3
    BY <2>1
  <2>6. k1 \in 0 .. k /\ k2 \in 0 .. k
    BY <1>0, <1>3, <2>2 DEF InBind
  <2>7. QED
    BY <2>1, <2>2, <2>4, <2>5, <2>6 DEF CutAt
<1>4. ASSUME NEW a, NEW b, NEW c, InTind(w, a, b, c, k) PROVE CutAt(w, k, i)
  <2>0. /\ a \in Nat /\ b \in Nat /\ c \in Nat /\ b \in 0 .. w - 1
        /\ k = 4 + w + w * w + (a * w + b) * w + c
    BY <1>4, <1>0 DEF InTind
  <2>1. PICK k1 \in Nat, k2 \in Nat, k3 \in Nat :
               /\ k1 = 4 + w + w * w /\ k2 = 4 + w + w * w + (a * w) * w
               /\ k3 = 4 + w + w * w + (a * w + b) * w
    BY <1>0, <2>0
  <2>2. /\ Len(file_path(w, k)) = 4 /\ Top(w, k, 1) = <<6>> /\ Top(w, k, 2) = <<6, a>>
        /\ Top(w, k, 3) = <<6, a, b>>
        /\ First(w, k, 1) = k1 /\ First(w, k, 2) = k2 /\ First(w, k, 3) = k3
        /\ First(w, k, 4) = k
    BY <1>4, <2>1, TripleTops
  <2>3. InTind(w, 0, 0, 0, k1) /\ InTind(w, a, 0, 0, k2) /\ InTind(w, a, b, 0, k3)
    BY <1>0, <2>0, <2>1 DEF InTind
  <2>4. /\ Len(file_path(w, k1)) = 4 /\ Top(w, k1, 1) = <<6>>
        /\ Len(file_path(w, k2)) = 4 /\ Top(w, k2, 2) = <<6, a>>
        /\ Len(file_path(w, k3)) = 4 /\ Top(w, k3, 3) = <<6, a, b>>
    BY <2>3, TripleTops
  <2>5. i = 1 \/ i = 2 \/ i = 3 \/ i = 4
    BY <2>2
  <2>6. k1 \in 0 .. k /\ k2 \in 0 .. k /\ k3 \in 0 .. k
    <3>1. w * w \in Nat /\ (a * w) * w \in Nat /\ b * w \in Nat
      BY <1>0, <2>0
    <3>2. (a * w + b) * w = (a * w) * w + b * w
      BY <1>0, <2>0
    <3>3. QED
      BY <1>0, <2>0, <2>1, <3>1, <3>2
  <2>7. QED
    BY <2>2, <2>4, <2>5, <2>6 DEF CutAt
<1>5. QED
  BY <1>1, <1>2, <1>3, <1>4, Shapes

\* A path is a sequence of one to four numbers; its slot says how many.
LEMMA PathType ==
  ASSUME NEW w \in Widths, NEW k \in Nat
  PROVE  /\ file_path(w, k) \in Seq(Nat) /\ Len(file_path(w, k)) \in 1 .. 4
         /\ file_path(w, k)[1] \in 0 .. 6
         /\ Len(file_path(w, k)) = IF file_path(w, k)[1] < 4 THEN 1 ELSE file_path(w, k)[1] - 2
<1>0. w \in Nat
  BY DEF Widths
<1> PICK p : p = file_path(w, k)
  OBVIOUS
<1> DEFINE G == /\ p \in Seq(Nat) /\ Len(p) \in 1 .. 4 /\ p[1] \in 0 .. 6
                /\ Len(p) = IF p[1] < 4 THEN 1 ELSE p[1] - 2
<1>1. CASE k \in 0 .. 3
  <2>1. p = <<k>>
    BY <1>1, Direct
  <2>2. G
    BY ONLY <1>1, <2>1
  <2>3. QED
    BY <2>2
<1>2. ASSUME NEW a, InInd(w, a, k) PROVE G
  <2>1. p = <<4, a>>
    BY <1>2, Indirect
  <2>2. a \in Nat
    BY <1>0, <1>2 DEF InInd
  <2>3. QED
    BY ONLY <2>1, <2>2
<1>3. ASSUME NEW a, NEW b, InBind(w, a, b, k) PROVE G
  <2>1. p = <<5, a, b>>
    BY <1>3, Double
  <2>2. a \in Nat /\ b \in Nat
    BY <1>0, <1>3 DEF InBind
  <2>3. QED
    BY ONLY <2>1, <2>2
<1>4. ASSUME NEW a, NEW b, NEW c, InTind(w, a, b, c, k) PROVE G
  <2>1. p = <<6, a, b, c>>
    BY <1>4, Triple
  <2>2. a \in Nat /\ b \in Nat /\ c \in Nat
    BY <1>0, <1>4 DEF InTind
  <2>3. QED
    BY ONLY <2>1, <2>2
<1> HIDE DEF G
<1>5. \/ k \in 0 .. 3
      \/ \E a : InInd(w, a, k)
      \/ \E a, b : InBind(w, a, b, k)
      \/ \E a, b, c : InTind(w, a, b, c, k)
  BY Shapes
<1>6. G
  BY <1>1, <1>2, <1>3, <1>4, <1>5 DEF G
<1>7. QED
  BY <1>6 DEF G

\* The index blocks above the i-th step whose first block is k.
Opened(w, k, i) == {j \in 1 .. i - 1 : First(w, k, j) = k}

\* The index blocks opened with a block are finitely many.
LEMMA OpenedFinite ==
  ASSUME NEW w, NEW k, NEW i \in Nat
  PROVE  IsFiniteSet(Opened(w, k, i)) /\ Cardinality(Opened(w, k, i)) \in Nat
<1>1. IsFiniteSet(1 .. i - 1)
  BY FS_Interval
<1>2. QED
  BY <1>1, FS_Subset, FS_CardinalityType DEF Opened

\* Each further step comes later.
LEMMA OpenedMore ==
  ASSUME NEW w, NEW k, NEW i \in Nat \ {0}, NEW j \in Nat, i < j, First(w, k, i) = k
  PROVE  Cardinality(Opened(w, k, i)) + 1 <= Cardinality(Opened(w, k, j))
<1>1. IsFiniteSet(Opened(w, k, i)) /\ Cardinality(Opened(w, k, i)) \in Nat
  BY OpenedFinite
<1>2. IsFiniteSet(Opened(w, k, j)) /\ Cardinality(Opened(w, k, j)) \in Nat
  BY OpenedFinite
<1>3. i \notin Opened(w, k, i)
  BY DEF Opened
<1>4. Cardinality(Opened(w, k, i) \cup {i}) = Cardinality(Opened(w, k, i)) + 1
  BY <1>1, <1>3, FS_AddElement
<1>5. Opened(w, k, i) \cup {i} \subseteq Opened(w, k, j)
  BY DEF Opened
<1>6. QED
  BY <1>1, <1>2, <1>4, <1>5, FS_Subset

\* All the index blocks that a block opens.
LEMMA OpenedAll ==
  ASSUME NEW w \in Widths, NEW k \in Nat
  PROVE  Cardinality(Opened(w, k, Len(file_path(w, k))))
           = index_blocks(w, k + 1) - index_blocks(w, k)
<1>0. w \in Nat \ {0} /\ index_blocks(w, k) \in Nat
  <2>1. w \in Nat \ {0}
    BY DEF Widths
  <2>2. QED
    BY <2>1, IndexNat
<1>1. CASE k \in 0 .. 3
  <2>1. Opened(w, k, 1) = {} /\ Len(file_path(w, k)) = 1
    BY <1>1, DirectTops DEF Opened
  <2>2. Cardinality({}) = 0
    BY FS_EmptySet
  <2>3. index_blocks(w, k + 1) = index_blocks(w, k)
    BY <1>1, Direct
  <2>4. QED
    BY <1>0, <2>1, <2>2, <2>3
<1>2. ASSUME NEW a, InInd(w, a, k)
      PROVE  Cardinality(Opened(w, k, Len(file_path(w, k))))
               = index_blocks(w, k + 1) - index_blocks(w, k)
  <2>1. Len(file_path(w, k)) = 2 /\ First(w, k, 1) = 4
    BY <1>2, IndirectTops
  <2>2. Opened(w, k, 2) = IF a = 0 THEN {1} ELSE {}
    BY <1>2, <2>1 DEF Opened, InInd
  <2>3. Cardinality({1}) = 1 /\ Cardinality({}) = 0
    BY FS_Singleton, FS_EmptySet
  <2>4. index_blocks(w, k + 1) = index_blocks(w, k) + (IF a = 0 THEN 1 ELSE 0)
    BY <1>2, Indirect
  <2>5. QED
    BY <1>0, <2>1, <2>2, <2>3, <2>4
<1>3. ASSUME NEW a, NEW b, InBind(w, a, b, k)
      PROVE  Cardinality(Opened(w, k, Len(file_path(w, k))))
               = index_blocks(w, k + 1) - index_blocks(w, k)
  <2>0. a \in Nat /\ b \in Nat /\ k = 4 + w + a * w + b
    BY <1>0, <1>3 DEF InBind
  <2>1. /\ Len(file_path(w, k)) = 3 /\ First(w, k, 1) = 4 + w
        /\ First(w, k, 2) = 4 + w + a * w
    BY <1>3, DoubleTops
  <2> DEFINE f == IF b # 0 THEN 3 ELSE IF a # 0 THEN 2 ELSE 1
  <2>2. Opened(w, k, 3) = f .. 2
    <3>1. First(w, k, 2) = k <=> b = 0
      BY <1>0, <2>0, <2>1
    <3>2. First(w, k, 1) = k <=> a = 0 /\ b = 0
      BY <1>0, <2>0, <2>1
    <3>3. QED
      BY <2>0, <3>1, <3>2 DEF Opened
  <2>3. index_blocks(w, k + 1) =
          index_blocks(w, k) + (IF b # 0 THEN 0 ELSE IF a # 0 THEN 1 ELSE 2)
    BY <1>3, Double
  <2>4. Cardinality(f .. 2) = 3 - f
    <3>1. f \in 1 .. 3
      BY <2>0
    <3> HIDE DEF f
    <3>2. QED
      BY <3>1, FS_Interval
  <2>5. Cardinality(Opened(w, k, 3)) = 3 - f
    BY <2>2, <2>4
  <2>6. index_blocks(w, k + 1) - index_blocks(w, k) = 3 - f
    BY <1>0, <2>0, <2>3
  <2> HIDE DEF f
  <2>7. QED
    BY <2>1, <2>5, <2>6
<1>4. ASSUME NEW a, NEW b, NEW c, InTind(w, a, b, c, k)
      PROVE  Cardinality(Opened(w, k, Len(file_path(w, k))))
               = index_blocks(w, k + 1) - index_blocks(w, k)
  <2>0. a \in Nat /\ b \in Nat /\ c \in Nat /\ k = 4 + w + w * w + (a * w + b) * w + c
    BY <1>0, <1>4 DEF InTind
  <2>1. /\ Len(file_path(w, k)) = 4 /\ First(w, k, 1) = 4 + w + w * w
        /\ First(w, k, 2) = 4 + w + w * w + (a * w) * w
        /\ First(w, k, 3) = 4 + w + w * w + (a * w + b) * w
    BY <1>4, TripleTops
  <2> DEFINE f == IF c # 0 THEN 4 ELSE IF b # 0 THEN 3 ELSE IF a # 0 THEN 2 ELSE 1
  <2>2. Opened(w, k, 4) = f .. 3
    <3>1. First(w, k, 3) = k <=> c = 0
      BY <1>0, <2>0, <2>1
    <3>2. PICK x \in Nat, y \in Nat : x = (a * w) * w /\ y = b * w /\ (x = 0 <=> a = 0)
                                      /\ (y = 0 <=> b = 0)
      BY <1>0, <2>0
    <3>3. (a * w + b) * w = x + y
      BY <1>0, <2>0, <3>2
    <3>4. First(w, k, 2) = k <=> b = 0 /\ c = 0
      BY <1>0, <2>0, <2>1, <3>2, <3>3
    <3>5. First(w, k, 1) = k <=> a = 0 /\ b = 0 /\ c = 0
      BY <1>0, <2>0, <2>1, <3>2, <3>3
    <3>6. QED
      BY <2>0, <3>1, <3>4, <3>5 DEF Opened
  <2>3. index_blocks(w, k + 1) = index_blocks(w, k)
          + (IF c # 0 THEN 0 ELSE IF b # 0 THEN 1 ELSE IF a # 0 THEN 2 ELSE 3)
    BY <1>4, Triple
  <2>4. Cardinality(f .. 3) = 4 - f
    <3>1. f \in 1 .. 4
      BY <2>0
    <3> HIDE DEF f
    <3>2. QED
      BY <3>1, FS_Interval
  <2>5. Cardinality(Opened(w, k, 4)) = 4 - f
    BY <2>2, <2>4
  <2>6. index_blocks(w, k + 1) - index_blocks(w, k) = 4 - f
    BY <1>0, <2>0, <2>3
  <2> HIDE DEF f
  <2>7. QED
    BY <2>1, <2>5, <2>6
<1>5. QED
  BY <1>1, <1>2, <1>3, <1>4, Shapes

\* Path p is that of its first block k, cut short behind the i-th step.
PathAt(w, p, k, i) ==
    /\ i \in 1 .. Len(file_path(w, k))
    /\ p = Top(w, k, i) /\ First(w, k, i) = k /\ first_block(w, p) = k
    /\ Len(p) = i /\ p[1] = file_path(w, k)[1]
    /\ opened_with(w, p) = Cardinality(Opened(w, k, i))
    /\ IsIndex(p) <=> i < Len(file_path(w, k))

\* Every path of a file is the path of its first block, cut short.
LEMMA PathOf ==
  ASSUME NEW w \in Widths, NEW m \in Nat, NEW p \in paths(w, m)
  PROVE  \E k \in 0 .. m - 1, i \in Nat \ {0} : PathAt(w, p, k, i)
<1>1. PICK n \in 0 .. m - 1 : \E i \in 1 .. Len(file_path(w, n)) : p = Top(w, n, i)
  BY DEF paths, Top
<1>2. PICK i \in 1 .. Len(file_path(w, n)) : p = Top(w, n, i)
  BY <1>1
<1>3. n \in Nat
  OBVIOUS
<1>4. CutAt(w, n, i)
  BY <1>2, <1>3, Cut
<1>5. PICK k \in 0 .. n : k = First(w, n, i)
  BY <1>4 DEF CutAt
<1>6. /\ Len(file_path(w, k)) = Len(file_path(w, n)) /\ p = Top(w, k, i)
      /\ k \in Nat /\ k \in 0 .. m - 1 /\ i \in 1 .. Len(file_path(w, k))
  BY <1>2, <1>3, <1>4, <1>5 DEF CutAt
<1>7. first_block(w, p) = k /\ First(w, k, i) = k
  <2>1. First(w, n, i) = first_block(w, p)
    BY <1>2 DEF First
  <2>2. First(w, k, i) = first_block(w, p)
    BY <1>6 DEF First
  <2>3. QED
    BY <1>5, <2>1, <2>2
<1>8. /\ file_path(w, k) \in Seq(Nat) /\ Len(file_path(w, k)) \in 1 .. 4
      /\ file_path(w, k)[1] \in 0 .. 6
      /\ Len(file_path(w, k)) = IF file_path(w, k)[1] < 4 THEN 1 ELSE file_path(w, k)[1] - 2
  BY <1>6, PathType
<1>9. Len(p) = i /\ p[1] = file_path(w, k)[1]
  BY <1>6, <1>8 DEF Top
<1>10. \A j \in 1 .. i - 1 : SubSeq(p, 1, j) = Top(w, k, j)
  BY <1>6, <1>8 DEF Top
<1>11. opened_with(w, p) = Cardinality(Opened(w, k, i))
  <2>1. {j \in 1 .. Len(p) - 1 : first_block(w, SubSeq(p, 1, j)) = first_block(w, p)} = Opened(w, k, i)
    BY <1>7, <1>9, <1>10 DEF Opened, First
  <2>2. QED
    BY <2>1 DEF opened_with
<1>12. IsIndex(p) <=> i < Len(file_path(w, k))
  <2>1. PICK s \in 0 .. 6, l \in 1 .. 4 : s = file_path(w, k)[1] /\ l = Len(file_path(w, k))
    BY <1>8
  <2>2. IsIndex(p) <=> i < s - 2
    BY <1>9, <2>1 DEF IsIndex
  <2>3. l = (IF s < 4 THEN 1 ELSE s - 2) /\ i \in 1 .. l
    BY <1>6, <1>8, <2>1
  <2>4. QED
    BY <2>1, <2>2, <2>3
<1>13. PathAt(w, p, k, i)
  BY <1>6, <1>7, <1>9, <1>11, <1>12 DEF PathAt
<1>14. i \in Nat \ {0}
  BY <1>6, <1>8
<1>15. QED
  BY <1>6, <1>13, <1>14

\* Where mkudbfs and where the library puts the block of a path, counted from the
\* file's first block.
Place(w, p) == first_block(w, p) + index_blocks(w, first_block(w, p)) + opened_with(w, p)
LibPlace(w, p) == first_block(w, p) + index_blocks(w, first_block(w, p))
                    + (IF IsIndex(p) THEN 1 + opened_with(w, p) ELSE 0)

\* Both put it behind all blocks before it, with their index blocks, and before
\* all later ones.
LEMMA PlaceBounds ==
  ASSUME NEW w \in Widths, NEW m \in Nat, NEW p \in paths(w, m)
  PROVE  \E k \in 0 .. m - 1 :
           /\ k = first_block(w, p)
           /\ Place(w, p) \in k + index_blocks(w, k) .. k + index_blocks(w, k + 1)
           /\ LibPlace(w, p) \in k + index_blocks(w, k) .. k + index_blocks(w, k + 1)
<1>1. PICK k \in 0 .. m - 1, i \in Nat \ {0} : PathAt(w, p, k, i)
  BY PathOf
<1> USE DEF PathAt
<1>2. k \in Nat /\ index_blocks(w, k) \in Nat /\ index_blocks(w, k + 1) \in Nat
  BY Grows
<1>3. PICK l \in Nat : l = Len(file_path(w, k)) /\ i \in Nat \ {0} /\ i <= l
  BY <1>1, <1>2, PathType
<1>4. PICK c \in Nat : c = Cardinality(Opened(w, k, i))
  BY <1>3, OpenedFinite
<1>5. PICK d \in Nat : d = Cardinality(Opened(w, k, l))
  BY <1>3, OpenedFinite
<1>6. d = index_blocks(w, k + 1) - index_blocks(w, k)
  BY <1>2, <1>3, <1>5, OpenedAll
<1>7. c <= d /\ (i < l => c + 1 <= d)
  <2>1. CASE i = l
    BY <1>4, <1>5, <2>1
  <2>2. CASE i < l
    <3>1. Cardinality(Opened(w, k, i)) + 1 <= Cardinality(Opened(w, k, l))
      BY <1>1, <1>3, <2>2, OpenedMore
    <3>2. QED
      BY <1>4, <1>5, <3>1
  <2>3. QED
    BY <1>3, <2>1, <2>2
<1>8. Place(w, p) = k + index_blocks(w, k) + c
  BY <1>1, <1>4 DEF Place
<1>9. LibPlace(w, p) = k + index_blocks(w, k) + (IF i < l THEN 1 + c ELSE 0)
  BY <1>1, <1>3, <1>4 DEF LibPlace
<1>10. QED
  BY <1>1, <1>2, <1>6, <1>7, <1>8, <1>9, SMTT(60)

\* No two blocks are put in one place.
LEMMA PlacesApart ==
  ASSUME NEW w \in Widths, NEW m \in Nat, NEW p \in paths(w, m), NEW q \in paths(w, m), p # q
  PROVE  Place(w, p) # Place(w, q) /\ LibPlace(w, p) # LibPlace(w, q)
<1>1. PICK k \in 0 .. m - 1, i \in Nat \ {0} : PathAt(w, p, k, i)
  BY PathOf
<1>2. PICK n \in 0 .. m - 1, j \in Nat \ {0} : PathAt(w, q, n, j)
  BY PathOf
<1> USE DEF PathAt
<1>3. k \in Nat /\ n \in Nat /\ index_blocks(w, k) \in Nat /\ index_blocks(w, n) \in Nat
  BY Grows
<1>4. CASE k = n
  <2>1. PICK l \in Nat : l = Len(file_path(w, k)) /\ i <= l /\ j <= l
    BY <1>1, <1>2, <1>3, <1>4, PathType
  <2>2. i # j
    BY <1>1, <1>2, <1>4
  <2>3. PICK c \in Nat, d \in Nat : c = opened_with(w, p) /\ d = opened_with(w, q)
    BY <1>1, <1>2, <1>4, <2>1, OpenedFinite
  <2>4. (i < j => c + 1 <= d) /\ (j < i => d + 1 <= c)
    <3>1. CASE i < j
      BY <1>1, <1>2, <1>4, <2>1, <2>3, <3>1, OpenedMore
    <3>2. CASE j < i
      BY <1>1, <1>2, <1>4, <2>1, <2>3, <3>2, OpenedMore
    <3>3. QED
      BY <2>1, <2>2, <2>3, <3>1, <3>2
  <2>5. Place(w, p) = k + index_blocks(w, k) + c /\ Place(w, q) = k + index_blocks(w, k) + d
    BY <1>1, <1>2, <1>4, <2>3 DEF Place
  <2>6. /\ LibPlace(w, p) = k + index_blocks(w, k) + (IF i < l THEN 1 + c ELSE 0)
        /\ LibPlace(w, q) = k + index_blocks(w, k) + (IF j < l THEN 1 + d ELSE 0)
    BY <1>1, <1>2, <1>4, <2>1, <2>3 DEF LibPlace
  <2>7. Place(w, p) # Place(w, q)
    BY <1>3, <2>2, <2>3, <2>4, <2>5
  <2>8. LibPlace(w, p) # LibPlace(w, q)
    <3>1. PICK g \in Nat : g = k + index_blocks(w, k)
      BY <1>3
    <3>2. /\ LibPlace(w, p) = g + (IF i < l THEN 1 + c ELSE 0)
          /\ LibPlace(w, q) = g + (IF j < l THEN 1 + d ELSE 0)
      BY <2>6, <3>1
    <3>6. i \in Nat /\ j \in Nat /\ l \in Nat /\ c \in Nat /\ d \in Nat /\ g \in Nat
      BY <1>1, <1>2, <2>1, <2>3, <3>1
    <3>7. (g + (IF i < l THEN 1 + c ELSE 0)) # (g + (IF j < l THEN 1 + d ELSE 0))
      BY ONLY <2>1, <2>2, <2>4, <3>6
    <3>8. QED
      BY <3>2, <3>7
  <2>9. QED
    BY <2>7, <2>8
<1>5. CASE k # n
  <2>1. /\ Place(w, p) \in k + index_blocks(w, k) .. k + index_blocks(w, k + 1)
        /\ LibPlace(w, p) \in k + index_blocks(w, k) .. k + index_blocks(w, k + 1)
    BY <1>1, PlaceBounds
  <2>2. /\ Place(w, q) \in n + index_blocks(w, n) .. n + index_blocks(w, n + 1)
        /\ LibPlace(w, q) \in n + index_blocks(w, n) .. n + index_blocks(w, n + 1)
    BY <1>2, PlaceBounds
  <2>3. index_blocks(w, k + 1) \in Nat /\ index_blocks(w, n + 1) \in Nat
    BY <1>3, IndexNat
  <2>4. k < n => index_blocks(w, k + 1) <= index_blocks(w, n)
    BY <1>3, Grows
  <2>5. n < k => index_blocks(w, n + 1) <= index_blocks(w, k)
    BY <1>3, Grows
  <2>6. QED
    BY <1>3, <1>5, <2>1, <2>2, <2>3, <2>4, <2>5
<1>6. QED
  BY <1>4, <1>5
-----------------------------------------------------------------------------
\* mkudbfs: the invariant.

\* A list of columns.
IsTable(c) == c \in Seq(Column)

\* The bytes of a block, the ids in it, the bytes of a bitmap of n bits, and the
\* blocks of x bytes.
BS(s)          == 2 ^ (7 + s)
Width(s)       == 2 ^ (4 + s)
Bytes(n)       == (n + 7) \div 8
InBlocks(s, x) == (x + BS(s) - 1) \div BS(s)

\* The first block of the bitmaps and of the root table.
MapsAt(s, m)    == inode_first_block(s) + InBlocks(s, m * INODE)
RootAt(s, n, m) == MapsAt(s, m) + InBlocks(s, Bytes(m) + Bytes(n))

\* How many blocks the root table with columns c takes, and the block behind it.
RootSize(s, c)      == InBlocks(s, table_bytes(c))
RootEnd(s, n, m, c) == LET k == Kept(Width(s), RootSize(s, c))
                       IN  RootAt(s, n, m) + k + index_blocks(Width(s), k)

\* A bitmap of n bits whose first bits are taken.
Bitmap(n, taken) == [next |-> taken, limit |-> 8 * Bytes(n), count |-> n - taken,
                     bytes |-> Bytes(n), run |-> "ok"]

\* The blocks of the root table, by their paths.
RootIds(s, n, m, c) == file_tree(Width(s), Bitmap(n, RootAt(s, n, m)), RootSize(s, c)).id

\* The steps after the layout, and after the root table.
LaidOut == {"reserve", "table", "column", "root", "bad", "journal", "super", "bitmaps", "done"}
Filed   == {"bad", "journal", "super", "bitmaps", "done"}

\* The superblock, and the blocks and inodes taken, at step p.
SuperAt(p, s, n, m) ==
    [block_size |-> s, block_count |-> n, inode_first_block |-> inode_first_block(s),
     inode_count |-> m, boot_loader_inode |-> 0,
     bitmaps_block   |-> IF p = "reserve" THEN 0 ELSE MapsAt(s, m),
     bad_block_inode |-> IF p \in Filed \ {"bad"} THEN 1 ELSE 0,
     journal_inode   |-> IF p \in Filed \ {"bad", "journal"} THEN 2 ELSE 0]

BlocksTaken(p, s, n, m, c) == IF p = "reserve" THEN 0
                              ELSE IF p \in Filed THEN RootEnd(s, n, m, c) ELSE RootAt(s, n, m)

InodesTaken(p) == CASE p \in {"reserve", "table"} -> 0
                    [] p \in {"column", "root", "bad"} -> 1
                    [] p = "journal" -> 2
                    [] p \in {"super", "bitmaps", "done"} -> 3

\* The extents of a formatted device.
RootExtents(s, id) == {Extent(id[p] * BS(s), BS(s), block_content(Width(s), id, p)) : p \in DOMAIN id}

\* An inode,
InodeExtent(s, i, content) == Extent(i * INODE + inode_first_block(s) * BS(s), INODE, content)

\* the superblock,
SuperExtent(s, n, m, c) ==
    Extent(KB, SUPER, [kind |-> "super", free_block_count |-> n - RootEnd(s, n, m, c),
                       free_inode_count |-> m - 3, sb |-> SuperAt("done", s, n, m)])

\* the two bitmaps,
BlockMap(s, n, m, c) ==
    Extent(BS(s) * MapsAt(s, m), Bytes(n),
           [kind |-> "bitmap", free |-> RootEnd(s, n, m, c) .. 8 * Bytes(n) - 1])
InodeMap(s, n, m) ==
    Extent(BS(s) * MapsAt(s, m) + Bytes(n), Bytes(m),
           [kind |-> "bitmap", free |-> 3 .. 8 * Bytes(m) - 1])

\* the root table, the bad blocks and the journal.
Inode0(s, n, m, c) == InodeExtent(s, 0, inode_content(table_bytes(c), RootIds(s, n, m, c)))
InodeN(s, i)       == InodeExtent(s, i, inode_content(0, <<>>))

\* All that is written at step p.
DiskAt(p, s, n, m, c) ==
    (IF p \in Filed
     THEN RootExtents(s, RootIds(s, n, m, c)) \cup {Inode0(s, n, m, c)} ELSE {})
    \cup (IF p \in Filed \ {"bad"} THEN {InodeN(s, 1)} ELSE {})
    \cup (IF p \in Filed \ {"bad", "journal"} THEN {InodeN(s, 2)} ELSE {})
    \cup (IF p \in {"bitmaps", "done"} THEN {SuperExtent(s, n, m, c)} ELSE {})
    \cup (IF p = "done" THEN {BlockMap(s, n, m, c), InodeMap(s, n, m)} ELSE {})

\* The layout of a file system of n blocks and m inodes in z bytes.
Layed(z, s, n, m) == /\ s \in 1 .. 5 /\ n \in Nat /\ m \in Nat
                     /\ n >= 64 /\ m >= 64 /\ n * BS(s) <= z
                     /\ s = 2 => n < 4000
                     /\ n <= Width(s) * Width(s) * Width(s)

\* The file system at step p.
Formatted(p, z, s, n, m, c) ==
    /\ Layed(z, s, n, m)
    /\ BlocksTaken(p, s, n, m, c) <= n
    /\ sb = SuperAt(p, s, n, m)
    /\ bb = Bitmap(n, BlocksTaken(p, s, n, m, c))
    /\ ib = Bitmap(m, InodesTaken(p))
    /\ disk = DiskAt(p, s, n, m, c)

\* Unless a run allows it, no block of a table of q columns is left out.
Whole(s, q) == LET k == InBlocks(s, TABLE + COLUMN * q)
               IN  Kept(Width(s), k) = k \/ "odd_block" \in Allow

\* The columns with the larger boundaries come first.
Sorted(c) == \A k \in 1 .. Len(c) - 1 :
                natural_boundary[c[k].type] >= natural_boundary[c[k + 1].type]

\* The invariant of mkudbfs: at each step what it has written, byte by byte, and
\* what its variables hold.
FInv ==
    /\ TypeOK
    /\ IsTable(todo) /\ IsTable(cols)
    /\ pc \in {"probe", "layout"} => fs_bytes(dev) >= 64 * 256
    /\ pc \in {"probe", "layout", "reserve"} => todo = <<>> /\ cols = <<>> /\ disk = {}
    /\ pc = "probe" => dev.asked = 0 /\ (delta = Delta \/ dev.bytes <= size + 2 * delta)
    /\ pc = "layout" => size = fs_bytes(dev)
    /\ SizeFound
    /\ pc # "wild"
    /\ pc \in {"halt", "killed"} => \A e \in disk : e.at # KB
    /\ pc \in LaidOut =>
         \E z \in {size}, s \in {sb.block_size}, n \in {sb.block_count}, m \in {sb.inode_count},
            c \in {cols}, p \in {pc} : Formatted(p, z, s, n, m, c)
    /\ pc \in LaidOut \ {"reserve", "table"} =>
         \E s \in {sb.block_size}, q \in {Len(todo) + Len(cols)} : Whole(s, q)
    /\ pc \in Filed \cup {"root"} => todo = <<>> /\ \E c \in {cols} : Sorted(c)
-----------------------------------------------------------------------------
\* The sizes.

\* The five block sizes mkudbfs chooses between.
LEMMA Sizes ==
  ASSUME NEW s \in 1 .. 5
  PROVE  /\ Width(s) \in Widths /\ BS(s) = 8 * Width(s) /\ BS(s) \in Nat \ {0}
         /\ BS(s) \in {256, 512, 1024, 2048, 4096}
         /\ inode_first_block(s) \in 1 .. 8 /\ inode_first_block(s) * BS(s) >= 2048
         /\ 8 * Width(s) = 2 ^ (s + 7)
<1>1. 2 ^ 5 = 32 /\ 2 ^ 6 = 64 /\ 2 ^ 7 = 128 /\ 2 ^ 8 = 256 /\ 2 ^ 9 = 512
      /\ 2 ^ 10 = 1024 /\ 2 ^ 11 = 2048
      /\ 2 ^ 12 = 4096 /\ 2 ^ 3 = 8 /\ 2 ^ 2 = 4 /\ 2 ^ 1 = 2
  OBVIOUS
<1>2. CASE s = 1
  BY <1>1, <1>2 DEF BS, Width, Widths, inode_first_block
<1>3. CASE s = 2
  BY <1>1, <1>3 DEF BS, Width, Widths, inode_first_block
<1>4. CASE s = 3
  BY <1>1, <1>4 DEF BS, Width, Widths, inode_first_block
<1>5. CASE s = 4
  BY <1>1, <1>5 DEF BS, Width, Widths, inode_first_block
<1>6. CASE s = 5
  BY <1>1, <1>6 DEF BS, Width, Widths, inode_first_block
<1>7. QED
  BY <1>2, <1>3, <1>4, <1>5, <1>6

\* The same, for proofs that need no more than numbers.
LEMMA SizesNat ==
  ASSUME NEW s \in 1 .. 5
  PROVE  /\ BS(s) \in Nat /\ inode_first_block(s) \in Nat /\ Width(s) \in Nat
         /\ inode_first_block(s) * BS(s) >= 2048
<1>1. PICK b \in {256, 512, 1024, 2048, 4096}, f \in 1 .. 8, w \in Widths :
           b = BS(s) /\ f = inode_first_block(s) /\ w = Width(s)
  BY Sizes
<1>2. inode_first_block(s) * BS(s) >= 2048
  BY Sizes
<1>3. b \in Nat /\ f \in Nat /\ w \in Nat
  BY DEF Widths
<1>4. QED
  BY <1>1, <1>2, <1>3

\* A bitmap has at least a bit for each number.
LEMMA BytesNat ==
  ASSUME NEW n \in Nat
  PROVE  Bytes(n) \in Nat /\ 8 * Bytes(n) >= n /\ (n > 0 => Bytes(n) > 0)
BY DEF Bytes

\* The blocks that x bytes take hold them.
LEMMA InBlocksNat ==
  ASSUME NEW s \in 1 .. 5, NEW x \in Nat
  PROVE  InBlocks(s, x) \in Nat /\ x <= InBlocks(s, x) * BS(s) /\ InBlocks(s, x) <= x
<1>1. PICK b \in {256, 512, 1024, 2048, 4096} : b = BS(s)
  BY Sizes
<1>2. QED
  BY <1>1 DEF InBlocks

\* allocate_block and allocate_inode on a bitmap whose first t bits are taken.
LEMMA AllocatedBitmap ==
  ASSUME NEW n \in Nat, NEW t \in 0 .. n, NEW k \in Nat
  PROVE  Allocated(Bitmap(n, t), k) = IF k <= n - t THEN Bitmap(n, t + k)
                                      ELSE [Bitmap(n, t) EXCEPT !.run = "halt"]
<1>1. Bytes(n) \in Nat /\ 8 * Bytes(n) >= n
  BY BytesNat
<1>2. CASE k <= n - t
  <2>1. k <= Bitmap(n, t).limit - Bitmap(n, t).next /\ k <= Bitmap(n, t).count
    BY <1>1, <1>2 DEF Bitmap
  <2>2. Allocated(Bitmap(n, t), k) = [Bitmap(n, t) EXCEPT !.next = @ + k, !.count = @ - k]
    BY <2>1 DEF Allocated
  <2>3. n - t - k = n - (t + k)
    OBVIOUS
  <2>4. QED
    BY <1>2, <2>2, <2>3 DEF Bitmap
<1>3. CASE ~(k <= n - t)
  <2>1. ~(k <= Bitmap(n, t).count)
        /\ Bitmap(n, t).count <= Bitmap(n, t).limit - Bitmap(n, t).next
    BY <1>1, <1>3 DEF Bitmap
  <2>2. QED
    BY <1>3, <2>1 DEF Allocated
<1>4. QED
  BY <1>2, <1>3

\* The smaller of two numbers,
LEMMA MinOf ==
  ASSUME NEW a \in Int, NEW b \in Int, a <= b
  PROVE  Min({a, b}) = a
BY DEF Min

\* and the larger.
LEMMA MaxOf ==
  ASSUME NEW a \in Int, NEW b \in Int
  PROVE  Max({a, b}) = IF a >= b THEN a ELSE b
BY DEF Max

\* generate_bitmap starts with all bits free.
LEMMA Generated ==
  ASSUME NEW n \in Nat, n >= 64
  PROVE  generate_bitmap(n) = Bitmap(n, 0)
<1>1. Min({8, n \div 8}) = 8
  BY MinOf
<1>2. PICK b \in Nat : b = (n + 7) \div 8
  OBVIOUS
<1>3. 8 * (b - 1) + 8 = 8 * b /\ n - 0 = n
  BY <1>2
<1>4. generate_bitmap(n) = [NoMap EXCEPT !.limit = 8 * b, !.count = n, !.bytes = b]
  BY <1>1, <1>2, <1>3 DEF generate_bitmap
<1>5. Bitmap(n, 0) = [next |-> 0, limit |-> 8 * b, count |-> n, bytes |-> b, run |-> "ok"]
  BY <1>2, <1>3 DEF Bitmap, Bytes
<1>6. QED
  BY <1>4, <1>5 DEF NoMap

\* Whatever the device, the block size leaves at least 64 blocks, and no more than
\* the three levels of index blocks reach; blocks of one sector are fewer than 4000.
LEMMA BlockSize ==
  ASSUME NEW z \in Nat, z >= 64 * 256, z \div 1024 < 2 ^ 21
  PROVE  /\ block_size(z) \in 1 .. 5
         /\ z \div BS(block_size(z)) \in Nat
         /\ z \div BS(block_size(z)) >= 64
         /\ (z \div BS(block_size(z))) * BS(block_size(z)) <= z
         /\ block_size(z) = 2 => z \div BS(2) < 4000
         /\ z \div BS(block_size(z)) <=
              Width(block_size(z)) * Width(block_size(z)) * Width(block_size(z))
<1> DEFINE S == {s \in 1 .. 5 : z \div 2 ^ (7 + s) >= 2000} \cup {1}
<1>1. PICK s \in S : \A t \in S : t <= s
  <2>0. 1 \in S /\ \A t \in S : t \in 1 .. 5
    OBVIOUS
  <2> HIDE DEF S
  <2>1. CASE 5 \in S
    BY <2>0, <2>1
  <2>2. CASE 5 \notin S /\ 4 \in S
    BY <2>0, <2>2
  <2>3. CASE 5 \notin S /\ 4 \notin S /\ 3 \in S
    BY <2>0, <2>3
  <2>4. CASE 5 \notin S /\ 4 \notin S /\ 3 \notin S /\ 2 \in S
    BY <2>0, <2>4
  <2>5. CASE 5 \notin S /\ 4 \notin S /\ 3 \notin S /\ 2 \notin S
    BY <2>0, <2>5
  <2>6. QED
    BY <2>0, <2>1, <2>2, <2>3, <2>4, <2>5
<1>2. block_size(z) = s
  <2>1. \A t \in S : t \in Int
    OBVIOUS
  <2>2. block_size(z) = Max(S)
    BY DEF block_size
  <2> HIDE DEF S
  <2>3. QED
    BY <1>1, <2>1, <2>2 DEF Max
<1>3. s \in 1 .. 5 /\ (s = 1 \/ z \div BS(s) >= 2000)
  BY DEF BS
<1>4. s # 5 => z \div BS(s + 1) < 2000
  <2>1. s # 5 => s + 1 \notin S
    <3> HIDE DEF S
    <3>1. QED
      BY <1>1, <1>3
  <2>2. s # 5 => s + 1 \in 1 .. 5
    BY <1>3
  <2>3. s # 5 => ~(z \div 2 ^ (7 + (s + 1)) >= 2000)
    BY <2>1, <2>2
  <2>4. s # 5 => BS(s + 1) \in {256, 512, 1024, 2048, 4096}
    BY <2>2, Sizes
  <2>5. QED
    BY <2>3, <2>4 DEF BS
<1>5. PICK b \in {256, 512, 1024, 2048, 4096} : b = BS(s)
  BY <1>3, Sizes
<1>6. /\ BS(1) = 256 /\ BS(2) = 512 /\ BS(3) = 1024 /\ BS(4) = 2048 /\ BS(5) = 4096
      /\ Width(1) = 32 /\ Width(2) = 64 /\ Width(3) = 128 /\ Width(4) = 256 /\ Width(5) = 512
  BY DEF BS, Width
<1>7. z \div b \in Nat /\ (z \div b) * b <= z
  BY <1>5
<1>8. z \div b >= 64
  BY <1>3, <1>5, <1>6
<1>9. s # 5 => z \div b < 4000
  <2>1. s # 5 => BS(s + 1) = 2 * b
    <3>1. /\ s = 1 => s + 1 = 2 /\ b = 256 /\ BS(s + 1) = 512
          /\ s = 2 => s + 1 = 3 /\ b = 512 /\ BS(s + 1) = 1024
          /\ s = 3 => s + 1 = 4 /\ b = 1024 /\ BS(s + 1) = 2048
          /\ s = 4 => s + 1 = 5 /\ b = 2048 /\ BS(s + 1) = 4096
      BY <1>5, <1>6
    <3>2. QED
      BY <1>3, <3>1
  <2>2. s # 5 => z \div (2 * b) < 2000
    BY <1>4, <2>1
  <2>3. QED
    BY <1>5, <2>2
<1>10. s = 5 => z \div b < 2 ^ 20
  <2>1. s = 5 => b = 4096
    BY <1>5, <1>6
  <2>2. 2 ^ 21 = 2 * 2 ^ 20 /\ 2 ^ 20 \in Nat
    OBVIOUS
  <2>3. QED
    BY <2>1, <2>2, SMT
<1>11. 4000 <= 32 * 32 * 32 /\ 2 ^ 20 <= 512 * 512 * 512
  BY SMT
<1>12. z \div b <= Width(s) * Width(s) * Width(s)
  <2>1. CASE s = 5
    BY <1>6, <1>7, <1>10, <1>11, <2>1, SMT
  <2>2. CASE s # 5
    BY <1>3, <1>6, <1>7, <1>9, <2>2, SMT
  <2>3. QED
    BY <2>1, <2>2
<1>13. QED
  BY <1>2, <1>3, <1>5, <1>6, <1>7, <1>8, <1>9, <1>12

\* There are at least 64 inodes.
LEMMA InodeCount ==
  ASSUME NEW z \in Nat
  PROVE  inode_count(z) \in Nat /\ inode_count(z) >= 64
<1>1. PICK q \in Nat : q = z \div (128 * KB)
  BY DEF KB
<1>2. inode_count(z) = Max({64, q})
  BY <1>1 DEF inode_count
<1>3. QED
  BY <1>2, MaxOf
-----------------------------------------------------------------------------
\* The regions of the file system, and extents.

\* The three regions of a file system lie behind each other, the first behind the
\* superblock.
LEMMA Regions ==
  ASSUME NEW s \in 1 .. 5, NEW n \in Nat, NEW m \in Nat
  PROVE  /\ MapsAt(s, m) \in Nat /\ RootAt(s, n, m) \in Nat
         /\ inode_first_block(s) * BS(s) + INODE * m <= MapsAt(s, m) * BS(s)
         /\ MapsAt(s, m) * BS(s) + Bytes(n) + Bytes(m) <= RootAt(s, n, m) * BS(s)
         /\ MapsAt(s, m) <= RootAt(s, n, m)
<1>1. PICK b \in {256, 512, 1024, 2048, 4096}, f \in 1 .. 8 : b = BS(s) /\ f = inode_first_block(s)
  BY Sizes
<1>2. PICK t \in Nat : t = InBlocks(s, m * INODE) /\ m * INODE <= t * b
  <2>1. m * INODE \in Nat
    BY DEF INODE
  <2>2. QED
    BY <1>1, <2>1, InBlocksNat, SMTT(60)
<1>3. PICK x \in Nat, y \in Nat : x = Bytes(n) /\ y = Bytes(m)
  BY BytesNat
<1>4. PICK u \in Nat : u = InBlocks(s, y + x) /\ y + x <= u * b
  <2>1. PICK g \in Nat : g = y + x
    BY <1>3
  <2>2. InBlocks(s, g) \in Nat /\ g <= InBlocks(s, g) * BS(s)
    BY InBlocksNat, SMTT(60)
  <2>3. QED
    BY <1>1, <2>1, <2>2
<1>5. MapsAt(s, m) = f + t /\ RootAt(s, n, m) = f + t + u
  BY <1>1, <1>2, <1>3, <1>4 DEF MapsAt, RootAt
<1>6. (f + t) * b = f * b + t * b /\ (f + t + u) * b = (f + t) * b + u * b
  BY <1>1
<1>7. f * b + INODE * m <= (f + t) * b
  BY <1>1, <1>2, <1>6 DEF INODE
<1>8. (f + t) * b + x + y <= (f + t + u) * b
  BY <1>1, <1>3, <1>4, <1>6
<1>9. QED
  BY <1>1, <1>3, <1>5, <1>7, <1>8

\* The bitmaps lie behind the inode table and the root table behind the bitmaps.
LEMMA RegionsNat ==
  ASSUME NEW s \in 1 .. 5, NEW n \in Nat, NEW m \in Nat
  PROVE  /\ MapsAt(s, m) \in Nat /\ RootAt(s, n, m) \in Nat
         /\ MapsAt(s, m) <= RootAt(s, n, m)
<1>1. MapsAt(s, m) \in Nat /\ RootAt(s, n, m) \in Nat
  BY Regions
<1>2. MapsAt(s, m) <= RootAt(s, n, m)
  BY Regions
<1>3. QED
  BY <1>1, <1>2

\* The root table takes a block at least.
LEMMA RootSizes ==
  ASSUME NEW s \in 1 .. 5, NEW c, IsTable(c)
  PROVE  /\ table_bytes(c) \in Nat /\ RootSize(s, c) \in Nat \ {0}
         /\ Kept(Width(s), RootSize(s, c)) \in Nat
<1>1. Len(c) \in Nat /\ table_bytes(c) \in Nat /\ table_bytes(c) >= 40
  BY DEF table_bytes, TABLE, COLUMN, IsTable
<1>2. InBlocks(s, table_bytes(c)) \in Nat /\ table_bytes(c) <= InBlocks(s, table_bytes(c)) * BS(s)
  BY <1>1, InBlocksNat
<1>3. RootSize(s, c) \in Nat /\ RootSize(s, c) # 0
  <2>1. BS(s) \in Nat
    BY Sizes
  <2>2. QED
    BY <1>1, <1>2, <2>1 DEF RootSize
<1>4. QED
  BY <1>1, <1>3 DEF Kept

\* Where a block of the root table lies.
LEMMA RootIdAt ==
  ASSUME NEW s \in 1 .. 5, NEW n \in Nat, NEW m \in Nat, NEW c, IsTable(c),
         NEW p \in DOMAIN RootIds(s, n, m, c)
  PROVE  RootIds(s, n, m, c)[p] = RootAt(s, n, m) + Place(Width(s), p)
<1>1. PICK w \in Widths, k \in Nat, r \in Nat :
             w = Width(s) /\ k = Kept(Width(s), RootSize(s, c)) /\ r = RootAt(s, n, m)
  <2>1. Width(s) \in Widths
    BY Sizes
  <2>2. Kept(Width(s), RootSize(s, c)) \in Nat
    BY RootSizes
  <2>3. RootAt(s, n, m) \in Nat
    BY Regions
  <2>4. QED
    BY <2>1, <2>2, <2>3
<1>2. Bitmap(n, r).next = r
  BY DEF Bitmap
<1>3. RootIds(s, n, m, c) = [q \in paths(w, k) |-> r + first_block(w, q)
               + index_blocks(w, first_block(w, q)) + opened_with(w, q)]
  BY <1>1, <1>2 DEF RootIds, file_tree
<1>4. p \in paths(w, k)
  BY <1>3
<1>5. PICK f \in 0 .. k - 1 : f = first_block(w, p)
  BY <1>4, PlaceBounds
<1>6. PICK o \in Nat : o = opened_with(w, p)
  <2>1. PICK k1 \in 0 .. k - 1, i \in Nat \ {0} : PathAt(w, p, k1, i)
    BY <1>4, PathOf
  <2>2. QED
    BY <2>1, OpenedFinite DEF PathAt
<1>7. PICK x \in Nat : x = index_blocks(w, f)
  <2>1. f \in Nat
    OBVIOUS
  <2>2. QED
    BY <2>1, IndexNat
<1>8. RootIds(s, n, m, c)[p] = r + f + x + o
  BY <1>3, <1>4, <1>5, <1>6, <1>7
<1>9. Place(w, p) = f + x + o
  BY <1>5, <1>6, <1>7 DEF Place
<1>10. r + f + x + o = r + (f + x + o)
  BY <1>5
<1>11. QED
  BY <1>1, <1>8, <1>9, <1>10

\* The blocks of the root table are the ones behind the bitmaps,
LEMMA RootBlocks ==
  ASSUME NEW s \in 1 .. 5, NEW n \in Nat, NEW m \in Nat, NEW c, IsTable(c)
  PROVE  /\ DOMAIN RootIds(s, n, m, c) = paths(Width(s), Kept(Width(s), RootSize(s, c)))
         /\ RootEnd(s, n, m, c) \in Nat /\ RootAt(s, n, m) <= RootEnd(s, n, m, c)
         /\ \A p \in DOMAIN RootIds(s, n, m, c) :
              RootIds(s, n, m, c)[p] \in RootAt(s, n, m) .. RootEnd(s, n, m, c) - 1
<1>1. PICK w \in Widths, k \in Nat, r \in Nat :
             w = Width(s) /\ k = Kept(Width(s), RootSize(s, c)) /\ r = RootAt(s, n, m)
  <2>1. Width(s) \in Widths
    BY Sizes
  <2>2. Kept(Width(s), RootSize(s, c)) \in Nat
    BY RootSizes
  <2>3. RootAt(s, n, m) \in Nat
    BY Regions
  <2>4. QED
    BY <2>1, <2>2, <2>3
<1>2. Bitmap(n, r).next = r
  BY DEF Bitmap
<1>3. RootIds(s, n, m, c) = [p \in paths(w, k) |-> r + first_block(w, p)
               + index_blocks(w, first_block(w, p)) + opened_with(w, p)]
  BY <1>1, <1>2 DEF RootIds, file_tree
<1>4. index_blocks(w, k) \in Nat
  BY IndexNat
<1>5. RootEnd(s, n, m, c) = r + k + index_blocks(w, k)
  BY <1>1 DEF RootEnd
<1>6. ASSUME NEW p \in paths(w, k)
      PROVE  /\ Place(w, p) \in 0 .. k + index_blocks(w, k) - 1
             /\ RootIds(s, n, m, c)[p] = r + Place(w, p)
  <2>1. PICK f \in 0 .. k - 1 : f = first_block(w, p)
           /\ Place(w, p) \in f + index_blocks(w, f) .. f + index_blocks(w, f + 1)
    BY PlaceBounds
  <2>2. f \in Nat /\ f < k
    OBVIOUS
  <2>3. index_blocks(w, f) \in Nat /\ index_blocks(w, f) <= index_blocks(w, f + 1)
          /\ index_blocks(w, f + 1) <= index_blocks(w, k) /\ index_blocks(w, f + 1) \in Nat
    <3>1. f + 1 \in Nat
      BY <2>2
    <3>2. index_blocks(w, f + 1) \in Nat
      BY <3>1, IndexNat
    <3>3. QED
      BY <2>2, <3>2, Grows
  <2>4. Place(w, p) \in 0 .. k + index_blocks(w, k) - 1
    BY <1>4, <2>1, <2>2, <2>3
  <2>5. RootIds(s, n, m, c)[p] = r + Place(w, p)
    <3>1. p \in DOMAIN RootIds(s, n, m, c)
      BY <1>3
    <3>2. QED
      BY <1>1, <3>1, RootIdAt
  <2>6. QED
    BY <2>4, <2>5
<1>8. DOMAIN RootIds(s, n, m, c) = paths(w, k)
  BY <1>3
<1>9. QED
  BY <1>1, <1>4, <1>5, <1>6, <1>8

\* each another one.
LEMMA RootBlocksApart ==
  ASSUME NEW s \in 1 .. 5, NEW n \in Nat, NEW m \in Nat, NEW c, IsTable(c),
         NEW p \in DOMAIN RootIds(s, n, m, c), NEW q \in DOMAIN RootIds(s, n, m, c), p # q
  PROVE  /\ RootIds(s, n, m, c)[p] \in Nat /\ RootIds(s, n, m, c)[q] \in Nat
         /\ RootIds(s, n, m, c)[p] # RootIds(s, n, m, c)[q]
<1>1. RootAt(s, n, m) \in Nat
  BY Regions
<1>2. \A t \in DOMAIN RootIds(s, n, m, c) :
         RootIds(s, n, m, c)[t] \in RootAt(s, n, m) .. RootEnd(s, n, m, c) - 1
  BY RootBlocks
<1>3. RootIds(s, n, m, c)[p] \in RootAt(s, n, m) .. RootEnd(s, n, m, c) - 1
  BY <1>2
<1>4. RootIds(s, n, m, c)[q] \in RootAt(s, n, m) .. RootEnd(s, n, m, c) - 1
  BY <1>2
<1>5. RootIds(s, n, m, c)[p] # RootIds(s, n, m, c)[q]
  <2>1. Width(s) \in Widths
    BY Sizes
  <2>2. Kept(Width(s), RootSize(s, c)) \in Nat
    BY RootSizes
  <2>3. DOMAIN RootIds(s, n, m, c) = paths(Width(s), Kept(Width(s), RootSize(s, c)))
    BY RootBlocks
  <2>4. /\ p \in paths(Width(s), Kept(Width(s), RootSize(s, c)))
        /\ q \in paths(Width(s), Kept(Width(s), RootSize(s, c)))
    BY <2>3
  <2>5. Place(Width(s), p) \in Int /\ Place(Width(s), q) \in Int
    BY <2>1, <2>2, <2>4, PlaceBounds
  <2>6. Place(Width(s), p) # Place(Width(s), q)
    BY <2>1, <2>2, <2>4, PlacesApart
  <2>8. /\ RootIds(s, n, m, c)[p] = RootAt(s, n, m) + Place(Width(s), p)
        /\ RootIds(s, n, m, c)[q] = RootAt(s, n, m) + Place(Width(s), q)
    BY RootIdAt
  <2>9. QED
    BY <1>1, <2>5, <2>6, <2>8
<1>6. QED
  BY <1>1, <1>3, <1>4, <1>5

\* Extents that do not overlap.
Apart(e, x) == e.at + e.len <= x.at \/ x.at + x.len <= e.at

\* An extent of the root table is a block of the root table's region.
LEMMA RootExtentAt ==
  ASSUME NEW s \in 1 .. 5, NEW n \in Nat, NEW m \in Nat, NEW c, IsTable(c),
         NEW e \in RootExtents(s, RootIds(s, n, m, c))
  PROVE  \E p \in DOMAIN RootIds(s, n, m, c) :
           LET b == RootIds(s, n, m, c)[p]
           IN  /\ b \in RootAt(s, n, m) .. RootEnd(s, n, m, c) - 1
               /\ e.at = b * BS(s) /\ e.len = BS(s)
               /\ e.what = block_content(Width(s), RootIds(s, n, m, c), p)
               /\ e.what.kind \in {"data", "index"}
<1>1. PICK p \in DOMAIN RootIds(s, n, m, c) :
             e = Extent(RootIds(s, n, m, c)[p] * BS(s), BS(s),
                        block_content(Width(s), RootIds(s, n, m, c), p))
  BY DEF RootExtents
<1>2. RootIds(s, n, m, c)[p] \in RootAt(s, n, m) .. RootEnd(s, n, m, c) - 1
  BY RootBlocks
<1>3. block_content(Width(s), RootIds(s, n, m, c), p).kind \in {"data", "index"}
  BY DEF block_content
<1>4. QED
  BY <1>1, <1>2, <1>3 DEF Extent

\* A write apart from all extents adds to them.
LEMMA WrittenApart ==
  ASSUME NEW d, NEW new, \A e \in d : \A x \in new : Apart(e, x)
  PROVE  Written(d, new) = d \cup new
BY DEF Written, Apart

\* What is read where one extent lies is its content.
LEMMA ContentAt ==
  ASSUME NEW d, NEW e \in d, \A x \in d : x.at = e.at /\ x.len = e.len => x = e
  PROVE  ContentOf(d, e.at, e.len) = e.what
<1>1. {x \in d : x.at = e.at /\ x.len = e.len} = {e}
  OBVIOUS
<1>2. QED
  BY <1>1 DEF ContentOf
-----------------------------------------------------------------------------
\* A device that is done, as it mounts.

\* The regions of a formatted device: where they begin and end.
Placed(s, n, m, c, F, M, R, x, y) ==
    /\ F = inode_first_block(s) * BS(s) /\ M = BS(s) * MapsAt(s, m)
    /\ R = RootAt(s, n, m) * BS(s)
    /\ x = Bytes(n) /\ y = Bytes(m) /\ x > 0 /\ y > 0
    /\ F >= 2048 /\ F + 64 * m <= M /\ M + x + y <= R
    /\ \A e \in RootExtents(s, RootIds(s, n, m, c)) : e.at \in Nat /\ e.at >= R
    /\ SuperExtent(s, n, m, c).at = 1024 /\ SuperExtent(s, n, m, c).len = 120
    /\ BlockMap(s, n, m, c).at = M /\ BlockMap(s, n, m, c).len = x
    /\ InodeMap(s, n, m).at = M + x /\ InodeMap(s, n, m).len = y

\* Where the extents of a formatted device begin and end.
LEMMA ExtentsAt ==
  ASSUME NEW s \in 1 .. 5, NEW n \in Nat, NEW m \in Nat, NEW c, IsTable(c), n >= 64, m >= 64
  PROVE  \E F, M, R, x, y \in Nat : Placed(s, n, m, c, F, M, R, x, y)
<1>1. /\ BS(s) \in Nat /\ inode_first_block(s) \in Nat /\ inode_first_block(s) * BS(s) >= 2048
  BY SizesNat
<1>2. /\ MapsAt(s, m) \in Nat /\ RootAt(s, n, m) \in Nat
      /\ inode_first_block(s) * BS(s) + INODE * m <= MapsAt(s, m) * BS(s)
      /\ MapsAt(s, m) * BS(s) + Bytes(n) + Bytes(m) <= RootAt(s, n, m) * BS(s)
  BY Regions
<1>3. PICK x \in Nat : x = Bytes(n) /\ x > 0
  BY BytesNat
<1>4. PICK y \in Nat : y = Bytes(m) /\ y > 0
  BY BytesNat
<1>5. PICK b \in Nat, f \in Nat, k \in Nat, r \in Nat :
           b = BS(s) /\ f = inode_first_block(s) /\ k = MapsAt(s, m) /\ r = RootAt(s, n, m)
  BY <1>1, <1>2
<1>6. f * b \in Nat /\ k * b = b * k /\ b * k \in Nat /\ r * b \in Nat
  OBVIOUS
<1>7. PICK F \in Nat, M \in Nat, R \in Nat : F = f * b /\ M = b * k /\ R = r * b
  BY <1>6
<1>8. F >= 2048 /\ F + 64 * m <= M /\ M + x + y <= R
  BY <1>1, <1>2, <1>3, <1>4, <1>5, <1>6, <1>7 DEF INODE
<1>9. ASSUME NEW e \in RootExtents(s, RootIds(s, n, m, c)) PROVE e.at \in Nat /\ e.at >= R
  <2>1. PICK j \in RootAt(s, n, m) .. RootEnd(s, n, m, c) - 1 : e.at = j * BS(s)
    <3>1. PICK p \in DOMAIN RootIds(s, n, m, c) :
                 /\ RootIds(s, n, m, c)[p] \in RootAt(s, n, m) .. RootEnd(s, n, m, c) - 1
                 /\ e.at = RootIds(s, n, m, c)[p] * BS(s)
      BY RootExtentAt
    <3>2. QED
      BY <3>1
  <2>2. PICK a \in Nat : j = r + a
    <3>1. j \in Int /\ r <= j
      BY <1>5, <2>1
    <3>2. j - r \in Nat /\ j = r + (j - r)
      BY <3>1
    <3>3. QED
      BY <3>2
  <2>3. (r + a) * b = r * b + a * b /\ a * b \in Nat
    OBVIOUS
  <2>4. e.at = (r + a) * b
    BY <1>5, <2>1, <2>2
  <2>5. QED
    BY <1>7, <2>3, <2>4
<1>10. /\ SuperExtent(s, n, m, c).at = 1024 /\ SuperExtent(s, n, m, c).len = 120
       /\ BlockMap(s, n, m, c).at = M /\ BlockMap(s, n, m, c).len = x
       /\ InodeMap(s, n, m).at = M + x /\ InodeMap(s, n, m).len = y
  BY <1>3, <1>4, <1>5, <1>7 DEF SuperExtent, BlockMap, InodeMap, Extent, KB, SUPER
<1>11. /\ F = inode_first_block(s) * BS(s) /\ M = BS(s) * MapsAt(s, m)
       /\ R = RootAt(s, n, m) * BS(s)
  BY <1>5, <1>7
<1>12. Placed(s, n, m, c, F, M, R, x, y)
  BY <1>3, <1>4, <1>8, <1>9, <1>10, <1>11 DEF Placed
<1>13. QED
  BY <1>12

\* The extents of a device that is done.
LEMMA DoneDisk ==
  ASSUME NEW s, NEW n, NEW m, NEW c
  PROVE  DiskAt("done", s, n, m, c) =
           RootExtents(s, RootIds(s, n, m, c)) \cup
           {Inode0(s, n, m, c), InodeN(s, 1), InodeN(s, 2), SuperExtent(s, n, m, c),
            BlockMap(s, n, m, c), InodeMap(s, n, m)}
BY DEF DiskAt, Filed

\* What is read back of it.
DoneReads(s, n, m, c, d) ==
    /\ ContentOf(d, KB, SUPER) = SuperExtent(s, n, m, c).what
    /\ ContentOf(d, BS(s) * MapsAt(s, m), Bytes(n)) = BlockMap(s, n, m, c).what
    /\ ContentOf(d, BS(s) * MapsAt(s, m) + Bytes(n), Bytes(m)) = InodeMap(s, n, m).what
    /\ ContentOf(d, inode_first_block(s) * BS(s), INODE) = Inode0(s, n, m, c).what
    /\ \A i \in 1 .. 2 :
         ContentOf(d, inode_first_block(s) * BS(s) + INODE * i, INODE) = InodeN(s, i).what

\* Each extent, where it was written.
LEMMA DoneContents ==
  ASSUME NEW s \in 1 .. 5, NEW n \in Nat, NEW m \in Nat, NEW c, IsTable(c), n >= 64, m >= 64,
         NEW d, d = DiskAt("done", s, n, m, c)
  PROVE  DoneReads(s, n, m, c, d)
<1>1. PICK F, M, R, x, y \in Nat : Placed(s, n, m, c, F, M, R, x, y)
  BY ExtentsAt
<1>2. PICK i0, i1, i2, su, bm, im :
         /\ i0 = Inode0(s, n, m, c) /\ i1 = InodeN(s, 1) /\ i2 = InodeN(s, 2)
         /\ su = SuperExtent(s, n, m, c) /\ bm = BlockMap(s, n, m, c) /\ im = InodeMap(s, n, m)
  OBVIOUS
<1>3. /\ i0.at = F /\ i0.len = 64 /\ i1.at = F + 64 /\ i1.len = 64 /\ i2.at = F + 128 /\ i2.len = 64
  <2>1. F = inode_first_block(s) * BS(s)
    BY <1>1 DEF Placed
  <2>3. 0 * INODE + F = F /\ 1 * INODE + F = F + 64 /\ 2 * INODE + F = F + 128
    BY DEF INODE
  <2>4. QED
    BY <1>2, <2>1, <2>3 DEF Inode0, InodeN, InodeExtent, Extent, INODE
<1>4. d = RootExtents(s, RootIds(s, n, m, c)) \cup {i0, i1, i2, su, bm, im}
  BY <1>2, DoneDisk
<1>5. /\ su.at = 1024 /\ su.len = 120 /\ bm.at = M /\ bm.len = x /\ im.at = M + x /\ im.len = y
  BY <1>1, <1>2 DEF Placed
<1>6. \A e \in d : \/ e.at \in Nat /\ e.at >= R
                   \/ e \in {i0, i1, i2, su, bm, im}
  BY <1>1, <1>4 DEF Placed
<1>7. /\ \A e \in d : e.at = 1024 => e = su
      /\ \A e \in d : e.at = M => e = bm
      /\ \A e \in d : e.at = M + x => e = im
      /\ \A e \in d : e.at = F => e = i0
      /\ \A e \in d : e.at = F + 64 => e = i1
      /\ \A e \in d : e.at = F + 128 => e = i2
  <2>1. F >= 2048 /\ F + 64 * m <= M /\ M + x + y <= R /\ x > 0 /\ y > 0
    BY <1>1 DEF Placed
  <2>2. SUFFICES ASSUME NEW e \in d
                 PROVE  /\ e.at = 1024 => e = su
                        /\ e.at = M => e = bm
                        /\ e.at = M + x => e = im
                        /\ e.at = F => e = i0
                        /\ e.at = F + 64 => e = i1
                        /\ e.at = F + 128 => e = i2
    OBVIOUS
  <2>3. CASE e.at \in Nat /\ e.at >= R
    BY <2>1, <2>3
  <2>4. CASE e \in {i0, i1, i2, su, bm, im}
    BY <1>3, <1>5, <2>1, <2>4
  <2>5. QED
    BY <1>6, <2>3, <2>4
<1>8. su \in d /\ bm \in d /\ im \in d /\ i0 \in d /\ i1 \in d /\ i2 \in d
  BY <1>4
<1>9. ContentOf(d, 1024, 120) = su.what
  BY <1>5, <1>7, <1>8, ContentAt
<1>10. ContentOf(d, M, x) = bm.what
  BY <1>5, <1>7, <1>8, ContentAt
<1>11. ContentOf(d, M + x, y) = im.what
  BY <1>5, <1>7, <1>8, ContentAt
<1>12. ContentOf(d, F, 64) = i0.what
  BY <1>3, <1>7, <1>8, ContentAt
<1>13. ContentOf(d, F + 64, 64) = i1.what
  BY <1>3, <1>7, <1>8, ContentAt
<1>14. ContentOf(d, F + 128, 64) = i2.what
  BY <1>3, <1>7, <1>8, ContentAt
<1>15. ASSUME NEW i \in 1 .. 2
       PROVE  ContentOf(d, inode_first_block(s) * BS(s) + INODE * i, INODE) = InodeN(s, i).what
  <2>1. CASE i = 1
    <3>1. F + 64 * 1 = F + 64
      OBVIOUS
    <3>2. QED
      BY <1>1, <1>2, <1>13, <2>1, <3>1 DEF INODE, Placed
  <2>2. CASE i = 2
    <3>1. F + 64 * 2 = F + 128
      OBVIOUS
    <3>2. QED
      BY <1>1, <1>2, <1>14, <2>2, <3>1 DEF INODE, Placed
  <2>3. QED
    BY <2>1, <2>2
<1>16. QED
  BY <1>1, <1>2, <1>9, <1>10, <1>11, <1>12, <1>15 DEF KB, SUPER, INODE, Placed, DoneReads

\* The operators of the model, for the block size a superblock has.
LEMMA ModelSizes ==
  ASSUME NEW p, NEW s \in 1 .. 5, NEW n, NEW m, sb = SuperAt(p, s, n, m)
  PROVE  /\ BLOCK_SIZE = BS(s) /\ Entries = Width(s)
         /\ \A x : Blocks(x) = InBlocks(s, x)
         /\ \A id : inode_at(id) = id * INODE + inode_first_block(s) * BS(s)
<1>1. sb.block_size = s /\ sb.inode_first_block = inode_first_block(s)
  BY DEF SuperAt
<1>2. BLOCK_SIZE = BS(s) /\ Entries = Width(s)
  BY <1>1 DEF BLOCK_SIZE, Entries, BS, Width
<1>3. QED
  BY <1>1, <1>2 DEF Blocks, InBlocks, inode_at

\* What udbfs_mount finds on a device that is done.
LEMMA Mounted ==
  ASSUME NEW z, NEW s, NEW n, NEW m, NEW c, IsTable(c), Formatted("done", z, s, n, m, c)
  PROVE  /\ super = SuperExtent(s, n, m, c).what
         /\ super.kind = "super" /\ super.sb = SuperAt("done", s, n, m)
         /\ super.free_block_count = n - RootEnd(s, n, m, c)
         /\ super.free_inode_count = m - 3
         /\ mnt.block_size = BS(s)
         /\ mnt.block_bitmap = BlockMap(s, n, m, c).what
         /\ mnt.inode_bitmap = InodeMap(s, n, m).what
         /\ mnt.inode_table_offset = inode_first_block(s) * BS(s)
<1>1. /\ s \in 1 .. 5 /\ n \in Nat /\ m \in Nat /\ n >= 64 /\ m >= 64
      /\ disk = DiskAt("done", s, n, m, c)
  BY DEF Formatted, Layed
<1>2. super = SuperExtent(s, n, m, c).what
  <2>1. DoneReads(s, n, m, c, disk)
    BY <1>1, DoneContents
  <2>2. QED
    BY <2>1 DEF DoneReads, super, Content
<1>3. /\ super.kind = "super" /\ super.sb = SuperAt("done", s, n, m)
      /\ super.free_block_count = n - RootEnd(s, n, m, c) /\ super.free_inode_count = m - 3
  BY <1>2 DEF SuperExtent, Extent
<1>4. /\ super.sb.block_size = s /\ super.sb.block_count = n /\ super.sb.inode_count = m
      /\ super.sb.bitmaps_block = MapsAt(s, m)
      /\ super.sb.inode_first_block = inode_first_block(s)
  BY <1>3 DEF SuperAt
<1>5. 2 ^ (s + 7) = BS(s)
  <2>1. s + 7 = 7 + s
    BY <1>1
  <2>2. QED
    BY <2>1 DEF BS
<1>6. MapsAt(s, m) * BS(s) = BS(s) * MapsAt(s, m)
  <2>1. MapsAt(s, m) \in Nat
    BY <1>1, Regions
  <2>2. BS(s) \in Nat
    BY <1>1, SizesNat
  <2>3. QED
    BY <2>1, <2>2
<1>7. (n + 7) \div 8 = Bytes(n) /\ (m + 7) \div 8 = Bytes(m)
  BY DEF Bytes
<1>8. /\ Content(BS(s) * MapsAt(s, m), Bytes(n)) = BlockMap(s, n, m, c).what
      /\ Content(BS(s) * MapsAt(s, m) + Bytes(n), Bytes(m)) = InodeMap(s, n, m).what
  <2>1. DoneReads(s, n, m, c, disk)
    BY <1>1, DoneContents
  <2>2. QED
    BY <2>1 DEF DoneReads, Content
<1>9. mnt = [block_size |-> BS(s), block_bitmap |-> BlockMap(s, n, m, c).what,
             inode_bitmap |-> InodeMap(s, n, m).what,
             inode_table_offset |-> inode_first_block(s) * BS(s)]
  BY <1>4, <1>5, <1>6, <1>7, <1>8 DEF mnt
<1>10. QED
  BY <1>2, <1>3, <1>9

\* The bitmaps of a formatted device are those a fresh file system starts with.
LEMMA DoneFresh ==
  ASSUME NEW z, NEW s, NEW n, NEW m, NEW c, IsTable(c), Formatted("done", z, s, n, m, c)
  PROVE  Mountable /\ FreshBitmaps
<1>1. /\ s \in 1 .. 5 /\ n \in Nat /\ m \in Nat /\ n >= 64 /\ m >= 64
      /\ RootEnd(s, n, m, c) <= n /\ disk = DiskAt("done", s, n, m, c)
  BY DEF Formatted, Layed, BlocksTaken, Filed
<1>2. PICK r \in Nat : r = RootEnd(s, n, m, c)
  BY <1>1, RootBlocks
<1>3. /\ super.kind = "super" /\ super.sb = SuperAt("done", s, n, m)
      /\ super.free_block_count = n - r /\ super.free_inode_count = m - 3
      /\ mnt.block_bitmap = BlockMap(s, n, m, c).what
      /\ mnt.inode_bitmap = InodeMap(s, n, m).what
      /\ mnt.inode_table_offset = inode_first_block(s) * BS(s)
  BY <1>2, Mounted
<1>4. /\ super.sb.block_size = s /\ super.sb.block_count = n /\ super.sb.inode_count = m
      /\ super.sb.boot_loader_inode = 0
  BY <1>3 DEF SuperAt
<1>5. Mountable
  BY <1>1, <1>2, <1>3, <1>4 DEF Mountable
<1>6. /\ n - (n - r) = r
      /\ 8 * ((n + 7) \div 8) = 8 * Bytes(n) /\ 8 * ((m + 7) \div 8) = 8 * Bytes(m)
  BY <1>1, <1>2 DEF Bytes
<1>7. /\ mnt.block_bitmap = [kind |-> "bitmap", free |-> r .. 8 * Bytes(n) - 1]
      /\ mnt.inode_bitmap = [kind |-> "bitmap", free |-> 3 .. 8 * Bytes(m) - 1]
  BY <1>2, <1>3 DEF BlockMap, InodeMap, Extent
<1>8. {opened(i).kind : i \in 0 .. 2} = {"inode"}
  <2>1. opened(0) = Inode0(s, n, m, c).what
    <3>1. ContentOf(disk, inode_first_block(s) * BS(s), INODE) = Inode0(s, n, m, c).what
      <4>1. DoneReads(s, n, m, c, disk)
        BY <1>1, DoneContents
      <4>2. QED
        BY <4>1 DEF DoneReads
    <3>2. inode_first_block(s) * BS(s) + INODE * 0 = inode_first_block(s) * BS(s)
      <4>1. inode_first_block(s) * BS(s) \in Nat
        BY <1>1, SizesNat
      <4>2. QED
        BY <4>1 DEF INODE
    <3>3. QED
      BY <1>3, <3>1, <3>2 DEF opened, Content
  <2>2. \A i \in 1 .. 2 : opened(i) = InodeN(s, i).what
    <3>1. \A i \in 1 .. 2 :
            ContentOf(disk, inode_first_block(s) * BS(s) + INODE * i, INODE) = InodeN(s, i).what
      <4>1. DoneReads(s, n, m, c, disk)
        BY <1>1, DoneContents
      <4>2. QED
        BY <4>1 DEF DoneReads
    <3>2. QED
      BY <1>3, <3>1 DEF opened, Content
  <2>3. Inode0(s, n, m, c).what.kind = "inode"
    BY DEF Inode0, InodeExtent, Extent, inode_content
  <2>4. \A i \in 1 .. 2 : InodeN(s, i).what.kind = "inode"
    BY DEF InodeN, InodeExtent, Extent, inode_content
  <2>5. \A i \in 0 .. 2 : i = 0 \/ i \in 1 .. 2
    OBVIOUS
  <2>6. \A i \in 0 .. 2 : opened(i).kind = "inode"
    BY <2>1, <2>2, <2>3, <2>4, <2>5
  <2>7. 0 \in 0 .. 2
    OBVIOUS
  <2>8. QED
    BY <2>6, <2>7
<1>9. FreshBitmaps
  <2>1. super.sb.block_count - super.free_block_count = r
    BY <1>3, <1>4, <1>6
  <2>2. /\ 8 * ((super.sb.block_count + 7) \div 8) = 8 * Bytes(n)
        /\ 8 * ((super.sb.inode_count + 7) \div 8) = 8 * Bytes(m)
    BY <1>4, <1>6
  <2>3. mnt.block_bitmap = [kind |-> "bitmap",
                            free |-> super.sb.block_count - super.free_block_count
                                       .. 8 * ((super.sb.block_count + 7) \div 8) - 1]
    BY <1>7, <2>1, <2>2
  <2>4. mnt.inode_bitmap = [kind |-> "bitmap",
                            free |-> 3 .. 8 * ((super.sb.inode_count + 7) \div 8) - 1]
    BY <1>7, <2>2
  <2>5. super.free_inode_count = super.sb.inode_count - 3 /\ super.sb.boot_loader_inode = 0
    BY <1>3, <1>4
  <2>6. QED
    BY <1>8, <2>3, <2>4, <2>5, Zenon DEF FreshBitmaps
<1>10. QED
  BY <1>5, <1>9

\* Numbers times the same factor.
LEMMA Times ==
  ASSUME NEW b \in Nat, NEW i \in Nat, NEW j \in Nat, i < j
  PROVE  i * b + b <= j * b
<1>1. PICK a \in Nat : j = i + 1 + a
  <2>1. j - i - 1 \in Nat /\ j = i + 1 + (j - i - 1)
    OBVIOUS
  <2>2. QED
    BY <2>1
<1>2. (i + 1 + a) * b = i * b + b + a * b /\ a * b \in Nat /\ i * b \in Nat
  OBVIOUS
<1>3. QED
  BY <1>1, <1>2

\* Larger numbers of blocks take more bytes.
LEMMA TimesLe ==
  ASSUME NEW b \in Nat, NEW i \in Nat, NEW j \in Nat, i <= j
  PROVE  i * b <= j * b
<1>1. CASE i = j
  <2>1. i * b \in Nat
    OBVIOUS
  <2>2. QED
    BY <1>1, <2>1
<1>2. CASE i < j
  <2>1. i * b + b <= j * b
    BY <1>2, Times
  <2>2. i * b \in Nat /\ j * b \in Nat
    OBVIOUS
  <2>3. QED
    BY <2>1, <2>2
<1>3. QED
  BY <1>1, <1>2

\* An extent that ends with block r - 1 or before.
LEMMA LastBlock ==
  ASSUME NEW s \in 1 .. 5, NEW r \in Nat, NEW a \in Nat, NEW l \in Nat \ {0},
         a + l <= r * BS(s)
  PROVE  (a + l - 1) \div BS(s) < r /\ (a + l - 1) \div BS(s) \in Nat
<1>1. PICK b \in {256, 512, 1024, 2048, 4096} : b = BS(s)
  BY Sizes
<1>2. QED
  BY <1>1

\* The parts of a formatted device lie apart.
LEMMA DoneApart ==
  ASSUME NEW z, NEW s, NEW n, NEW m, NEW c, IsTable(c), Formatted("done", z, s, n, m, c),
         z \in Nat, dev.bytes \in Nat, z <= dev.bytes
  PROVE  RegionsApart
<1>1. /\ s \in 1 .. 5 /\ n \in Nat /\ m \in Nat /\ n >= 64 /\ m >= 64 /\ n * BS(s) <= z
      /\ RootEnd(s, n, m, c) <= n /\ disk = DiskAt("done", s, n, m, c)
      /\ sb = SuperAt("done", s, n, m)
  BY DEF Formatted, Layed, BlocksTaken, Filed
<1>2. PICK r \in Nat : r = RootEnd(s, n, m, c)
  BY <1>1, RootBlocks
<1>3. /\ super.sb = SuperAt("done", s, n, m) /\ mnt.block_bitmap = BlockMap(s, n, m, c).what
      /\ mnt.inode_table_offset = inode_first_block(s) * BS(s)
  BY Mounted
<1>4. super.sb.inode_count = m /\ mnt.block_bitmap.free = r .. 8 * Bytes(n) - 1
  BY <1>2, <1>3 DEF SuperAt, BlockMap, Extent
<1>5. BLOCK_SIZE = BS(s)
  BY <1>1, ModelSizes
<1>6. PICK F, M, R, x, y \in Nat : Placed(s, n, m, c, F, M, R, x, y)
  BY <1>1, ExtentsAt
<1>7. PICK su, bm, im, it :
         /\ su = SuperExtent(s, n, m, c) /\ bm = BlockMap(s, n, m, c) /\ im = InodeMap(s, n, m)
         /\ it = Extent(F, INODE * m, "inodes")
  OBVIOUS
<1>8. PICK b \in Nat \ {0} : b = BS(s)
  BY <1>1, Sizes
<1> DEFINE Root == RootExtents(s, RootIds(s, n, m, c))
           regions == {e \in disk : e.what.kind # "inode"} \cup {it}
<1>9. regions = Root \cup {su, bm, im, it}
  <2>1. disk = Root \cup {Inode0(s, n, m, c), InodeN(s, 1), InodeN(s, 2), su, bm, im}
    BY <1>1, <1>7, DoneDisk
  <2>2. Inode0(s, n, m, c).what.kind = "inode" /\ InodeN(s, 1).what.kind = "inode"
        /\ InodeN(s, 2).what.kind = "inode"
    BY DEF Inode0, InodeN, InodeExtent, Extent, inode_content
  <2>3. su.what.kind = "super" /\ bm.what.kind = "bitmap" /\ im.what.kind = "bitmap"
    BY <1>7 DEF SuperExtent, BlockMap, InodeMap, Extent
  <2>4. \A e \in Root : e.what.kind \in {"data", "index"}
    BY <1>1, RootExtentAt
  <2> HIDE DEF Root
  <2>5. \A e \in Root : e.what.kind # "inode"
    BY <2>4
  <2>6. QED
    BY <2>1, <2>2, <2>3, <2>5
<1>10. /\ su.at = 1024 /\ su.len = 120 /\ bm.at = M /\ bm.len = x /\ im.at = M + x /\ im.len = y
       /\ it.at = F /\ it.len = 64 * m
       /\ F >= 2048 /\ F + 64 * m <= M /\ M + x + y <= R /\ x > 0 /\ y > 0
       /\ R = RootAt(s, n, m) * b /\ F = inode_first_block(s) * BS(s)
  BY <1>6, <1>7, <1>8 DEF Placed, Extent, INODE
<1>11. R <= r * b /\ r * b <= dev.bytes
  <2>1. RootAt(s, n, m) \in Nat /\ RootAt(s, n, m) <= r
    BY <1>1, <1>2, Regions, RootBlocks
  <2>2. RootAt(s, n, m) * b <= r * b
    BY <2>1, TimesLe
  <2>3. r * b <= n * b
    BY <1>1, <1>2, TimesLe
  <2>4. r * b \in Nat /\ n * b \in Nat /\ n * b <= z
    BY <1>1, <1>8
  <2>5. QED
    BY <1>10, <2>2, <2>3, <2>4
<1>12. \A e \in {su, bm, im, it} : /\ e.at \in Nat /\ e.len \in Nat \ {0} /\ e.at >= 512
                                   /\ e.at + e.len <= R
  BY <1>1, <1>10
<1>13. \A e \in Root : \E j \in Nat : /\ e.at = j * b /\ e.len = b /\ j < r
                                     /\ e.at \in Nat /\ e.at >= R /\ e.at + e.len <= r * b
  <2> SUFFICES ASSUME NEW e \in Root
               PROVE  \E j \in Nat : /\ e.at = j * b /\ e.len = b /\ j < r
                                     /\ e.at \in Nat /\ e.at >= R /\ e.at + e.len <= r * b
    OBVIOUS
  <2>1. PICK j \in RootAt(s, n, m) .. r - 1 : e.at = j * b /\ e.len = b
    <3>1. PICK p \in DOMAIN RootIds(s, n, m, c) :
                 /\ RootIds(s, n, m, c)[p] \in RootAt(s, n, m) .. RootEnd(s, n, m, c) - 1
                 /\ e.at = RootIds(s, n, m, c)[p] * BS(s) /\ e.len = BS(s)
      BY <1>1, RootExtentAt
    <3>2. QED
      BY <1>2, <1>8, <3>1
  <2>2. j \in Nat /\ j < r
    <3>1. RootAt(s, n, m) \in Nat
      BY <1>1, Regions
    <3>2. QED
      BY <2>1, <3>1
  <2>3. e.at \in Nat /\ e.at >= R
    BY <1>6 DEF Placed
  <2>4. j * b + b <= r * b
    BY <2>2, Times
  <2>5. QED
    BY <2>1, <2>2, <2>3, <2>4
<1>14. ASSUME NEW e \in Root, NEW f \in Root, e # f PROVE Apart(e, f)
  <2>1. PICK p \in DOMAIN RootIds(s, n, m, c) :
               e = Extent(RootIds(s, n, m, c)[p] * BS(s), BS(s),
                          block_content(Width(s), RootIds(s, n, m, c), p))
    BY DEF RootExtents
  <2>2. PICK q \in DOMAIN RootIds(s, n, m, c) :
               f = Extent(RootIds(s, n, m, c)[q] * BS(s), BS(s),
                          block_content(Width(s), RootIds(s, n, m, c), q))
    BY DEF RootExtents
  <2>3. p # q
    BY <1>14, <2>1, <2>2
  <2>4. PICK i \in Nat, j \in Nat : /\ i = RootIds(s, n, m, c)[p] /\ j = RootIds(s, n, m, c)[q]
                                    /\ i # j
    BY <1>1, <2>3, RootBlocksApart
  <2>5. e.at = i * b /\ e.len = b /\ f.at = j * b /\ f.len = b
    BY <1>8, <2>1, <2>2, <2>4 DEF Extent
  <2>6. CASE i < j
    BY <2>5, <2>6, Times DEF Apart
  <2>7. CASE j < i
    BY <2>5, <2>7, Times DEF Apart
  <2>8. QED
    BY <2>4, <2>6, <2>7
<1> HIDE DEF Root, regions
<1>15. ASSUME NEW e \in regions
       PROVE  /\ e.at \in Nat /\ e.len \in Nat \ {0} /\ e.at >= 512 /\ e.at + e.len <= r * b
  <2>1. CASE e \in Root
    <3>1. PICK j \in Nat : /\ e.at = j * b /\ e.len = b /\ j < r
                           /\ e.at \in Nat /\ e.at >= R /\ e.at + e.len <= r * b
      BY <1>13, <2>1
    <3>2. R >= 512
      BY <1>1, <1>10
    <3>3. QED
      BY <3>1, <3>2
  <2>2. CASE e \in {su, bm, im, it}
    BY <1>11, <1>12, <2>2
  <2>3. QED
    BY <1>9, <2>1, <2>2
<1>16. ASSUME NEW e \in regions, NEW f \in regions, e # f PROVE Apart(e, f)
  <2>1. CASE e \in Root /\ f \in Root
    BY <1>14, <1>16, <2>1
  <2>2. CASE e \in Root /\ f \in {su, bm, im, it}
    <3>1. e.at \in Nat /\ e.at >= R
      BY <1>13, <2>2
    <3>2. QED
      BY <1>12, <2>2, <3>1 DEF Apart
  <2>3. CASE f \in Root /\ e \in {su, bm, im, it}
    <3>1. f.at \in Nat /\ f.at >= R
      BY <1>13, <2>3
    <3>2. QED
      BY <1>12, <2>3, <3>1 DEF Apart
  <2>4. CASE e \in {su, bm, im, it} /\ f \in {su, bm, im, it}
    BY <1>1, <1>10, <1>16, <2>4 DEF Apart
  <2>5. QED
    BY <1>9, <1>16, <2>1, <2>2, <2>3, <2>4
<1>17. ASSUME NEW e \in regions
       PROVE  (r .. 8 * Bytes(n) - 1)
                 \cap (e.at \div b .. (e.at + e.len - 1) \div b) = {}
  <2>1. (e.at + e.len - 1) \div b < r /\ (e.at + e.len - 1) \div b \in Nat
    BY <1>1, <1>8, <1>15, LastBlock
  <2>2. e.at \div b \in Int
    BY <1>15
  <2>3. Bytes(n) \in Nat
    BY <1>1, BytesNat
  <2>4. PICK u \in Nat, v \in Int : u = (e.at + e.len - 1) \div b /\ v = e.at \div b
    BY <2>1, <2>2
  <2>5. u < r
    BY <2>1, <2>4
  <2>6. (r .. 8 * Bytes(n) - 1) \cap (v .. u) = {}
    BY <2>3, <2>5
  <2>7. QED
    BY <2>4, <2>6
<1>18. it = Extent(mnt.inode_table_offset, INODE * super.sb.inode_count, "inodes")
  BY <1>3, <1>4, <1>7, <1>10
<1>19. r * b \in Nat
  OBVIOUS
<1>20. \A e \in regions : /\ e.at >= 512 /\ e.at + e.len <= dev.bytes
                          /\ mnt.block_bitmap.free \cap
                               (e.at \div BLOCK_SIZE .. (e.at + e.len - 1) \div BLOCK_SIZE) = {}
                          /\ \A f \in regions \ {e} :
                                e.at + e.len <= f.at \/ f.at + f.len <= e.at
  <2> SUFFICES ASSUME NEW e \in regions
               PROVE  /\ e.at >= 512 /\ e.at + e.len <= dev.bytes
                      /\ mnt.block_bitmap.free \cap
                           (e.at \div BLOCK_SIZE .. (e.at + e.len - 1) \div BLOCK_SIZE) = {}
                      /\ \A f \in regions \ {e} : e.at + e.len <= f.at \/ f.at + f.len <= e.at
    OBVIOUS
  <2>1. e.at >= 512 /\ e.at + e.len <= dev.bytes
    BY <1>11, <1>15, <1>19
  <2>2. mnt.block_bitmap.free \cap
          (e.at \div BLOCK_SIZE .. (e.at + e.len - 1) \div BLOCK_SIZE) = {}
    BY <1>4, <1>5, <1>8, <1>17
  <2>3. \A f \in regions \ {e} : e.at + e.len <= f.at \/ f.at + f.len <= e.at
    BY <1>16 DEF Apart
  <2>4. QED
    BY <2>1, <2>2, <2>3
<1>21. QED
  BY <1>18, <1>20 DEF RegionsApart, regions
-----------------------------------------------------------------------------
\* The order of the columns.

\* The order of reorder_columns_by_size: the larger boundaries first, otherwise as
\* they were; and the place of a column in it.
Boundary(cs, i)  == natural_boundary[cs[i].type]
Sooner(cs, i, j) == \/ Boundary(cs, i) > Boundary(cs, j)
                    \/ (Boundary(cs, i) = Boundary(cs, j) /\ i < j)
Ahead(cs, j)     == {i \in 1 .. Len(cs) : Sooner(cs, i, j)}
Rank(cs, j)      == 1 + Cardinality(Ahead(cs, j))

\* reorder_columns_by_size puts every column at its rank.
LEMMA ReorderDef ==
  ASSUME NEW cs
  PROVE  reorder_columns_by_size(cs) =
           [k \in 1 .. Len(cs) |-> cs[CHOOSE j \in 1 .. Len(cs) : Rank(cs, j) = k]]
BY DEF reorder_columns_by_size, Rank, Ahead, Sooner, Boundary

\* The natural boundaries.
Bounds == {1, 2, 4, 8, 16, 32, 64, 128}

\* The boundaries of the types,
LEMMA BoundaryType ==
  ASSUME NEW t \in DOMAIN natural_boundary
  PROVE  natural_boundary[t] \in Bounds
BY DEF natural_boundary, Bounds

\* and of the columns.
LEMMA BoundaryNat ==
  ASSUME NEW cs, IsTable(cs), NEW i \in 1 .. Len(cs)
  PROVE  Boundary(cs, i) \in Bounds /\ Boundary(cs, i) \in Nat
<1>1. cs[i] \in Column
  BY DEF IsTable
<1>2. cs[i].type \in DOMAIN natural_boundary
  BY <1>1 DEF Column
<1>3. Boundary(cs, i) \in Bounds
  BY <1>2, BoundaryType DEF Boundary
<1>4. QED
  BY <1>3 DEF Bounds

\* Columns are ordered strictly and totally.
LEMMA SoonerOrder ==
  ASSUME NEW cs, IsTable(cs), NEW i \in 1 .. Len(cs), NEW j \in 1 .. Len(cs),
         NEW k \in 1 .. Len(cs)
  PROVE  /\ ~Sooner(cs, i, i)
         /\ i # j => Sooner(cs, i, j) \/ Sooner(cs, j, i)
         /\ Sooner(cs, k, i) /\ Sooner(cs, i, j) => Sooner(cs, k, j)
<1>1. /\ Boundary(cs, i) \in Nat /\ Boundary(cs, j) \in Nat /\ Boundary(cs, k) \in Nat
  BY BoundaryNat
<1>2. Len(cs) \in Nat
  BY DEF IsTable
<1>3. QED
  BY <1>1, <1>2 DEF Sooner

\* A rank is a place in the table,
LEMMA RankType ==
  ASSUME NEW cs, IsTable(cs), NEW j \in 1 .. Len(cs)
  PROVE  /\ IsFiniteSet(Ahead(cs, j)) /\ Cardinality(Ahead(cs, j)) \in Nat
         /\ Rank(cs, j) \in 1 .. Len(cs)
<1>1. PICK n \in Nat : n = Len(cs)
  BY DEF IsTable
<1>2. IsFiniteSet(1 .. n) /\ Cardinality(1 .. n) = n
  BY FS_Interval
<1>3. Ahead(cs, j) \subseteq 1 .. n
  BY <1>1 DEF Ahead
<1>4. IsFiniteSet(Ahead(cs, j)) /\ Cardinality(Ahead(cs, j)) \in Nat
  BY <1>2, <1>3, FS_Subset, FS_CardinalityType
<1>5. j \notin Ahead(cs, j)
  BY SoonerOrder DEF Ahead
<1>6. Cardinality(Ahead(cs, j) \cup {j}) = Cardinality(Ahead(cs, j)) + 1
  BY <1>4, <1>5, FS_AddElement
<1>7. Ahead(cs, j) \cup {j} \subseteq 1 .. n
  BY <1>1, <1>3
<1>8. Cardinality(Ahead(cs, j) \cup {j}) <= n
  BY <1>2, <1>7, FS_Subset
<1>9. QED
  BY <1>1, <1>4, <1>6, <1>8 DEF Rank

\* and the ranks are in the order.
LEMMA RankOrder ==
  ASSUME NEW cs, IsTable(cs), NEW i \in 1 .. Len(cs), NEW j \in 1 .. Len(cs), Sooner(cs, i, j)
  PROVE  Rank(cs, i) < Rank(cs, j)
<1>1. /\ IsFiniteSet(Ahead(cs, i)) /\ Cardinality(Ahead(cs, i)) \in Nat
      /\ IsFiniteSet(Ahead(cs, j)) /\ Cardinality(Ahead(cs, j)) \in Nat
  BY RankType
<1>2. i \notin Ahead(cs, i)
  BY SoonerOrder DEF Ahead
<1>3. Ahead(cs, i) \cup {i} \subseteq Ahead(cs, j)
  BY SoonerOrder DEF Ahead
<1>4. Cardinality(Ahead(cs, i) \cup {i}) = Cardinality(Ahead(cs, i)) + 1
  BY <1>1, <1>2, FS_AddElement
<1>5. Cardinality(Ahead(cs, i) \cup {i}) <= Cardinality(Ahead(cs, j))
  BY <1>1, <1>3, FS_Subset
<1>6. QED
  BY <1>1, <1>4, <1>5 DEF Rank

\* Every place is taken by one column.
LEMMA RankOnto ==
  ASSUME NEW cs, IsTable(cs), NEW k \in 1 .. Len(cs)
  PROVE  \E j \in 1 .. Len(cs) : Rank(cs, j) = k
<1>1. PICK n \in Nat : n = Len(cs)
  BY DEF IsTable
<1>2. IsFiniteSet(1 .. n) /\ Cardinality(1 .. n) = n
  BY FS_Interval
<1>3. PICK f : f = [j \in 1 .. n |-> Rank(cs, j)]
  OBVIOUS
<1>4. f \in Injection(1 .. n, Range(f))
  <2>1. f \in [1 .. n -> Range(f)]
    BY <1>3 DEF Range
  <2>2. ASSUME NEW i \in 1 .. n, NEW j \in 1 .. n, f[i] = f[j] PROVE i = j
    <3>1. Rank(cs, i) = Rank(cs, j)
      BY <1>3, <2>2
    <3>2. Rank(cs, i) \in 1 .. n /\ Rank(cs, j) \in 1 .. n
      BY <1>1, RankType
    <3>3. ~Sooner(cs, i, j) /\ ~Sooner(cs, j, i)
      BY <1>1, <3>1, <3>2, RankOrder
    <3>4. QED
      BY <1>1, <3>3, SoonerOrder
  <2>3. QED
    BY <2>1, <2>2 DEF Injection, IsInjective
<1>5. Range(f) \subseteq 1 .. n
  BY <1>1, <1>3, RankType DEF Range
<1>6. IsFiniteSet(Range(f)) /\ Cardinality(Range(f)) \in Nat
  BY <1>2, <1>5, FS_Subset, FS_CardinalityType
<1>7. Cardinality(1 .. n) <= Cardinality(Range(f))
  BY <1>4, <1>6, FS_Injection
<1>8. Range(f) = 1 .. n
  BY <1>2, <1>5, <1>6, <1>7, FS_Subset
<1>9. QED
  BY <1>1, <1>3, <1>8 DEF Range

\* reorder_columns_by_size keeps the columns and puts larger boundaries first.
LEMMA Reordered ==
  ASSUME NEW cs, IsTable(cs), NEW r, r = reorder_columns_by_size(cs)
  PROVE  /\ IsTable(r) /\ Len(r) = Len(cs) /\ Range(r) \subseteq Range(cs)
         /\ \A k \in 1 .. Len(r) - 1 : Boundary(r, k) >= Boundary(r, k + 1)
<1>1. PICK n \in Nat : n = Len(cs)
  BY DEF IsTable
<1>2. PICK f : f = [k \in 1 .. Len(cs) |-> CHOOSE j \in 1 .. Len(cs) : Rank(cs, j) = k]
  OBVIOUS
<1>3. \A k \in 1 .. n : f[k] \in 1 .. n /\ Rank(cs, f[k]) = k
  BY <1>1, <1>2, RankOnto
<1>4. r = [k \in 1 .. n |-> cs[f[k]]]
  <2>1. r = [k \in 1 .. Len(cs) |-> cs[CHOOSE j \in 1 .. Len(cs) : Rank(cs, j) = k]]
    BY ReorderDef
  <2>2. \A k \in 1 .. Len(cs) : f[k] = CHOOSE j \in 1 .. Len(cs) : Rank(cs, j) = k
    BY <1>2
  <2>3. QED
    BY <1>1, <2>1, <2>2
<1>5. \A k \in 1 .. n : cs[k] \in Column
  BY <1>1 DEF IsTable
<1>6. r \in Seq(Column) /\ Len(r) = n
  BY <1>3, <1>4, <1>5
<1>7. Range(r) \subseteq Range(cs)
  <2>1. DOMAIN r = 1 .. n
    BY <1>4
  <2>2. DOMAIN cs = 1 .. n
    BY <1>1 DEF IsTable
  <2>3. QED
    BY <1>3, <1>4, <2>1, <2>2 DEF Range
<1>8. ASSUME NEW k \in 1 .. n - 1 PROVE Boundary(r, k) >= Boundary(r, k + 1)
  <2>1. PICK i \in 1 .. n, j \in 1 .. n : /\ i = f[k] /\ j = f[k + 1] /\ Rank(cs, i) = k
                                          /\ Rank(cs, j) = k + 1
    BY <1>3
  <2>2. ~Sooner(cs, j, i)
    BY <1>1, <2>1, RankOrder
  <2>3. i # j
    BY <2>1
  <2>4. Sooner(cs, i, j)
    BY <1>1, <2>2, <2>3, SoonerOrder
  <2>5. Boundary(r, k) = Boundary(cs, i) /\ Boundary(r, k + 1) = Boundary(cs, j)
    BY <1>4, <2>1 DEF Boundary
  <2>6. Boundary(cs, i) \in Nat /\ Boundary(cs, j) \in Nat
    BY <1>1, BoundaryNat
  <2>7. QED
    BY <2>4, <2>5, <2>6 DEF Sooner
<1>9. QED
  BY <1>1, <1>6, <1>7, <1>8 DEF IsTable
-----------------------------------------------------------------------------
\* The steps of mkudbfs.

\* The bitmaps' part of the type invariant, and the columns of all tables.
MapOK(v) == /\ Free(v) \subseteq 0 .. 8 * v.bytes - 1
            /\ v.count \in Nat /\ v.run \in {"ok", "halt", "wild"}

TableColumns == UNION {Range(t) : t \in Tables}

\* The bitmaps keep the type invariant.
LEMMA BitmapOK ==
  ASSUME NEW n \in Nat, NEW t \in 0 .. n
  PROVE  MapOK(Bitmap(n, t)) /\ MapOK([Bitmap(n, t) EXCEPT !.run = "halt"])
<1>1. PICK b \in Nat : b = Bytes(n) /\ 8 * b >= n
  BY BytesNat
<1>2. Bitmap(n, t) = [next |-> t, limit |-> 8 * b, count |-> n - t, bytes |-> b, run |-> "ok"]
  BY <1>1 DEF Bitmap
<1>3. [Bitmap(n, t) EXCEPT !.run = "halt"] =
        [next |-> t, limit |-> 8 * b, count |-> n - t, bytes |-> b, run |-> "halt"]
  BY <1>2
<1>4. t .. 8 * b - 1 \subseteq 0 .. 8 * b - 1 /\ n - t \in Nat
  OBVIOUS
<1>5. QED
  BY <1>2, <1>3, <1>4 DEF MapOK, Free

\* A state that is formatted as far as its step says keeps the invariant.
LEMMA Establish ==
  ASSUME FInv, dev' = dev, size' = size, delta' = delta,
         NEW p \in LaidOut, NEW s, NEW n, NEW m, NEW c,
         pc' = p, cols' = c, IsTable(c), IsTable(todo'),
         Range(todo') \subseteq TableColumns, Range(c) \subseteq TableColumns,
         p = "reserve" => todo' = <<>> /\ c = <<>>,
         pc # "probe", pc # "killed",
         Layed(size, s, n, m), BlocksTaken(p, s, n, m, c) \in 0 .. n,
         sb' = SuperAt(p, s, n, m), bb' = Bitmap(n, BlocksTaken(p, s, n, m, c)),
         ib' = Bitmap(m, InodesTaken(p)), disk' = DiskAt(p, s, n, m, c),
         p \notin {"reserve", "table"} => Whole(s, Len(todo') + Len(c)),
         p \in Filed \cup {"root"} => todo' = <<>> /\ Sorted(c)
  PROVE  FInv'
<1>1. s \in 1 .. 5 /\ n \in Nat /\ m \in Nat /\ m >= 64
  BY DEF Layed
<1>2. sb'.block_size = s /\ sb'.block_count = n /\ sb'.inode_count = m
  BY DEF SuperAt
<1>3. InodesTaken(p) \in 0 .. m
  BY <1>1 DEF InodesTaken, LaidOut
<1>4. MapOK(bb') /\ MapOK(ib')
  BY <1>1, <1>3, BitmapOK
<1>5. TypeOK'
  <2>1. dev' \in Devices /\ size' \in 0 .. dev'.bytes /\ delta' \in 0 .. Delta
    BY DEF FInv, TypeOK
  <2>2. pc' \in Over \cup {"probe", "layout", "reserve", "table", "column", "root", "bad",
                           "journal", "super", "bitmaps"}
    BY DEF LaidOut, Over
  <2>3. Range(todo') \cup Range(cols') \subseteq UNION {Range(t) : t \in Tables}
    BY DEF TableColumns
  <2>4. QED
    BY <1>1, <1>2, <1>4, <2>1, <2>2, <2>3 DEF TypeOK, MapOK
<1>6. SizeFound'
  BY DEF FInv, SizeFound, LaidOut
<1>7. pc' \notin {"probe", "layout", "halt", "killed", "wild"}
  BY DEF LaidOut
<1>8. p = "reserve" => disk' = {}
  BY DEF DiskAt, Filed
<1>9. (\E z \in {size}, s0 \in {sb.block_size}, n0 \in {sb.block_count}, m0 \in {sb.inode_count},
          c0 \in {cols}, p0 \in {pc} : Formatted(p0, z, s0, n0, m0, c0))'
  <2>1. Formatted(p, size, s, n, m, c)'
    BY DEF Formatted
  <2>2. QED
    BY <1>2, <2>1
<1>10. QED
  BY <1>2, <1>5, <1>6, <1>7, <1>8, <1>9 DEF FInv

\* A run that ends before the superblock is written leaves a device that does
\* not mount.
LEMMA Stop ==
  ASSUME FInv, dev' = dev, size' = size, delta' = delta, pc' \in {"halt", "killed"},
         pc' = "killed" \/ pc \notin {"probe", "killed"},
         sb'.block_size \in 1 .. 5, MapOK(bb'), MapOK(ib'), UNCHANGED <<todo, cols>>,
         \A e \in disk' : e.at # KB
  PROVE  FInv'
<1>1. TypeOK'
  <2>1. dev' \in Devices /\ size' \in 0 .. dev'.bytes /\ delta' \in 0 .. Delta
        /\ Range(todo') \cup Range(cols') \subseteq UNION {Range(t) : t \in Tables}
    BY DEF FInv, TypeOK
  <2>2. pc' \in Over \cup {"probe", "layout", "reserve", "table", "column", "root", "bad",
                           "journal", "super", "bitmaps"}
    BY DEF Over
  <2>3. QED
    BY <2>1, <2>2 DEF TypeOK, MapOK
<1>2. SizeFound'
  BY DEF FInv, SizeFound
<1>3. IsTable(todo)' /\ IsTable(cols)'
  BY DEF FInv, IsTable
<1>4. QED
  BY <1>1, <1>2, <1>3 DEF FInv, LaidOut, Filed

\* What the invariant says of a run in its step p.
LEMMA InStep ==
  ASSUME FInv, NEW p \in LaidOut, pc = p
  PROVE  \E s, n, m, c :
           /\ c = cols /\ Layed(size, s, n, m) /\ BlocksTaken(p, s, n, m, c) <= n
           /\ sb = SuperAt(p, s, n, m) /\ bb = Bitmap(n, BlocksTaken(p, s, n, m, c))
           /\ ib = Bitmap(m, InodesTaken(p)) /\ disk = DiskAt(p, s, n, m, c)
           /\ p \notin {"reserve", "table"} => Whole(s, Len(todo) + Len(c))
           /\ p \in Filed \cup {"root"} => todo = <<>> /\ Sorted(c)
<1>1. PICK s, n, m, c : /\ s = sb.block_size /\ c = cols /\ Formatted(p, size, s, n, m, c)
  BY DEF FInv
<1>2. QED
  BY <1>1 DEF FInv, Formatted

\* The columns a run works on.
LEMMA ColumnsKnown ==
  ASSUME FInv
  PROVE  /\ IsTable(todo) /\ IsTable(cols)
         /\ Range(todo) \subseteq TableColumns /\ Range(cols) \subseteq TableColumns
         /\ dev \in Devices /\ size \in Nat /\ dev.bytes \in Nat /\ size <= dev.bytes
         /\ delta \in 0 .. Delta /\ size \div 1024 < 2 ^ 21
<1>1. dev \in Devices /\ size \in 0 .. dev.bytes /\ delta \in 0 .. Delta
      /\ Range(todo) \cup Range(cols) \subseteq TableColumns
  BY DEF FInv, TypeOK, TableColumns
<1>2. dev.bytes \in Nat /\ dev.bytes \div 1024 < 2 ^ 21
  BY <1>1, DeviceAssumption
<1>3. size \div 1024 < 2 ^ 21
  <2>1. 2 ^ 21 \in Nat
    OBVIOUS
  <2>2. PICK x \in Nat : x = 2 ^ 21
    BY <2>1
  <2>3. size \div 1024 <= dev.bytes \div 1024
    BY <1>1, <1>2
  <2>4. QED
    BY <1>1, <1>2, <2>2, <2>3
<1>4. QED
  BY <1>1, <1>2, <1>3 DEF FInv

\* A stride of the probe keeps the invariant.
LEMMA ProbeKeeps ==
  ASSUME FInv, Probe
  PROVE  FInv'
<1>1. /\ pc = "probe" /\ pc' = "probe" /\ delta > 0
      /\ UNCHANGED <<dev, sb, bb, ib, todo, cols, disk>>
      /\ IF size + delta <= dev.bytes THEN size' = size + delta /\ delta' = delta
         ELSE delta' = delta \div 2 /\ size' = size
  BY DEF Probe
<1>2. /\ size \in Nat /\ dev.bytes \in Nat /\ size <= dev.bytes /\ delta \in 0 .. Delta
      /\ Delta \in Nat
  BY ColumnsKnown, FormatAssumption
<1>3. delta = Delta \/ dev.bytes <= size + 2 * delta
  BY <1>1 DEF FInv
<1>4. /\ size' \in 0 .. dev.bytes /\ delta' \in 0 .. Delta
      /\ delta' = Delta \/ dev.bytes <= size' + 2 * delta'
  <2>1. CASE size + delta <= dev.bytes
    BY <1>1, <1>2, <1>3, <2>1
  <2>2. CASE ~(size + delta <= dev.bytes)
    BY <1>1, <1>2, <1>3, <2>2
  <2>3. QED
    BY <2>1, <2>2
<1>5. TypeOK'
  BY <1>1, <1>4 DEF FInv, TypeOK
<1>6. IsTable(todo)' /\ IsTable(cols)'
  BY <1>1 DEF FInv, IsTable
<1>7. fs_bytes(dev)' >= 64 * 256
  BY <1>1 DEF FInv, fs_bytes
<1>8. QED
  BY <1>1, <1>4, <1>5, <1>6, <1>7 DEF FInv, SizeFound, LaidOut, Filed

\* The end of the probe, with the size found.
LEMMA ProbeEndKeeps ==
  ASSUME FInv, ProbeEnd
  PROVE  FInv'
<1>1. /\ pc = "probe" /\ pc' = "layout" /\ delta = 0
      /\ UNCHANGED <<dev, size, delta, sb, bb, ib, todo, cols, disk>>
  BY DEF ProbeEnd
<1>2. /\ size \in Nat /\ dev.bytes \in Nat /\ size <= dev.bytes
      /\ Delta \in Nat \ {0}
  BY ColumnsKnown, FormatAssumption
<1>3. dev.asked = 0 /\ (delta = Delta \/ dev.bytes <= size + 2 * delta)
  BY <1>1 DEF FInv
<1>4. size = dev.bytes
  BY <1>1, <1>2, <1>3
<1>5. TypeOK'
  BY <1>1 DEF FInv, TypeOK
<1>6. IsTable(todo)' /\ IsTable(cols)'
  BY <1>1 DEF FInv, IsTable
<1>7. fs_bytes(dev)' >= 64 * 256 /\ size' = fs_bytes(dev)'
  BY <1>1, <1>3, <1>4 DEF FInv, fs_bytes
<1>8. QED
  BY <1>1, <1>4, <1>5, <1>6, <1>7 DEF FInv, SizeFound, LaidOut, Filed

\* The layout: the sizes of the file system are set.
LEMMA LayoutKeeps ==
  ASSUME FInv, Layout, "junk" \notin Allow
  PROVE  FInv'
<1>1. /\ pc = "layout" /\ pc' = "reserve" /\ UNCHANGED <<dev, size, delta, todo, cols, disk>>
  BY DEF Layout
<1>2. PICK s, n, m : s = block_size(size) /\ n = size \div BS(s) /\ m = inode_count(size)
  OBVIOUS
<1>3. /\ sb' = [block_size |-> s, block_count |-> n, inode_first_block |-> inode_first_block(s),
                inode_count |-> m, boot_loader_inode |-> 0,
                bitmaps_block |-> 0, bad_block_inode |-> 0, journal_inode |-> 0]
      /\ bb' = generate_bitmap(sb'.block_count) /\ ib' = generate_bitmap(sb'.inode_count)
  BY <1>2 DEF Layout, BS
<1>4. sb' = SuperAt("reserve", s, n, m)
  BY <1>3 DEF SuperAt, Filed
<1>5. size \in Nat /\ size >= 64 * 256 /\ size \div 1024 < 2 ^ 21
  BY <1>1, ColumnsKnown DEF FInv
<1>6. /\ s \in 1 .. 5 /\ n \in Nat /\ n >= 64 /\ n * BS(s) <= size /\ (s = 2 => n < 4000)
      /\ n <= Width(s) * Width(s) * Width(s)
  BY <1>2, <1>5, BlockSize
<1>7. m \in Nat /\ m >= 64
  BY <1>2, <1>5, InodeCount
<1>8. bb' = Bitmap(n, 0) /\ ib' = Bitmap(m, 0)
  BY <1>3, <1>6, <1>7, Generated
<1>9. Layed(size, s, n, m)
  BY <1>6, <1>7 DEF Layed
<1>10. todo = <<>> /\ cols = <<>> /\ disk = {}
  BY <1>1 DEF FInv
<1>11. /\ BlocksTaken("reserve", s, n, m, cols) = 0 /\ InodesTaken("reserve") = 0
       /\ DiskAt("reserve", s, n, m, cols) = {}
  BY DEF BlocksTaken, InodesTaken, DiskAt, Filed
<1>12. /\ IsTable(todo) /\ IsTable(cols)
       /\ Range(todo) \subseteq TableColumns /\ Range(cols) \subseteq TableColumns
  BY ColumnsKnown
<1>13. "reserve" \in LaidOut /\ "reserve" \notin Filed \cup {"root"}
  BY DEF LaidOut, Filed
<1>14. /\ IsTable(todo') /\ Range(todo') \subseteq TableColumns
  BY <1>1, <1>12
<1>15. BlocksTaken("reserve", s, n, m, cols) \in 0 .. n
  BY <1>6, <1>11
<1>16. QED
  BY <1>1, <1>4, <1>8, <1>9, <1>10, <1>11, <1>12, <1>13, <1>14, <1>15, Establish

\* The superblock, the inode table and the bitmaps take their blocks.
LEMMA ReserveKeeps ==
  ASSUME FInv, Reserve
  PROVE  FInv'
<1>1. pc = "reserve" /\ UNCHANGED <<dev, size, delta, ib, todo, cols, disk>>
  BY DEF Reserve
<1>2. "reserve" \in LaidOut /\ "table" \in LaidOut /\ "table" \notin Filed \cup {"root"}
  BY DEF LaidOut, Filed
<1>3. PICK s, n, m, c :
           /\ c = cols /\ Layed(size, s, n, m)
           /\ sb = SuperAt("reserve", s, n, m) /\ bb = Bitmap(n, BlocksTaken("reserve", s, n, m, c))
           /\ ib = Bitmap(m, InodesTaken("reserve")) /\ disk = DiskAt("reserve", s, n, m, c)
  BY <1>1, <1>2, InStep
<1>4. s \in 1 .. 5 /\ n \in Nat /\ m \in Nat /\ n >= 64 /\ m >= 64
  BY <1>3 DEF Layed
<1>5. bb = Bitmap(n, 0) /\ ib = Bitmap(m, 0) /\ disk = {}
  BY <1>3 DEF BlocksTaken, InodesTaken, DiskAt, Filed
<1>6. todo = <<>> /\ cols = <<>>
  BY <1>1 DEF FInv
<1>7. PICK k \in Nat, r \in Nat : k = MapsAt(s, m) /\ r = RootAt(s, n, m) /\ k <= r
  BY <1>4, RegionsNat
<1>8. /\ sb.inode_first_block = inode_first_block(s) /\ sb.inode_count = m
      /\ ib.bytes = Bytes(m) /\ bb.bytes = Bytes(n)
  BY <1>3, <1>5 DEF SuperAt, Bitmap
<1>9. \A x : Blocks(x) = InBlocks(s, x)
  BY <1>3, <1>4, ModelSizes
<1>10. /\ sb.inode_first_block + inode_table_blocks = k
       /\ sb.inode_first_block + inode_table_blocks + bitmaps_blocks = r
  BY <1>7, <1>8, <1>9 DEF inode_table_blocks, bitmaps_blocks, MapsAt, RootAt
<1>11. /\ bb' = Allocated(Bitmap(n, 0), r) /\ pc' = Then(bb', "table")
       /\ sb' = [sb EXCEPT !.bitmaps_block = Allocated(Bitmap(n, 0), k).next]
  BY <1>5, <1>10 DEF Reserve
<1>12. 0 \in 0 .. n /\ n - 0 = n /\ 0 + r = r /\ 0 + k = k
  BY <1>4
<1>13. /\ IsTable(todo) /\ IsTable(cols)
       /\ Range(todo) \subseteq TableColumns /\ Range(cols) \subseteq TableColumns
  BY ColumnsKnown
<1>14. CASE r <= n
  <2>1. bb' = Bitmap(n, r)
    BY <1>4, <1>11, <1>12, <1>14, AllocatedBitmap
  <2>2. Allocated(Bitmap(n, 0), k) = Bitmap(n, k)
    BY <1>4, <1>7, <1>12, <1>14, AllocatedBitmap
  <2>3. sb' = [sb EXCEPT !.bitmaps_block = k]
    BY <1>11, <2>2 DEF Bitmap
  <2>4. sb' = SuperAt("table", s, n, m)
    BY <1>3, <1>7, <2>3 DEF SuperAt, Filed
  <2>5. pc' = "table"
    BY <1>11, <2>1 DEF Then, Bitmap
  <2>6. /\ BlocksTaken("table", s, n, m, c) = r /\ InodesTaken("table") = 0
        /\ DiskAt("table", s, n, m, c) = {}
    BY <1>7 DEF BlocksTaken, InodesTaken, DiskAt, Filed
  <2>7. r \in 0 .. n
    BY <1>7, <1>14
  <2>8. /\ IsTable(todo') /\ Range(todo') \subseteq TableColumns
        /\ IsTable(c) /\ Range(c) \subseteq TableColumns /\ cols' = c
    BY <1>1, <1>3, <1>13
  <2>9. ib' = Bitmap(m, 0) /\ disk' = {}
    BY <1>1, <1>5
  <2>10. QED
    BY <1>1, <1>2, <1>3, <2>1, <2>4, <2>5, <2>6, <2>7, <2>8, <2>9, Establish
<1>15. CASE ~(r <= n)
  <2>1. bb' = [Bitmap(n, 0) EXCEPT !.run = "halt"]
    BY <1>4, <1>11, <1>12, <1>15, AllocatedBitmap
  <2>2. bb'.run = "halt"
    BY <2>1 DEF Bitmap
  <2>3. pc' = "halt"
    BY <1>11, <2>2 DEF Then
  <2>4. sb'.block_size = s
    BY <1>3, <1>11 DEF SuperAt
  <2>5. MapOK(bb')
    BY <1>4, <1>12, <2>1, BitmapOK
  <2>6. MapOK(ib')
    <3>1. 0 \in 0 .. m
      BY <1>4
    <3>2. QED
      BY <1>1, <1>4, <1>5, <3>1, BitmapOK
  <2>7. QED
    BY <1>1, <1>4, <1>5, <2>3, <2>4, <2>5, <2>6, Stop
<1>16. QED
  BY <1>14, <1>15

\* An inode is always free for the three files.
LEMMA InodeAllocated ==
  ASSUME NEW m \in Nat, m >= 64, NEW t \in 0 .. 2
  PROVE  /\ allocate_bit(Bitmap(m, t)).id = t
         /\ allocate_bit(Bitmap(m, t)).map = Bitmap(m, t + 1)
<1>1. t \in 0 .. m /\ 1 <= m - t /\ 1 \in Nat
  OBVIOUS
<1>2. Allocated(Bitmap(m, t), 1) = Bitmap(m, t + 1)
  BY <1>1, AllocatedBitmap
<1>3. Bitmap(m, t).next = t
  BY DEF Bitmap
<1>4. QED
  BY <1>2, <1>3 DEF allocate_bit

\* The root table is begun,
LEMMA CreateKeeps ==
  ASSUME FInv, create_table
  PROVE  FInv'
<1>1. /\ pc = "table" /\ cols' = <<>> /\ ib' = allocate_bit(ib).map /\ pc' = Then(ib', "column")
      /\ UNCHANGED <<dev, size, delta, sb, bb, disk>>
  BY DEF create_table
<1>2. "table" \in LaidOut /\ "column" \in LaidOut /\ "column" \notin Filed \cup {"root"}
  BY DEF LaidOut, Filed
<1>3. PICK s, n, m, c :
           /\ c = cols /\ Layed(size, s, n, m) /\ BlocksTaken("table", s, n, m, c) <= n
           /\ sb = SuperAt("table", s, n, m) /\ bb = Bitmap(n, BlocksTaken("table", s, n, m, c))
           /\ ib = Bitmap(m, InodesTaken("table")) /\ disk = DiskAt("table", s, n, m, c)
  BY <1>1, <1>2, InStep
<1>4. s \in 1 .. 5 /\ n \in Nat /\ m \in Nat /\ n >= 64 /\ m >= 64
  BY <1>3 DEF Layed
<1>5. PICK t \in Tables : /\ todo' = t
                          /\ Kept(Entries, Blocks(table_bytes(t))) = Blocks(table_bytes(t))
                               \/ "odd_block" \in Allow
  BY DEF create_table
<1>6. IsTable(todo') /\ Range(todo') \subseteq TableColumns
  BY <1>5, TablesAssumption DEF IsTable, TableColumns
<1>7. IsTable(<<>>) /\ Range(<<>>) \subseteq TableColumns
  BY DEF IsTable, Range
<1>8. Whole(s, Len(todo') + Len(<<>>))
  <2>1. Entries = Width(s) /\ Blocks(table_bytes(t)) = InBlocks(s, table_bytes(t))
    BY <1>3, <1>4, ModelSizes
  <2>2. Len(todo') + Len(<<>>) = Len(t)
    BY <1>5, <1>6 DEF IsTable
  <2>3. QED
    BY <1>5, <2>1, <2>2 DEF Whole, table_bytes
<1>9. ib = Bitmap(m, 0) /\ disk = {}
  BY <1>3 DEF InodesTaken, DiskAt, Filed
<1>10. ib' = Bitmap(m, 1)
  <2>1. allocate_bit(Bitmap(m, 0)).map = Bitmap(m, 0 + 1)
    BY <1>4, InodeAllocated
  <2>2. QED
    BY <1>1, <1>9, <2>1
<1>11. pc' = "column"
  BY <1>1, <1>10 DEF Then, Bitmap
<1>12. /\ BlocksTaken("table", s, n, m, c) = RootAt(s, n, m)
       /\ BlocksTaken("column", s, n, m, <<>>) = RootAt(s, n, m) /\ InodesTaken("column") = 1
       /\ DiskAt("column", s, n, m, <<>>) = {}
       /\ SuperAt("column", s, n, m) = SuperAt("table", s, n, m)
  BY DEF BlocksTaken, InodesTaken, DiskAt, Filed, SuperAt
<1>13. RootAt(s, n, m) \in 0 .. n
  <2>1. RootAt(s, n, m) \in Nat
    BY <1>4, RegionsNat
  <2>2. RootAt(s, n, m) <= n
    BY <1>3, <1>12
  <2>3. QED
    BY <1>4, <2>1, <2>2
<1>14. QED
  BY <1>1, <1>2, <1>3, <1>6, <1>7, <1>8, <1>9, <1>10, <1>11, <1>12, <1>13, Establish

\* gets a column,
LEMMA AddKeeps ==
  ASSUME FInv, add_column
  PROVE  FInv'
<1>1. /\ pc = "column" /\ pc' = "column" /\ todo # <<>>
      /\ cols' = <<Head(todo)>> \o cols /\ todo' = Tail(todo)
      /\ UNCHANGED <<dev, size, delta, sb, bb, ib, disk>>
  BY DEF add_column
<1>2. "column" \in LaidOut /\ "column" \notin Filed \cup {"root"} /\ "column" # "reserve"
      /\ "column" \notin {"reserve", "table"}
  BY DEF LaidOut, Filed
<1>3. PICK s, n, m, c :
           /\ c = cols /\ Layed(size, s, n, m) /\ BlocksTaken("column", s, n, m, c) <= n
           /\ sb = SuperAt("column", s, n, m) /\ bb = Bitmap(n, BlocksTaken("column", s, n, m, c))
           /\ ib = Bitmap(m, InodesTaken("column")) /\ disk = DiskAt("column", s, n, m, c)
           /\ Whole(s, Len(todo) + Len(c))
  BY <1>1, <1>2, InStep
<1>4. s \in 1 .. 5 /\ n \in Nat /\ m \in Nat
  BY <1>3 DEF Layed
<1>5. /\ IsTable(todo) /\ IsTable(cols)
      /\ Range(todo) \subseteq TableColumns /\ Range(cols) \subseteq TableColumns
  BY ColumnsKnown
<1>6. PICK c1, t1 : c1 = cols' /\ t1 = todo'
  OBVIOUS
<1>7. /\ IsTable(c1) /\ IsTable(t1) /\ Len(t1) + Len(c1) = Len(todo) + Len(cols)
      /\ Range(c1) \subseteq TableColumns /\ Range(t1) \subseteq TableColumns
  <2>1. todo \in Seq(Column) /\ cols \in Seq(Column)
    BY <1>5 DEF IsTable
  <2>2. /\ Head(todo) \in Column /\ t1 \in Seq(Column) /\ Len(t1) = Len(todo) - 1
        /\ Head(todo) = todo[1] /\ 1 \in 1 .. Len(todo)
        /\ \A i \in 1 .. Len(t1) : t1[i] = todo[i + 1]
    BY <1>1, <1>6, <2>1
  <2>3. /\ c1 \in Seq(Column) /\ Len(c1) = Len(cols) + 1
        /\ \A i \in 1 .. Len(c1) : c1[i] = IF i = 1 THEN todo[1] ELSE cols[i - 1]
    BY <1>1, <1>6, <2>1, <2>2
  <2>4. /\ DOMAIN todo = 1 .. Len(todo) /\ DOMAIN cols = 1 .. Len(cols)
        /\ DOMAIN t1 = 1 .. Len(t1) /\ DOMAIN c1 = 1 .. Len(c1)
        /\ Len(todo) \in Nat /\ Len(cols) \in Nat
    BY <2>1, <2>2, <2>3
  <2>5. \A i \in 1 .. Len(todo) : todo[i] \in TableColumns
    BY <1>5, <2>4 DEF Range
  <2>6. \A i \in 1 .. Len(cols) : cols[i] \in TableColumns
    BY <1>5, <2>4 DEF Range
  <2>7. \A i \in 1 .. Len(t1) : t1[i] \in TableColumns
    BY <2>2, <2>4, <2>5
  <2>8. \A i \in 1 .. Len(c1) : c1[i] \in TableColumns
    BY <2>2, <2>3, <2>4, <2>5, <2>6
  <2>9. Range(c1) \subseteq TableColumns /\ Range(t1) \subseteq TableColumns
    BY <2>4, <2>7, <2>8 DEF Range
  <2>10. QED
    BY <2>2, <2>3, <2>4, <2>9 DEF IsTable
<1>8. /\ BlocksTaken("column", s, n, m, c1) = BlocksTaken("column", s, n, m, c)
      /\ BlocksTaken("column", s, n, m, c) = RootAt(s, n, m)
      /\ DiskAt("column", s, n, m, c1) = DiskAt("column", s, n, m, c)
  BY DEF BlocksTaken, DiskAt, Filed
<1>9. BlocksTaken("column", s, n, m, c1) \in 0 .. n
  <2>1. RootAt(s, n, m) \in Nat
    BY <1>4, RegionsNat
  <2>2. QED
    BY <1>3, <1>4, <1>8, <2>1
<1>10. /\ IsTable(todo') /\ Range(todo') \subseteq TableColumns
       /\ Whole(s, Len(todo') + Len(c1))
  BY <1>3, <1>6, <1>7
<1>11. /\ sb' = SuperAt("column", s, n, m) /\ bb' = Bitmap(n, BlocksTaken("column", s, n, m, c1))
       /\ ib' = Bitmap(m, InodesTaken("column")) /\ disk' = DiskAt("column", s, n, m, c1)
  BY <1>1, <1>3, <1>8
<1>12. QED
  BY <1>1, <1>2, <1>3, <1>6, <1>7, <1>9, <1>10, <1>11, Establish

\* and is closed to further ones, its columns in order.
LEMMA DefineKeeps ==
  ASSUME FInv, define_table
  PROVE  FInv'
<1>1. /\ pc = "column" /\ pc' = "root" /\ todo = <<>>
      /\ cols' = reorder_columns_by_size(cols)
      /\ UNCHANGED <<dev, size, delta, sb, bb, ib, todo, disk>>
  BY DEF define_table
<1>2. "column" \in LaidOut /\ "root" \in LaidOut /\ "root" # "reserve"
      /\ "column" \notin {"reserve", "table"}
  BY DEF LaidOut
<1>3. PICK s, n, m, c :
           /\ c = cols /\ Layed(size, s, n, m) /\ BlocksTaken("column", s, n, m, c) <= n
           /\ sb = SuperAt("column", s, n, m) /\ bb = Bitmap(n, BlocksTaken("column", s, n, m, c))
           /\ ib = Bitmap(m, InodesTaken("column")) /\ disk = DiskAt("column", s, n, m, c)
           /\ Whole(s, Len(todo) + Len(c))
  BY <1>1, <1>2, InStep
<1>4. s \in 1 .. 5 /\ n \in Nat /\ m \in Nat
  BY <1>3 DEF Layed
<1>5. /\ IsTable(todo) /\ IsTable(cols)
      /\ Range(todo) \subseteq TableColumns /\ Range(cols) \subseteq TableColumns
  BY ColumnsKnown
<1>6. PICK c1 : c1 = cols' /\ c1 = reorder_columns_by_size(cols)
  BY <1>1
<1>7. /\ IsTable(c1) /\ Len(c1) = Len(cols) /\ Range(c1) \subseteq Range(cols) /\ Sorted(c1)
  <2>1. /\ IsTable(c1) /\ Len(c1) = Len(cols) /\ Range(c1) \subseteq Range(cols)
        /\ \A k \in 1 .. Len(c1) - 1 : Boundary(c1, k) >= Boundary(c1, k + 1)
    BY <1>5, <1>6, Reordered
  <2>2. QED
    BY <2>1 DEF Sorted, Boundary
<1>8. /\ BlocksTaken("root", s, n, m, c1) = BlocksTaken("column", s, n, m, c)
      /\ BlocksTaken("column", s, n, m, c) = RootAt(s, n, m)
      /\ DiskAt("root", s, n, m, c1) = DiskAt("column", s, n, m, c)
      /\ InodesTaken("root") = InodesTaken("column")
      /\ SuperAt("root", s, n, m) = SuperAt("column", s, n, m)
  BY DEF BlocksTaken, DiskAt, Filed, InodesTaken, SuperAt
<1>9. BlocksTaken("root", s, n, m, c1) \in 0 .. n
  <2>1. RootAt(s, n, m) \in Nat
    BY <1>4, RegionsNat
  <2>2. QED
    BY <1>3, <1>4, <1>8, <2>1
<1>10. /\ IsTable(todo') /\ Range(todo') \subseteq TableColumns /\ todo' = <<>>
       /\ Whole(s, Len(todo') + Len(c1)) /\ Range(c1) \subseteq TableColumns
  BY <1>1, <1>3, <1>5, <1>7
<1>11. /\ sb' = SuperAt("root", s, n, m) /\ bb' = Bitmap(n, BlocksTaken("root", s, n, m, c1))
       /\ ib' = Bitmap(m, InodesTaken("root")) /\ disk' = DiskAt("root", s, n, m, c1)
  BY <1>1, <1>3, <1>8
<1>12. QED
  BY <1>1, <1>2, <1>3, <1>6, <1>7, <1>9, <1>10, <1>11, Establish

\* The root table is written to inode 0.
LEMMA CloseKeeps ==
  ASSUME FInv, close_root
  PROVE  FInv'
<1>1. pc = "root" /\ UNCHANGED <<dev, size, delta, sb, ib, todo, cols>>
  BY DEF close_root
<1>2. "root" \in LaidOut /\ "bad" \in LaidOut /\ "bad" # "reserve"
      /\ "root" \notin {"reserve", "table"} /\ "root" \in Filed \cup {"root"}
  BY DEF LaidOut
<1>3. PICK s, n, m, c :
           /\ c = cols /\ Layed(size, s, n, m) /\ BlocksTaken("root", s, n, m, c) <= n
           /\ sb = SuperAt("root", s, n, m) /\ bb = Bitmap(n, BlocksTaken("root", s, n, m, c))
           /\ ib = Bitmap(m, InodesTaken("root")) /\ disk = DiskAt("root", s, n, m, c)
           /\ Whole(s, Len(todo) + Len(c)) /\ todo = <<>> /\ Sorted(c)
  BY <1>1, <1>2, InStep
<1>4. s \in 1 .. 5 /\ n \in Nat /\ m \in Nat /\ n >= 64 /\ m >= 64
  BY <1>3 DEF Layed
<1>5. /\ IsTable(todo) /\ IsTable(c) /\ Range(todo) \subseteq TableColumns
      /\ Range(c) \subseteq TableColumns
  BY <1>3, ColumnsKnown
<1>6. /\ bb = Bitmap(n, RootAt(s, n, m)) /\ disk = {} /\ ib = Bitmap(m, 1)
      /\ RootAt(s, n, m) <= n
  BY <1>3 DEF BlocksTaken, DiskAt, InodesTaken, Filed
<1>7. PICK w \in Widths, k \in Nat, r \in 0 .. n, i \in Nat :
           /\ w = Width(s) /\ k = Kept(w, RootSize(s, c)) /\ r = RootAt(s, n, m)
           /\ i = index_blocks(w, k)
  <2>1. Width(s) \in Widths
    BY <1>4, Sizes
  <2>2. Kept(Width(s), RootSize(s, c)) \in Nat
    BY <1>4, <1>5, RootSizes
  <2>3. RootAt(s, n, m) \in Nat
    BY <1>4, RegionsNat
  <2>4. RootAt(s, n, m) \in 0 .. n
    BY <1>4, <1>6, <2>3
  <2>5. index_blocks(Width(s), Kept(Width(s), RootSize(s, c))) \in Nat
    BY <2>1, <2>2, IndexNat
  <2>6. QED
    BY <2>1, <2>2, <2>4, <2>5
<1>8. RootEnd(s, n, m, c) = r + k + i
  BY <1>7 DEF RootEnd
<1>9. /\ BLOCK_SIZE = BS(s) /\ Entries = w /\ Blocks(table_bytes(cols)) = RootSize(s, c)
      /\ inode_at(0) = 0 * INODE + inode_first_block(s) * BS(s)
  BY <1>3, <1>4, <1>7, ModelSizes DEF RootSize
<1>10. PICK f : /\ f = file_tree(w, bb, RootSize(s, c))
                /\ bb' = f.map /\ pc' = Then(f.map, "bad")
                /\ disk' = IF f.map.run # "ok" THEN disk
                           ELSE Written(Written(disk,
                                  {Extent(f.id[p] * BS(s), BS(s), block_content(w, f.id, p)) :
                                     p \in DOMAIN f.id}),
                                  {Extent(inode_at(0), INODE, inode_content(table_bytes(cols), f.id))})
  BY <1>9 DEF close_root
<1>11. f.id = RootIds(s, n, m, c) /\ f.map = Allocated(Bitmap(n, r), k + i)
  <2>1. f.id = file_tree(Width(s), Bitmap(n, RootAt(s, n, m)), RootSize(s, c)).id
    BY <1>6, <1>7, <1>10
  <2>2. f.map = Allocated(bb, k + i)
    BY <1>7, <1>10 DEF file_tree
  <2>3. QED
    BY <1>6, <1>7, <2>1, <2>2 DEF RootIds
<1>12. k + i \in Nat /\ (k + i <= n - r <=> r + k + i <= n) /\ r + (k + i) = r + k + i
  BY <1>4, <1>7
<1>13. CASE r + k + i <= n
  <2>1. bb' = Bitmap(n, r + k + i)
    BY <1>4, <1>7, <1>10, <1>11, <1>12, <1>13, AllocatedBitmap
  <2>2. bb'.run = "ok"
    BY <2>1 DEF Bitmap
  <2>3. pc' = "bad"
    BY <1>10, <2>2 DEF Then
  <2>4. PICK R, I : R = RootExtents(s, RootIds(s, n, m, c)) /\ I = Inode0(s, n, m, c)
    OBVIOUS
  <2>5. disk' = Written(Written({}, R), {I})
    BY <1>3, <1>6, <1>7, <1>9, <1>10, <1>11, <2>2, <2>4 DEF RootExtents, Inode0, InodeExtent
  <2>6. Written({}, R) = R
    BY DEF Written
  <2>7. \A e \in R : Apart(e, I)
    <3>1. PICK F, M, A, x, y \in Nat : Placed(s, n, m, c, F, M, A, x, y)
      BY <1>4, <1>5, ExtentsAt
    <3>2. /\ F + 64 * m <= M /\ M + x + y <= A /\ F = inode_first_block(s) * BS(s)
          /\ \A e \in R : e.at \in Nat /\ e.at >= A
      BY <2>4, <3>1 DEF Placed
    <3>3. I.at = F /\ I.len = 64
      <4>1. 0 * INODE + F = F
        BY DEF INODE
      <4>2. QED
        BY <2>4, <3>2, <4>1 DEF Inode0, InodeExtent, Extent, INODE
    <3>4. QED
      BY <1>4, <3>2, <3>3 DEF Apart
  <2>8. Written(R, {I}) = R \cup {I}
    BY <2>7, WrittenApart
  <2>9. disk' = R \cup {I}
    BY <2>5, <2>6, <2>8
  <2>10. /\ DiskAt("bad", s, n, m, c) = R \cup {I} /\ InodesTaken("bad") = 1
         /\ BlocksTaken("bad", s, n, m, c) = RootEnd(s, n, m, c)
         /\ SuperAt("bad", s, n, m) = SuperAt("root", s, n, m)
    BY <2>4 DEF DiskAt, BlocksTaken, InodesTaken, SuperAt, Filed
  <2>11. BlocksTaken("bad", s, n, m, c) \in 0 .. n
    BY <1>7, <1>8, <1>13, <2>10
  <2>12. /\ sb' = SuperAt("bad", s, n, m) /\ bb' = Bitmap(n, BlocksTaken("bad", s, n, m, c))
         /\ ib' = Bitmap(m, InodesTaken("bad")) /\ disk' = DiskAt("bad", s, n, m, c)
    BY <1>1, <1>3, <1>6, <1>8, <2>1, <2>9, <2>10
  <2>13. /\ IsTable(todo') /\ Range(todo') \subseteq TableColumns /\ todo' = <<>> /\ cols' = c
         /\ Whole(s, Len(todo') + Len(c))
    BY <1>1, <1>3, <1>5
  <2>14. QED
    BY <1>1, <1>2, <1>3, <1>5, <2>3, <2>11, <2>12, <2>13, Establish
<1>14. CASE ~(r + k + i <= n)
  <2>1. bb' = [Bitmap(n, r) EXCEPT !.run = "halt"]
    BY <1>4, <1>7, <1>10, <1>11, <1>12, <1>14, AllocatedBitmap
  <2>2. bb'.run = "halt"
    BY <2>1 DEF Bitmap
  <2>3. pc' = "halt" /\ disk' = {}
    BY <1>6, <1>10, <2>2 DEF Then
  <2>4. sb'.block_size = s
    BY <1>1, <1>3 DEF SuperAt
  <2>5. MapOK(bb')
    BY <1>4, <1>7, <2>1, BitmapOK
  <2>6. MapOK(ib')
    <3>1. 1 \in 0 .. m
      BY <1>4
    <3>2. QED
      BY <1>1, <1>4, <1>6, <3>1, BitmapOK
  <2>7. QED
    BY <1>1, <1>4, <2>3, <2>4, <2>5, <2>6, Stop
<1>15. QED
  BY <1>13, <1>14

\* An inode is written next to what the device holds by then.
LEMMA InodeApart ==
  ASSUME NEW s \in 1 .. 5, NEW n \in Nat, NEW m \in Nat, NEW c, IsTable(c), n >= 64, m >= 64,
         NEW i \in 1 .. 2
  PROVE  /\ \A e \in RootExtents(s, RootIds(s, n, m, c)) \cup {Inode0(s, n, m, c)} :
               Apart(e, InodeN(s, i))
         /\ i = 2 => Apart(InodeN(s, 1), InodeN(s, i))
<1>1. PICK F, M, A, x, y \in Nat : Placed(s, n, m, c, F, M, A, x, y)
  BY ExtentsAt
<1>2. /\ F + 64 * m <= M /\ M + x + y <= A /\ F = inode_first_block(s) * BS(s)
      /\ \A e \in RootExtents(s, RootIds(s, n, m, c)) : e.at \in Nat /\ e.at >= A
  BY <1>1 DEF Placed
<1>3. PICK a, b, d : a = Inode0(s, n, m, c) /\ b = InodeN(s, 1) /\ d = InodeN(s, i)
  OBVIOUS
<1>4. /\ 0 * INODE + F = F /\ 1 * INODE + F = F + 64 /\ i * INODE + F = F + 64 * i
  BY DEF INODE
<1>5. /\ a.at = F /\ a.len = 64 /\ b.at = F + 64 /\ b.len = 64 /\ d.at = F + 64 * i /\ d.len = 64
  BY <1>2, <1>3, <1>4 DEF Inode0, InodeN, InodeExtent, Extent, INODE
<1>6. \A e \in RootExtents(s, RootIds(s, n, m, c)) : Apart(e, d)
  BY <1>2, <1>5 DEF Apart
<1>7. Apart(a, d) /\ (i = 2 => Apart(b, d))
  BY <1>5 DEF Apart
<1>8. QED
  BY <1>3, <1>6, <1>7

\* What the invariant says of a run that has written the root table.
LEMMA InFiledStep ==
  ASSUME FInv, NEW p \in Filed, pc = p
  PROVE  \E s, n, m, c :
           /\ c = cols /\ Layed(size, s, n, m) /\ BlocksTaken(p, s, n, m, c) \in 0 .. n
           /\ s \in 1 .. 5 /\ n \in Nat /\ m \in Nat /\ n >= 64 /\ m >= 64
           /\ BlocksTaken(p, s, n, m, c) = RootEnd(s, n, m, c)
           /\ sb = SuperAt(p, s, n, m) /\ bb = Bitmap(n, RootEnd(s, n, m, c))
           /\ ib = Bitmap(m, InodesTaken(p)) /\ disk = DiskAt(p, s, n, m, c)
           /\ Whole(s, Len(todo) + Len(c)) /\ todo = <<>> /\ Sorted(c)
           /\ IsTable(c) /\ Range(c) \subseteq TableColumns
<1>1. p \in LaidOut /\ p \notin {"reserve", "table"} /\ p \in Filed \cup {"root"}
  BY DEF LaidOut, Filed
<1>2. PICK s, n, m, c :
           /\ c = cols /\ Layed(size, s, n, m) /\ BlocksTaken(p, s, n, m, c) <= n
           /\ sb = SuperAt(p, s, n, m) /\ bb = Bitmap(n, BlocksTaken(p, s, n, m, c))
           /\ ib = Bitmap(m, InodesTaken(p)) /\ disk = DiskAt(p, s, n, m, c)
           /\ Whole(s, Len(todo) + Len(c)) /\ todo = <<>> /\ Sorted(c)
  BY <1>1, InStep
<1>3. s \in 1 .. 5 /\ n \in Nat /\ m \in Nat /\ n >= 64 /\ m >= 64
  BY <1>2 DEF Layed
<1>4. IsTable(c) /\ Range(c) \subseteq TableColumns
  BY <1>2, ColumnsKnown
<1>5. BlocksTaken(p, s, n, m, c) = RootEnd(s, n, m, c)
  BY DEF BlocksTaken, Filed
<1>6. RootEnd(s, n, m, c) \in Nat
  BY <1>3, <1>4, RootBlocks
<1>7. RootEnd(s, n, m, c) \in 0 .. n
  BY <1>2, <1>3, <1>5, <1>6
<1>8. QED
  BY <1>2, <1>3, <1>4, <1>5, <1>7

\* ... and of the step after it.
LEMMA EstablishFiled ==
  ASSUME FInv, pc \in Filed, dev' = dev, size' = size, delta' = delta,
         UNCHANGED <<bb, todo, cols>>,
         NEW p \in Filed, NEW s, NEW n, NEW m, NEW c, pc' = p, cols = c,
         Layed(size, s, n, m), RootEnd(s, n, m, c) \in 0 .. n,
         sb' = SuperAt(p, s, n, m), bb = Bitmap(n, RootEnd(s, n, m, c)),
         ib' = Bitmap(m, InodesTaken(p)), disk' = DiskAt(p, s, n, m, c),
         Whole(s, Len(todo) + Len(c)), todo = <<>>, Sorted(c)
  PROVE  FInv'
<1>1. p \in LaidOut /\ p # "reserve" /\ pc # "probe" /\ pc # "killed"
  BY DEF LaidOut, Filed
<1>2. BlocksTaken(p, s, n, m, c) = RootEnd(s, n, m, c)
  BY DEF BlocksTaken, Filed
<1>3. /\ IsTable(c) /\ IsTable(todo) /\ Range(c) \subseteq TableColumns
      /\ Range(todo) \subseteq TableColumns
  BY ColumnsKnown
<1>4. /\ IsTable(todo') /\ Range(todo') \subseteq TableColumns /\ todo' = <<>> /\ cols' = c
      /\ Whole(s, Len(todo') + Len(c))
  BY <1>3
<1>5. bb' = Bitmap(n, BlocksTaken(p, s, n, m, c)) /\ BlocksTaken(p, s, n, m, c) \in 0 .. n
  BY <1>2
<1>6. QED
  BY <1>1, <1>3, <1>4, <1>5, Establish

\* The empty file of the bad blocks,
LEMMA BadKeeps ==
  ASSUME FInv, bad_blocks
  PROVE  FInv'
<1>1. /\ pc = "bad" /\ UNCHANGED <<dev, size, delta, bb, todo, cols>>
      /\ ib' = allocate_bit(ib).map
      /\ sb' = [sb EXCEPT !["bad_block_inode"] = allocate_bit(ib).id]
      /\ disk' = Written(disk, {Extent(inode_at(allocate_bit(ib).id), INODE, inode_content(0, <<>>))})
      /\ pc' = Then(ib', "journal")
  BY DEF bad_blocks, empty_file
<1>2. "bad" \in Filed /\ "journal" \in Filed
  BY DEF Filed
<1>3. PICK s, n, m, c :
           /\ c = cols /\ Layed(size, s, n, m) /\ RootEnd(s, n, m, c) \in 0 .. n
           /\ s \in 1 .. 5 /\ n \in Nat /\ m \in Nat /\ n >= 64 /\ m >= 64
           /\ sb = SuperAt("bad", s, n, m) /\ bb = Bitmap(n, RootEnd(s, n, m, c))
           /\ ib = Bitmap(m, InodesTaken("bad")) /\ disk = DiskAt("bad", s, n, m, c)
           /\ Whole(s, Len(todo) + Len(c)) /\ todo = <<>> /\ Sorted(c)
           /\ IsTable(c) /\ Range(c) \subseteq TableColumns
  BY <1>1, <1>2, InFiledStep
<1>4. allocate_bit(ib).id = 1 /\ allocate_bit(ib).map = Bitmap(m, 2)
  <2>1. InodesTaken("bad") = 1
    BY DEF InodesTaken
  <2>2. /\ allocate_bit(Bitmap(m, 1)).id = 1 /\ allocate_bit(Bitmap(m, 1)).map = Bitmap(m, 1 + 1)
    BY <1>3, InodeAllocated
  <2>3. QED
    BY <1>3, <2>1, <2>2
<1>5. pc' = "journal" /\ ib' = Bitmap(m, InodesTaken("journal"))
  BY <1>1, <1>4 DEF Then, Bitmap, InodesTaken
<1>6. sb' = SuperAt("journal", s, n, m)
  BY <1>1, <1>3, <1>4 DEF SuperAt, Filed
<1>7. inode_at(1) = 1 * INODE + inode_first_block(s) * BS(s)
  BY <1>3, ModelSizes
<1>8. disk' = Written(disk, {InodeN(s, 1)})
  BY <1>1, <1>4, <1>7 DEF InodeN, InodeExtent
<1>9. disk = RootExtents(s, RootIds(s, n, m, c)) \cup {Inode0(s, n, m, c)}
  BY <1>3 DEF DiskAt, Filed
<1>10. \A e \in disk : \A x \in {InodeN(s, 1)} : Apart(e, x)
  BY <1>3, <1>9, InodeApart
<1>11. disk' = disk \cup {InodeN(s, 1)}
  BY <1>8, <1>10, WrittenApart
<1>12. disk' = DiskAt("journal", s, n, m, c)
  BY <1>9, <1>11 DEF DiskAt, Filed
<1>13. QED
  BY <1>1, <1>2, <1>3, <1>5, <1>6, <1>12, EstablishFiled

\* and of the journal.
LEMMA JournalKeeps ==
  ASSUME FInv, journal
  PROVE  FInv'
<1>1. /\ pc = "journal" /\ UNCHANGED <<dev, size, delta, bb, todo, cols>>
      /\ ib' = allocate_bit(ib).map
      /\ sb' = [sb EXCEPT !["journal_inode"] = allocate_bit(ib).id]
      /\ disk' = Written(disk, {Extent(inode_at(allocate_bit(ib).id), INODE, inode_content(0, <<>>))})
      /\ pc' = Then(ib', "super")
  BY DEF journal, empty_file
<1>2. "journal" \in Filed /\ "super" \in Filed
  BY DEF Filed
<1>3. PICK s, n, m, c :
           /\ c = cols /\ Layed(size, s, n, m) /\ RootEnd(s, n, m, c) \in 0 .. n
           /\ s \in 1 .. 5 /\ n \in Nat /\ m \in Nat /\ n >= 64 /\ m >= 64
           /\ sb = SuperAt("journal", s, n, m) /\ bb = Bitmap(n, RootEnd(s, n, m, c))
           /\ ib = Bitmap(m, InodesTaken("journal")) /\ disk = DiskAt("journal", s, n, m, c)
           /\ Whole(s, Len(todo) + Len(c)) /\ todo = <<>> /\ Sorted(c)
           /\ IsTable(c) /\ Range(c) \subseteq TableColumns
  BY <1>1, <1>2, InFiledStep
<1>4. allocate_bit(ib).id = 2 /\ allocate_bit(ib).map = Bitmap(m, 3)
  <2>1. InodesTaken("journal") = 2
    BY DEF InodesTaken
  <2>2. /\ allocate_bit(Bitmap(m, 2)).id = 2 /\ allocate_bit(Bitmap(m, 2)).map = Bitmap(m, 2 + 1)
    BY <1>3, InodeAllocated
  <2>3. QED
    BY <1>3, <2>1, <2>2
<1>5. pc' = "super" /\ ib' = Bitmap(m, InodesTaken("super"))
  BY <1>1, <1>4 DEF Then, Bitmap, InodesTaken
<1>6. sb' = SuperAt("super", s, n, m)
  BY <1>1, <1>3, <1>4 DEF SuperAt, Filed
<1>7. inode_at(2) = 2 * INODE + inode_first_block(s) * BS(s)
  BY <1>3, ModelSizes
<1>8. disk' = Written(disk, {InodeN(s, 2)})
  BY <1>1, <1>4, <1>7 DEF InodeN, InodeExtent
<1>9. disk = RootExtents(s, RootIds(s, n, m, c)) \cup {Inode0(s, n, m, c)} \cup {InodeN(s, 1)}
  BY <1>3 DEF DiskAt, Filed
<1>10. \A e \in disk : \A x \in {InodeN(s, 2)} : Apart(e, x)
  BY <1>3, <1>9, InodeApart
<1>11. disk' = disk \cup {InodeN(s, 2)}
  BY <1>8, <1>10, WrittenApart
<1>12. disk' = DiskAt("super", s, n, m, c)
  BY <1>9, <1>11 DEF DiskAt, Filed
<1>13. QED
  BY <1>1, <1>2, <1>3, <1>5, <1>6, <1>12, EstablishFiled

\* The superblock lies before everything else, the bitmaps between the inodes and
\* the root table.
LEMMA MapsApart ==
  ASSUME NEW s \in 1 .. 5, NEW n \in Nat, NEW m \in Nat, NEW c, IsTable(c), n >= 64, m >= 64
  PROVE  /\ \A e \in DiskAt("super", s, n, m, c) :
              /\ Apart(e, SuperExtent(s, n, m, c)) /\ e.at # KB
              /\ Apart(e, BlockMap(s, n, m, c)) /\ Apart(e, InodeMap(s, n, m))
         /\ Apart(SuperExtent(s, n, m, c), BlockMap(s, n, m, c))
         /\ Apart(SuperExtent(s, n, m, c), InodeMap(s, n, m))
<1>1. PICK F, M, A, x, y \in Nat : Placed(s, n, m, c, F, M, A, x, y)
  BY ExtentsAt
<1>2. /\ F >= 2048 /\ F + 64 * m <= M /\ M + x + y <= A /\ F = inode_first_block(s) * BS(s)
      /\ \A e \in RootExtents(s, RootIds(s, n, m, c)) : e.at \in Nat /\ e.at >= A
  BY <1>1 DEF Placed
<1>3. PICK i0, i1, i2, su, bm, im :
         /\ i0 = Inode0(s, n, m, c) /\ i1 = InodeN(s, 1) /\ i2 = InodeN(s, 2)
         /\ su = SuperExtent(s, n, m, c) /\ bm = BlockMap(s, n, m, c) /\ im = InodeMap(s, n, m)
  OBVIOUS
<1>4. /\ su.at = 1024 /\ su.len = 120 /\ bm.at = M /\ bm.len = x /\ im.at = M + x /\ im.len = y
  BY <1>1, <1>3 DEF Placed
<1>5. /\ 0 * INODE + F = F /\ 1 * INODE + F = F + 64 /\ 2 * INODE + F = F + 128
  BY DEF INODE
<1>6. /\ i0.at = F /\ i0.len = 64 /\ i1.at = F + 64 /\ i1.len = 64 /\ i2.at = F + 128 /\ i2.len = 64
  BY <1>2, <1>3, <1>5 DEF Inode0, InodeN, InodeExtent, Extent, INODE
<1>7. DiskAt("super", s, n, m, c) = RootExtents(s, RootIds(s, n, m, c)) \cup {i0, i1, i2}
  BY <1>3 DEF DiskAt, Filed
<1>8. ASSUME NEW e \in DiskAt("super", s, n, m, c)
      PROVE  Apart(e, su) /\ e.at # KB /\ Apart(e, bm) /\ Apart(e, im)
  <2>1. CASE e \in RootExtents(s, RootIds(s, n, m, c))
    <3>1. e.at \in Nat /\ e.at >= A
      BY <1>2, <2>1
    <3>2. QED
      BY <1>2, <1>4, <3>1 DEF Apart, KB
  <2>2. CASE e \in {i0, i1, i2}
    BY <1>2, <1>4, <1>6, <2>2 DEF Apart, KB
  <2>3. QED
    BY <1>7, <2>1, <2>2
<1>9. Apart(su, bm) /\ Apart(su, im)
  BY <1>2, <1>4 DEF Apart
<1>10. QED
  BY <1>3, <1>8, <1>9

\* The superblock is written,
LEMMA SuperKeeps ==
  ASSUME FInv, write_superblock
  PROVE  FInv'
<1>1. /\ pc = "super" /\ pc' = "bitmaps" /\ UNCHANGED <<dev, size, delta, sb, bb, ib, todo, cols>>
      /\ disk' = Written(disk, {Extent(KB, SUPER,
                                       [kind |-> "super", free_block_count |-> bb.count,
                                        free_inode_count |-> ib.count, sb |-> sb])})
  BY DEF write_superblock
<1>2. "super" \in Filed /\ "bitmaps" \in Filed
  BY DEF Filed
<1>3. PICK s, n, m, c :
           /\ c = cols /\ Layed(size, s, n, m) /\ RootEnd(s, n, m, c) \in 0 .. n
           /\ s \in 1 .. 5 /\ n \in Nat /\ m \in Nat /\ n >= 64 /\ m >= 64
           /\ sb = SuperAt("super", s, n, m) /\ bb = Bitmap(n, RootEnd(s, n, m, c))
           /\ ib = Bitmap(m, InodesTaken("super")) /\ disk = DiskAt("super", s, n, m, c)
           /\ Whole(s, Len(todo) + Len(c)) /\ todo = <<>> /\ Sorted(c)
           /\ IsTable(c) /\ Range(c) \subseteq TableColumns
  BY <1>1, <1>2, InFiledStep
<1>4. /\ InodesTaken("super") = 3 /\ InodesTaken("bitmaps") = 3
      /\ SuperAt("bitmaps", s, n, m) = SuperAt("super", s, n, m)
      /\ SuperAt("done", s, n, m) = SuperAt("super", s, n, m)
  BY DEF InodesTaken, SuperAt, Filed
<1>5. bb.count = n - RootEnd(s, n, m, c) /\ ib.count = m - 3
  BY <1>3, <1>4 DEF Bitmap
<1>6. disk' = Written(disk, {SuperExtent(s, n, m, c)})
  BY <1>1, <1>3, <1>4, <1>5 DEF SuperExtent
<1>7. \A e \in disk : \A x \in {SuperExtent(s, n, m, c)} : Apart(e, x)
  BY <1>3, MapsApart
<1>8. disk' = disk \cup {SuperExtent(s, n, m, c)}
  BY <1>6, <1>7, WrittenApart
<1>9. disk' = DiskAt("bitmaps", s, n, m, c)
  BY <1>3, <1>8 DEF DiskAt, Filed
<1>10. /\ sb' = SuperAt("bitmaps", s, n, m) /\ ib' = Bitmap(m, InodesTaken("bitmaps"))
  BY <1>1, <1>3, <1>4
<1>11. QED
  BY <1>1, <1>2, <1>3, <1>9, <1>10, EstablishFiled

\* and the bitmaps behind it.
LEMMA BitmapsKeeps ==
  ASSUME FInv, write_bitmaps
  PROVE  FInv'
<1>1. /\ pc = "bitmaps" /\ pc' = "done" /\ UNCHANGED <<dev, size, delta, sb, bb, ib, todo, cols>>
      /\ disk' = Written(disk, {Extent(BLOCK_SIZE * sb.bitmaps_block, bb.bytes,
                                       [kind |-> "bitmap", free |-> Free(bb)]),
                                Extent(BLOCK_SIZE * sb.bitmaps_block + bb.bytes, ib.bytes,
                                       [kind |-> "bitmap", free |-> Free(ib)])})
  BY DEF write_bitmaps
<1>2. "bitmaps" \in Filed /\ "done" \in Filed
  BY DEF Filed
<1>3. PICK s, n, m, c :
           /\ c = cols /\ Layed(size, s, n, m) /\ RootEnd(s, n, m, c) \in 0 .. n
           /\ s \in 1 .. 5 /\ n \in Nat /\ m \in Nat /\ n >= 64 /\ m >= 64
           /\ sb = SuperAt("bitmaps", s, n, m) /\ bb = Bitmap(n, RootEnd(s, n, m, c))
           /\ ib = Bitmap(m, InodesTaken("bitmaps")) /\ disk = DiskAt("bitmaps", s, n, m, c)
           /\ Whole(s, Len(todo) + Len(c)) /\ todo = <<>> /\ Sorted(c)
           /\ IsTable(c) /\ Range(c) \subseteq TableColumns
  BY <1>1, <1>2, InFiledStep
<1>4. /\ InodesTaken("done") = 3 /\ InodesTaken("bitmaps") = 3
      /\ SuperAt("done", s, n, m) = SuperAt("bitmaps", s, n, m)
  BY DEF InodesTaken, SuperAt, Filed
<1>5. /\ bb.bytes = Bytes(n) /\ ib.bytes = Bytes(m)
      /\ Free(bb) = RootEnd(s, n, m, c) .. 8 * Bytes(n) - 1
      /\ Free(ib) = 3 .. 8 * Bytes(m) - 1
  BY <1>3, <1>4 DEF Bitmap, Free
<1>6. BLOCK_SIZE = BS(s) /\ sb.bitmaps_block = MapsAt(s, m)
  <2>1. BLOCK_SIZE = BS(s)
    BY <1>3, ModelSizes
  <2>2. QED
    BY <1>3, <2>1 DEF SuperAt
<1>7. disk' = Written(disk, {BlockMap(s, n, m, c), InodeMap(s, n, m)})
  BY <1>1, <1>5, <1>6 DEF BlockMap, InodeMap
<1>8. disk = DiskAt("super", s, n, m, c) \cup {SuperExtent(s, n, m, c)}
  BY <1>3 DEF DiskAt, Filed
<1>9. \A e \in disk : \A x \in {BlockMap(s, n, m, c), InodeMap(s, n, m)} : Apart(e, x)
  BY <1>3, <1>8, MapsApart
<1>10. disk' = disk \cup {BlockMap(s, n, m, c), InodeMap(s, n, m)}
  BY <1>7, <1>9, WrittenApart
<1>11. disk' = DiskAt("done", s, n, m, c)
  BY <1>3, <1>10 DEF DiskAt, Filed
<1>12. /\ sb' = SuperAt("done", s, n, m) /\ ib' = Bitmap(m, InodesTaken("done"))
  BY <1>1, <1>3, <1>4
<1>13. QED
  BY <1>1, <1>2, <1>3, <1>11, <1>12, EstablishFiled

\* A program stopped before the superblock leaves nothing that mounts.
LEMMA KilledKeeps ==
  ASSUME FInv, Killed, "killed_late" \notin Allow
  PROVE  FInv'
<1>1. /\ pc \notin Over /\ pc # "bitmaps" /\ pc' = "killed"
      /\ UNCHANGED <<dev, size, delta, sb, bb, ib, todo, cols, disk>>
  BY DEF Killed
<1>2. sb.block_size \in 1 .. 5 /\ MapOK(bb) /\ MapOK(ib)
  BY DEF FInv, TypeOK, MapOK
<1>3. pc \in {"probe", "layout", "reserve", "table", "column", "root", "bad", "journal", "super"}
  BY <1>1 DEF FInv, TypeOK
<1>4. \A e \in disk : e.at # KB
  <2>1. CASE pc \in {"probe", "layout", "reserve"}
    BY <2>1 DEF FInv
  <2>2. CASE pc \in {"table", "column", "root"}
    <3>1. PICK p \in LaidOut : p = pc /\ p \notin Filed /\ p \notin {"bitmaps", "done"}
      BY <2>2 DEF LaidOut, Filed
    <3>2. PICK s, n, m, c : disk = DiskAt(p, s, n, m, c)
      BY <3>1, InStep
    <3>3. disk = {}
      BY <3>1, <3>2 DEF DiskAt, Filed
    <3>4. QED
      BY <3>3
  <2>3. CASE pc \in {"bad", "journal", "super"}
    <3>1. PICK p \in Filed : p = pc /\ p \in {"bad", "journal", "super"}
      BY <2>3 DEF Filed
    <3>2. PICK s, n, m, c : /\ disk = DiskAt(p, s, n, m, c) /\ IsTable(c)
                            /\ s \in 1 .. 5 /\ n \in Nat /\ m \in Nat /\ n >= 64 /\ m >= 64
      BY <3>1, InFiledStep
    <3>3. disk \subseteq DiskAt("super", s, n, m, c)
      BY <3>1, <3>2 DEF DiskAt, Filed
    <3>4. QED
      BY <3>2, <3>3, MapsApart
  <2>4. QED
    BY <1>3, <2>1, <2>2, <2>3
<1>5. MapOK(bb') /\ MapOK(ib') /\ sb'.block_size \in 1 .. 5 /\ \A e \in disk' : e.at # KB
  BY <1>1, <1>2, <1>4
<1>6. QED
  BY <1>1, <1>5, Stop

\* The invariant at the start.
LEMMA FInvInit ==
  ASSUME Init, "tiny_device" \notin Allow
  PROVE  FInv
<1>1. /\ dev \in Devices /\ fs_bytes(dev) >= 64 * 256
      /\ delta = Delta /\ sb = [block_size |-> 1] /\ bb = NoMap /\ ib = NoMap
      /\ todo = <<>> /\ cols = <<>> /\ disk = {}
      /\ IF dev.asked = 0 /\ dev.kind = "block" THEN pc = "probe" /\ size = 0
         ELSE pc = "layout" /\ size = fs_bytes(dev)
  BY DEF Init
<1>2. dev.bytes \in Nat /\ dev.asked \in 0 .. dev.bytes
  BY <1>1, DeviceAssumption
<1>3. Delta \in Nat
  BY FormatAssumption
<1>4. MapOK(NoMap)
  BY DEF MapOK, NoMap, Free
<1>5. size \in 0 .. dev.bytes /\ (pc = "layout" => size = fs_bytes(dev))
      /\ pc \in {"probe", "layout"} /\ (pc = "probe" => dev.asked = 0)
  BY <1>1, <1>2 DEF fs_bytes
<1>6. TypeOK
  <2>1. Range(<<>>) = {}
    BY DEF Range
  <2>2. QED
    BY <1>1, <1>3, <1>4, <1>5, <2>1 DEF TypeOK, MapOK
<1>7. SizeFound
  BY <1>1, <1>5 DEF SizeFound, fs_bytes
<1>8. IsTable(todo) /\ IsTable(cols)
  BY <1>1 DEF IsTable
<1>9. QED
  BY <1>1, <1>5, <1>6, <1>7, <1>8 DEF FInv, LaidOut, Filed

\* The invariant over a step of mkudbfs, and over the steps of the others, which
\* leave its variables alone.
LEMMA FInvNext ==
  ASSUME FInv, [BootNext]_boot_vars, {"junk", "killed_late"} \cap Allow = {}
  PROVE  FInv'
<1>1. ASSUME UNCHANGED <<dev, pc, size, delta, sb, bb, ib, todo, cols, disk>> PROVE FInv'
  <2>1. TypeOK' /\ SizeFound'
    BY <1>1 DEF FInv, TypeOK, SizeFound
  <2>2. IsTable(todo)' /\ IsTable(cols)' /\ fs_bytes(dev)' = fs_bytes(dev)
    BY <1>1 DEF FInv, IsTable, fs_bytes
  <2>3. (pc \in LaidOut =>
         \E z \in {size}, s \in {sb.block_size}, n \in {sb.block_count}, m \in {sb.inode_count},
            c \in {cols}, p \in {pc} : Formatted(p, z, s, n, m, c))'
    BY <1>1 DEF FInv, Formatted
  <2>4. QED
    BY <1>1, <2>1, <2>2, <2>3 DEF FInv
<1>2. CASE mkudbfs
  BY <1>2, ProbeKeeps, ProbeEndKeeps, LayoutKeeps, ReserveKeeps, CreateKeeps, AddKeeps,
     DefineKeeps, CloseKeeps, BadKeeps, JournalKeeps, SuperKeeps, BitmapsKeeps DEF mkudbfs, Step
<1>3. CASE stopped
  BY <1>3, KilledKeeps DEF stopped
<1>4. CASE \E n \in Images : instboot(n)
  BY <1>1, <1>4 DEF instboot
<1>5. CASE stage1_start
  BY <1>1, <1>5 DEF stage1_start
<1>6. CASE loading_object
  BY <1>1, <1>6 DEF loading_object
<1>7. CASE UNCHANGED boot_vars
  BY <1>1, <1>7 DEF boot_vars
<1>8. QED
  BY <1>2, <1>3, <1>4, <1>5, <1>6, <1>7 DEF BootNext

\* The invariant says that the device is formatted.
LEMMA FInvFormatted ==
  ASSUME FInv
  PROVE  FormattedForUdbfs
<1>1. CASE pc = "done"
  <2>1. "done" \in LaidOut
    BY DEF LaidOut
  <2>2. PICK z, s, n, m, c : z = size /\ c = cols /\ Formatted("done", z, s, n, m, c)
    BY <1>1, <2>1 DEF FInv
  <2>3. IsTable(c) /\ z \in Nat /\ dev.bytes \in Nat /\ z <= dev.bytes
    BY <2>2, ColumnsKnown
  <2>4. Mountable /\ FreshBitmaps /\ RegionsApart
    BY <2>2, <2>3, DoneFresh, DoneApart
  <2>5. QED
    BY <2>4 DEF FInv, FormattedForUdbfs
<1>2. CASE pc \in {"halt", "killed"}
  <2>1. {e \in disk : e.at = KB /\ e.len = SUPER} = {}
    BY <1>2 DEF FInv
  <2>2. super = [kind |-> "garbage"]
    BY <2>1 DEF super, Content, ContentOf
  <2>3. ~Mountable
    BY <2>2 DEF Mountable
  <2>4. QED
    BY <1>2, <2>3 DEF FInv, FormattedForUdbfs
<1>3. CASE pc \notin Over
  BY <1>3 DEF FInv, FormattedForUdbfs, Over
<1>4. QED
  BY <1>1, <1>2, <1>3 DEF FInv, Over

\* When mkudbfs is done the device mounts, whatever its size, the size asked for
\* and the columns of the root table; and whatever mounts has its regions apart
\* from each other and bitmaps that say so, also when the program was stopped
\* half-way.  Excluded are the three that the code does not survive: a device of
\* less than 64 blocks, a superblock from malloc with something in the field that
\* is never set, and a stop between the superblock and the bitmaps.
THEOREM MkudbfsFormats ==
  ASSUME {"tiny_device", "junk", "killed_late"} \cap Allow = {}
  PROVE  BootSpec => []FormattedForUdbfs
<1>1. BootInit => FInv
  BY FInvInit DEF BootInit
<1>2. FInv /\ [BootNext]_boot_vars => FInv'
  BY FInvNext
<1>3. FInv => FormattedForUdbfs
  BY FInvFormatted
<1>4. QED
  BY <1>1, <1>2, <1>3, PTL DEF BootSpec
-----------------------------------------------------------------------------
\* The columns on their boundaries, and the root table read back.

\* The starts of columns satisfy the recursion they are defined by.
StartsAt(cs, f) ==
    f = [k \in 1 .. Len(cs) + 1 |-> IF k = 1 THEN 0 ELSE f[k - 1] + encoded_size(cs[k - 1])]

\* A number of whole units, made up to whole bytes, is one of whole units.
LEMMA WholeUnits ==
  ASSUME NEW b \in Bounds, NEW q \in Nat, NEW x, x = b * q
  PROVE  /\ (IF x > 8 THEN 8 * ((x + 7) \div 8) ELSE x) \in Nat
         /\ (IF x > 8 THEN 8 * ((x + 7) \div 8) ELSE x) % b = 0
<1>1. CASE b = 1
  BY <1>1
<1>2. CASE b = 2
  BY <1>2
<1>3. CASE b = 4
  BY <1>3
<1>4. CASE b = 8
  BY <1>4
<1>5. CASE b = 16
  BY <1>5
<1>6. CASE b = 32
  BY <1>6
<1>7. CASE b = 64
  BY <1>7
<1>8. CASE b = 128
  BY <1>8
<1>9. QED
  BY <1>1, <1>2, <1>3, <1>4, <1>5, <1>6, <1>7, <1>8 DEF Bounds

\* A column takes a multiple of its boundary.
LEMMA EncodedWhole ==
  ASSUME NEW c \in Column
  PROVE  /\ encoded_size(c) \in Nat /\ encoded_size(c) % natural_boundary[c.type] = 0
         /\ natural_boundary[c.type] \in Bounds
<1>0. c.type \in DOMAIN natural_boundary /\ c.size \in Nat /\ c.count \in Nat
  BY DEF Column
<1>1. PICK t \in DOMAIN natural_boundary, z \in Nat, n \in Nat :
         t = c.type /\ z = c.size /\ n = c.count
  BY <1>0
<1>2. PICK b \in Bounds : b = natural_boundary[t]
  BY <1>1, BoundaryType
<1>3. /\ t = "shareddata" => b = 32
      /\ t = "enumeration" => b = 32
      /\ t = "varchar" => b = 32
  BY <1>2 DEF natural_boundary
<1>4. b \in Nat
  BY DEF Bounds
<1> DEFINE one  == IF t = "shareddata" THEN 96 ELSE b
           each == IF t = "enumeration" THEN one ELSE one * z
           bits == (IF t = "varchar" THEN each + 32 ELSE each) * n
<1>5. encoded_size(c) = IF bits > 8 THEN 8 * ((bits + 7) \div 8) ELSE bits
  BY <1>1, <1>2 DEF encoded_size
<1>6. \E q \in Nat : bits = b * q
  <2>1. CASE t = "shareddata"
    <3>1. bits = 96 * z * n /\ b = 32
      BY <1>3, <2>1
    <3>2. PICK x \in Nat : x = z * n
      BY <1>1
    <3>3. bits = 32 * (3 * x) /\ 3 * x \in Nat
      BY <1>1, <3>1, <3>2
    <3>4. QED
      BY <3>1, <3>3
  <2>2. CASE t = "enumeration"
    BY <1>1, <1>3, <2>2
  <2>3. CASE t = "varchar"
    <3>1. bits = (32 * z + 32) * n /\ b = 32
      BY <1>3, <2>3
    <3>2. PICK x \in Nat : x = z * n
      BY <1>1
    <3>3. (32 * z + 32) * n = 32 * x + 32 * n
      BY <1>1, <3>2
    <3>4. 32 * x + 32 * n = 32 * (x + n) /\ x + n \in Nat
      BY <1>1, <3>2
    <3>5. QED
      BY <3>1, <3>3, <3>4
  <2>4. CASE t \notin {"shareddata", "enumeration", "varchar"}
    <3>1. bits = b * z * n
      BY <2>4
    <3> HIDE DEF bits
    <3>2. b * z * n = b * (z * n) /\ z * n \in Nat
      BY <1>1, <1>4
    <3>3. QED
      BY <3>1, <3>2
  <2>5. QED
    BY <2>1, <2>2, <2>3, <2>4
<1> HIDE DEF bits
<1>7. PICK q \in Nat : bits = b * q
  BY <1>6
<1>8. PICK x : x = bits
  OBVIOUS
<1>9. QED
  BY <1>1, <1>2, <1>5, <1>7, <1>8, WholeUnits

\* Starts has the values of its recursion: a column starts where the one before it
\* ends.
LEMMA StartsOf ==
  ASSUME NEW cs, IsTable(cs)
  PROVE  /\ Starts(cs)[1] = 0
         /\ \A k \in 1 .. Len(cs) : Starts(cs)[k + 1] = Starts(cs)[k] + encoded_size(cs[k])
<1>1. PICK l \in Nat : l = Len(cs)
  BY DEF IsTable
<1> DEFINE E == [k \in Nat |-> IF k \in 1 .. l THEN encoded_size(cs[k]) ELSE 0]
           A == Nat \X Nat
           next == [a \in A |-> <<a[1] + 1, a[2] + E[a[1]]>>]
<1>2. \A k \in 1 .. l : encoded_size(cs[k]) \in Nat
  <2>1. \A k \in 1 .. l : cs[k] \in Column
    BY <1>1 DEF IsTable
  <2>2. QED
    BY <2>1, EncodedWhole
<1>3. E \in [Nat -> Nat]
  BY <1>2
<1> HIDE DEF E
<1>4. next \in [A -> A] /\ <<1, 0>> \in A
  BY <1>3
<1>5. PICK g \in [0 .. l -> A] : Iterates(g, l, <<1, 0>>, next)
  BY <1>1, <1>4, IterationExists
<1>6. g[0] = <<1, 0>> /\ \A k \in 0 .. l - 1 : g[k + 1] = next[g[k]]
  <2> HIDE DEF next, A
  <2>1. g = [k \in 0 .. l |-> IF k = 0 THEN <<1, 0>> ELSE next[g[k - 1]]]
    BY <1>5 DEF Iterates
  <2>2. g[0] = <<1, 0>>
    BY <1>1, <2>1
  <2>3. ASSUME NEW k \in 0 .. l - 1 PROVE g[k + 1] = next[g[k]]
    <3>1. k + 1 \in 0 .. l /\ k + 1 # 0 /\ k + 1 - 1 = k
      BY <1>1
    <3>2. \A j \in 0 .. l : j # 0 => g[j] = next[g[j - 1]]
      BY <2>1, Zenon
    <3>3. g[k + 1] = next[g[k + 1 - 1]]
      BY <3>1, <3>2
    <3>4. QED
      BY <3>1, <3>3
  <2>4. QED
    BY <2>2, <2>3
<1>7. \A k \in 0 .. l - 1 : g[k + 1] = <<g[k][1] + 1, g[k][2] + E[g[k][1]]>>
  <2>1. \A k \in 0 .. l - 1 : g[k] \in A
    BY <1>1, <1>5
  <2>2. \A a \in A : next[a] = <<a[1] + 1, a[2] + E[a[1]]>>
    OBVIOUS
  <2> HIDE DEF next, A
  <2>3. QED
    BY <1>6, <2>1, <2>2
<1>8. \A k \in 0 .. l : g[k][1] = k + 1
  <2> DEFINE S == {k \in 0 .. l : g[k][1] = k + 1}
  <2>1. 0 \in S
    BY <1>1, <1>6
  <2>2. \A k \in 0 .. l - 1 : k \in S => k + 1 \in S
    BY <1>1, <1>7
  <2> HIDE DEF S
  <2>3. \A k \in 0 .. l : k \in S
    BY <1>1, <2>1, <2>2, BoundedInduction
  <2>4. QED
    BY <2>3 DEF S
<1> DEFINE f == [k \in 1 .. l + 1 |-> g[k - 1][2]]
<1>9. StartsAt(cs, f)
  <2>1. \A k \in 1 .. l + 1 : k # 1 => g[k - 1][2] = g[k - 2][2] + encoded_size(cs[k - 1])
    <3> SUFFICES ASSUME NEW k \in 1 .. l + 1, k # 1
                 PROVE  g[k - 1][2] = g[k - 2][2] + encoded_size(cs[k - 1])
      OBVIOUS
    <3>1. PICK j \in 0 .. l - 1 : j = k - 2
      BY <1>1
    <3>2. g[j + 1][2] = g[j][2] + E[j + 1]
      BY <1>1, <1>7, <1>8
    <3>3. E[j + 1] = encoded_size(cs[j + 1])
      BY <1>1 DEF E
    <3>4. k - 1 = j + 1 /\ k - 2 = j
      BY <1>1, <3>1
    <3>5. QED
      BY <3>2, <3>3, <3>4
  <2>2. f = [k \in 1 .. l + 1 |-> IF k = 1 THEN 0 ELSE f[k - 1] + encoded_size(cs[k - 1])]
    <3>1. \A k \in 1 .. l + 1 :
            g[k - 1][2] = IF k = 1 THEN 0 ELSE f[k - 1] + encoded_size(cs[k - 1])
      BY <1>1, <1>6, <2>1
    <3>2. QED
      BY <3>1
  <2>3. QED
    BY <1>1, <2>2 DEF StartsAt
<1> HIDE DEF f
<1>10. \E h : StartsAt(cs, h)
  BY <1>9
<1>11. StartsAt(cs, Starts(cs))
  <2>1. Starts(cs) = CHOOSE h : StartsAt(cs, h)
    BY DEF Starts, StartsAt
  <2>2. QED
    BY <1>10, <2>1
<1>12. PICK h : h = Starts(cs)
  OBVIOUS
<1>13. h = [k \in 1 .. l + 1 |-> IF k = 1 THEN 0 ELSE h[k - 1] + encoded_size(cs[k - 1])]
  BY <1>1, <1>11, <1>12 DEF StartsAt
<1>14. h[1] = 0
  BY <1>1, <1>13
<1>15. \A k \in 1 .. l : h[k + 1] = h[k] + encoded_size(cs[k])
  <2> SUFFICES ASSUME NEW k \in 1 .. l PROVE h[k + 1] = h[k] + encoded_size(cs[k])
    OBVIOUS
  <2>1. k + 1 \in 1 .. l + 1 /\ k + 1 # 1 /\ k + 1 - 1 = k
    BY <1>1
  <2>2. h[k + 1] = h[k + 1 - 1] + encoded_size(cs[k + 1 - 1])
    BY <1>13, <2>1
  <2>3. QED
    BY <2>1, <2>2
<1>16. QED
  BY <1>1, <1>12, <1>14, <1>15

\* A smaller boundary divides a larger one.
LEMMA SmallerBoundary ==
  ASSUME NEW a \in Bounds, NEW b \in Bounds, b <= a, NEW x \in Nat, x % a = 0
  PROVE  x % b = 0
<1>1. CASE a = 1
  BY <1>1 DEF Bounds
<1>2. CASE a = 2
  BY <1>2 DEF Bounds
<1>3. CASE a = 4
  BY <1>3 DEF Bounds
<1>4. CASE a = 8
  BY <1>4 DEF Bounds
<1>5. CASE a = 16
  BY <1>5 DEF Bounds
<1>6. CASE a = 32
  BY <1>6 DEF Bounds
<1>7. CASE a = 64
  BY <1>7 DEF Bounds
<1>8. CASE a = 128
  BY <1>8 DEF Bounds
<1>9. QED
  BY <1>1, <1>2, <1>3, <1>4, <1>5, <1>6, <1>7, <1>8 DEF Bounds

\* Two multiples of a boundary make a third.
LEMMA SumOfUnits ==
  ASSUME NEW a \in Bounds, NEW x \in Nat, NEW y \in Nat, x % a = 0, y % a = 0
  PROVE  (x + y) % a = 0
<1>1. CASE a = 1
  BY <1>1
<1>2. CASE a = 2
  BY <1>2
<1>3. CASE a = 4
  BY <1>3
<1>4. CASE a = 8
  BY <1>4
<1>5. CASE a = 16
  BY <1>5
<1>6. CASE a = 32
  BY <1>6
<1>7. CASE a = 64
  BY <1>7
<1>8. CASE a = 128
  BY <1>8
<1>9. QED
  BY <1>1, <1>2, <1>3, <1>4, <1>5, <1>6, <1>7, <1>8 DEF Bounds

\* A record holds x bits.
LEMMA RecordHolds ==
  ASSUME NEW x \in Nat
  PROVE  x <= 8 * Max({4, 4 * (((x + 7) \div 8 + 3) \div 4)})
<1>1. PICK y \in Nat : y = (x + 7) \div 8 /\ x <= 8 * y
  OBVIOUS
<1>2. PICK u \in Nat : u = 4 * ((y + 3) \div 4) /\ y <= u
  BY <1>1
<1>3. Max({4, u}) = IF 4 >= u THEN 4 ELSE u
  BY <1>2, MaxOf
<1>4. QED
  BY <1>1, <1>2, <1>3

\* Columns in the order of their boundaries lie on them, one behind the other in
\* the record.
LEMMA SortedAligned ==
  ASSUME IsTable(cols), Sorted(cols)
  PROVE  ColumnsAligned
<1>0. PICK at : at = Starts(cols)
  OBVIOUS
<1>1. PICK l \in Nat : l = Len(cols) /\ at = Starts(cols)
  BY <1>0 DEF IsTable
<1>2. at[1] = 0 /\ \A k \in 1 .. l : at[k + 1] = at[k] + encoded_size(cols[k])
  BY <1>1, StartsOf
<1>3. \A k \in 1 .. l : /\ encoded_size(cols[k]) \in Nat
                        /\ encoded_size(cols[k]) % natural_boundary[cols[k].type] = 0
                        /\ natural_boundary[cols[k].type] \in Bounds
  <2>1. \A k \in 1 .. l : cols[k] \in Column
    BY <1>1 DEF IsTable
  <2>2. QED
    BY <2>1, EncodedWhole
<1>4. \A k \in 1 .. l - 1 :
         natural_boundary[cols[k].type] >= natural_boundary[cols[k + 1].type]
  BY <1>1 DEF Sorted
<1>5. PICK e, b : /\ e = [k \in 1 .. l |-> encoded_size(cols[k])]
                  /\ b = [k \in 1 .. l |-> natural_boundary[cols[k].type]]
  OBVIOUS
<1>6. /\ \A k \in 1 .. l : /\ e[k] = encoded_size(cols[k]) /\ e[k] \in Nat /\ e[k] % b[k] = 0
                           /\ b[k] = natural_boundary[cols[k].type] /\ b[k] \in Bounds
                           /\ at[k + 1] = at[k] + e[k]
      /\ \A k \in 1 .. l - 1 : b[k] >= b[k + 1]
  <2>1. \A k \in 1 .. l : /\ e[k] = encoded_size(cols[k]) /\ e[k] \in Nat /\ e[k] % b[k] = 0
                           /\ b[k] = natural_boundary[cols[k].type] /\ b[k] \in Bounds
                           /\ at[k + 1] = at[k] + e[k]
    BY <1>2, <1>3, <1>5
  <2>2. ASSUME NEW k \in 1 .. l - 1 PROVE b[k] >= b[k + 1]
    <3>1. k \in 1 .. l /\ k + 1 \in 1 .. l
      BY <1>1
    <3>2. QED
      BY <1>4, <2>1, <3>1
  <2>3. QED
    BY <2>1, <2>2
<1>7. \A n \in 0 .. l : /\ at[n + 1] \in Nat
                        /\ n < l => at[n + 1] % b[n + 1] = 0
                        /\ \A k \in 1 .. n + 1 : at[k] \in Nat /\ at[k] <= at[n + 1]
  <2> DEFINE S == {n \in 0 .. l : /\ at[n + 1] \in Nat
                                  /\ n < l => at[n + 1] % b[n + 1] = 0
                                  /\ \A k \in 1 .. n + 1 : at[k] \in Nat /\ at[k] <= at[n + 1]}
  <2>1. 0 \in S
    <3>1. l > 0 => b[1] \in Bounds
      BY <1>6
    <3>2. l > 0 => 0 % b[1] = 0
      BY <3>1 DEF Bounds
    <3>3. QED
      BY <1>1, <1>2, <3>2
  <2>2. ASSUME NEW n \in 0 .. l - 1, n \in S PROVE n + 1 \in S
    <3>1. PICK i \in 1 .. l : i = n + 1
      BY <1>1
    <3>2. /\ at[i] \in Nat /\ at[i] % b[i] = 0 /\ \A k \in 1 .. i : at[k] \in Nat /\ at[k] <= at[i]
      BY <1>1, <2>2, <3>1
    <3>3. e[i] \in Nat /\ e[i] % b[i] = 0 /\ b[i] \in Bounds /\ at[i + 1] = at[i] + e[i]
      BY <1>6
    <3>4. at[i + 1] \in Nat /\ at[i] <= at[i + 1]
      BY <3>2, <3>3
    <3>5. at[i + 1] % b[i] = 0
      BY <3>2, <3>3, SumOfUnits
    <3>6. i < l => at[i + 1] % b[i + 1] = 0
      <4>1. i < l => i + 1 \in 1 .. l /\ i \in 1 .. l - 1
        BY <1>1
      <4>2. i < l => b[i + 1] \in Bounds /\ b[i + 1] <= b[i]
        <5>1. i < l => b[i + 1] \in Bounds /\ b[i] >= b[i + 1]
          BY <1>6, <4>1
        <5>2. QED
          BY <3>3, <5>1 DEF Bounds
      <4>3. QED
        BY <3>3, <3>4, <3>5, <4>2, SmallerBoundary
    <3>7. \A k \in 1 .. i + 1 : at[k] \in Nat /\ at[k] <= at[i + 1]
      <4> SUFFICES ASSUME NEW k \in 1 .. i + 1 PROVE at[k] \in Nat /\ at[k] <= at[i + 1]
        OBVIOUS
      <4>1. CASE k = i + 1
        BY <3>4, <4>1
      <4>2. CASE k # i + 1
        <5>1. k \in 1 .. i
          BY <4>2
        <5>2. at[k] \in Nat /\ at[k] <= at[i]
          BY <3>2, <5>1
        <5>3. QED
          BY <3>2, <3>4, <5>2
      <4>3. QED
        BY <4>1, <4>2
    <3>8. QED
      BY <3>1, <3>4, <3>6, <3>7
  <2> HIDE DEF S
  <2>3. \A n \in 0 .. l : n \in S
    BY <1>1, <2>1, <2>2, BoundedInduction
  <2>4. QED
    BY <2>3 DEF S
<1>8. at[l + 1] <= 8 * record_size(cols)
  <2>1. at[l + 1] \in Nat
    BY <1>1, <1>7
  <2>2. record_size(cols) = Max({4, 4 * (((at[l + 1] + 7) \div 8 + 3) \div 4)})
    BY <1>1 DEF record_size
  <2>3. QED
    BY <2>1, <2>2, RecordHolds
<1>9. record_size(cols) \in Nat
  <2>1. PICK x \in Nat : x = at[l + 1]
    BY <1>1, <1>7
  <2>2. PICK y \in Nat : y = 4 * (((x + 7) \div 8 + 3) \div 4)
    BY <2>1
  <2>3. record_size(cols) = Max({4, y})
    BY <1>1, <2>1, <2>2 DEF record_size
  <2>4. QED
    BY <2>2, <2>3, MaxOf
<1>10. ASSUME NEW k \in 1 .. l
       PROVE  /\ at[k] % natural_boundary[cols[k].type] = 0
              /\ at[k] + encoded_size(cols[k]) <= at[k + 1]
              /\ at[k + 1] <= 8 * record_size(cols)
  <2>1. PICK n \in 0 .. l : n = k - 1 /\ n < l /\ n + 1 = k
    BY <1>1
  <2>2. at[k] \in Nat /\ at[k] % b[k] = 0
    BY <1>7, <2>1
  <2>3. at[k + 1] = at[k] + encoded_size(cols[k]) /\ at[k + 1] \in Nat
    BY <1>6, <2>2
  <2>4. at[k + 1] <= at[l + 1] /\ at[l + 1] \in Nat
    <3>1. k + 1 \in 1 .. l + 1 /\ l \in 0 .. l
      BY <1>1
    <3>2. QED
      BY <1>7, <3>1
  <2>5. QED
    BY <1>6, <1>8, <1>9, <2>2, <2>3, <2>4
<1>11. QED
  BY <1>1, <1>10 DEF ColumnsAligned

\* The path the library selects for word c of a file, with w words in a block.
LibPath(w, c) ==
    LET past == c - 4 * w - w * w
        rest == past - w * (w * w)
    IN  IF c < 4 * w THEN <<c \div w>>
        ELSE IF c < 4 * w + w * w THEN <<4, (c - 4 * w) \div w>>
        ELSE IF past < w * (w * w) THEN <<5, past \div (w * w), (past % (w * w)) \div w>>
        ELSE <<6, rest \div (w * (w * w)), (rest % (w * (w * w))) \div (w * w),
               (rest % (w * w)) \div w>>

\* For the first word of a block it is the path mkudbfs puts the block under.
LEMMA LibPathIs ==
  ASSUME NEW w \in Widths, NEW k \in Nat
  PROVE  LibPath(w, k * w) = file_path(w, k)
<1>1. CASE w = 32
  BY <1>1, SMTT(60) DEF LibPath, file_path
<1>2. CASE w = 64
  BY <1>2 DEF LibPath, file_path
<1>3. CASE w = 128
  BY <1>3, SMTT(60) DEF LibPath, file_path
<1>4. CASE w = 256
  BY <1>4 DEF LibPath, file_path
<1>5. CASE w = 512
  <2>1. CASE k < 516
    BY <1>5, <2>1 DEF LibPath, file_path
  <2>2. CASE k >= 516 /\ k < 516 + 512 * 512
    BY <1>5, <2>2 DEF LibPath, file_path
  <2>3. CASE k >= 516 + 512 * 512
    <3>1. PICK t \in Nat : k = 516 + 512 * 512 + t
      BY <2>3
    <3>2. (t * 512) \div (512 * (512 * 512)) = t \div (512 * 512)
      BY SMT
    <3>3. ((t * 512) % (512 * (512 * 512))) \div (512 * 512) = (t \div 512) % 512
      BY SMT
    <3>4. ((t * 512) % (512 * 512)) \div 512 = t % 512
      BY SMT
    <3>5. LibPath(512, k * 512) = <<6, (t * 512) \div (512 * (512 * 512)),
              ((t * 512) % (512 * (512 * 512))) \div (512 * 512),
              ((t * 512) % (512 * 512)) \div 512>>
      <4>1. /\ k * 512 - 4 * 512 - 512 * 512 - 512 * (512 * 512) = t * 512
            /\ ~(k * 512 < 4 * 512) /\ ~(k * 512 < 4 * 512 + 512 * 512)
            /\ ~(k * 512 - 4 * 512 - 512 * 512 < 512 * (512 * 512))
        BY <3>1, SMT
      <4>2. QED
        BY <4>1, SMTT(60) DEF LibPath
    <3>6. file_path(512, k) = <<6, t \div (512 * 512), (t \div 512) % 512, t % 512>>
      <4>1. /\ k - 4 - 512 - 512 * 512 = t /\ ~(k < 4) /\ ~(k - 4 - 512 < 0)
            /\ ~(k - 4 - 512 - 512 * 512 < 0)
        BY <3>1, SMT
      <4>2. QED
        BY <4>1 DEF file_path
    <3>7. QED
      BY <1>5, <3>2, <3>3, <3>4, <3>5, <3>6
  <2>4. QED
    BY <2>1, <2>2, <2>3
<1>6. QED
  BY <1>1, <1>2, <1>3, <1>4, <1>5 DEF Widths

\* The library on a mounted device.
LEMMA SelectedIs ==
  ASSUME NEW w \in Widths, mnt.block_size = 8 * w, NEW c
  PROVE  Lib!SelectedPath(c) = LibPath(w, c)
<1>1. mnt.block_size \div 8 = w
  BY DEF Widths
<1>2. QED
  BY <1>1 DEF Lib!SelectedPath, Lib!dir_storage, Lib!ind_storage, Lib!bind_storage, LibPath

\* The steps of a path into index blocks are entries of them.
LEMMA Steps ==
  ASSUME NEW w \in Widths, NEW k \in Nat, k < w * w * w,
         NEW i \in 1 .. Len(file_path(w, k)) - 1
  PROVE  file_path(w, k)[i + 1] \in 0 .. w - 1
<1>0. w \in Nat
  BY DEF Widths
<1>1. CASE k \in 0 .. 3
  BY <1>1, DirectTops
<1>2. ASSUME NEW a, InInd(w, a, k) PROVE file_path(w, k)[i + 1] \in 0 .. w - 1
  <2>1. file_path(w, k) = <<4, a>> /\ a \in 0 .. w - 1
    BY <1>2, Indirect DEF InInd
  <2>2. i = 1
    BY <2>1
  <2>3. QED
    BY <2>1, <2>2
<1>3. ASSUME NEW a, NEW b, InBind(w, a, b, k) PROVE file_path(w, k)[i + 1] \in 0 .. w - 1
  <2>1. file_path(w, k) = <<5, a, b>> /\ a \in 0 .. w - 1 /\ b \in 0 .. w - 1
    BY <1>3, Double DEF InBind
  <2>2. i = 1 \/ i = 2
    BY <2>1
  <2>3. QED
    BY <2>1, <2>2
<1>4. ASSUME NEW a, NEW b, NEW c, InTind(w, a, b, c, k)
      PROVE  file_path(w, k)[i + 1] \in 0 .. w - 1
  <2>1. file_path(w, k) = <<6, a, b, c>> /\ a \in Nat /\ b \in 0 .. w - 1 /\ c \in 0 .. w - 1
    BY <1>4, Triple DEF InTind
  <2>2. k = 4 + w + w * w + (a * w + b) * w + c
    BY <1>4 DEF InTind
  <2>3. a < w
    <3>1. CASE w = 32
      BY <2>1, <2>2, <3>1
    <3>2. CASE w = 64
      BY <2>1, <2>2, <3>2
    <3>3. CASE w = 128
      BY <2>1, <2>2, <3>3
    <3>4. CASE w = 256
      BY <2>1, <2>2, <3>4
    <3>5. CASE w = 512
      BY <2>1, <2>2, <3>5
    <3>6. QED
      BY <3>1, <3>2, <3>3, <3>4, <3>5 DEF Widths
  <2>4. a \in 0 .. w - 1
    BY <1>0, <2>1, <2>3
  <2>5. i = 1 \/ i = 2 \/ i = 3
    BY <2>1
  <2>6. QED
    BY <2>1, <2>4, <2>5
<1>5. QED
  BY <1>1, <1>2, <1>3, <1>4, Shapes

\* A path cut short: what it is made of, and what it leads to.
LEMMA TopIs ==
  ASSUME NEW w \in Widths, NEW k \in Nat, NEW i \in 1 .. Len(file_path(w, k))
  PROVE  /\ Top(w, k, 1) = <<file_path(w, k)[1]>>
         /\ i < Len(file_path(w, k)) =>
              Append(Top(w, k, i), file_path(w, k)[i + 1]) = Top(w, k, i + 1)
         /\ IsIndex(Top(w, k, i)) <=> i < Len(file_path(w, k))
<1>1. PICK P \in Seq(Nat) : P = file_path(w, k)
  BY PathType
<1>2. Len(P) \in 1 .. 4 /\ P[1] \in 0 .. 6 /\ Len(P) = IF P[1] < 4 THEN 1 ELSE P[1] - 2
  BY <1>1, PathType
<1>3. SubSeq(P, 1, 1) = <<P[1]>>
  <2>1. SubSeq(P, 1, 1) = [j \in 1 .. 1 |-> P[j]]
    BY <1>1, <1>2
  <2>2. <<P[1]>> = [j \in 1 .. 1 |-> P[j]]
    OBVIOUS
  <2>3. QED
    BY <2>1, <2>2
<1>4. i < Len(P) => Append(SubSeq(P, 1, i), P[i + 1]) = SubSeq(P, 1, i + 1)
  BY <1>1, <1>2
<1>5. Len(SubSeq(P, 1, i)) = i /\ SubSeq(P, 1, i)[1] = P[1]
  BY <1>1, <1>2
<1>6. IsIndex(SubSeq(P, 1, i)) <=> i < P[1] - 2
  BY <1>5 DEF IsIndex
<1>7. i < P[1] - 2 <=> i < Len(P)
  BY <1>1, <1>2
<1>8. QED
  BY <1>1, <1>3, <1>4, <1>6, <1>7 DEF Top

\* Products of different numbers differ.
LEMMA TimesApart ==
  ASSUME NEW b \in Nat \ {0}, NEW i \in Nat, NEW j \in Nat, i * b = j * b
  PROVE  i = j
<1>1. i < j => i * b + b <= j * b
  BY Times
<1>2. j < i => j * b + b <= i * b
  BY Times
<1>3. i * b \in Nat /\ j * b \in Nat
  OBVIOUS
<1>4. QED
  BY <1>1, <1>2, <1>3

\* A block of the root table is read back as it was written.
LEMMA RootContent ==
  ASSUME NEW s \in 1 .. 5, NEW n \in Nat, NEW m \in Nat, NEW c, IsTable(c), n >= 64, m >= 64,
         NEW d, d = DiskAt("done", s, n, m, c), NEW id, id = RootIds(s, n, m, c),
         NEW p \in DOMAIN id
  PROVE  ContentOf(d, id[p] * BS(s), BS(s)) = block_content(Width(s), id, p)
<1>1. PICK F, M, R, x, y \in Nat : Placed(s, n, m, c, F, M, R, x, y)
  BY ExtentsAt
<1>2. PICK b \in Nat \ {0} : b = BS(s)
  BY Sizes
<1>3. PICK e : e = Extent(id[p] * b, b, block_content(Width(s), id, p))
  OBVIOUS
<1>4. e \in RootExtents(s, id) /\ e.at = id[p] * b /\ e.len = b
      /\ e.what = block_content(Width(s), id, p)
  BY <1>2, <1>3 DEF RootExtents, Extent
<1>5. e \in d
  BY <1>4, DoneDisk
<1>6. e.at \in Nat /\ e.at >= R
  BY <1>1, <1>4 DEF Placed
<1>7. ASSUME NEW q \in d, q.at = e.at PROVE q = e
  <2>1. F >= 2048 /\ F + 64 * m <= M /\ M + x + y <= R /\ x > 0 /\ y > 0
    BY <1>1 DEF Placed
  <2>2. CASE q \in RootExtents(s, id)
    <3>1. PICK r \in DOMAIN id : q = Extent(id[r] * b, b, block_content(Width(s), id, r))
      BY <1>2, <2>2 DEF RootExtents
    <3>2. q.at = id[r] * b
      BY <3>1 DEF Extent
    <3>3. r # p => id[r] \in Nat /\ id[p] \in Nat /\ id[r] # id[p]
      BY RootBlocksApart
    <3>4. id[r] * b = id[p] * b
      BY <1>4, <1>7, <3>2
    <3>5. r = p
      BY <1>2, <3>3, <3>4, TimesApart
    <3>6. QED
      BY <1>3, <3>1, <3>5
  <2>3. CASE q = Inode0(s, n, m, c) \/ q = InodeN(s, 1) \/ q = InodeN(s, 2)
    <3>1. F = inode_first_block(s) * BS(s)
      BY <1>1 DEF Placed
    <3>2. 0 * INODE + F = F /\ 1 * INODE + F = F + 64 /\ 2 * INODE + F = F + 128
      BY DEF INODE
    <3>3. q.at = F \/ q.at = F + 64 \/ q.at = F + 128
      BY <2>3, <3>1, <3>2 DEF Inode0, InodeN, InodeExtent, Extent
    <3>4. QED
      BY <1>6, <1>7, <2>1, <3>3
  <2>4. CASE q = SuperExtent(s, n, m, c) \/ q = BlockMap(s, n, m, c) \/ q = InodeMap(s, n, m)
    <3>1. q.at = 1024 \/ q.at = M \/ q.at = M + x
      BY <1>1, <2>4 DEF Placed
    <3>2. QED
      BY <1>6, <1>7, <2>1, <3>1
  <2>5. QED
    BY <2>2, <2>3, <2>4, DoneDisk
<1>8. ContentOf(d, e.at, e.len) = e.what
  BY <1>5, <1>7, ContentAt
<1>9. QED
  BY <1>2, <1>4, <1>8

\* The library's walk down a tree along path p, from inode i.
WalkAt(i, p, g) ==
    g = [j \in 1 .. Len(p) |->
           IF j = 1 THEN i.slot[p[1]]
           ELSE LET b == loaded(g[j - 1]) IN IF b.kind = "index" THEN b.entry[p[j]] ELSE 0]

\* What is selected is found by such a walk, if there is one.
LEMMA SelectedWalk ==
  ASSUME NEW i, NEW at, NEW p, p = Lib!SelectedPath(at \div 8), \E g : WalkAt(i, p, g)
  PROVE  \E g : WalkAt(i, p, g) /\ selected(i, at) = loaded(g[Len(p)])
<1>1. PICK h : h = CHOOSE g : WalkAt(i, Lib!SelectedPath(at \div 8), g)
  OBVIOUS
<1>2. \E g : WalkAt(i, Lib!SelectedPath(at \div 8), g)
  OBVIOUS
<1>3. WalkAt(i, Lib!SelectedPath(at \div 8), h)
  BY <1>1, <1>2
<1>4. selected(i, at) = loaded(h[Len(Lib!SelectedPath(at \div 8))])
  BY <1>1 DEF selected, WalkAt
<1>5. QED
  BY <1>3, <1>4

\* The walk along the path of block k finds the blocks on it.
LEMMA BlockFound ==
  ASSUME NEW w \in Widths, NEW id, NEW n \in Nat, NEW k \in 0 .. n - 1, NEW i,
         DOMAIN id = paths(w, n), n <= w * w * w,
         i.slot = [x \in 0 .. 6 |-> IF <<x>> \in DOMAIN id THEN id[<<x>>] ELSE 0],
         \A p \in DOMAIN id : loaded(id[p]) = block_content(w, id, p),
         NEW at, Lib!SelectedPath(at \div 8) = file_path(w, k)
  PROVE  selected(i, at) = [kind |-> "data", nth |-> k]
<1>0. k \in Nat
  OBVIOUS
<1>1. PICK P \in Seq(Nat), l \in 1 .. 4 : P = file_path(w, k) /\ l = Len(P)
  BY <1>0, PathType
<1>2. P[1] \in 0 .. 6
  BY <1>0, <1>1, PathType
<1>3. \A j \in 1 .. l : Top(w, k, j) \in DOMAIN id
  BY <1>1 DEF paths, Top
<1>4. k < w * w * w
  BY DEF Widths
<1>5. ASSUME NEW j \in 1 .. l, j < l
      PROVE  loaded(id[Top(w, k, j)]).kind = "index" /\
             loaded(id[Top(w, k, j)]).entry[P[j + 1]] = id[Top(w, k, j + 1)]
  <2>1. loaded(id[Top(w, k, j)]) = block_content(w, id, Top(w, k, j))
    BY <1>3
  <2>2. IsIndex(Top(w, k, j)) /\ Append(Top(w, k, j), P[j + 1]) = Top(w, k, j + 1)
    BY <1>0, <1>1, <1>5, TopIs
  <2>3. P[j + 1] \in 0 .. w - 1
    <3>1. j \in 1 .. Len(file_path(w, k)) - 1
      BY <1>1, <1>5
    <3>2. QED
      BY <1>0, <1>1, <1>4, <3>1, Steps
  <2>4. Top(w, k, j + 1) \in DOMAIN id
    BY <1>3, <1>5
  <2>5. PICK q, u : q = Top(w, k, j) /\ u = P[j + 1]
    OBVIOUS
  <2>6. block_content(w, id, q) =
          [kind  |-> "index",
           entry |-> [e \in 0 .. w - 1 |->
                        IF Append(q, e) \in DOMAIN id THEN id[Append(q, e)] ELSE 0]]
    BY <2>2, <2>5 DEF block_content
  <2>7. PICK E : E = [e \in 0 .. w - 1 |->
                        IF Append(q, e) \in DOMAIN id THEN id[Append(q, e)] ELSE 0]
    OBVIOUS
  <2>8. Append(q, u) \in DOMAIN id /\ u \in 0 .. w - 1
    BY <2>2, <2>3, <2>4, <2>5
  <2>9. E[u] = id[Append(q, u)]
    BY <2>7, <2>8, Zenon
  <2>10. loaded(id[q]) = [kind |-> "index", entry |-> E]
    BY <2>1, <2>5, <2>6, <2>7
  <2>11. loaded(id[q]).kind = "index" /\ loaded(id[q]).entry = E
    BY <2>10
  <2>12. id[Append(q, u)] = id[Top(w, k, j + 1)]
    BY <2>2, <2>5
  <2>13. QED
    BY <2>5, <2>9, <2>11, <2>12, Zenon
<1>6. i.slot[P[1]] = id[Top(w, k, 1)]
  <2>1. Top(w, k, 1) = <<P[1]>>
    BY <1>0, <1>1, TopIs
  <2>2. <<P[1]>> \in DOMAIN id
    <3>1. 1 \in 1 .. l
      BY <1>1
    <3>2. QED
      BY <1>3, <2>1, <3>1
  <2>3. QED
    BY <1>2, <2>1, <2>2
<1> DEFINE f == [j \in 1 .. l |-> id[Top(w, k, j)]]
<1>7. WalkAt(i, P, f)
  <2>1. ASSUME NEW j \in 1 .. l, j # 1
        PROVE  f[j] = LET v == loaded(f[j - 1]) IN IF v.kind = "index" THEN v.entry[P[j]] ELSE 0
    <3>1. PICK h \in 1 .. l : h = j - 1 /\ h < l /\ h + 1 = j
      BY <2>1
    <3>2. /\ loaded(id[Top(w, k, h)]).kind = "index"
          /\ loaded(id[Top(w, k, h)]).entry[P[h + 1]] = id[Top(w, k, h + 1)]
      BY <1>5, <3>1
    <3>3. QED
      BY <3>1, <3>2
  <2>2. f[1] = i.slot[P[1]]
    BY <1>6
  <2>3. f = [j \in 1 .. l |->
               IF j = 1 THEN i.slot[P[1]]
               ELSE LET v == loaded(f[j - 1]) IN IF v.kind = "index" THEN v.entry[P[j]] ELSE 0]
    BY <2>1, <2>2
  <2>4. QED
    BY <1>1, <2>3 DEF WalkAt
<1> HIDE DEF f
<1>8. PICK g : WalkAt(i, P, g) /\ selected(i, at) = loaded(g[l])
  BY <1>1, <1>7, SelectedWalk
<1>9. \A j \in 0 .. l - 1 : g[j + 1] = id[Top(w, k, j + 1)]
  <2>1. g = [j \in 1 .. l |->
               IF j = 1 THEN i.slot[P[1]]
               ELSE LET v == loaded(g[j - 1]) IN IF v.kind = "index" THEN v.entry[P[j]] ELSE 0]
    BY <1>1, <1>8 DEF WalkAt
  <2>2. g[1] = i.slot[P[1]]
    BY <2>1
  <2>3. \A j \in 1 .. l : j # 1 =>
          g[j] = LET v == loaded(g[j - 1]) IN IF v.kind = "index" THEN v.entry[P[j]] ELSE 0
    BY <2>1
  <2> DEFINE S == {j \in 0 .. l - 1 : g[j + 1] = id[Top(w, k, j + 1)]}
  <2>4. 0 \in S
    BY <1>6, <2>2
  <2>5. ASSUME NEW j \in 0 .. l - 1 - 1, j \in S PROVE j + 1 \in S
    <3>1. PICK h \in 1 .. l : h = j + 1 /\ h < l
      OBVIOUS
    <3>2. g[h] = id[Top(w, k, h)]
      BY <2>5, <3>1
    <3>3. h + 1 \in 1 .. l /\ h + 1 # 1 /\ h + 1 - 1 = h
      BY <3>1
    <3>4. g[h + 1] = LET v == loaded(g[h + 1 - 1])
                     IN  IF v.kind = "index" THEN v.entry[P[h + 1]] ELSE 0
      BY <2>3, <3>3
    <3>5. g[h + 1] = LET v == loaded(g[h])
                     IN  IF v.kind = "index" THEN v.entry[P[h + 1]] ELSE 0
      BY <3>3, <3>4
    <3>6. g[h + 1] = id[Top(w, k, h + 1)]
      BY <1>5, <3>1, <3>2, <3>5
    <3>7. QED
      BY <3>1, <3>6
  <2> HIDE DEF S
  <2>6. \A j \in 0 .. l - 1 : j \in S
    BY <2>4, <2>5, BoundedInduction
  <2>7. QED
    BY <2>6 DEF S
<1>10. g[l] = id[Top(w, k, l)]
  <2>1. l - 1 \in 0 .. l - 1 /\ l - 1 + 1 = l
    OBVIOUS
  <2>2. QED
    BY <1>9, <2>1
<1>11. loaded(id[Top(w, k, l)]) = block_content(w, id, Top(w, k, l))
  BY <1>3
<1>12. ~IsIndex(Top(w, k, l))
  <2>1. l \in 1 .. Len(file_path(w, k)) /\ ~(l < Len(file_path(w, k)))
    BY <1>1
  <2>2. QED
    BY <1>0, <2>1, TopIs
<1>13. first_block(w, Top(w, k, l)) = k
  <2>1. CutAt(w, k, l)
    BY <1>0, <1>1, Cut
  <2>2. QED
    BY <1>1, <2>1 DEF CutAt, First
<1>14. QED
  BY <1>8, <1>10, <1>11, <1>12, <1>13 DEF block_content

\* The library reads the root table back.
LEMMA RootReads ==
  ASSUME NEW z, NEW s, NEW n, NEW m, NEW c, c = cols, IsTable(c), Formatted("done", z, s, n, m, c),
         Kept(Width(s), RootSize(s, c)) = RootSize(s, c)
  PROVE  RootReadsBack
<1>1. /\ s \in 1 .. 5 /\ n \in Nat /\ m \in Nat /\ n >= 64 /\ m >= 64
      /\ n <= Width(s) * Width(s) * Width(s)
  BY DEF Formatted, Layed
<1>2. disk = DiskAt("done", s, n, m, c) /\ sb = SuperAt("done", s, n, m)
  BY DEF Formatted
<1>3. /\ mnt.block_size = BS(s)
      /\ mnt.inode_table_offset = inode_first_block(s) * BS(s)
  BY Mounted
<1>4. PICK w \in Widths : w = Width(s) /\ BS(s) = 8 * w
  BY <1>1, Sizes
<1>5. PICK id : id = RootIds(s, n, m, c)
  OBVIOUS
<1>6. PICK k \in Nat \ {0} : k = RootSize(s, c)
  BY <1>1, RootSizes
<1>7. opened(0) = Inode0(s, n, m, c).what
  <2>1. PICK F \in Nat : F = inode_first_block(s) * BS(s)
    BY <1>1, SizesNat
  <2>2. F + INODE * 0 = F
    BY DEF INODE
  <2>3. ContentOf(disk, F, INODE) = Inode0(s, n, m, c).what
    <3>1. DoneReads(s, n, m, c, disk)
      BY <1>1, <1>2, DoneContents
    <3>2. QED
      BY <2>1, <3>1 DEF DoneReads
  <2>4. QED
    BY <1>3, <2>1, <2>2, <2>3 DEF opened, Content
<1>8. PICK root : root = opened(0)
  OBVIOUS
<1>9. root = inode_content(table_bytes(c), id)
  BY <1>5, <1>7, <1>8 DEF Inode0, InodeExtent, Extent
<1>10. /\ root.kind = "inode" /\ root.size = table_bytes(c)
       /\ root.slot = [x \in 0 .. 6 |-> IF <<x>> \in DOMAIN id THEN id[<<x>>] ELSE 0]
  BY <1>9 DEF inode_content
<1>11. DOMAIN id = paths(w, k)
  <2>1. DOMAIN RootIds(s, n, m, c) = paths(Width(s), Kept(Width(s), RootSize(s, c)))
    BY DEF RootIds, file_tree
  <2>2. QED
    BY <1>4, <1>5, <1>6, <2>1
<1>12. k <= w * w * w
  <2>1. BlocksTaken("done", s, n, m, c) <= n
    BY DEF Formatted
  <2>2. RootEnd(s, n, m, c) <= n
    BY <2>1 DEF BlocksTaken, Filed
  <2>3. RootEnd(s, n, m, c) = RootAt(s, n, m) + k + index_blocks(w, k)
    BY <1>4, <1>6 DEF RootEnd
  <2>4. RootAt(s, n, m) \in Nat
    BY <1>1, RegionsNat
  <2>5. index_blocks(w, k) \in Nat
    BY IndexNat
  <2>6. k <= n
    BY <1>1, <2>2, <2>3, <2>4, <2>5
  <2>7. w * w * w \in Nat
    BY DEF Widths
  <2>8. n <= w * w * w
    BY <1>1, <1>4
  <2>9. QED
    BY <1>1, <2>6, <2>7, <2>8
<1>13. \A p \in DOMAIN id : loaded(id[p]) = block_content(w, id, p)
  <2> SUFFICES ASSUME NEW p \in DOMAIN id PROVE loaded(id[p]) = block_content(w, id, p)
    OBVIOUS
  <2>1. ContentOf(disk, id[p] * BS(s), BS(s)) = block_content(Width(s), id, p)
    BY <1>1, <1>2, <1>5, RootContent
  <2>2. QED
    BY <1>3, <1>4, <2>1 DEF loaded, Content
<1>14. ASSUME NEW j \in 0 .. k - 1
       PROVE  selected(root, j * BLOCK_SIZE) = [kind |-> "data", nth |-> j]
  <2>1. BLOCK_SIZE = 8 * w
    BY <1>1, <1>2, <1>4, ModelSizes
  <2>2. (j * BLOCK_SIZE) \div 8 = j * w
    BY <2>1 DEF Widths
  <2>3. Lib!SelectedPath(j * w) = LibPath(w, j * w)
    BY <1>3, <1>4, SelectedIs
  <2>4. LibPath(w, j * w) = file_path(w, j)
    BY LibPathIs
  <2>5. Lib!SelectedPath((j * BLOCK_SIZE) \div 8) = file_path(w, j)
    BY <2>2, <2>3, <2>4
  <2>6. QED
    BY <1>10, <1>11, <1>12, <1>13, <2>5, BlockFound
<1>15. Blocks(root.size) = k
  <2>1. Blocks(root.size) = InBlocks(s, table_bytes(c))
    BY <1>1, <1>2, <1>10, ModelSizes
  <2>2. QED
    BY <1>6, <2>1 DEF RootSize
<1>16. QED
  BY <1>8, <1>10, <1>14, <1>15 DEF RootReadsBack

\* The root table is laid out and written as the library reads it.
LEMMA FInvRoot ==
  ASSUME FInv, "odd_block" \notin Allow
  PROVE  RootTableWhole
<1> SUFFICES ASSUME pc = "done" PROVE ColumnsAligned /\ RootReadsBack
  BY DEF RootTableWhole
<1>1. "done" \in LaidOut /\ "done" \in Filed /\ "done" \in LaidOut \ {"reserve", "table"}
  BY DEF LaidOut, Filed
<1>2. PICK z, s, n, m, c : z = size /\ s = sb.block_size /\ c = cols
                           /\ Formatted("done", z, s, n, m, c)
  BY <1>1 DEF FInv
<1>3. todo = <<>> /\ Sorted(cols) /\ IsTable(cols)
  BY <1>1 DEF FInv
<1>4. Whole(s, Len(todo) + Len(cols))
  BY <1>1, <1>2 DEF FInv
<1>5. Len(todo) + Len(cols) = Len(c)
  BY <1>2, <1>3 DEF IsTable
<1>6. Kept(Width(s), RootSize(s, c)) = RootSize(s, c)
  BY <1>4, <1>5 DEF Whole, RootSize, table_bytes
<1>7. QED
  BY <1>2, <1>3, <1>6, SortedAligned, RootReads

\* The root table mkudbfs wrote is the one udbfslib reads: its columns lie on their
\* natural boundaries, and each of its blocks is where the library looks for it.
\* Excluded besides is a table whose size in blocks is one that mkudbfs drops a
\* block of.
THEOREM RootTableIsWhole ==
  ASSUME {"tiny_device", "junk", "killed_late", "odd_block"} \cap Allow = {}
  PROVE  BootSpec => []RootTableWhole
<1>1. BootInit => FInv
  BY FInvInit DEF BootInit
<1>2. FInv /\ [BootNext]_boot_vars => FInv'
  BY FInvNext
<1>3. FInv => RootTableWhole
  BY FInvRoot
<1>4. QED
  BY <1>1, <1>2, <1>3, PTL DEF BootSpec
-----------------------------------------------------------------------------
\* udb-instboot and stage 1: the invariant.

\* The blocks of an image of k blocks, which follow the root table, and the block
\* behind them.
ImageIds(s, n, m, c, k) ==
    [p \in paths(Width(s), k) |-> RootEnd(s, n, m, c) + LibPlace(Width(s), p)]
ImageEnd(s, n, m, c, k) == RootEnd(s, n, m, c) + k + index_blocks(Width(s), k)

\* What a block of the image holds, version ver[j] for the j-th.
ImageWhat(s, id, ver, p) ==
    IF IsIndex(p) THEN block_content(Width(s), id, p)
    ELSE [kind |-> "image", version |-> ver[first_block(Width(s), p)],
          nth |-> first_block(Width(s), p)]
ImageExtent(s, id, ver, p) == Extent(id[p] * BS(s), BS(s), ImageWhat(s, id, ver, p))
ImageExtents(s, id, ver)   == {ImageExtent(s, id, ver, p) : p \in DOMAIN id}

\* What an installation leaves alone, and what it writes besides the image.
KeptExtents(s, n, m, c) ==
    RootExtents(s, RootIds(s, n, m, c)) \cup {Inode0(s, n, m, c), InodeN(s, 1), InodeN(s, 2)}

\* The superblock with e blocks taken, and the extents of the system.
SuperWhat(s, n, m, e) ==
    [kind |-> "super", free_block_count |-> n - e, free_inode_count |-> m - 4,
     sb |-> [SuperAt("done", s, n, m) EXCEPT !.boot_loader_inode = 3]]
SystemExtents(s, n, m, id, k, e) ==
    {Extent(3 * INODE + inode_first_block(s) * BS(s), INODE, inode_content(k * BS(s), id)),
     Extent(BS(s) * MapsAt(s, m), Bytes(n), [kind |-> "bitmap", free |-> e .. 8 * Bytes(n) - 1]),
     Extent(BS(s) * MapsAt(s, m) + Bytes(n), Bytes(m),
            [kind |-> "bitmap", free |-> 4 .. 8 * Bytes(m) - 1]),
     Extent(KB, SUPER, SuperWhat(s, n, m, e))}

\* A volume with an image of k blocks, whose j-th has version ver[j].
VolumeAt(s, n, m, c, k, id, ver) ==
    KeptExtents(s, n, m, c) \cup ImageExtents(s, id, ver)
      \cup SystemExtents(s, n, m, id, k, ImageEnd(s, n, m, c, k))

\* The volume d with an image: k blocks of the file, the first l of them of version v.
InstalledAt(s, n, m, c, d, id, ver, k, l, v) ==
    /\ k \in Nat \ {0} /\ l \in 1 .. k /\ v \in Nat
    /\ ver \in [0 .. k - 1 -> Nat] /\ \A j \in 0 .. l - 1 : ver[j] = v
    /\ ImageEnd(s, n, m, c, k) <= n
    /\ id = ImageIds(s, n, m, c, k)
    /\ d = VolumeAt(s, n, m, c, k, id, ver)
    /\ s = 2 \/ "other_blocks" \in Allow

\* The longer of two files, the versions of its blocks once the first k are written
\* again, and these writes.
Longer(k, a)               == IF k >= a THEN k ELSE a
Newer(ver, v, k, b)        == [j \in 0 .. b - 1 |-> IF j < k THEN v ELSE ver[j]]
ImageWrites(s, id, ver, k) ==
    {ImageExtent(s, id, ver, p) : p \in {r \in DOMAIN id : IsIndex(r) \/ first_block(Width(s), r) < k}}

\* The extents of Old lie where some of New do.
SamePlaces(Old, New) == \A q \in Old : \E r \in New : q.at = r.at /\ q.len = r.len

\* The sizes of a file system and the columns of its root table.
Sized(s, n, m, c) ==
    s \in 1 .. 5 /\ n \in Nat /\ m \in Nat /\ IsTable(c) /\ n >= 64 /\ m >= 64

\* The registers and variables of stage 1.
CpuFields == {"at", "bx", "bp", "si", "bind", "di", "inode", "at7a00", "at7e00", "mem"}

\* Stage 1 before it loads block x.bp of a file of k blocks.
LoadingAt(x, id, k) ==
    /\ k > 68 => x.at7a00 = block_content(64, id, <<5>>)
    /\ x.bp <= 4 => x.si = <<"inode", x.bp>> /\ x.at7e00 = inode_content(k * 512, id)
    /\ x.bp \in 5 .. 68 => x.si = <<"at7e00", x.bp - 4>> /\ x.at7e00 = block_content(64, id, <<4>>)
    /\ x.bp <= 68 => x.bx = 69 - x.bp /\ x.bind = 0
    /\ x.bp > 68 => /\ x.bx = 64 - ((x.bp - 69) % 64)
                    /\ x.bind = (x.bp - 69) \div 64 + 1
                    /\ x.si = <<"at7e00", ((x.bp - 69) % 64) + 1>>
                    /\ x.at7e00 = block_content(64, id, <<5, (x.bp - 69) \div 64>>)

\* Stage 1 with the first x.bp blocks of a file of k in memory.
CpuAt(x, id, ver, k) ==
    /\ DOMAIN x = CpuFields
    /\ x.bp \in 0 .. k /\ x.di = k
    /\ x.mem = [j \in 1 .. x.bp |-> [kind |-> "image", version |-> ver[j - 1], nth |-> j - 1]]
    /\ x.at = IF x.bp = k THEN "stage2" ELSE "loop"
    /\ x.at = "loop" => LoadingAt(x, id, k)

\* The volume and stage 1 on it, off, running wild or loading.
Running(s, n, m, c, d, id, ver, k, l, v, x) ==
    /\ InstalledAt(s, n, m, c, d, id, ver, k, l, v)
    /\ \/ x = Off
       \/ x = [at |-> "wild"] /\ "other_blocks" \in Allow
       \/ s = 2 /\ CpuAt(x, id, ver, k)

\* The invariant of udb-instboot and stage 1: the volume, byte by byte, and the
\* registers.
VInv ==
    /\ vol = {} => tree = <<>> /\ made = [version |-> 0, last |-> 0, blocks |-> 0] /\ cpu = Off
    /\ vol # {} => /\ pc = "done"
                   /\ \E s \in {sb.block_size}, n \in {sb.block_count}, m \in {sb.inode_count},
                        c \in {cols}, d \in {vol}, id \in {tree}, k \in {made.blocks},
                        l \in {made.last}, v \in {made.version}, x \in {cpu} :
                        \E ver \in [0 .. k - 1 -> Nat] :
                          Running(s, n, m, c, d, id, ver, k, l, v, x)
-----------------------------------------------------------------------------
\* The blocks of the image.

\* A path belongs to a file as soon as its first block does.
LEMMA PathsBelow ==
  ASSUME NEW w \in Widths, NEW n \in Nat, NEW k \in Nat, NEW p \in paths(w, n)
  PROVE  /\ first_block(w, p) \in 0 .. n - 1
         /\ first_block(w, p) < k => p \in paths(w, k)
<1>1. PICK f \in 0 .. n - 1, i \in Nat \ {0} : PathAt(w, p, f, i)
  BY PathOf
<1>2. f = first_block(w, p) /\ p = Top(w, f, i) /\ i \in 1 .. Len(file_path(w, f))
  BY <1>1 DEF PathAt
<1>3. f < k => p \in paths(w, k)
  BY <1>2 DEF paths, Top
<1>4. QED
  BY <1>2, <1>3

\* The values LibPlace is made of.
LEMMA LibPlaceParts ==
  ASSUME NEW w \in Widths, NEW n \in Nat, NEW p \in paths(w, n)
  PROVE  \E f \in Nat, x \in Nat, o \in Nat :
           /\ f = first_block(w, p) /\ x = index_blocks(w, f) /\ o = opened_with(w, p)
           /\ LibPlace(w, p) = f + x + (IF IsIndex(p) THEN 1 + o ELSE 0)
<1>1. PICK f \in 0 .. n - 1, i \in Nat \ {0} : PathAt(w, p, f, i)
  BY PathOf
<1>2. f = first_block(w, p) /\ f \in Nat
  BY <1>1 DEF PathAt
<1>3. PICK o \in Nat : o = opened_with(w, p)
  BY <1>1, OpenedFinite DEF PathAt
<1>4. PICK x \in Nat : x = index_blocks(w, f)
  BY <1>2, IndexNat
<1>5. LibPlace(w, p) = f + x + (IF IsIndex(p) THEN 1 + o ELSE 0)
  BY <1>2, <1>3, <1>4 DEF LibPlace
<1>6. QED
  BY <1>2, <1>3, <1>4, <1>5

\* The blocks of an image lie behind the root table, one for each path.
LEMMA ImageBlocks ==
  ASSUME NEW s \in 1 .. 5, NEW n \in Nat, NEW m \in Nat, NEW c, IsTable(c), NEW k \in Nat
  PROVE  /\ RootEnd(s, n, m, c) \in Nat /\ ImageEnd(s, n, m, c, k) \in Nat
         /\ RootEnd(s, n, m, c) + k <= ImageEnd(s, n, m, c, k)
<1>1. RootEnd(s, n, m, c) \in Nat
  BY RootBlocks
<1>2. index_blocks(Width(s), k) \in Nat
  BY Sizes, IndexNat, SMTT(60)
<1>3. QED
  BY <1>1, <1>2 DEF ImageEnd

\* Where a block of the image lies.
LEMMA ImageIdAt ==
  ASSUME NEW s \in 1 .. 5, NEW n \in Nat, NEW m \in Nat, NEW c, IsTable(c), NEW k \in Nat,
         NEW p \in DOMAIN ImageIds(s, n, m, c, k)
  PROVE  /\ p \in paths(Width(s), k)
         /\ ImageIds(s, n, m, c, k)[p] = RootEnd(s, n, m, c) + LibPlace(Width(s), p)
         /\ ImageIds(s, n, m, c, k)[p] \in RootEnd(s, n, m, c) .. ImageEnd(s, n, m, c, k) - 1
<1>1. p \in paths(Width(s), k)
  BY DEF ImageIds
<1>2. ImageIds(s, n, m, c, k)[p] = RootEnd(s, n, m, c) + LibPlace(Width(s), p)
  BY <1>1 DEF ImageIds
<1>3. PICK w \in Widths : w = Width(s)
  BY Sizes
<1>4. PICK f \in 0 .. k - 1 : LibPlace(w, p) \in f + index_blocks(w, f) .. f + index_blocks(w, f + 1)
  BY <1>1, <1>3, PlaceBounds
<1>5. index_blocks(w, f) \in Nat /\ index_blocks(w, f + 1) <= index_blocks(w, k)
  <2>1. f \in Nat /\ f < k
    OBVIOUS
  <2>2. QED
    BY <2>1, Grows
<1>6. index_blocks(w, f + 1) \in Nat /\ index_blocks(w, k) \in Nat
  <2>1. f + 1 \in Nat
    OBVIOUS
  <2>2. QED
    BY <2>1, IndexNat
<1>7. PICK r \in Nat : r = RootEnd(s, n, m, c)
  BY ImageBlocks
<1>8. ImageEnd(s, n, m, c, k) = r + k + index_blocks(w, k)
  BY <1>3, <1>7 DEF ImageEnd
<1>9. PICK g \in Int : g = LibPlace(w, p)
  BY <1>4, <1>5, <1>6
<1>10. g >= 0 /\ g < k + index_blocks(w, k)
  BY <1>4, <1>5, <1>6, <1>9
<1>11. QED
  BY <1>1, <1>2, <1>3, <1>6, <1>7, <1>8, <1>9, <1>10

\* The library gives no block to two paths.
LEMMA ImageIdsApart ==
  ASSUME NEW s \in 1 .. 5, NEW n \in Nat, NEW m \in Nat, NEW c, IsTable(c), NEW k \in Nat,
         NEW p \in DOMAIN ImageIds(s, n, m, c, k), NEW q \in DOMAIN ImageIds(s, n, m, c, k), p # q
  PROVE  ImageIds(s, n, m, c, k)[p] # ImageIds(s, n, m, c, k)[q]
<1>1. PICK w \in Widths, r \in Nat : w = Width(s) /\ r = RootEnd(s, n, m, c)
  <2>1. Width(s) \in Widths
    BY Sizes
  <2>2. RootEnd(s, n, m, c) \in Nat
    BY RootBlocks
  <2>3. QED
    BY <2>1, <2>2
<1>2. /\ p \in paths(w, k) /\ ImageIds(s, n, m, c, k)[p] = r + LibPlace(w, p)
      /\ q \in paths(w, k) /\ ImageIds(s, n, m, c, k)[q] = r + LibPlace(w, q)
  BY <1>1, ImageIdAt
<1>3. LibPlace(w, p) # LibPlace(w, q)
  BY <1>2, PlacesApart
<1>4. LibPlace(w, p) \in Int /\ LibPlace(w, q) \in Int
  BY <1>2, LibPlaceParts
<1>5. QED
  BY <1>1, <1>2, <1>3, <1>4

\* A file of no blocks.
LEMMA NoImage ==
  ASSUME NEW s, NEW n, NEW m, NEW c
  PROVE  ImageIds(s, n, m, c, 0) = <<>>
<1>1. paths(Width(s), 0) = {}
  BY DEF paths
<1>2. QED
  BY <1>1 DEF ImageIds

\* What the library makes of the tree of an image of a blocks when it writes k.
LEMMA ExtendedIs ==
  ASSUME NEW s, NEW n, NEW m, NEW c, Sized(s, n, m, c),
         NEW a \in Nat, NEW k \in Nat, sb = SuperAt("done", s, n, m)
  PROVE  extended(ImageIds(s, n, m, c, a), a, ImageEnd(s, n, m, c, a), k)
           = ImageIds(s, n, m, c, Longer(k, a))
<1> s \in 1 .. 5 /\ n \in Nat /\ m \in Nat /\ IsTable(c)
  BY DEF Sized
<1> PICK b \in Nat : b = Longer(k, a) /\ b = IF k >= a THEN k ELSE a
  BY DEF Longer
<1>1. PICK w \in Widths, r \in Nat : w = Width(s) /\ r = RootEnd(s, n, m, c)
  <2>1. Width(s) \in Widths
    BY Sizes
  <2>2. RootEnd(s, n, m, c) \in Nat
    BY RootBlocks
  <2>3. QED
    BY <2>1, <2>2
<1>2. Entries = w
  BY <1>1, ModelSizes
<1>3. PICK x \in Nat : x = index_blocks(w, a)
  BY IndexNat
<1>4. PICK e \in Nat : e = ImageEnd(s, n, m, c, a) /\ e = r + a + x
  BY <1>1, <1>3 DEF ImageEnd
<1>5. PICK old : old = ImageIds(s, n, m, c, a) /\ DOMAIN old = paths(w, a)
  <2>1. DOMAIN ImageIds(s, n, m, c, a) = paths(w, a)
    BY <1>1 DEF ImageIds
  <2>2. QED
    BY <2>1
<1>6. ASSUME NEW p \in paths(w, b) PROVE p \notin DOMAIN old => first_block(w, p) >= a
  BY <1>5, <1>6, PathsBelow
<1>7. DOMAIN old \cup {p \in paths(w, k) : first_block(w, p) >= a} = paths(w, b)
  <2>1. ASSUME NEW p \in paths(w, a) PROVE p \in paths(w, b)
    BY <2>1, PathsBelow
  <2>2. ASSUME NEW p \in paths(w, k) PROVE p \in paths(w, b)
    BY <2>2, PathsBelow
  <2>3. ASSUME NEW p \in paths(w, b), p \notin paths(w, a)
        PROVE  p \in paths(w, k) /\ first_block(w, p) >= a
    BY <2>3, PathsBelow
  <2>4. QED
    BY <1>5, <2>1, <2>2, <2>3
<1>8. ASSUME NEW p \in paths(w, b)
      PROVE  (LET j == first_block(w, p)
              IN  IF p \in DOMAIN old THEN old[p]
                  ELSE e + j - a + index_blocks(w, j) - index_blocks(w, a)
                         + (IF IsIndex(p) THEN 1 + opened_with(w, p) ELSE 0))
               = r + LibPlace(w, p)
  <2>1. CASE p \in DOMAIN old
    BY <1>1, <1>5, <2>1, ImageIdAt
  <2>2. CASE p \notin DOMAIN old
    <3>1. PICK f \in Nat, y \in Nat, o \in Nat :
             /\ f = first_block(w, p) /\ y = index_blocks(w, f) /\ o = opened_with(w, p)
             /\ LibPlace(w, p) = f + y + (IF IsIndex(p) THEN 1 + o ELSE 0)
      BY LibPlaceParts
    <3>2. PICK g \in Nat : g = IF IsIndex(p) THEN 1 + o ELSE 0
      OBVIOUS
    <3>3. e + f - a + y - x + g = r + (f + y + g)
      BY <1>4
    <3>4. QED
      BY <1>3, <2>2, <3>1, <3>2, <3>3
  <2>3. QED
    BY <2>1, <2>2
<1>9. extended(old, a, e, k) = [p \in paths(w, b) |-> r + LibPlace(w, p)]
  BY <1>2, <1>7, <1>8 DEF extended
<1>10. QED
  BY <1>1, <1>4, <1>5, <1>9 DEF ImageIds
-----------------------------------------------------------------------------
\* Writing the image to the volume.

\* What an installation leaves alone lies among the first inodes and between bitmaps
\* and image.
Zones(s, n, m, c, F, M, E, x, y) ==
    /\ F = inode_first_block(s) * BS(s) /\ M = BS(s) * MapsAt(s, m)
    /\ E = RootEnd(s, n, m, c) * BS(s)
    /\ x = Bytes(n) /\ y = Bytes(m) /\ x > 0 /\ y > 0
    /\ F >= 2048 /\ F + 64 * m <= M /\ M + x + y <= E
    /\ \A e \in KeptExtents(s, n, m, c) :
         /\ e.at \in Nat /\ e.len \in Nat
         /\ \/ F <= e.at /\ e.at + e.len <= F + 192
            \/ M + x + y <= e.at /\ e.at + e.len <= E

\* There are such zones on every volume.
LEMMA ZonesAt ==
  ASSUME NEW s \in 1 .. 5, NEW n \in Nat, NEW m \in Nat, NEW c, IsTable(c), n >= 64, m >= 64
  PROVE  \E F, M, E, x, y \in Nat : Zones(s, n, m, c, F, M, E, x, y)
<1>1. PICK F, M, R, x, y \in Nat : Placed(s, n, m, c, F, M, R, x, y)
  BY ExtentsAt
<1>2. PICK b \in Nat : b = BS(s)
  BY SizesNat
<1>3. PICK r \in Nat, e \in Nat : r = RootAt(s, n, m) /\ e = RootEnd(s, n, m, c) /\ r <= e
  <2>1. RootAt(s, n, m) \in Nat
    BY RegionsNat
  <2>2. RootEnd(s, n, m, c) \in Nat /\ RootAt(s, n, m) <= RootEnd(s, n, m, c)
    BY RootBlocks
  <2>3. QED
    BY <2>1, <2>2
<1>4. PICK E \in Nat : E = e * b
  OBVIOUS
<1>5. /\ F = inode_first_block(s) * BS(s) /\ M = BS(s) * MapsAt(s, m) /\ R = r * b
      /\ x = Bytes(n) /\ y = Bytes(m) /\ x > 0 /\ y > 0
      /\ F >= 2048 /\ F + 64 * m <= M /\ M + x + y <= R
  BY <1>1, <1>2, <1>3 DEF Placed
<1>6. R <= E
  BY <1>3, <1>4, <1>5, TimesLe
<1>7. ASSUME NEW q \in KeptExtents(s, n, m, c)
      PROVE  /\ q.at \in Nat /\ q.len \in Nat
             /\ \/ F <= q.at /\ q.at + q.len <= F + 192
                \/ M + x + y <= q.at /\ q.at + q.len <= E
  <2>1. CASE q \in RootExtents(s, RootIds(s, n, m, c))
    <3>1. q.at \in Nat /\ q.at >= R
      BY <1>1, <2>1 DEF Placed
    <3>2. PICK j \in RootAt(s, n, m) .. RootEnd(s, n, m, c) - 1 : q.at = j * BS(s) /\ q.len = BS(s)
      <4>1. PICK p \in DOMAIN RootIds(s, n, m, c) :
                   /\ RootIds(s, n, m, c)[p] \in RootAt(s, n, m) .. RootEnd(s, n, m, c) - 1
                   /\ q.at = RootIds(s, n, m, c)[p] * BS(s) /\ q.len = BS(s)
        BY <2>1, RootExtentAt
      <4>2. QED
        BY <4>1
    <3>3. j \in Nat /\ j < e
      BY <1>3
    <3>4. j * b + b <= e * b
      BY <3>3, Times
    <3>5. q.at = j * b /\ q.len = b
      BY <1>2, <3>2
    <3>6. q.at + q.len <= E
      BY <1>4, <3>4, <3>5
    <3>7. QED
      BY <1>5, <3>1, <3>5, <3>6
  <2>2. CASE q \in {Inode0(s, n, m, c), InodeN(s, 1), InodeN(s, 2)}
    <3>1. 0 * INODE + F = F /\ 1 * INODE + F = F + 64 /\ 2 * INODE + F = F + 128 /\ INODE = 64
      BY DEF INODE
    <3>2. (q.at = F \/ q.at = F + 64 \/ q.at = F + 128) /\ q.len = 64
      <4>1. F = inode_first_block(s) * BS(s)
        BY <1>5
      <4>2. \A w : InodeExtent(s, 0, w).at = F /\ InodeExtent(s, 0, w).len = 64
        BY <3>1, <4>1 DEF InodeExtent, Extent
      <4>3. \A w : InodeExtent(s, 1, w).at = F + 64 /\ InodeExtent(s, 1, w).len = 64
        BY <3>1, <4>1 DEF InodeExtent, Extent
      <4>4. \A w : InodeExtent(s, 2, w).at = F + 128 /\ InodeExtent(s, 2, w).len = 64
        BY <3>1, <4>1 DEF InodeExtent, Extent
      <4>5. QED
        BY <2>2, <4>2, <4>3, <4>4 DEF Inode0, InodeN
    <3>3. QED
      BY <3>2
  <2>3. QED
    BY <2>1, <2>2 DEF KeptExtents
<1>8. Zones(s, n, m, c, F, M, E, x, y)
  <2>1. E = RootEnd(s, n, m, c) * BS(s)
    BY <1>2, <1>3, <1>4
  <2>2. M + x + y <= E
    BY <1>5, <1>6
  <2>3. QED
    BY <1>5, <1>7, <2>1, <2>2 DEF Zones
<1>9. QED
  BY <1>8

\* The blocks of the image lie behind all of that.
LEMMA ImageZone ==
  ASSUME NEW s \in 1 .. 5, NEW n \in Nat, NEW m \in Nat, NEW c, IsTable(c), NEW k \in Nat,
         NEW id, id = ImageIds(s, n, m, c, k), NEW p \in DOMAIN id,
         NEW E \in Nat, E = RootEnd(s, n, m, c) * BS(s)
  PROVE  /\ id[p] \in Nat /\ id[p] * BS(s) \in Nat /\ id[p] * BS(s) >= E
         /\ id[p] >= RootEnd(s, n, m, c) /\ id[p] < ImageEnd(s, n, m, c, k)
<1>1. PICK b \in Nat : b = BS(s)
  BY SizesNat
<1>2. PICK r \in Nat : r = RootEnd(s, n, m, c)
  BY RootBlocks
<1>3. id[p] \in r .. ImageEnd(s, n, m, c, k) - 1
  BY <1>2, ImageIdAt
<1>4. ImageEnd(s, n, m, c, k) \in Nat
  BY ImageBlocks
<1>5. id[p] \in Nat /\ r <= id[p]
  BY <1>2, <1>3
<1>6. PICK i \in Nat : i = id[p]
  BY <1>5
<1>7. r * b <= i * b /\ i * b \in Nat
  BY <1>2, <1>5, <1>6, TimesLe
<1>8. QED
  BY <1>1, <1>2, <1>3, <1>4, <1>6, <1>7

\* Two blocks of an image lie apart.
LEMMA ImageApart ==
  ASSUME NEW s \in 1 .. 5, NEW n \in Nat, NEW m \in Nat, NEW c, IsTable(c), NEW k \in Nat,
         NEW id, id = ImageIds(s, n, m, c, k), NEW p \in DOMAIN id, NEW q \in DOMAIN id, p # q,
         NEW v, NEW u
  PROVE  Apart(Extent(id[p] * BS(s), BS(s), v), Extent(id[q] * BS(s), BS(s), u))
<1>1. PICK b \in Nat, E \in Nat : b = BS(s) /\ E = RootEnd(s, n, m, c) * BS(s)
  <2>1. BS(s) \in Nat
    BY SizesNat
  <2>2. RootEnd(s, n, m, c) \in Nat
    BY RootBlocks
  <2>3. QED
    BY <2>1, <2>2
<1>2. id[p] \in Nat /\ id[q] \in Nat
  BY <1>1, ImageZone
<1>3. id[p] # id[q]
  BY ImageIdsApart
<1>4. PICK i \in Nat, j \in Nat : i = id[p] /\ j = id[q] /\ i # j
  BY <1>2, <1>3
<1>5. i * b + b <= j * b \/ j * b + b <= i * b
  <2>1. CASE i < j
    BY <2>1, Times
  <2>2. CASE j < i
    BY <2>2, Times
  <2>3. QED
    BY <1>4, <2>1, <2>2
<1>6. QED
  BY <1>1, <1>4, <1>5 DEF Apart, Extent

\* The writes New and Sys replace extents, apart from K and Rest.
Replaces(K, Old, Rest, Sys0, New, Sys) ==
    /\ Rest \subseteq Old
    /\ \A e \in K \cup Rest : \A x \in New \cup Sys : Apart(e, x)
    /\ \A e \in Old \ Rest : \E x \in New : e.at = x.at /\ e.len = x.len
    /\ \A e \in Sys0 : \E x \in Sys : e.at = x.at /\ e.len = x.len
    /\ \A x \in New \cup Sys : x.at \in Nat /\ x.len \in Nat \ {0}

\* What such writes leave.
LEMMA Rewritten ==
  ASSUME NEW K, NEW Old, NEW Rest, NEW Sys0, NEW New, NEW Sys,
         Replaces(K, Old, Rest, Sys0, New, Sys)
  PROVE  Written(K \cup Old \cup Sys0, New \cup Sys) = K \cup (Rest \cup New) \cup Sys
<1> USE DEF Replaces
<1>1. ASSUME NEW e, NEW x \in New \cup Sys, e.at = x.at, e.len = x.len PROVE ~Apart(e, x)
  BY <1>1 DEF Apart
<1>2. Written(K \cup Old \cup Sys0, New \cup Sys) =
        {e \in K \cup Old \cup Sys0 : \A x \in New \cup Sys : Apart(e, x)} \cup (New \cup Sys)
  BY DEF Written, Apart
<1>3. ASSUME NEW e \in K \cup Old \cup Sys0, \A x \in New \cup Sys : Apart(e, x)
      PROVE  e \in K \cup Rest
  BY <1>1, <1>3
<1>4. QED
  BY <1>2, <1>3

\* Where the rest of what an installation writes lies.
LEMMA SystemZone ==
  ASSUME NEW s, NEW n, NEW m, NEW c, NEW F \in Nat, NEW M \in Nat, NEW E \in Nat,
         NEW x \in Nat, NEW y \in Nat,
         Zones(s, n, m, c, F, M, E, x, y), NEW id, NEW k, NEW e,
         NEW q \in SystemExtents(s, n, m, id, k, e)
  PROVE  \/ q.at = F + 192 /\ q.len = 64
         \/ q.at = M /\ q.len = x
         \/ q.at = M + x /\ q.len = y
         \/ q.at = 1024 /\ q.len = 120
<1>1. F = inode_first_block(s) * BS(s) /\ M = BS(s) * MapsAt(s, m) /\ x = Bytes(n) /\ y = Bytes(m)
  BY DEF Zones
<1>2. 3 * INODE + F = F + 192 /\ INODE = 64 /\ KB = 1024 /\ SUPER = 120
  BY DEF INODE, KB, SUPER
<1>3. q \in {Extent(F + 192, 64, inode_content(k * BS(s), id)),
              Extent(M, x, [kind |-> "bitmap", free |-> e .. 8 * Bytes(n) - 1]),
              Extent(M + x, y, [kind |-> "bitmap", free |-> 4 .. 8 * Bytes(m) - 1]),
              Extent(1024, 120, SuperWhat(s, n, m, e))}
  BY <1>1, <1>2 DEF SystemExtents
<1>4. QED
  BY <1>3 DEF Extent

\* The extents that an installation keeps lie apart from these.
LEMMA KeptApart ==
  ASSUME NEW s \in 1 .. 5, NEW n \in Nat, NEW m \in Nat, NEW c, IsTable(c), n >= 64, m >= 64,
         NEW i, NEW j, NEW e, NEW r \in SystemExtents(s, n, m, i, j, e)
  PROVE  /\ \A q \in KeptExtents(s, n, m, c) : Apart(q, r)
         /\ r.at \in Nat /\ r.len \in Nat \ {0}
<1>1. PICK F, M, E, x, y \in Nat : Zones(s, n, m, c, F, M, E, x, y)
  BY ZonesAt
<1>2. F >= 2048 /\ F + 64 * m <= M /\ M + x + y <= E /\ x > 0 /\ y > 0
      /\ \A q \in KeptExtents(s, n, m, c) :
         /\ q.at \in Nat /\ q.len \in Nat
         /\ \/ F <= q.at /\ q.at + q.len <= F + 192
            \/ M + x + y <= q.at /\ q.at + q.len <= E
  BY <1>1 DEF Zones
<1>3. \/ r.at = F + 192 /\ r.len = 64
      \/ r.at = M /\ r.len = x
      \/ r.at = M + x /\ r.len = y
      \/ r.at = 1024 /\ r.len = 120
  BY <1>1, SystemZone
<1>4. ASSUME NEW q \in KeptExtents(s, n, m, c) PROVE Apart(q, r)
  BY <1>2, <1>3 DEF Apart
<1>5. QED
  BY <1>2, <1>3, <1>4

\* And so do the blocks of the image.
LEMMA ImageOutside ==
  ASSUME NEW s \in 1 .. 5, NEW n \in Nat, NEW m \in Nat, NEW c, IsTable(c), n >= 64, m >= 64,
         NEW k \in Nat, NEW id, id = ImageIds(s, n, m, c, k), NEW ver, NEW p \in DOMAIN id,
         NEW i, NEW j, NEW e
  PROVE  /\ \A q \in KeptExtents(s, n, m, c) : Apart(q, ImageExtent(s, id, ver, p))
         /\ \A r \in SystemExtents(s, n, m, i, j, e) : Apart(ImageExtent(s, id, ver, p), r)
         /\ ImageExtent(s, id, ver, p).at \in Nat /\ ImageExtent(s, id, ver, p).len \in Nat \ {0}
         /\ ImageExtent(s, id, ver, p).at = id[p] * BS(s) /\ ImageExtent(s, id, ver, p).len = BS(s)
<1>1. PICK F, M, E, x, y \in Nat : Zones(s, n, m, c, F, M, E, x, y)
  BY ZonesAt
<1>2. F >= 2048 /\ F + 64 * m <= M /\ M + x + y <= E /\ E = RootEnd(s, n, m, c) * BS(s)
      /\ \A q \in KeptExtents(s, n, m, c) :
         /\ q.at \in Nat /\ q.len \in Nat
         /\ \/ F <= q.at /\ q.at + q.len <= F + 192
            \/ M + x + y <= q.at /\ q.at + q.len <= E
  BY <1>1 DEF Zones
<1>3. PICK b \in Nat \ {0} : b = BS(s)
  BY Sizes
<1>4. PICK z : z = ImageExtent(s, id, ver, p)
  OBVIOUS
<1>5. z.at \in Nat /\ z.at >= E /\ z.len = b /\ z.at = id[p] * BS(s)
  <2>1. id[p] * BS(s) \in Nat /\ id[p] * BS(s) >= E
    BY <1>2, ImageZone
  <2>2. z.at = id[p] * BS(s) /\ z.len = b
    BY <1>3, <1>4 DEF ImageExtent, Extent
  <2>3. QED
    BY <2>1, <2>2
<1>6. ASSUME NEW q \in KeptExtents(s, n, m, c) PROVE Apart(q, z)
  BY <1>2, <1>5 DEF Apart
<1>7. ASSUME NEW r \in SystemExtents(s, n, m, i, j, e) PROVE Apart(z, r)
  <2>1. \/ r.at = F + 192 /\ r.len = 64
        \/ r.at = M /\ r.len = x
        \/ r.at = M + x /\ r.len = y
        \/ r.at = 1024 /\ r.len = 120
    BY <1>1, SystemZone
  <2>2. QED
    BY <1>2, <1>5, <2>1 DEF Apart
<1>8. QED
  BY <1>3, <1>4, <1>5, <1>6, <1>7

\* The volume after an installation of k blocks over an image of a blocks, or none.
Installs(s, n, m, c, a, k, b, id, new, ver, v, now, e, S0, S) ==
    /\ Sized(s, n, m, c) /\ a \in Nat /\ k \in Nat /\ b = Longer(k, a)
    /\ id = ImageIds(s, n, m, c, a) /\ new = ImageIds(s, n, m, c, b)
    /\ now = Newer(ver, v, k, b)
    /\ S = SystemExtents(s, n, m, new, b, e) /\ SamePlaces(S0, S)

\* An installation leaves the volume with the new image.
LEMMA VolumeWritten ==
  ASSUME NEW s, NEW n, NEW m, NEW c, NEW a, NEW k, NEW b, NEW id, NEW new, NEW ver, NEW v, NEW now,
         NEW e, NEW S0, NEW S, Installs(s, n, m, c, a, k, b, id, new, ver, v, now, e, S0, S)
  PROVE  Written(KeptExtents(s, n, m, c) \cup ImageExtents(s, id, ver) \cup S0,
                 ImageWrites(s, new, now, k) \cup S)
           = KeptExtents(s, n, m, c) \cup ImageExtents(s, new, now) \cup S
<1> /\ Sized(s, n, m, c) /\ a \in Nat /\ k \in Nat /\ b = Longer(k, a)
    /\ id = ImageIds(s, n, m, c, a) /\ new = ImageIds(s, n, m, c, b)
    /\ now = Newer(ver, v, k, b)
    /\ S = SystemExtents(s, n, m, new, b, e) /\ SamePlaces(S0, S)
  BY DEF Installs
<1> s \in 1 .. 5 /\ n \in Nat /\ m \in Nat /\ IsTable(c) /\ n >= 64 /\ m >= 64
  BY DEF Sized
<1> b \in Nat /\ b = IF k >= a THEN k ELSE a
  BY DEF Longer
<1> now = [j \in 0 .. b - 1 |-> IF j < k THEN v ELSE ver[j]]
  BY DEF Newer
<1> PICK W : /\ W = ImageWrites(s, new, now, k)
             /\ W = {ImageExtent(s, new, now, p) :
                       p \in {r \in DOMAIN new : IsIndex(r) \/ first_block(Width(s), r) < k}}
  BY DEF ImageWrites
<1>1. PICK w \in Widths : w = Width(s)
  BY Sizes, SMTT(60)
<1>2. DOMAIN id = paths(w, a) /\ DOMAIN new = paths(w, b)
  BY <1>1 DEF ImageIds
<1>3. ASSUME NEW p \in DOMAIN id PROVE p \in DOMAIN new /\ new[p] = id[p]
  <2>1. p \in paths(w, b)
    BY <1>2, <1>3, PathsBelow
  <2>2. QED
    BY <1>1, <1>2, <2>1 DEF ImageIds
<1>4. ASSUME NEW p \in DOMAIN new PROVE first_block(w, p) \in 0 .. b - 1
  BY <1>2, <1>4, PathsBelow
<1>5. ASSUME NEW p \in DOMAIN new, first_block(w, p) >= k PROVE p \in DOMAIN id
  <2>1. first_block(w, p) < a
    BY <1>4, <1>5
  <2>2. QED
    BY <1>2, <2>1, PathsBelow
<1> DEFINE Later == {p \in DOMAIN id : ~IsIndex(p) /\ first_block(w, p) >= k}
           Rest  == {ImageExtent(s, id, ver, p) : p \in Later}
<1>6. ASSUME NEW p \in Later PROVE ImageExtent(s, id, ver, p) = ImageExtent(s, new, now, p)
  <2>1. p \in DOMAIN new /\ new[p] = id[p]
    BY <1>3
  <2>2. PICK f \in 0 .. b - 1 : f = first_block(w, p)
    BY <1>4, <2>1
  <2>3. now[f] = ver[f]
    BY <2>2
  <2>4. ImageWhat(s, id, ver, p) = ImageWhat(s, new, now, p)
    BY <1>1, <2>2, <2>3 DEF ImageWhat
  <2>5. QED
    BY <2>1, <2>4 DEF ImageExtent
<1>7. ImageExtents(s, new, now) = Rest \cup W
  <2>1. ASSUME NEW p \in DOMAIN new, ~(IsIndex(p) \/ first_block(w, p) < k) PROVE p \in Later
    <3>1. first_block(w, p) >= k
      BY <1>4, <2>1
    <3>2. QED
      BY <1>5, <2>1, <3>1
  <2>2. ASSUME NEW p \in Later PROVE p \in DOMAIN new
    BY <1>3
  <2> HIDE DEF Later
  <2>3. Rest = {ImageExtent(s, new, now, p) : p \in Later}
    BY <1>6
  <2>4. QED
    BY <1>1, <2>1, <2>2, <2>3 DEF ImageExtents
<1>8. ASSUME NEW x \in W \cup S
      PROVE  /\ \A q \in KeptExtents(s, n, m, c) \cup Rest : Apart(q, x)
             /\ x.at \in Nat /\ x.len \in Nat \ {0}
  <2>1. CASE x \in S
    <3>1. /\ \A q \in KeptExtents(s, n, m, c) : Apart(q, x)
          /\ x.at \in Nat /\ x.len \in Nat \ {0}
      BY <2>1, KeptApart
    <3>2. ASSUME NEW p \in Later PROVE Apart(ImageExtent(s, id, ver, p), x)
      <4>1. p \in DOMAIN id
        OBVIOUS
      <4>2. \A r \in SystemExtents(s, n, m, new, b, e) : Apart(ImageExtent(s, id, ver, p), r)
        BY <4>1, ImageOutside
      <4>3. QED
        BY <2>1, <4>2
    <3> HIDE DEF Later
    <3>3. QED
      BY <3>1, <3>2
  <2>2. CASE x \in W
    <3>1. PICK p \in DOMAIN new : x = ImageExtent(s, new, now, p) /\ p \notin Later
      <4>1. PICK p \in DOMAIN new : /\ x = ImageExtent(s, new, now, p)
                                    /\ IsIndex(p) \/ first_block(w, p) < k
        BY <1>1, <2>2
      <4>2. p \notin Later
        BY <1>4, <4>1
      <4>3. QED
        BY <4>1, <4>2
    <3>2. /\ \A q \in KeptExtents(s, n, m, c) : Apart(q, x)
          /\ x.at \in Nat /\ x.len \in Nat \ {0}
      BY <3>1, ImageOutside
    <3>3. ASSUME NEW r \in Later PROVE Apart(ImageExtent(s, id, ver, r), x)
      <4>1. r \in DOMAIN new /\ r # p
        BY <1>3, <3>1
      <4>2. Apart(ImageExtent(s, new, now, r), x)
        BY <3>1, <4>1, ImageApart DEF ImageExtent
      <4>3. QED
        BY <1>6, <4>2
    <3> HIDE DEF Later
    <3>4. QED
      BY <3>2, <3>3
  <2>3. QED
    BY <2>1, <2>2
<1>9. ASSUME NEW q \in ImageExtents(s, id, ver), q \notin Rest
      PROVE  \E x \in W : q.at = x.at /\ q.len = x.len
  <2>1. PICK p \in DOMAIN id : q = ImageExtent(s, id, ver, p)
    BY DEF ImageExtents
  <2>2. p \notin Later
    BY <1>9, <2>1
  <2>3. p \in DOMAIN new /\ new[p] = id[p]
    BY <1>3
  <2>4. IsIndex(p) \/ first_block(w, p) < k
    BY <1>4, <2>2, <2>3
  <2>5. ImageExtent(s, new, now, p) \in W
    BY <1>1, <2>3, <2>4
  <2>6. q.at = ImageExtent(s, new, now, p).at /\ q.len = ImageExtent(s, new, now, p).len
    BY <2>1, <2>3 DEF ImageExtent, Extent
  <2>7. QED
    BY <2>5, <2>6
<1>10. Rest \subseteq ImageExtents(s, id, ver)
  BY DEF ImageExtents
<1> HIDE DEF Rest, Later
<1>11. PICK K, Old : K = KeptExtents(s, n, m, c) /\ Old = ImageExtents(s, id, ver)
  OBVIOUS
<1>12. Written(K \cup Old \cup S0, W \cup S) = K \cup (Rest \cup W) \cup S
  <2>1. \A q \in K \cup Rest : \A x \in W \cup S : Apart(q, x)
    BY <1>8, <1>11
  <2>2. \A q \in Old \ Rest : \E x \in W : q.at = x.at /\ q.len = x.len
    BY <1>9, <1>11
  <2>3. \A x \in W \cup S : x.at \in Nat /\ x.len \in Nat \ {0}
    BY <1>8
  <2>4. \A q \in S0 : \E x \in S : q.at = x.at /\ q.len = x.len
    BY DEF SamePlaces
  <2>5. Rest \subseteq Old
    BY <1>10, <1>11
  <2>6. Replaces(K, Old, Rest, S0, W, S)
    BY <2>1, <2>2, <2>3, <2>4, <2>5 DEF Replaces
  <2>7. QED
    BY <2>6, Rewritten
<1>13. QED
  BY <1>7, <1>11, <1>12
-----------------------------------------------------------------------------
\* Reading the volume.

\* An extent is not apart from one at its own place.
LEMMA NotApart ==
  ASSUME NEW e, NEW x, e.at = x.at, e.len = x.len, x.at \in Nat, x.len \in Nat \ {0}
  PROVE  ~Apart(e, x)
BY DEF Apart

\* There is one of the system extents at each place.
LEMMA SystemOne ==
  ASSUME NEW s \in 1 .. 5, NEW n \in Nat, NEW m \in Nat, NEW c, IsTable(c), n >= 64, m >= 64,
         NEW i, NEW j, NEW e, NEW q \in SystemExtents(s, n, m, i, j, e),
         NEW r \in SystemExtents(s, n, m, i, j, e), q.at = r.at
  PROVE  q = r
<1>1. PICK F, M, E, x, y \in Nat : Zones(s, n, m, c, F, M, E, x, y)
  BY ZonesAt
<1>2. /\ F >= 2048 /\ F + 64 * m <= M /\ x > 0
      /\ F = inode_first_block(s) * BS(s) /\ M = BS(s) * MapsAt(s, m)
      /\ x = Bytes(n) /\ y = Bytes(m)
  BY <1>1 DEF Zones
<1>3. 3 * INODE + F = F + 192 /\ INODE = 64 /\ KB = 1024 /\ SUPER = 120
  BY DEF INODE, KB, SUPER
<1>4. PICK e1, e2, e3, e4 :
        /\ e1 = Extent(F + 192, 64, inode_content(j * BS(s), i))
        /\ e2 = Extent(M, x, [kind |-> "bitmap", free |-> e .. 8 * Bytes(n) - 1])
        /\ e3 = Extent(M + x, y, [kind |-> "bitmap", free |-> 4 .. 8 * Bytes(m) - 1])
        /\ e4 = Extent(1024, 120, SuperWhat(s, n, m, e))
  OBVIOUS
<1>5. SystemExtents(s, n, m, i, j, e) = {e1, e2, e3, e4}
  <2>1. SystemExtents(s, n, m, i, j, e) =
          {Extent(F + 192, 64, inode_content(j * BS(s), i)),
           Extent(M, x, [kind |-> "bitmap", free |-> e .. 8 * Bytes(n) - 1]),
           Extent(M + x, y, [kind |-> "bitmap", free |-> 4 .. 8 * Bytes(m) - 1]),
           Extent(1024, 120, SuperWhat(s, n, m, e))}
    BY <1>2, <1>3 DEF SystemExtents
  <2>2. QED
    BY <1>4, <2>1
<1>6. e1.at = F + 192 /\ e2.at = M /\ e3.at = M + x /\ e4.at = 1024
  BY <1>4 DEF Extent
<1>7. QED
  BY <1>2, <1>5, <1>6

\* What is read of a volume at the place of one of its extents is that extent.
LEMMA VolumeReads ==
  ASSUME NEW s \in 1 .. 5, NEW n \in Nat, NEW m \in Nat, NEW c, IsTable(c), n >= 64, m >= 64,
         NEW k \in Nat, NEW id, id = ImageIds(s, n, m, c, k), NEW ver,
         NEW d, d = VolumeAt(s, n, m, c, k, id, ver)
  PROVE  /\ \A q \in SystemExtents(s, n, m, id, k, ImageEnd(s, n, m, c, k)) :
              ContentOf(d, q.at, q.len) = q.what
         /\ \A p \in DOMAIN id : ContentOf(d, id[p] * BS(s), BS(s)) = ImageWhat(s, id, ver, p)
<1>1. PICK e : e = ImageEnd(s, n, m, c, k)
  OBVIOUS
<1>2. PICK K, S : K = KeptExtents(s, n, m, c) /\ S = SystemExtents(s, n, m, id, k, e)
  OBVIOUS
<1>3. d = K \cup ImageExtents(s, id, ver) \cup S
  BY <1>1, <1>2 DEF VolumeAt
<1>4. ASSUME NEW q \in S PROVE ContentOf(d, q.at, q.len) = q.what
  <2>1. q.at \in Nat /\ q.len \in Nat \ {0} /\ \A x \in K : Apart(x, q)
    BY <1>2, KeptApart
  <2>2. ASSUME NEW x \in d, x.at = q.at, x.len = q.len PROVE x = q
    <3>1. ~Apart(x, q)
      BY <2>1, <2>2, NotApart
    <3>2. x \notin K
      BY <2>1, <3>1
    <3>3. ASSUME x \in ImageExtents(s, id, ver) PROVE FALSE
      <4>1. PICK p \in DOMAIN id : x = ImageExtent(s, id, ver, p)
        BY <3>3 DEF ImageExtents
      <4>2. Apart(ImageExtent(s, id, ver, p), q)
        BY <1>2, ImageOutside
      <4>3. QED
        BY <3>1, <4>1, <4>2
    <3>4. x \in S
      BY <1>3, <3>2, <3>3
    <3>5. QED
      BY <1>2, <2>2, <3>4, SystemOne
  <2>3. q \in d
    BY <1>3
  <2>4. QED
    BY <2>2, <2>3, ContentAt
<1>5. ASSUME NEW p \in DOMAIN id PROVE ContentOf(d, id[p] * BS(s), BS(s)) = ImageWhat(s, id, ver, p)
  <2>1. PICK q : q = ImageExtent(s, id, ver, p)
    OBVIOUS
  <2>2. /\ \A x \in K : Apart(x, q)
        /\ \A r \in S : Apart(q, r)
        /\ q.at \in Nat /\ q.len \in Nat \ {0} /\ q.at = id[p] * BS(s) /\ q.len = BS(s)
    BY <1>2, <2>1, ImageOutside
  <2>3. ASSUME NEW x \in d, x.at = q.at, x.len = q.len PROVE x = q
    <3>1. ~Apart(x, q) /\ ~Apart(q, x)
      BY <2>2, <2>3 DEF Apart
    <3>2. x \notin K /\ x \notin S
      BY <2>2, <3>1
    <3>3. PICK r \in DOMAIN id : x = ImageExtent(s, id, ver, r)
      BY <1>3, <3>2 DEF ImageExtents
    <3>4. r # p => Apart(x, q)
      BY <2>1, <3>3, ImageApart DEF ImageExtent
    <3>5. QED
      BY <2>1, <3>1, <3>3, <3>4
  <2>4. q \in d
    BY <1>3, <2>1 DEF ImageExtents
  <2>5. ContentOf(d, q.at, q.len) = q.what
    BY <2>3, <2>4, ContentAt
  <2>6. q.what = ImageWhat(s, id, ver, p)
    BY <2>1 DEF ImageExtent, Extent
  <2>7. QED
    BY <2>2, <2>5, <2>6
<1>6. QED
  BY <1>1, <1>2, <1>4, <1>5

\* A volume d with an image of k blocks.
Holds(s, n, m, c, k, id, ver, d) ==
    /\ Sized(s, n, m, c) /\ k \in Nat
    /\ id = ImageIds(s, n, m, c, k) /\ d = VolumeAt(s, n, m, c, k, id, ver)

\* What stage 1 and the library read first.
ReadsFirst(s, n, m, c, k, id, d) ==
    /\ ContentOf(d, KB, SUPER) = SuperWhat(s, n, m, ImageEnd(s, n, m, c, k))
    /\ ContentOf(d, BS(s) * MapsAt(s, m), Bytes(n))
         = [kind |-> "bitmap", free |-> ImageEnd(s, n, m, c, k) .. 8 * Bytes(n) - 1]
    /\ ContentOf(d, inode_first_block(s) * BS(s) + 192, INODE) = inode_content(k * BS(s), id)

\* What is read of a volume with an image.
LEMMA VolumeContents ==
  ASSUME NEW s, NEW n, NEW m, NEW c, NEW k, NEW id, NEW ver, NEW d,
         Holds(s, n, m, c, k, id, ver, d)
  PROVE  ReadsFirst(s, n, m, c, k, id, d)
<1> PICK e, F : e = ImageEnd(s, n, m, c, k) /\ F = inode_first_block(s) * BS(s)
  OBVIOUS
<1>1. PICK G, M, E, x, y \in Nat : Zones(s, n, m, c, G, M, E, x, y)
  BY ZonesAt DEF Holds, Sized
<1>2. G = F /\ M = BS(s) * MapsAt(s, m) /\ x = Bytes(n)
  BY <1>1 DEF Zones
<1>3. PICK S : S = SystemExtents(s, n, m, id, k, e)
  OBVIOUS
<1>4. \A q \in S : ContentOf(d, q.at, q.len) = q.what
  BY <1>3, VolumeReads DEF Holds, Sized
<1>5. /\ Extent(G + 192, 64, inode_content(k * BS(s), id)) \in S
      /\ Extent(M, x, [kind |-> "bitmap", free |-> e .. 8 * x - 1]) \in S
      /\ Extent(1024, 120, SuperWhat(s, n, m, e)) \in S
  <2>1. 3 * INODE + G = G + 192 /\ INODE = 64 /\ KB = 1024 /\ SUPER = 120
    BY DEF INODE, KB, SUPER
  <2>2. QED
    BY <1>2, <1>3, <2>1 DEF SystemExtents
<1>6. /\ ContentOf(d, G + 192, 64) = inode_content(k * BS(s), id)
      /\ ContentOf(d, M, x) = [kind |-> "bitmap", free |-> e .. 8 * x - 1]
      /\ ContentOf(d, 1024, 120) = SuperWhat(s, n, m, e)
  <2>1. \A a, l, u : Extent(a, l, u).at = a /\ Extent(a, l, u).len = l /\ Extent(a, l, u).what = u
    BY DEF Extent
  <2> HIDE DEF Extent
  <2>2. QED
    BY <1>4, <1>5, <2>1
<1>7. QED
  BY <1>2, <1>6 DEF KB, SUPER, INODE, ReadsFirst

\* And a block of the image.
LEMMA ReadsBlock ==
  ASSUME NEW s, NEW n, NEW m, NEW c, NEW k, NEW id, NEW ver, NEW d,
         Holds(s, n, m, c, k, id, ver, d), NEW p \in DOMAIN id
  PROVE  ContentOf(d, id[p] * BS(s), BS(s)) = ImageWhat(s, id, ver, p)
BY VolumeReads DEF Holds, Sized

\* The superblock of an installed image.
LEMMA SuperWhatIs ==
  ASSUME NEW s, NEW n, NEW m, NEW e, NEW z, z = SuperWhat(s, n, m, e)
  PROVE  /\ z.free_block_count = n - e /\ z.free_inode_count = m - 4
         /\ z.sb.boot_loader_inode = 3 /\ z.sb.block_count = n /\ z.sb.inode_count = m
         /\ z.sb.inode_first_block = inode_first_block(s)
<1>1. PICK r : r = SuperAt("done", s, n, m)
  OBVIOUS
<1>2. /\ r.block_count = n /\ r.inode_count = m /\ r.inode_first_block = inode_first_block(s)
      /\ DOMAIN r = {"block_size", "block_count", "inode_first_block", "inode_count",
                     "boot_loader_inode", "bitmaps_block", "bad_block_inode", "journal_inode"}
  BY <1>1 DEF SuperAt
<1>3. PICK t : t = [r EXCEPT !.boot_loader_inode = 3]
  OBVIOUS
<1>4. /\ t.boot_loader_inode = 3 /\ t.block_count = n /\ t.inode_count = m
      /\ t.inode_first_block = inode_first_block(s)
  BY <1>2, <1>3
<1>5. z = [kind |-> "super", free_block_count |-> n - e, free_inode_count |-> m - 4, sb |-> t]
  BY <1>1, <1>3 DEF SuperWhat
<1>6. QED
  BY <1>4, <1>5

\* The writes of an installation.
LEMMA InstallWrites ==
  ASSUME NEW s, NEW n, NEW m, NEW c, Sized(s, n, m, c), NEW t,
         sb = SuperAt("done", s, n, m), bb = Bitmap(n, t), ib = Bitmap(m, 3),
         NEW e \in Nat, NEW k \in Nat, NEW b \in Nat, NEW v, NEW id, id = ImageIds(s, n, m, c, b),
         NEW ver, NEW now, now = Newer(ver, v, k, b)
  PROVE  install_writes(id, k, v, b * BLOCK_SIZE, SuperWhat(s, n, m, e))
           = ImageWrites(s, id, now, k) \cup SystemExtents(s, n, m, id, b, e)
<1> s \in 1 .. 5 /\ n \in Nat /\ m \in Nat
  BY DEF Sized
<1> \A p \in DOMAIN id : first_block(Width(s), p) < k => now[first_block(Width(s), p)] = v
  <2>1. SUFFICES ASSUME NEW p \in DOMAIN id, first_block(Width(s), p) < k
                 PROVE  now[first_block(Width(s), p)] = v
    OBVIOUS
  <2>2. Width(s) \in Widths
    BY Sizes
  <2>3. p \in paths(Width(s), b)
    BY DEF ImageIds
  <2>4. first_block(Width(s), p) \in 0 .. b - 1
    BY <2>2, <2>3, PathsBelow
  <2>5. QED
    BY <2>1, <2>4 DEF Newer
<1>1. BLOCK_SIZE = BS(s) /\ Entries = Width(s) /\ inode_at(3) = 3 * INODE + inode_first_block(s) * BS(s)
  BY ModelSizes
<1>2. PICK z : z = SuperWhat(s, n, m, e)
  OBVIOUS
<1>3. /\ z.free_block_count = n - e /\ z.free_inode_count = m - 4
      /\ z.sb.boot_loader_inode = 3 /\ z.sb.block_count = n /\ z.sb.inode_count = m
  <2>1. \A e0, z0 : z0 = SuperWhat(s, n, m, e0) =>
          /\ z0.free_block_count = n - e0 /\ z0.free_inode_count = m - 4
          /\ z0.sb.boot_loader_inode = 3 /\ z0.sb.block_count = n /\ z0.sb.inode_count = m
    BY SuperWhatIs
  <2>2. QED
    BY <1>2, <2>1
<1>4. n - (n - e) = e /\ m - (m - 4) = 4
  OBVIOUS
<1>5. sb.bitmaps_block = MapsAt(s, m)
  BY DEF SuperAt
<1>6. /\ bb.bytes = Bytes(n) /\ bb.limit = 8 * Bytes(n)
      /\ ib.bytes = Bytes(m) /\ ib.limit = 8 * Bytes(m)
  BY DEF Bitmap
<1>7. MapsAt(s, m) * BS(s) = BS(s) * MapsAt(s, m)
  <2>1. BS(s) \in Nat
    BY SizesNat
  <2>2. MapsAt(s, m) \in Nat
    BY RegionsNat
  <2>3. QED
    BY <2>1, <2>2
<1>8. ASSUME NEW p \in DOMAIN id, IsIndex(p) \/ first_block(Width(s), p) < k
      PROVE  Extent(id[p] * BS(s), BS(s), image_content(id, p, v)) = ImageExtent(s, id, now, p)
  <2>1. image_content(id, p, v) = ImageWhat(s, id, now, p)
    <3>1. CASE IsIndex(p)
      BY <1>1, <3>1 DEF image_content, ImageWhat, block_content
    <3>2. CASE ~IsIndex(p)
      <4>1. now[first_block(Width(s), p)] = v
        BY <1>8, <3>2
      <4>2. QED
        BY <1>1, <3>2, <4>1 DEF image_content, ImageWhat, block_content
    <3>3. QED
      BY <3>1, <3>2
  <2>2. QED
    BY <2>1 DEF ImageExtent
<1>9. PICK S : S = {r \in DOMAIN id : IsIndex(r) \/ first_block(Width(s), r) < k}
  OBVIOUS
<1>10. {Extent(id[p] * BS(s), BS(s), image_content(id, p, v)) : p \in S}
         = {ImageExtent(s, id, now, p) : p \in S}
  BY <1>8, <1>9
<1>11. install_writes(id, k, v, b * BS(s), z) =
         {Extent(id[p] * BS(s), BS(s), image_content(id, p, v)) : p \in S}
         \cup {Extent(3 * INODE + inode_first_block(s) * BS(s), INODE, inode_content(b * BS(s), id)),
               Extent(BS(s) * MapsAt(s, m), Bytes(n),
                      [kind |-> "bitmap", free |-> e .. 8 * Bytes(n) - 1]),
               Extent(BS(s) * MapsAt(s, m) + Bytes(n), Bytes(m),
                      [kind |-> "bitmap", free |-> 4 .. 8 * Bytes(m) - 1]),
               Extent(KB, SUPER, z)}
  BY <1>1, <1>3, <1>4, <1>5, <1>6, <1>7, <1>9 DEF install_writes
<1>12. QED
  BY <1>1, <1>2, <1>9, <1>10, <1>11 DEF SystemExtents, ImageWrites
-----------------------------------------------------------------------------
\* A run of udb-instboot.

\* The state once mkudbfs is done.
Based(s, n, m, c) ==
    /\ Sized(s, n, m, c)
    /\ s = 2 => n < 4000
    /\ RootEnd(s, n, m, c) <= n
    /\ sb = SuperAt("done", s, n, m) /\ bb = Bitmap(n, RootEnd(s, n, m, c))
    /\ ib = Bitmap(m, 3) /\ cols = c /\ disk = DiskAt("done", s, n, m, c)

\* The invariant says so when mkudbfs is done.
LEMMA BasedAt ==
  ASSUME FInv, pc = "done"
  PROVE  \E s, n, m, c : Based(s, n, m, c)
<1>1. "done" \in Filed
  BY DEF Filed
<1>2. PICK s, n, m, c :
           /\ c = cols /\ Layed(size, s, n, m) /\ BlocksTaken("done", s, n, m, c) \in 0 .. n
           /\ s \in 1 .. 5 /\ n \in Nat /\ m \in Nat /\ n >= 64 /\ m >= 64
           /\ BlocksTaken("done", s, n, m, c) = RootEnd(s, n, m, c)
           /\ sb = SuperAt("done", s, n, m) /\ bb = Bitmap(n, RootEnd(s, n, m, c))
           /\ ib = Bitmap(m, InodesTaken("done")) /\ disk = DiskAt("done", s, n, m, c)
           /\ IsTable(c)
  BY <1>1, InFiledStep
<1>3. InodesTaken("done") = 3
  BY DEF InodesTaken
<1>4. s = 2 => n < 4000
  BY <1>2 DEF Layed
<1>5. RootEnd(s, n, m, c) <= n
  BY <1>2
<1>6. QED
  BY <1>2, <1>3, <1>4, <1>5 DEF Based, Sized

\* The superblock an installation finds: of a volume with e blocks taken, a of them
\* the file's.
FoundSuper(s, n, m, a, e, z) ==
    \/ z = SuperWhat(s, n, m, e) /\ a # 0
    \/ a = 0 /\ z = [kind |-> "super", free_block_count |-> n - e, free_inode_count |-> m - 3,
                     sb |-> SuperAt("done", s, n, m)]

\* What an installation finds: the tree of a blocks, and a volume with them.
Found(s, n, m, c, a, ver, z, d) ==
    /\ tree = ImageIds(s, n, m, c, a)
    /\ FoundSuper(s, n, m, a, ImageEnd(s, n, m, c, a), z)
    /\ \E S0 : /\ d = KeptExtents(s, n, m, c) \cup ImageExtents(s, tree, ver) \cup S0
               /\ \A i, j, e : SamePlaces(S0, SystemExtents(s, n, m, i, j, e))

\* A volume that mkudbfs has just formatted is one without an image.
LEMMA FreshFound ==
  ASSUME NEW s, NEW n, NEW m, NEW c, Based(s, n, m, c), VInv, vol = {}
  PROVE  /\ made.blocks = 0 /\ made.version = 0
         /\ \A ver : Found(s, n, m, c, 0, ver, volume_super, volume)
<1>1. tree = <<>> /\ made = [version |-> 0, last |-> 0, blocks |-> 0]
  BY DEF VInv
<1>2. tree = ImageIds(s, n, m, c, 0)
  BY <1>1, NoImage
<1>3. index_blocks(Width(s), 0) = 0
  <2>1. Width(s) \in Nat
    BY SizesNat DEF Based, Sized
  <2>2. PICK w \in Nat : w = Width(s)
    BY <2>1
  <2>3. w * w \in Nat
    BY <2>2
  <2>4. PICK y \in Nat : y = w * w
    BY <2>3
  <2>5. QED
    BY <2>2, <2>4 DEF index_blocks
<1>4. RootEnd(s, n, m, c) \in Nat
  <2>1. s \in 1 .. 5 /\ n \in Nat /\ m \in Nat /\ IsTable(c)
    BY DEF Based, Sized
  <2>2. \A k \in Nat : RootEnd(s, n, m, c) \in Nat
    BY <2>1, ImageBlocks
  <2>3. QED
    BY <2>2
<1>5. ImageEnd(s, n, m, c, 0) = RootEnd(s, n, m, c)
  BY <1>3, <1>4 DEF ImageEnd
<1>6. volume = disk /\ disk = DiskAt("done", s, n, m, c)
  BY DEF volume, Based
<1>7. volume_super = SuperExtent(s, n, m, c).what
  <2>1. s \in 1 .. 5 /\ n \in Nat /\ m \in Nat /\ IsTable(c) /\ n >= 64 /\ m >= 64
    BY DEF Based, Sized
  <2>2. DoneReads(s, n, m, c, disk)
    BY <1>6, <2>1, DoneContents
  <2>3. QED
    BY <1>6, <2>2 DEF DoneReads, volume_super
<1>8. volume_super = [kind |-> "super", free_block_count |-> n - ImageEnd(s, n, m, c, 0),
                      free_inode_count |-> m - 3, sb |-> SuperAt("done", s, n, m)]
  BY <1>5, <1>7 DEF SuperExtent, Extent
<1>9. PICK S0 : S0 = {SuperExtent(s, n, m, c), BlockMap(s, n, m, c), InodeMap(s, n, m)}
  OBVIOUS
<1>10. disk = KeptExtents(s, n, m, c) \cup S0
  BY <1>6, <1>9 DEF DiskAt, KeptExtents, Filed
<1>11. ASSUME NEW ver PROVE ImageExtents(s, tree, ver) = {}
  <2>1. DOMAIN tree = {}
    BY <1>1
  <2>2. QED
    BY <2>1 DEF ImageExtents
<1>12. ASSUME NEW i, NEW j, NEW e PROVE SamePlaces(S0, SystemExtents(s, n, m, i, j, e))
  BY <1>9 DEF SamePlaces, SystemExtents, SuperExtent, BlockMap, InodeMap, Extent
<1>13. ASSUME NEW ver
       PROVE  volume = KeptExtents(s, n, m, c) \cup ImageExtents(s, tree, ver) \cup S0
  BY <1>6, <1>10, <1>11
<1>14. QED
  BY <1>1, <1>2, <1>8, <1>12, <1>13 DEF Found, FoundSuper

\* The same, with an image on the volume.
LEMMA InstalledFound ==
  ASSUME NEW s, NEW n, NEW m, NEW c, Based(s, n, m, c), VInv, vol # {}
  PROVE  /\ made.blocks \in Nat \ {0} /\ made.version \in Nat
         /\ \E ver \in [0 .. made.blocks - 1 -> Nat] :
              /\ Running(s, n, m, c, vol, tree, ver, made.blocks, made.last, made.version, cpu)
              /\ Found(s, n, m, c, made.blocks, ver, volume_super, volume)
<1>1. s = sb.block_size /\ n = sb.block_count /\ m = sb.inode_count /\ c = cols
  BY DEF Based, SuperAt
<1>2. PICK a, ver : /\ a = made.blocks /\ ver \in [0 .. a - 1 -> Nat]
                    /\ Running(s, n, m, c, vol, tree, ver, a, made.last, made.version, cpu)
  BY <1>1 DEF VInv
<1>3. /\ a \in Nat \ {0} /\ made.version \in Nat /\ tree = ImageIds(s, n, m, c, a)
      /\ vol = VolumeAt(s, n, m, c, a, tree, ver)
  BY <1>2 DEF Running, InstalledAt
<1>4. volume = vol
  BY DEF volume
<1>5. volume_super = SuperWhat(s, n, m, ImageEnd(s, n, m, c, a))
  <2>1. s \in 1 .. 5 /\ n \in Nat /\ m \in Nat /\ IsTable(c) /\ n >= 64 /\ m >= 64 /\ a \in Nat
    BY <1>3 DEF Based, Sized
  <2>2. Holds(s, n, m, c, a, tree, ver, vol)
    BY <1>3, <2>1 DEF Holds, Sized
  <2>3. ContentOf(vol, KB, SUPER) = SuperWhat(s, n, m, ImageEnd(s, n, m, c, a))
    <3>1. ReadsFirst(s, n, m, c, a, tree, vol)
      BY <2>2, VolumeContents
    <3>2. QED
      BY <3>1 DEF ReadsFirst
  <2>4. QED
    BY <1>4, <2>3 DEF volume_super
<1>6. PICK S0 : S0 = SystemExtents(s, n, m, tree, a, ImageEnd(s, n, m, c, a))
  OBVIOUS
<1>7. volume = KeptExtents(s, n, m, c) \cup ImageExtents(s, tree, ver) \cup S0
  BY <1>3, <1>4, <1>6 DEF VolumeAt
<1>8. ASSUME NEW i, NEW j, NEW e PROVE SamePlaces(S0, SystemExtents(s, n, m, i, j, e))
  BY <1>6 DEF SamePlaces, SystemExtents, Extent
<1>9. Found(s, n, m, c, a, ver, volume_super, volume)
  <2>1. \E S1 : /\ volume = KeptExtents(s, n, m, c) \cup ImageExtents(s, tree, ver) \cup S1
                /\ \A i, j, e : SamePlaces(S1, SystemExtents(s, n, m, i, j, e))
    BY <1>7, <1>8
  <2>2. QED
    BY <1>3, <1>5, <2>1, Zenon DEF Found, FoundSuper
<1>10. QED
  BY <1>2, <1>3, <1>9

\* What udb-instboot saves of the superblock z.
Saved(z, a, g) == [z EXCEPT !.free_block_count = @ - g,
                            !.free_inode_count = IF a = 0 THEN @ - 1 ELSE @,
                            !.sb.boot_loader_inode = boot_loader_inode(z)]

\* How many blocks an installation adds to a file of a blocks.
Added(w, a, b) == b - a + index_blocks(w, b) - index_blocks(w, a)

\* The counts of the superblock an installation finds.
LEMMA FoundCounts ==
  ASSUME NEW s, NEW n, NEW m, NEW a, NEW e, NEW z, FoundSuper(s, n, m, a, e, z)
  PROVE  z.free_block_count = n - e /\ z.sb.block_count = n
<1>1. PICK r : r = SuperAt("done", s, n, m)
  OBVIOUS
<1>2. r.block_count = n /\ "block_count" \in DOMAIN r
  BY <1>1 DEF SuperAt
<1>3. CASE a = 0
  BY <1>1, <1>2, <1>3 DEF FoundSuper
<1>4. CASE a # 0
  BY <1>1, <1>2, <1>4 DEF FoundSuper, SuperWhat
<1>5. QED
  BY <1>3, <1>4

\* The superblock it saves.
LEMMA SavedSuper ==
  ASSUME NEW s, NEW n \in Nat, NEW m \in Nat, NEW a, NEW e \in Nat, NEW g \in Int, NEW z,
         FoundSuper(s, n, m, a, e, z)
  PROVE  Saved(z, a, g) = SuperWhat(s, n, m, e + g)
<1> \/ z = SuperWhat(s, n, m, e) /\ a # 0
    \/ a = 0 /\ z = [kind |-> "super", free_block_count |-> n - e,
                     free_inode_count |-> m - 3, sb |-> SuperAt("done", s, n, m)]
  BY DEF FoundSuper
<1>1. PICK r : r = SuperAt("done", s, n, m)
  OBVIOUS
<1>2. r.block_count = n /\ r.inode_count = m /\ r.boot_loader_inode = 0
  BY <1>1 DEF SuperAt
<1>3. PICK f, y, u : f = n - e /\ y = (IF a = 0 THEN m - 3 ELSE m - 4)
                     /\ u = IF a = 0 THEN r ELSE [r EXCEPT !.boot_loader_inode = 3]
  OBVIOUS
<1>4. z = [kind |-> "super", free_block_count |-> f, free_inode_count |-> y, sb |-> u]
  BY <1>1, <1>3 DEF SuperWhat
<1>5. DOMAIN r = {"block_size", "block_count", "inode_first_block", "inode_count",
                  "boot_loader_inode", "bitmaps_block", "bad_block_inode", "journal_inode"}
  BY <1>1 DEF SuperAt
<1>6. u.block_count = n /\ u.inode_count = m /\ u.boot_loader_inode = IF a = 0 THEN 0 ELSE 3
  BY <1>2, <1>3, <1>5
<1>7. z.free_block_count = f /\ z.free_inode_count = y /\ z.sb = u
  BY <1>4
<1>8. boot_loader_inode(z) = 3
  <2>1. CASE a = 0
    <3>1. boot_loader_inode(z) = u.inode_count - y
      BY <1>6, <1>7, <2>1 DEF boot_loader_inode
    <3>2. y = m - 3
      BY <1>3, <2>1
    <3>3. QED
      BY <1>6, <3>1, <3>2
  <2>2. CASE a # 0
    BY <1>6, <1>7, <2>2 DEF boot_loader_inode
  <2>3. QED
    BY <2>1, <2>2
<1>9. [u EXCEPT !.boot_loader_inode = 3] = [r EXCEPT !.boot_loader_inode = 3]
  <2>1. CASE a = 0
    BY <1>3, <2>1
  <2>2. CASE a # 0
    <3>1. PICK t : t = [r EXCEPT !.boot_loader_inode = 3]
      OBVIOUS
    <3>2. u = t
      BY <1>3, <2>2, <3>1
    <3>3. [t EXCEPT !.boot_loader_inode = 3] = t
      BY <1>5, <3>1
    <3>4. QED
      BY <3>1, <3>2, <3>3
  <2>3. QED
    BY <2>1, <2>2
<1>10. (IF a = 0 THEN y - 1 ELSE y) = m - 4 /\ f - g = n - (e + g)
  BY <1>3
<1>11. [z EXCEPT !.free_block_count = @ - g,
                 !.free_inode_count = IF a = 0 THEN @ - 1 ELSE @,
                 !.sb.boot_loader_inode = 3]
         = [kind |-> "super", free_block_count |-> f - g,
            free_inode_count |-> IF a = 0 THEN y - 1 ELSE y,
            sb |-> [u EXCEPT !.boot_loader_inode = 3]]
  <2>1. PICK v : v = [z EXCEPT !.free_block_count = @ - g]
    OBVIOUS
  <2>2. PICK q : q = [v EXCEPT !.free_inode_count = IF a = 0 THEN @ - 1 ELSE @]
    OBVIOUS
  <2>3. v = [kind |-> "super", free_block_count |-> f - g, free_inode_count |-> y, sb |-> u]
    BY <1>4, <2>1
  <2>4. q = [kind |-> "super", free_block_count |-> f - g,
             free_inode_count |-> IF a = 0 THEN y - 1 ELSE y, sb |-> u]
    <3>1. PICK i : i = IF a = 0 THEN y - 1 ELSE y
      OBVIOUS
    <3>2. q = [v EXCEPT !.free_inode_count = i]
      BY <2>2, <2>3, <3>1
    <3>3. q = [kind |-> "super", free_block_count |-> f - g, free_inode_count |-> i, sb |-> u]
      BY <2>3, <3>2
    <3>4. QED
      BY <3>1, <3>3
  <2>5. [q EXCEPT !.sb.boot_loader_inode = 3]
          = [kind |-> "super", free_block_count |-> f - g,
             free_inode_count |-> IF a = 0 THEN y - 1 ELSE y,
             sb |-> [u EXCEPT !.boot_loader_inode = 3]]
    <3>1. PICK i, h : i = (IF a = 0 THEN y - 1 ELSE y) /\ h = f - g
      OBVIOUS
    <3>2. q = [kind |-> "super", free_block_count |-> h, free_inode_count |-> i, sb |-> u]
      BY <2>4, <3>1
    <3>3. [q EXCEPT !.sb.boot_loader_inode = 3] =
            [kind |-> "super", free_block_count |-> h, free_inode_count |-> i,
               sb |-> [u EXCEPT !.boot_loader_inode = 3]]
      BY <3>2
    <3>4. QED
      BY <3>1, <3>3
  <2>6. [z EXCEPT !.free_block_count = @ - g,
                      !.free_inode_count = IF a = 0 THEN @ - 1 ELSE @,
                      !.sb.boot_loader_inode = 3] = [q EXCEPT !.sb.boot_loader_inode = 3]
    BY <1>4, <2>1, <2>2
  <2>7. QED
    BY <2>5, <2>6
<1>12. SuperWhat(s, n, m, e + g) = [kind |-> "super", free_block_count |-> n - (e + g),
                                   free_inode_count |-> m - 4,
                                   sb |-> [r EXCEPT !.boot_loader_inode = 3]]
  BY <1>1 DEF SuperWhat
<1>13. [z EXCEPT !.free_block_count = @ - g,
                 !.free_inode_count = IF a = 0 THEN @ - 1 ELSE @,
                 !.sb.boot_loader_inode = 3] = SuperWhat(s, n, m, e + g)
  <2>1. PICK i, j, t : /\ i = f - g /\ j = (IF a = 0 THEN y - 1 ELSE y)
                       /\ t = [u EXCEPT !.boot_loader_inode = 3]
    OBVIOUS
  <2>2. i = n - (e + g) /\ j = m - 4 /\ t = [r EXCEPT !.boot_loader_inode = 3]
    BY <1>9, <1>10, <2>1
  <2>3. QED
    BY <1>11, <1>12, <2>1, <2>2
<1>14. QED
  BY <1>8, <1>13 DEF Saved

\* What a run of udb-instboot does.
Ran(k, a, z, b) ==
    /\ pc = "done" /\ cpu = Off
    /\ BLOCK_SIZE = 512 \/ "other_blocks" \in Allow
    /\ Added(Entries, a, b) <= z.free_block_count
    /\ made' = [version |-> made.version + 1, last |-> k, blocks |-> b]
    /\ tree' = extended(tree, a, z.sb.block_count - z.free_block_count, k)
    /\ vol' = Written(volume, install_writes(tree', k, made.version + 1, b * BLOCK_SIZE,
                                             Saved(z, a, Added(Entries, a, b))))
    /\ UNCHANGED <<dev, pc, size, delta, sb, bb, ib, todo, cols, disk, cpu>>

\* The action does that.
LEMMA InstallDoes ==
  ASSUME NEW k, instboot(k), NEW a, a = made.blocks, NEW z, z = volume_super, NEW b, b = Max({k, a})
  PROVE  Ran(k, a, z, b)
<1>1. /\ pc = "done" /\ cpu = Off
      /\ BLOCK_SIZE = 512 \/ "other_blocks" \in Allow
      /\ UNCHANGED <<dev, pc, size, delta, sb, bb, ib, todo, cols, disk, cpu>>
  BY DEF instboot
<1>2. Added(Entries, a, b) <= z.free_block_count
  BY DEF instboot, Added
<1>3. made' = [version |-> made.version + 1, last |-> k, blocks |-> b]
  BY DEF instboot
<1>4. tree' = extended(tree, a, z.sb.block_count - z.free_block_count, k)
  BY DEF instboot
<1>5. vol' = Written(volume, install_writes(tree', k, made.version + 1, b * BLOCK_SIZE,
                                            Saved(z, a, Added(Entries, a, b))))
  BY DEF instboot, Saved, Added
<1>6. QED
  BY <1>1, <1>2, <1>3, <1>4, <1>5 DEF Ran

\* Blocks of one sector.
LEMMA SizeOfBlock ==
  ASSUME NEW s \in 1 .. 5
  PROVE  BS(s) = 512 <=> s = 2
<1>1. 2 ^ 8 = 256 /\ 2 ^ 9 = 512
      /\ 2 ^ 10 = 1024 /\ 2 ^ 11 = 2048 /\ 2 ^ 12 = 4096
  OBVIOUS
<1>2. CASE s = 1
  BY <1>1, <1>2 DEF BS
<1>3. CASE s = 2
  BY <1>1, <1>3 DEF BS
<1>4. CASE s = 3
  BY <1>1, <1>4 DEF BS
<1>5. CASE s = 4
  BY <1>1, <1>5 DEF BS
<1>6. CASE s = 5
  BY <1>1, <1>6 DEF BS
<1>7. QED
  BY <1>2, <1>3, <1>4, <1>5, <1>6

\* Where the volume ends before and after.
AddedTo(s, n, m, c, a, b) ==
    /\ ImageEnd(s, n, m, c, a) \in Nat /\ ImageEnd(s, n, m, c, b) \in Nat
    /\ Added(Width(s), a, b) \in Int
    /\ ImageEnd(s, n, m, c, a) + Added(Width(s), a, b) = ImageEnd(s, n, m, c, b)

\* The blocks that are added lie in between.
LEMMA AddedEnds ==
  ASSUME NEW s, NEW n, NEW m, NEW c, Sized(s, n, m, c), NEW a \in Nat, NEW b \in Nat
  PROVE  AddedTo(s, n, m, c, a, b)
<1>1. s \in 1 .. 5 /\ n \in Nat /\ m \in Nat /\ IsTable(c)
  BY DEF Sized
<1>2. PICK w \in Widths : w = Width(s)
  BY <1>1, Sizes
<1>3. PICK R \in Nat : R = RootEnd(s, n, m, c)
  BY <1>1, RootBlocks
<1>4. PICK x \in Nat, y \in Nat : x = index_blocks(w, a) /\ y = index_blocks(w, b)
  BY <1>2, IndexNat
<1>5. /\ ImageEnd(s, n, m, c, a) = R + a + x /\ ImageEnd(s, n, m, c, b) = R + b + y
      /\ Added(Width(s), a, b) = b - a + y - x
  BY <1>2, <1>3, <1>4 DEF ImageEnd, Added
<1>6. R + a + x \in Nat /\ R + b + y \in Nat /\ b - a + y - x \in Int
      /\ (R + a + x) + (b - a + y - x) = R + b + y
  OBVIOUS
<1>7. QED
  BY <1>5, <1>6 DEF AddedTo

\* The image after an installation.
LEMMA InstallKeeps ==
  ASSUME NEW s, NEW n, NEW m, NEW c, Based(s, n, m, c), NEW a \in Nat, a = made.blocks,
         NEW v0 \in Nat, v0 = made.version, NEW ver, ver \in [0 .. a - 1 -> Nat],
         Found(s, n, m, c, a, ver, volume_super, volume), NEW k \in Images, instboot(k)
  PROVE  /\ pc' = "done" /\ vol' # {} /\ UNCHANGED <<sb, cols>>
         /\ \E now \in [0 .. made'.blocks - 1 -> Nat] :
              Running(s, n, m, c, vol', tree', now, made'.blocks, made'.last, made'.version, cpu')
<1>1. k \in Nat /\ k # 0
  BY BootAssumption
<1>2. Sized(s, n, m, c) /\ sb = SuperAt("done", s, n, m)
  BY DEF Based
<1>3. s \in 1 .. 5 /\ n \in Nat /\ m \in Nat
  BY <1>2 DEF Sized
<1>4. PICK b \in Nat : b = Max({k, a}) /\ b = Longer(k, a) /\ b >= k /\ b >= a /\ (b = k \/ b = a)
  BY <1>1, MaxOf DEF Longer
<1>5. PICK z, d, v : z = volume_super /\ d = volume /\ v = v0 + 1
  OBVIOUS
<1>6. BLOCK_SIZE = BS(s) /\ Entries = Width(s)
  BY <1>2, <1>3, ModelSizes
<1>7. PICK e \in Nat, f \in Nat, g \in Int :
         /\ e = ImageEnd(s, n, m, c, a) /\ f = ImageEnd(s, n, m, c, b)
         /\ g = Added(Width(s), a, b) /\ e + g = f
  <2>1. /\ ImageEnd(s, n, m, c, a) \in Nat /\ ImageEnd(s, n, m, c, b) \in Nat
        /\ Added(Width(s), a, b) \in Int
        /\ ImageEnd(s, n, m, c, a) + Added(Width(s), a, b) = ImageEnd(s, n, m, c, b)
    <3>1. AddedTo(s, n, m, c, a, b)
      BY <1>2, AddedEnds
    <3>2. QED
      BY <3>1 DEF AddedTo
  <2>2. QED
    BY <2>1
<1>8. /\ pc = "done" /\ cpu = Off
      /\ BS(s) = 512 \/ "other_blocks" \in Allow
      /\ g <= z.free_block_count
      /\ made' = [version |-> v, last |-> k, blocks |-> b]
      /\ tree' = extended(tree, a, z.sb.block_count - z.free_block_count, k)
      /\ vol' = Written(d, install_writes(tree', k, v, b * BLOCK_SIZE, Saved(z, a, g)))
      /\ UNCHANGED <<dev, pc, size, delta, sb, bb, ib, todo, cols, disk, cpu>>
  <2>7. Ran(k, a, z, b)
    BY <1>4, <1>5, InstallDoes
  <2>1. /\ pc = "done" /\ cpu = Off
        /\ BLOCK_SIZE = 512 \/ "other_blocks" \in Allow
        /\ Added(Entries, a, b) <= z.free_block_count
        /\ made' = [version |-> made.version + 1, last |-> k, blocks |-> b]
    BY <2>7 DEF Ran
  <2>2. tree' = extended(tree, a, z.sb.block_count - z.free_block_count, k)
    BY <2>7 DEF Ran
  <2>3. vol' = Written(volume, install_writes(tree', k, made.version + 1, b * BLOCK_SIZE,
                                              Saved(z, a, Added(Entries, a, b))))
    BY <2>7 DEF Ran
  <2>4. UNCHANGED <<dev, pc, size, delta, sb, bb, ib, todo, cols, disk, cpu>>
    BY <2>7 DEF Ran
  <2>5. Added(Entries, a, b) = g /\ made.version + 1 = v
    BY <1>5, <1>6, <1>7
  <2>6. QED
    BY <1>5, <1>6, <2>1, <2>2, <2>3, <2>4, <2>5
<1>9. FoundSuper(s, n, m, a, e, z) /\ tree = ImageIds(s, n, m, c, a)
  BY <1>5, <1>7 DEF Found
<1>10. z.free_block_count = n - e /\ z.sb.block_count = n
  BY <1>3, <1>9, FoundCounts
<1>11. Saved(z, a, g) = SuperWhat(s, n, m, f)
  BY <1>3, <1>7, <1>9, SavedSuper
<1>12. n - (n - e) = e /\ f <= n
  BY <1>3, <1>7, <1>8, <1>10
<1>13. PICK id, new : id = ImageIds(s, n, m, c, a) /\ new = ImageIds(s, n, m, c, b)
  OBVIOUS
<1>14. extended(ImageIds(s, n, m, c, a), a, ImageEnd(s, n, m, c, a), k)
         = ImageIds(s, n, m, c, Longer(k, a))
  BY <1>1, <1>2, ExtendedIs
<1>15. tree' = new
  BY <1>4, <1>7, <1>8, <1>9, <1>10, <1>12, <1>13, <1>14
<1>16. PICK now, S : now = Newer(ver, v, k, b) /\ S = SystemExtents(s, n, m, new, b, f)
  OBVIOUS
<1>17. install_writes(new, k, v, b * BLOCK_SIZE, SuperWhat(s, n, m, f))
         = ImageWrites(s, new, now, k) \cup S
  <2>1. PICK t : bb = Bitmap(n, t) /\ ib = Bitmap(m, 3)
    BY DEF Based
  <2>2. QED
    BY <1>1, <1>2, <1>13, <1>16, <2>1, InstallWrites
<1>18. vol' = Written(d, ImageWrites(s, new, now, k) \cup S)
  BY <1>8, <1>11, <1>15, <1>17
<1>19. PICK S0 : /\ d = KeptExtents(s, n, m, c) \cup ImageExtents(s, id, ver) \cup S0
                 /\ SamePlaces(S0, S)
  BY <1>5, <1>9, <1>13, <1>16 DEF Found
<1>20. Written(d, ImageWrites(s, new, now, k) \cup S)
         = KeptExtents(s, n, m, c) \cup ImageExtents(s, new, now) \cup S
  <2>1. Written(KeptExtents(s, n, m, c) \cup ImageExtents(s, id, ver) \cup S0,
                ImageWrites(s, new, now, k) \cup S)
          = KeptExtents(s, n, m, c) \cup ImageExtents(s, new, now) \cup S
    <3>1. Installs(s, n, m, c, a, k, b, id, new, ver, v, now, f, S0, S)
      BY <1>1, <1>2, <1>4, <1>13, <1>16, <1>19 DEF Installs
    <3>2. QED
      BY <3>1, VolumeWritten
  <2>2. QED
    BY <1>19, <2>1
<1>21. vol' = VolumeAt(s, n, m, c, b, new, now)
  BY <1>7, <1>16, <1>18, <1>20 DEF VolumeAt
<1>22. vol' # {}
  <2>1. InodeN(s, 1) \in vol'
    BY <1>21 DEF VolumeAt, KeptExtents
  <2>2. QED
    BY <2>1
<1>23. s = 2 \/ "other_blocks" \in Allow
  BY <1>3, <1>8, SizeOfBlock
<1>24. /\ v \in Nat /\ now \in [0 .. b - 1 -> Nat] /\ \A j \in 0 .. k - 1 : now[j] = v
  <2>1. v \in Nat
    BY <1>5
  <2>2. ASSUME NEW j \in 0 .. b - 1 PROVE (IF j < k THEN v ELSE ver[j]) \in Nat
    BY <1>1, <1>4, <2>1
  <2>3. now = [j \in 0 .. b - 1 |-> IF j < k THEN v ELSE ver[j]]
    BY <1>16 DEF Newer
  <2>4. now \in [0 .. b - 1 -> Nat]
    BY <2>2, <2>3
  <2>5. ASSUME NEW j \in 0 .. k - 1 PROVE now[j] = v
    <3>1. j \in 0 .. b - 1 /\ j < k
      BY <1>1, <1>4
    <3>2. QED
      BY <2>3, <3>1
  <2>6. QED
    BY <2>1, <2>4, <2>5
<1>25. b \in Nat \ {0} /\ k \in 1 .. b
  BY <1>1, <1>4
<1>26. InstalledAt(s, n, m, c, vol', tree', now, b, k, v)
  BY <1>7, <1>12, <1>13, <1>15, <1>21, <1>23, <1>24, <1>25 DEF InstalledAt
<1>27. Running(s, n, m, c, vol', tree', now, b, k, v, cpu')
  BY <1>8, <1>26 DEF Running
<1>28. made'.blocks = b /\ made'.last = k /\ made'.version = v
  BY <1>8
<1>29. QED
  BY <1>8, <1>22, <1>24, <1>27, <1>28

\* A function without two equal values has as many values as arguments.
LEMMA AsMany ==
  ASSUME NEW f, NEW a \in Int, NEW b \in Int, \A p \in DOMAIN f : f[p] \in a .. b,
         \A p, q \in DOMAIN f : p # q => f[p] # f[q], f = [p \in DOMAIN f |-> f[p]]
  PROVE  Cardinality({f[p] : p \in DOMAIN f}) = Cardinality(DOMAIN f)
<1>1. PICK D, T : D = DOMAIN f /\ T = {f[p] : p \in DOMAIN f}
  OBVIOUS
<1>2. T \subseteq a .. b
  BY <1>1
<1>3. IsFiniteSet(T)
  <2>1. IsFiniteSet(a .. b)
    BY FS_Interval
  <2>2. QED
    BY <1>2, <2>1, FS_Subset
<1>4. f \in [D -> T]
  BY <1>1
<1>5. f \in Injection(D, T)
  BY <1>1, <1>4 DEF Injection, IsInjective
<1>6. f \in Surjection(D, T)
  BY <1>1, <1>4 DEF Surjection
<1>7. Cardinality(D) = Cardinality(T)
  BY <1>3, <1>5, <1>6, FS_Injection
<1>8. QED
  BY <1>1, <1>7

\* The blocks from e on that a bitmap of n blocks has free.
LEMMA FreeFrom ==
  ASSUME NEW n \in Nat, NEW e \in Nat, e <= n
  PROVE  Cardinality((e .. 8 * Bytes(n) - 1) \cap (0 .. n - 1)) = n - e
<1>1. n <= 8 * Bytes(n) /\ Bytes(n) \in Nat
  BY DEF Bytes
<1>2. (e .. 8 * Bytes(n) - 1) \cap (0 .. n - 1) = e .. n - 1
  BY <1>1
<1>3. Cardinality(e .. n - 1) = IF e > n - 1 THEN 0 ELSE n - 1 - e + 1
  BY FS_Interval
<1>4. (IF e > n - 1 THEN 0 ELSE n - 1 - e + 1) = n - e
  OBVIOUS
<1>5. QED
  BY <1>2, <1>3, <1>4, Zenon

\* What the invariants say of an installation.
LEMMA InstallWhole ==
  ASSUME FInv, VInv
  PROVE  InstallKeepsDisk
<1> SUFFICES ASSUME vol # {} PROVE InstallKeepsDisk
  BY DEF InstallKeepsDisk
<1>1. pc = "done"
  BY DEF VInv
<1>2. PICK s, n, m, c : Based(s, n, m, c)
  BY <1>1, BasedAt
<1>3. PICK k, ver : /\ k = made.blocks /\ k \in Nat
                    /\ Running(s, n, m, c, vol, tree, ver, k, made.last, made.version, cpu)
                    /\ Found(s, n, m, c, k, ver, volume_super, volume)
  BY <1>2, InstalledFound
<1>4. Sized(s, n, m, c) /\ sb = SuperAt("done", s, n, m) /\ disk = DiskAt("done", s, n, m, c)
  BY <1>2 DEF Based
<1>5. s \in 1 .. 5 /\ n \in Nat /\ m \in Nat /\ IsTable(c)
  BY <1>4 DEF Sized
<1>6. PICK id : id = tree /\ id = ImageIds(s, n, m, c, k)
  BY <1>3 DEF Found
<1>7. vol = VolumeAt(s, n, m, c, k, id, ver) /\ ImageEnd(s, n, m, c, k) <= n
  BY <1>3, <1>6 DEF Running, InstalledAt
<1>8. PICK e \in Nat : e = ImageEnd(s, n, m, c, k)
  BY <1>3, <1>5, ImageBlocks
<1>9. {x \in disk : x.what.kind \in {"data", "index", "inode"}} \subseteq vol
  <2>1. KeptExtents(s, n, m, c) \subseteq vol
    BY <1>7 DEF VolumeAt
  <2>2. disk = KeptExtents(s, n, m, c)
                 \cup {SuperExtent(s, n, m, c), BlockMap(s, n, m, c), InodeMap(s, n, m)}
    BY <1>4 DEF DiskAt, KeptExtents, Filed
  <2>3. \A x \in {SuperExtent(s, n, m, c), BlockMap(s, n, m, c), InodeMap(s, n, m)} :
          x.what.kind \in {"super", "bitmap"}
    BY DEF SuperExtent, BlockMap, InodeMap, Extent
  <2>4. QED
    BY <2>1, <2>2, <2>3
<1>10. ContentOf(vol, sb.bitmaps_block * BLOCK_SIZE, bb.bytes).free = e .. 8 * Bytes(n) - 1
  <2>1. Holds(s, n, m, c, k, id, ver, vol)
    BY <1>3, <1>4, <1>6, <1>7 DEF Holds
  <2>2. ReadsFirst(s, n, m, c, k, id, vol)
    BY <2>1, VolumeContents
  <2>3. ContentOf(vol, BS(s) * MapsAt(s, m), Bytes(n))
          = [kind |-> "bitmap", free |-> e .. 8 * Bytes(n) - 1]
    BY <1>8, <2>2 DEF ReadsFirst
  <2>4. sb.bitmaps_block = MapsAt(s, m) /\ bb.bytes = Bytes(n) /\ BLOCK_SIZE = BS(s)
    <3>1. BLOCK_SIZE = BS(s)
      BY <1>4, <1>5, ModelSizes
    <3>2. bb.bytes = Bytes(n)
      BY <1>2 DEF Based, Bitmap
    <3>3. sb.bitmaps_block = MapsAt(s, m)
      BY <1>4 DEF SuperAt
    <3>4. QED
      BY <3>1, <3>2, <3>3
  <2>5. MapsAt(s, m) * BS(s) = BS(s) * MapsAt(s, m)
    <3>1. BS(s) \in Nat
      BY <1>5, SizesNat
    <3>2. MapsAt(s, m) \in Nat
      BY <1>5, RegionsNat
    <3>3. QED
      BY <3>1, <3>2
  <2>6. QED
    BY <2>3, <2>4, <2>5
<1>11. ASSUME NEW p \in DOMAIN id PROVE id[p] \in 0 .. e - 1
  <2>1. RootEnd(s, n, m, c) \in Nat
    BY <1>5, RootBlocks
  <2>2. id[p] \in RootEnd(s, n, m, c) .. ImageEnd(s, n, m, c, k) - 1
    BY <1>3, <1>5, <1>6, ImageIdAt
  <2>3. QED
    BY <1>8, <2>1, <2>2
<1>12. Cardinality({id[p] : p \in DOMAIN id}) = Cardinality(DOMAIN id)
  <2>1. \A p, q \in DOMAIN id : p # q => id[p] # id[q]
    BY <1>3, <1>5, <1>6, ImageIdsApart
  <2>2. id = [p \in DOMAIN id |-> id[p]]
    BY <1>6 DEF ImageIds
  <2>3. 0 \in Int /\ e - 1 \in Int
    OBVIOUS
  <2>4. QED
    BY <1>11, <2>1, <2>2, <2>3, AsMany
<1>13. volume_super.free_block_count = n - e /\ volume_super.sb.block_count = n
  <2>1. FoundSuper(s, n, m, k, e, volume_super)
    BY <1>3, <1>8 DEF Found
  <2>2. QED
    BY <2>1, FoundCounts
<1>14. Cardinality((e .. 8 * Bytes(n) - 1) \cap (0 .. n - 1)) = n - e
  BY <1>5, <1>7, <1>8, FreeFrom
<1>15. \A p \in DOMAIN tree : tree[p] \notin e .. 8 * Bytes(n) - 1
  BY <1>6, <1>11
<1>16. QED
  BY <1>6, <1>9, <1>10, <1>12, <1>13, <1>14, <1>15 DEF InstallKeepsDisk
-----------------------------------------------------------------------------
\* Stage 1.

\* Cylinder, head and sector name the sector they were computed from.
LEMMA Sector ==
  ASSUME NEW b \in Nat
  PROVE  int13(chs(b)) = 512 * b
<1>1. Spt \in Nat \ {0} /\ Heads \in Nat \ {0}
  BY BootAssumption
<1>2. ASSUME NEW x \in Nat, NEW d \in Nat \ {0}
      PROVE  x \div d \in Nat /\ x % d \in Nat /\ (x \div d) * d + (x % d) = x
  OBVIOUS
<1>3. PICK t \in Nat, r \in Nat : t = b \div Spt /\ r = b % Spt /\ t * Spt + r = b
  BY <1>1, <1>2
<1>4. PICK y \in Nat, h \in Nat : y = t \div Heads /\ h = t % Heads /\ y * Heads + h = t
  BY <1>1, <1>2
<1>5. chs(b) = [s |-> r + 1, h |-> h, c |-> y]
  BY <1>3, <1>4 DEF chs
<1>6. int13(chs(b)) = 512 * ((y * Heads + h) * Spt + (r + 1) - 1)
  BY <1>5 DEF int13
<1>7. PICK g : g = t * Spt
  OBVIOUS
<1>8. g + (r + 1) - 1 = b
  <2>1. g \in Nat
    BY <1>1, <1>3, <1>7
  <2>2. QED
    BY <1>3, <1>7, <2>1
<1>9. QED
  BY <1>4, <1>6, <1>7, <1>8

\* The sizes for blocks of one sector.
LEMMA OneSector == BS(2) = 512 /\ Width(2) = 64 /\ 64 \in Widths /\ inode_first_block(2) = 4
<1>1. 2 ^ 9 = 512 /\ 2 ^ 6 = 64 /\ 2 ^ 2 = 4
  OBVIOUS
<1>2. QED
  BY <1>1 DEF BS, Width, Widths, inode_first_block

\* What stage 1 loads as a block of the image.
LEMMA LoadsBlock ==
  ASSUME NEW n, NEW m, NEW c, NEW k, NEW id, NEW ver,
         Holds(2, n, m, c, k, id, ver, vol), NEW p \in DOMAIN id
  PROVE  load_block(id[p]) = ImageWhat(2, id, ver, p)
<1>1. PICK b \in Nat : b = id[p]
  <2>1. id = ImageIds(2, n, m, c, k) /\ k \in Nat /\ Sized(2, n, m, c)
    BY DEF Holds
  <2>2. n \in Nat /\ m \in Nat /\ IsTable(c) /\ 2 \in 1 .. 5
    BY <2>1 DEF Sized
  <2>3. RootEnd(2, n, m, c) \in Nat
    BY <2>2, RootBlocks
  <2>4. id[p] \in RootEnd(2, n, m, c) .. ImageEnd(2, n, m, c, k) - 1
    BY <2>1, <2>2, ImageIdAt
  <2>5. QED
    BY <2>3, <2>4
<1>2. int13(chs(b)) = b * 512
  BY Sector
<1>3. ContentOf(vol, id[p] * BS(2), BS(2)) = ImageWhat(2, id, ver, p)
  BY ReadsBlock
<1>4. QED
  BY <1>1, <1>2, <1>3, OneSector DEF load_block

\* A block of a version of the image.
Block(ver, j) == [kind |-> "image", version |-> ver[j], nth |-> j]

\* A path and one more step.
LEMMA Appended ==
  ASSUME NEW a \in Nat, NEW b \in Nat, NEW x \in Nat
  PROVE  Append(<<a>>, b) = <<a, b>> /\ Append(<<a, b>>, x) = <<a, b, x>>
<1>1. PICK P : P = <<a, b, x>>
  OBVIOUS
<1> P \in Seq(Nat) /\ Len(P) = 3 /\ P[2] = b /\ P[3] = x
  BY <1>1
<1>2. \A i \in 1 .. 2 : Append(SubSeq(P, 1, i), P[i + 1]) = SubSeq(P, 1, i + 1)
  BY <1>1
<1>3. SubSeq(P, 1, 1) = <<a>> /\ SubSeq(P, 1, 2) = <<a, b>> /\ SubSeq(P, 1, 3) = <<a, b, x>>
  BY <1>1, Tops3
<1>4. /\ Append(SubSeq(P, 1, 1), P[2]) = SubSeq(P, 1, 2)
      /\ Append(SubSeq(P, 1, 2), P[3]) = SubSeq(P, 1, 3)
  BY <1>2
<1>5. QED
  BY <1>1, <1>3, <1>4

\* The words of an index block.
LEMMA Words ==
  ASSUME NEW id, NEW p, IsIndex(p), NEW x \in 0 .. 63, Append(p, x) \in DOMAIN id
  PROVE  word(block_content(64, id, p), x) = id[Append(p, x)]
<1>1. block_content(64, id, p) =
        [kind |-> "index", entry |-> [e \in 0 .. 63 |-> IF Append(p, e) \in DOMAIN id
                                                       THEN id[Append(p, e)] ELSE 0]]
  BY DEF block_content
<1>2. QED
  BY <1>1 DEF word

\* The paths of block j.
LEMMA PathsTo ==
  ASSUME NEW w, NEW k \in Nat, NEW j \in 0 .. k - 1, NEW i \in 1 .. Len(file_path(w, j))
  PROVE  Top(w, j, i) \in paths(w, k)
BY DEF paths, Top

\* A direct block.
LEMMA LoadsDirect ==
  ASSUME NEW n, NEW m, NEW c, NEW k, NEW id, NEW ver,
         Holds(2, n, m, c, k, id, ver, vol), NEW j \in 0 .. k - 1, j < 4
  PROVE  load_block(inode_content(k * 512, id).slot[j]) = Block(ver, j)
<1>1. k \in Nat /\ DOMAIN id = paths(64, k)
  BY OneSector DEF Holds, ImageIds
<1>2. j \in 0 .. 3
  BY <1>1
<1>3. Len(file_path(64, j)) = 1 /\ Top(64, j, 1) = <<j>> /\ First(64, j, 1) = j
  BY <1>2, OneSector, DirectTops
<1>4. <<j>> \in DOMAIN id
  <2>1. 1 \in 1 .. Len(file_path(64, j))
    BY <1>3
  <2>2. QED
    BY <1>1, <1>3, <2>1, PathsTo
<1>5. first_block(64, <<j>>) = j
  BY <1>3 DEF First
<1>6. ~IsIndex(<<j>>)
  BY <1>2 DEF IsIndex
<1>7. load_block(id[<<j>>]) = Block(ver, j)
  BY <1>4, <1>5, <1>6, LoadsBlock, OneSector DEF ImageWhat, Block
<1>8. inode_content(k * 512, id).slot[j] = id[<<j>>]
  BY <1>2, <1>4 DEF inode_content
<1>9. QED
  BY <1>7, <1>8

\* One behind the single indirect block.
LEMMA LoadsIndirect ==
  ASSUME NEW n, NEW m, NEW c, NEW k, NEW id, NEW ver,
         Holds(2, n, m, c, k, id, ver, vol), NEW j \in 0 .. k - 1, j \in 4 .. 67
  PROVE  /\ load_block(inode_content(k * 512, id).slot[4]) = block_content(64, id, <<4>>)
         /\ load_block(word(block_content(64, id, <<4>>), j - 4)) = Block(ver, j)
<1>1. k \in Nat /\ DOMAIN id = paths(64, k)
  BY OneSector DEF Holds, ImageIds
<1>2. PICK a \in 0 .. 63 : a = j - 4
  OBVIOUS
<1>3. InInd(64, a, j)
  BY <1>2 DEF InInd
<1>4. /\ Len(file_path(64, j)) = 2 /\ Top(64, j, 1) = <<4>> /\ Top(64, j, 2) = <<4, a>>
      /\ First(64, j, 2) = j
  BY <1>3, OneSector, IndirectTops
<1>5. <<4>> \in DOMAIN id
  <2>1. 1 \in 1 .. Len(file_path(64, j))
    BY <1>4
  <2>2. QED
    BY <1>1, <1>4, <2>1, PathsTo
<1>6. <<4, a>> \in DOMAIN id
  <2>1. 2 \in 1 .. Len(file_path(64, j))
    BY <1>4
  <2>2. QED
    BY <1>1, <1>4, <2>1, PathsTo
<1>7. IsIndex(<<4>>) /\ ~IsIndex(<<4, a>>) /\ Append(<<4>>, a) = <<4, a>>
  <2>1. IsIndex(<<4>>) /\ ~IsIndex(<<4, a>>)
    BY DEF IsIndex
  <2>2. Append(<<4>>, a) = <<4, a>>
    <3>1. PICK u \in Nat, v \in Nat : u = 4 /\ v = a
      OBVIOUS
    <3>2. Append(<<u>>, v) = <<u, v>> /\ Append(<<u, v>>, v) = <<u, v, v>>
      BY Appended
    <3>3. QED
      BY <3>1, <3>2
  <2>3. QED
    BY <2>1, <2>2
<1>8. load_block(id[<<4>>]) = block_content(64, id, <<4>>)
  BY <1>5, <1>7, LoadsBlock, OneSector DEF ImageWhat
<1>9. first_block(64, <<4, a>>) = j
  BY <1>4 DEF First
<1>10. load_block(id[<<4, a>>]) = Block(ver, j)
  BY <1>6, <1>7, <1>9, LoadsBlock, OneSector DEF ImageWhat, Block
<1>11. word(block_content(64, id, <<4>>), a) = id[<<4, a>>]
  BY <1>6, <1>7, Words
<1>12. inode_content(k * 512, id).slot[4] = id[<<4>>]
  BY <1>5 DEF inode_content
<1>13. QED
  BY <1>2, <1>8, <1>10, <1>11, <1>12

\* One behind the double indirect block.
LoadedBind(id, ver, k, j, q, r) ==
    /\ load_block(inode_content(k * 512, id).slot[5]) = block_content(64, id, <<5>>)
    /\ load_block(word(block_content(64, id, <<5>>), q)) = block_content(64, id, <<5, q>>)
    /\ load_block(word(block_content(64, id, <<5, q>>), r)) = Block(ver, j)

\* Stage 1 loads the two index blocks and the block.
LEMMA LoadsDouble ==
  ASSUME NEW n, NEW m, NEW c, NEW k, NEW id, NEW ver,
         Holds(2, n, m, c, k, id, ver, vol), NEW j \in 0 .. k - 1,
         NEW q, NEW r, InBind(64, q, r, j)
  PROVE  LoadedBind(id, ver, k, j, q, r)
<1>1. k \in Nat /\ DOMAIN id = paths(64, k)
  BY OneSector DEF Holds, ImageIds
<1>2. q \in Nat /\ r \in Nat /\ q \in 0 .. 63 /\ r \in 0 .. 63
  BY DEF InBind
<1>4. /\ Len(file_path(64, j)) = 3 /\ Top(64, j, 1) = <<5>> /\ Top(64, j, 2) = <<5, q>>
      /\ Top(64, j, 3) = <<5, q, r>> /\ First(64, j, 3) = j
  BY OneSector, DoubleTops
<1>5. <<5>> \in DOMAIN id
  <2>1. 1 \in 1 .. Len(file_path(64, j))
    BY <1>4
  <2>2. QED
    BY <1>1, <1>4, <2>1, PathsTo
<1>6. <<5, q>> \in DOMAIN id
  <2>1. 2 \in 1 .. Len(file_path(64, j))
    BY <1>4
  <2>2. QED
    BY <1>1, <1>4, <2>1, PathsTo
<1>7. <<5, q, r>> \in DOMAIN id
  <2>1. 3 \in 1 .. Len(file_path(64, j))
    BY <1>4
  <2>2. Top(64, j, 3) \in paths(64, k)
    BY <1>1, <2>1, PathsTo
  <2>3. QED
    BY <1>1, <1>4, <2>2
<1>8. /\ IsIndex(<<5>>) /\ IsIndex(<<5, q>>) /\ ~IsIndex(<<5, q, r>>)
      /\ Append(<<5>>, q) = <<5, q>> /\ Append(<<5, q>>, r) = <<5, q, r>>
  <2>1. IsIndex(<<5>>) /\ IsIndex(<<5, q>>) /\ ~IsIndex(<<5, q, r>>)
    BY DEF IsIndex
  <2>2. Append(<<5>>, q) = <<5, q>>
    BY <1>2, Appended
  <2>3. Append(<<5, q>>, r) = <<5, q, r>>
    BY <1>2, Appended
  <2>4. QED
    BY <2>1, <2>2, <2>3
<1>9. load_block(id[<<5>>]) = block_content(64, id, <<5>>)
  BY <1>5, <1>8, LoadsBlock, OneSector DEF ImageWhat
<1>10. load_block(id[<<5, q>>]) = block_content(64, id, <<5, q>>)
  BY <1>6, <1>8, LoadsBlock, OneSector DEF ImageWhat
<1>11. first_block(64, <<5, q, r>>) = j
  BY <1>4 DEF First
<1>12. load_block(id[<<5, q, r>>]) = Block(ver, j)
  BY <1>7, <1>8, <1>11, LoadsBlock, OneSector DEF ImageWhat, Block
<1>13. word(block_content(64, id, <<5>>), q) = id[<<5, q>>]
  <2>1. PICK p : p = <<5>>
    OBVIOUS
  <2>2. IsIndex(p) /\ Append(p, q) \in DOMAIN id
    BY <1>6, <1>8, <2>1
  <2>3. word(block_content(64, id, p), q) = id[Append(p, q)]
    BY <1>2, <2>2, Words
  <2>4. QED
    BY <1>8, <2>1, <2>3
<1>14. word(block_content(64, id, <<5, q>>), r) = id[<<5, q, r>>]
  <2>1. PICK p : p = <<5, q>>
    OBVIOUS
  <2>2. IsIndex(p) /\ Append(p, r) \in DOMAIN id
    BY <1>7, <1>8, <2>1
  <2>3. word(block_content(64, id, p), r) = id[Append(p, r)]
    BY <1>2, <2>2, Words
  <2>4. QED
    BY <1>8, <2>1, <2>3
<1>15. inode_content(k * 512, id).slot[5] = id[<<5>>]
  BY <1>5 DEF inode_content
<1>16. QED
  BY <1>9, <1>10, <1>12, <1>13, <1>14, <1>15 DEF LoadedBind

\* An image on blocks of one sector.
Bootable(n, m, c, k, id, ver) == Holds(2, n, m, c, k, id, ver, vol) /\ k \in 1 .. 4000

\* An image on such a volume has fewer than 4000 blocks.
LEMMA OnSectors ==
  ASSUME NEW n, NEW m, NEW c, Based(2, n, m, c), NEW id, NEW ver, NEW k, NEW l, NEW v,
         InstalledAt(2, n, m, c, vol, id, ver, k, l, v)
  PROVE  Bootable(n, m, c, k, id, ver)
<1>1. /\ k \in Nat \ {0} /\ ImageEnd(2, n, m, c, k) <= n
      /\ id = ImageIds(2, n, m, c, k) /\ vol = VolumeAt(2, n, m, c, k, id, ver)
  BY DEF InstalledAt
<1>2. Sized(2, n, m, c) /\ n < 4000
  BY DEF Based
<1>3. Holds(2, n, m, c, k, id, ver, vol)
  BY <1>1, <1>2 DEF Holds
<1>4. n \in Nat /\ m \in Nat /\ IsTable(c) /\ 2 \in 1 .. 5
  BY <1>2 DEF Sized
<1>5. PICK R \in Nat, e \in Nat : R = RootEnd(2, n, m, c) /\ e = ImageEnd(2, n, m, c, k) /\ R + k <= e
  BY <1>1, <1>4, ImageBlocks
<1>6. QED
  BY <1>1, <1>2, <1>3, <1>4, <1>5 DEF Bootable

\* What stage 1 reads before its loop.
ReadSuper    == ContentOf(vol, int13(chs(2)), SUPER)
ReadInode(z) == LET i == z.sb.boot_loader_inode
                IN  ContentOf(vol, int13(chs(z.sb.inode_first_block + i \div 8))
                                     + ((i * INODE) % 512), INODE)

\* Stage 1 reads the image's inode through the superblock.
LEMMA StartReads ==
  ASSUME NEW n, NEW m, NEW c, NEW k, NEW id, NEW ver, Holds(2, n, m, c, k, id, ver, vol)
  PROVE  ReadInode(ReadSuper) = inode_content(k * 512, id)
<1> PICK z, i : z = ReadSuper /\ i = z.sb.boot_loader_inode
  OBVIOUS
<1>1. ReadsFirst(2, n, m, c, k, id, vol)
  BY VolumeContents
<1>2. PICK e : e = ImageEnd(2, n, m, c, k)
  OBVIOUS
<1>3. int13(chs(2)) = KB
  BY Sector DEF KB
<1>4. z = SuperWhat(2, n, m, e)
  BY <1>1, <1>2, <1>3 DEF ReadsFirst, ReadSuper
<1>5. z.sb.boot_loader_inode = 3 /\ z.sb.inode_first_block = inode_first_block(2)
  BY <1>4, SuperWhatIs
<1>6. i = 3 /\ z.sb.inode_first_block = 4
  BY <1>5, OneSector
<1>7. 4 + 3 \div 8 = 4 /\ (3 * INODE) % 512 = 192
  BY DEF INODE
<1>8. int13(chs(4)) = 4 * 512
  BY Sector
<1>9. ContentOf(vol, inode_first_block(2) * BS(2) + 192, INODE) = inode_content(k * BS(2), id)
  BY <1>1 DEF ReadsFirst
<1>10. ContentOf(vol, 4 * 512 + 192, INODE) = inode_content(k * 512, id)
  BY <1>9, OneSector
<1>11. QED
  BY <1>6, <1>7, <1>8, <1>10 DEF ReadInode

\* Stage 1 ready for its loop, with the inode i in memory.
Ready(i) == [at |-> "loop", bx |-> 64 + 5, bp |-> 0, si |-> <<"inode", 0>>, bind |-> 0,
             di |-> (i.size + 511) \div 512, inode |-> i,
             at7a00 |-> load_block(i.slot[5]), at7e00 |-> i, mem |-> <<>>]

\* With that inode, stage 1 is before the first block.
LEMMA StartState ==
  ASSUME NEW n, NEW m, NEW c, NEW k, NEW id, NEW ver, Bootable(n, m, c, k, id, ver),
         NEW i, i = ReadInode(ReadSuper)
  PROVE  CpuAt(Ready(i), id, ver, k)
<1>1. Holds(2, n, m, c, k, id, ver, vol) /\ k \in 1 .. 4000
  BY DEF Bootable
<1>2. i = inode_content(k * 512, id)
  BY <1>1, StartReads
<1>3. PICK x : x = Ready(i)
  OBVIOUS
<1>4. x.di = k
  <2>1. i.size = k * 512
    BY <1>2 DEF inode_content
  <2>2. PICK y \in Nat : y = k * 512
    BY <1>1
  <2>3. (y + 511) \div 512 = k
    BY <1>1, <2>2
  <2>4. i.size = y
    BY <2>1, <2>2
  <2>5. (i.size + 511) \div 512 = k
    BY ONLY <2>3, <2>4
  <2>6. x.di = (i.size + 511) \div 512
    BY <1>3 DEF Ready
  <2>7. QED
    BY ONLY <2>5, <2>6
<1>5. /\ x.at = "loop" /\ x.bx = 69 /\ x.bp = 0 /\ x.si = <<"inode", 0>> /\ x.bind = 0
      /\ x.at7a00 = load_block(i.slot[5]) /\ x.at7e00 = i /\ x.mem = <<>>
      /\ DOMAIN x = CpuFields
  BY <1>3 DEF Ready, CpuFields
<1>6. k > 68 => x.at7a00 = block_content(64, id, <<5>>)
  <2>1. SUFFICES ASSUME k > 68 PROVE load_block(i.slot[5]) = block_content(64, id, <<5>>)
    BY <1>5
  <2>2. PICK j, q, r : j \in 0 .. k - 1 /\ InBind(64, q, r, j)
    <3>1. 68 \in 0 .. k - 1 /\ InBind(64, 0, 0, 68)
      BY <1>1, <2>1 DEF InBind
    <3>2. QED
      BY <3>1
  <2>3. LoadedBind(id, ver, k, j, q, r)
    BY <1>1, <2>2, LoadsDouble
  <2>4. QED
    BY <1>2, <2>3 DEF LoadedBind
<1>7. LoadingAt(x, id, k)
  <2>1. x.si = <<"inode", x.bp>> /\ x.at7e00 = inode_content(k * 512, id) /\ x.bx = 69 - x.bp
    BY <1>2, <1>5
  <2>2. x.bp \notin 5 .. 68 /\ ~(x.bp > 68)
    BY <1>5
  <2>3. QED
    BY <1>5, <1>6, <2>1, <2>2 DEF LoadingAt
<1>8. x.mem = [j \in 1 .. x.bp |-> [kind |-> "image", version |-> ver[j - 1], nth |-> j - 1]]
  BY <1>5
<1>9. x.bp # k /\ x.bp \in 0 .. k
  <2>1. x.bp = 0
    BY <1>5
  <2>2. 0 # k /\ 0 \in 0 .. k
    BY <1>1
  <2>3. QED
    BY ONLY <2>1, <2>2
<1>10. CpuAt(x, id, ver, k)
  BY <1>4, <1>5, <1>7, <1>8, <1>9 DEF CpuAt
<1>11. QED
  BY <1>3, <1>10

\* Stage 1 enters its loop.
LEMMA StartKeeps ==
  ASSUME NEW s, NEW n, NEW m, NEW c, Based(s, n, m, c), NEW id, id = tree, NEW ver, NEW k, NEW l, NEW v,
         Running(s, n, m, c, vol, id, ver, k, l, v, cpu), stage1_start
  PROVE  Running(s, n, m, c, vol, id, ver, k, l, v, cpu')
<1>1. InstalledAt(s, n, m, c, vol, id, ver, k, l, v)
  BY DEF Running
<1>2. s \in 1 .. 5 /\ sb = SuperAt("done", s, n, m)
  BY DEF Based, Sized
<1>3. BLOCK_SIZE = BS(s)
  BY <1>2, ModelSizes
<1>4. CASE s # 2
  <2>1. BLOCK_SIZE # 512
    BY <1>2, <1>3, <1>4, SizeOfBlock
  <2>2. cpu' = [at |-> "wild"]
    BY <2>1 DEF stage1_start
  <2>3. "other_blocks" \in Allow
    BY <1>1, <1>4 DEF InstalledAt
  <2>4. QED
    BY <1>1, <2>2, <2>3 DEF Running
<1>5. CASE s = 2
  <2>1. BLOCK_SIZE = 512
    BY <1>2, <1>3, <1>5, SizeOfBlock
  <2>2. Bootable(n, m, c, k, id, ver)
    BY <1>1, <1>5, OnSectors
  <2>3. PICK j : j = ReadInode(ReadSuper)
    OBVIOUS
  <2>4. cpu' = Ready(j)
    <3>1. cpu' = IF BLOCK_SIZE # 512 THEN [at |-> "wild"] ELSE Ready(ReadInode(ReadSuper))
      BY Zenon DEF stage1_start, Ready, ReadInode, ReadSuper
    <3>2. QED
      BY <2>1, <2>3, <3>1, Zenon
  <2>5. CpuAt(Ready(j), id, ver, k)
    BY <2>2, <2>3, StartState
  <2>6. QED
    BY <1>1, <1>5, <2>4, <2>5 DEF Running
<1>6. QED
  BY <1>4, <1>5

\* What .load_block makes of the registers.
BlockDone(x, y) ==
    /\ DOMAIN y = CpuFields /\ y.at = x.at /\ y.bx = x.bx /\ y.bind = x.bind /\ y.di = x.di
    /\ y.at7a00 = x.at7a00 /\ y.at7e00 = x.at7e00 /\ y.bp = x.bp + 1
    /\ y.si = <<x.si[1], x.si[2] + 1>>
    /\ y.mem = Append(x.mem, load_block(lods(x.si, x)))

\* Of .load_block.
LEMMA AfterBlock ==
  ASSUME NEW x, DOMAIN x = CpuFields
  PROVE  BlockDone(x, loaded_block(x))
<1>1. PICK y : y = loaded_block(x)
  OBVIOUS
<1>2. BlockDone(x, y)
  BY <1>1 DEF loaded_block, CpuFields, BlockDone
<1>3. QED
  BY <1>1, <1>2

\* What .load_indirect and .load_bind make of the registers.
IndirectDone(x, y) ==
    /\ DOMAIN y = CpuFields /\ y.at = x.at /\ y.bx = x.bx /\ y.bind = x.bind /\ y.di = x.di
    /\ y.at7a00 = x.at7a00 /\ y.at7e00 = load_block(lods(x.si, x)) /\ y.bp = x.bp
    /\ y.si = <<"at7e00", 0>> /\ y.mem = x.mem
BindDone(x, y) ==
    /\ DOMAIN y = CpuFields /\ y.at = x.at /\ y.bx = 64 /\ y.bind = x.bind + 1 /\ y.di = x.di
    /\ y.at7a00 = x.at7a00 /\ y.at7e00 = load_block(word(x.at7a00, x.bind)) /\ y.bp = x.bp
    /\ y.si = <<"at7e00", 0>> /\ y.mem = x.mem

\* Of .load_indirect.
LEMMA AfterIndirect ==
  ASSUME NEW x, DOMAIN x = CpuFields
  PROVE  IndirectDone(x, loaded_indirect(x))
<1>1. PICK y : y = loaded_indirect(x)
  OBVIOUS
<1>2. IndirectDone(x, y)
  BY <1>1 DEF loaded_indirect, CpuFields, IndirectDone
<1>3. QED
  BY <1>1, <1>2

\* Of .load_bind.
LEMMA AfterBind ==
  ASSUME NEW x, DOMAIN x = CpuFields
  PROVE  BindDone(x, loaded_bind(x))
<1>1. PICK u : u = [x EXCEPT !.bx = 64, !.si = <<"at7a00", x.bind>>, !.bind = @ + 1]
  OBVIOUS
<1>2. /\ DOMAIN u = CpuFields /\ u.at = x.at /\ u.bx = 64 /\ u.bind = x.bind + 1 /\ u.di = x.di
      /\ u.at7a00 = x.at7a00 /\ u.bp = x.bp /\ u.si = <<"at7a00", x.bind>> /\ u.mem = x.mem
  BY <1>1 DEF CpuFields
<1>3. loaded_bind(x) = loaded_indirect(u)
  BY <1>1 DEF loaded_bind
<1>4. lods(u.si, u) = word(x.at7a00, x.bind)
  BY <1>2 DEF lods
<1>5. PICK y : y = loaded_indirect(u)
  OBVIOUS
<1>6. IndirectDone(u, y)
  BY <1>2, <1>5, AfterIndirect
<1>7. BindDone(x, y)
  BY <1>2, <1>4, <1>6 DEF IndirectDone, BindDone
<1>8. QED
  BY <1>3, <1>5, <1>7

\* One more block in memory.
LEMMA OneMore ==
  ASSUME NEW ver, NEW b \in Nat, NEW f, f = [j \in 1 .. b |-> Block(ver, j - 1)]
  PROVE  Append(f, Block(ver, b)) = [j \in 1 .. b + 1 |-> Block(ver, j - 1)]
<1>1. PICK S : S = {Block(ver, j - 1) : j \in 1 .. b + 1}
  OBVIOUS
<1>2. f \in Seq(S) /\ Len(f) = b
  BY <1>1
<1>3. Append(f, Block(ver, b)) = [j \in 1 .. b + 1 |-> IF j <= b THEN f[j] ELSE Block(ver, b)]
  BY <1>2
<1>4. \A j \in 1 .. b + 1 : (IF j <= b THEN f[j] ELSE Block(ver, b)) = Block(ver, j - 1)
  OBVIOUS
<1>5. QED
  BY <1>3, <1>4

\* Stage 1 with si at the id of block b: in the inode, in the single indirect
\* block, and in the q-th block behind the double indirect one.
FetchInode(d, b, id, k) ==
    /\ b \in 0 .. 3 /\ d.si = <<"inode", b>> /\ d.at7e00 = inode_content(k * 512, id)
    /\ d.bx = 68 - b /\ d.bind = 0
FetchIndex(d, b, id) ==
    /\ b \in 4 .. 67 /\ d.si = <<"at7e00", b - 4>> /\ d.at7e00 = block_content(64, id, <<4>>)
    /\ d.bx = 68 - b /\ d.bind = 0
FetchBound(d, b, id, q, r) ==
    /\ q \in 0 .. 63 /\ r \in 0 .. 63
    /\ b = 68 + 64 * q + r /\ d.si = <<"at7e00", r>>
    /\ d.at7e00 = block_content(64, id, <<5, q>>)
    /\ d.bx = 64 - r /\ d.bind = q + 1
FetchAt(d, b, id, k) ==
    \/ FetchInode(d, b, id, k)
    \/ FetchIndex(d, b, id)
    \/ \E q, r : FetchBound(d, b, id, q, r)

\* The part of the registers that the turn does not touch before it loads.
SameImage(x, d) ==
    /\ DOMAIN d = CpuFields /\ d.at = x.at /\ d.di = x.di /\ d.bp = x.bp /\ d.mem = x.mem
    /\ d.at7a00 = x.at7a00

\* The registers after the count.
LEMMA Counted ==
  ASSUME NEW x, DOMAIN x = CpuFields, NEW u, u = [x EXCEPT !.bx = @ - 1]
  PROVE  SameImage(x, u) /\ u.bx = x.bx - 1 /\ u.si = x.si /\ u.bind = x.bind /\ u.at7e00 = x.at7e00
BY DEF SameImage, CpuFields

\* What the turn does before it loads.
Fetched(u) == IF u.bx = 0 THEN loaded_bind(u) ELSE IF u.bp = 4 THEN loaded_indirect(u) ELSE u

\* The registers before the turn loads its block.
Turned(x, d, b, id, k) == SameImage(x, d) /\ FetchAt(d, b, id, k)

\* For a direct block, si is at the inode's word;
LEMMA FetchDirect ==
  ASSUME NEW k \in Nat, NEW id, NEW x, DOMAIN x = CpuFields, LoadingAt(x, id, k),
         NEW b \in 0 .. 3, x.bp = b, NEW u, u = [x EXCEPT !.bx = @ - 1]
  PROVE  Turned(x, Fetched(u), b, id, k)
<1>1. SameImage(x, u) /\ u.bx = x.bx - 1 /\ u.si = x.si /\ u.bind = x.bind /\ u.at7e00 = x.at7e00
  BY Counted
<1>2. /\ x.si = <<"inode", b>> /\ x.at7e00 = inode_content(k * 512, id)
      /\ x.bx = 69 - b /\ x.bind = 0
  BY DEF LoadingAt
<1>3. u.bx = 68 - b /\ u.bp = b
  BY <1>1, <1>2 DEF SameImage
<1>4. Fetched(u) = u
  BY <1>3 DEF Fetched
<1>5. FetchAt(u, b, id, k)
  <2>1. FetchInode(u, b, id, k)
    BY <1>1, <1>2, <1>3 DEF FetchInode
  <2>2. QED
    BY <2>1 DEF FetchAt
<1>6. QED
  BY <1>1, <1>4, <1>5 DEF Turned

\* for the fourth, .load_indirect has replaced the inode by the index block;
LEMMA FetchFirst ==
  ASSUME NEW n, NEW m, NEW c, NEW ver, NEW k, NEW id, Holds(2, n, m, c, k, id, ver, vol), k > 4,
         NEW x, DOMAIN x = CpuFields, LoadingAt(x, id, k),
         x.bp = 4, NEW u, u = [x EXCEPT !.bx = @ - 1]
  PROVE  Turned(x, Fetched(u), 4, id, k)
<1>1. SameImage(x, u) /\ u.bx = x.bx - 1 /\ u.si = x.si /\ u.bind = x.bind /\ u.at7e00 = x.at7e00
  BY Counted
<1>2. /\ x.si = <<"inode", 4>> /\ x.at7e00 = inode_content(k * 512, id)
      /\ x.bx = 65 /\ x.bind = 0
  BY DEF LoadingAt
<1>3. u.bx = 64 /\ u.bp = 4 /\ DOMAIN u = CpuFields
  BY <1>1, <1>2 DEF SameImage
<1>4. PICK y : y = loaded_indirect(u)
  OBVIOUS
<1>5. Fetched(u) = y
  BY <1>3, <1>4 DEF Fetched
<1>6. lods(u.si, u) = inode_content(k * 512, id).slot[4]
  BY <1>1, <1>2 DEF lods, inode_content
<1>7. load_block(inode_content(k * 512, id).slot[4]) = block_content(64, id, <<4>>)
  <2>1. k \in Nat
    BY DEF Holds
  <2>2. 4 \in 0 .. k - 1 /\ 4 \in 4 .. 67
    BY <2>1
  <2>3. QED
    BY <2>2, LoadsIndirect
<1>13. IndirectDone(u, y)
  BY <1>3, <1>4, AfterIndirect
<1>8. /\ DOMAIN y = CpuFields /\ y.at = u.at /\ y.bx = u.bx /\ y.bind = u.bind /\ y.di = u.di
      /\ y.at7a00 = u.at7a00 /\ y.at7e00 = load_block(lods(u.si, u)) /\ y.bp = u.bp
      /\ y.si = <<"at7e00", 0>> /\ y.mem = u.mem
  BY <1>13 DEF IndirectDone
<1>9. SameImage(x, y)
  BY <1>1, <1>8 DEF SameImage
<1>10. /\ y.si = <<"at7e00", 4 - 4>> /\ y.at7e00 = block_content(64, id, <<4>>)
       /\ y.bx = 68 - 4 /\ y.bind = 0
  BY <1>1, <1>2, <1>3, <1>6, <1>7, <1>8
<1>11. FetchAt(y, 4, id, k)
  BY <1>10 DEF FetchAt, FetchIndex
<1>12. QED
  BY <1>5, <1>9, <1>11 DEF Turned

\* for those behind it, si is in that block.
LEMMA FetchIndirect ==
  ASSUME NEW k \in Nat, NEW id, NEW x, DOMAIN x = CpuFields, LoadingAt(x, id, k),
         NEW b \in 5 .. 67, x.bp = b, NEW u, u = [x EXCEPT !.bx = @ - 1]
  PROVE  Turned(x, Fetched(u), b, id, k)
<1>1. SameImage(x, u) /\ u.bx = x.bx - 1 /\ u.si = x.si /\ u.bind = x.bind /\ u.at7e00 = x.at7e00
  BY Counted
<1>2. /\ x.si = <<"at7e00", b - 4>> /\ x.at7e00 = block_content(64, id, <<4>>)
      /\ x.bx = 69 - b /\ x.bind = 0
  BY DEF LoadingAt
<1>3. u.bx = 68 - b /\ u.bp = b
  BY <1>1, <1>2 DEF SameImage
<1>4. Fetched(u) = u
  BY <1>3 DEF Fetched
<1>5. FetchAt(u, b, id, k)
  <2>1. FetchIndex(u, b, id)
    <3>1. b \in 4 .. 67
      OBVIOUS
    <3>2. QED
      BY <1>1, <1>2, <1>3, <3>1 DEF FetchIndex
  <2>2. QED
    BY <2>1 DEF FetchAt
<1>6. QED
  BY <1>1, <1>4, <1>5 DEF Turned

\* Stage 1 in the blocks behind the double indirect block.
LEMMA FetchDouble ==
  ASSUME NEW k \in Nat, NEW id, NEW x, DOMAIN x = CpuFields, LoadingAt(x, id, k),
         NEW q, NEW r, NEW b, InBind(64, q, r, b), r # 0, x.bp = b,
         NEW u, u = [x EXCEPT !.bx = @ - 1]
  PROVE  Turned(x, Fetched(u), b, id, k)
<1>1. SameImage(x, u) /\ u.bx = x.bx - 1 /\ u.si = x.si /\ u.bind = x.bind /\ u.at7e00 = x.at7e00
  BY Counted
<1> q \in 0 .. 63 /\ r \in 1 .. 63 /\ b \in Nat
  BY DEF InBind
<1>2. b = 68 + 64 * q + r /\ b > 68 /\ x.bp = b
  BY DEF InBind
<1>3. (b - 69) % 64 = r - 1 /\ (b - 69) \div 64 = q
  <2>1. PICK t \in Nat : t = r - 1 /\ b - 69 = 64 * q + t /\ t \in 0 .. 63
    BY <1>2
  <2>2. (64 * q + t) % 64 = t /\ (64 * q + t) \div 64 = q
    <3>1. q \in Nat /\ t \in 0 .. 63
      BY <2>1
    <3>2. QED
      BY ONLY <3>1
  <2>3. QED
    BY <2>1, <2>2
<1>4. /\ x.bx = 64 - (r - 1) /\ x.bind = q + 1 /\ x.si = <<"at7e00", (r - 1) + 1>>
      /\ x.at7e00 = block_content(64, id, <<5, q>>)
  <2>1. /\ x.bx = 64 - ((b - 69) % 64) /\ x.bind = (b - 69) \div 64 + 1
        /\ x.si = <<"at7e00", ((b - 69) % 64) + 1>>
        /\ x.at7e00 = block_content(64, id, <<5, (b - 69) \div 64>>)
    <3>1. x.bp > 68
      BY <1>2
    <3>2. /\ x.bx = 64 - ((x.bp - 69) % 64) /\ x.bind = (x.bp - 69) \div 64 + 1
          /\ x.si = <<"at7e00", ((x.bp - 69) % 64) + 1>>
          /\ x.at7e00 = block_content(64, id, <<5, (x.bp - 69) \div 64>>)
      BY <3>1 DEF LoadingAt
    <3>3. QED
      BY <1>2, <3>2
  <2>2. QED
    BY <1>3, <2>1
<1>5. u.bx = 64 - r /\ u.bp = b /\ u.si = <<"at7e00", r>>
  BY <1>1, <1>2, <1>4 DEF SameImage
<1>6. Fetched(u) = u
  BY <1>2, <1>5 DEF Fetched
<1>7. FetchAt(u, b, id, k)
  <2>1. FetchBound(u, b, id, q, r)
    <3>1. r \in 0 .. 63 /\ u.bind = q + 1 /\ u.at7e00 = block_content(64, id, <<5, q>>)
      BY <1>1, <1>4
    <3>2. QED
      BY <1>2, <1>5, <3>1 DEF FetchBound
  <2>2. QED
    BY <2>1 DEF FetchAt
<1>8. QED
  BY <1>1, <1>2, <1>6, <1>7 DEF Turned

\* Stage 1 when it reaches the next index block.
LEMMA FetchBind ==
  ASSUME NEW n, NEW m, NEW c, NEW ver, NEW k, NEW id, Holds(2, n, m, c, k, id, ver, vol),
         NEW x, DOMAIN x = CpuFields, LoadingAt(x, id, k),
         NEW q \in 0 .. 63, NEW b \in 0 .. k - 1, b = 68 + 64 * q, x.bp = b,
         NEW u, u = [x EXCEPT !.bx = @ - 1]
  PROVE  Turned(x, Fetched(u), b, id, k)
<1>1. SameImage(x, u) /\ u.bx = x.bx - 1 /\ u.si = x.si /\ u.bind = x.bind /\ u.at7e00 = x.at7e00
  BY Counted
<1>2. k \in Nat
  BY DEF Holds
<1>3. b = 68 + 64 * q /\ b >= 68 /\ x.bp = b
  BY <1>2
<1>4. x.bx = 1 /\ x.bind = q /\ x.at7a00 = block_content(64, id, <<5>>)
  <2>1. k > 68
    BY <1>2, <1>3
  <2>2. CASE q = 0
    BY <1>3, <2>1, <2>2 DEF LoadingAt
  <2>3. CASE q # 0
    <3>1. b > 68 /\ (b - 69) % 64 = 63 /\ (b - 69) \div 64 = q - 1
      BY <1>3, <2>3
    <3>2. QED
      BY <1>3, <2>1, <3>1 DEF LoadingAt
  <2>4. QED
    BY <2>2, <2>3
<1>5. u.bx = 0 /\ u.bp = b /\ DOMAIN u = CpuFields /\ u.at7a00 = block_content(64, id, <<5>>)
      /\ u.bind = q
  BY <1>1, <1>3, <1>4 DEF SameImage
<1>6. PICK y : y = loaded_bind(u)
  OBVIOUS
<1>7. Fetched(u) = y
  BY <1>5, <1>6 DEF Fetched
<1>14. BindDone(u, y)
  BY <1>5, <1>6, AfterBind
<1>8. /\ DOMAIN y = CpuFields /\ y.at = u.at /\ y.bx = 64 /\ y.bind = u.bind + 1 /\ y.di = u.di
      /\ y.at7a00 = u.at7a00 /\ y.at7e00 = load_block(word(u.at7a00, u.bind)) /\ y.bp = u.bp
      /\ y.si = <<"at7e00", 0>> /\ y.mem = u.mem
  BY <1>14 DEF BindDone
<1>9. load_block(word(block_content(64, id, <<5>>), q)) = block_content(64, id, <<5, q>>)
  <2>1. InBind(64, q, 0, b)
    BY <1>2, <1>3 DEF InBind
  <2>2. LoadedBind(id, ver, k, b, q, 0)
    BY <2>1, LoadsDouble
  <2>3. QED
    BY <2>2 DEF LoadedBind
<1>10. SameImage(x, y)
  BY <1>1, <1>8 DEF SameImage
<1>11. /\ y.si = <<"at7e00", 0>> /\ y.at7e00 = block_content(64, id, <<5, q>>)
       /\ y.bx = 64 - 0 /\ y.bind = q + 1 /\ b = 68 + 64 * q + 0
  BY <1>3, <1>5, <1>8, <1>9
<1>12. FetchAt(y, b, id, k)
  <2>1. FetchBound(y, b, id, q, 0)
    BY <1>11 DEF FetchBound
  <2>2. QED
    BY <2>1 DEF FetchAt
<1>13. QED
  BY <1>3, <1>7, <1>10, <1>12 DEF Turned

\* Every turn finds the id of its block.
LEMMA FetchAny ==
  ASSUME NEW n, NEW m, NEW c, NEW ver, NEW k, NEW id, Bootable(n, m, c, k, id, ver),
         NEW x, DOMAIN x = CpuFields, LoadingAt(x, id, k), NEW b \in 0 .. k - 1, x.bp = b,
         NEW u, u = [x EXCEPT !.bx = @ - 1]
  PROVE  Turned(x, Fetched(u), b, id, k)
<1>7. Holds(2, n, m, c, k, id, ver, vol) /\ k \in 1 .. 4000
  BY DEF Bootable
<1>8. k \in Nat
  BY ONLY <1>7
<1>1. Holds(2, n, m, c, k, id, ver, vol) /\ k \in Nat
  BY <1>7, <1>8
<1>2. CASE b \in 0 .. 3
  BY <1>1, <1>2, FetchDirect
<1>3. CASE b = 4
  <2>1. k > 4 /\ x.bp = 4
    BY <1>1, <1>3
  <2>2. Turned(x, Fetched(u), 4, id, k)
    BY <1>1, <2>1, FetchFirst
  <2>3. QED
    BY <1>3, <2>2
<1>4. CASE b \in 5 .. 67
  BY <1>1, <1>4, FetchIndirect
<1>5. CASE b >= 68
  <2>1. PICK q \in 0 .. 63, r \in 0 .. 63 : b = 68 + 64 * q + r
    <3>1. PICK t \in 0 .. 3999 : b = 68 + t
      <4>1. b - 68 \in 0 .. 3999 /\ b = 68 + (b - 68)
        <5>1. b \in 0 .. k - 1 /\ k \in 1 .. 4000
          BY <1>7
        <5>2. QED
          BY ONLY <1>5, <5>1
      <4>2. QED
        BY <4>1
    <3>2. t \div 64 \in 0 .. 63 /\ t % 64 \in 0 .. 63 /\ t = 64 * (t \div 64) + (t % 64)
      BY ONLY <3>1
    <3>3. QED
      BY <3>1, <3>2
  <2>2. CASE r = 0
    <3>1. b = 68 + 64 * q
      BY <2>1, <2>2
    <3>2. QED
      BY <1>1, <3>1, FetchBind
  <2>3. CASE r # 0
    <3>1. InBind(64, q, r, b)
      BY <1>1, <2>1 DEF InBind
    <3>2. QED
      BY <1>1, <2>3, <3>1, FetchDouble
  <2>4. QED
    BY <2>2, <2>3
<1>6. QED
  BY <1>1, <1>2, <1>3, <1>4, <1>5

\* The id is the one of the b-th block of the file.
LEMMA FetchLoads ==
  ASSUME NEW n, NEW m, NEW c, NEW ver, NEW k, NEW id, Holds(2, n, m, c, k, id, ver, vol),
         NEW d, NEW b \in 0 .. k - 1, FetchAt(d, b, id, k)
  PROVE  load_block(lods(d.si, d)) = Block(ver, b)
<1>1. CASE FetchInode(d, b, id, k)
  <2>1. b \in 0 .. 3 /\ d.si = <<"inode", b>> /\ d.at7e00 = inode_content(k * 512, id)
    BY <1>1 DEF FetchInode
  <2>2. inode_content(k * 512, id).kind = "inode"
    BY DEF inode_content
  <2>3. lods(d.si, d) = inode_content(k * 512, id).slot[b]
    BY <2>1, <2>2 DEF lods
  <2>4. b < 4
    BY <2>1
  <2>5. QED
    BY <2>3, <2>4, LoadsDirect
<1>2. CASE FetchIndex(d, b, id)
  <2>1. b \in 4 .. 67 /\ d.si = <<"at7e00", b - 4>> /\ d.at7e00 = block_content(64, id, <<4>>)
    BY <1>2 DEF FetchIndex
  <2>2. lods(d.si, d) = word(block_content(64, id, <<4>>), b - 4)
    BY <2>1 DEF lods
  <2>3. QED
    BY <2>1, <2>2, LoadsIndirect
<1>3. CASE \E q, r : FetchBound(d, b, id, q, r)
  <2>1. PICK q, r : FetchBound(d, b, id, q, r)
    BY <1>3
  <2>2. /\ q \in 0 .. 63 /\ r \in 0 .. 63 /\ b = 68 + 64 * q + r /\ d.si = <<"at7e00", r>>
        /\ d.at7e00 = block_content(64, id, <<5, q>>)
    BY <2>1 DEF FetchBound
  <2>3. lods(d.si, d) = word(block_content(64, id, <<5, q>>), r)
    BY <2>2 DEF lods
  <2>4. InBind(64, q, r, b)
    BY <2>2 DEF InBind
  <2>5. LoadedBind(id, ver, k, b, q, r)
    BY <2>4, LoadsDouble
  <2>6. QED
    BY <2>3, <2>5 DEF LoadedBind
<1>4. QED
  BY <1>1, <1>2, <1>3 DEF FetchAt

\* The registers after the block, ready for the next one.
LEMMA NextBlock ==
  ASSUME NEW k \in Nat, NEW id, NEW x, LoadingAt(x, id, k),
         NEW b \in 0 .. k - 1, x.bp = b, NEW d, Turned(x, d, b, id, k),
         NEW y, BlockDone(d, y)
  PROVE  LoadingAt(y, id, k)
<1>7. d.bp = b
  BY DEF Turned, SameImage
<1> /\ y.bp = b + 1 /\ y.si = <<d.si[1], d.si[2] + 1>> /\ y.at7e00 = d.at7e00
    /\ y.at7a00 = d.at7a00 /\ y.bx = d.bx /\ y.bind = d.bind
  BY <1>7 DEF BlockDone
<1>1. k > 68 => y.at7a00 = block_content(64, id, <<5>>)
  BY DEF LoadingAt, Turned, SameImage
<1>2. FetchAt(d, b, id, k)
  BY DEF Turned
<1>3. CASE FetchInode(d, b, id, k)
  <2>1. /\ b \in 0 .. 3 /\ d.si = <<"inode", b>> /\ d.at7e00 = inode_content(k * 512, id)
        /\ d.bx = 68 - b /\ d.bind = 0
    BY <1>3 DEF FetchInode
  <2>2. PICK a \in 1 .. 4 : a = b + 1
    BY <2>1
  <2>3. /\ y.bp = a /\ y.si = <<"inode", a>> /\ y.at7e00 = inode_content(k * 512, id)
        /\ y.bx = 69 - a /\ y.bind = 0
    BY <2>1, <2>2
  <2>4. a <= 4 /\ a \notin 5 .. 68 /\ ~(a > 68)
    BY <2>2
  <2>5. QED
    BY <1>1, <2>3, <2>4 DEF LoadingAt
<1>4. CASE FetchIndex(d, b, id)
  <2>1. /\ b \in 4 .. 67 /\ d.si = <<"at7e00", b - 4>> /\ d.at7e00 = block_content(64, id, <<4>>)
        /\ d.bx = 68 - b /\ d.bind = 0
    BY <1>4 DEF FetchIndex
  <2>2. PICK a \in 5 .. 68 : a = b + 1
    BY <2>1
  <2>3. /\ y.bp = a /\ y.si = <<"at7e00", a - 4>> /\ y.at7e00 = block_content(64, id, <<4>>)
        /\ y.bx = 69 - a /\ y.bind = 0
    BY <2>1, <2>2
  <2>4. ~(a <= 4) /\ ~(a > 68)
    BY <2>2
  <2>5. QED
    BY <1>1, <2>3, <2>4 DEF LoadingAt
<1>5. CASE \E q, r : FetchBound(d, b, id, q, r)
  <2>1. PICK q, r : FetchBound(d, b, id, q, r)
    BY <1>5
  <2>2. /\ q \in 0 .. 63 /\ r \in 0 .. 63 /\ b = 68 + 64 * q + r /\ d.si = <<"at7e00", r>>
        /\ d.at7e00 = block_content(64, id, <<5, q>>) /\ d.bx = 64 - r /\ d.bind = q + 1
    BY <2>1 DEF FetchBound
  <2>3. PICK a \in Nat : a = b + 1 /\ a - 69 = 64 * q + r /\ a > 68
    BY <2>2
  <2>4. (64 * q + r) % 64 = r /\ (64 * q + r) \div 64 = q
    <3>1. q \in Nat /\ r \in 0 .. 63
      BY <2>2
    <3>2. QED
      BY ONLY <3>1
  <2>5. (a - 69) % 64 = r /\ (a - 69) \div 64 = q
    BY <2>3, <2>4
  <2>6. /\ y.bp = a /\ y.bx = 64 - r /\ y.bind = q + 1 /\ y.si = <<"at7e00", r + 1>>
        /\ y.at7e00 = block_content(64, id, <<5, q>>)
    BY <2>2, <2>3
  <2>7. ~(a <= 4) /\ ~(a <= 68) /\ a \notin 5 .. 68
    BY <2>3
  <2>8. QED
    BY <1>1, <2>5, <2>6, <2>7 DEF LoadingAt
<1>6. QED
  BY <1>2, <1>3, <1>4, <1>5 DEF FetchAt

\* One turn of the loop, up to the test for the last block.
LEMMA TurnLoads ==
  ASSUME NEW n, NEW m, NEW c, NEW ver, NEW k, NEW id, Bootable(n, m, c, k, id, ver),
         NEW x, CpuAt(x, id, ver, k), x.at = "loop",
         NEW u, u = [x EXCEPT !.bx = @ - 1], NEW e, e = loaded_block(Fetched(u))
  PROVE  CpuAt(IF e.bp = e.di THEN [e EXCEPT !.at = "stage2"] ELSE e, id, ver, k)
<1>1. Holds(2, n, m, c, k, id, ver, vol) /\ k \in 1 .. 4000
  BY DEF Bootable
<1>2. k \in Nat
  BY ONLY <1>1
<1>3. /\ DOMAIN x = CpuFields /\ x.bp \in 0 .. k /\ x.di = k /\ LoadingAt(x, id, k)
      /\ x.mem = [j \in 1 .. x.bp |-> Block(ver, j - 1)] /\ x.bp # k
  BY DEF CpuAt, Block
<1>4. PICK b \in 0 .. k - 1 : b = x.bp
  BY <1>2, <1>3
<1>5. PICK d : d = Fetched(u)
  OBVIOUS
<1>6. Turned(x, d, b, id, k)
  BY <1>3, <1>4, <1>5, FetchAny
<1>7. SameImage(x, d) /\ FetchAt(d, b, id, k)
  BY <1>6 DEF Turned
<1>8. /\ DOMAIN d = CpuFields /\ d.at = "loop" /\ d.di = k /\ d.bp = b
      /\ d.mem = [j \in 1 .. b |-> Block(ver, j - 1)]
  BY <1>3, <1>4, <1>7 DEF SameImage
<1>9. BlockDone(d, e)
  BY <1>5, <1>8, AfterBlock
<1>10. load_block(lods(d.si, d)) = Block(ver, b)
  BY <1>1, <1>7, FetchLoads
<1>11. /\ DOMAIN e = CpuFields /\ e.at = "loop" /\ e.di = k /\ e.bp = b + 1
       /\ e.si = <<d.si[1], d.si[2] + 1>> /\ e.at7e00 = d.at7e00
       /\ e.at7a00 = d.at7a00 /\ e.bx = d.bx /\ e.bind = d.bind
       /\ e.mem = Append(d.mem, Block(ver, b))
  BY <1>8, <1>9, <1>10 DEF BlockDone
<1>12. e.mem = [j \in 1 .. b + 1 |-> Block(ver, j - 1)]
  <2>1. b \in Nat
    BY <1>2
  <2>2. PICK f : f = [j \in 1 .. b |-> Block(ver, j - 1)]
    OBVIOUS
  <2>3. Append(f, Block(ver, b)) = [j \in 1 .. b + 1 |-> Block(ver, j - 1)]
    BY <2>1, <2>2, OneMore
  <2>4. QED
    BY <1>8, <1>11, <2>2, <2>3
<1>13. e.mem = [j \in 1 .. e.bp |-> [kind |-> "image", version |-> ver[j - 1], nth |-> j - 1]]
  BY <1>11, <1>12 DEF Block
<1>14. e.bp \in 0 .. k
  BY <1>2, <1>4, <1>11
<1>15. CASE e.bp = k
  <2>1. PICK y : y = [e EXCEPT !.at = "stage2"]
    OBVIOUS
  <2>2. /\ DOMAIN y = CpuFields /\ y.at = "stage2" /\ y.bp = e.bp /\ y.di = e.di /\ y.mem = e.mem
    BY <1>11, <2>1 DEF CpuFields
  <2>3. CpuAt(y, id, ver, k)
    BY <1>11, <1>13, <1>14, <1>15, <2>2 DEF CpuAt
  <2>4. QED
    BY <1>11, <1>15, <2>1, <2>3
<1>16. CASE e.bp # k
  <2>1. LoadingAt(e, id, k)
    BY <1>2, <1>3, <1>4, <1>6, <1>9, NextBlock
  <2>2. CpuAt(e, id, ver, k)
    BY <1>11, <1>13, <1>14, <1>16, <2>1 DEF CpuAt
  <2>3. QED
    BY <1>11, <1>16, <2>2
<1>17. QED
  BY <1>15, <1>16

\* A turn of the loop keeps the registers as the invariant has them.
LEMMA LoadKeeps ==
  ASSUME NEW s, NEW n, NEW m, NEW c, Based(s, n, m, c), NEW id, NEW ver, NEW k, NEW l, NEW v,
         Running(s, n, m, c, vol, id, ver, k, l, v, cpu), loading_object
  PROVE  Running(s, n, m, c, vol, id, ver, k, l, v, cpu')
<1>1. InstalledAt(s, n, m, c, vol, id, ver, k, l, v)
  BY DEF Running
<1>2. PICK u, e : /\ u = [cpu EXCEPT !.bx = @ - 1] /\ e = loaded_block(Fetched(u))
                  /\ cpu' = IF e.bp = e.di THEN [e EXCEPT !.at = "stage2"] ELSE e
  <2>1. PICK u \in {[cpu EXCEPT !.bx = @ - 1]} :
           \E d \in {Fetched(u)} : \E e \in {loaded_block(d)} :
             cpu' = IF e.bp = e.di THEN [e EXCEPT !.at = "stage2"] ELSE e
    BY Zenon DEF loading_object, Fetched
  <2>2. PICK d \in {Fetched(u)} : \E e \in {loaded_block(d)} :
           cpu' = IF e.bp = e.di THEN [e EXCEPT !.at = "stage2"] ELSE e
    BY <2>1, Zenon
  <2>3. PICK e \in {loaded_block(d)} :
           cpu' = IF e.bp = e.di THEN [e EXCEPT !.at = "stage2"] ELSE e
    BY <2>2, Zenon
  <2>4. u = [cpu EXCEPT !.bx = @ - 1] /\ e = loaded_block(Fetched(u))
    BY <2>1, <2>2, <2>3, Zenon
  <2>5. QED
    BY <2>3, <2>4, Zenon
<1>3. cpu.at = "loop"
  BY DEF loading_object
<1>4. s = 2 /\ CpuAt(cpu, id, ver, k)
  <2>1. cpu # Off /\ cpu # [at |-> "wild"]
    BY <1>3 DEF Off
  <2>2. QED
    BY <2>1 DEF Running
<1>5. Bootable(n, m, c, k, id, ver)
  BY <1>1, <1>4, OnSectors
<1>6. PICK x : x = cpu
  OBVIOUS
<1>7. CpuAt(IF e.bp = e.di THEN [e EXCEPT !.at = "stage2"] ELSE e, id, ver, k)
  <2>1. CpuAt(x, id, ver, k) /\ x.at = "loop" /\ u = [x EXCEPT !.bx = @ - 1]
    BY <1>2, <1>3, <1>4, <1>6
  <2>2. e = loaded_block(Fetched(u))
    BY <1>2
  <2>3. QED
    BY <1>5, <2>1, <2>2, TurnLoads
<1>8. QED
  BY <1>1, <1>2, <1>4, <1>7 DEF Running
-----------------------------------------------------------------------------
\* The invariant over all steps, and the theorems.

\* No step of mkudbfs follows its last one.
LEMMA StepsBefore ==
  ASSUME mkudbfs \/ stopped
  PROVE  pc # "done" /\ UNCHANGED <<vol, tree, made, cpu>>
<1>1. CASE mkudbfs
  BY <1>1 DEF mkudbfs, Step, Probe, ProbeEnd, Layout, Reserve, create_table, add_column,
     define_table, close_root, bad_blocks, journal, write_superblock, write_bitmaps
<1>2. CASE stopped
  BY <1>2 DEF stopped, Killed, Over
<1>3. QED
  BY <1>1, <1>2

\* The invariant, from the state it describes.
LEMMA VInvFrom ==
  ASSUME NEW s, NEW n, NEW m, NEW c, Based(s, n, m, c), UNCHANGED <<sb, cols>>,
         pc' = "done", vol' # {},
         \E now \in [0 .. made'.blocks - 1 -> Nat] :
           Running(s, n, m, c, vol', tree', now, made'.blocks, made'.last, made'.version, cpu')
  PROVE  VInv'
<1>1. s = sb'.block_size /\ n = sb'.block_count /\ m = sb'.inode_count /\ c = cols'
  BY DEF Based, SuperAt
<1>2. QED
  BY <1>1 DEF VInv

\* The invariant at the start.
LEMMA VInvInit ==
  ASSUME BootInit
  PROVE  VInv
BY DEF BootInit, VInv

\* The invariant over a step of mkudbfs, of udb-instboot or of stage 1.
LEMMA VInvNext ==
  ASSUME FInv, VInv, [BootNext]_boot_vars
  PROVE  VInv'
<1>1. CASE mkudbfs \/ stopped
  <2>1. pc # "done" /\ UNCHANGED <<vol, tree, made, cpu>>
    BY <1>1, StepsBefore
  <2>2. vol = {}
    BY <2>1 DEF VInv
  <2>3. vol' = {} /\ tree' = tree /\ made' = made /\ cpu' = cpu
    BY <2>1, <2>2
  <2>4. QED
    BY <2>2, <2>3 DEF VInv
<1>2. ASSUME NEW k \in Images, instboot(k) PROVE VInv'
  <2>1. pc = "done"
    BY <1>2 DEF instboot
  <2>2. PICK s, n, m, c : Based(s, n, m, c)
    BY <2>1, BasedAt
  <2>3. PICK a, v0, ver :
           /\ a \in Nat /\ v0 \in Nat /\ a = made.blocks /\ v0 = made.version
           /\ ver \in [0 .. a - 1 -> Nat]
           /\ Found(s, n, m, c, a, ver, volume_super, volume)
    <3>1. CASE vol = {}
      <4>1. /\ made.blocks = 0 /\ made.version = 0
            /\ \A ver : Found(s, n, m, c, 0, ver, volume_super, volume)
        BY <2>2, <3>1, FreshFound
      <4>2. PICK ver : ver = [j \in 0 .. 0 - 1 |-> 0]
        OBVIOUS
      <4>3. ver \in [0 .. 0 - 1 -> Nat]
        BY <4>2
      <4>4. Found(s, n, m, c, 0, ver, volume_super, volume)
        BY <4>1
      <4>5. QED
        BY <4>1, <4>3, <4>4
    <3>2. CASE vol # {}
      BY <2>2, <3>2, InstalledFound
    <3>3. QED
      BY <3>1, <3>2
  <2>4. /\ pc' = "done" /\ vol' # {} /\ UNCHANGED <<sb, cols>>
        /\ \E now \in [0 .. made'.blocks - 1 -> Nat] :
             Running(s, n, m, c, vol', tree', now, made'.blocks, made'.last, made'.version, cpu')
    BY <1>2, <2>2, <2>3, InstallKeeps
  <2>5. QED
    BY <2>2, <2>4, VInvFrom
<1>3. CASE stage1_start \/ loading_object
  <2>1. vol # {} /\ UNCHANGED <<pc, sb, cols, vol, tree, made>>
    <3>1. CASE stage1_start
      BY <3>1 DEF stage1_start
    <3>2. CASE loading_object
      <4>1. cpu # Off
        BY <3>2 DEF loading_object, Off
      <4>2. vol # {}
        BY <4>1 DEF VInv
      <4>3. QED
        BY <3>2, <4>2 DEF loading_object
    <3>3. QED
      BY <1>3, <3>1, <3>2
  <2>2. pc = "done"
    BY <2>1 DEF VInv
  <2>3. PICK s, n, m, c : Based(s, n, m, c)
    BY <2>2, BasedAt
  <2>4. PICK id, k, l, v : id = tree /\ k = made.blocks /\ l = made.last /\ v = made.version
    OBVIOUS
  <2>5. PICK ver \in [0 .. k - 1 -> Nat] : Running(s, n, m, c, vol, id, ver, k, l, v, cpu)
    BY <2>1, <2>3, <2>4, InstalledFound
  <2>6. Running(s, n, m, c, vol, id, ver, k, l, v, cpu')
    <3>1. CASE stage1_start
      BY <2>3, <2>4, <2>5, <3>1, StartKeeps
    <3>2. CASE loading_object
      BY <2>3, <2>5, <3>2, LoadKeeps
    <3>3. QED
      BY <1>3, <3>1, <3>2
  <2>7. /\ vol' = vol /\ tree' = id /\ made'.blocks = k /\ made'.last = l /\ made'.version = v
        /\ pc' = "done" /\ vol' # {} /\ UNCHANGED <<sb, cols>>
    BY <2>1, <2>2, <2>4
  <2>8. \E now \in [0 .. made'.blocks - 1 -> Nat] :
          Running(s, n, m, c, vol', tree', now, made'.blocks, made'.last, made'.version, cpu')
    BY <2>5, <2>6, <2>7
  <2>9. QED
    BY <2>3, <2>7, <2>8, VInvFrom
<1>4. CASE UNCHANGED boot_vars
  <2>1. UNCHANGED <<pc, sb, cols, vol, tree, made, cpu>>
    BY <1>4 DEF boot_vars
  <2>2. QED
    BY <2>1 DEF VInv
<1>5. QED
  BY <1>1, <1>2, <1>3, <1>4 DEF BootNext

\* What the invariants say of the image in memory.
LEMMA LoadedWhole ==
  ASSUME FInv, VInv, "other_blocks" \notin Allow
  PROVE  ImageLoaded
<1>1. CASE vol = {}
  BY <1>1 DEF VInv, ImageLoaded, Off
<1>2. CASE vol # {}
  <2>1. pc = "done"
    BY <1>2 DEF VInv
  <2>2. PICK s, n, m, c : Based(s, n, m, c)
    BY <2>1, BasedAt
  <2>3. PICK k, l, v, x : k = made.blocks /\ l = made.last /\ v = made.version /\ x = cpu
    OBVIOUS
  <2>4. PICK ver \in [0 .. k - 1 -> Nat] : Running(s, n, m, c, vol, tree, ver, k, l, v, x)
    BY <1>2, <2>2, <2>3, InstalledFound
  <2>5. k \in Nat \ {0} /\ l \in 1 .. k /\ \A j \in 0 .. l - 1 : ver[j] = v
    BY <2>4 DEF Running, InstalledAt
  <2>6. CASE x = Off
    BY <2>3, <2>6 DEF Off, ImageLoaded
  <2>7. CASE CpuAt(x, tree, ver, k)
    <3>1. /\ x.bp \in 0 .. k
          /\ x.mem = [j \in 1 .. x.bp |-> [kind |-> "image", version |-> ver[j - 1], nth |-> j - 1]]
          /\ x.at = IF x.bp = k THEN "stage2" ELSE "loop"
      BY <2>7 DEF CpuAt
    <3>2. x.at # "wild"
      BY <3>1
    <3>3. CASE x.at = "stage2"
      <4>1. x.mem = [j \in 1 .. k |-> [kind |-> "image", version |-> ver[j - 1], nth |-> j - 1]]
        BY <3>1, <3>3
      <4>2. Len(x.mem) = k
        BY <2>5, <4>1
      <4>3. ASSUME NEW j \in 1 .. k
            PROVE  /\ x.mem[j].kind = "image" /\ x.mem[j].nth = j - 1
                   /\ j <= l => x.mem[j].version = v
        <5>1. x.mem[j] = [kind |-> "image", version |-> ver[j - 1], nth |-> j - 1]
          BY <4>1
        <5>2. j <= l => j - 1 \in 0 .. l - 1
          BY <2>5
        <5>3. QED
          BY <2>5, <5>1, <5>2
      <4>4. QED
        BY <2>3, <3>2, <4>2, <4>3 DEF ImageLoaded
    <3>4. CASE x.at # "stage2"
      BY <2>3, <3>2, <3>4 DEF ImageLoaded
    <3>5. QED
      BY <3>3, <3>4
  <2>8. QED
    BY <2>4, <2>6, <2>7 DEF Running
<1>3. QED
  BY <1>1, <1>2

\* However often udb-instboot runs, with images of any sizes the device has room
\* for and on blocks of any size, what mkudbfs wrote for the root table and the
\* system inodes stays, no two blocks of the image's tree are one block, all are
\* taken in the bitmap, and the free count of the superblock is the number of
\* free bits.
THEOREM InstallKeepsFileSystem ==
  ASSUME {"tiny_device", "junk", "killed_late"} \cap Allow = {}
  PROVE  BootSpec => []InstallKeepsDisk
<1>1. BootInit => FInv /\ VInv
  BY FInvInit, VInvInit DEF BootInit
<1>2. FInv /\ VInv /\ [BootNext]_boot_vars => (FInv /\ VInv)'
  BY FInvNext, VInvNext
<1>3. FInv /\ VInv => InstallKeepsDisk
  BY InstallWhole
<1>4. QED
  BY <1>1, <1>2, <1>3, PTL DEF BootSpec

\* Stage 1 enters stage 2 with the whole image in memory, whatever the number of
\* its blocks, the installations before it and the geometry the BIOS reports:
\* its own walk over inode, single and double indirect blocks, with a counter
\* and an instruction it modifies, finds the blocks that the library's tree has,
\* in order.  Excluded besides is a block size other than 512, on which it runs
\* wild.
THEOREM StageOneLoadsImage ==
  ASSUME {"tiny_device", "junk", "killed_late", "other_blocks"} \cap Allow = {}
  PROVE  BootSpec => []ImageLoaded
<1>1. BootInit => FInv /\ VInv
  BY FInvInit, VInvInit DEF BootInit
<1>2. FInv /\ VInv /\ [BootNext]_boot_vars => (FInv /\ VInv)'
  BY FInvNext, VInvNext
<1>3. FInv /\ VInv => ImageLoaded
  BY LoadedWhole
<1>4. QED
  BY <1>1, <1>2, <1>3, PTL DEF BootSpec
=============================================================================
