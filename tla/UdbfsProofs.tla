---------------------------- MODULE UdbfsProofs ----------------------------
(***************************************************************************)
(* What a client that heeds the known limits of udbfslib can rely on, for  *)
(* every device, block size and number of files: one inode open at a time, *)
(* no write past the blocks of a reopened inode or without room for its    *)
(* index blocks, only inodes freed that deallocate_bit frees correctly, and*)
(* a death between the saves of an unmount only where the bitmaps have no  *)
(* bits past the end of the device (Heeding); death may come anywhere else.*)
(*                                                                         *)
(* The inductive invariant UdbfsInv follows the data: bitmaps and list,    *)
(* then every file's tree (Whole), contents (Written) and ownership        *)
(* (FilesKept), and what of it is already on the device (FilesSecure).     *)
(***************************************************************************)
EXTENDS Udbfs, NumberLemmas
-----------------------------------------------------------------------------
\* The block tree of an inode, for every block size: which block a position is in,
\* and that a tree that was saved is loaded again.

\* A tuple of two: its length, entries, front and last.
LEMMA Tuples2 ==
  ASSUME NEW a, NEW b
  PROVE  /\ Len(<<a, b>>) = 2 /\ <<a, b>>[1] = a /\ <<a, b>>[2] = b
         /\ Front(<<a, b>>) = <<a>> /\ Last(<<a, b>>) = b /\ Append(<<a>>, b) = <<a, b>>
<1>1. Front(<<a, b>>) = [i \in 1 .. 1 |-> <<a, b>>[i]]
  BY DEF Front
<1>2. <<a>> = [i \in 1 .. 1 |-> <<a, b>>[i]]
  OBVIOUS
<1>3. Append(<<a>>, b) = [i \in 1 .. 2 |-> IF i = 2 THEN b ELSE <<a>>[i]]
  OBVIOUS
<1>4. <<a, b>> = [i \in 1 .. 2 |-> IF i = 2 THEN b ELSE <<a>>[i]]
  OBVIOUS
<1>5. Len(<<a, b>>) = 2 /\ <<a, b>>[1] = a /\ <<a, b>>[2] = b /\ Last(<<a, b>>) = b
  BY DEF Last
<1>6. QED
  BY <1>1, <1>2, <1>3, <1>4, <1>5

\* A tuple of three.
LEMMA Tuples3 ==
  ASSUME NEW a, NEW b, NEW c
  PROVE  /\ Len(<<a, b, c>>) = 3
         /\ <<a, b, c>>[1] = a /\ <<a, b, c>>[2] = b /\ <<a, b, c>>[3] = c
         /\ Front(<<a, b, c>>) = <<a, b>> /\ Last(<<a, b, c>>) = c
         /\ Append(<<a, b>>, c) = <<a, b, c>>
<1>1. Front(<<a, b, c>>) = [i \in 1 .. 2 |-> <<a, b, c>>[i]]
  BY DEF Front
<1>2. <<a, b>> = [i \in 1 .. 2 |-> <<a, b, c>>[i]]
  OBVIOUS
<1>3. Append(<<a, b>>, c) = [i \in 1 .. 3 |-> IF i = 3 THEN c ELSE <<a, b>>[i]]
  OBVIOUS
<1>4. <<a, b, c>> = [i \in 1 .. 3 |-> IF i = 3 THEN c ELSE <<a, b>>[i]]
  OBVIOUS
<1>5. /\ Len(<<a, b, c>>) = 3 /\ Last(<<a, b, c>>) = c
      /\ <<a, b, c>>[1] = a /\ <<a, b, c>>[2] = b /\ <<a, b, c>>[3] = c
  BY DEF Last
<1>6. QED
  BY <1>1, <1>2, <1>3, <1>4, <1>5

\* A tuple of four.
LEMMA Tuples4 ==
  ASSUME NEW a, NEW b, NEW c, NEW d
  PROVE  /\ Len(<<a, b, c, d>>) = 4
         /\ <<a, b, c, d>>[1] = a /\ <<a, b, c, d>>[2] = b
         /\ <<a, b, c, d>>[3] = c /\ <<a, b, c, d>>[4] = d
         /\ Front(<<a, b, c, d>>) = <<a, b, c>> /\ Last(<<a, b, c, d>>) = d
         /\ Append(<<a, b, c>>, d) = <<a, b, c, d>>
<1>1. Front(<<a, b, c, d>>) = [i \in 1 .. 3 |-> <<a, b, c, d>>[i]]
  BY DEF Front
<1>2. <<a, b, c>> = [i \in 1 .. 3 |-> <<a, b, c, d>>[i]]
  OBVIOUS
<1>3. Append(<<a, b, c>>, d) = [i \in 1 .. 4 |-> IF i = 4 THEN d ELSE <<a, b, c>>[i]]
  OBVIOUS
<1>4. <<a, b, c, d>> = [i \in 1 .. 4 |-> IF i = 4 THEN d ELSE <<a, b, c>>[i]]
  OBVIOUS
<1>5. /\ Len(<<a, b, c, d>>) = 4 /\ Last(<<a, b, c, d>>) = d
      /\ <<a, b, c, d>>[1] = a /\ <<a, b, c, d>>[2] = b
      /\ <<a, b, c, d>>[3] = c /\ <<a, b, c, d>>[4] = d
  BY DEF Last
<1>6. QED
  BY <1>1, <1>2, <1>3, <1>4, <1>5

\* A path is one of four shapes, by the number of index blocks it goes
\* through.
LEMMA PathForms ==
  ASSUME NEW p \in Path
  PROVE  \/ \E s \in Slot : p = <<s>>
         \/ \E s \in 4 .. 6, i \in Entry : p = <<s, i>>
         \/ \E s \in 5 .. 6, i \in Entry, j \in Entry : p = <<s, i, j>>
         \/ \E i \in Entry, j \in Entry, k \in Entry : p = <<6, i, j, k>>
BY DEF Path

\* A path has one to four steps and starts at a slot deep enough for them.
LEMMA PathFacts ==
  ASSUME NEW p \in Path
  PROVE  /\ Len(p) \in 1 .. 4 /\ p[1] \in Slot /\ Len(p) <= Depth(p[1]) + 1
         /\ Len(p) = 1 => p = <<p[1]>>
<1>1. CASE \E s \in Slot : p = <<s>>
  BY <1>1 DEF Slot, Depth
<1>2. CASE \E s \in 4 .. 6, i \in Entry : p = <<s, i>>
  BY <1>2, Tuples2 DEF Slot, Depth
<1>3. CASE \E s \in 5 .. 6, i \in Entry, j \in Entry : p = <<s, i, j>>
  BY <1>3, Tuples3 DEF Slot, Depth
<1>4. CASE \E i \in Entry, j \in Entry, k \in Entry : p = <<6, i, j, k>>
  BY <1>4, Tuples4 DEF Slot, Depth
<1>5. QED
  BY <1>1, <1>2, <1>3, <1>4, PathForms

(* The parent of a block and its place in it. *)
LEMMA Parent ==
  ASSUME NEW p \in Path, Len(p) > 1
  PROVE  /\ Front(p) \in Path /\ IsIndex(Front(p)) /\ Len(Front(p)) = Len(p) - 1
         /\ Last(p) \in Entry /\ Append(Front(p), Last(p)) = p /\ Front(p)[1] = p[1]
<1>2. CASE \E s \in 4 .. 6, i \in Entry : p = <<s, i>>
  <2>1. PICK s \in 4 .. 6, i \in Entry : p = <<s, i>>
    BY <1>2
  <2>2. <<s>> \in Path
    BY DEF Path, Slot
  <2>3. IsIndex(<<s>>) /\ Len(<<s>>) = 1 /\ <<s>>[1] = s
    BY DEF IsIndex, IsData, Depth
  <2>4. Front(<<s, i>>) = <<s>> /\ Last(<<s, i>>) = i /\ Append(<<s>>, i) = <<s, i>>
    BY Tuples2
  <2>5. Len(<<s, i>>) = 2 /\ <<s, i>>[1] = s
    OBVIOUS
  <2>6. Front(p) = <<s>> /\ Last(p) = i
    BY <2>1, <2>4
  <2>7. Len(Front(p)) = 1 /\ Len(p) = 2 /\ Front(p)[1] = s /\ p[1] = s
    BY <2>1, <2>3, <2>5, <2>6, Zenon
  <2>8. Len(Front(p)) = Len(p) - 1
    BY <2>7
  <2>9. QED
    BY <2>1, <2>2, <2>3, <2>4, <2>6, <2>7, <2>8, Zenon
<1>3. CASE \E s \in 5 .. 6, i \in Entry, j \in Entry : p = <<s, i, j>>
  <2>1. PICK s \in 5 .. 6, i \in Entry, j \in Entry : p = <<s, i, j>>
    BY <1>3
  <2>2. <<s, i>> \in Path
    BY DEF Path
  <2>3. IsIndex(<<s, i>>)
    BY Tuples2 DEF IsIndex, IsData, Depth
  <2>4. /\ Front(<<s, i, j>>) = <<s, i>> /\ Last(<<s, i, j>>) = j
        /\ Append(<<s, i>>, j) = <<s, i, j>>
    BY Tuples3
  <2>5. Len(<<s, i, j>>) = 3 /\ <<s, i, j>>[1] = s /\ Len(<<s, i>>) = 2 /\ <<s, i>>[1] = s
    OBVIOUS
  <2>6. Front(p) = <<s, i>> /\ Last(p) = j
    BY <2>1, <2>4
  <2>7. Len(Front(p)) = 2 /\ Len(p) = 3 /\ Front(p)[1] = s /\ p[1] = s
    BY <2>1, <2>3, <2>5, <2>6, Zenon
  <2>8. Len(Front(p)) = Len(p) - 1
    BY <2>7
  <2>9. QED
    BY <2>1, <2>2, <2>3, <2>4, <2>6, <2>7, <2>8, Zenon
<1>4. CASE \E i \in Entry, j \in Entry, k \in Entry : p = <<6, i, j, k>>
  <2>1. PICK i \in Entry, j \in Entry, k \in Entry : p = <<6, i, j, k>>
    BY <1>4
  <2>2. <<6, i, j>> \in Path
    BY DEF Path
  <2>3. IsIndex(<<6, i, j>>)
    BY Tuples3 DEF IsIndex, IsData, Depth
  <2>4. /\ Front(<<6, i, j, k>>) = <<6, i, j>> /\ Last(<<6, i, j, k>>) = k
        /\ Append(<<6, i, j>>, k) = <<6, i, j, k>>
    BY Tuples4
  <2>5. /\ Len(<<6, i, j, k>>) = 4 /\ <<6, i, j, k>>[1] = 6
        /\ Len(<<6, i, j>>) = 3 /\ <<6, i, j>>[1] = 6
    OBVIOUS
  <2>6. Front(p) = <<6, i, j>> /\ Last(p) = k
    BY <2>1, <2>4
  <2>7. Len(Front(p)) = 3 /\ Len(p) = 4 /\ Front(p)[1] = 6 /\ p[1] = 6
    BY <2>1, <2>3, <2>5, <2>6, Zenon
  <2>8. Len(Front(p)) = Len(p) - 1
    BY <2>7
  <2>9. QED
    BY <2>1, <2>2, <2>3, <2>4, <2>6, <2>7, <2>8, Zenon
<1>5. CASE \E s \in Slot : p = <<s>>
  BY <1>5
<1>6. QED
  BY <1>2, <1>3, <1>4, <1>5, PathForms

\* The parent of a block k + 1 steps down is k steps down.
LEMMA ParentAt ==
  ASSUME NEW k \in 1 .. 3, NEW p \in Path, Len(p) = k + 1
  PROVE  Front(p) \in Path /\ Len(Front(p)) = k
<1>1. Len(p) > 1
  OBVIOUS
<1>2. Front(p) \in Path /\ Len(Front(p)) = Len(p) - 1
  BY <1>1, Parent
<1>3. QED
  BY <1>2

\* A path is a sequence of numbers.
LEMMA PathSeq ==
  ASSUME NEW p \in Path
  PROVE  p \in Seq(Int)
<1>1. CASE \E s \in Slot : p = <<s>>
  BY <1>1 DEF Slot
<1>2. CASE \E s \in 4 .. 6, i \in Entry : p = <<s, i>>
  BY <1>2, WAssumption DEF Entry
<1>3. CASE \E s \in 5 .. 6, i \in Entry, j \in Entry : p = <<s, i, j>>
  BY <1>3, WAssumption DEF Entry
<1>4. CASE \E i \in Entry, j \in Entry, k \in Entry : p = <<6, i, j, k>>
  BY <1>4, WAssumption DEF Entry
<1>5. QED
  BY <1>1, <1>2, <1>3, <1>4, PathForms

\* The index blocks above a block are its parent and those above the parent.
LEMMA AboveParent ==
  ASSUME NEW p \in Path, Len(p) > 1
  PROVE  Above(p) = Above(Front(p)) \cup {Front(p)}
<1>1. p \in Seq(Int) /\ Front(p) \in Seq(Int) /\ Len(p) \in Nat /\ Len(Front(p)) = Len(p) - 1
  BY PathSeq, Parent
<1>2. \A i \in 1 .. Len(p) - 1 : Front(p)[i] = p[i]
  BY <1>1 DEF Front
<1>3. ASSUME NEW n \in 1 .. Len(p) - 2
      PROVE  SubSeq(p, 1, n) = SubSeq(Front(p), 1, n)
  <2>1. SubSeq(p, 1, n) = [i \in 1 .. n |-> p[i]]
    BY <1>1
  <2>2. SubSeq(Front(p), 1, n) = [i \in 1 .. n |-> Front(p)[i]]
    BY <1>1
  <2>3. [i \in 1 .. n |-> p[i]] = [i \in 1 .. n |-> Front(p)[i]]
    BY <1>1, <1>2
  <2>4. QED
    BY <2>1, <2>2, <2>3
<1>4. Front(p) = SubSeq(p, 1, Len(p) - 1)
  BY DEF Front
<1>5. \A n \in 1 .. Len(p) - 1 : n = Len(p) - 1 \/ n \in 1 .. Len(p) - 2
  BY <1>1, SMTT(60)
<1>6. \A n \in 1 .. Len(p) - 2 : n \in 1 .. Len(p) - 1
  BY <1>1
<1>7. Len(p) - 1 \in 1 .. Len(p) - 1 /\ Len(Front(p)) - 1 = Len(p) - 2
  BY <1>1
<1>8. Above(Front(p)) = {SubSeq(Front(p), 1, n) : n \in 1 .. Len(p) - 2}
  BY <1>7 DEF Above
<1>9. Above(p) = {SubSeq(p, 1, n) : n \in 1 .. Len(p) - 1}
  BY DEF Above
<1> QED
  BY <1>3, <1>4, <1>5, <1>6, <1>7, <1>8, <1>9, Zenon
\* Nothing is above a block the inode itself refers to.
LEMMA AboveTop ==
  ASSUME NEW p \in Path, Len(p) = 1
  PROVE  Above(p) = {}
BY DEF Above

\* What extend_inode relies on for the index blocks above a place: there is
\* at most one on every level, and with one of them every one above it.
Chain(p) ==
    /\ Above(p) \subseteq Path
    /\ \A r \in Above(p) : /\ IsIndex(r) /\ Len(r) < Len(p)
                           /\ Len(r) > 1 => Front(r) \in Above(p)
    /\ \A r, u \in Above(p) : Len(r) = Len(u) => r = u
    /\ IsFiniteSet(Above(p)) /\ Cardinality(Above(p)) < Len(p)
    /\ Len(p) > 1 => Front(p) \in Above(p)

\* A block inherits the chain of its parent.
LEMMA ChainStep ==
  ASSUME NEW p \in Path, Len(p) > 1, Chain(Front(p))
  PROVE  Chain(p)
<1>1. /\ Above(p) = Above(Front(p)) \cup {Front(p)}
      /\ Front(p) \in Path /\ IsIndex(Front(p)) /\ Len(Front(p)) = Len(p) - 1
      /\ Len(p) \in Nat /\ Len(Front(p)) \in Nat
  BY AboveParent, Parent, PathFacts
<1>2. PICK m \in Nat : m = Len(Front(p))
  BY <1>1
<1>3. Len(p) = m + 1
  BY <1>1, <1>2
<1>4. \A r \in Above(Front(p)) : Len(r) \in Nat
  BY PathFacts DEF Chain
<1>5. ASSUME NEW r \in Above(p)
      PROVE  IsIndex(r) /\ Len(r) < m + 1 /\ (Len(r) > 1 => Front(r) \in Above(p))
  <2>1. CASE r = Front(p)
    BY <1>1, <1>2, <2>1 DEF Chain
  <2>2. CASE r \in Above(Front(p))
    <3>1. IsIndex(r) /\ Len(r) < m /\ (Len(r) > 1 => Front(r) \in Above(Front(p)))
      BY <1>2, <2>2 DEF Chain
    <3>2. QED
      BY <1>1, <1>4, <2>2, <3>1
  <2>3. QED
    BY <1>1, <2>1, <2>2
<1>6. ASSUME NEW r \in Above(p), NEW u \in Above(p), Len(r) = Len(u)
      PROVE  r = u
  <2>1. \A a \in Above(Front(p)) : Len(a) # m
    BY <1>2, <1>4 DEF Chain
  <2>2. QED
    BY <1>1, <1>2, <1>6, <2>1 DEF Chain
<1>7. IsFiniteSet(Above(p)) /\ Cardinality(Above(p)) < m + 1
  <2>1. /\ IsFiniteSet(Above(Front(p))) /\ Cardinality(Above(Front(p))) < m
        /\ Cardinality(Above(Front(p))) \in Nat
    BY <1>2, FS_CardinalityType DEF Chain
  <2>2. /\ IsFiniteSet(Above(p))
        /\ Cardinality(Above(p)) \in {Cardinality(Above(Front(p))), Cardinality(Above(Front(p))) + 1}
    BY <1>1, <2>1, FS_AddElement, SMTT(30)
  <2>3. QED
    BY <2>1, <2>2
<1>8. QED
  BY <1>1, <1>3, <1>5, <1>6, <1>7 DEF Chain

\* The index blocks above any block are such a chain.
LEMMA AboveChain ==
  ASSUME NEW p \in Path
  PROVE  Chain(p)
<1>1. ASSUME NEW r \in Path, Len(r) = 1 PROVE Chain(r)
  <2>1. IsFiniteSet({}) /\ Cardinality({}) = 0
    BY FS_EmptySet
  <2>2. Above(r) = {}
    BY <1>1, AboveTop
  <2>3. QED
    BY <1>1, <2>1, <2>2 DEF Chain
<1>2. ASSUME NEW r \in Path, Len(r) = 2 PROVE Chain(r)
  <2>1. Front(r) \in Path /\ Len(Front(r)) = 1
    BY <1>2, ParentAt
  <2>2. Chain(Front(r))
    BY <1>1, <2>1
  <2>3. QED
    BY <1>2, <2>2, ChainStep, SMTT(30)
<1>3. ASSUME NEW r \in Path, Len(r) = 3 PROVE Chain(r)
  <2>1. Front(r) \in Path /\ Len(Front(r)) = 2
    BY <1>3, ParentAt
  <2>2. Chain(Front(r))
    BY <1>2, <2>1
  <2>3. QED
    BY <1>3, <2>2, ChainStep
<1>4. ASSUME NEW r \in Path, Len(r) = 4 PROVE Chain(r)
  <2>1. Front(r) \in Path /\ Len(Front(r)) = 3
    BY <1>4, ParentAt
  <2>2. Chain(Front(r))
    BY <1>3, <2>1
  <2>3. QED
    BY <1>4, <2>2, ChainStep
<1>5. QED
  BY <1>1, <1>2, <1>3, <1>4, PathFacts

(* What LoadedTree computes. *)
Loads(L, slot, word) ==
    L = [p \in Path |-> IF Len(p) = 1 THEN LoadedSlot(slot, p[1])
                        ELSE LoadedEntry(word, L[Front(p)], Last(p))]

\* The recursion of the load functions ends for every tree: LoadedTree is the
\* function its own definition describes.
LEMMA LoadedEquation ==
  ASSUME NEW slot, NEW word
  PROVE  Loads(LoadedTree(slot, word), slot, word)
<1> DEFINE Level(T) == [p \in Path |-> IF Len(p) = 1 THEN LoadedSlot(slot, p[1])
                                       ELSE LoadedEntry(word, T[Front(p)], Last(p))]
<1>1. PICK T1 : T1 = Level([p \in Path |-> 0])
  OBVIOUS
<1>2. PICK T2 : T2 = Level(T1)
  OBVIOUS
<1>3. PICK T3 : T3 = Level(T2)
  OBVIOUS
<1>4. PICK T4 : T4 = Level(T3)
  OBVIOUS
<1>5. \A p \in Path : Len(p) = 1 => T1[p] = T2[p] /\ T2[p] = T3[p] /\ T3[p] = T4[p]
  BY <1>1, <1>2, <1>3, <1>4
<1>6. \A p \in Path : Len(p) = 2 => T2[p] = T3[p] /\ T3[p] = T4[p]
  <2>1. ASSUME NEW p \in Path, Len(p) = 2 PROVE Front(p) \in Path /\ Len(Front(p)) = 1
    BY <2>1, ParentAt
  <2>2. QED
    BY <1>2, <1>3, <1>4, <1>5, <2>1
<1>7. \A p \in Path : Len(p) = 3 => T3[p] = T4[p]
  <2>1. ASSUME NEW p \in Path, Len(p) = 3 PROVE Front(p) \in Path /\ Len(Front(p)) = 2
    BY <2>1, ParentAt
  <2>2. QED
    BY <1>3, <1>4, <1>6, <2>1
<1>8. \A p \in Path : Len(p) > 1 => T3[Front(p)] = T4[Front(p)]
  <2> SUFFICES ASSUME NEW p \in Path, Len(p) > 1 PROVE T3[Front(p)] = T4[Front(p)]
    OBVIOUS
  <2>1. Front(p) \in Path /\ Len(Front(p)) \in {1, 2, 3}
    BY Parent, PathFacts
  <2>2. QED
    BY <2>1, <1>5, <1>6, <1>7
<1>9. T4 = Level(T4)
  <2>1. \A p \in Path : Len(p) = 1 \/ Len(p) > 1
    BY PathFacts
  <2>2. QED
    BY <1>4, <1>8, <2>1
<1>10. QED
  BY <1>9 DEF LoadedTree, Loads

\* What is loaded depends on the index blocks only: a write elsewhere on the
\* device leaves the tree alone.
LEMMA LoadSame ==
  ASSUME NEW slot, NEW word, NEW new, DOMAIN new = DOMAIN word,
         \A p \in Path : IsIndex(p) /\ LoadedTree(slot, word)[p] \in DOMAIN word =>
            new[LoadedTree(slot, word)[p]] = word[LoadedTree(slot, word)[p]]
  PROVE  LoadedTree(slot, new) = LoadedTree(slot, word)
<1>1. PICK L : L = LoadedTree(slot, word)
  OBVIOUS
<1>2. PICK M : M = LoadedTree(slot, new)
  OBVIOUS
<1>3. \A p \in Path : /\ Len(p) = 1 => L[p] = LoadedSlot(slot, p[1])
                      /\ Len(p) # 1 => L[p] = LoadedEntry(word, L[Front(p)], Last(p))
  BY <1>1, LoadedEquation DEF Loads
<1>4. \A p \in Path : /\ Len(p) = 1 => M[p] = LoadedSlot(slot, p[1])
                      /\ Len(p) # 1 => M[p] = LoadedEntry(new, M[Front(p)], Last(p))
  BY <1>2, LoadedEquation DEF Loads
<1>5. \A p \in Path : Len(p) = 1 => L[p] = M[p]
  BY <1>3, <1>4
<1>6. ASSUME NEW p \in Path, Len(p) > 1, L[Front(p)] = M[Front(p)]
      PROVE  L[p] = M[p]
  <2>1. Front(p) \in Path /\ IsIndex(Front(p)) /\ Len(p) # 1
    BY <1>6, Parent
  <2>2. L[Front(p)] \in DOMAIN word => new[L[Front(p)]] = word[L[Front(p)]]
    BY <2>1, <1>1
  <2>3. QED
    BY <1>3, <1>4, <1>6, <2>1, <2>2 DEF LoadedEntry
<1>7. ASSUME NEW k \in 1 .. 3, \A p \in Path : Len(p) = k => L[p] = M[p]
      PROVE  \A p \in Path : Len(p) = k + 1 => L[p] = M[p]
  <2> SUFFICES ASSUME NEW p \in Path, Len(p) = k + 1 PROVE L[p] = M[p]
    OBVIOUS
  <2>1. Front(p) \in Path /\ Len(Front(p)) = k
    BY ParentAt
  <2>2. L[Front(p)] = M[Front(p)] /\ Len(p) > 1
    BY <1>7, <2>1
  <2>3. QED
    BY <1>6, <2>2
<1>8. \A p \in Path : Len(p) = 2 => L[p] = M[p]
  BY <1>5, <1>7
<1>9. \A p \in Path : Len(p) = 3 => L[p] = M[p]
  BY <1>8, <1>7
<1>10. \A p \in Path : Len(p) = 4 => L[p] = M[p]
  BY <1>9, <1>7
<1>11. \A p \in Path : L[p] = M[p]
  <2> SUFFICES ASSUME NEW p \in Path PROVE L[p] = M[p]
    OBVIOUS
  <2>1. Len(p) \in {1, 2, 3, 4}
    BY PathFacts
  <2>2. QED
    BY <2>1, <1>5, <1>8, <1>9, <1>10
<1>12. L = [p \in Path |-> L[p]] /\ M = [p \in Path |-> M[p]]
  BY <1>1, <1>2, LoadedEquation DEF Loads
<1>13. QED
  BY <1>1, <1>2, <1>11, <1>12

\* No block is in two places of the tree.
Injective(T) == \A p, r \in Path : T[p] = T[r] /\ T[p] \notin {NoBlock, 0} => p = r

\* Saving a tree puts into each of its index blocks the ids of that block's
\* children.
LEMMA SavedAt ==
  ASSUME NEW T, NEW word, NEW p \in Path, IsIndex(p), Injective(T),
         T[p] \notin {NoBlock, 0}, T[p] \in DOMAIN word
  PROVE  SavedIndex(T, word)[T[p]] = [e \in Entry |-> StoredId(T, Append(p, e))]
<1> DEFINE at(b) == {r \in Path : IsIndex(r) /\ T[r] = b}
           Later(r, u) == r[1] > u[1] \/ (r[1] = u[1] /\ Len(r) <= Len(u))
<1>1. at(T[p]) = {p}
  BY DEF Injective
<1>2. Later(p, p)
  BY PathFacts
<1>3. (CHOOSE r \in at(T[p]) : \A u \in at(T[p]) : Later(r, u)) = p
  <2> HIDE DEF Later, at
  <2> QED
  BY <1>1, <1>2
<1>4. QED
  BY <1>1, <1>3 DEF SavedIndex

\* Saving writes to no block but the tree's index blocks.
LEMMA SavedElse ==
  ASSUME NEW T, NEW word, NEW b \in DOMAIN word, \A p \in Path : IsIndex(p) => T[p] # b
  PROVE  SavedIndex(T, word)[b] = word[b]
BY DEF SavedIndex

\* Saving leaves the device as large as it is.
LEMMA SavedDomain ==
  ASSUME NEW T, NEW word
  PROVE  DOMAIN SavedIndex(T, word) = DOMAIN word
BY DEF SavedIndex

\* A block hangs in the tree only below an index block that is there.
Rooted(T) == \A p \in Path : Len(p) > 1 /\ T[p] # NoBlock => T[Front(p)] # NoBlock

\* A tree that may be saved: only a direct block may have id 0, and the index
\* blocks are on the device.
Standing(T, device) ==
    /\ Injective(T) /\ Rooted(T)
    /\ \A p \in Path : /\ T[p] = 0 => Len(p) = 1 /\ p[1] < 4
                       /\ IsIndex(p) /\ T[p] # NoBlock => T[p] \in device

\* The tree that a saved tree comes back as: the direct blocks that had no
\* structure get one, with id 0.
Reloaded(T) ==
    [p \in Path |-> IF T[p] = NoBlock /\ Len(p) = 1 /\ p[1] < 4 THEN 0 ELSE T[p]]

\* close_inode followed by open_inode gives the same tree back, but for the
\* structures of the missing direct blocks.
LEMMA RoundTrip ==
  ASSUME NEW T, NEW word, DOMAIN word \subseteq Int, Standing(T, DOMAIN word)
  PROVE  LoadedTree(SavedSlots(T), SavedIndex(T, word)) = Reloaded(T)
<1>1. PICK new : new = SavedIndex(T, word)
  OBVIOUS
<1>2. PICK L : L = LoadedTree(SavedSlots(T), new)
  OBVIOUS
<1>3. \A p \in Path : /\ Len(p) = 1 => L[p] = LoadedSlot(SavedSlots(T), p[1])
                      /\ Len(p) # 1 => L[p] = LoadedEntry(new, L[Front(p)], Last(p))
  BY <1>2, LoadedEquation DEF Loads
<1>4. NoBlock \notin DOMAIN word /\ NoBlock # 0
  BY NoBlockAssumption
<1>5. ASSUME NEW p \in Path, Len(p) = 1
      PROVE  L[p] = Reloaded(T)[p]
  <2>1. p = <<p[1]>> /\ p[1] \in Slot
    BY <1>5, PathFacts
  <2>2. SavedSlots(T)[p[1]] = IF T[p] = NoBlock THEN 0 ELSE T[p]
    BY <2>1 DEF SavedSlots, StoredId
  <2>3. L[p] = LoadedSlot(SavedSlots(T), p[1])
    BY <1>3, <1>5
  <2>4. T[p] = 0 => p[1] < 4
    BY DEF Standing
  <2>5. QED
    BY <1>4, <1>5, <2>2, <2>3, <2>4 DEF LoadedSlot, Reloaded
<1>6. ASSUME NEW p \in Path, Len(p) > 1, L[Front(p)] = Reloaded(T)[Front(p)]
      PROVE  L[p] = Reloaded(T)[p]
  <2>1. /\ Front(p) \in Path /\ IsIndex(Front(p)) /\ Len(p) # 1
        /\ Last(p) \in Entry /\ Append(Front(p), Last(p)) = p
    BY <1>6, Parent
  <2>2. PICK b : b = T[Front(p)]
    OBVIOUS
  <2>3. ~(Len(Front(p)) = 1 /\ Front(p)[1] < 4)
    BY <2>1 DEF IsIndex, IsData, Depth
  <2>4. L[Front(p)] = b /\ b # 0
    BY <1>6, <2>1, <2>2, <2>3 DEF Reloaded, Standing
  <2>5. L[p] = LoadedEntry(new, b, Last(p))
    BY <1>3, <2>1, <2>4
  <2>6. Reloaded(T)[p] = T[p] /\ T[p] # 0
    BY <2>1 DEF Reloaded, Standing
  <2>7. CASE b = NoBlock
    <3>1. L[p] = NoBlock
      BY <1>1, <1>4, <2>5, <2>7, SavedDomain DEF LoadedEntry
    <3>2. T[p] = NoBlock
      BY <1>6, <2>2, <2>7 DEF Standing, Rooted
    <3>3. QED
      BY <3>1, <3>2, <2>6
  <2>8. CASE b # NoBlock
    <3>1. b \in DOMAIN word
      BY <2>1, <2>2, <2>8 DEF Standing
    <3>2. new[b] = [e \in Entry |-> StoredId(T, Append(Front(p), e))]
      <4>1. /\ Injective(T) /\ T[Front(p)] \notin {NoBlock, 0}
            /\ T[Front(p)] \in DOMAIN word
        BY <2>2, <2>4, <2>8, <3>1 DEF Standing
      <4>2. SavedIndex(T, word)[T[Front(p)]] = [e \in Entry |-> StoredId(T, Append(Front(p), e))]
        BY <2>1, <4>1, SavedAt
      <4>3. QED
        BY <1>1, <2>2, <4>2
    <3>3. new[b][Last(p)] = StoredId(T, p)
      BY <2>1, <3>2
    <3>4. b \in DOMAIN new
      BY <1>1, <3>1, SavedDomain
    <3>5. QED
      BY <1>4, <2>5, <2>6, <3>3, <3>4 DEF LoadedEntry, StoredId
  <2>9. QED
    BY <2>7, <2>8
<1>7. ASSUME NEW k \in 1 .. 3, \A p \in Path : Len(p) = k => L[p] = Reloaded(T)[p]
      PROVE  \A p \in Path : Len(p) = k + 1 => L[p] = Reloaded(T)[p]
  <2> SUFFICES ASSUME NEW p \in Path, Len(p) = k + 1 PROVE L[p] = Reloaded(T)[p]
    OBVIOUS
  <2>1. Front(p) \in Path /\ Len(Front(p)) = k
    BY ParentAt
  <2>2. L[Front(p)] = Reloaded(T)[Front(p)] /\ Len(p) > 1
    BY <1>7, <2>1
  <2>3. QED
    BY <1>6, <2>2
<1>8. \A p \in Path : Len(p) = 2 => L[p] = Reloaded(T)[p]
  BY <1>5, <1>7
<1>9. \A p \in Path : Len(p) = 3 => L[p] = Reloaded(T)[p]
  BY <1>8, <1>7
<1>10. \A p \in Path : Len(p) = 4 => L[p] = Reloaded(T)[p]
  BY <1>9, <1>7
<1>11. \A p \in Path : L[p] = Reloaded(T)[p]
  <2> SUFFICES ASSUME NEW p \in Path PROVE L[p] = Reloaded(T)[p]
    OBVIOUS
  <2>1. Len(p) \in {1, 2, 3, 4}
    BY PathFacts
  <2>2. QED
    BY <2>1, <1>5, <1>8, <1>9, <1>10
<1>12. L = [p \in Path |-> L[p]] /\ Reloaded(T) = [p \in Path |-> Reloaded(T)[p]]
  BY <1>2, LoadedEquation DEF Loads, Reloaded
<1>13. QED
  BY <1>1, <1>2, <1>11, <1>12

\* Division with remainder undoes a * d + b.
LEMMA DivMod ==
  ASSUME NEW d \in Nat \ {0}, NEW a \in Nat, NEW b \in 0 .. d - 1
  PROVE  (a * d + b) \div d = a /\ (a * d + b) % d = b
OBVIOUS

\* One step of a position in mixed radix.
LEMMA Digit ==
  ASSUME NEW d \in Nat \ {0}, NEW a \in Entry, NEW b \in 0 .. d - 1
  PROVE  a * d + b \in 0 .. W * d - 1 /\ a \in Nat /\ W * d \in Nat \ {0}
<1>1. a \in Nat /\ a + 1 <= W /\ W \in Nat
  BY WAssumption DEF Entry
<1>2. (a + 1) * d <= W * d
  BY <1>1
<1>3. (a + 1) * d = a * d + d /\ a * d \in Nat
  BY <1>1
<1>4. W * d \in Nat
  BY <1>1
<1>5. QED
  BY <1>1, <1>2, <1>3, <1>4

\* A position in the file, from the numbers on the way to it.
LEMMA Offsets ==
  ASSUME NEW p \in Path, IsData(p), NEW e \in Entry
  PROVE  /\ offset_start(p) \in Nat /\ SelectedPath(offset_start(p) + e) = p
         /\ (offset_start(p) + e) % W = e /\ offset_start(p) + e < MaxFile
<1>1. /\ W \in Nat \ {0} /\ e \in 0 .. W - 1
  BY WAssumption DEF Entry
<1>2. PICK m2 \in Nat \ {0} : m2 = W * W
  BY <1>1
<1>3. PICK m3 \in Nat \ {0} : m3 = W * m2
  BY <1>1, <1>2
<1>4. PICK m4 \in Nat \ {0} : m4 = W * m3
  BY <1>1, <1>3
<1>5. /\ dir_storage = 4 * W /\ ind_storage = m2 /\ bind_storage = m3 /\ tind_storage = m4
      /\ MaxFile = 4 * W + m2 + m3 + m4
  BY <1>2, <1>3, <1>4 DEF dir_storage, ind_storage, bind_storage, tind_storage, MaxFile
<1>6. CASE \E s \in Slot : p = <<s>>
  <2>1. PICK s \in Slot : p = <<s>>
    BY <1>6
  <2>2. s \in 0 .. 3
    BY <2>1 DEF IsData, Depth, Slot
  <2>3. offset_start(p) = s * W
    BY <2>1, <2>2 DEF offset_start, Depth
  <2>4. (s * W + e) \div W = s /\ (s * W + e) % W = e
    BY <1>1, <2>2, DivMod
  <2>5. s * W \in Nat /\ s * W + e < 4 * W
    BY <1>1, <2>2
  <2>6. SelectedPath(s * W + e) = <<s>>
    BY <1>5, <2>4, <2>5 DEF SelectedPath
  <2>7. QED
    BY <1>1, <1>5, <2>1, <2>3, <2>4, <2>5, <2>6
<1>7. CASE \E s \in 4 .. 6, i \in Entry : p = <<s, i>>
  <2>1. PICK s \in 4 .. 6, i \in Entry : p = <<s, i>>
    BY <1>7
  <2>2. s = 4
    BY <2>1, Tuples2 DEF IsData, Depth
  <2>3. offset_start(p) = 4 * W + i * W
    BY <1>5, <2>1, <2>2, Tuples2 DEF offset_start, Depth
  <2>4. i * W + e \in 0 .. m2 - 1 /\ i \in Nat
    BY <1>1, <1>2, Digit
  <2>5. (i * W + e) \div W = i
    BY <1>1, <2>4, DivMod
  <2>6. ((4 + i) * W + e) % W = e
    BY <1>1, <2>4, DivMod
  <2>7. PICK x \in Nat : x = i * W + e
    BY <2>4
  <2>8. SelectedPath(4 * W + x) = <<4, x \div W>>
    BY <1>1, <1>5, <2>4, <2>7 DEF SelectedPath
  <2>9. /\ 4 * W + i * W + e = 4 * W + x /\ (4 + i) * W + e = 4 * W + x
        /\ i * W \in Nat
    BY <1>1, <2>4, <2>7
  <2>10. QED
    BY <1>1, <1>5, <2>1, <2>2, <2>3, <2>4, <2>5, <2>6, <2>7, <2>8, <2>9
<1>8. CASE \E s \in 5 .. 6, i \in Entry, j \in Entry : p = <<s, i, j>>
  <2>1. PICK s \in 5 .. 6, i \in Entry, j \in Entry : p = <<s, i, j>>
    BY <1>8
  <2>2. s = 5
    BY <2>1, Tuples3 DEF IsData, Depth
  <2>3. offset_start(p) = 4 * W + m2 + i * m2 + j * W
    BY <1>5, <2>1, <2>2, Tuples3 DEF offset_start, Depth
  <2>4. PICK y \in 0 .. m2 - 1 : y = j * W + e
    BY <1>1, <1>2, Digit
  <2>5. PICK x \in 0 .. m3 - 1 : x = i * m2 + y
    BY <1>2, <1>3, <2>4, Digit
  <2>6. i \in Nat /\ j \in Nat
    BY <1>1 DEF Entry
  <2>7. y \div W = j
    BY <1>1, <2>4, <2>6, DivMod
  <2>8. x \div m2 = i /\ x % m2 = y
    BY <1>2, <2>4, <2>5, <2>6, DivMod
  <2>9. ((4 + W + i * W + j) * W + e) % W = e
    <3>1. PICK u \in Nat : u = 4 + W + i * W + j
      BY <1>1, <2>6
    <3>2. (u * W + e) % W = e
      BY <1>1, <3>1, DivMod
    <3>3. QED
      BY <3>1, <3>2
  <2>10. SelectedPath(4 * W + m2 + x) = <<5, x \div m2, (x % m2) \div W>>
    BY <1>1, <1>5, <2>5 DEF SelectedPath
  <2>11. /\ offset_start(p) + e = 4 * W + m2 + x
         /\ (4 + W + i * W + j) * W + e = 4 * W + m2 + x
         /\ offset_start(p) \in Nat
    <3>1. i * m2 = (i * W) * W /\ i * W \in Nat /\ j * W \in Nat
      BY <1>1, <1>2, <2>6
    <3>2. i * m2 \in Nat
      BY <1>1, <3>1
    <3>3. (4 + W + i * W + j) * W = 4 * W + m2 + (i * W) * W + j * W
      BY <1>1, <1>2, <2>6, <3>1
    <3>4. QED
      BY <1>1, <2>3, <2>4, <2>5, <3>1, <3>2, <3>3
  <2>12. QED
    BY <1>1, <1>5, <2>1, <2>2, <2>5, <2>7, <2>8, <2>9, <2>10, <2>11
<1>9. CASE \E i \in Entry, j \in Entry, k \in Entry : p = <<6, i, j, k>>
  <2>1. PICK i \in Entry, j \in Entry, k \in Entry : p = <<6, i, j, k>>
    BY <1>9
  <2>3. offset_start(p) = 4 * W + m2 + m3 + i * m3 + j * m2 + k * W
    BY <1>5, <2>1, Tuples4 DEF offset_start, Depth
  <2>4. PICK z \in 0 .. m2 - 1 : z = k * W + e
    BY <1>1, <1>2, Digit
  <2>5. PICK y \in 0 .. m3 - 1 : y = j * m2 + z
    BY <1>2, <1>3, <2>4, Digit
  <2>6. PICK x \in 0 .. m4 - 1 : x = i * m3 + y
    BY <1>3, <1>4, <2>5, Digit
  <2>7. i \in Nat /\ j \in Nat /\ k \in Nat
    BY <1>1 DEF Entry
  <2>8. z \div W = k
    BY <1>1, <2>4, <2>7, DivMod
  <2>9. y \div m2 = j
    <3>1. (j * m2 + z) \div m2 = j
      BY <1>2, <2>4, <2>7, DivMod
    <3>2. QED
      BY <2>5, <3>1
  <2>10. x \div m3 = i /\ x % m3 = y
    <3>1. (i * m3 + y) \div m3 = i /\ (i * m3 + y) % m3 = y
      BY <1>3, <2>5, <2>7, DivMod
    <3>2. QED
      BY <2>6, <3>1
  <2>11. i * m3 = (i * W) * m2 /\ i * W \in Nat /\ j * m2 = (j * W) * W /\ j * W \in Nat
    BY <1>1, <1>2, <1>3, <2>7
  <2>12. x = (i * W + j) * m2 + z /\ i * W + j \in Nat
    <3>1. (i * W + j) * m2 = (i * W) * m2 + j * m2
      BY <2>7, <2>11
    <3>2. QED
      BY <2>5, <2>6, <2>7, <2>11, <3>1
  <2>13. x % m2 = z
    BY <1>2, <2>4, <2>12, DivMod
  <2>14. SelectedPath(4 * W + m2 + m3 + x) =
            <<6, x \div m3, (x % m3) \div m2, (x % m2) \div W>>
    BY <1>1, <1>5, <2>6 DEF SelectedPath
  <2>15. ((4 + W + m2 + (i * W + j) * W + k) * W + e) % W = e
    <3>1. PICK u \in Nat : u = 4 + W + m2 + (i * W + j) * W + k
      BY <1>1, <1>2, <2>7, <2>12
    <3>2. (u * W + e) % W = e
      BY <1>1, <3>1, DivMod
    <3>3. QED
      BY <3>1, <3>2
  <2>16. /\ offset_start(p) + e = 4 * W + m2 + m3 + x
         /\ (4 + W + m2 + (i * W + j) * W + k) * W + e = 4 * W + m2 + m3 + x
         /\ offset_start(p) \in Nat
    <3>1. PICK u \in Nat : u = i * W + j
      BY <2>12
    <3>2. x = u * m2 + z /\ u * m2 = (u * W) * W /\ u * W \in Nat /\ k * W \in Nat /\ u * m2 \in Nat
      BY <1>1, <1>2, <2>7, <2>12, <3>1
    <3>3. (4 + W + m2 + u * W + k) * W = 4 * W + m2 + m3 + (u * W) * W + k * W
      BY <1>1, <1>2, <1>3, <2>7, <3>1, <3>2
    <3>4. i * m3 + j * m2 = u * m2
      BY <2>5, <2>6, <3>2, <2>7, <1>2, <1>3
    <3>5. QED
      BY <1>1, <2>3, <2>4, <3>1, <3>2, <3>3, <3>4
  <2>17. QED
    BY <1>1, <1>5, <2>1, <2>6, <2>8, <2>9, <2>10, <2>13, <2>14, <2>15, <2>16
<1>10. QED
  BY <1>6, <1>7, <1>8, <1>9, PathForms

(* The cursor is in the block that is selected for it. *)
LEMMA Selected ==
  ASSUME NEW c \in Nat, c < MaxFile
  PROVE  /\ SelectedPath(c) \in Path /\ IsData(SelectedPath(c)) /\ c % W \in Entry
         /\ offset_start(SelectedPath(c)) + (c % W) = c
<1>1. W \in Nat \ {0}
  BY WAssumption
<1>2. PICK m2 \in Nat \ {0} : m2 = W * W
  BY <1>1
<1>3. PICK m3 \in Nat \ {0} : m3 = W * m2
  BY <1>1, <1>2
<1>4. PICK m4 \in Nat \ {0} : m4 = W * m3
  BY <1>1, <1>3
<1>5. /\ dir_storage = 4 * W /\ ind_storage = m2 /\ bind_storage = m3 /\ tind_storage = m4
      /\ MaxFile = 4 * W + m2 + m3 + m4
  BY <1>2, <1>3, <1>4 DEF dir_storage, ind_storage, bind_storage, tind_storage, MaxFile
<1>6. ASSUME NEW p \in Path, IsData(p), NEW e \in Entry, c = offset_start(p) + e
      PROVE  SelectedPath(c) = p /\ c % W = e
  BY <1>6, Offsets
<1>7. SUFFICES \E p \in Path, e \in Entry : IsData(p) /\ c = offset_start(p) + e
  BY <1>6
<1>8. ASSUME NEW d \in Nat \ {0}, NEW x \in 0 .. W * d - 1
      PROVE  \E a \in Entry, b \in 0 .. d - 1 : x = a * d + b
  <2>1. x = (x \div d) * d + (x % d) /\ x % d \in 0 .. d - 1 /\ x \div d \in Nat
    BY <1>8
  <2>2. PICK a \in Nat : a = x \div d
    BY <2>1
  <2>3. PICK b \in 0 .. d - 1 : b = x % d
    BY <2>1
  <2>4. x = a * d + b
    BY <2>1, <2>2, <2>3
  <2>5. a < W
    <3>1. SUFFICES ASSUME a >= W PROVE FALSE
      BY <1>1
    <3>2. a * d >= W * d
      BY <1>1, <3>1
    <3>3. QED
      BY <1>1, <2>4, <3>2
  <2>6. a \in Entry
    BY <1>1, <2>5 DEF Entry
  <2>7. QED
    BY <2>4, <2>6
<1>9. CASE c < 4 * W
  <2>1. PICK s \in Nat, e \in 0 .. W - 1 : c = s * W + e
    <3>1. c = (c \div W) * W + (c % W) /\ c % W \in 0 .. W - 1 /\ c \div W \in Nat
      BY <1>1
    <3>2. QED
      BY <3>1
  <2>2. s < 4
    BY <1>1, <1>9, <2>1
  <2>3. <<s>> \in Path /\ e \in Entry
    BY <2>2 DEF Path, Slot, Entry
  <2>4. IsData(<<s>>) /\ offset_start(<<s>>) = s * W
    BY <2>2 DEF IsData, Depth, offset_start
  <2>5. QED
    BY <2>1, <2>3, <2>4
<1>10. CASE c >= 4 * W /\ c < 4 * W + m2
  <2>1. PICK x \in 0 .. W * W - 1 : c = 4 * W + x
    BY <1>1, <1>2, <1>10
  <2>2. PICK i \in Entry, e \in 0 .. W - 1 : x = i * W + e
    BY <1>1, <1>8
  <2>3. <<4, i>> \in Path /\ e \in Entry
    BY DEF Path, Entry
  <2>4. IsData(<<4, i>>) /\ offset_start(<<4, i>>) = 4 * W + i * W
    BY <1>5, Tuples2 DEF IsData, Depth, offset_start
  <2>5. c = (4 * W + i * W) + e
    BY <1>1, <2>1, <2>2 DEF Entry
  <2>6. QED
    BY <2>3, <2>4, <2>5
<1>11. CASE c >= 4 * W + m2 /\ c < 4 * W + m2 + m3
  <2>1. PICK x \in 0 .. W * m2 - 1 : c = 4 * W + m2 + x
    BY <1>1, <1>3, <1>11
  <2>2. PICK i \in Entry, y \in 0 .. m2 - 1 : x = i * m2 + y
    BY <1>2, <1>8
  <2>3. PICK j \in Entry, e \in 0 .. W - 1 : y = j * W + e
    BY <1>1, <1>2, <1>8
  <2>4. <<5, i, j>> \in Path /\ e \in Entry
    BY DEF Path, Entry
  <2>5. IsData(<<5, i, j>>) /\ offset_start(<<5, i, j>>) = 4 * W + m2 + i * m2 + j * W
    BY <1>5, Tuples3 DEF IsData, Depth, offset_start
  <2>6. c = (4 * W + m2 + i * m2 + j * W) + e
    BY <1>1, <2>1, <2>2, <2>3 DEF Entry
  <2>7. QED
    BY <2>4, <2>5, <2>6
<1>12. CASE c >= 4 * W + m2 + m3
  <2>1. PICK x \in 0 .. W * m3 - 1 : c = 4 * W + m2 + m3 + x
    BY <1>1, <1>4, <1>5, <1>12
  <2>2. PICK i \in Entry, y \in 0 .. m3 - 1 : x = i * m3 + y
    BY <1>3, <1>8
  <2>3. PICK j \in Entry, z \in 0 .. m2 - 1 : y = j * m2 + z
    BY <1>2, <1>3, <1>8
  <2>4. PICK k \in Entry, e \in 0 .. W - 1 : z = k * W + e
    BY <1>1, <1>2, <1>8
  <2>5. <<6, i, j, k>> \in Path /\ e \in Entry
    BY DEF Path, Entry
  <2>6. /\ IsData(<<6, i, j, k>>)
        /\ offset_start(<<6, i, j, k>>) = 4 * W + m2 + m3 + i * m3 + j * m2 + k * W
    BY <1>5, Tuples4 DEF IsData, Depth, offset_start
  <2>7. c = (4 * W + m2 + m3 + i * m3 + j * m2 + k * W) + e
    BY <1>1, <2>1, <2>2, <2>3, <2>4 DEF Entry
  <2>8. QED
    BY <2>5, <2>6, <2>7
<1>13. QED
  BY <1>1, <1>5, <1>9, <1>10, <1>11, <1>12
-----------------------------------------------------------------------------
\* The bitmaps.

\* The client may die between the saves of an unmount.
Torn == "torn_unmount" \in Allow

\* What the client heeds: one inode open at a time, no growth of a reopened short
\* file, no create and no index block without room, frees only of inodes whose
\* bit is computed correctly.  Death between the saves leaves free counts that
\* are behind the bitmaps; then no bitmap may have bits past the last object.
Heeding ==
    /\ Allow \subseteq {"free", "torn_unmount"}
    /\ Torn => BitmapBits(NBlocks) = NBlocks /\ BitmapBits(NInodes) = NInodes

\* A bitmap of n objects: the bits below low are taken for good, and the free
\* count promises no more than is free among the first n, or else there are no
\* other bits.
Covers(m, n, low) ==
    /\ m \in [bits : Nat, free : SUBSET Nat, count : Nat]
    /\ m.bits = BitmapBits(n) /\ m.free \subseteq low .. m.bits - 1
    /\ \/ m.count <= Cardinality(m.free \cap 0 .. n - 1)
       \/ Torn /\ m.bits = n

\* The free count is exactly what is free among the first n.
Exact(m, n) == Torn \/ m.count = Cardinality(m.free \cap 0 .. n - 1)

\* Min picks the least number of a set of numbers.
LEMMA LeastIsMin ==
  ASSUME NEW S \in SUBSET Nat, S # {}
  PROVE  Min(S) \in S /\ \A y \in S : Min(S) <= y
BY LeastNumber DEF Min

\* A bitmap has a bit for every object.
LEMMA Bits ==
  ASSUME NEW n \in Nat
  PROVE  BitmapBits(n) \in Nat /\ n <= BitmapBits(n)
<1>1. n + 7 = ((n + 7) \div 8) * 8 + ((n + 7) % 8) /\ (n + 7) % 8 \in 0 .. 7 /\ (n + 7) \div 8 \in Nat
  OBVIOUS
<1>2. QED
  BY <1>1 DEF BitmapBits

\* What allocate_bit may return: 0, with nothing changed, or a bit that was free,
\* belongs to an object and is no longer free.
Allocated(m, a, n, low) ==
    \/ a.id = 0 /\ a.map = m
    \/ /\ m.count > 0
       /\ a.id \in m.free /\ a.id \in low .. n - 1
       /\ a.map.bits = m.bits /\ a.map.free = m.free \ {a.id} /\ a.map.count = m.count - 1
       /\ Covers(a.map, n, low) /\ (Exact(m, n) => Exact(a.map, n))

\* allocate_bit keeps a bitmap covered; in particular it never hands out one
\* of the bits past the last object.
LEMMA Allocates ==
  ASSUME NEW n \in Nat, NEW low \in Nat, NEW m, Covers(m, n, low)
  PROVE  Allocated(m, allocate_bit(m), n, low)
<1>1. IsFiniteSet(0 .. n - 1) /\ Cardinality(0 .. n - 1) = n
  <2>1. PICK c \in Int : c = n - 1
    OBVIOUS
  <2>2. IsFiniteSet(0 .. c) /\ Cardinality(0 .. c) = IF 0 > c THEN 0 ELSE c - 0 + 1
    BY FS_Interval
  <2>3. QED
    BY <2>1, <2>2
<1>2. PICK B : B = m.free \cap 0 .. n - 1
  OBVIOUS
<1>3. IsFiniteSet(B) /\ Cardinality(B) \in Nat /\ Cardinality(B) <= n
  BY <1>1, <1>2, FS_Subset, FS_CardinalityType
<1>4. /\ m.count \in Nat /\ m.bits \in Nat /\ m.free \in SUBSET Nat
      /\ m.free \subseteq low .. m.bits - 1
      /\ m.count <= Cardinality(B) \/ (Torn /\ m.bits = n)
  BY <1>2 DEF Covers
<1>5. PICK a : a = allocate_bit(m)
  OBVIOUS
<1>6. CASE m.count > m.bits \/ m.count = 0 \/ m.free = {}
  BY <1>5, <1>6 DEF allocate_bit, Allocated
<1>7. CASE ~(m.count > m.bits \/ m.count = 0 \/ m.free = {})
  <2>1. PICK id : id = Min(m.free)
    OBVIOUS
  <2>2. id \in m.free /\ \A y \in m.free : id <= y
    BY <1>4, <1>7, <2>1, LeastIsMin
  <2>3. id \in low .. n - 1 /\ id \in B
    <3>1. CASE m.count <= Cardinality(B)
      <4>1. B # {}
        BY <1>3, <1>4, <1>7, <3>1, FS_EmptySet
      <4>2. PICK x \in B : TRUE
        BY <4>1
      <4>3. id <= x /\ x < n
        BY <1>2, <1>4, <2>2, <4>2
      <4>4. QED
        BY <1>2, <1>4, <2>2, <4>3
    <3>2. CASE m.bits = n
      BY <1>2, <1>4, <2>2, <3>2
    <3>3. QED
      BY <1>4, <3>1, <3>2
  <2>4. a.id = id /\ a.map = [m EXCEPT !.free = @ \ {id}, !.count = @ - 1]
    BY <1>5, <1>7, <2>1 DEF allocate_bit
  <2>5. /\ a.map \in [bits : Nat, free : SUBSET Nat, count : Nat]
        /\ a.map.bits = m.bits /\ a.map.free = m.free \ {id} /\ a.map.count = m.count - 1
    <3>1. m \in [bits : Nat, free : SUBSET Nat, count : Nat] /\ m.count - 1 \in Nat
      BY <1>4, <1>7 DEF Covers
    <3>2. a.map = [bits |-> m.bits, free |-> m.free \ {id}, count |-> m.count - 1]
      BY <2>4, <3>1
    <3>3. QED
      BY <1>4, <3>1, <3>2
  <2>6. a.map.free \cap 0 .. n - 1 = B \ {id}
    BY <1>2, <2>5
  <2>7. Cardinality(B \ {id}) = Cardinality(B) - 1
    BY <1>3, <2>3, FS_RemoveElement
  <2>8. a.map.count <= Cardinality(a.map.free \cap 0 .. n - 1) \/ (Torn /\ a.map.bits = n)
    <3>1. PICK c \in Nat : c = Cardinality(B)
      BY <1>3
    <3>2. Cardinality(a.map.free \cap 0 .. n - 1) = c - 1
      BY <2>6, <2>7, <3>1
    <3>3. a.map.count <= c - 1 \/ (Torn /\ a.map.bits = n)
      BY <1>4, <2>5, <3>1
    <3>4. QED
      BY <3>2, <3>3
  <2>9. Covers(a.map, n, low)
    <3>1. m.bits = BitmapBits(n) /\ m.free \ {id} \subseteq low .. m.bits - 1
      BY DEF Covers
    <3>2. QED
      BY <2>5, <2>8, <3>1 DEF Covers
  <2>10. Exact(m, n) => Exact(a.map, n)
    BY <1>2, <1>3, <1>4, <2>5, <2>6, <2>7 DEF Exact
  <2>11. m.count > 0
    BY <1>4, <1>7
  <2>12. QED
    BY <1>5, <2>2, <2>3, <2>4, <2>5, <2>9, <2>10, <2>11 DEF Allocated
<1>8. QED
  BY <1>6, <1>7

\* The block bitmap, whose count is exact unless an unmount was torn.
BlockMap(m) == Covers(m, NBlocks, Meta) /\ Exact(m, NBlocks)

\* The allocations extend_inode makes one after the other.
Allocs(got, m) ==
    got = [n \in 0 .. 4 |-> IF n = 0 THEN [id |-> 0, map |-> m] ELSE allocate_bit(got[n - 1].map)]

\* They exist: the recursive function of extend_inode is well defined.
LEMMA AllocsExist ==
  ASSUME NEW m
  PROVE  \E got : Allocs(got, m)
<1>1. PICK g0 : g0 = [id |-> 0, map |-> m]
  OBVIOUS
<1>2. PICK g1 : g1 = allocate_bit(g0.map)
  OBVIOUS
<1>3. PICK g2 : g2 = allocate_bit(g1.map)
  OBVIOUS
<1>4. PICK g3 : g3 = allocate_bit(g2.map)
  OBVIOUS
<1>5. PICK g4 : g4 = allocate_bit(g3.map)
  OBVIOUS
<1>6. PICK got : got = [n \in 0 .. 4 |-> IF n = 0 THEN g0 ELSE IF n = 1 THEN g1
                                         ELSE IF n = 2 THEN g2 ELSE IF n = 3 THEN g3 ELSE g4]
  OBVIOUS
<1>7. got[0] = g0 /\ got[1] = g1 /\ got[2] = g2 /\ got[3] = g3 /\ got[4] = g4
  BY <1>6
<1>8. \A n \in 0 .. 4 : n \in {0, 1, 2, 3, 4}
  OBVIOUS
<1>9. \A n \in 0 .. 4 : got[n] = IF n = 0 THEN g0 ELSE allocate_bit(got[n - 1].map)
  <2> SUFFICES ASSUME NEW n \in 0 .. 4
               PROVE  got[n] = IF n = 0 THEN g0 ELSE allocate_bit(got[n - 1].map)
    OBVIOUS
  <2>1. CASE n = 0
    BY <1>7, <2>1
  <2>2. CASE n = 1
    BY <1>2, <1>7, <2>2
  <2>3. CASE n = 2
    BY <1>3, <1>7, <2>3
  <2>4. CASE n = 3
    BY <1>4, <1>7, <2>4
  <2>5. CASE n = 4
    BY <1>5, <1>7, <2>5
  <2>6. QED
    BY <1>8, <2>1, <2>2, <2>3, <2>4, <2>5
<1>10. QED
  BY <1>1, <1>6, <1>9 DEF Allocs

\* The first k allocations got different blocks that were free.
Taken(got, m, k) ==
    /\ BlockMap(got[k].map)
    /\ got[k].map.free = m.free \ {got[j].id : j \in 1 .. k}
    /\ \A j \in 1 .. k : got[j].id # 0 => got[j].id \in m.free /\ got[j].id \in Meta .. NBlocks - 1
    /\ \A i, j \in 1 .. k : got[i].id # 0 /\ got[i].id = got[j].id => i = j

\* One more allocation.
LEMMA TakenStep ==
  ASSUME NEW m, NEW got, BlockMap(m), Allocs(got, m), NEW k \in 0 .. 3, Taken(got, m, k)
  PROVE  Taken(got, m, k + 1)
<1>1. got[k + 1] = allocate_bit(got[k].map)
  BY DEF Allocs
<1>2. PICK a : a = got[k + 1]
  OBVIOUS
<1>3. PICK g : g = got[k].map
  OBVIOUS
<1>4. NBlocks \in Nat /\ Meta \in Nat /\ Meta >= 1
  BY SizeAssumption
<1>5. Covers(g, NBlocks, Meta) /\ Exact(g, NBlocks) /\ Allocated(g, a, NBlocks, Meta)
  BY <1>1, <1>2, <1>3, <1>4, Allocates DEF Taken, BlockMap
<1>6. BlockMap(a.map)
  BY <1>5 DEF Allocated, BlockMap
<1>7. g.free = m.free \ {got[j].id : j \in 1 .. k}
  BY <1>3 DEF Taken
<1>8. 1 .. k + 1 = 1 .. k \cup {k + 1}
  OBVIOUS
<1>9. 0 \notin m.free /\ 0 \notin g.free
  BY <1>4, <1>5 DEF Covers, BlockMap
<1>10. a.map.free = g.free \ {a.id}
  BY <1>5, <1>9 DEF Allocated
<1>11. a.map.free = m.free \ {got[j].id : j \in 1 .. k + 1}
  BY <1>2, <1>7, <1>8, <1>10
<1>12. a.id # 0 => a.id \in g.free /\ a.id \in Meta .. NBlocks - 1
  BY <1>5 DEF Allocated
<1>13. a.id # 0 => a.id \in m.free /\ \A j \in 1 .. k : got[j].id # a.id
  BY <1>7, <1>12
<1>14. \A j \in 1 .. k + 1 : got[j].id # 0 => got[j].id \in m.free /\ got[j].id \in Meta .. NBlocks - 1
  BY <1>2, <1>8, <1>12, <1>13 DEF Taken
<1>15. \A i, j \in 1 .. k + 1 : got[i].id # 0 /\ got[i].id = got[j].id => i = j
  BY <1>2, <1>8, <1>13 DEF Taken
<1>16. QED
  BY <1>2, <1>6, <1>11, <1>14, <1>15 DEF Taken

\* Every number of allocations up to four.
LEMMA AllTaken ==
  ASSUME NEW m, NEW got, BlockMap(m), Allocs(got, m)
  PROVE  \A k \in 0 .. 4 : Taken(got, m, k)
<1>1. got[0] = [id |-> 0, map |-> m]
  BY DEF Allocs
<1>2. 1 .. 0 = {}
  OBVIOUS
<1>3. Taken(got, m, 0)
  BY <1>1, <1>2 DEF Taken
<1>4. Taken(got, m, 0 + 1)
  BY <1>3, TakenStep
<1>5. Taken(got, m, 1 + 1)
  BY <1>4, TakenStep
<1>6. Taken(got, m, 2 + 1)
  BY <1>5, TakenStep
<1>7. Taken(got, m, 3 + 1)
  BY <1>6, TakenStep
<1>8. \A k \in 0 .. 4 : k = 0 \/ k = 0 + 1 \/ k = 1 + 1 \/ k = 2 + 1 \/ k = 3 + 1
  OBVIOUS
<1>9. QED
  BY <1>3, <1>4, <1>5, <1>6, <1>7, <1>8, Zenon

\* The places of a tree without a data block, the first of them, the index
\* blocks missing above a place, and the number of the allocation that an
\* index block is given.
Free(T) == {p \in Path : IsData(p) /\ T[p] = NoBlock}
FirstFree(T) == CHOOSE p \in Free(T) : \A r \in Free(T) : ~Before(r, p)
Made(T, p) == {a \in Above(p) : T[a] = NoBlock}
Nth(T, p, a) == 2 + Cardinality({b \in Made(T, p) : Len(b) < Len(a)})

\* extend_inode in terms of these names.
LEMMA ExtendIs ==
  ASSUME NEW T, NEW m
  PROVE  \E got :
           /\ Allocs(got, m)
           /\ extend_inode(T, m) =
                IF got[1].id = 0 \/ Free(T) = {}
                THEN [path |-> <<>>, tree |-> T, map |-> got[1].map]
                ELSE [path |-> FirstFree(T),
                      map  |-> got[1 + Cardinality(Made(T, FirstFree(T)))].map,
                      tree |-> [r \in Path |->
                                  IF r = FirstFree(T) THEN got[1].id
                                  ELSE IF r \in Made(T, FirstFree(T))
                                  THEN got[Nth(T, FirstFree(T), r)].id
                                  ELSE T[r]]]
<1> DEFINE got == CHOOSE g : g = [n \in 0 .. 4 |-> IF n = 0 THEN [id |-> 0, map |-> m]
                                                  ELSE allocate_bit(g[n - 1].map)]
<1>1. Allocs(got, m)
  BY AllocsExist, ZenonT(60) DEF Allocs
<1>2. QED
  BY <1>1, ZenonT(60) DEF extend_inode, Free, FirstFree, Made, Nth

\* The place extend_inode picks is the one of the lowest position.
LEMMA FirstFreeIs ==
  ASSUME NEW T, Free(T) # {}
  PROVE  /\ FirstFree(T) \in Free(T)
         /\ \A r \in Free(T) : offset_start(FirstFree(T)) <= offset_start(r)
<1>1. 0 \in Entry
  BY WAssumption DEF Entry
<1>2. \A p \in Free(T) : offset_start(p) \in Nat
  BY <1>1, Offsets DEF Free
<1>3. PICK S : S = {offset_start(p) : p \in Free(T)}
  OBVIOUS
<1>4. S \in SUBSET Nat /\ S # {}
  BY <1>2, <1>3
<1>5. PICK x \in S : \A y \in S : x <= y
  BY <1>4, LeastNumber
<1>6. PICK p \in Free(T) : x = offset_start(p)
  BY <1>3
<1>7. \A r \in Free(T) : ~Before(r, p)
  BY <1>2, <1>3, <1>5, <1>6 DEF Before
<1>8. FirstFree(T) \in Free(T) /\ \A r \in Free(T) : ~Before(r, FirstFree(T))
  BY <1>7 DEF FirstFree
<1>9. QED
  BY <1>2, <1>8 DEF Before

\* A tree that extend_inode has extended: the new data block and the new
\* index blocks are different blocks that were free and are not any more;
\* nothing else changed.
Grown(T, m, x) ==
    /\ x.path \in Free(T) /\ \A r \in Free(T) : offset_start(x.path) <= offset_start(r)
    /\ x.tree = [r \in Path |-> x.tree[r]]
    /\ \A r \in Path : r \notin {x.path} \cup Made(T, x.path) => x.tree[r] = T[r]
    /\ \A r \in {x.path} \cup Made(T, x.path) :
          /\ x.tree[r] \in m.free /\ x.tree[r] \notin x.map.free
          /\ x.tree[r] \in Meta .. NBlocks - 1
    /\ \A r, u \in {x.path} \cup Made(T, x.path) : x.tree[r] = x.tree[u] => r = u
    /\ x.map.free \subseteq m.free /\ BlockMap(x.map)

\* At most three index blocks are made, and each gets an allocation of its
\* own.
LEMMA NthFacts ==
  ASSUME NEW T, NEW p \in Path
  PROVE  /\ Cardinality(Made(T, p)) \in 0 .. 3
         /\ \A a \in Made(T, p) : Nth(T, p, a) \in 2 .. 1 + Cardinality(Made(T, p))
         /\ \A a, b \in Made(T, p) : Nth(T, p, a) = Nth(T, p, b) => a = b
<1>1. PICK M : M = Made(T, p)
  OBVIOUS
<1>2. Chain(p) /\ Len(p) \in 1 .. 4
  BY AboveChain, PathFacts
<1>3. M \subseteq Above(p) /\ \A a \in M : a \in Path /\ Len(a) \in Nat
  <2>1. M \subseteq Above(p) /\ M \subseteq Path
    BY <1>1, <1>2 DEF Made, Chain
  <2>2. QED
    BY <2>1, PathFacts
<1>4. IsFiniteSet(M) /\ Cardinality(M) \in Nat /\ Cardinality(M) <= Cardinality(Above(p))
  BY <1>2, <1>3, FS_Subset, FS_CardinalityType DEF Chain
<1>5. Cardinality(Above(p)) \in Nat /\ Cardinality(Above(p)) < Len(p)
  BY <1>2, FS_CardinalityType DEF Chain
<1>6. Cardinality(M) \in 0 .. 3
  <2>1. PICK c \in Nat : c = Cardinality(M)
    BY <1>4
  <2>2. PICK d \in Nat : d = Cardinality(Above(p))
    BY <1>5
  <2>3. PICK l \in 1 .. 4 : l = Len(p)
    BY <1>2
  <2>4. c <= d /\ d < l
    BY <1>4, <1>5, <2>1, <2>2, <2>3
  <2>5. c \in 0 .. 3
    BY <2>4
  <2>6. QED
    BY <2>1, <2>5
<1> DEFINE Under(a) == {b \in M : Len(b) < Len(a)}
<1>7. ASSUME NEW a \in M
      PROVE  /\ IsFiniteSet(Under(a)) /\ Cardinality(Under(a)) \in Nat
             /\ Cardinality(Under(a)) < Cardinality(M)
             /\ Nth(T, p, a) = 2 + Cardinality(Under(a))
  <2>1. Under(a) \subseteq M /\ a \notin Under(a)
    BY <1>3
  <2>2. Under(a) # M
    BY <2>1
  <2> HIDE DEF Under
  <2>3. IsFiniteSet(Under(a)) /\ Cardinality(Under(a)) <= Cardinality(M)
         /\ (Cardinality(Under(a)) = Cardinality(M) => Under(a) = M)
    BY <1>4, <2>1, FS_Subset
  <2>4. Cardinality(Under(a)) \in Nat
    BY <2>3, FS_CardinalityType
  <2>5. Nth(T, p, a) = 2 + Cardinality(Under(a))
    BY <1>1 DEF Under, Nth
  <2>6. QED
    BY <1>4, <2>2, <2>3, <2>4, <2>5
<1>8. ASSUME NEW a \in M, NEW b \in M, Len(a) < Len(b)
      PROVE  Cardinality(Under(a)) < Cardinality(Under(b))
  <2>1. Under(a) \subseteq Under(b) /\ a \in Under(b) /\ a \notin Under(a)
    BY <1>3, <1>8
  <2>2. IsFiniteSet(Under(b)) /\ Cardinality(Under(b)) \in Nat /\ Cardinality(Under(a)) \in Nat
    BY <1>7
  <2> HIDE DEF Under
  <2>3. Under(a) # Under(b)
    BY <2>1
  <2>4. Cardinality(Under(a)) <= Cardinality(Under(b))
         /\ (Cardinality(Under(a)) = Cardinality(Under(b)) => Under(a) = Under(b))
    BY <2>1, <2>2, FS_Subset
  <2>5. QED
    BY <2>2, <2>3, <2>4
<1>9. ASSUME NEW a \in M, NEW b \in M, Nth(T, p, a) = Nth(T, p, b)
      PROVE  a = b
  <2>1. /\ Cardinality(Under(a)) \in Nat /\ Cardinality(Under(b)) \in Nat
        /\ Nth(T, p, a) = 2 + Cardinality(Under(a)) /\ Nth(T, p, b) = 2 + Cardinality(Under(b))
    BY <1>7
  <2> HIDE DEF Under
  <2>2. Cardinality(Under(a)) = Cardinality(Under(b))
    <3>1. PICK c \in Nat : c = Cardinality(Under(a))
      BY <2>1
    <3>2. PICK d \in Nat : d = Cardinality(Under(b))
      BY <2>1
    <3>3. 2 + c = 2 + d
      BY <1>9, <2>1, <3>1, <3>2
    <3>4. c = d
      BY <3>3
    <3>5. QED
      BY <3>1, <3>2, <3>4
  <2>3. ~(Len(a) < Len(b)) /\ ~(Len(b) < Len(a))
    BY <1>8, <2>1, <2>2
  <2>4. Len(a) = Len(b)
    BY <1>3, <2>3
  <2>5. QED
    BY <1>2, <1>3, <2>4 DEF Chain
<1>10. ASSUME NEW a \in M
       PROVE  Nth(T, p, a) \in 2 .. 1 + Cardinality(M)
  <2> HIDE DEF Under
  <2> QED
    BY <1>4, <1>7
<1>11. QED
  BY <1>1, <1>6, <1>9, <1>10

\* extend_inode extends the tree or, when the device or the tree is full,
\* does not; a careful client's index blocks are never left with id 0.
LEMMA Extends ==
  ASSUME NEW T, NEW m, BlockMap(m), NEW x, x = extend_inode(T, m),
         x.path # <<>> => \A r \in Path : IsIndex(r) /\ T[r] = NoBlock => x.tree[r] # 0
  PROVE  \/ x.path = <<>> /\ BlockMap(x.map) /\ x.map.free \subseteq m.free
         \/ x.path # <<>> /\ Grown(T, m, x)
<1>1. PICK got :
        /\ Allocs(got, m)
        /\ x = IF got[1].id = 0 \/ Free(T) = {}
               THEN [path |-> <<>>, tree |-> T, map |-> got[1].map]
               ELSE [path |-> FirstFree(T),
                     map  |-> got[1 + Cardinality(Made(T, FirstFree(T)))].map,
                     tree |-> [r \in Path |->
                                 IF r = FirstFree(T) THEN got[1].id
                                 ELSE IF r \in Made(T, FirstFree(T))
                                 THEN got[Nth(T, FirstFree(T), r)].id
                                 ELSE T[r]]]
  BY ExtendIs
<1>2. \A k \in 0 .. 4 : Taken(got, m, k)
  BY <1>1, AllTaken
<1>3. CASE got[1].id = 0 \/ Free(T) = {}
  <2>1. x.path = <<>> /\ x.map = got[1].map
    BY <1>1, <1>3
  <2>2. Taken(got, m, 1)
    BY <1>2
  <2>3. QED
    BY <2>1, <2>2 DEF Taken
<1>4. CASE ~(got[1].id = 0 \/ Free(T) = {})
  <2>1. PICK p : p = FirstFree(T)
    OBVIOUS
  <2>2. p \in Free(T) /\ \A r \in Free(T) : offset_start(p) <= offset_start(r)
    BY <1>4, <2>1, FirstFreeIs
  <2>3. p \in Path /\ IsData(p) /\ T[p] = NoBlock /\ Chain(p)
    BY <2>2, AboveChain DEF Free
  <2>4. PICK M : M = Made(T, p)
    OBVIOUS
  <2>5. PICK n : n = Cardinality(M)
    OBVIOUS
  <2>6. /\ n \in 0 .. 3
        /\ \A a \in M : Nth(T, p, a) \in 2 .. 1 + n
        /\ \A a, b \in M : Nth(T, p, a) = Nth(T, p, b) => a = b
    BY <2>3, <2>4, <2>5, NthFacts
  <2>7. /\ x.path = p /\ x.map = got[1 + n].map
        /\ x.tree = [r \in Path |-> IF r = p THEN got[1].id
                                    ELSE IF r \in M THEN got[Nth(T, p, r)].id ELSE T[r]]
    BY <1>1, <1>4, <2>1, <2>4, <2>5
  <2>8. p # <<>>
    BY <2>3, PathFacts
  <2>9. \A a \in M : a \in Path /\ IsIndex(a) /\ T[a] = NoBlock /\ a # p
    BY <2>3, <2>4 DEF Made, Chain, IsIndex
  <2>10. Taken(got, m, 1 + n)
    BY <1>2, <2>6
  <2> DEFINE num(r) == IF r = p THEN 1 ELSE Nth(T, p, r)
  <2>11. ASSUME NEW r \in {p} \cup M
         PROVE  num(r) \in 1 .. 1 + n /\ x.tree[r] = got[num(r)].id /\ x.tree[r] # 0
    <3>1. CASE r = p
      BY <1>4, <2>3, <2>6, <2>7, <3>1
    <3>2. CASE r \in M
      BY <2>6, <2>7, <2>8, <2>9, <3>2
    <3>3. QED
      BY <3>1, <3>2
  <2>12. \A r, u \in {p} \cup M : num(r) = num(u) => r = u
    BY <2>6, <2>9
  <2> HIDE DEF num
  <2>13. ASSUME NEW r \in {p} \cup M
         PROVE  x.tree[r] \in m.free /\ x.tree[r] \notin x.map.free /\ x.tree[r] \in Meta .. NBlocks - 1
    <3>1. PICK k \in 1 .. 1 + n : x.tree[r] = got[k].id /\ got[k].id # 0
      BY <2>11
    <3>2. QED
      BY <2>7, <2>10, <3>1 DEF Taken
  <2>14. ASSUME NEW r \in {p} \cup M, NEW u \in {p} \cup M, x.tree[r] = x.tree[u]
         PROVE  r = u
    <3>1. num(r) = num(u)
      BY <2>10, <2>11, <2>14 DEF Taken
    <3>2. QED
      BY <2>12, <3>1
  <2>15. x.map.free \subseteq m.free /\ BlockMap(x.map)
    BY <2>7, <2>10 DEF Taken
  <2>16. \A r \in Path : r \notin {p} \cup M => x.tree[r] = T[r]
    BY <2>7
  <2>17. x.tree = [r \in Path |-> x.tree[r]]
    BY <2>7
  <2>18. QED
    BY <2>2, <2>4, <2>7, <2>8, <2>13, <2>14, <2>15, <2>16, <2>17, ZenonT(60) DEF Grown
<1>5. QED
  BY <1>3, <1>4

\* The blocks a file may own.
Device == Meta .. NBlocks - 1

\* The blocks a tree owns.
Blocks(T) == {T[p] : p \in Path} \ {NoBlock, 0}

\* A tree that holds a file of n words: every position before n has a block
\* of its own on the device and none after the last has one, and index blocks
\* are there for the blocks below them.
Whole(T, n) ==
    /\ n \in Nat /\ n <= MaxFile
    /\ T = [p \in Path |-> T[p]] /\ Injective(T) /\ Rooted(T)
    /\ \A p \in Path : /\ T[p] \in Device \cup {0, NoBlock}
                       /\ T[p] = 0 => Len(p) = 1 /\ p[1] < 4
                       /\ IsData(p) => (T[p] \in Device <=> offset_start(p) < n)

\* The file's words are at their places on the device.
Written(T, n, f, word) ==
    \A at \in 0 .. n - 1 : word[T[SelectedPath(at)]][at % W] = Datum(f, at)

\* Block ids are numbers of the device; 0 and no block are none of them.
LEMMA DeviceFacts ==
  /\ Device \subseteq BlockBit /\ NoBlock \notin BlockBit /\ BlockBit \subseteq Nat
  /\ NoBlock \notin Device /\ 0 \notin Device /\ NoBlock # 0
  /\ \A b \in Device : b \in Nat /\ b >= Meta
<1>1. NBlocks \in Nat /\ Meta \in 1 .. NBlocks
  BY SizeAssumption
<1>2. BitmapBits(NBlocks) \in Nat /\ NBlocks <= BitmapBits(NBlocks)
  BY <1>1, Bits
<1>3. QED
  BY <1>1, <1>2, NoBlockAssumption DEF Device, BlockBit

\* The largest file has a finite size.
LEMMA MaxFileNat == MaxFile \in Nat
<1>1. W \in Nat
  BY WAssumption
<1>2. W * W \in Nat
  BY <1>1
<1>3. W * (W * W) \in Nat
  BY <1>1, <1>2
<1>4. W * (W * (W * W)) \in Nat
  BY <1>1, <1>3
<1>5. QED
  BY <1>1, <1>2, <1>3, <1>4
  DEF MaxFile, dir_storage, ind_storage, bind_storage, tind_storage

\* A data block lies within the largest file.
LEMMA OffsetNat ==
  ASSUME NEW p \in Path, IsData(p)
  PROVE  offset_start(p) \in Nat /\ offset_start(p) + (W - 1) < MaxFile
<1>1. W - 1 \in Entry
  BY WAssumption DEF Entry
<1>2. QED
  BY <1>1, Offsets

(* Two data blocks that share a position are one. *)
LEMMA OffsetsApart ==
  ASSUME NEW p \in Path, IsData(p), NEW r \in Path, IsData(r),
         offset_start(p) <= offset_start(r), offset_start(r) < offset_start(p) + W
  PROVE  p = r
<1>1. offset_start(p) \in Nat /\ offset_start(r) \in Nat /\ W \in Nat
  BY OffsetNat, WAssumption
<1>2. PICK e \in Entry : offset_start(p) + e = offset_start(r) + 0
  <2>1. PICK a \in Nat : a = offset_start(p)
    BY <1>1
  <2>2. PICK b \in Nat : b = offset_start(r)
    BY <1>1
  <2>3. b - a \in Entry /\ a + (b - a) = b + 0
    BY <1>1, <2>1, <2>2 DEF Entry
  <2>4. QED
    BY <2>1, <2>2, <2>3
<1>3. 0 \in Entry
  BY WAssumption DEF Entry
<1>4. SelectedPath(offset_start(p) + e) = p
  BY Offsets
<1>5. SelectedPath(offset_start(r) + 0) = r
  BY <1>3, Offsets
<1>6. QED
  BY <1>2, <1>4, <1>5

(* A position before the end of the file has a block. *)
LEMMA Reads ==
  ASSUME NEW T, NEW n, Whole(T, n), NEW at \in 0 .. n - 1
  PROVE  /\ SelectedPath(at) \in Path /\ IsData(SelectedPath(at)) /\ at % W \in Entry
         /\ T[SelectedPath(at)] \in Device
<1>1. at \in Nat /\ at < MaxFile /\ n \in Nat /\ at < n
  BY MaxFileNat DEF Whole
<1>2. /\ SelectedPath(at) \in Path /\ IsData(SelectedPath(at)) /\ at % W \in Entry
      /\ offset_start(SelectedPath(at)) + (at % W) = at
  BY <1>1, Selected
<1>3. offset_start(SelectedPath(at)) \in Nat
  BY <1>2, OffsetNat
<1>4. PICK e \in Nat : e = at % W
  BY <1>2, WAssumption DEF Entry
<1>5. offset_start(SelectedPath(at)) < n
  BY <1>1, <1>2, <1>3, <1>4
<1>6. QED
  BY <1>2, <1>5 DEF Whole

\* A file is as written after changes to other blocks.
LEMMA WrittenSame ==
  ASSUME NEW T, NEW n, NEW f, NEW word, NEW new, Whole(T, n), Written(T, n, f, word),
         \A p \in Path : IsData(p) /\ T[p] \in Device => new[T[p]] = word[T[p]]
  PROVE  Written(T, n, f, new)
BY Reads DEF Written

\* A stored tree is the same after changes to other blocks than its index
\* blocks.
LEMMA StoredSame ==
  ASSUME NEW slot, NEW n, NEW word, NEW new, DOMAIN word = BlockBit, DOMAIN new = BlockBit,
         Whole(LoadedTree(slot, word), n),
         \A p \in Path : IsIndex(p) /\ LoadedTree(slot, word)[p] \in Device =>
            new[LoadedTree(slot, word)[p]] = word[LoadedTree(slot, word)[p]]
  PROVE  LoadedTree(slot, new) = LoadedTree(slot, word)
<1>1. PICK L : L = LoadedTree(slot, word)
  OBVIOUS
<1>2. \A p \in Path : IsIndex(p) => L[p] \in Device \cup {NoBlock}
  <2> SUFFICES ASSUME NEW p \in Path, IsIndex(p) PROVE L[p] \in Device \cup {NoBlock}
    OBVIOUS
  <2>1. ~(Len(p) = 1 /\ p[1] < 4)
    BY DEF IsIndex, IsData, Depth
  <2>2. QED
    BY <1>1, <2>1 DEF Whole
<1>3. \A p \in Path : IsIndex(p) /\ L[p] \in DOMAIN word => new[L[p]] = word[L[p]]
  <2>1. NoBlock \notin DOMAIN word
    BY DeviceFacts
  <2>2. QED
    BY <1>1, <1>2, <2>1
<1>4. QED
  BY <1>1, <1>3, LoadSame

\* The tree of a new inode holds the empty file.
LEMMA NoneWhole ==
  /\ Whole(NoTree, 0) /\ Blocks(NoTree) = {}
<1>1. \A p \in Path : NoTree[p] = NoBlock
  BY DEF NoTree
<1>2. Injective(NoTree) /\ Rooted(NoTree)
  BY <1>1 DEF Injective, Rooted
<1>3. \A p \in Path : IsData(p) => ~(offset_start(p) < 0)
  BY OffsetNat
<1>4. NoTree = [p \in Path |-> NoTree[p]]
  BY DEF NoTree
<1>5. QED
  BY <1>1, <1>2, <1>3, <1>4, MaxFileNat, DeviceFacts DEF Whole, Blocks

\* Closing and opening a file keeps it whole.
LEMMA ReloadKeeps ==
  ASSUME NEW T, NEW n, Whole(T, n)
  PROVE  /\ Whole(Reloaded(T), n) /\ Blocks(Reloaded(T)) = Blocks(T)
         /\ \A p \in Path : T[p] \in Device => Reloaded(T)[p] = T[p]
<1>1. PICK R : R = Reloaded(T)
  OBVIOUS
<1>2. \A p \in Path : R[p] = T[p] \/ (R[p] = 0 /\ T[p] = NoBlock /\ Len(p) = 1 /\ p[1] < 4)
  BY <1>1 DEF Reloaded
<1>3. \A p \in Path : T[p] \notin {NoBlock, 0} => R[p] = T[p]
  BY <1>2
<1>4. \A p \in Path : R[p] \notin {NoBlock, 0} => R[p] = T[p]
  BY <1>2
<1>5. Injective(R)
  BY <1>4 DEF Whole, Injective
<1>6. Rooted(R)
  <2> SUFFICES ASSUME NEW p \in Path, Len(p) > 1, R[p] # NoBlock PROVE R[Front(p)] # NoBlock
    BY DEF Rooted
  <2>1. R[p] = T[p]
    BY <1>2
  <2>2. T[Front(p)] # NoBlock /\ Front(p) \in Path
    BY <2>1, Parent DEF Whole, Rooted
  <2>3. QED
    BY <1>2, <2>2, DeviceFacts
<1>7. \A p \in Path : R[p] \in Device <=> T[p] \in Device
  BY <1>2, DeviceFacts
<1>8. Whole(R, n)
  <2>1. R = [p \in Path |-> R[p]]
    BY <1>1 DEF Reloaded
  <2>2. \A p \in Path : /\ R[p] \in Device \cup {0, NoBlock}
                        /\ R[p] = 0 => Len(p) = 1 /\ p[1] < 4
    BY <1>2 DEF Whole
  <2>3. QED
    BY <1>5, <1>6, <1>7, <2>1, <2>2 DEF Whole
<1>9. Blocks(R) = Blocks(T)
  <2>1. \A p \in Path : R[p] \notin {NoBlock, 0} <=> T[p] \notin {NoBlock, 0}
    BY <1>2
  <2>2. QED
    BY <1>3, <1>4, <2>1 DEF Blocks
<1>10. QED
  BY <1>1, <1>3, <1>8, <1>9, DeviceFacts

\* What a turn of udbfs_write_to_inode may rely on: the block x leads to
\* contains the cursor, the tree will hold the file up to any end within that
\* block, and the blocks that were added were free.
Placed(T, n, m, c, x) ==
    /\ x.path \in Path /\ IsData(x.path)
    /\ offset_start(x.path) <= c /\ c < offset_start(x.path) + W
    /\ x.tree[x.path] \in Device
    /\ \A end \in c + 1 .. offset_start(x.path) + W : Whole(x.tree, IF end > n THEN end ELSE n)
    /\ Blocks(x.tree) \subseteq Blocks(T) \cup m.free
    /\ Blocks(x.tree) \cap x.map.free = {}
    /\ x.map.free \subseteq m.free /\ BlockMap(x.map)
    /\ \A at \in 0 .. n - 1 : x.tree[SelectedPath(at)] = T[SelectedPath(at)]
    /\ x.tree = T \/ c = n

\* The turn writes to a block the file has.
LEMMA PlaceKept ==
  ASSUME NEW T, NEW n, NEW m, NEW c \in Nat, NEW x,
         Whole(T, n), BlockMap(m), Blocks(T) \cap m.free = {}, c < MaxFile,
         T[SelectedPath(c)] \notin {NoBlock, 0},
         x = [path |-> SelectedPath(c), tree |-> T, map |-> m]
  PROVE  Placed(T, n, m, c, x)
<1>1. PICK p : p = SelectedPath(c)
  OBVIOUS
<1>2. p \in Path /\ IsData(p) /\ c % W \in Entry /\ offset_start(p) + (c % W) = c
  BY <1>1, Selected
<1>3. offset_start(p) \in Nat /\ W \in Nat /\ offset_start(p) + (W - 1) < MaxFile
  BY <1>2, OffsetNat, WAssumption
<1>4. offset_start(p) <= c /\ c < offset_start(p) + W
  <2>1. PICK e \in Entry : e = c % W
    BY <1>2
  <2>2. QED
    BY <1>2, <1>3, <2>1 DEF Entry
<1>5. x.path = p /\ x.tree = T /\ x.map = m
  BY <1>1
<1>6. T[p] \in Device /\ offset_start(p) < n /\ n \in Nat
  BY <1>1, <1>2 DEF Whole
<1>7. ASSUME NEW end \in c + 1 .. offset_start(p) + W
      PROVE  Whole(T, IF end > n THEN end ELSE n)
  <2>1. PICK l \in Nat : l = IF end > n THEN end ELSE n
    BY <1>3, <1>6
  <2>2. l <= MaxFile /\ n <= l
    BY <1>3, <1>6, <2>1, MaxFileNat DEF Whole
  <2>3. ASSUME NEW r \in Path, IsData(r)
        PROVE  T[r] \in Device <=> offset_start(r) < l
    <3>1. offset_start(r) \in Nat
      BY <2>3, OffsetNat
    <3>2. T[r] \in Device <=> offset_start(r) < n
      BY <2>3 DEF Whole
    <3>3. ASSUME offset_start(r) >= n, offset_start(r) < l PROVE FALSE
      <4>1. offset_start(p) <= offset_start(r) /\ offset_start(r) < offset_start(p) + W
        BY <1>3, <1>6, <2>1, <3>1, <3>3
      <4>2. p = r
        BY <1>2, <2>3, <4>1, OffsetsApart
      <4>3. QED
        BY <1>6, <3>1, <3>3, <4>2
    <3>4. QED
      BY <1>6, <2>2, <3>1, <3>2, <3>3
  <2>4. Whole(T, l)
    BY <2>2, <2>3 DEF Whole
  <2>5. QED
    BY <2>1, <2>4
<1>8. QED
  BY <1>2, <1>4, <1>5, <1>6, <1>7 DEF Placed

\* The turn writes to the block the file was extended by: since the positions
\* before n all have blocks, the first place without one is the one the
\* cursor is at.
LEMMA PlaceGrown ==
  ASSUME NEW T, NEW n, NEW m, NEW c \in Nat, NEW x,
         Whole(T, n), BlockMap(m), Blocks(T) \cap m.free = {}, c <= n,
         c >= MaxFile \/ T[SelectedPath(c)] = NoBlock, Grown(T, m, x)
  PROVE  Placed(T, n, m, c, x)
<1>1. PICK p : p = x.path
  OBVIOUS
<1>2. /\ p \in Path /\ IsData(p) /\ T[p] = NoBlock /\ n \in Nat
      /\ \A r \in Path : IsData(r) /\ T[r] = NoBlock => offset_start(p) <= offset_start(r)
  BY <1>1 DEF Grown, Free, Whole
<1>3. offset_start(p) \in Nat /\ W \in Nat \ {0} /\ offset_start(p) + (W - 1) < MaxFile
  BY <1>2, OffsetNat, WAssumption
<1>4. \A r \in Path : IsData(r) /\ T[r] = NoBlock => offset_start(r) \in Nat /\ offset_start(r) >= n
  BY <1>2, OffsetNat, DeviceFacts DEF Whole
<1>5. c < MaxFile
  BY <1>2, <1>3, <1>4, MaxFileNat
<1>6. SelectedPath(c) \in Path /\ IsData(SelectedPath(c)) /\ T[SelectedPath(c)] = NoBlock
  BY <1>5, Selected, MaxFileNat
<1>7. offset_start(SelectedPath(c)) <= c
  <2>1. PICK e \in Nat : e = c % W
    BY <1>5, Selected, WAssumption DEF Entry
  <2>2. offset_start(SelectedPath(c)) \in Nat /\ offset_start(SelectedPath(c)) + e = c
    BY <1>5, <1>6, <2>1, Selected, OffsetNat
  <2>3. QED
    BY <2>2
<1>8. c = n /\ offset_start(p) = n
  BY <1>2, <1>3, <1>4, <1>6, <1>7
<1>9. PICK M : M = Made(T, p)
  OBVIOUS
<1>10. PICK N : N = {p} \cup M
  OBVIOUS
<1>11. PICK U : U = x.tree
  OBVIOUS
<1>12. /\ U = [r \in Path |-> U[r]]
       /\ \A r \in Path : r \notin N => U[r] = T[r]
       /\ \A r \in N : U[r] \in m.free /\ U[r] \notin x.map.free /\ U[r] \in Device
       /\ \A r, u \in N : U[r] = U[u] => r = u
       /\ x.map.free \subseteq m.free /\ BlockMap(x.map)
  BY <1>1, <1>9, <1>10, <1>11 DEF Grown, Device
<1>13. Chain(p)
  BY <1>2, AboveChain
<1>14. \A r \in M : r \in Path /\ IsIndex(r) /\ T[r] = NoBlock /\ r \in Above(p)
  BY <1>9, <1>13 DEF Made, Chain
<1>15. \A r \in N : r \in Path /\ T[r] = NoBlock
  BY <1>2, <1>10, <1>14
<1>16. \A r \in Path : IsData(r) /\ r # p => U[r] = T[r]
  BY <1>10, <1>12, <1>14 DEF IsIndex
<1>17. Blocks(U) \subseteq Blocks(T) \cup m.free /\ Blocks(U) \cap x.map.free = {}
  <2>1. ASSUME NEW r \in Path, U[r] \notin {NoBlock, 0}
        PROVE  U[r] \in Blocks(T) \cup m.free /\ U[r] \notin x.map.free
    <3>1. CASE r \in N
      BY <1>12, <3>1
    <3>2. CASE r \notin N
      BY <1>12, <2>1, <3>2 DEF Blocks
    <3>3. QED
      BY <3>1, <3>2
  <2>2. QED
    BY <2>1 DEF Blocks
<1>18. Injective(U)
  <2> SUFFICES ASSUME NEW r \in Path, NEW u \in Path, U[r] = U[u], U[r] \notin {NoBlock, 0}
               PROVE  r = u
    BY DEF Injective
  <2>1. ASSUME NEW a \in Path, a \notin N, U[a] \notin {NoBlock, 0} PROVE U[a] \notin m.free
    BY <1>12, <2>1 DEF Blocks
  <2>2. CASE r \in N /\ u \in N
    BY <1>12, <2>2
  <2>3. CASE r \notin N /\ u \notin N
    BY <1>12, <2>3 DEF Whole, Injective
  <2>4. CASE r \in N /\ u \notin N
    BY <1>12, <2>1, <2>4
  <2>5. CASE r \notin N /\ u \in N
    BY <1>12, <2>1, <2>5
  <2>6. QED
    BY <2>2, <2>3, <2>4, <2>5
<1>19. \A r \in Path : U[r] = NoBlock => T[r] = NoBlock /\ r \notin N
  BY <1>12, DeviceFacts
<1>20. Rooted(U)
  <2> SUFFICES ASSUME NEW r \in Path, Len(r) > 1, U[r] # NoBlock, U[Front(r)] = NoBlock
               PROVE  FALSE
    BY DEF Rooted
  <2>1. Front(r) \in Path /\ T[Front(r)] = NoBlock /\ Front(r) \notin N
    BY <1>19, Parent
  <2>2. CASE r \in N
    <3>1. Front(r) \in Above(p)
      <4>1. CASE r = p
        BY <1>13, <4>1 DEF Chain
      <4>2. CASE r \in M
        BY <1>13, <1>14, <4>2 DEF Chain
      <4>3. QED
        BY <1>10, <2>2, <4>1, <4>2
    <3>2. QED
      BY <1>9, <1>10, <2>1, <3>1 DEF Made
  <2>3. CASE r \notin N
    BY <1>12, <2>1, <2>3 DEF Whole, Rooted
  <2>4. QED
    BY <2>2, <2>3
<1>21. \A r \in Path : U[r] \in Device \cup {0, NoBlock} /\ (U[r] = 0 => Len(r) = 1 /\ r[1] < 4)
  BY <1>12, DeviceFacts DEF Whole
<1>22. ASSUME NEW end \in c + 1 .. offset_start(p) + W
       PROVE  Whole(U, IF end > n THEN end ELSE n)
  <2>1. end \in Nat /\ end > n /\ end <= MaxFile /\ end <= offset_start(p) + W
    BY <1>2, <1>3, <1>8, MaxFileNat
  <2>2. ASSUME NEW r \in Path, IsData(r)
        PROVE  U[r] \in Device <=> offset_start(r) < end
    <3>1. offset_start(r) \in Nat
      BY <2>2, OffsetNat
    <3>2. CASE r = p
      BY <1>8, <1>10, <1>12, <2>1, <3>2
    <3>3. CASE r # p
      <4>1. U[r] \in Device <=> offset_start(r) < n
        BY <1>16, <2>2, <3>3 DEF Whole
      <4>2. ~(offset_start(p) <= offset_start(r) /\ offset_start(r) < offset_start(p) + W)
        BY <1>2, <2>2, <3>3, OffsetsApart
      <4>3. QED
        BY <1>2, <1>3, <1>8, <2>1, <3>1, <4>1, <4>2
    <3>4. QED
      BY <3>2, <3>3
  <2>3. Whole(U, end)
    BY <1>12, <1>18, <1>20, <1>21, <2>1, <2>2 DEF Whole
  <2>4. QED
    BY <2>1, <2>3
<1>23. \A at \in 0 .. n - 1 : U[SelectedPath(at)] = T[SelectedPath(at)]
  <2> SUFFICES ASSUME NEW at \in 0 .. n - 1 PROVE U[SelectedPath(at)] = T[SelectedPath(at)]
    OBVIOUS
  <2>1. SelectedPath(at) \in Path /\ IsData(SelectedPath(at)) /\ T[SelectedPath(at)] \in Device
    BY Reads
  <2>2. SelectedPath(at) # p
    BY <1>2, <2>1, DeviceFacts
  <2>3. QED
    BY <1>16, <2>1, <2>2
<1>24. p \in N /\ U[p] \in Device
  BY <1>10, <1>12
<1>25. offset_start(p) <= c /\ c < offset_start(p) + W
  BY <1>2, <1>3, <1>8
<1>26. QED
  BY <1>1, <1>2, <1>8, <1>11, <1>12, <1>17, <1>22, <1>23, <1>24, <1>25 DEF Placed

\* After the turn the file is written up to the turn's end.
LEMMA WriteKeeps ==
  ASSUME NEW T, NEW n, NEW m, NEW c \in Nat, NEW x, NEW f, NEW word, NEW new,
         NEW end \in c + 1 .. offset_start(x.path) + W,
         Whole(T, n), c <= n, Placed(T, n, m, c, x), Written(T, n, f, word),
         DOMAIN word = BlockBit, new = Put(word, x, f, c, end)
  PROVE  Written(x.tree, IF end > n THEN end ELSE n, f, new)
<1>1. PICK p : p = x.path
  OBVIOUS
<1>2. PICK U : U = x.tree
  OBVIOUS
<1>3. PICK b : b = U[p]
  OBVIOUS
<1>4. PICK l \in Nat : l = IF end > n THEN end ELSE n
  BY DEF Placed, Whole
<1>5. Whole(U, l) /\ p \in Path /\ IsData(p) /\ b \in Device /\ n \in Nat
  BY <1>1, <1>2, <1>3, <1>4 DEF Placed, Whole
<1>6. offset_start(p) \in Nat /\ W \in Nat \ {0} /\ end \in Nat /\ end <= offset_start(p) + W
       /\ offset_start(p) <= c
  BY <1>1, <1>5, OffsetNat, WAssumption DEF Placed
<1>7. b \in DOMAIN word
  BY <1>5, DeviceFacts
<1>8. /\ \A d \in DOMAIN word : d # b => new[d] = word[d]
      /\ new[b] = [e \in Entry |-> IF e + offset_start(p) \in c .. end - 1
                                   THEN Datum(f, e + offset_start(p)) ELSE word[b][e]]
  BY <1>1, <1>2, <1>3, <1>7 DEF Put
<1>9. ASSUME NEW at \in 0 .. l - 1
      PROVE  new[U[SelectedPath(at)]][at % W] = Datum(f, at)
  <2>1. /\ SelectedPath(at) \in Path /\ IsData(SelectedPath(at)) /\ U[SelectedPath(at)] \in Device
        /\ at % W \in Entry
    BY <1>5, Reads
  <2>2. PICK e \in Entry : e = at % W
    BY <2>1
  <2>3. at \in Nat /\ at < MaxFile
    BY <1>4, <1>5, MaxFileNat DEF Whole
  <2>4. offset_start(SelectedPath(at)) + e = at /\ offset_start(SelectedPath(at)) \in Nat
    BY <2>1, <2>2, <2>3, Selected, OffsetNat
  <2>5. e \in Nat /\ e < W
    BY <2>2, WAssumption DEF Entry
  <2>6. CASE SelectedPath(at) = p
    <3>1. e + offset_start(p) = at /\ U[SelectedPath(at)] = b
      BY <1>3, <1>6, <2>4, <2>5, <2>6
    <3>2. CASE at \in c .. end - 1
      BY <1>8, <2>2, <3>1, <3>2
    <3>3. CASE at \notin c .. end - 1
      <4>1. at \in 0 .. n - 1
        BY <1>4, <1>5, <1>6, <2>3, <3>3
      <4>2. word[U[SelectedPath(at)]][at % W] = Datum(f, at)
        BY <1>2, <4>1 DEF Placed, Written
      <4>3. new[b][e] = word[b][e]
        BY <1>8, <3>1, <3>3
      <4>4. QED
        BY <2>2, <3>1, <4>2, <4>3
    <3>4. QED
      BY <3>2, <3>3
  <2>7. CASE SelectedPath(at) # p
    <3>1. U[SelectedPath(at)] # b
      BY <1>3, <1>5, <2>1, <2>7, DeviceFacts DEF Whole, Injective
    <3>2. at \in 0 .. n - 1
      <4>1. SUFFICES ASSUME at >= n PROVE FALSE
        BY <1>5, <2>3
      <4>2. at \in c .. end - 1
        BY <1>4, <1>5, <1>6, <2>3, <4>1
      <4>3. PICK d \in Entry : d + offset_start(p) = at
        <5>1. at - offset_start(p) \in Entry
          BY <1>6, <2>3, <4>2 DEF Entry
        <5>2. (at - offset_start(p)) + offset_start(p) = at
          BY <1>6, <2>3
        <5>3. QED
          BY <5>1, <5>2
      <4>4. offset_start(p) + d = at
        BY <1>6, <4>3 DEF Entry
      <4>5. SelectedPath(offset_start(p) + d) = p
        BY <1>5, Offsets
      <4>6. QED
        BY <2>7, <4>4, <4>5
    <3>3. word[U[SelectedPath(at)]][at % W] = Datum(f, at)
      BY <1>2, <3>2 DEF Placed, Written
    <3>4. U[SelectedPath(at)] \in DOMAIN word
      BY <2>1, DeviceFacts
    <3>5. QED
      BY <1>8, <3>1, <3>3, <3>4
  <2>8. QED
    BY <2>6, <2>7
<1>10. QED
  BY <1>2, <1>4, <1>9 DEF Written

\* close_inode stores the tree, and overwrites neither data blocks nor any
\* block of another file.
LEMMA CloseKeeps ==
  ASSUME NEW T, NEW n, NEW word, NEW new, Whole(T, n), DOMAIN word = BlockBit,
         new = SavedIndex(T, word)
  PROVE  /\ LoadedTree(SavedSlots(T), new) = Reloaded(T) /\ DOMAIN new = BlockBit
         /\ \A b \in BlockBit : b \notin Blocks(T) => new[b] = word[b]
         /\ \A p \in Path : IsData(p) /\ T[p] \in Device => new[T[p]] = word[T[p]]
<1>1. ASSUME NEW p \in Path, IsIndex(p), T[p] # NoBlock PROVE T[p] \in Device
  <2>1. ~(Len(p) = 1 /\ p[1] < 4)
    BY <1>1 DEF IsIndex, IsData, Depth
  <2>2. QED
    BY <1>1, <2>1 DEF Whole
<1>2. Standing(T, BlockBit)
  BY <1>1, DeviceFacts DEF Whole, Standing
<1>3. BlockBit \subseteq Int
  BY DeviceFacts
<1>4. LoadedTree(SavedSlots(T), new) = Reloaded(T)
  BY <1>2, <1>3, RoundTrip
<1>5. DOMAIN new = BlockBit
  BY SavedDomain
<1>6. ASSUME NEW b \in BlockBit, b \notin Blocks(T) PROVE new[b] = word[b]
  <2>1. \A p \in Path : IsIndex(p) => T[p] # b
    BY <1>1, <1>6, DeviceFacts DEF Blocks
  <2>2. QED
    BY <2>1, SavedElse
<1>7. ASSUME NEW p \in Path, IsData(p), T[p] \in Device PROVE new[T[p]] = word[T[p]]
  <2>1. T[p] \in BlockBit /\ T[p] \notin {NoBlock, 0}
    BY <1>7, DeviceFacts
  <2>2. \A r \in Path : IsIndex(r) => T[r] # T[p]
    BY <1>7, <2>1 DEF Whole, Injective, IsIndex
  <2>3. QED
    BY <2>1, <2>2, SavedElse
<1>8. QED
  BY <1>4, <1>5, <1>6, <1>7
-----------------------------------------------------------------------------
\* The shape of the list of opened inodes; without a node, and with one.
ListOf(l) ==
    /\ l = [root |-> l.root, live |-> l.live, state |-> l.state, next |-> l.next, prev |-> l.prev]
    /\ l.next = [n \in Handle |-> l.next[n]] /\ l.prev = [n \in Handle |-> l.prev[n]]
    /\ l.state = "sound"

Empty(l)     == ListOf(l) /\ l.live = {} /\ l.root = NULL
Single(l, h) == /\ ListOf(l) /\ h \in Handle /\ l.live = {h} /\ l.root = h
                /\ l.next[h] = NULL /\ l.prev[h] = NULL

\* A new list is empty.
LEMMA EmptyIsEmpty == Empty(EmptyList)
BY DEF Empty, ListOf, EmptyList

\* Linking the only node.
LEMMA LinkFirst ==
  ASSUME NEW l, NEW h \in Handle, Empty(l)
  PROVE  Single(link(l, h), h)
<1>1. PICK k : k = link(l, h)
  OBVIOUS
<1>2. k = [root |-> h, live |-> {h}, state |-> "sound", next |-> [l.next EXCEPT ![h] = NULL],
           prev |-> [m \in Handle |-> IF m = h THEN NULL ELSE IF m = NULL THEN h ELSE l.prev[m]]]
  BY <1>1 DEF link, Empty, ListOf
<1>3. QED
  BY <1>1, <1>2 DEF Single, ListOf, Empty

\* Unlinking and freeing the only node.
LEMMA UnlinkLast ==
  ASSUME NEW l, NEW h, Single(l, h)
  PROVE  Empty(FreeNode(unlink(l, h), h))
<1>1. unlink(l, h) = [l EXCEPT !.root = NULL, !.next[h] = NULL]
  BY DEF unlink, UnlinkFirst, Single
<1>2. PICK k : k = unlink(l, h)
  OBVIOUS
<1>3. k = [root |-> NULL, live |-> {h}, state |-> "sound", next |-> [l.next EXCEPT ![h] = NULL],
           prev |-> l.prev]
  BY <1>1, <1>2 DEF Single, ListOf
<1>4. FreeNode(k, h) =
        [root |-> NULL, live |-> {}, state |-> "sound", next |-> [l.next EXCEPT ![h] = NULL],
         prev |-> l.prev]
  BY <1>3 DEF FreeNode
<1>5. QED
  BY <1>2, <1>4 DEF Empty, ListOf, Single

\* A walk along the list meets the open inode and nothing else.
LEMMA WalkedList ==
  ASSUME NEW l
  PROVE  /\ Empty(l) => Walked(l) = {}
         /\ \A h : Single(l, h) => Walked(l) = {h}
<1>1. PICK c \in Nat : c = Cardinality(Handle)
  BY HandleAssumption, FS_CardinalityType
<1>2. ASSUME NEW S, S = {l.root} \ {NULL},
             S \cup ({l.next[n] : n \in S \cap l.live} \ {NULL}) = S
      PROVE  Walked(l) = S
  <2>1. PICK r : r = [k \in 0 .. c |-> S]
    OBVIOUS
  <2> DEFINE Eq(g) == g = [k \in 0 .. c |->
                 IF k = 0 THEN {l.root} \ {NULL}
                 ELSE g[k - 1] \cup ({l.next[n] : n \in g[k - 1] \cap l.live} \ {NULL})]
  <2>2. Eq(r)
    <3>1. \A k \in 0 .. c : k # 0 => r[k - 1] = S
      BY <2>1
    <3>2. \A k \in 0 .. c :
             IF k = 0 THEN {l.root} \ {NULL} = S
             ELSE r[k - 1] \cup ({l.next[n] : n \in r[k - 1] \cap l.live} \ {NULL}) = S
      BY <1>2, <3>1
    <3>3. QED
      BY <2>1, <3>2
  <2>3. ASSUME NEW g, Eq(g) PROVE g[c] = S
    <3>1. PICK D : D = {k \in 0 .. c : g[k] = S}
      OBVIOUS
    <3>2. 0 \in D
      BY <1>2, <2>3, <3>1
    <3>3. ASSUME NEW k \in 0 .. c - 1, k \in D PROVE k + 1 \in D
      <4>1. k + 1 \in 0 .. c /\ k + 1 # 0 /\ (k + 1) - 1 = k /\ g[k] = S
        BY <3>1, <3>3
      <4>2. g[k + 1] = g[k] \cup ({l.next[n] : n \in g[k] \cap l.live} \ {NULL})
        BY <2>3, <4>1
      <4>3. QED
        BY <1>2, <3>1, <4>1, <4>2
    <3>4. \A k \in 0 .. c : k \in D
      BY <3>2, <3>3, BoundedInduction
    <3>5. QED
      BY <3>1, <3>4
  <2>4. Eq(CHOOSE g : Eq(g))
    BY <2>2
  <2>5. (CHOOSE g : Eq(g))[c] = S
    <3> HIDE DEF Eq
    <3> QED
      BY <2>3, <2>4
  <2>6. QED
    BY <1>1, <2>5 DEF Walked
<1>3. Empty(l) => Walked(l) = {}
  BY <1>2 DEF Empty
<1>4. ASSUME NEW h, Single(l, h) PROVE Walked(l) = {h}
  <2>1. {h} = {l.root} \ {NULL}
    BY <1>4, HandleAssumption DEF Single
  <2>2. {h} \cup ({l.next[n] : n \in {h} \cap l.live} \ {NULL}) = {h}
    BY <1>4 DEF Single
  <2>3. QED
    BY <1>2, <2>1, <2>2
<1>5. QED
  BY <1>3, <1>4
-----------------------------------------------------------------------------
(* The trees and sizes through which files are read, in terms of the live  *)
(* memory inodes and the device.                                           *)
Forest(live, node, table, word) ==
    [f \in InodeBit |->
       IF f \in {node[h].id : h \in live} THEN node[CHOOSE h \in live : node[h].id = f].block
       ELSE LoadedTree(table[f].slot, word)]

Lengths(live, node, table) ==
    [f \in InodeBit |->
       IF f \in {node[h].id : h \in live} THEN node[CHOOSE h \in live : node[h].id = f].size
       ELSE table[f].size]

trees == Forest(list.live, inode, disk.inode, disk.word)
sizes == Lengths(list.live, inode, disk.inode)

\* The records and functions of the state, and the ranges of their sets.
Shapes ==
    /\ disk = [word |-> disk.word, inode |-> disk.inode, bb |-> disk.bb, ib |-> disk.ib,
               super |-> disk.super]
    /\ disk.word = [b \in BlockBit |-> disk.word[b]]
    /\ disk.inode = [i \in InodeBit |-> disk.inode[i]]
    /\ disk.bb \subseteq Meta .. BitmapBits(NBlocks) - 1 /\ disk.ib \subseteq ClientInode
    /\ disk.super.boot_loader_inode \in 0 .. NInodes - 1
    /\ client = [files |-> client.files, len |-> client.len, changed |-> client.changed,
                 crashes |-> client.crashes]
    /\ client.len = [i \in InodeBit |-> client.len[i]]
    /\ client.files \subseteq ClientInode /\ client.changed \subseteq client.files
    /\ inode = [h \in Handle |-> inode[h]]

\* unmount has saved the block bitmap and not yet the superblock.
Saving == mnt.pc \in {"save_inode_bitmap", "save_superblock"}

\* While mounted: the bitmaps in memory cover the device, and no inode of the
\* client is free.
MapsMounted ==
    mnt.pc # "down" =>
      /\ mnt = [pc |-> mnt.pc, at |-> mnt.at, bb |-> mnt.bb, ib |-> mnt.ib,
                boot_loader_inode |-> mnt.boot_loader_inode, signature |-> mnt.signature]
      /\ BlockMap(mnt.bb) /\ Covers(mnt.ib, NInodes, 3)
      /\ mnt.boot_loader_inode \in 0 .. NInodes - 1
      /\ client.files \cap mnt.ib.free = {}

\* How far the bitmaps and the superblock on the device agree: between two
\* mounts they do, unless an unmount was torn, and unmount makes them agree step
\* by step.
MapsSaved ==
    /\ mnt.pc \in {"down", "up", "closing", "save_inode_bitmap", "save_superblock"}
    /\ mnt.pc = "down" => client.changed = {}
    /\ Saving => disk.bb = mnt.bb.free
    /\ mnt.pc = "save_superblock" => disk.ib = mnt.ib.free
    /\ disk.super.free_block_count \in Nat /\ disk.super.free_inode_count \in Nat
    /\ ~Saving /\ ~Torn =>
         /\ disk.super.free_block_count = Cardinality(disk.bb \cap 0 .. NBlocks - 1)
         /\ disk.super.free_inode_count <= Cardinality(disk.ib \cap 0 .. NInodes - 1)

\* At most one inode is open; the unmount loop stands at it, and it is closed
\* before the bitmaps are saved.
OneOpen ==
    /\ Empty(list) \/ \E h \in Handle : Single(list, h)
    /\ mnt.pc \notin {"up", "closing"} => Empty(list)
    /\ mnt.pc = "closing" => mnt.at = list.root
    /\ \A h \in list.live :
         /\ inode[h] = [id |-> inode[h].id, cursor |-> inode[h].cursor, size |-> inode[h].size,
                        block |-> inode[h].block]
         /\ inode[h].id \in client.files /\ inode[h].cursor \in 0 .. inode[h].size

\* The bitmap allocations are made from.
FreeBlocks == IF mnt.pc = "down" THEN disk.bb ELSE mnt.bb.free

(* Every file, in the tree it is read through: it is whole, holds what was *)
(* written, owns its blocks; and shares none with another file.            *)
Files(files, len, T, size, word, free) ==
    /\ \A f \in files : /\ size[f] = len[f] /\ Whole(T[f], len[f])
                        /\ Written(T[f], len[f], f, word)
                        /\ Blocks(T[f]) \cap free = {}
    /\ \A f, g \in files : f # g => Blocks(T[f]) \cap Blocks(T[g]) = {}

(* A file that was not changed since the last unmount is on the device as  *)
(* it is in memory, and its blocks and inode are not free there.           *)
Secure(files, T, size, table, word, bb, ib) ==
    \A f \in files : /\ T[f] = LoadedTree(table[f].slot, word) /\ size[f] = table[f].size
                     /\ Blocks(T[f]) \cap bb = {} /\ f \notin ib

\* Every file the client has, as it would be read now.
FilesKept == Files(client.files, client.len, trees, sizes, disk.word, FreeBlocks)
\* Every file it had before the mount and has not grown, as a crash would
\* leave it.
FilesSecure == Secure(client.files \ client.changed, trees, sizes, disk.inode, disk.word,
                      disk.bb, disk.ib)

\* The inductive invariant.
UdbfsInv ==
    /\ Shapes /\ MapsMounted /\ MapsSaved /\ OneOpen
    /\ FilesKept /\ FilesSecure /\ MetaBlocksKept
-----------------------------------------------------------------------------
\* No memory inode is open for the file.
Shut(f, live, node) == \A h \in live : node[h].id # f

\* A file that is not open is read through what is stored.
LEMMA ForestClosed ==
  ASSUME NEW live, NEW node, NEW table, NEW word, NEW f \in InodeBit, Shut(f, live, node)
  PROVE  /\ Forest(live, node, table, word)[f] = LoadedTree(table[f].slot, word)
         /\ Lengths(live, node, table)[f] = table[f].size
BY DEF Forest, Lengths, Shut

\* The file that is open is read through the memory inode.
LEMMA ForestOpen ==
  ASSUME NEW h, NEW node, NEW table, NEW word, node[h].id \in InodeBit
  PROVE  /\ Forest({h}, node, table, word)[node[h].id] = node[h].block
         /\ Lengths({h}, node, table)[node[h].id] = node[h].size
<1>1. (CHOOSE k \in {h} : node[k].id = node[h].id) = h
  OBVIOUS
<1>2. QED
  BY <1>1 DEF Forest, Lengths

\* With nothing open every file is read through what is stored.
LEMMA NothingOpen ==
  ASSUME NEW live, live = {}, NEW node, NEW table, NEW word, NEW f \in InodeBit
  PROVE  /\ Forest(live, node, table, word)[f] = LoadedTree(table[f].slot, word)
         /\ Lengths(live, node, table)[f] = table[f].size
<1>1. Shut(f, live, node)
  BY DEF Shut
<1>2. QED
  BY <1>1, ForestClosed

\* Files whose trees and sizes did not change are kept.
LEMMA FilesSame ==
  ASSUME NEW files, NEW len, NEW T, NEW size, NEW word, NEW free,
         NEW some, NEW len2, NEW T2, NEW size2, NEW free2,
         Files(files, len, T, size, word, free), some \subseteq files,
         \A f \in some : /\ T2[f] = T[f] /\ size2[f] = size[f] /\ len2[f] = len[f]
                         /\ Blocks(T[f]) \cap free2 = {}
  PROVE  Files(some, len2, T2, size2, word, free2)
BY DEF Files

\* A new empty file is kept along with the others.
LEMMA FilesAdd ==
  ASSUME NEW files, NEW len, NEW T, NEW size, NEW word, NEW free,
         NEW id, NEW len2, NEW T2, NEW size2,
         Files(files, len, T, size, word, free), id \notin files,
         \A f \in files : T2[f] = T[f] /\ size2[f] = size[f] /\ len2[f] = len[f],
         T2[id] = NoTree, size2[id] = 0, len2[id] = 0
  PROVE  Files(files \cup {id}, len2, T2, size2, word, free)
<1>1. Whole(T2[id], len2[id]) /\ Blocks(T2[id]) = {}
  BY NoneWhole
<1>2. Written(T2[id], len2[id], id, word)
  BY DEF Written
<1>3. \A f \in files : /\ size2[f] = len2[f] /\ Whole(T2[f], len2[f])
                       /\ Written(T2[f], len2[f], f, word) /\ Blocks(T2[f]) \cap free = {}
  BY DEF Files
<1>4. \A f, g \in files : f # g => Blocks(T2[f]) \cap Blocks(T2[g]) = {}
  BY DEF Files
<1>5. QED
  BY <1>1, <1>2, <1>3, <1>4 DEF Files

(* Every file but one is as it was. *)
Others(files, id, T, T2, size, size2, len, len2) ==
    \A f \in files \ {id} : T2[f] = T[f] /\ size2[f] = size[f] /\ len2[f] = len[f]

\* A turn of a write keeps all files: the one it writes to and, since its
\* blocks are no other file's, the others.
LEMMA FilesWrite ==
  ASSUME NEW files, NEW len, NEW T, NEW size, NEW word, NEW m,
         NEW id \in files, NEW c \in Nat, NEW x, NEW end \in c + 1 .. offset_start(x.path) + W,
         NEW len2, NEW T2, NEW size2, NEW word2,
         Files(files, len, T, size, word, m.free), DOMAIN word = BlockBit,
         c <= len[id], Placed(T[id], len[id], m, c, x),
         Others(files, id, T, T2, size, size2, len, len2), T2[id] = x.tree,
         NEW n, n = (IF end > len[id] THEN end ELSE len[id]), len2[id] = n, size2[id] = n,
         word2 = Put(word, x, id, c, end)
  PROVE  Files(files, len2, T2, size2, word2, x.map.free)
<1>0. \A f \in files \ {id} : T2[f] = T[f] /\ size2[f] = size[f] /\ len2[f] = len[f]
  BY DEF Others
<1>1. /\ Whole(T[id], len[id]) /\ Written(T[id], len[id], id, word)
      /\ Blocks(T[id]) \cap m.free = {}
  BY DEF Files
<1>2. Whole(x.tree, len2[id])
  BY DEF Placed
<1>3. Written(x.tree, len2[id], id, word2)
  <2>1. PICK before : before = len[id]
    OBVIOUS
  <2>2. Written(x.tree, IF end > before THEN end ELSE before, id, word2)
    BY <1>1, <2>1, WriteKeeps
  <2>3. QED
    BY <2>1, <2>2
<1>4. PICK b : b = x.tree[x.path]
  OBVIOUS
<1>5. b \in Device /\ b \in Blocks(x.tree)
  BY <1>4, DeviceFacts DEF Placed, Blocks
<1>6. ASSUME NEW f \in files \ {id} PROVE Blocks(x.tree) \cap Blocks(T[f]) = {}
  BY DEF Placed, Files
<1>7. ASSUME NEW f \in files \ {id}
      PROVE  /\ size2[f] = len2[f] /\ Whole(T2[f], len2[f]) /\ Written(T2[f], len2[f], f, word2)
             /\ Blocks(T2[f]) \cap x.map.free = {}
  <2>1. /\ size[f] = len[f] /\ Whole(T[f], len[f]) /\ Written(T[f], len[f], f, word)
        /\ Blocks(T[f]) \cap m.free = {}
    BY DEF Files
  <2>2. \A p \in Path : T[f][p] \in Device => T[f][p] # b /\ T[f][p] \in DOMAIN word
    BY <1>5, <1>6, DeviceFacts DEF Blocks
  <2>3. \A p \in Path : T[f][p] \in Device => word2[T[f][p]] = word[T[f][p]]
    BY <1>4, <2>2 DEF Put
  <2>4. Written(T[f], len[f], f, word2)
    BY <2>1, <2>3, WrittenSame
  <2>5. x.map.free \subseteq m.free
    BY DEF Placed
  <2>6. QED
    BY <1>0, <2>1, <2>4, <2>5
<1>8. Blocks(T2[id]) \cap x.map.free = {}
  BY DEF Placed
<1>9. \A f, g \in files : f # g => Blocks(T2[f]) \cap Blocks(T2[g]) = {}
  <2> SUFFICES ASSUME NEW f \in files, NEW g \in files, f # g
               PROVE  Blocks(T2[f]) \cap Blocks(T2[g]) = {}
    OBVIOUS
  <2>1. CASE f = id
    BY <1>0, <1>6, <2>1
  <2>2. CASE g = id
    BY <1>0, <1>6, <2>2
  <2>3. CASE f # id /\ g # id
    BY <1>0, <2>3 DEF Files
  <2>4. QED
    BY <2>1, <2>2, <2>3
<1>10. QED
  BY <1>2, <1>3, <1>7, <1>8, <1>9 DEF Files

\* Closing a file keeps all files.
LEMMA FilesClose ==
  ASSUME NEW files, NEW len, NEW T, NEW size, NEW word, NEW free,
         NEW id \in files, NEW T2, NEW size2, NEW word2,
         Files(files, len, T, size, word, free), DOMAIN word = BlockBit,
         word2 = SavedIndex(T[id], word),
         \A f \in files \ {id} : T2[f] = T[f] /\ size2[f] = size[f],
         T2[id] = Reloaded(T[id]), size2[id] = size[id]
  PROVE  Files(files, len, T2, size2, word2, free)
<1>1. Whole(T[id], len[id]) /\ Written(T[id], len[id], id, word)
  BY DEF Files
<1>2. /\ \A b \in BlockBit : b \notin Blocks(T[id]) => word2[b] = word[b]
      /\ \A p \in Path : IsData(p) /\ T[id][p] \in Device => word2[T[id][p]] = word[T[id][p]]
  BY <1>1, CloseKeeps
<1>3. /\ Whole(T2[id], len[id]) /\ Blocks(T2[id]) = Blocks(T[id])
      /\ \A p \in Path : T[id][p] \in Device => T2[id][p] = T[id][p]
  BY <1>1, ReloadKeeps
<1>4. Written(T[id], len[id], id, word2)
  BY <1>1, <1>2, WrittenSame
<1>5. Written(T2[id], len[id], id, word2)
  BY <1>1, <1>3, <1>4, Reads DEF Written
<1>6. ASSUME NEW f \in files \ {id}
      PROVE  /\ size2[f] = len[f] /\ Whole(T2[f], len[f]) /\ Written(T2[f], len[f], f, word2)
             /\ Blocks(T2[f]) \cap free = {}
  <2>1. /\ size[f] = len[f] /\ Whole(T[f], len[f]) /\ Written(T[f], len[f], f, word)
        /\ Blocks(T[f]) \cap free = {} /\ Blocks(T[id]) \cap Blocks(T[f]) = {}
    BY DEF Files
  <2>2. \A p \in Path : T[f][p] \in Device => word2[T[f][p]] = word[T[f][p]]
    BY <1>2, <2>1, DeviceFacts DEF Blocks
  <2>3. Written(T[f], len[f], f, word2)
    BY <2>1, <2>2, WrittenSame
  <2>4. QED
    BY <2>1, <2>3
<1>7. size2[id] = len[id] /\ Blocks(T2[id]) \cap free = {}
  BY <1>3 DEF Files
<1>8. \A f \in files : Blocks(T2[f]) = Blocks(T[f])
  BY <1>3
<1>9. \A f, g \in files : f # g => Blocks(T2[f]) \cap Blocks(T2[g]) = {}
  BY <1>8 DEF Files
<1>10. QED
  BY <1>3, <1>5, <1>6, <1>7, <1>9 DEF Files

\* The stored tree of a file is the same after changes to blocks of other
\* files.
LEMMA StoredOther ==
  ASSUME NEW slot, NEW n, NEW word, NEW new, NEW T, T = LoadedTree(slot, word), Whole(T, n),
         DOMAIN word = BlockBit, DOMAIN new = BlockBit,
         \A b \in Blocks(T) : new[b] = word[b]
  PROVE  LoadedTree(slot, new) = T
<1>1. \A p \in Path : T[p] \in Device => T[p] \in Blocks(T)
  BY DeviceFacts DEF Blocks
<1>2. QED
  BY <1>1, StoredSame

\* The inodes a client can be given.
LEMMA ClientInodes == ClientInode \subseteq InodeBit /\ InodeBit \subseteq Nat
                        /\ ClientInode = 3 .. BitmapBits(NInodes) - 1 /\ NInodes <= BitmapBits(NInodes)
<1>1. NInodes \in Nat
  BY SizeAssumption
<1>2. BitmapBits(NInodes) \in Nat /\ NInodes <= BitmapBits(NInodes)
  BY <1>1, Bits
<1>3. QED
  BY <1>1, <1>2 DEF ClientInode, InodeBit, SystemInodes

\* A freshly formatted device satisfies the invariant.
LEMMA InitInv == Init => UdbfsInv
<1> SUFFICES ASSUME Init PROVE UdbfsInv
  OBVIOUS
<1>1. NBlocks \in Nat /\ NInodes \in Nat /\ Meta \in 1 .. NBlocks /\ NInodes > 3
  BY SizeAssumption
<1>2. PICK s \in Signature :
        disk = [word  |-> [b \in BlockBit |-> [e \in Entry |-> OldWord]],
                inode |-> [i \in InodeBit |-> [size |-> 0, slot |-> [s0 \in Slot |-> 0]]],
                bb    |-> BlockBit \ 0 .. Meta - 1,
                ib    |-> ClientInode,
                super |-> [free_block_count |-> NBlocks - Meta,
                           free_inode_count |-> NInodes - 3,
                           boot_loader_inode |-> 0, signature |-> s]]
  BY DEF Init
<1>3. /\ mnt = [pc |-> "down"] /\ list = EmptyList /\ inode = [h \in Handle |-> NoNode]
      /\ client = [files |-> {}, len |-> [i \in InodeBit |-> 0], changed |-> {}, crashes |-> 0]
  BY DEF Init, Down
<1>4. BitmapBits(NBlocks) \in Nat /\ NBlocks <= BitmapBits(NBlocks)
  BY <1>1, Bits
<1>5. disk.bb = Meta .. BitmapBits(NBlocks) - 1
  BY <1>1, <1>2, <1>4 DEF BlockBit
<1>6. Shapes
  <2>1. disk.super.boot_loader_inode \in 0 .. NInodes - 1 /\ disk.ib = ClientInode
    BY <1>1, <1>2
  <2>2. /\ disk.word = [b \in BlockBit |-> disk.word[b]]
        /\ disk.inode = [i \in InodeBit |-> disk.inode[i]]
        /\ disk = [word |-> disk.word, inode |-> disk.inode, bb |-> disk.bb, ib |-> disk.ib,
                   super |-> disk.super]
    BY <1>2
  <2>3. /\ client = [files |-> client.files, len |-> client.len, changed |-> client.changed,
                     crashes |-> client.crashes]
        /\ client.len = [i \in InodeBit |-> client.len[i]]
        /\ client.files = {} /\ client.changed = {}
        /\ inode = [h \in Handle |-> inode[h]]
    BY <1>3
  <2>4. QED
    BY <1>5, <2>1, <2>2, <2>3 DEF Shapes
<1>7. MapsSaved
  <2>1. disk.bb \cap 0 .. NBlocks - 1 = Meta .. NBlocks - 1
    BY <1>1, <1>4, <1>5
  <2>2. Cardinality(Meta .. NBlocks - 1) = NBlocks - Meta
    <3>1. PICK c \in Int : c = NBlocks - 1
      BY <1>1
    <3>2. Cardinality(Meta .. c) = IF Meta > c THEN 0 ELSE c - Meta + 1
      BY <1>1, FS_Interval
    <3>3. QED
      BY <1>1, <3>1, <3>2
  <2>3. disk.ib \cap 0 .. NInodes - 1 = 3 .. NInodes - 1
    <3>1. PICK u \in Nat : u = BitmapBits(NInodes) /\ NInodes <= u
      BY <1>1, Bits
    <3>2. disk.ib = 3 .. u - 1
      BY <1>2, <3>1, ClientInodes
    <3>3. QED
      BY <1>1, <3>1, <3>2
  <2>4. Cardinality(3 .. NInodes - 1) = NInodes - 3
    <3>1. PICK c \in Int : c = NInodes - 1
      BY <1>1
    <3>2. Cardinality(3 .. c) = IF 3 > c THEN 0 ELSE c - 3 + 1
      BY FS_Interval
    <3>3. QED
      BY <1>1, <3>1, <3>2
  <2>5. /\ disk.super.free_block_count = NBlocks - Meta
        /\ disk.super.free_inode_count = NInodes - 3
    BY <1>2
  <2>6. /\ disk.super.free_block_count = Cardinality(disk.bb \cap 0 .. NBlocks - 1)
        /\ disk.super.free_block_count \in Nat /\ disk.super.free_inode_count \in Nat
        /\ disk.super.free_inode_count <= Cardinality(disk.ib \cap 0 .. NInodes - 1)
    <3>1. Cardinality(disk.bb \cap 0 .. NBlocks - 1) = NBlocks - Meta
      BY <2>1, <2>2
    <3>2. Cardinality(disk.ib \cap 0 .. NInodes - 1) = NInodes - 3
      BY <2>3, <2>4
    <3>3. NInodes - 3 \in Nat /\ NInodes - 3 <= NInodes - 3 /\ NBlocks - Meta \in Nat
      BY <1>1
    <3>4. QED
      BY <2>5, <3>1, <3>2, <3>3
  <2>7. mnt.pc = "down" /\ client.changed = {}
    BY <1>3
  <2>8. QED
    BY <2>6, <2>7 DEF MapsSaved, Saving
<1>8. MapsMounted
  BY <1>3 DEF MapsMounted
<1>9. OneOpen
  BY <1>3, EmptyIsEmpty DEF OneOpen, Empty
<1>10. FilesKept /\ FilesSecure
  <2>1. client.files = {} /\ client.files \ client.changed = {}
    BY <1>3
  <2>2. QED
    BY <2>1 DEF FilesKept, FilesSecure, Files, Secure
<1>11. MetaBlocksKept
  <2>1. \A b \in 0 .. Meta - 1 : b \in BlockBit
    BY <1>1, <1>4 DEF BlockBit
  <2>2. QED
    BY <1>2, <2>1 DEF MetaBlocksKept
<1>12. QED
  BY <1>6, <1>7, <1>8, <1>9, <1>10, <1>11 DEF UdbfsInv

\* mount: the superblock validates, because its counts are covered.
LEMMA MountKeeps ==
  ASSUME UdbfsInv, Heeding, mount
  PROVE  UdbfsInv'
<1>1. /\ mnt.pc = "down" /\ list' = EmptyList /\ inode' = [h \in Handle |-> NoNode]
      /\ disk' = disk /\ client' = client
  BY DEF mount
<1>2. /\ Shapes /\ MapsSaved /\ Empty(list) /\ FilesKept /\ FilesSecure /\ MetaBlocksKept
  BY <1>1 DEF UdbfsInv, OneOpen
<1>3. NBlocks \in Nat /\ NInodes \in Nat /\ Meta \in 1 .. NBlocks
  BY SizeAssumption
<1>4. list'.live = {} /\ list.live = {} /\ Empty(list')
  BY <1>1, <1>2, EmptyIsEmpty DEF Empty
<1>5. \A f \in InodeBit : trees'[f] = trees[f] /\ sizes'[f] = sizes[f]
  BY <1>1, <1>4, ForestClosed DEF trees, sizes, Shut
<1>6. client.files \subseteq InodeBit /\ client.changed = {}
  BY <1>1, <1>2, ClientInodes DEF Shapes, MapsSaved
<1>7. Shapes'
  BY <1>1, <1>2 DEF Shapes
<1>8. MetaBlocksKept'
  BY <1>1, <1>2 DEF MetaBlocksKept
<1>9. FilesSecure'
  BY <1>1, <1>2, <1>5, <1>6 DEF FilesSecure, Secure
<1>10. Files(client.files, client.len, trees, sizes, disk.word, disk.bb)
  BY <1>1, <1>2 DEF FilesKept, FreeBlocks
<1>11. ASSUME NEW free, free = FreeBlocks', free = disk.bb PROVE FilesKept'
  <2>1. Files(client.files, client.len, trees', sizes', disk.word, free)
    <3>1. \A f \in client.files : /\ trees'[f] = trees[f] /\ sizes'[f] = sizes[f]
                                  /\ client.len[f] = client.len[f]
                                  /\ Blocks(trees[f]) \cap free = {}
      BY <1>5, <1>6, <1>10, <1>11 DEF Files
    <3>2. QED
      BY <1>10, <3>1, FilesSame
  <2>2. QED
    BY <1>1, <1>11, <2>1 DEF FilesKept
<1>12. CASE mnt' = Down
  <2>1. mnt'.pc = "down"
    BY <1>12 DEF Down
  <2>2. FreeBlocks' = disk.bb
    BY <1>1, <2>1 DEF FreeBlocks
  <2>3. FilesKept'
    BY <1>11, <2>2
  <2>4. MapsSaved'
    BY <1>1, <1>2, <2>1 DEF MapsSaved, Saving
  <2>5. MapsMounted'
    BY <2>1 DEF MapsMounted
  <2>6. OneOpen'
    BY <1>4, <2>1 DEF OneOpen
  <2>7. QED
    BY <1>7, <1>8, <1>9, <2>3, <2>4, <2>5, <2>6 DEF UdbfsInv
<1>13. CASE mnt' # Down
  <2>1. PICK s \in Signature :
          mnt' = [pc |-> "up", at |-> NULL,
                  bb |-> [bits |-> BitmapBits(NBlocks), free |-> disk.bb,
                          count |-> disk.super.free_block_count],
                  ib |-> [bits |-> BitmapBits(NInodes), free |-> disk.ib,
                          count |-> disk.super.free_inode_count],
                  boot_loader_inode |-> disk.super.boot_loader_inode, signature |-> s]
    BY <1>13 DEF mount
  <2>2. mnt'.pc = "up" /\ mnt'.bb.free = disk.bb /\ mnt'.ib.free = disk.ib
    BY <2>1
  <2>3. BlockMap(mnt'.bb)
    <3>1. PICK B : B = disk.bb \cap 0 .. NBlocks - 1
      OBVIOUS
    <3>2. IsFiniteSet(0 .. NBlocks - 1) /\ IsFiniteSet(B)
      <4>1. PICK c \in Int : c = NBlocks - 1
        BY <1>3
      <4>2. IsFiniteSet(0 .. c)
        BY FS_Interval
      <4>3. QED
        BY <3>1, <4>1, <4>2, FS_Subset
    <3>3. Cardinality(B) \in Nat
      BY <3>2, FS_CardinalityType
    <3>4. disk.super.free_block_count \in Nat
          /\ (disk.super.free_block_count = Cardinality(B) \/ (Torn /\ BitmapBits(NBlocks) = NBlocks))
      BY <1>1, <1>2, <3>1 DEF MapsSaved, Saving, Heeding
    <3>5. BitmapBits(NBlocks) \in Nat /\ disk.bb \subseteq Meta .. BitmapBits(NBlocks) - 1
      BY <1>2, <1>3, Bits DEF Shapes
    <3>6. disk.bb \in SUBSET Nat
      BY <1>3, <3>5
    <3>7. PICK k \in Nat : k = disk.super.free_block_count
      BY <3>4
    <3>8. mnt'.bb = [bits |-> BitmapBits(NBlocks), free |-> disk.bb, count |-> k]
      BY <2>1, <3>7
    <3>9. QED
      BY <3>1, <3>3, <3>4, <3>5, <3>6, <3>7, <3>8 DEF BlockMap, Covers, Exact
  <2>4. Covers(mnt'.ib, NInodes, 3)
    <3>1. mnt'.ib = [bits |-> BitmapBits(NInodes), free |-> disk.ib,
                     count |-> disk.super.free_inode_count]
      BY <2>1
    <3>2. /\ disk.super.free_inode_count \in Nat
          /\ \/ disk.super.free_inode_count <= Cardinality(disk.ib \cap 0 .. NInodes - 1)
             \/ Torn /\ BitmapBits(NInodes) = NInodes
      BY <1>1, <1>2 DEF MapsSaved, Saving, Heeding
    <3>3. disk.ib \subseteq 3 .. BitmapBits(NInodes) - 1 /\ BitmapBits(NInodes) \in Nat
      BY <1>2, <1>3, Bits, ClientInodes DEF Shapes
    <3>4. disk.ib \in SUBSET Nat
      BY <3>3
    <3>5. QED
      BY <3>1, <3>2, <3>3, <3>4 DEF Covers
  <2>5. MapsMounted'
    <3>1. client.files \cap disk.ib = {}
      BY <1>2, <1>6 DEF FilesSecure, Secure
    <3>2. mnt'.boot_loader_inode \in 0 .. NInodes - 1
      BY <1>2, <2>1 DEF Shapes
    <3>3. mnt' = [pc |-> mnt'.pc, at |-> mnt'.at, bb |-> mnt'.bb, ib |-> mnt'.ib,
                  boot_loader_inode |-> mnt'.boot_loader_inode, signature |-> mnt'.signature]
      BY <2>1
    <3>4. QED
      BY <1>1, <2>2, <2>3, <2>4, <3>1, <3>2, <3>3 DEF MapsMounted
  <2>6. MapsSaved'
    BY <1>1, <1>2, <2>2 DEF MapsSaved, Saving
  <2>7. OneOpen'
    BY <1>4, <2>2 DEF OneOpen
  <2>8. FreeBlocks' = disk.bb
    BY <2>2 DEF FreeBlocks
  <2>9. FilesKept'
    BY <1>11, <2>8
  <2>10. QED
    BY <1>7, <1>8, <1>9, <2>5, <2>6, <2>7, <2>9 DEF UdbfsInv
<1>14. QED
  BY <1>12, <1>13

\* create_inode: the inode is free in the bitmap, so it is no file's.
LEMMA CreateKeeps ==
  ASSUME UdbfsInv, Heeding, NEW h \in Handle, create_inode(h)
  PROVE  UdbfsInv'
<1>1. PICK got : got = allocate_bit(mnt.ib)
  OBVIOUS
<1>2. /\ mnt.pc = "up" /\ list.live = {} /\ got.id # 0
      /\ mnt' = [mnt EXCEPT !.ib = got.map] /\ disk' = disk
  BY <1>1 DEF create_inode, MayOpen, Mounted, Heeding
<1>3. /\ Shapes /\ MapsMounted /\ MapsSaved /\ Empty(list) /\ FilesKept /\ FilesSecure
      /\ MetaBlocksKept
  BY <1>2 DEF UdbfsInv, OneOpen, Single
<1>4. /\ mnt = [pc |-> mnt.pc, at |-> mnt.at, bb |-> mnt.bb, ib |-> mnt.ib,
                boot_loader_inode |-> mnt.boot_loader_inode, signature |-> mnt.signature]
      /\ BlockMap(mnt.bb) /\ Covers(mnt.ib, NInodes, 3)
      /\ mnt.boot_loader_inode \in 0 .. NInodes - 1 /\ client.files \cap mnt.ib.free = {}
  BY <1>2, <1>3 DEF MapsMounted
<1>5. /\ got.id \in mnt.ib.free /\ got.id \in 3 .. NInodes - 1
      /\ got.map.free = mnt.ib.free \ {got.id} /\ Covers(got.map, NInodes, 3)
  <2>1. NInodes \in Nat /\ 3 \in Nat
    BY SizeAssumption
  <2>2. Allocated(mnt.ib, got, NInodes, 3)
    BY <1>1, <1>4, <2>1, Allocates
  <2>3. QED
    BY <1>2, <2>2 DEF Allocated
<1>6. PICK id : id = got.id
  OBVIOUS
<1>7. id # 0 /\ id \notin client.files /\ id \in ClientInode /\ id \in InodeBit
  <2>1. NInodes \in Nat
    BY SizeAssumption
  <2>2. id \in ClientInode
    BY <1>5, <1>6, <2>1, Bits, ClientInodes, SMTT(30)
  <2>3. QED
    BY <1>4, <1>5, <1>6, <2>2, ClientInodes
<1>8. /\ list' = link(list, h) /\ inode' = [inode EXCEPT ![h] = [NoNode EXCEPT !.id = id]]
      /\ client' = [client EXCEPT !.files = @ \cup {id}, !.len[id] = 0, !.changed = @ \cup {id}]
  BY <1>1, <1>6, <1>7 DEF create_inode
<1>9. mnt' = [pc |-> "up", at |-> mnt.at, bb |-> mnt.bb, ib |-> got.map,
              boot_loader_inode |-> mnt.boot_loader_inode, signature |-> mnt.signature]
  BY <1>2, <1>4
<1>10. client' = [files |-> client.files \cup {id}, len |-> [client.len EXCEPT ![id] = 0],
                  changed |-> client.changed \cup {id}, crashes |-> client.crashes]
  BY <1>3, <1>8 DEF Shapes
<1>11. Single(list', h) /\ list'.live = {h}
  BY <1>3, <1>8, LinkFirst DEF Single
<1>12. inode'[h] = [id |-> id, cursor |-> 0, size |-> 0, block |-> NoTree]
  BY <1>3, <1>8 DEF Shapes, NoNode
<1>13. client.files \subseteq ClientInode /\ client.files \subseteq InodeBit
  BY <1>3, ClientInodes DEF Shapes
<1>14. \A f \in client.files : trees'[f] = trees[f] /\ sizes'[f] = sizes[f]
  <2> SUFFICES ASSUME NEW f \in client.files PROVE trees'[f] = trees[f] /\ sizes'[f] = sizes[f]
    OBVIOUS
  <2>1. f \in InodeBit /\ Shut(f, list.live, inode) /\ Shut(f, {h}, inode')
    BY <1>2, <1>7, <1>12, <1>13 DEF Shut
  <2>2. trees[f] = LoadedTree(disk.inode[f].slot, disk.word) /\ sizes[f] = disk.inode[f].size
    <3>1. /\ Forest(list.live, inode, disk.inode, disk.word)[f] =
               LoadedTree(disk.inode[f].slot, disk.word)
          /\ Lengths(list.live, inode, disk.inode)[f] = disk.inode[f].size
      BY <2>1, ForestClosed
    <3>2. QED
      BY <3>1 DEF trees, sizes
  <2>3. trees'[f] = LoadedTree(disk.inode[f].slot, disk.word) /\ sizes'[f] = disk.inode[f].size
    BY <1>2, <1>11, <2>1, ForestClosed DEF trees, sizes
  <2>4. QED
    BY <2>2, <2>3
<1>15. trees'[id] = NoTree /\ sizes'[id] = 0
  <2>1. inode'[h].id = id
    BY <1>12
  <2>2. trees'[inode'[h].id] = inode'[h].block /\ sizes'[inode'[h].id] = inode'[h].size
    BY <1>7, <1>11, <2>1, ForestOpen DEF trees, sizes
  <2>3. QED
    BY <1>12, <2>1, <2>2
<1>16. Shapes'
  <2>1. inode' = [k \in Handle |-> inode'[k]]
    BY <1>3, <1>8 DEF Shapes
  <2>2. client'.len = [i \in InodeBit |-> client'.len[i]]
    BY <1>3, <1>10 DEF Shapes
  <2>3. client'.files \subseteq ClientInode /\ client'.changed \subseteq client'.files
    BY <1>3, <1>7, <1>10 DEF Shapes
  <2>4. client' = [files |-> client'.files, len |-> client'.len, changed |-> client'.changed,
                   crashes |-> client'.crashes]
    BY <1>10
  <2>5. QED
    BY <1>2, <1>3, <2>1, <2>2, <2>3, <2>4 DEF Shapes
<1>17. MapsMounted'
  <2>1. client'.files \cap mnt'.ib.free = {}
    BY <1>4, <1>5, <1>6, <1>9, <1>10
  <2>2. mnt' = [pc |-> mnt'.pc, at |-> mnt'.at, bb |-> mnt'.bb, ib |-> mnt'.ib,
                boot_loader_inode |-> mnt'.boot_loader_inode, signature |-> mnt'.signature]
        /\ mnt'.bb = mnt.bb /\ mnt'.ib = got.map
        /\ mnt'.boot_loader_inode = mnt.boot_loader_inode
    BY <1>9
  <2>3. QED
    BY <1>4, <1>5, <2>1, <2>2 DEF MapsMounted
<1>18. MapsSaved'
  <2>1. mnt'.pc = "up"
    BY <1>9
  <2>2. QED
    BY <1>2, <1>3, <2>1 DEF MapsSaved, Saving
<1>19. OneOpen'
  <2>1. mnt'.pc = "up" /\ id \in client'.files
    BY <1>9, <1>10
  <2>2. inode'[h].cursor \in 0 .. inode'[h].size /\ inode'[h].id = id
    BY <1>12
  <2>3. inode'[h] = [id |-> inode'[h].id, cursor |-> inode'[h].cursor, size |-> inode'[h].size,
                     block |-> inode'[h].block]
    BY <1>12
  <2>4. QED
    BY <1>11, <2>1, <2>2, <2>3 DEF OneOpen
<1>20. FilesKept'
  <2>1. FreeBlocks' = mnt.bb.free /\ FreeBlocks = mnt.bb.free
    BY <1>2, <1>9 DEF FreeBlocks
  <2>2. /\ client'.files = client.files \cup {id} /\ client'.len[id] = 0
        /\ \A f \in client.files : client'.len[f] = client.len[f]
    BY <1>3, <1>7, <1>10, <1>13 DEF Shapes
  <2>3. Files(client.files, client.len, trees, sizes, disk.word, mnt.bb.free)
    BY <1>3, <2>1 DEF FilesKept
  <2>4. Files(client.files \cup {id}, client'.len, trees', sizes', disk.word, mnt.bb.free)
    BY <1>7, <1>14, <1>15, <2>2, <2>3, FilesAdd
  <2>5. QED
    BY <1>2, <2>1, <2>2, <2>4 DEF FilesKept
<1>21. FilesSecure'
  <2>1. client'.files \ client'.changed = client.files \ client.changed
    BY <1>3, <1>7, <1>10 DEF Shapes
  <2>2. QED
    BY <1>2, <1>3, <1>14, <2>1 DEF FilesSecure, Secure
<1>22. MetaBlocksKept'
  BY <1>2, <1>3 DEF MetaBlocksKept
<1>23. QED
  BY <1>16, <1>17, <1>18, <1>19, <1>20, <1>21, <1>22 DEF UdbfsInv

\* open_inode loads the tree the file is stored with.
LEMMA OpenKeeps ==
  ASSUME UdbfsInv, Heeding, NEW h \in Handle, NEW id \in ClientInode,
         open_inode(h, id)
  PROVE  UdbfsInv'
<1>1. /\ mnt.pc = "up" /\ list.live = {} /\ id \in client.files
      /\ list' = link(list, h) /\ disk' = disk /\ mnt' = mnt /\ client' = client
      /\ inode' = [inode EXCEPT ![h] = [id |-> id, cursor |-> 0, size |-> disk.inode[id].size,
                                        block |-> LoadedTree(disk.inode[id].slot, disk.word)]]
  BY DEF open_inode, MayOpen, Mounted, Heeding
<1>2. /\ Shapes /\ MapsMounted /\ MapsSaved /\ Empty(list) /\ FilesKept /\ FilesSecure
      /\ MetaBlocksKept
  BY <1>1 DEF UdbfsInv, OneOpen, Single
<1>3. Single(list', h) /\ list'.live = {h}
  BY <1>1, <1>2, LinkFirst DEF Single
<1>4. inode'[h] = [id |-> id, cursor |-> 0, size |-> disk.inode[id].size,
                   block |-> LoadedTree(disk.inode[id].slot, disk.word)]
  BY <1>1, <1>2 DEF Shapes
<1>5. client.files \subseteq InodeBit
  BY <1>2, ClientInodes DEF Shapes
<1>6. \A f \in client.files : trees[f] = LoadedTree(disk.inode[f].slot, disk.word)
                               /\ sizes[f] = disk.inode[f].size
  <2>1. PICK live, node, table, word : /\ live = list.live /\ node = inode
                                       /\ table = disk.inode /\ word = disk.word
    OBVIOUS
  <2>2. live = {}
    BY <1>1, <2>1
  <2>3. \A f \in InodeBit : /\ Forest(live, node, table, word)[f] = LoadedTree(table[f].slot, word)
                           /\ Lengths(live, node, table)[f] = table[f].size
    BY <2>2, NothingOpen
  <2>4. QED
    BY <1>5, <2>1, <2>3 DEF trees, sizes
<1>7. \A f \in client.files : trees'[f] = trees[f] /\ sizes'[f] = sizes[f]
  <2> SUFFICES ASSUME NEW f \in client.files PROVE trees'[f] = trees[f] /\ sizes'[f] = sizes[f]
    OBVIOUS
  <2>1. CASE f # id
    <3>1. Shut(f, {h}, inode')
      BY <1>4, <2>1 DEF Shut
    <3>2. /\ Forest({h}, inode', disk.inode, disk.word)[f] =
               LoadedTree(disk.inode[f].slot, disk.word)
          /\ Lengths({h}, inode', disk.inode)[f] = disk.inode[f].size
      BY <1>5, <3>1, ForestClosed
    <3>3. QED
      BY <1>1, <1>3, <1>6, <3>2 DEF trees, sizes
  <2>2. CASE f = id
    <3>1. inode'[h].id = f
      BY <1>4, <2>2
    <3>2. trees'[inode'[h].id] = inode'[h].block /\ sizes'[inode'[h].id] = inode'[h].size
      <4>1. PICK node, table, word : node = inode' /\ table = disk'.inode /\ word = disk'.word
        OBVIOUS
      <4>2. node[h].id \in InodeBit
        BY <1>5, <3>1, <4>1
      <4>3. /\ Forest({h}, node, table, word)[node[h].id] = node[h].block
            /\ Lengths({h}, node, table)[node[h].id] = node[h].size
        BY <4>2, ForestOpen
      <4>4. QED
        BY <1>3, <4>1, <4>3 DEF trees, sizes
    <3>3. QED
      BY <1>4, <1>6, <2>2, <3>1, <3>2
  <2>3. QED
    BY <2>1, <2>2
<1>8. sizes[id] \in Nat
  <2>1. sizes[id] = client.len[id] /\ Whole(trees[id], client.len[id])
    BY <1>1, <1>2 DEF FilesKept, Files
  <2>2. QED
    BY <2>1 DEF Whole
<1>9. Shapes'
  <2>1. inode' = [k \in Handle |-> inode'[k]]
    BY <1>1, <1>2 DEF Shapes
  <2>2. QED
    BY <1>1, <1>2, <2>1 DEF Shapes
<1>10. MapsMounted' /\ MapsSaved' /\ MetaBlocksKept'
  BY <1>1, <1>2 DEF MapsMounted, MapsSaved, Saving, MetaBlocksKept
<1>11. OneOpen'
  <2>1. inode'[h].cursor \in 0 .. inode'[h].size /\ inode'[h].id = id
    BY <1>1, <1>4, <1>6, <1>8
  <2>2. inode'[h] = [id |-> inode'[h].id, cursor |-> inode'[h].cursor, size |-> inode'[h].size,
                     block |-> inode'[h].block]
    BY <1>4
  <2>3. QED
    BY <1>1, <1>3, <2>1, <2>2 DEF OneOpen
<1>12. FilesKept'
  <2>1. FreeBlocks' = FreeBlocks
    BY <1>1 DEF FreeBlocks
  <2>2. QED
    BY <1>1, <1>2, <1>7, <2>1 DEF FilesKept, Files
<1>13. FilesSecure'
  BY <1>1, <1>2, <1>7 DEF FilesSecure, Secure
<1>14. QED
  BY <1>9, <1>10, <1>11, <1>12, <1>13 DEF UdbfsInv

\* read_from_inode: a position before the end has a block, so nothing wild is
\* read.
LEMMA ReadKeeps ==
  ASSUME UdbfsInv, NEW h \in Handle, NEW n \in 1 .. W, read_from_inode(h, n)
  PROVE  UdbfsInv'
<1>1. PICK i : i = inode[h]
  OBVIOUS
<1>2. /\ mnt.pc = "up" /\ h \in list.live /\ i.size - i.cursor > 0
      /\ disk' = disk /\ mnt' = mnt /\ client' = client
  BY <1>1 DEF read_from_inode, Mounted
<1>3. /\ Shapes /\ MapsMounted /\ MapsSaved /\ OneOpen /\ FilesKept /\ FilesSecure
      /\ MetaBlocksKept
  BY DEF UdbfsInv
<1>4. Single(list, h) /\ list.live = {h}
  BY <1>2, <1>3 DEF OneOpen, Empty, Single
<1>5. /\ i = [id |-> i.id, cursor |-> i.cursor, size |-> i.size, block |-> i.block]
      /\ i.id \in client.files /\ i.cursor \in 0 .. i.size
  BY <1>1, <1>2, <1>3 DEF OneOpen
<1>6. i.id \in InodeBit /\ client.files \subseteq InodeBit
  BY <1>3, <1>5, ClientInodes DEF Shapes
<1>7. trees[i.id] = i.block /\ sizes[i.id] = i.size
  BY <1>1, <1>4, <1>6, ForestOpen DEF trees, sizes
<1>8. Whole(i.block, i.size) /\ i.size \in Nat
  <2>1. sizes[i.id] = client.len[i.id] /\ Whole(trees[i.id], client.len[i.id])
    BY <1>3, <1>5 DEF FilesKept, Files
  <2>2. QED
    BY <1>7, <2>1 DEF Whole
<1>9. PICK c \in Nat : c = i.cursor /\ c < i.size
  BY <1>2, <1>5, <1>8
<1>10. /\ SelectedPath(c) \in Path /\ IsData(SelectedPath(c))
       /\ i.block[SelectedPath(c)] \in Device
  BY <1>8, <1>9, Reads
<1>11. c < MaxFile
  BY <1>8, <1>9, MaxFileNat DEF Whole
<1>12. select_active_inode_block(i) # NoBlock
  BY <1>9, <1>10, <1>11, DeviceFacts DEF select_active_inode_block
<1>13. PICK k : k = Min({n, i.size - i.cursor, offset_start(SelectedPath(c)) + W - c})
  OBVIOUS
<1>14. list' = list /\ inode' = [inode EXCEPT ![h].cursor = @ + k]
  BY <1>1, <1>9, <1>12, <1>13 DEF read_from_inode
<1>15. k \in Nat /\ k <= i.size - c
  <2>1. PICK e \in Nat : e = c % W /\ e < W
    BY <1>11, Selected, WAssumption DEF Entry
  <2>2. offset_start(SelectedPath(c)) \in Nat /\ offset_start(SelectedPath(c)) + e = c /\ W \in Nat
    BY <1>10, <1>11, <2>1, Selected, OffsetNat, WAssumption
  <2>3. offset_start(SelectedPath(c)) + W - c \in Nat /\ n \in Nat /\ i.size - c \in Nat
    BY <1>8, <1>9, <2>1, <2>2
  <2>4. PICK S : S = {n, i.size - c, offset_start(SelectedPath(c)) + W - c}
    OBVIOUS
  <2>5. S \in SUBSET Nat /\ S # {} /\ i.size - c \in S
    BY <2>3, <2>4
  <2>6. Min(S) \in S /\ \A y \in S : Min(S) <= y
    BY <2>5, LeastIsMin
  <2>7. QED
    BY <1>9, <1>13, <2>4, <2>5, <2>6
<1>16. inode'[h] = [id |-> i.id, cursor |-> c + k, size |-> i.size, block |-> i.block]
  BY <1>1, <1>3, <1>5, <1>9, <1>14 DEF Shapes
<1>17. \A f \in client.files : trees'[f] = trees[f] /\ sizes'[f] = sizes[f]
  <2> SUFFICES ASSUME NEW f \in client.files PROVE trees'[f] = trees[f] /\ sizes'[f] = sizes[f]
    OBVIOUS
  <2>1. CASE f = i.id
    <3>1. inode'[h].id = f
      BY <1>16, <2>1
    <3>2. PICK node : node = inode'
      OBVIOUS
    <3>3. /\ Forest({h}, node, disk.inode, disk.word)[node[h].id] = node[h].block
          /\ Lengths({h}, node, disk.inode)[node[h].id] = node[h].size
      BY <1>6, <2>1, <3>1, <3>2, ForestOpen
    <3>4. /\ trees' = Forest({h}, node, disk.inode, disk.word)
          /\ sizes' = Lengths({h}, node, disk.inode)
      BY <1>2, <1>4, <1>14, <3>2 DEF trees, sizes
    <3>5. QED
      BY <1>7, <1>16, <2>1, <3>1, <3>2, <3>3, <3>4
  <2>2. CASE f # i.id
    <3>1. Shut(f, {h}, inode') /\ Shut(f, {h}, inode)
      BY <1>1, <1>16, <2>2 DEF Shut
    <3>2. PICK node : node = inode'
      OBVIOUS
    <3>3. f \in InodeBit /\ Shut(f, {h}, node) /\ Shut(f, {h}, inode)
      BY <1>6, <3>1, <3>2
    <3>4. ASSUME NEW nd, Shut(f, {h}, nd)
          PROVE  /\ Forest({h}, nd, disk.inode, disk.word)[f] = LoadedTree(disk.inode[f].slot, disk.word)
                 /\ Lengths({h}, nd, disk.inode)[f] = disk.inode[f].size
      <4>1. f \in InodeBit
        BY <3>3
      <4>2. QED
        BY <3>4, <4>1 DEF Forest, Lengths, Shut
    <3>5. /\ Forest({h}, node, disk.inode, disk.word)[f] = Forest({h}, inode, disk.inode, disk.word)[f]
          /\ Lengths({h}, node, disk.inode)[f] = Lengths({h}, inode, disk.inode)[f]
      <4>1. PICK old : old = inode
        OBVIOUS
      <4>2. Shut(f, {h}, old) /\ Shut(f, {h}, node)
        BY <3>3, <4>1
      <4>3. /\ Forest({h}, old, disk.inode, disk.word)[f] = LoadedTree(disk.inode[f].slot, disk.word)
            /\ Lengths({h}, old, disk.inode)[f] = disk.inode[f].size
        BY <3>4, <4>2
      <4>4. /\ Forest({h}, node, disk.inode, disk.word)[f] = LoadedTree(disk.inode[f].slot, disk.word)
            /\ Lengths({h}, node, disk.inode)[f] = disk.inode[f].size
        BY <3>4, <4>2
      <4>5. QED
        BY <4>1, <4>3, <4>4
    <3>6. /\ trees' = Forest({h}, node, disk.inode, disk.word)
          /\ sizes' = Lengths({h}, node, disk.inode)
          /\ trees = Forest({h}, inode, disk.inode, disk.word)
          /\ sizes = Lengths({h}, inode, disk.inode)
      BY <1>2, <1>4, <1>14, <3>2 DEF trees, sizes
    <3>7. QED
      BY <3>5, <3>6
  <2>3. QED
    BY <2>1, <2>2
<1>18. Shapes'
  <2>1. inode' = [m \in Handle |-> inode'[m]]
    BY <1>3, <1>14 DEF Shapes
  <2>2. QED
    BY <1>2, <1>3, <2>1 DEF Shapes
<1>19. MapsMounted' /\ MapsSaved' /\ MetaBlocksKept'
  <2>1. MapsMounted'
    BY <1>2, <1>3 DEF MapsMounted
  <2>2. MapsSaved'
    <3>1. disk' = disk /\ mnt.pc = "up" /\ mnt'.pc = "up" /\ client' = client /\ MapsSaved
      BY <1>2, <1>3
    <3>2. QED
      BY <3>1 DEF MapsSaved, Saving
  <2>3. MetaBlocksKept'
    BY <1>2, <1>3 DEF MetaBlocksKept
  <2>4. QED
    BY <2>1, <2>2, <2>3
<1>20. OneOpen'
  <2>1. inode'[h].cursor \in 0 .. inode'[h].size /\ inode'[h].id \in client.files
    BY <1>5, <1>8, <1>9, <1>15, <1>16
  <2>2. inode'[h] = [id |-> inode'[h].id, cursor |-> inode'[h].cursor, size |-> inode'[h].size,
                     block |-> inode'[h].block]
    BY <1>16
  <2>3. QED
    BY <1>2, <1>4, <1>14, <2>1, <2>2 DEF OneOpen
<1>21. FilesKept'
  <2>1. FreeBlocks' = FreeBlocks
    BY <1>2 DEF FreeBlocks
  <2>2. QED
    BY <1>2, <1>3, <1>17, <2>1 DEF FilesKept, Files
<1>22. FilesSecure'
  BY <1>2, <1>3, <1>17 DEF FilesSecure, Secure
<1>23. QED
  BY <1>18, <1>19, <1>20, <1>21, <1>22 DEF UdbfsInv

\* set_boot_loader_inode touches no file.
LEMMA SetBootKeeps ==
  ASSUME UdbfsInv, NEW id \in ClientInode, set_boot_loader_inode(id)
  PROVE  UdbfsInv'
<1>1. /\ mnt.pc = "up" /\ disk' = disk /\ list' = list /\ inode' = inode /\ client' = client
      /\ mnt' = IF id < NInodes THEN [mnt EXCEPT !.boot_loader_inode = id] ELSE mnt
  BY DEF set_boot_loader_inode, Mounted
<1>2. /\ Shapes /\ MapsMounted /\ MapsSaved /\ OneOpen /\ FilesKept /\ FilesSecure
      /\ MetaBlocksKept
  BY DEF UdbfsInv
<1>3. mnt = [pc |-> mnt.pc, at |-> mnt.at, bb |-> mnt.bb, ib |-> mnt.ib,
             boot_loader_inode |-> mnt.boot_loader_inode, signature |-> mnt.signature]
  BY <1>1, <1>2 DEF MapsMounted
<1>4. \E j \in {mnt.boot_loader_inode, id} :
        /\ j = id => id < NInodes \/ id = mnt.boot_loader_inode
        /\ mnt' = [pc |-> "up", at |-> mnt.at, bb |-> mnt.bb, ib |-> mnt.ib,
                   boot_loader_inode |-> j, signature |-> mnt.signature]
  BY <1>1, <1>3
<1>5. /\ mnt'.pc = "up" /\ mnt'.bb = mnt.bb /\ mnt'.ib = mnt.ib
      /\ mnt' = [pc |-> mnt'.pc, at |-> mnt'.at, bb |-> mnt'.bb, ib |-> mnt'.ib,
                 boot_loader_inode |-> mnt'.boot_loader_inode, signature |-> mnt'.signature]
      /\ mnt'.boot_loader_inode = mnt.boot_loader_inode \/
           (mnt'.boot_loader_inode = id /\ id < NInodes)
  BY <1>4
<1>6. mnt'.boot_loader_inode \in 0 .. NInodes - 1
  <2>1. id \in Nat /\ NInodes \in Nat
    BY ClientInodes, SizeAssumption
  <2>2. mnt.boot_loader_inode \in 0 .. NInodes - 1
    BY <1>1, <1>2 DEF MapsMounted
  <2>3. QED
    BY <1>5, <2>1, <2>2
<1>7. trees' = trees /\ sizes' = sizes
  BY <1>1 DEF trees, sizes
<1>8. FreeBlocks' = FreeBlocks
  BY <1>1, <1>5 DEF FreeBlocks
<1>9. Shapes' /\ MetaBlocksKept'
  BY <1>1, <1>2 DEF Shapes, MetaBlocksKept
<1>10. MapsMounted'
  BY <1>1, <1>2, <1>5, <1>6 DEF MapsMounted
<1>11. MapsSaved'
  BY <1>1, <1>2, <1>5 DEF MapsSaved, Saving
<1>12. OneOpen'
  BY <1>1, <1>2, <1>5 DEF OneOpen
<1>13. FilesKept' /\ FilesSecure'
  BY <1>1, <1>2, <1>7, <1>8 DEF FilesKept, FilesSecure
<1>14. QED
  BY <1>9, <1>10, <1>11, <1>12, <1>13 DEF UdbfsInv

\* unmount starts its loop at the open inode, if there is one.
LEMMA UnmountKeeps ==
  ASSUME UdbfsInv, unmount
  PROVE  UdbfsInv'
<1>1. /\ mnt.pc = "up" /\ disk' = disk /\ list' = list /\ inode' = inode /\ client' = client
      /\ mnt' = [mnt EXCEPT !.pc = "closing", !.at = list.root]
  BY DEF unmount, Mounted
<1>2. /\ Shapes /\ MapsMounted /\ MapsSaved /\ OneOpen /\ FilesKept /\ FilesSecure
      /\ MetaBlocksKept
  BY DEF UdbfsInv
<1>3. mnt = [pc |-> mnt.pc, at |-> mnt.at, bb |-> mnt.bb, ib |-> mnt.ib,
             boot_loader_inode |-> mnt.boot_loader_inode, signature |-> mnt.signature]
  BY <1>1, <1>2 DEF MapsMounted
<1>4. mnt' = [pc |-> "closing", at |-> list.root, bb |-> mnt.bb, ib |-> mnt.ib,
              boot_loader_inode |-> mnt.boot_loader_inode, signature |-> mnt.signature]
  BY <1>1, <1>3
<1>5. trees' = trees /\ sizes' = sizes
  BY <1>1 DEF trees, sizes
<1>6. FreeBlocks' = FreeBlocks
  BY <1>1, <1>4 DEF FreeBlocks
<1>7. Shapes' /\ MetaBlocksKept'
  BY <1>1, <1>2 DEF Shapes, MetaBlocksKept
<1>8. MapsMounted'
  BY <1>1, <1>2, <1>4 DEF MapsMounted
<1>9. MapsSaved'
  BY <1>1, <1>2, <1>4 DEF MapsSaved, Saving
<1>10. OneOpen'
  BY <1>1, <1>2, <1>4 DEF OneOpen
<1>11. FilesKept' /\ FilesSecure'
  BY <1>1, <1>2, <1>5, <1>6 DEF FilesKept, FilesSecure
<1>12. QED
  BY <1>7, <1>8, <1>9, <1>10, <1>11 DEF UdbfsInv

\* Nothing happens.
LEMMA SameKeeps ==
  ASSUME UdbfsInv, UNCHANGED vars
  PROVE  UdbfsInv'
<1>1. disk' = disk /\ mnt' = mnt /\ list' = list /\ inode' = inode /\ client' = client
  BY DEF vars
<1>2. Shapes' = Shapes /\ OneOpen' = OneOpen /\ MetaBlocksKept' = MetaBlocksKept
  BY <1>1 DEF Shapes, OneOpen, MetaBlocksKept
<1>3. MapsMounted' = MapsMounted /\ MapsSaved' = MapsSaved
  BY <1>1 DEF MapsMounted, MapsSaved, Saving
<1>4. trees' = trees /\ sizes' = sizes /\ FreeBlocks' = FreeBlocks
  BY <1>1 DEF trees, sizes, FreeBlocks
<1>5. FilesKept' = FilesKept /\ FilesSecure' = FilesSecure
  BY <1>1, <1>4 DEF FilesKept, FilesSecure
<1>6. QED
  BY <1>2, <1>3, <1>5 DEF UdbfsInv

\* A bitmap with one more free bit is covered: the count, which is left
\* alone, promises less than it could.
LEMMA CoversMore ==
  ASSUME NEW m, NEW n \in Nat, NEW low \in Nat, Covers(m, n, low), NEW id \in low .. m.bits - 1,
         NEW new, new = [bits |-> m.bits, free |-> m.free \cup {id}, count |-> m.count]
  PROVE  Covers(new, n, low)
<1>1. /\ m = [bits |-> m.bits, free |-> m.free, count |-> m.count]
      /\ m.bits \in Nat /\ m.count \in Nat /\ m.free \in SUBSET Nat
      /\ m.bits = BitmapBits(n) /\ m.free \subseteq low .. m.bits - 1
      /\ m.count <= Cardinality(m.free \cap 0 .. n - 1) \/ (Torn /\ m.bits = n)
  BY DEF Covers
<1>3. PICK A, B : A = m.free \cap 0 .. n - 1 /\ B = (m.free \cup {id}) \cap 0 .. n - 1
  OBVIOUS
<1>4. A \subseteq B /\ B \subseteq 0 .. n - 1
  BY <1>3
<1>5. IsFiniteSet(0 .. n - 1)
  <2>1. PICK c \in Int : c = n - 1
    OBVIOUS
  <2>2. IsFiniteSet(0 .. c) /\ Cardinality(0 .. c) = IF 0 > c THEN 0 ELSE c - 0 + 1
    BY FS_Interval
  <2>3. QED
    BY <2>1, <2>2
<1>6. IsFiniteSet(B)
  BY <1>4, <1>5, FS_Subset
<1>7. IsFiniteSet(A) /\ Cardinality(A) <= Cardinality(B)
  BY <1>4, <1>6, FS_Subset
<1>8. PICK a \in Nat, b \in Nat : a = Cardinality(A) /\ b = Cardinality(B)
  BY <1>6, <1>7, FS_CardinalityType
<1>9. m.count <= b \/ (Torn /\ m.bits = n)
  BY <1>1, <1>3, <1>7, <1>8
<1>10. m.count <= Cardinality((m.free \cup {id}) \cap 0 .. n - 1) \/ (Torn /\ m.bits = n)
  BY <1>3, <1>8, <1>9
<1>11. id \in Nat /\ m.free \cup {id} \subseteq low .. m.bits - 1
  BY <1>1
<1>12. QED
  BY <1>1, <1>10, <1>11 DEF Covers

\* free_inode: the inode is not open, and it is the one that becomes free.
LEMMA FreeKeeps ==
  ASSUME UdbfsInv, Heeding, NEW id \in ClientInode, free_inode(id)
  PROVE  /\ UdbfsInv'
         /\ mnt' # mnt => mnt'.ib.free = mnt.ib.free \cup {id}
<1>1. /\ Shapes /\ MapsMounted /\ MapsSaved /\ OneOpen /\ FilesKept /\ FilesSecure
      /\ MetaBlocksKept
  BY DEF UdbfsInv
<1>2. /\ mnt.pc = "up" /\ FreedBit(id) = id /\ id \in client.files \cup mnt.ib.free
      /\ disk' = disk /\ inode' = inode
  BY DEF free_inode, Mounted, Heeding
<1>3. Walked(list) = list.live
  BY <1>1, WalkedList DEF OneOpen, Empty, Single
<1>4. list' = list
  BY <1>3 DEF free_inode
<1>5. /\ mnt = [pc |-> mnt.pc, at |-> mnt.at, bb |-> mnt.bb, ib |-> mnt.ib,
                boot_loader_inode |-> mnt.boot_loader_inode, signature |-> mnt.signature]
      /\ BlockMap(mnt.bb) /\ Covers(mnt.ib, NInodes, 3)
      /\ mnt.boot_loader_inode \in 0 .. NInodes - 1
      /\ client.files \cap mnt.ib.free = {}
  BY <1>1, <1>2 DEF MapsMounted
<1>6. PICK done : done = deallocate_bit(mnt.ib, id)
  OBVIOUS
<1>7. \/ mnt' = mnt /\ client' = client
      \/ /\ \A n \in list.live : inode[n].id # id
         /\ mnt' = [mnt EXCEPT !.ib = done.map]
         /\ client' = IF done.ret = 0
                      THEN [client EXCEPT !.files = @ \ {id}, !.changed = @ \ {id}, !.len[id] = 0]
                      ELSE client
  BY <1>3, <1>6 DEF free_inode
<1>8. \/ done = [ret |-> -1, map |-> mnt.ib]
      \/ id \notin mnt.ib.free /\ done = [ret |-> 0, map |-> [mnt.ib EXCEPT !.free = @ \cup {id}]]
  BY <1>2, <1>6 DEF deallocate_bit
<1>9. CASE mnt' = mnt /\ client' = client
  <2>1. UNCHANGED vars
    BY <1>2, <1>4, <1>9 DEF vars
  <2>2. QED
    BY <1>9, <2>1, SameKeeps
<1>10. CASE ~(mnt' = mnt /\ client' = client)
  <2>1. /\ \A n \in list.live : inode[n].id # id
        /\ id \notin mnt.ib.free /\ done = [ret |-> 0, map |-> [mnt.ib EXCEPT !.free = @ \cup {id}]]
    <3>1. done # [ret |-> -1, map |-> mnt.ib]
      <4>1. [mnt EXCEPT !.ib = mnt.ib] = mnt
        BY <1>5
      <4>2. ASSUME done = [ret |-> -1, map |-> mnt.ib] PROVE FALSE
        <5>1. done.ret # 0 /\ done.map = mnt.ib
          BY <4>2
        <5>2. QED
          BY <1>7, <1>10, <4>1, <5>1
      <4>3. QED
        BY <4>2
    <3>2. QED
      BY <1>7, <1>8, <1>10, <3>1
  <2>2. PICK map : map = [mnt.ib EXCEPT !.free = @ \cup {id}]
    OBVIOUS
  <2>3. /\ mnt' = [mnt EXCEPT !.ib = map]
        /\ client' = [client EXCEPT !.files = @ \ {id}, !.changed = @ \ {id}, !.len[id] = 0]
    BY <1>7, <1>10, <2>1, <2>2
  <2>4. /\ mnt' = [pc |-> "up", at |-> mnt.at, bb |-> mnt.bb, ib |-> map,
                   boot_loader_inode |-> mnt.boot_loader_inode, signature |-> mnt.signature]
    BY <1>2, <1>5, <2>3
  <2>5. /\ client' = [files |-> client.files \ {id}, len |-> [client.len EXCEPT ![id] = 0],
                      changed |-> client.changed \ {id}, crashes |-> client.crashes]
    BY <1>1, <2>3 DEF Shapes
  <2>6. /\ map = [bits |-> mnt.ib.bits, free |-> mnt.ib.free \cup {id}, count |-> mnt.ib.count]
        /\ map.free = mnt.ib.free \cup {id}
    BY <1>5, <2>2 DEF Covers
  <2>7. Covers(map, NInodes, 3)
    <3>1. id \in 3 .. mnt.ib.bits - 1 /\ NInodes \in Nat /\ 3 \in Nat
      BY <1>5, ClientInodes, SizeAssumption DEF Covers
    <3>2. QED
      BY <1>5, <2>2, <2>6, <3>1, CoversMore
  <2>8. MapsMounted'
    <3>1. client'.files \cap map.free = {}
      BY <1>5, <2>5, <2>6
    <3>2. QED
      BY <1>5, <2>4, <2>7, <3>1 DEF MapsMounted
  <2>9. Shapes'
    <3>1. client'.len = [i \in InodeBit |-> client'.len[i]]
      BY <1>1, <2>5 DEF Shapes
    <3>2. /\ client' = [files |-> client'.files, len |-> client'.len, changed |-> client'.changed,
                        crashes |-> client'.crashes]
          /\ client'.files \subseteq ClientInode /\ client'.changed \subseteq client'.files
      BY <1>1, <2>5 DEF Shapes
    <3>3. QED
      BY <1>1, <1>2, <3>1, <3>2 DEF Shapes
  <2>10. MapsSaved'
    BY <1>1, <1>2, <2>4 DEF MapsSaved, Saving
  <2>11. OneOpen'
    <3>1. mnt'.pc = "up" /\ client'.files = client.files \ {id}
      BY <2>4, <2>5
    <3>2. QED
      BY <1>1, <1>2, <1>4, <2>1, <3>1 DEF OneOpen
  <2>12. trees' = trees /\ sizes' = sizes
    BY <1>2, <1>4 DEF trees, sizes
  <2>13. FilesKept'
    <3>1. FreeBlocks' = FreeBlocks
      BY <1>2, <2>4 DEF FreeBlocks
    <3>2. Files(client.files, client.len, trees, sizes, disk.word, FreeBlocks)
      BY <1>1 DEF FilesKept
    <3>3. PICK some, len2 : some = client'.files /\ len2 = client'.len
      OBVIOUS
    <3>4. some \subseteq client.files
      BY <2>5, <3>3
    <3>5. \A f \in some : len2[f] = client.len[f] /\ Blocks(trees[f]) \cap FreeBlocks = {}
      <4>1. \A f \in client.files : f \in InodeBit
        BY <1>1, ClientInodes DEF Shapes
      <4>2. QED
        BY <1>1, <2>5, <3>2, <3>3, <4>1 DEF Shapes, Files
    <3>6. Files(some, len2, trees, sizes, disk.word, FreeBlocks)
      BY <3>2, <3>4, <3>5, FilesSame
    <3>7. QED
      BY <1>2, <2>12, <3>1, <3>3, <3>6 DEF FilesKept
  <2>14. FilesSecure'
    <3>1. client'.files \ client'.changed \subseteq client.files \ client.changed
      BY <2>5
    <3>2. QED
      BY <1>1, <1>2, <2>12, <3>1 DEF FilesSecure, Secure
  <2>15. MetaBlocksKept'
    BY <1>1, <1>2 DEF MetaBlocksKept
  <2>16. UdbfsInv'
    BY <2>8, <2>9, <2>10, <2>11, <2>13, <2>14, <2>15 DEF UdbfsInv
  <2>17. QED
    BY <2>4, <2>6, <2>16
<1>11. QED
  BY <1>9, <1>10

\* The blocks of a whole file are on the device, past the ones mkudbfs took.
LEMMA BlocksInDevice ==
  ASSUME NEW T, NEW n, Whole(T, n)
  PROVE  Blocks(T) \subseteq Device
BY DEF Whole, Blocks

\* Closing the open inode, by the client or by unmount.
LEMMA CloseInv ==
  ASSUME UdbfsInv, NEW h \in list.live, close(h), client' = client,
         mnt.pc \in {"up", "closing"}, NEW at, mnt.pc = "closing" => at = NULL,
         mnt' = [pc |-> mnt.pc, at |-> at, bb |-> mnt.bb, ib |-> mnt.ib,
                 boot_loader_inode |-> mnt.boot_loader_inode, signature |-> mnt.signature]
  PROVE  UdbfsInv'
<1>1. /\ Shapes /\ MapsMounted /\ MapsSaved /\ OneOpen /\ FilesKept /\ FilesSecure
      /\ MetaBlocksKept
  BY DEF UdbfsInv
<1>2. Single(list, h) /\ list.live = {h} /\ h \in Handle
  BY <1>1 DEF OneOpen, Empty, Single
<1>3. PICK T, id, size, old : T = inode[h].block /\ id = inode[h].id /\ size = inode[h].size
                              /\ old = disk.word
  OBVIOUS
<1>4. /\ list' = FreeNode(unlink(list, h), h) /\ inode' = [inode EXCEPT ![h] = NoNode]
      /\ disk' = [disk EXCEPT !.word = SavedIndex(T, @),
                              !.inode[id] = [size |-> size, slot |-> SavedSlots(T)]]
  BY <1>3 DEF close
<1>5. PICK new, tab : /\ new = SavedIndex(T, old)
                      /\ tab = [disk.inode EXCEPT ![id] = [size |-> size, slot |-> SavedSlots(T)]]
  OBVIOUS
<1>6. disk' = [word |-> new, inode |-> tab, bb |-> disk.bb, ib |-> disk.ib, super |-> disk.super]
  BY <1>1, <1>3, <1>4, <1>5 DEF Shapes
<1>7. Empty(list') /\ list'.live = {}
  <2>1. Empty(FreeNode(unlink(list, h), h))
    BY <1>2, UnlinkLast
  <2>2. PICK l : l = FreeNode(unlink(list, h), h)
    OBVIOUS
  <2>3. Empty(l) /\ l.live = {}
    BY <2>1, <2>2 DEF Empty
  <2>4. QED
    BY <1>4, <2>2, <2>3
<1>8. client.files \subseteq InodeBit /\ id \in client.files /\ id \in InodeBit
  BY <1>1, <1>2, <1>3, ClientInodes DEF Shapes, OneOpen
<1>9. trees[id] = T /\ sizes[id] = size
  BY <1>2, <1>3, <1>8, ForestOpen DEF trees, sizes
<1>10. /\ Files(client.files, client.len, trees, sizes, old, FreeBlocks)
       /\ Whole(T, size) /\ DOMAIN old = BlockBit
  <2>1. Files(client.files, client.len, trees, sizes, old, FreeBlocks)
    BY <1>1, <1>3 DEF FilesKept
  <2>2. Whole(T, size)
    BY <1>8, <1>9, <2>1 DEF Files
  <2>3. DOMAIN old = BlockBit
    BY <1>1, <1>3 DEF Shapes
  <2>4. QED
    BY <2>1, <2>2, <2>3
<1>11. /\ LoadedTree(SavedSlots(T), new) = Reloaded(T) /\ DOMAIN new = BlockBit
       /\ \A b \in BlockBit : b \notin Blocks(T) => new[b] = old[b]
  BY <1>5, <1>10, CloseKeeps
<1>12. \A f \in InodeBit : trees'[f] = LoadedTree(tab[f].slot, new) /\ sizes'[f] = tab[f].size
  <2> SUFFICES ASSUME NEW f \in InodeBit
               PROVE  trees'[f] = LoadedTree(tab[f].slot, new) /\ sizes'[f] = tab[f].size
    OBVIOUS
  <2>1. PICK node : node = inode'
    OBVIOUS
  <2>2. Shut(f, {}, node)
    BY DEF Shut
  <2>3. /\ Forest({}, node, tab, new)[f] = LoadedTree(tab[f].slot, new)
        /\ Lengths({}, node, tab)[f] = tab[f].size
    BY <2>2, ForestClosed
  <2>4. trees' = Forest({}, node, tab, new) /\ sizes' = Lengths({}, node, tab)
    BY <1>6, <1>7, <2>1 DEF trees, sizes
  <2>5. QED
    BY <2>3, <2>4
<1>13. trees'[id] = Reloaded(T) /\ sizes'[id] = size
  <2>1. tab[id] = [size |-> size, slot |-> SavedSlots(T)]
    BY <1>1, <1>5, <1>8 DEF Shapes
  <2>2. QED
    BY <1>8, <1>11, <1>12, <2>1
<1>14. \A f \in client.files \ {id} : trees'[f] = trees[f] /\ sizes'[f] = sizes[f]
  <2> SUFFICES ASSUME NEW f \in client.files \ {id}
               PROVE  trees'[f] = trees[f] /\ sizes'[f] = sizes[f]
    OBVIOUS
  <2>1. tab[f] = disk.inode[f] /\ f \in InodeBit
    BY <1>1, <1>5, <1>8 DEF Shapes
  <2>2. PICK F, node, table : F = trees[f] /\ node = inode /\ table = disk.inode
    OBVIOUS
  <2>3. Shut(f, {h}, node)
    BY <1>3, <2>2 DEF Shut
  <2>4. /\ Forest({h}, node, table, old)[f] = LoadedTree(table[f].slot, old)
        /\ Lengths({h}, node, table)[f] = table[f].size
    BY <2>1, <2>3, ForestClosed
  <2>5. F = LoadedTree(table[f].slot, old) /\ sizes[f] = table[f].size
    BY <1>2, <1>3, <2>2, <2>4 DEF trees, sizes
  <2>6. Whole(F, client.len[f]) /\ Blocks(F) \cap Blocks(T) = {}
    BY <1>8, <1>9, <1>10, <2>2 DEF Files
  <2>7. \A b \in Blocks(F) : new[b] = old[b]
    BY <1>11, <2>6, BlocksInDevice, DeviceFacts
  <2>8. LoadedTree(table[f].slot, new) = F
    BY <1>10, <1>11, <2>5, <2>6, <2>7, StoredOther
  <2>9. QED
    BY <1>12, <2>1, <2>2, <2>5, <2>8
<1>15. FilesKept'
  <2>1. PICK T2, size2 : T2 = trees' /\ size2 = sizes'
    OBVIOUS
  <2>2. /\ \A f \in client.files \ {id} : T2[f] = trees[f] /\ size2[f] = sizes[f]
        /\ T2[id] = Reloaded(trees[id]) /\ size2[id] = sizes[id] /\ new = SavedIndex(trees[id], old)
    BY <1>5, <1>9, <1>13, <1>14, <2>1
  <2>3. Files(client.files, client.len, T2, size2, new, FreeBlocks)
    BY <1>8, <1>10, <2>2, FilesClose
  <2>4. FreeBlocks' = FreeBlocks
    BY DEF FreeBlocks
  <2>5. QED
    BY <1>6, <2>1, <2>3, <2>4 DEF FilesKept
<1>16. FilesSecure'
  <2>1. Secure(client.files \ client.changed, trees, sizes, disk.inode, disk.word, disk.bb, disk.ib)
    BY <1>1 DEF FilesSecure
  <2>2. PICK T2, size2 : T2 = trees' /\ size2 = sizes'
    OBVIOUS
  <2>3. \A f \in client.files \ client.changed :
           /\ T2[f] = LoadedTree(tab[f].slot, new) /\ size2[f] = tab[f].size
    BY <1>8, <1>12, <2>2
  <2>4. \A f \in client.files \ client.changed : Blocks(T2[f]) = Blocks(trees[f])
    <3>1. Blocks(Reloaded(T)) = Blocks(T)
      BY <1>10, ReloadKeeps
    <3>2. QED
      BY <1>9, <1>13, <1>14, <2>2, <3>1
  <2>5. Secure(client.files \ client.changed, T2, size2, tab, new, disk.bb, disk.ib)
    BY <2>1, <2>3, <2>4 DEF Secure
  <2>6. QED
    BY <1>6, <2>2, <2>5 DEF FilesSecure
<1>17. MetaBlocksKept'
  <2>1. \A b \in 0 .. Meta - 1 : b \in BlockBit /\ b \notin Device
    BY SizeAssumption, Bits DEF BlockBit, Device
  <2>2. \A b \in 0 .. Meta - 1 : new[b] = old[b]
    BY <1>10, <1>11, <2>1, BlocksInDevice
  <2>3. QED
    BY <1>1, <1>3, <1>6, <2>2 DEF MetaBlocksKept
<1>18. Shapes'
  <2>1. new = [b \in BlockBit |-> new[b]]
    BY <1>5, <1>11 DEF SavedIndex
  <2>2. tab = [i \in InodeBit |-> tab[i]]
    BY <1>1, <1>5 DEF Shapes
  <2>3. inode' = [m \in Handle |-> inode'[m]]
    BY <1>1, <1>4 DEF Shapes
  <2>4. QED
    BY <1>1, <1>6, <2>1, <2>2, <2>3 DEF Shapes
<1>19. MapsMounted'
  BY <1>1 DEF MapsMounted
<1>20. MapsSaved'
  BY <1>1, <1>6 DEF MapsSaved, Saving
<1>21. OneOpen'
  <2>1. list'.root = NULL
    BY <1>7 DEF Empty
  <2>2. QED
    BY <1>7, <2>1 DEF OneOpen
<1>22. QED
  BY <1>15, <1>16, <1>17, <1>18, <1>19, <1>20, <1>21 DEF UdbfsInv

\* close_inode.
LEMMA CloseInodeKeeps ==
  ASSUME UdbfsInv, NEW h \in Handle, close_inode(h)
  PROVE  UdbfsInv'
<1>1. mnt.pc = "up" /\ h \in list.live /\ close(h) /\ mnt' = mnt /\ client' = client
  BY DEF close_inode, Mounted
<1>2. mnt = [pc |-> mnt.pc, at |-> mnt.at, bb |-> mnt.bb, ib |-> mnt.ib,
             boot_loader_inode |-> mnt.boot_loader_inode, signature |-> mnt.signature]
  BY <1>1 DEF UdbfsInv, MapsMounted
<1>3. QED
  BY <1>1, <1>2, CloseInv

\* A turn of unmount's loop: the inode pointer it goes on with is NULL.
LEMMA UnmountCloseKeeps ==
  ASSUME UdbfsInv, unmount_close
  PROVE  UdbfsInv'
<1>1. mnt.pc = "closing" /\ mnt.at # NULL /\ client' = client
  BY DEF unmount_close
<1>2. mnt = [pc |-> mnt.pc, at |-> mnt.at, bb |-> mnt.bb, ib |-> mnt.ib,
             boot_loader_inode |-> mnt.boot_loader_inode, signature |-> mnt.signature]
  BY <1>1 DEF UdbfsInv, MapsMounted
<1>3. PICK h : h = mnt.at
  OBVIOUS
<1>4. h \in list.live /\ list.next[h] = NULL
  BY <1>1, <1>3 DEF UdbfsInv, OneOpen, Empty, Single
<1>5. close(h) /\ mnt' = [mnt EXCEPT !.at = NULL]
  BY <1>3, <1>4 DEF unmount_close
<1>6. mnt' = [pc |-> mnt.pc, at |-> NULL, bb |-> mnt.bb, ib |-> mnt.ib,
              boot_loader_inode |-> mnt.boot_loader_inode, signature |-> mnt.signature]
  BY <1>2, <1>5
<1>7. QED
  BY <1>1, <1>4, <1>5, <1>6, CloseInv

\* save_block_bitmap: from here on the device knows the blocks of every file.
LEMMA SaveBlocksKeeps ==
  ASSUME UdbfsInv, save_block_bitmap
  PROVE  UdbfsInv'
<1>1. /\ Shapes /\ MapsMounted /\ MapsSaved /\ OneOpen /\ FilesKept /\ FilesSecure
      /\ MetaBlocksKept
  BY DEF UdbfsInv
<1>2. /\ mnt.pc = "closing" /\ mnt.at = NULL
      /\ list' = list /\ inode' = inode /\ client' = client
  BY DEF save_block_bitmap
<1>3. mnt' = [pc |-> "save_inode_bitmap", at |-> mnt.at, bb |-> mnt.bb, ib |-> mnt.ib,
              boot_loader_inode |-> mnt.boot_loader_inode, signature |-> mnt.signature]
  BY <1>1, <1>2 DEF save_block_bitmap, MapsMounted
<1>4. disk' = [word |-> disk.word, inode |-> disk.inode, bb |-> mnt.bb.free, ib |-> disk.ib,
               super |-> disk.super]
  BY <1>1 DEF save_block_bitmap, Shapes
<1>5. Empty(list)
  BY <1>1, <1>2, HandleAssumption DEF OneOpen, Single
<1>6. trees' = trees /\ sizes' = sizes /\ FreeBlocks' = FreeBlocks /\ FreeBlocks = mnt.bb.free
  BY <1>2, <1>3, <1>4 DEF trees, sizes, FreeBlocks
<1>7. Shapes'
  <2>1. mnt.bb.free \subseteq Meta .. BitmapBits(NBlocks) - 1
    BY <1>1, <1>2 DEF MapsMounted, BlockMap, Covers
  <2>2. QED
    BY <1>1, <1>2, <1>4, <2>1 DEF Shapes
<1>8. MapsMounted'
  BY <1>1, <1>2, <1>3 DEF MapsMounted
<1>9. MapsSaved'
  BY <1>1, <1>3, <1>4 DEF MapsSaved, Saving
<1>10. OneOpen'
  BY <1>1, <1>2, <1>3, <1>5 DEF OneOpen
<1>11. FilesKept'
  BY <1>1, <1>2, <1>4, <1>6 DEF FilesKept
<1>12. FilesSecure'
  BY <1>1, <1>2, <1>4, <1>6 DEF FilesKept, Files, FilesSecure, Secure
<1>13. MetaBlocksKept'
  BY <1>1, <1>4 DEF MetaBlocksKept
<1>14. QED
  BY <1>7, <1>8, <1>9, <1>10, <1>11, <1>12, <1>13 DEF UdbfsInv

\* save_inode_bitmap.
LEMMA SaveInodesKeeps ==
  ASSUME UdbfsInv, save_inode_bitmap
  PROVE  UdbfsInv'
<1>1. /\ Shapes /\ MapsMounted /\ MapsSaved /\ OneOpen /\ FilesKept /\ FilesSecure
      /\ MetaBlocksKept
  BY DEF UdbfsInv
<1>2. mnt.pc = "save_inode_bitmap" /\ list' = list /\ inode' = inode /\ client' = client
  BY DEF save_inode_bitmap
<1>3. mnt' = [pc |-> "save_superblock", at |-> mnt.at, bb |-> mnt.bb, ib |-> mnt.ib,
              boot_loader_inode |-> mnt.boot_loader_inode, signature |-> mnt.signature]
  BY <1>1, <1>2 DEF save_inode_bitmap, MapsMounted
<1>4. disk' = [word |-> disk.word, inode |-> disk.inode, bb |-> disk.bb, ib |-> mnt.ib.free,
               super |-> disk.super]
  BY <1>1 DEF save_inode_bitmap, Shapes
<1>5. disk.bb = mnt.bb.free /\ client.files \cap mnt.ib.free = {}
  BY <1>1, <1>2 DEF MapsSaved, Saving, MapsMounted
<1>6. trees' = trees /\ sizes' = sizes /\ FreeBlocks' = FreeBlocks
  BY <1>2, <1>3, <1>4 DEF trees, sizes, FreeBlocks
<1>7. Shapes'
  <2>1. mnt.ib.free \subseteq ClientInode
    BY <1>1, <1>2, ClientInodes DEF MapsMounted, Covers
  <2>2. QED
    BY <1>1, <1>2, <1>4, <2>1 DEF Shapes
<1>8. MapsMounted'
  BY <1>1, <1>2, <1>3 DEF MapsMounted
<1>9. MapsSaved'
  BY <1>1, <1>3, <1>4, <1>5 DEF MapsSaved, Saving
<1>10. OneOpen'
  BY <1>1, <1>2, <1>3 DEF OneOpen
<1>11. FilesKept'
  BY <1>1, <1>2, <1>4, <1>6 DEF FilesKept
<1>12. FilesSecure'
  BY <1>1, <1>2, <1>4, <1>5, <1>6 DEF FilesSecure, Secure
<1>13. MetaBlocksKept'
  BY <1>1, <1>4 DEF MetaBlocksKept
<1>14. QED
  BY <1>7, <1>8, <1>9, <1>10, <1>11, <1>12, <1>13 DEF UdbfsInv

\* save_superblock: nothing is open, so every file is secure.
LEMMA SaveSuperKeeps ==
  ASSUME UdbfsInv, save_superblock
  PROVE  UdbfsInv'
<1>1. /\ Shapes /\ MapsMounted /\ MapsSaved /\ OneOpen /\ FilesKept /\ FilesSecure
      /\ MetaBlocksKept
  BY DEF UdbfsInv
<1>2. mnt.pc = "save_superblock" /\ list' = list /\ inode' = inode /\ mnt'.pc = "down"
  BY DEF save_superblock, Down
<1>3. PICK super : super = [free_block_count |-> mnt.bb.count, free_inode_count |-> mnt.ib.count,
                            boot_loader_inode |-> mnt.boot_loader_inode,
                            signature |-> mnt.signature]
  OBVIOUS
<1>4. disk' = [word |-> disk.word, inode |-> disk.inode, bb |-> disk.bb, ib |-> disk.ib,
               super |-> super]
  BY <1>1, <1>3 DEF save_superblock, Shapes
<1>5. client' = [files |-> client.files, len |-> client.len, changed |-> {},
                 crashes |-> client.crashes]
  BY <1>1 DEF save_superblock, Shapes
<1>6. /\ disk.bb = mnt.bb.free /\ disk.ib = mnt.ib.free /\ client.files \cap mnt.ib.free = {}
      /\ BlockMap(mnt.bb) /\ Covers(mnt.ib, NInodes, 3)
      /\ mnt.boot_loader_inode \in 0 .. NInodes - 1
  BY <1>1, <1>2 DEF MapsSaved, Saving, MapsMounted
<1>7. trees' = trees /\ sizes' = sizes /\ FreeBlocks' = FreeBlocks /\ FreeBlocks = disk.bb
  BY <1>2, <1>4, <1>6 DEF trees, sizes, FreeBlocks
<1>8. Shapes'
  BY <1>1, <1>2, <1>3, <1>4, <1>5, <1>6 DEF Shapes
<1>9. MapsMounted'
  BY <1>2 DEF MapsMounted
<1>10. MapsSaved'
  BY <1>2, <1>3, <1>4, <1>5, <1>6 DEF MapsSaved, Saving, BlockMap, Exact, Covers
<1>11. Empty(list) /\ list.live = {}
  BY <1>1, <1>2 DEF OneOpen, Empty
<1>12. OneOpen'
  BY <1>2, <1>11 DEF OneOpen
<1>13. FilesKept'
  BY <1>1, <1>4, <1>5, <1>7 DEF FilesKept
<1>14. FilesSecure'
  <2>1. \A f \in client.files : /\ trees[f] = LoadedTree(disk.inode[f].slot, disk.word)
                                /\ sizes[f] = disk.inode[f].size
    <3>1. PICK live, node, table, word : /\ live = list.live /\ node = inode
                                         /\ table = disk.inode /\ word = disk.word
      OBVIOUS
    <3>2. live = {} /\ client.files \subseteq InodeBit
      BY <1>1, <1>11, <3>1, ClientInodes DEF Shapes
    <3>3. \A f \in client.files : /\ Forest(live, node, table, word)[f] = LoadedTree(table[f].slot, word)
                                  /\ Lengths(live, node, table)[f] = table[f].size
      BY <3>2, NothingOpen
    <3>4. QED
      BY <3>1, <3>3 DEF trees, sizes
  <2>2. \A f \in client.files : Blocks(trees[f]) \cap disk.bb = {} /\ f \notin disk.ib
    BY <1>1, <1>6, <1>7 DEF FilesKept, Files
  <2>3. Secure(client.files, trees, sizes, disk.inode, disk.word, disk.bb, disk.ib)
    BY <2>1, <2>2 DEF Secure
  <2>4. client'.files \ client'.changed = client.files
    BY <1>5
  <2>5. QED
    BY <1>4, <1>7, <2>3, <2>4 DEF FilesSecure
<1>15. MetaBlocksKept'
  BY <1>1, <1>4 DEF MetaBlocksKept
<1>16. QED
  BY <1>8, <1>9, <1>10, <1>12, <1>13, <1>14, <1>15 DEF UdbfsInv

\* Crash: the files that were not changed are on the device as they were in
\* memory.
LEMMA CrashKeeps ==
  ASSUME UdbfsInv, Heeding, Crash
  PROVE  UdbfsInv'
<1>1. /\ Shapes /\ MapsMounted /\ MapsSaved /\ OneOpen /\ FilesKept /\ FilesSecure
      /\ MetaBlocksKept
  BY DEF UdbfsInv
<1>2. /\ mnt.pc # "down" /\ (mnt.pc \in {"save_inode_bitmap", "save_superblock"} => Torn)
      /\ mnt'.pc = "down" /\ list' = EmptyList /\ inode' = [h \in Handle |-> NoNode]
      /\ disk' = disk
  BY DEF Crash, Down, Torn
<1>3. client' = [files |-> client.files \ client.changed, len |-> client.len, changed |-> {},
                 crashes |-> client.crashes + 1]
  BY <1>1 DEF Crash, Shapes
<1>4. PICK some, T2, size2 : some = client.files \ client.changed /\ T2 = trees' /\ size2 = sizes'
  OBVIOUS
<1>5. some \subseteq client.files /\ client.files \subseteq InodeBit
  BY <1>1, <1>4, ClientInodes DEF Shapes
<1>6. \A f \in some : /\ T2[f] = LoadedTree(disk.inode[f].slot, disk.word)
                      /\ size2[f] = disk.inode[f].size
  <2>1. PICK node : node = inode'
    OBVIOUS
  <2>2. /\ T2 = Forest({}, node, disk.inode, disk.word)
        /\ size2 = Lengths({}, node, disk.inode)
    BY <1>2, <1>4, <2>1 DEF trees, sizes, EmptyList
  <2>3. PICK table, word : table = disk.inode /\ word = disk.word
    OBVIOUS
  <2>4. \A f \in InodeBit : /\ Forest({}, node, table, word)[f] = LoadedTree(table[f].slot, word)
                           /\ Lengths({}, node, table)[f] = table[f].size
    BY NothingOpen
  <2>5. QED
    BY <1>5, <2>2, <2>3, <2>4
<1>7. Secure(some, trees, sizes, disk.inode, disk.word, disk.bb, disk.ib)
  BY <1>1, <1>4 DEF FilesSecure
<1>8. \A f \in some : /\ T2[f] = trees[f] /\ size2[f] = sizes[f]
                      /\ Blocks(trees[f]) \cap disk.bb = {}
  BY <1>6, <1>7 DEF Secure
<1>9. FilesKept'
  <2>1. Files(client.files, client.len, trees, sizes, disk.word, FreeBlocks)
    BY <1>1 DEF FilesKept
  <2>2. Files(some, client.len, T2, size2, disk.word, disk.bb)
    BY <1>5, <1>8, <2>1, FilesSame
  <2>3. FreeBlocks' = disk.bb
    BY <1>2 DEF FreeBlocks
  <2>4. QED
    BY <1>2, <1>3, <1>4, <2>2, <2>3 DEF FilesKept
<1>10. FilesSecure'
  <2>1. Secure(some, T2, size2, disk.inode, disk.word, disk.bb, disk.ib)
    BY <1>7, <1>8 DEF Secure
  <2>2. client'.files \ client'.changed = some
    BY <1>3, <1>4
  <2>3. QED
    BY <1>2, <1>4, <2>1, <2>2 DEF FilesSecure
<1>11. Shapes'
  BY <1>1, <1>2, <1>3 DEF Shapes
<1>12. MapsMounted'
  BY <1>2 DEF MapsMounted
<1>13. MapsSaved'
  BY <1>1, <1>2, <1>3 DEF MapsSaved, Saving
<1>14. OneOpen'
  <2>1. Empty(list') /\ list'.live = {}
    BY <1>2, EmptyIsEmpty DEF Empty
  <2>2. QED
    BY <1>2, <2>1 DEF OneOpen
<1>15. MetaBlocksKept'
  BY <1>1, <1>2 DEF MetaBlocksKept
<1>16. QED
  BY <1>9, <1>10, <1>11, <1>12, <1>13, <1>14, <1>15 DEF UdbfsInv

\* A write changes one block.
LEMMA PutFacts ==
  ASSUME NEW word, NEW x, NEW f, NEW c, NEW end, word = [b \in BlockBit |-> word[b]],
         NEW new, new = Put(word, x, f, c, end)
  PROVE  /\ new = [b \in BlockBit |-> new[b]] /\ DOMAIN new = BlockBit
         /\ \A b \in BlockBit : b # x.tree[x.path] => new[b] = word[b]
BY DEF Put

\* The empty path, extend_inode's failure, leads to no block.
LEMMA NotEmpty ==
  ASSUME NEW p \in Path
  PROVE  p # <<>>
BY PathFacts

\* The block a careful client's turn writes to.
LEMMA TargetPlaced ==
  ASSUME NEW i, NEW m, NEW n, NEW x, x = Target(i, m), Whole(i.block, n), BlockMap(m),
         Blocks(i.block) \cap m.free = {}, i.cursor \in Nat, i.cursor <= n,
         x.path # <<>> => Careful(i, x), Heeding
  PROVE  \/ x.path = <<>> /\ BlockMap(x.map) /\ x.map.free \subseteq m.free
         \/ x.path # <<>> /\ Placed(i.block, n, m, i.cursor, x)
<1>0. PICK T : T = i.block
  OBVIOUS
<1>1. PICK c \in Nat : c = i.cursor
  OBVIOUS
<1>2. /\ Whole(T, n) /\ Blocks(T) \cap m.free = {} /\ c <= n
      /\ x.path # <<>> => T[x.path] # 0
      /\ x.path # <<>> => \A r \in Path : IsIndex(r) /\ T[r] = NoBlock => x.tree[r] # 0
  BY <1>0, <1>1 DEF Careful, Heeding
<1>3. CASE select_active_inode_block(i) = NoBlock
  <2>1. x = extend_inode(T, m)
    BY <1>0, <1>1, <1>3 DEF Target
  <2>2. c >= MaxFile \/ T[SelectedPath(c)] = NoBlock
    BY <1>0, <1>1, <1>3, MaxFileNat DEF select_active_inode_block
  <2>3. \/ x.path = <<>> /\ BlockMap(x.map) /\ x.map.free \subseteq m.free
        \/ x.path # <<>> /\ Grown(T, m, x)
    BY <1>2, <2>1, Extends
  <2>4. CASE x.path = <<>>
    BY <2>3, <2>4
  <2>5. CASE x.path # <<>>
    BY <1>0, <1>1, <1>2, <2>2, <2>3, <2>5, PlaceGrown
  <2>6. QED
    BY <2>4, <2>5
<1>4. CASE select_active_inode_block(i) # NoBlock
  <2>1. x = [path |-> SelectedPath(c), tree |-> T, map |-> m]
    BY <1>0, <1>1, <1>4 DEF Target
  <2>2. c < MaxFile /\ T[SelectedPath(c)] # NoBlock
    BY <1>0, <1>1, <1>4 DEF select_active_inode_block
  <2>3. SelectedPath(c) \in Path
    BY <2>2, Selected
  <2>4. PICK p \in Path : p = SelectedPath(c)
    BY <2>3
  <2>5. SelectedPath(c) # <<>>
    <3>1. p # <<>>
      BY NotEmpty
    <3>2. QED
      BY <2>4, <3>1
  <2>6. x.path # <<>> /\ T[SelectedPath(c)] \notin {NoBlock, 0}
    BY <1>2, <2>1, <2>2, <2>5
  <2>7. Placed(T, n, m, c, x)
    BY <1>2, <2>1, <2>2, <2>6, PlaceKept
  <2>8. QED
    BY <1>0, <1>1, <2>6, <2>7
<1>5. QED
  BY <1>3, <1>4

\* A turn writes at least one word and stays within the block.
LEMMA TurnEnds ==
  ASSUME NEW n \in 1 .. W, NEW start \in Nat, NEW c \in Nat, start <= c, c < start + W
  PROVE  c + Min({n, start + W - c}) \in c + 1 .. start + W
<1>1. PICK S : S = {n, start + W - c}
  OBVIOUS
<1>2. W \in Nat
  BY WAssumption
<1>3. S \in SUBSET Nat /\ S # {} /\ start + W - c \in S /\ \A y \in S : y >= 1
  BY <1>1, <1>2
<1>4. Min(S) \in S /\ \A y \in S : Min(S) <= y
  BY <1>3, LeastIsMin
<1>5. PICK k \in Nat : k = Min(S) /\ k >= 1 /\ k <= start + W - c
  BY <1>3, <1>4
<1>6. c + k \in c + 1 .. start + W
  BY <1>2, <1>5
<1>7. QED
  BY <1>1, <1>5, <1>6

\* A turn that finds no room leaves every file as it is, although it may lose
\* a free block.
LEMMA GrowNothing ==
  ASSUME UdbfsInv, mnt.pc = "up", disk' = disk, list' = list, inode' = inode, client' = client,
         NEW map, BlockMap(map), map.free \subseteq mnt.bb.free, mnt' = [mnt EXCEPT !.bb = map]
  PROVE  UdbfsInv'
<1>1. /\ Shapes /\ MapsMounted /\ MapsSaved /\ OneOpen /\ FilesKept /\ FilesSecure
      /\ MetaBlocksKept
  BY DEF UdbfsInv
<1>2. mnt' = [pc |-> "up", at |-> mnt.at, bb |-> map, ib |-> mnt.ib,
              boot_loader_inode |-> mnt.boot_loader_inode, signature |-> mnt.signature]
  BY <1>1 DEF MapsMounted
<1>3. trees' = trees /\ sizes' = sizes
  BY DEF trees, sizes
<1>4. Shapes' /\ MetaBlocksKept'
  BY <1>1 DEF Shapes, MetaBlocksKept
<1>5. MapsMounted'
  BY <1>1, <1>2 DEF MapsMounted
<1>6. MapsSaved'
  BY <1>1, <1>2 DEF MapsSaved, Saving
<1>7. OneOpen'
  BY <1>1, <1>2 DEF OneOpen
<1>8. FilesKept'
  <2>1. Files(client.files, client.len, trees, sizes, disk.word, mnt.bb.free)
    BY <1>1 DEF FilesKept, FreeBlocks
  <2>2. \A f \in client.files : Blocks(trees[f]) \cap map.free = {}
    BY <2>1 DEF Files
  <2>3. Files(client.files, client.len, trees, sizes, disk.word, map.free)
    BY <2>1, <2>2 DEF Files
  <2>4. FreeBlocks' = map.free
    BY <1>2 DEF FreeBlocks
  <2>5. QED
    BY <1>3, <2>3, <2>4 DEF FilesKept
<1>9. FilesSecure'
  BY <1>1, <1>3 DEF FilesSecure
<1>10. QED
  BY <1>4, <1>5, <1>6, <1>7, <1>8, <1>9 DEF UdbfsInv

\* write_to_inode.
LEMMA WriteInv ==
  ASSUME UdbfsInv, Heeding, NEW h \in Handle, NEW n \in 1 .. W,
         write_to_inode(h, n)
  PROVE  UdbfsInv'
<1>1. /\ Shapes /\ MapsMounted /\ MapsSaved /\ OneOpen /\ FilesKept /\ FilesSecure
      /\ MetaBlocksKept
  BY DEF UdbfsInv
<1>2. PICK i, x : i = inode[h] /\ x = Target(i, mnt.bb)
  OBVIOUS
<1>3. PICK end : end = i.cursor + Min({n, offset_start(x.path) + W - i.cursor})
  OBVIOUS
<1>4. mnt.pc = "up" /\ h \in list.live /\ list' = list /\ mnt' = [mnt EXCEPT !.bb = x.map]
  BY <1>2 DEF write_to_inode, Mounted
<1>5. x.path = <<>> => disk' = disk /\ inode' = inode /\ client' = client
  BY <1>2 DEF write_to_inode
<1>6. x.path # <<>> =>
         /\ Careful(i, x)
         /\ inode' = [inode EXCEPT ![h].block = x.tree, ![h].cursor = end,
                                   ![h].size = IF end > @ THEN end ELSE @]
  BY <1>2, <1>3 DEF write_to_inode
<1>7. x.path # <<>> =>
         client' = [client EXCEPT !.len[i.id] = IF end > @ THEN end ELSE @,
                                  !.changed = IF end > client.len[i.id]
                                              THEN @ \cup {i.id} ELSE @]
  BY <1>2, <1>3 DEF write_to_inode
<1>8. x.path # <<>> =>
         disk' = [disk EXCEPT !.word = Put(@, x, i.id, i.cursor, end)]
  BY <1>2, <1>3 DEF write_to_inode
<1>9. Single(list, h) /\ list.live = {h}
  BY <1>1, <1>4 DEF OneOpen, Empty, Single
<1>10. PICK T, id, size, old : T = i.block /\ id = i.id /\ size = i.size /\ old = disk.word
  OBVIOUS
<1>11. /\ i = [id |-> id, cursor |-> i.cursor, size |-> size, block |-> T]
       /\ id \in client.files /\ i.cursor \in 0 .. size
  BY <1>1, <1>2, <1>4, <1>10 DEF OneOpen
<1>12. client.files \subseteq InodeBit /\ id \in InodeBit
  BY <1>1, <1>11, ClientInodes DEF Shapes
<1>13. trees[id] = T /\ sizes[id] = size
  BY <1>2, <1>9, <1>10, <1>12, ForestOpen DEF trees, sizes
<1>14. Files(client.files, client.len, trees, sizes, old, mnt.bb.free)
  BY <1>1, <1>4, <1>10 DEF FilesKept, FreeBlocks
<1>15. Whole(T, size) /\ client.len[id] = size /\ Blocks(T) \cap mnt.bb.free = {} /\ size \in Nat
  BY <1>11, <1>13, <1>14 DEF Files, Whole
<1>16. PICK c \in Nat : c = i.cursor /\ c <= size
  BY <1>11, <1>15
<1>17. BlockMap(mnt.bb)
  BY <1>1, <1>4 DEF MapsMounted
<1>18. \/ x.path = <<>> /\ BlockMap(x.map) /\ x.map.free \subseteq mnt.bb.free
       \/ x.path # <<>> /\ Placed(T, size, mnt.bb, c, x)
  <2>1. PICK m : m = mnt.bb
    OBVIOUS
  <2>2. /\ x = Target(i, m) /\ Whole(i.block, size) /\ BlockMap(m) /\ Blocks(i.block) \cap m.free = {}
        /\ i.cursor \in Nat /\ i.cursor <= size
        /\ x.path # <<>> => Careful(i, x)
    BY <1>2, <1>6, <1>10, <1>15, <1>16, <1>17, <2>1
  <2>3. \/ x.path = <<>> /\ BlockMap(x.map) /\ x.map.free \subseteq m.free
        \/ x.path # <<>> /\ Placed(i.block, size, m, i.cursor, x)
    BY <2>2, TargetPlaced
  <2>4. QED
    BY <1>10, <1>16, <2>1, <2>3
<1>19. CASE x.path = <<>>
  <2>1. BlockMap(x.map) /\ x.map.free \subseteq mnt.bb.free
    BY <1>18, <1>19
  <2>2. QED
    BY <1>4, <1>5, <1>19, <2>1, GrowNothing
<1>20. CASE x.path # <<>>
  <2>1. Placed(T, size, mnt.bb, c, x)
    BY <1>18, <1>20
  <2>2. /\ x.path \in Path /\ IsData(x.path) /\ offset_start(x.path) <= c
        /\ c < offset_start(x.path) + W /\ x.tree[x.path] \in Device
        /\ Blocks(x.tree) \subseteq Blocks(T) \cup mnt.bb.free
        /\ BlockMap(x.map) /\ x.map.free \subseteq mnt.bb.free
        /\ x.tree = T \/ c = size
    BY <2>1 DEF Placed
  <2>3. end \in c + 1 .. offset_start(x.path) + W
    <3>1. PICK start \in Nat : start = offset_start(x.path)
      BY <2>2, OffsetNat
    <3>2. c + Min({n, start + W - c}) \in c + 1 .. start + W
      BY <2>2, <3>1, TurnEnds
    <3>3. QED
      BY <1>3, <1>16, <3>1, <3>2
  <2>4. end \in Nat /\ end > c
    <3>1. PICK last : last = offset_start(x.path) + W
      OBVIOUS
    <3>2. end \in c + 1 .. last
      BY <2>3, <3>1
    <3>3. QED
      BY <3>2
  <2>5. PICK new, len : new = Put(old, x, id, c, end) /\ len = IF end > size THEN end ELSE size
    OBVIOUS
  <2>6. disk' = [word |-> new, inode |-> disk.inode, bb |-> disk.bb, ib |-> disk.ib,
                 super |-> disk.super]
    <3>1. disk' = [disk EXCEPT !.word = new]
      BY <1>8, <1>10, <1>16, <1>20, <2>5
    <3>2. QED
      BY <1>1, <3>1 DEF Shapes
  <2>7. inode'[h] = [id |-> id, cursor |-> end, size |-> len, block |-> x.tree]
    <3>1. /\ inode' = [inode EXCEPT ![h].block = x.tree, ![h].cursor = end,
                                    ![h].size = IF end > @ THEN end ELSE @]
          /\ inode[h] = [id |-> id, cursor |-> i.cursor, size |-> size, block |-> T]
          /\ inode = [m \in Handle |-> inode[m]]
      BY <1>1, <1>2, <1>6, <1>11, <1>20 DEF Shapes
    <3>2. PICK r : r = inode[h] /\ r.size = size
      BY <3>1
    <3>3. inode'[h] = [r EXCEPT !.block = x.tree, !.cursor = end,
                                !.size = IF end > r.size THEN end ELSE r.size]
      BY <3>1, <3>2
    <3>4. inode'[h] = [r EXCEPT !.block = x.tree, !.cursor = end, !.size = len]
      BY <2>5, <3>2, <3>3
    <3>5. r = [id |-> id, cursor |-> c, size |-> size, block |-> T]
      BY <1>16, <3>1, <3>2
    <3>6. PICK r1 : r1 = [r EXCEPT !.block = x.tree]
      OBVIOUS
    <3>7. r1 = [id |-> id, cursor |-> c, size |-> size, block |-> x.tree]
      BY <3>5, <3>6
    <3>8. PICK r2 : r2 = [r1 EXCEPT !.cursor = end]
      OBVIOUS
    <3>9. r2 = [id |-> id, cursor |-> end, size |-> size, block |-> x.tree]
      BY <3>7, <3>8
    <3>10. [r2 EXCEPT !.size = len] = [id |-> id, cursor |-> end, size |-> len, block |-> x.tree]
      BY <3>9
    <3>11. QED
      BY <3>4, <3>6, <3>8, <3>10
  <2>8. /\ client' = [files |-> client.files, len |-> [client.len EXCEPT ![id] = len],
                      changed |-> client'.changed, crashes |-> client.crashes]
        /\ client'.changed = IF end > size THEN client.changed \cup {id} ELSE client.changed
    <3>1. /\ client' = [client EXCEPT !.len[id] = IF end > @ THEN end ELSE @,
                                      !.changed = IF end > client.len[id]
                                                  THEN @ \cup {id} ELSE @]
      BY <1>7, <1>10, <1>20
    <3>2. client' = [files |-> client.files,
                     len |-> [client.len EXCEPT ![id] =
                                IF end > client.len[id] THEN end ELSE client.len[id]],
                     changed |-> IF end > client.len[id] THEN client.changed \cup {id}
                                 ELSE client.changed,
                     crashes |-> client.crashes]
      BY <1>1, <3>1 DEF Shapes
    <3>3. QED
      BY <1>15, <2>5, <3>2
  <2>9. mnt' = [pc |-> "up", at |-> mnt.at, bb |-> x.map, ib |-> mnt.ib,
                boot_loader_inode |-> mnt.boot_loader_inode, signature |-> mnt.signature]
    BY <1>1, <1>4 DEF MapsMounted
  <2>10. /\ old = [b \in BlockBit |-> old[b]] /\ DOMAIN old = BlockBit
    BY <1>1, <1>10 DEF Shapes
  <2>11. /\ new = [b \in BlockBit |-> new[b]] /\ DOMAIN new = BlockBit
         /\ \A b \in BlockBit : b # x.tree[x.path] => new[b] = old[b]
    BY <2>5, <2>10, PutFacts
  <2>12. PICK T2, size2, len2 : T2 = trees' /\ size2 = sizes' /\ len2 = client'.len
    OBVIOUS
  <2>13. PICK node : node = inode'
    OBVIOUS
  <2>14. T2 = Forest({h}, node, disk.inode, new) /\ size2 = Lengths({h}, node, disk.inode)
    BY <1>4, <1>9, <2>6, <2>12, <2>13 DEF trees, sizes
  <2>15. T2[id] = x.tree /\ size2[id] = len
    <3>1. node[h].id = id /\ node[h].block = x.tree /\ node[h].size = len
      BY <2>7, <2>13
    <3>2. /\ Forest({h}, node, disk.inode, new)[node[h].id] = node[h].block
          /\ Lengths({h}, node, disk.inode)[node[h].id] = node[h].size
      BY <1>12, <3>1, ForestOpen
    <3>3. QED
      BY <2>14, <3>1, <3>2
  <2>16. \A f \in client.files \ {id} :
            /\ T2[f] = trees[f] /\ size2[f] = sizes[f]
            /\ T2[f] = LoadedTree(disk.inode[f].slot, new) /\ size2[f] = disk.inode[f].size
    <3> SUFFICES ASSUME NEW f \in client.files \ {id}
                 PROVE  /\ T2[f] = trees[f] /\ size2[f] = sizes[f]
                        /\ T2[f] = LoadedTree(disk.inode[f].slot, new)
                        /\ size2[f] = disk.inode[f].size
      OBVIOUS
    <3>1. PICK F, before, table : F = trees[f] /\ before = inode /\ table = disk.inode
      OBVIOUS
    <3>2. Shut(f, {h}, node) /\ Shut(f, {h}, before) /\ f \in InodeBit
      <4>1. node[h].id = id /\ before[h].id = id
        BY <1>2, <1>10, <2>7, <2>13, <3>1
      <4>2. QED
        BY <1>12, <4>1 DEF Shut
    <3>3. /\ Forest({h}, node, table, new)[f] = LoadedTree(table[f].slot, new)
          /\ Lengths({h}, node, table)[f] = table[f].size
      BY <3>2, ForestClosed
    <3>4. /\ Forest({h}, before, table, old)[f] = LoadedTree(table[f].slot, old)
          /\ Lengths({h}, before, table)[f] = table[f].size
      BY <3>2, ForestClosed
    <3>5. F = LoadedTree(table[f].slot, old) /\ sizes[f] = table[f].size
      BY <1>9, <1>10, <3>1, <3>4 DEF trees, sizes
    <3>6. /\ Whole(F, client.len[f]) /\ Blocks(F) \cap Blocks(T) = {}
          /\ Blocks(F) \cap mnt.bb.free = {}
      BY <1>11, <1>13, <1>14, <3>1 DEF Files
    <3>7. x.tree[x.path] \in Blocks(x.tree)
      BY <2>2, DeviceFacts DEF Blocks
    <3>8. x.tree[x.path] \notin Blocks(F)
      BY <2>2, <3>6, <3>7
    <3>9. \A b \in Blocks(F) : new[b] = old[b]
      BY <2>11, <3>6, <3>8, BlocksInDevice, DeviceFacts
    <3>10. LoadedTree(table[f].slot, new) = F
      BY <2>10, <2>11, <3>5, <3>6, <3>9, StoredOther
    <3>11. QED
      BY <2>14, <3>1, <3>3, <3>5, <3>10
  <2>17. /\ \A f \in client.files \ {id} : len2[f] = client.len[f]
         /\ len2[id] = len
    BY <1>1, <1>12, <2>8, <2>12 DEF Shapes
  <2>18. FilesKept'
    <3>1. PICK files, len1, T1, size1, m : /\ files = client.files /\ len1 = client.len
                                           /\ T1 = trees /\ size1 = sizes /\ m = mnt.bb
      OBVIOUS
    <3>2. /\ id \in files /\ Files(files, len1, T1, size1, old, m.free) /\ c <= len1[id]
          /\ Placed(T1[id], len1[id], m, c, x)
      BY <1>11, <1>13, <1>14, <1>15, <1>16, <2>1, <3>1
    <3>6. /\ Others(files, id, T1, T2, size1, size2, len1, len2)
          /\ T2[id] = x.tree /\ size2[id] = len /\ len2[id] = len
          /\ len = IF end > len1[id] THEN end ELSE len1[id]
      BY <1>15, <2>5, <2>15, <2>16, <2>17, <3>1 DEF Others
    <3>8. new = Put(old, x, id, c, end) /\ DOMAIN old = BlockBit
      BY <2>5, <2>10
    <3>7. Files(files, len2, T2, size2, new, x.map.free)
      BY <2>3, <3>2, <3>6, <3>8, FilesWrite
    <3>3. Files(client.files, len2, T2, size2, new, x.map.free)
      BY <3>1, <3>7
    <3>4. FreeBlocks' = x.map.free /\ client'.files = client.files
      BY <2>8, <2>9 DEF FreeBlocks
    <3>5. QED
      BY <2>6, <2>12, <3>3, <3>4 DEF FilesKept
  <2>19. FilesSecure'
    <3>1. Secure(client.files \ client.changed, trees, sizes, disk.inode, old, disk.bb, disk.ib)
      BY <1>1, <1>10 DEF FilesSecure
    <3>2. PICK some : some = client'.files \ client'.changed
      OBVIOUS
    <3>3. some \subseteq client.files \ client.changed
      BY <2>8, <3>2
    <3>4. ASSUME NEW f \in some, f # id
          PROVE  /\ T2[f] = LoadedTree(disk.inode[f].slot, new) /\ size2[f] = disk.inode[f].size
                 /\ Blocks(T2[f]) \cap disk.bb = {} /\ f \notin disk.ib
      BY <2>16, <3>1, <3>3, <3>4 DEF Secure
    <3>5. ASSUME id \in some
          PROVE  /\ T2[id] = LoadedTree(disk.inode[id].slot, new) /\ size2[id] = disk.inode[id].size
                 /\ Blocks(T2[id]) \cap disk.bb = {} /\ id \notin disk.ib
      <4>1. ~(end > size)
        BY <2>8, <3>2, <3>5
      <4>2. x.tree = T /\ len = size
        BY <1>15, <2>2, <2>4, <2>5, <4>1
      <4>3. PICK slot : slot = disk.inode[id].slot
        OBVIOUS
      <4>4. /\ T = LoadedTree(slot, old) /\ size = disk.inode[id].size
            /\ Blocks(T) \cap disk.bb = {} /\ id \notin disk.ib
        BY <1>13, <3>1, <3>3, <3>5, <4>3 DEF Secure
      <4>5. \A p \in Path : IsIndex(p) /\ T[p] \in Device => new[T[p]] = old[T[p]]
        <5>1. Injective(T)
          BY <1>15 DEF Whole
        <5>2. \A p \in Path : IsIndex(p) /\ T[p] \in Device => T[p] # T[x.path]
          BY <2>2, <5>1, DeviceFacts DEF Injective, IsIndex
        <5>3. QED
          BY <2>11, <4>2, <5>2, DeviceFacts
      <4>6. LoadedTree(slot, new) = LoadedTree(slot, old)
        BY <1>15, <2>10, <2>11, <4>4, <4>5, StoredSame
      <4>7. QED
        BY <2>15, <4>2, <4>3, <4>4, <4>6
    <3>6. Secure(some, T2, size2, disk.inode, new, disk.bb, disk.ib)
      BY <3>4, <3>5 DEF Secure
    <3>7. QED
      BY <2>6, <2>12, <3>2, <3>6 DEF FilesSecure
  <2>20. MetaBlocksKept'
    <3>1. \A b \in 0 .. Meta - 1 : b \in BlockBit /\ b \notin Device
      BY SizeAssumption, Bits DEF BlockBit, Device
    <3>2. \A b \in 0 .. Meta - 1 : new[b] = old[b]
      BY <2>2, <2>11, <3>1
    <3>3. QED
      BY <1>1, <1>10, <2>6, <3>2 DEF MetaBlocksKept
  <2>21. Shapes'
    <3>1. inode' = [m \in Handle |-> inode'[m]]
      BY <1>1, <1>6, <1>20 DEF Shapes
    <3>2. /\ client' = [files |-> client'.files, len |-> client'.len, changed |-> client'.changed,
                        crashes |-> client'.crashes]
          /\ client'.len = [f \in InodeBit |-> client'.len[f]]
          /\ client'.files \subseteq ClientInode /\ client'.changed \subseteq client'.files
      BY <1>1, <1>11, <2>8 DEF Shapes
    <3>3. QED
      BY <1>1, <2>6, <2>11, <3>1, <3>2 DEF Shapes
  <2>22. MapsMounted'
    <3>1. /\ Covers(mnt.ib, NInodes, 3) /\ mnt.boot_loader_inode \in 0 .. NInodes - 1
          /\ client.files \cap mnt.ib.free = {}
      BY <1>1, <1>4 DEF MapsMounted
    <3>2. client'.files = client.files /\ BlockMap(x.map)
      BY <2>2, <2>8
    <3>3. QED
      BY <2>9, <3>1, <3>2 DEF MapsMounted
  <2>23. MapsSaved'
    BY <1>1, <1>4, <2>6, <2>9 DEF MapsSaved, Saving
  <2>24. OneOpen'
    <3>1. end \in 0 .. len /\ client'.files = client.files /\ mnt'.pc = "up"
      BY <1>15, <2>4, <2>5, <2>8, <2>9
    <3>2. QED
      BY <1>4, <1>9, <1>11, <2>7, <3>1 DEF OneOpen
  <2>25. QED
    BY <2>18, <2>19, <2>20, <2>21, <2>22, <2>23, <2>24 DEF UdbfsInv
<1>21. QED
  BY <1>19, <1>20
-----------------------------------------------------------------------------
\* Every step keeps the invariant.
LEMMA StepKeeps ==
  ASSUME Heeding, UdbfsInv, [Next]_vars
  PROVE  UdbfsInv'
<1>1. CASE mount
  BY <1>1, MountKeeps
<1>2. ASSUME NEW h \in Handle, create_inode(h) PROVE UdbfsInv'
  BY <1>2, CreateKeeps
<1>3. ASSUME NEW h \in Handle, NEW id \in ClientInode, open_inode(h, id) PROVE UdbfsInv'
  BY <1>3, OpenKeeps
<1>4. ASSUME NEW h \in Handle, NEW n \in 1 .. W, write_to_inode(h, n) PROVE UdbfsInv'
  BY <1>4, WriteInv
<1>5. ASSUME NEW h \in Handle, NEW n \in 1 .. W, read_from_inode(h, n) PROVE UdbfsInv'
  BY <1>5, ReadKeeps
<1>6. ASSUME NEW h \in Handle, close_inode(h) PROVE UdbfsInv'
  BY <1>6, CloseInodeKeeps
<1>7. ASSUME NEW id \in ClientInode, free_inode(id) PROVE UdbfsInv'
  BY <1>7, FreeKeeps
<1>8. ASSUME NEW id \in ClientInode, set_boot_loader_inode(id) PROVE UdbfsInv'
  BY <1>8, SetBootKeeps
<1>9. CASE unmount
  BY <1>9, UnmountKeeps
<1>10. CASE unmount_close
  BY <1>10, UnmountCloseKeeps
<1>11. CASE save_block_bitmap
  BY <1>11, SaveBlocksKeeps
<1>12. CASE save_inode_bitmap
  BY <1>12, SaveInodesKeeps
<1>13. CASE save_superblock
  BY <1>13, SaveSuperKeeps
<1>14. CASE Crash
  BY <1>14, CrashKeeps
<1>15. CASE UNCHANGED vars
  BY <1>15, SameKeeps
<1>16. QED
  BY <1>1, <1>2, <1>3, <1>4, <1>5, <1>6, <1>7, <1>8, <1>9, <1>10, <1>11, <1>12, <1>13,
     <1>14, <1>15 DEF Next

\* UdbfsInv holds in every state a careful client can reach.
THEOREM Invariance == ASSUME Heeding PROVE Spec => []UdbfsInv
<1>1. Init => UdbfsInv
  BY InitInv
<1>2. UdbfsInv /\ [Next]_vars => UdbfsInv'
  BY StepKeeps
<1>3. QED
  BY <1>1, <1>2, PTL DEF Spec

\* The invariant contains the type invariant,
LEMMA TypesHold == UdbfsInv => TypeOK
<1> SUFFICES ASSUME UdbfsInv PROVE TypeOK
  OBVIOUS
<1>1. /\ Shapes /\ MapsMounted /\ MapsSaved /\ OneOpen
  BY DEF UdbfsInv
<1>2. NBlocks \in Nat /\ Meta \in Nat /\ NInodes \in Nat /\ BitmapBits(NBlocks) \in Nat
      /\ BitmapBits(NInodes) \in Nat
  BY SizeAssumption, Bits
<1>3. /\ disk.bb \subseteq BlockBit /\ disk.ib \subseteq InodeBit
      /\ DOMAIN disk.word = BlockBit /\ DOMAIN disk.inode = InodeBit
      /\ disk.super.boot_loader_inode \in 0 .. NInodes - 1
  <2>1. disk.bb \subseteq BlockBit
    BY <1>1, <1>2 DEF Shapes, BlockBit
  <2>2. QED
    BY <1>1, <2>1, ClientInodes DEF Shapes
<1>4. ASSUME mnt.pc # "down"
      PROVE  mnt.bb \in Bitmap(BlockBit) /\ mnt.ib \in Bitmap(InodeBit)
  <2>1. BlockMap(mnt.bb) /\ Covers(mnt.ib, NInodes, 3)
    BY <1>1, <1>4 DEF MapsMounted
  <2>2. PICK bb, ib : bb = mnt.bb /\ ib = mnt.ib
    OBVIOUS
  <2>3. bb \in Bitmap(BlockBit)
    BY <1>2, <2>1, <2>2 DEF BlockMap, Covers, Bitmap, BlockBit
  <2>4. ib \in Bitmap(InodeBit)
    BY <1>2, <2>1, <2>2 DEF Covers, Bitmap, InodeBit
  <2>5. QED
    BY <2>2, <2>3, <2>4
<1>5. list.live \subseteq Handle
  BY <1>1 DEF OneOpen, Empty, Single
<1>6. QED
  BY <1>1, <1>3, <1>4, <1>5 DEF TypeOK, MapsSaved, Shapes

\* (the trees and sizes of the properties are those of the invariant)
LEMMA TreesRead ==
  ASSUME NEW f \in InodeBit
  PROVE  TreeOf(f) = trees[f] /\ SizeOf(f) = sizes[f]
BY DEF TreeOf, SizeOf, trees, sizes, Forest, Lengths, Opened

\* that every file reads back,
LEMMA FilesRead == UdbfsInv => FilesReadBack
<1> SUFFICES ASSUME UdbfsInv, NEW f \in client.files
             PROVE  /\ SizeOf(f) = client.len[f]
                    /\ \A at \in 0 .. client.len[f] - 1 :
                         /\ TreeOf(f)[SelectedPath(at)] \in BlockBit
                         /\ disk.word[TreeOf(f)[SelectedPath(at)]][at % W] = Datum(f, at)
  BY DEF FilesReadBack
<1>1. f \in InodeBit
  BY ClientInodes DEF UdbfsInv, Shapes
<1>2. PICK T, n, word : T = trees[f] /\ n = client.len[f] /\ word = disk.word
  OBVIOUS
<1>3. sizes[f] = n /\ Whole(T, n) /\ Written(T, n, f, word)
  BY <1>2 DEF UdbfsInv, FilesKept, Files
<1>4. TreeOf(f) = T /\ SizeOf(f) = n
  BY <1>1, <1>2, <1>3, TreesRead
<1>5. \A at \in 0 .. n - 1 : T[SelectedPath(at)] \in BlockBit
  BY <1>3, Reads, DeviceFacts
<1>6. \A at \in 0 .. n - 1 : word[T[SelectedPath(at)]][at % W] = Datum(f, at)
  BY <1>3 DEF Written
<1>7. QED
  BY <1>2, <1>4, <1>5, <1>6

\* that no block has two owners,
LEMMA BlocksOwned == UdbfsInv => OneOwner
<1> SUFFICES ASSUME UdbfsInv PROVE OneOwner
  OBVIOUS
<1>1. client.files \subseteq InodeBit
  BY ClientInodes DEF UdbfsInv, Shapes
<1>2. Files(client.files, client.len, trees, sizes, disk.word, FreeBlocks)
  BY DEF UdbfsInv, FilesKept
<1>3. ASSUME NEW f \in client.files
      PROVE  TreeOf(f) = trees[f] /\ BlocksOf(f) = Blocks(trees[f])
  BY <1>1, <1>3, TreesRead DEF BlocksOf, Blocks
<1>4. ASSUME NEW f \in client.files
      PROVE  /\ BlocksOf(f) \subseteq Meta .. NBlocks - 1 /\ BlocksOf(f) \cap FreeBlocks = {}
             /\ \A p, r \in Path : TreeOf(f)[p] = TreeOf(f)[r] /\ TreeOf(f)[p] \notin {NoBlock, 0}
                                     => p = r
  <2>1. Whole(trees[f], client.len[f]) /\ Blocks(trees[f]) \cap FreeBlocks = {}
    BY <1>2, <1>4 DEF Files
  <2>2. Blocks(trees[f]) \subseteq Meta .. NBlocks - 1
    BY <2>1, BlocksInDevice DEF Device
  <2>3. Injective(trees[f])
    BY <2>1 DEF Whole
  <2>4. QED
    BY <1>3, <2>1, <2>2, <2>3 DEF Injective
<1>5. ASSUME NEW f \in client.files, NEW g \in client.files, f # g
      PROVE  BlocksOf(f) \cap BlocksOf(g) = {}
  BY <1>2, <1>3, <1>5 DEF Files
<1>6. QED
  BY <1>4, <1>5 DEF OneOwner, FreeBlocks

\* that the counts are covered,
LEMMA CountsCover == UdbfsInv /\ ~Torn => CountsCovered
<1> SUFFICES ASSUME UdbfsInv, ~Torn PROVE CountsCovered
  OBVIOUS
<1>1. MapsMounted /\ MapsSaved
  BY DEF UdbfsInv
<1>2. CASE mnt.pc = "down"
  BY <1>1, <1>2 DEF CountsCovered, MapsSaved, Saving
<1>3. CASE mnt.pc # "down"
  BY <1>1, <1>3 DEF CountsCovered, MapsMounted, BlockMap, Exact, Covers
<1>4. QED
  BY <1>2, <1>3

\* and that the list leads to the open inode.
LEMMA ListSound == UdbfsInv => ListsOpenInodes
BY HandleAssumption DEF UdbfsInv, OneOpen, Empty, Single, ListOf, ListsOpenInodes, Sound

\* Every part of the state has its type, after any sequence of library calls,
\* unmounts and crashes.
THEOREM StateTyped == ASSUME Heeding PROVE Spec => []TypeOK
<1>1. UdbfsInv => TypeOK
  BY TypesHold
<1>2. QED
  BY <1>1, Invariance, PTL

\* Every file has the size the client wrote and reads back word for word:
\* through growth over all levels of the block tree, close and reopen,
\* unmount and remount, and, for the files that were not changed since the
\* last unmount, a crash at any moment, between the saves of an unmount too if
\* the bitmaps have no bits past the last block and inode.
THEOREM FilesIntact == ASSUME Heeding PROVE Spec => []FilesReadBack
<1>1. UdbfsInv => FilesReadBack
  BY FilesRead
<1>2. QED
  BY <1>1, Invariance, PTL

\* A block is in one place of one file, is not free in the bitmap allocations
\* are made from, and is none of the blocks mkudbfs took.
THEOREM OwnersUnique == ASSUME Heeding PROVE Spec => []OneOwner
<1>1. UdbfsInv => OneOwner
  BY BlocksOwned
<1>2. QED
  BY <1>1, Invariance, PTL

\* The free counts, which are saved and never recomputed, promise no more
\* than the bitmaps hold; the block count is exact.
THEOREM CountsHold == ASSUME Allow \subseteq {"free"} PROVE Spec => []CountsCovered
<1>1. ~Torn /\ Heeding
  BY DEF Torn, Heeding
<1>2. UdbfsInv => CountsCovered
  BY <1>1, CountsCover
<1>3. Spec => []UdbfsInv
  BY <1>1, Invariance
<1>4. QED
  BY <1>2, <1>3, PTL

\* The list of opened inodes leads to the open inode, and no freed node is
\* ever used.
THEOREM ListLeads == ASSUME Heeding PROVE Spec => []ListsOpenInodes
<1>1. UdbfsInv => ListsOpenInodes
  BY ListSound
<1>2. QED
  BY <1>1, Invariance, PTL

\* No write and no close reaches the blocks mkudbfs took, block 0 among them.
THEOREM MetaSafe == ASSUME Heeding PROVE Spec => []MetaBlocksKept
<1>1. UdbfsInv => MetaBlocksKept
  BY DEF UdbfsInv
<1>2. QED
  BY <1>1, Invariance, PTL

\* free_inode either changes nothing or frees the inode it was called for,
\* and no other.
THEOREM FreesIt == ASSUME Heeding PROVE Spec => FreesItsInode
<1>1. UdbfsInv /\ [Next]_vars =>
        [\A id \in ClientInode :
           free_inode(id) /\ mnt' # mnt => mnt'.ib.free = mnt.ib.free \cup {id}]_vars
  BY FreeKeeps
<1>2. QED
  BY <1>1, Invariance, PTL DEF Spec, FreesItsInode
=============================================================================
