--------------------------- MODULE BootImageProofs ---------------------------
(***************************************************************************)
(* Proof that a boot image is sound (ImageSound) for every program whose   *)
(* sections are not empty, are sorted by address and do not overlap, and   *)
(* whose zeroed sections have at least one word; for every size of the two *)
(* buffers, every way deflate may divide its output, and any number of     *)
(* sections, also more than the heap of the boot code is good for.         *)
(*                                                                         *)
(* pos is where the parts of the image begin: pos[n] for the n-th section, *)
(* as far as mkuuubimage has come.  The boot code never sees pos: it finds *)
(* a section from the size word of the one before it.                      *)
(***************************************************************************)
EXTENDS BootImage, NumberLemmas

Cell ==
  {Rest} \cup ({"tag"} \X {"UnBI", "zspn", "fspn", "end"}) \cup ({"number"} \X (Nat \cup {Entry}))
         \cup ({"z"} \X Nat \X Nat)

(* The section_orders the theorem is about. *)
Linked(o) ==
  /\ o \in Seq(SectionHeader)
  /\ \A n \in 1 .. Len(o) :
       /\ o[n].type \in {"progbits", "nobits"}
       /\ o[n].size > 0
       /\ o[n].type = "nobits" => o[n].size >= 4
       /\ o[n].addr .. o[n].addr + o[n].size - 1 \subseteq Ram
  /\ \A m, n \in 1 .. Len(o) : m < n => o[m].addr + o[m].size <= o[n].addr

SpanSize(s) == IF s.type = "progbits" THEN 20 + s.zsize ELSE 20

(* Where the info section and the first n - 1 sections end. *)
Places(pos, o, n) ==
  /\ pos \in [1 .. n -> Nat]
  /\ pos[1] = 12
  /\ \A m \in 1 .. n - 1 : pos[m + 1] = pos[m] + SpanSize(o[m])
  /\ \A m \in 1 .. n - 1 : pos[m] + SpanSize(o[m]) <= pos[n]
  /\ \A m \in 1 .. n : 12 <= pos[m]

Info(im) ==
  /\ Len(im) >= 12
  /\ im[1] = <<"tag", "UnBI">>
  /\ im[5] = <<"number", 12>>
  /\ im[9] = <<"number", Entry>>

(* The header of section s, at a; for a compressed one, but for the size. *)
Headed(im, s, a) ==
  /\ Len(im) >= a + 20
  /\ s.type = "nobits" =>
       /\ im[a + 1] = <<"tag", "fspn">>
       /\ im[a + 5] = <<"number", 20>>
       /\ im[a + 9] = <<"number", s.addr>>
       /\ im[a + 13] = <<"number", s.size>>
       /\ im[a + 17] = <<"number", 0>>
  /\ s.type = "progbits" =>
       /\ im[a + 1] = <<"tag", "zspn">>
       /\ im[a + 9] = <<"number", 20>>
       /\ im[a + 13] = <<"number", s.addr>>
       /\ im[a + 17] = <<"number", s.size>>

(* The first n bytes of the stream of the m-th section, whose span is at a. *)
Streamed(im, m, a, n) ==
  /\ Len(im) >= a + 20 + n
  /\ \A k \in 0 .. n - 1 : im[a + 21 + k] = <<"z", m, k>>

(* The whole span of s, the m-th section. *)
Written(im, s, m, a) ==
  /\ Headed(im, s, a)
  /\ im[a + 5] = <<"number", SpanSize(s)>>
  /\ s.type = "progbits" => Streamed(im, m, a, s.zsize)

ZStream == [flush : {"no", "finish"}, left : Nat, avail_in : Nat, avail_out : Nat, total_out : Nat]

(* The bytes of the stream that have left the output buffer. *)
Out(s) == s.total_out - (OUTPUT_BUFFER_SIZE - s.avail_out)

Counts(s, sec) ==
  /\ s \in ZStream
  /\ s.left <= sec.size /\ s.avail_in <= INPUT_BUFFER_SIZE
  /\ s.avail_out <= OUTPUT_BUFFER_SIZE /\ s.total_out <= sec.zsize
  /\ 0 <= Out(s)

(* The span at a, whose stream has come as far as the counters say. *)
Deflating(im, o, m, s, a) ==
  /\ m <= Len(o) /\ o[m].type = "progbits"
  /\ Counts(s, o[m])
  /\ Headed(im, o[m], a)
  /\ Len(im) = a + 20 + Out(s)
  /\ Streamed(im, m, a, Out(s))

(* The first j sections are in memory as they were linked. *)
Loaded(r, o, j) ==
  \A n \in 1 .. j : \A k \in 0 .. o[n].size - 1 :
    r[o[n].addr + k] = IF o[n].type = "nobits" THEN <<"fill", 0>> ELSE <<"byte", n, k>>

Reading(pos, j) ==
  /\ ebp = IF j = 0 THEN 0 ELSE pos[j]
  /\ Loaded(ram, order, j)

Ready == ebp = 0 /\ frame = stack_top

Spans(pos, im, o, n) ==
  /\ Places(pos, o, n)
  /\ Info(im)
  /\ \A m \in 1 .. n - 1 : Written(im, o[m], m, pos[m])

(* The image that is complete. *)
Whole(pos, im, o) ==
  /\ Spans(pos, im, o, Len(o) + 1)
  /\ Len(im) = pos[Len(o) + 1] + 4
  /\ im[pos[Len(o) + 1] + 1] = <<"tag", "end">>

Writing == {"section", "deflate", "span_end", "buffer_error"}
Booting == {"boot", "process", "invalid_format", "decompress_error", "jumped"}

Parts(pos) ==
  /\ pc \in Writing => Ready /\ Spans(pos, image, order, i)
  /\ pc = "section" => Len(image) = pos[i] /\ z = NoStream
  /\ pc \in Writing \ {"section"} =>
       Deflating(image, order, i, z, pos[i]) /\ size_at = pos[i] + 4
  /\ pc = "span_end" => z.total_out = order[i].zsize
  /\ pc \in Booting => Whole(pos, image, order) /\ i = Len(order) + 1 /\ z = NoStream
  /\ pc = "boot" => Ready
  /\ pc = "process" => boot_top <= frame /\ \E j \in 0 .. Len(order) : Reading(pos, j)
  /\ pc = "jumped" => Loaded(ram, order, Len(order))

(* The inductive invariant. *)
IInv ==
  /\ pc \in {"collect"} \cup Writing \cup Booting
  /\ pc = "collect" =>
       /\ order \in Programs /\ Linked(LoadSections(order))
       /\ i = 1 /\ z = NoStream /\ Ready
  /\ pc # "collect" =>
       /\ Linked(order)
       /\ i \in 1 .. Len(order) + 1
       /\ image \in Seq(Cell)
       /\ \E pos : Parts(pos)
  /\ frame \in Int /\ boot_top - InflateMemory <= frame /\ frame <= stack_top
-----------------------------------------------------------------------------
(* LoadSections gives a sequence of sections of the table, all of them     *)
(* loadable.                                                               *)
LEMMA LoadSectionsType ==
  ASSUME NEW p \in Seq(SectionHeader)
  PROVE  LoadSections(p) \in Seq({p[m] : m \in {m \in 1 .. Len(p) : Loadable(p[m])}})
<1>1. PICK L \in Nat : L = Len(p)
  OBVIOUS
<1>2. PICK S : S = {p[m] : m \in {m \in 1 .. Len(p) : Loadable(p[m])}}
  OBVIOUS
<1>3. PICK A : A = (0 .. L) \X Seq(S)
  OBVIOUS
<1>4. PICK step : step = [v \in A |->
         IF v[1] = L THEN v
         ELSE <<v[1] + 1, IF Loadable(p[v[1] + 1]) THEN Append(v[2], p[v[1] + 1]) ELSE v[2]>>]
  OBVIOUS
<1>5. step \in [A -> A]
  <2>1. ASSUME NEW x \in 0 .. L - 1, NEW y \in Seq(S)
        PROVE  (IF Loadable(p[x + 1]) THEN Append(y, p[x + 1]) ELSE y) \in Seq(S)
    <3>1. Loadable(p[x + 1]) => p[x + 1] \in S
      BY <1>1, <1>2
    <3>2. QED
      BY <3>1
  <2>2. ASSUME NEW v \in A, v[1] # L
        PROVE  <<v[1] + 1, IF Loadable(p[v[1] + 1]) THEN Append(v[2], p[v[1] + 1]) ELSE v[2]>> \in A
    <3>1. v[1] \in 0 .. L - 1 /\ v[2] \in Seq(S)
      BY <1>1, <1>3, <2>2
    <3>2. PICK x \in 0 .. L - 1, y \in Seq(S) : x = v[1] /\ y = v[2]
      BY <3>1
    <3>3. PICK u : u = IF Loadable(p[x + 1]) THEN Append(y, p[x + 1]) ELSE y
      OBVIOUS
    <3>4. u \in Seq(S) /\ x + 1 \in 0 .. L
      BY <1>1, <2>1, <3>3
    <3>5. QED
      BY <1>3, <3>2, <3>3, <3>4
  <2>3. QED
    BY <1>4, <2>2
<1>6. PICK a \in A : a = <<0, <<>>>>
  <2>1. <<>> \in Seq(S) /\ 0 \in 0 .. L
    BY <1>1
  <2>2. QED
    BY <1>3, <2>1
<1>7. PICK f \in [0 .. L -> A] : Iterates(f, L, a, step)
  BY <1>1, <1>5, IterationExists
<1>8. f[0] = <<0, <<>>>> /\ \A k \in 0 .. L - 1 : f[k + 1] = step[f[k]]
  <2>1. f = [k \in 0 .. L |-> IF k = 0 THEN a ELSE step[f[k - 1]]]
    BY <1>7 DEF Iterates
  <2>2. \A k \in 0 .. L - 1 : k + 1 \in 0 .. L /\ k + 1 # 0 /\ (k + 1) - 1 = k
    OBVIOUS
  <2>3. QED
    BY <2>1, <2>2, <1>6, <1>1
<1>9. \A k \in 0 .. L : f[k][1] = k
  <2>1. PICK D : D = {k \in 0 .. L : f[k][1] = k}
    OBVIOUS
  <2>2. 0 \in D
    BY <1>1, <1>8, <2>1
  <2>3. ASSUME NEW k \in 0 .. L - 1, k \in D PROVE k + 1 \in D
    <3>1. f[k] \in A /\ f[k][1] = k /\ k # L
      BY <1>1, <2>1, <2>3
    <3>2. step[f[k]][1] = k + 1
      BY <1>4, <3>1
    <3>3. QED
      BY <1>1, <1>8, <2>1, <3>2
  <2>4. \A k \in 0 .. L : k \in D
    BY <1>1, <2>2, <2>3, BoundedInduction
  <2>5. QED
    BY <2>1, <2>4
<1>10. PICK g : g = [k \in 0 .. L |-> f[k][2]]
  OBVIOUS
<1>11. g \in [0 .. L -> Seq(S)] /\ g[0] = <<>>
  BY <1>1, <1>3, <1>8, <1>10
<1>12. ASSUME NEW k \in 1 .. L
       PROVE  g[k] = IF Loadable(p[k]) THEN Append(g[k - 1], p[k]) ELSE g[k - 1]
  <2>1. PICK h \in 0 .. L - 1 : h = k - 1
    BY <1>1
  <2>2. f[h] \in A /\ f[h][1] = h /\ h # L /\ f[k] = step[f[h]] /\ k = h + 1
    BY <1>1, <1>8, <1>9, <2>1
  <2>3. step[f[h]] = <<h + 1, IF Loadable(p[h + 1]) THEN Append(f[h][2], p[h + 1]) ELSE f[h][2]>>
    BY <1>4, <2>2
  <2>4. g[k] = f[k][2] /\ g[h] = f[h][2]
    BY <1>1, <1>10, <2>1
  <2>5. g[k] = IF Loadable(p[h + 1]) THEN Append(f[h][2], p[h + 1]) ELSE f[h][2]
    BY <2>2, <2>3, <2>4
  <2>6. QED
    BY <2>1, <2>2, <2>4, <2>5
<1> DEFINE Eq(F) == F = [n \in 0 .. Len(p) |->
                           IF n = 0 THEN <<>>
                           ELSE IF Loadable(p[n]) THEN Append(F[n - 1], p[n]) ELSE F[n - 1]]
<1>13. Eq(g)
  <2>1. \A n \in 0 .. L : g[n] = IF n = 0 THEN <<>>
                                ELSE IF Loadable(p[n]) THEN Append(g[n - 1], p[n]) ELSE g[n - 1]
    <3>1. \A n \in 0 .. L : n # 0 => n \in 1 .. L
      BY <1>1
    <3>2. QED
      BY <1>11, <1>12, <3>1
  <2>2. QED
    BY <1>1, <1>10, <2>1
<1>14. ASSUME NEW F, Eq(F) PROVE F[L] \in Seq(S)
  <2>1. PICK D : D = {k \in 0 .. L : F[k] \in Seq(S)}
    OBVIOUS
  <2>2. 0 \in D
    <3>1. F[0] = <<>>
      BY <1>1, <1>14
    <3>2. <<>> \in Seq(S)
      OBVIOUS
    <3>3. F[0] \in Seq(S)
      BY <3>1, <3>2
    <3>4. QED
      BY <1>1, <2>1, <3>3
  <2>3. ASSUME NEW k \in 0 .. L - 1, k \in D PROVE k + 1 \in D
    <3>1. k + 1 \in 1 .. L /\ k + 1 \in 0 .. Len(p) /\ k + 1 # 0 /\ (k + 1) - 1 = k /\ F[k] \in Seq(S)
      BY <1>1, <2>1, <2>3
    <3>2. F[k + 1] = IF Loadable(p[k + 1]) THEN Append(F[k], p[k + 1]) ELSE F[k]
      BY <1>14, <3>1
    <3>3. Loadable(p[k + 1]) => p[k + 1] \in S
      BY <1>1, <1>2, <3>1
    <3>4. F[k + 1] \in Seq(S)
      BY <3>1, <3>2, <3>3
    <3>5. QED
      BY <1>1, <2>1, <3>1, <3>4
  <2>4. \A k \in 0 .. L : k \in D
    BY <1>1, <2>2, <2>3, BoundedInduction
  <2>5. QED
    BY <1>1, <2>1, <2>4
<1>15. Eq(CHOOSE F : Eq(F))
  BY <1>13
<1>16. (CHOOSE F : Eq(F))[L] \in Seq(S)
  <2> HIDE DEF Eq
  <2> QED
    BY <1>14, <1>15
<1>17. QED
  BY <1>1, <1>2, <1>16 DEF LoadSections
-----------------------------------------------------------------------------
(* The programs Init lets in, for the uses the theorem leaves out. *)
LEMMA ProperLinked ==
  ASSUME {"empty_section", "tiny_bss", "unsorted"} \cap Allow = {},
         NEW p \in Programs, Proper(p)
  PROVE  Linked(LoadSections(p))
<1>1. PICK o : o = LoadSections(p)
  OBVIOUS
<1>2. PICK S : S = {p[m] : m \in {m \in 1 .. Len(p) : Loadable(p[m])}}
  OBVIOUS
<1>3. p \in Seq(SectionHeader)
  BY ProgramsAssumption
<1>4. o \in Seq(S)
  BY <1>1, <1>2, <1>3, LoadSectionsType
<1>5. S \subseteq SectionHeader
  BY <1>2, <1>3
<1>6. DOMAIN o = 1 .. Len(o) /\ o \in Seq(SectionHeader) /\ \A n \in 1 .. Len(o) : o[n] \in S
  BY <1>4, <1>5
<1>7. \A s \in S : /\ s.type \in {"progbits", "nobits"}
                  /\ s.addr .. s.addr + s.size - 1 \subseteq Ram
  BY <1>2, <1>3, RamAssumption DEF Loadable
<1>8. ASSUME NEW n \in 1 .. Len(o)
      PROVE  o[n].size > 0 /\ (o[n].type = "nobits" => o[n].size >= 4)
  <2>1. o[n].size > 0 /\ (o[n].type = "nobits" => o[n].size \notin 1 .. 3)
    BY <1>1, <1>6 DEF Proper
  <2>2. o[n].size \in Nat
    <3>1. o[n] \in SectionHeader
      BY <1>6
    <3>2. QED
      BY <3>1 DEF SectionHeader
  <2>3. QED
    BY <2>1, <2>2
<1>9. \A m, n \in 1 .. Len(o) : m < n => o[m].addr + o[m].size <= o[n].addr
  BY <1>1, <1>6 DEF Proper
<1>10. QED
  BY <1>1, <1>6, <1>7, <1>8, <1>9 DEF Linked

(* t is s with a word added. *)
Adds(s, t, c) ==
  /\ s \in Seq(Cell) /\ t \in Seq(Cell)
  /\ Len(t) = Len(s) + 4
  /\ t[Len(s) + 1] = c
  /\ \A k \in 1 .. Len(s) : t[k] = s[k]

(* A word added to an image. *)
LEMMA WordAdded ==
  ASSUME NEW im \in Seq(Cell), NEW c \in Cell
  PROVE  Adds(im, im \o Word(c), c)
<1>1. Rest \in Cell
  BY DEF Cell
<1>2. QED
  BY <1>1 DEF Word, Adds

(* Five words added one after the other. *)
LEMMA FiveWords ==
  ASSUME NEW s0, NEW s1, NEW s2, NEW s3, NEW s4, NEW s5,
         NEW c1, NEW c2, NEW c3, NEW c4, NEW c5,
         Adds(s0, s1, c1), Adds(s1, s2, c2), Adds(s2, s3, c3), Adds(s3, s4, c4), Adds(s4, s5, c5)
  PROVE  /\ s5 \in Seq(Cell)
         /\ Len(s5) = Len(s0) + 20
         /\ \A k \in 1 .. Len(s0) : s5[k] = s0[k]
         /\ s5[Len(s0) + 1] = c1 /\ s5[Len(s0) + 5] = c2 /\ s5[Len(s0) + 9] = c3
         /\ s5[Len(s0) + 13] = c4 /\ s5[Len(s0) + 17] = c5
<1>1. PICK n \in Nat : n = Len(s0)
  BY DEF Adds
<1>2. Len(s1) = n + 4
  BY <1>1 DEF Adds
<1>3. Len(s2) = n + 8
  BY <1>2 DEF Adds
<1>4. Len(s3) = n + 12
  BY <1>3 DEF Adds
<1>5. Len(s4) = n + 16
  BY <1>4 DEF Adds
<1>6. Len(s5) = n + 20 /\ s5 \in Seq(Cell)
  BY <1>5 DEF Adds
<1>7. s1[n + 1] = c1 /\ \A k \in 1 .. n : s1[k] = s0[k]
  BY <1>1 DEF Adds
<1>8. s2[n + 5] = c2 /\ \A k \in 1 .. n + 4 : s2[k] = s1[k]
  <2>1. s2[(n + 4) + 1] = c2 /\ \A k \in 1 .. n + 4 : s2[k] = s1[k]
    BY <1>2 DEF Adds
  <2>2. QED
    BY <2>1
<1>9. s3[n + 9] = c3 /\ \A k \in 1 .. n + 8 : s3[k] = s2[k]
  <2>1. s3[(n + 8) + 1] = c3 /\ \A k \in 1 .. n + 8 : s3[k] = s2[k]
    BY <1>3 DEF Adds
  <2>2. QED
    BY <2>1
<1>10. s4[n + 13] = c4 /\ \A k \in 1 .. n + 12 : s4[k] = s3[k]
  <2>1. s4[(n + 12) + 1] = c4 /\ \A k \in 1 .. n + 12 : s4[k] = s3[k]
    BY <1>4 DEF Adds
  <2>2. QED
    BY <2>1
<1>11. s5[n + 17] = c5 /\ \A k \in 1 .. n + 16 : s5[k] = s4[k]
  <2>1. s5[(n + 16) + 1] = c5 /\ \A k \in 1 .. n + 16 : s5[k] = s4[k]
    BY <1>5 DEF Adds
  <2>2. QED
    BY <2>1
<1>12. \A k \in 1 .. n + 12 : s5[k] = s3[k]
  BY <1>10, <1>11
<1>13. \A k \in 1 .. n + 8 : s5[k] = s2[k]
  BY <1>9, <1>12
<1>14. \A k \in 1 .. n + 4 : s5[k] = s1[k]
  BY <1>8, <1>13
<1>15. \A k \in 1 .. n : s5[k] = s0[k]
  BY <1>7, <1>14
<1>16. s5[n + 1] = c1 /\ s5[n + 5] = c2 /\ s5[n + 9] = c3 /\ s5[n + 13] = c4
  <2>1. n + 1 \in 1 .. n + 4 /\ n + 5 \in 1 .. n + 8 /\ n + 9 \in 1 .. n + 12 /\ n + 13 \in 1 .. n + 16
    OBVIOUS
  <2>2. QED
    BY <1>7, <1>8, <1>9, <1>10, <1>11, <1>12, <1>13, <1>14, <2>1
<1>17. QED
  BY <1>1, <1>6, <1>11, <1>15, <1>16

(* new is im with five words added. *)
HeaderOn(im, new, c1, c2, c3, c4, c5) ==
  /\ new = im \o Word(c1) \o Word(c2) \o Word(c3) \o Word(c4) \o Word(c5)
  /\ new \in Seq(Cell)
  /\ Len(new) = Len(im) + 20
  /\ \A k \in 1 .. Len(im) : new[k] = im[k]
  /\ new[Len(im) + 1] = c1 /\ new[Len(im) + 5] = c2 /\ new[Len(im) + 9] = c3
  /\ new[Len(im) + 13] = c4 /\ new[Len(im) + 17] = c5

(* The header of a span added to an image. *)
LEMMA HeaderAdded ==
  ASSUME NEW im \in Seq(Cell), NEW c1 \in Cell, NEW c2 \in Cell, NEW c3 \in Cell,
         NEW c4 \in Cell, NEW c5 \in Cell
  PROVE  \E new : HeaderOn(im, new, c1, c2, c3, c4, c5)
<1>1. PICK s1 : s1 = im \o Word(c1) /\ Adds(im, s1, c1)
  BY WordAdded
<1>2. PICK s2 : s2 = s1 \o Word(c2) /\ Adds(s1, s2, c2)
  <2>1. s1 \in Seq(Cell)
    BY <1>1 DEF Adds
  <2>2. QED
    BY <2>1, WordAdded
<1>3. PICK s3 : s3 = s2 \o Word(c3) /\ Adds(s2, s3, c3)
  <2>1. s2 \in Seq(Cell)
    BY <1>2 DEF Adds
  <2>2. QED
    BY <2>1, WordAdded
<1>4. PICK s4 : s4 = s3 \o Word(c4) /\ Adds(s3, s4, c4)
  <2>1. s3 \in Seq(Cell)
    BY <1>3 DEF Adds
  <2>2. QED
    BY <2>1, WordAdded
<1>5. PICK new : new = s4 \o Word(c5) /\ Adds(s4, new, c5)
  <2>1. s4 \in Seq(Cell)
    BY <1>4 DEF Adds
  <2>2. QED
    BY <2>1, WordAdded
<1>6. new = im \o Word(c1) \o Word(c2) \o Word(c3) \o Word(c4) \o Word(c5)
  BY <1>1, <1>2, <1>3, <1>4, <1>5
<1>7. /\ new \in Seq(Cell)
      /\ Len(new) = Len(im) + 20
      /\ \A k \in 1 .. Len(im) : new[k] = im[k]
      /\ new[Len(im) + 1] = c1 /\ new[Len(im) + 5] = c2 /\ new[Len(im) + 9] = c3
      /\ new[Len(im) + 13] = c4 /\ new[Len(im) + 17] = c5
  <2>1. /\ Adds(im, s1, c1) /\ Adds(s1, s2, c2) /\ Adds(s2, s3, c3)
        /\ Adds(s3, s4, c4) /\ Adds(s4, new, c5)
    BY <1>1, <1>2, <1>3, <1>4, <1>5
  <2>2. QED
    BY <2>1, FiveWords
<1>8. QED
  BY <1>6, <1>7 DEF HeaderOn

(* The fields of a section. *)
LEMMA SectionFields ==
  ASSUME NEW s \in SectionHeader
  PROVE  /\ s.addr \in Nat /\ s.size \in Nat /\ s.zsize \in Nat /\ s.zsize > 0
         /\ SpanSize(s) \in Nat /\ SpanSize(s) >= 20
<1>1. s.addr \in Nat /\ s.size \in Nat /\ s.zsize \in Nat /\ s.zsize > 0
  BY DEF SectionHeader
<1>2. QED
  BY <1>1 DEF SpanSize

(* Two images whose first L cells are the same. *)
Agree(im, new, L) ==
  /\ im \in Seq(Cell) /\ new \in Seq(Cell)
  /\ L \in Nat /\ L <= Len(im) /\ L <= Len(new)
  /\ \A k \in 1 .. L : new[k] = im[k]

(* A header that ends in them is in both. *)
LEMMA HeadedStays ==
  ASSUME NEW im, NEW new, NEW L, Agree(im, new, L), NEW s, NEW a \in Nat,
         Headed(im, s, a), a + 20 <= L
  PROVE  Headed(new, s, a)
<1>1. Len(im) \in Nat /\ Len(new) \in Nat /\ L \in Nat
  BY DEF Agree
<1>2. \A k \in 1 .. 20 : new[a + k] = im[a + k]
  BY <1>1 DEF Agree
<1>3. Len(new) >= a + 20
  BY <1>1 DEF Agree
<1>4. new[a + 1] = im[a + 1] /\ new[a + 5] = im[a + 5] /\ new[a + 9] = im[a + 9]
      /\ new[a + 13] = im[a + 13] /\ new[a + 17] = im[a + 17]
  BY <1>2
<1>5. QED
  BY <1>3, <1>4 DEF Headed

(* So is a part of a stream. *)
LEMMA StreamedStays ==
  ASSUME NEW im, NEW new, NEW L, Agree(im, new, L), NEW m, NEW a \in Nat, NEW n \in Nat,
         Streamed(im, m, a, n), a + 20 + n <= L
  PROVE  Streamed(new, m, a, n)
<1>1. Len(im) \in Nat /\ Len(new) \in Nat /\ L \in Nat
  BY DEF Agree
<1>2. \A k \in 0 .. n - 1 : new[a + 21 + k] = im[a + 21 + k]
  BY <1>1 DEF Agree
<1>3. Len(new) >= a + 20 + n
  BY <1>1 DEF Agree
<1>4. QED
  BY <1>2, <1>3 DEF Streamed

(* So is a span. *)
LEMMA WrittenStays ==
  ASSUME NEW im, NEW new, NEW L, Agree(im, new, L), NEW s \in SectionHeader, NEW m,
         NEW a \in Nat, Written(im, s, m, a), a + SpanSize(s) <= L
  PROVE  Written(new, s, m, a)
<1>1. L \in Nat /\ s.zsize \in Nat
  BY DEF Agree, SectionHeader
<1>2. a + 20 <= L /\ (s.type = "progbits" => a + 20 + s.zsize <= L)
  BY <1>1 DEF SpanSize
<1>3. Headed(new, s, a)
  BY <1>2, HeadedStays DEF Written
<1>4. new[a + 5] = im[a + 5]
  BY <1>1, <1>2 DEF Agree
<1>5. s.type = "progbits" => Streamed(new, m, a, s.zsize)
  BY <1>1, <1>2, StreamedStays DEF Written
<1>6. QED
  BY <1>3, <1>4, <1>5 DEF Written

(* So is the info section, with the spans that are complete. *)
LEMMA SpansStay ==
  ASSUME NEW im, NEW new, NEW L, Agree(im, new, L), NEW o \in Seq(SectionHeader), NEW pos,
         NEW n \in 1 .. Len(o) + 1, Spans(pos, im, o, n), pos[n] <= L
  PROVE  Spans(pos, new, o, n)
<1>1. L \in Nat /\ pos[n] \in Nat /\ 12 <= L
  BY DEF Agree, Spans, Places
<1>2. Info(new)
  <2>1. new[1] = im[1] /\ new[5] = im[5] /\ new[9] = im[9]
    BY <1>1 DEF Agree
  <2>2. Len(new) \in Nat /\ Len(new) >= 12
    BY <1>1 DEF Agree
  <2>3. QED
    BY <2>1, <2>2 DEF Spans, Info
<1>3. ASSUME NEW m \in 1 .. n - 1 PROVE Written(new, o[m], m, pos[m])
  <2>1. o[m] \in SectionHeader /\ pos[m] \in Nat /\ pos[m] + SpanSize(o[m]) <= pos[n]
    BY DEF Spans, Places
  <2>2. SpanSize(o[m]) \in Nat
    BY <2>1, SectionFields
  <2>3. pos[m] + SpanSize(o[m]) <= L
    BY <1>1, <2>1, <2>2
  <2>4. QED
    BY <2>1, <2>3, WrittenStays DEF Spans
<1>4. QED
  BY <1>2, <1>3 DEF Spans

(* A section that is complete has its place, and the next one gets one. *)
LEMMA SpanDone ==
  ASSUME NEW im, NEW o \in Seq(SectionHeader), NEW pos, NEW n \in 1 .. Len(o),
         Spans(pos, im, o, n), Written(im, o[n], n, pos[n])
  PROVE  \E q : Spans(q, im, o, n + 1) /\ q[n + 1] = pos[n] + SpanSize(o[n])
<1>1. PICK q : q = [m \in 1 .. n + 1 |-> IF m = n + 1 THEN pos[n] + SpanSize(o[n]) ELSE pos[m]]
  OBVIOUS
<1>2. \A m \in 1 .. Len(o) : o[m] \in SectionHeader /\ SpanSize(o[m]) \in Nat
  BY SectionFields
<1>3. Places(pos, o, n)
  BY DEF Spans
<1>4. pos[n] \in Nat /\ SpanSize(o[n]) \in Nat
  BY <1>2, <1>3 DEF Places
<1>5. q \in [1 .. n + 1 -> Nat] /\ q[n + 1] = pos[n] + SpanSize(o[n]) /\ \A m \in 1 .. n : q[m] = pos[m]
  BY <1>1, <1>3, <1>4 DEF Places
<1>6. Places(q, o, n + 1)
  <2>1. q[1] = 12
    BY <1>3, <1>5 DEF Places
  <2>2. \A m \in 1 .. n : q[m + 1] = q[m] + SpanSize(o[m])
    <3>1. ASSUME NEW m \in 1 .. n - 1 PROVE q[m + 1] = q[m] + SpanSize(o[m])
      <4>1. m \in 1 .. n /\ m + 1 \in 1 .. n
        OBVIOUS
      <4>2. QED
        BY <1>3, <1>5, <4>1 DEF Places
    <3>2. q[n + 1] = q[n] + SpanSize(o[n])
      BY <1>5
    <3>3. QED
      BY <3>1, <3>2
  <2>3. \A m \in 1 .. n : q[m] + SpanSize(o[m]) <= q[n + 1]
    <3>1. ASSUME NEW m \in 1 .. n - 1 PROVE q[m] + SpanSize(o[m]) <= q[n + 1]
      <4>1. pos[m] \in Nat /\ SpanSize(o[m]) \in Nat /\ pos[m] + SpanSize(o[m]) <= pos[n]
        BY <1>2, <1>3 DEF Places
      <4>2. QED
        BY <1>4, <1>5, <4>1
    <3>2. q[n] + SpanSize(o[n]) <= q[n + 1]
      BY <1>4, <1>5
    <3>3. QED
      BY <3>1, <3>2
  <2>4. \A m \in 1 .. n + 1 : 12 <= q[m]
    <3>1. \A m \in 1 .. n : 12 <= pos[m]
      BY <1>3 DEF Places
    <3>2. 12 <= q[n + 1]
      BY <1>4, <1>5, <3>1
    <3>3. QED
      BY <1>5, <3>1, <3>2
  <2>5. (n + 1) - 1 = n
    OBVIOUS
  <2>6. QED
    BY <1>5, <2>1, <2>2, <2>3, <2>4, <2>5 DEF Places
<1>7. ASSUME NEW m \in 1 .. n PROVE Written(im, o[m], m, q[m])
  <2>1. q[m] = pos[m]
    BY <1>5
  <2>2. m \in 1 .. n - 1 \/ m = n
    OBVIOUS
  <2>3. QED
    BY <2>1, <2>2 DEF Spans
<1>8. QED
  BY <1>5, <1>6, <1>7 DEF Spans
-----------------------------------------------------------------------------
(* One sequence of cells after another. *)
LEMMA Concatenated ==
  ASSUME NEW im \in Seq(Cell), NEW s \in Seq(Cell)
  PROVE  /\ im \o s \in Seq(Cell) /\ Len(im \o s) = Len(im) + Len(s)
         /\ \A k \in 1 .. Len(im) : (im \o s)[k] = im[k]
         /\ \A k \in 1 .. Len(s) : (im \o s)[Len(im) + k] = s[k]
OBVIOUS

(* What the output buffer holds, added to the image. *)
LEMMA BufferAdded ==
  ASSUME NEW im \in Seq(Cell), NEW m \in Nat, NEW a \in Nat, NEW n \in Nat, NEW last \in Nat,
         n <= last, Len(im) = a + 20 + n, Streamed(im, m, a, n)
  PROVE  \E new :
           /\ new = im \o Stream(m, n, last - 1)
           /\ Agree(im, new, Len(im))
           /\ Len(new) = a + 20 + last
           /\ Streamed(new, m, a, last)
<1>1. PICK s : s = Stream(m, n, last - 1)
  OBVIOUS
<1>2. s = [k \in 1 .. last - n |-> <<"z", m, n + k - 1>>]
  <2>1. (last - 1) - n + 1 = last - n
    OBVIOUS
  <2>2. QED
    BY <1>1, <2>1 DEF Stream
<1>3. PICK d \in Nat : d = last - n
  OBVIOUS
<1>4. \A k \in 1 .. d : <<"z", m, n + k - 1>> \in Cell
  BY DEF Cell
<1>5. s \in Seq(Cell) /\ Len(s) = d /\ \A k \in 1 .. d : s[k] = <<"z", m, n + k - 1>>
  <2>1. s = [k \in 1 .. d |-> <<"z", m, n + k - 1>>]
    BY <1>2, <1>3
  <2>2. s \in [1 .. d -> Cell]
    BY <1>4, <2>1
  <2>3. s \in Seq(Cell) /\ Len(s) = d
    BY <2>2
  <2>4. QED
    BY <2>1, <2>3
<1>6. PICK new : new = im \o s
  OBVIOUS
<1>7. /\ new \in Seq(Cell) /\ Len(new) = Len(im) + d
      /\ \A k \in 1 .. Len(im) : new[k] = im[k]
      /\ \A k \in 1 .. d : new[Len(im) + k] = s[k]
  BY <1>5, <1>6, Concatenated
<1>8. Len(new) = a + 20 + last
  BY <1>3, <1>7
<1>9. Agree(im, new, Len(im))
  BY <1>7 DEF Agree
<1>10. ASSUME NEW k \in 0 .. last - 1 PROVE new[a + 21 + k] = <<"z", m, k>>
  <2>1. CASE k < n
    <3>1. a + 21 + k \in 1 .. Len(im)
      BY <2>1
    <3>2. QED
      BY <1>7, <2>1, <3>1 DEF Streamed
  <2>2. CASE k >= n
    <3>1. PICK h \in 1 .. d : h = k - n + 1
      BY <1>3, <2>2
    <3>2. a + 21 + k = Len(im) + h /\ n + h - 1 = k
      BY <3>1
    <3>3. QED
      BY <1>5, <1>7, <3>2
  <2>3. QED
    BY <2>1, <2>2
<1>11. Streamed(new, m, a, last)
  <2>1. Len(new) >= a + 20 + last
    BY <1>8
  <2>2. QED
    BY <1>10, <2>1 DEF Streamed
<1>12. QED
  BY <1>1, <1>6, <1>8, <1>9, <1>11

(* The input buffer is filled within the bounds of the counters, and the   *)
(* place in the stream stays.                                              *)
LEMMA FillCounts ==
  ASSUME NEW sec \in SectionHeader, NEW s, Counts(s, sec)
  PROVE  Counts(FillInput(s), sec) /\ Out(FillInput(s)) = Out(s)
<1> USE BufferAssumption
<1>1. s = [flush |-> s.flush, left |-> s.left, avail_in |-> s.avail_in,
           avail_out |-> s.avail_out, total_out |-> s.total_out]
  BY DEF Counts, ZStream
<1>2. /\ s.flush \in {"no", "finish"} /\ s.left \in Nat /\ s.avail_in \in Nat
      /\ s.avail_out \in Nat /\ s.total_out \in Nat
  BY DEF Counts, ZStream
<1>3. CASE s.avail_in > 0
  BY <1>3 DEF FillInput
<1>4. CASE ~(s.avail_in > 0) /\ s.left > INPUT_BUFFER_SIZE
  <2>1. FillInput(s) = [flush |-> s.flush, left |-> s.left - INPUT_BUFFER_SIZE,
                        avail_in |-> INPUT_BUFFER_SIZE,
                        avail_out |-> s.avail_out, total_out |-> s.total_out]
    BY <1>1, <1>4 DEF FillInput
  <2>2. QED
    BY <1>2, <1>4, <2>1, SectionFields DEF Counts, ZStream, Out
<1>5. CASE ~(s.avail_in > 0) /\ ~(s.left > INPUT_BUFFER_SIZE) /\ s.flush # "finish"
  <2>1. FillInput(s) = [flush |-> "finish", left |-> s.left, avail_in |-> s.left,
                        avail_out |-> s.avail_out, total_out |-> s.total_out]
    BY <1>1, <1>5 DEF FillInput
  <2>2. QED
    BY <1>2, <1>5, <2>1, SectionFields DEF Counts, ZStream, Out
<1>6. CASE ~(s.avail_in > 0) /\ ~(s.left > INPUT_BUFFER_SIZE) /\ s.flush = "finish"
  BY <1>6 DEF FillInput
<1>7. QED
  BY <1>3, <1>4, <1>5, <1>6

(* Whatever deflate does, its counters stay in their bounds and the bytes  *)
(* that have left the output buffer are the same; at the end of the stream *)
(* all of it has been given out.                                           *)
LEMMA DeflateCounts ==
  ASSUME NEW sec \in SectionHeader, NEW s, Counts(s, sec), NEW r \in deflate(s, sec.zsize)
  PROVE  /\ Counts(r[2], sec) /\ Out(r[2]) = Out(s)
         /\ r[1] = "stream_end" => r[2].total_out = sec.zsize
         /\ r[1] \in {"ok", "stream_end", "buffer_error"}
<1> USE BufferAssumption
<1> DEFINE After(p, c) == [flush |-> s.flush, left |-> s.left, avail_in |-> s.avail_in - c,
                           avail_out |-> s.avail_out - p, total_out |-> s.total_out + p]
<1>1. s.total_out <= sec.zsize
  BY DEF Counts
<1>2. /\ s.flush \in {"no", "finish"} /\ s.left \in Nat /\ s.avail_in \in Nat
      /\ s.avail_out \in Nat /\ s.total_out \in Nat /\ sec.zsize \in Nat /\ sec.size \in Nat
  BY SectionFields DEF Counts, ZStream
<1>3. ASSUME NEW p \in 0 .. s.avail_out, NEW c \in 0 .. s.avail_in, p <= sec.zsize - s.total_out
      PROVE  /\ Counts(After(p, c), sec) /\ Out(After(p, c)) = Out(s)
             /\ After(p, c).total_out = s.total_out + p
  BY <1>2, <1>3 DEF Counts, ZStream, Out
<1>4. CASE r = <<"buffer_error", s>>
  BY <1>4
<1>5. CASE \E p \in 0 .. s.avail_out, c \in 0 .. s.avail_in :
             p <= sec.zsize - s.total_out /\ r = <<"ok", After(p, c)>>
  <2> HIDE DEF After
  <2> QED
    BY <1>3, <1>5
<1>6. CASE \E p \in 0 .. s.avail_out, c \in 0 .. s.avail_in :
             p = sec.zsize - s.total_out /\ r = <<"stream_end", After(p, c)>>
  <2>1. PICK p \in 0 .. s.avail_out, c \in 0 .. s.avail_in :
             p = sec.zsize - s.total_out /\ r = <<"stream_end", After(p, c)>>
    BY <1>6
  <2> HIDE DEF After
  <2>2. p <= sec.zsize - s.total_out /\ s.total_out + p = sec.zsize
    BY <1>2, <2>1
  <2>3. QED
    BY <1>3, <2>1, <2>2
<1>7. \/ r = <<"buffer_error", s>>
      \/ \E p \in 0 .. s.avail_out, c \in 0 .. s.avail_in :
             p <= sec.zsize - s.total_out /\ r = <<"ok", After(p, c)>>
      \/ \E p \in 0 .. s.avail_out, c \in 0 .. s.avail_in :
             p = sec.zsize - s.total_out /\ r = <<"stream_end", After(p, c)>>
  <2>2. CASE s.avail_out = 0 \/ (s.avail_in = 0 /\ s.flush = "no")
    BY <2>2 DEF deflate
  <2>3. CASE ~(s.avail_out = 0 \/ (s.avail_in = 0 /\ s.flush = "no")) /\ s.flush = "no"
    <3>1. PICK x \in (0 .. sec.zsize - s.total_out - 1) \X (0 .. s.avail_in) :
                 x[1] <= s.avail_out /\ r = <<"ok", After(x[1], x[2])>>
      BY <2>3 DEF deflate
    <3>2. x[1] \in 0 .. s.avail_out /\ x[2] \in 0 .. s.avail_in /\ x[1] <= sec.zsize - s.total_out
      BY <1>2, <3>1
    <3> HIDE DEF After
    <3>3. QED
      BY <3>1, <3>2
  <2>4. CASE ~(s.avail_out = 0 \/ (s.avail_in = 0 /\ s.flush = "no")) /\ s.flush # "no"
    <3>1. \/ sec.zsize - s.total_out <= s.avail_out
             /\ r = <<"stream_end", After(sec.zsize - s.total_out, s.avail_in)>>
          \/ sec.zsize - s.total_out >= s.avail_out
             /\ \E c \in 0 .. s.avail_in : r = <<"ok", After(s.avail_out, c)>>
      BY <2>4 DEF deflate
    <3> HIDE DEF After
    <3>2. CASE sec.zsize - s.total_out <= s.avail_out
               /\ r = <<"stream_end", After(sec.zsize - s.total_out, s.avail_in)>>
      <4>1. sec.zsize - s.total_out \in 0 .. s.avail_out /\ s.avail_in \in 0 .. s.avail_in
        BY <1>1, <1>2, <3>2
      <4>2. QED
        BY <3>2, <4>1
    <3>3. CASE sec.zsize - s.total_out >= s.avail_out
               /\ \E c \in 0 .. s.avail_in : r = <<"ok", After(s.avail_out, c)>>
      <4>1. s.avail_out \in 0 .. s.avail_out /\ s.avail_out <= sec.zsize - s.total_out
        BY <1>2, <3>3
      <4>2. QED
        BY <3>3, <4>1
    <3>4. QED
      BY <3>1, <3>2, <3>3
  <2>5. QED
    BY <2>2, <2>3, <2>4
<1>8. QED
  BY <1>4, <1>5, <1>6, <1>7
-----------------------------------------------------------------------------
(* The section that is being written. *)
LEMMA AtSection ==
  ASSUME IInv, pc \in Writing
  PROVE  /\ order \in Seq(SectionHeader) /\ Len(order) \in Nat
         /\ i \in 1 .. Len(order) + 1 /\ i \in Nat
         /\ image \in Seq(Cell)
         /\ i <= Len(order) => i \in 1 .. Len(order) /\ order[i] \in SectionHeader
         /\ \E pos : Parts(pos) /\ Spans(pos, image, order, i) /\ pos[i] \in Nat
<1>1. Linked(order) /\ i \in 1 .. Len(order) + 1 /\ image \in Seq(Cell)
  BY DEF IInv, Writing
<1>2. order \in Seq(SectionHeader) /\ Len(order) \in Nat
  BY <1>1 DEF Linked
<1>3. PICK pos : Parts(pos)
  BY DEF IInv, Writing
<1>4. Spans(pos, image, order, i)
  BY <1>3 DEF Parts
<1>5. pos[i] \in Nat
  BY <1>1, <1>2, <1>4 DEF Spans, Places
<1>6. QED
  BY <1>1, <1>2, <1>3, <1>4, <1>5

(* The state mkuuubimage is in at the end of an action, in one piece. *)
LEMMA WritingState ==
  ASSUME IInv, Linked(order'), i' \in 1 .. Len(order') + 1, image' \in Seq(Cell),
         pc' \in Writing, UNCHANGED loader, pc \in {"collect"} \cup Writing,
         NEW q, Spans(q, image', order', i'),
         pc' = "section" => Len(image') = q[i'] /\ z' = NoStream,
         pc' # "section" => Deflating(image', order', i', z', q[i']) /\ size_at' = q[i'] + 4,
         pc' = "span_end" => z'.total_out = order'[i'].zsize
  PROVE  IInv'
<1>1. Ready /\ frame \in Int /\ boot_top - InflateMemory <= frame /\ frame <= stack_top
  <2>1. pc = "collect" => Ready
    BY DEF IInv
  <2>2. pc \in Writing => Ready
    <3>1. pc \in Writing => \E pos : Parts(pos)
      BY DEF IInv, Writing
    <3>2. QED
      BY <3>1 DEF Parts
  <2>3. QED
    BY <2>1, <2>2 DEF IInv
<1>2. Ready' /\ frame' \in Int /\ boot_top - InflateMemory <= frame' /\ frame' <= stack_top
  BY <1>1 DEF Ready, loader
<1>3. Parts(q)'
  BY <1>2 DEF Parts, Writing, Booting
<1>4. QED
  BY <1>2, <1>3 DEF IInv, Writing, Booting

(* The invariant holds at the start. *)
LEMMA InitInv ==
  ASSUME {"empty_section", "tiny_bss", "unsorted"} \cap Allow = {}, Init
  PROVE  IInv
<1>1. order \in Programs /\ Linked(LoadSections(order))
  BY ProperLinked DEF Init
<1>2. QED
  BY <1>1, HeapAssumption DEF Init, IInv, Ready

(* The three words of the info section. *)
InfoOn(new, c1, c2, c3) ==
  /\ new = Word(c1) \o Word(c2) \o Word(c3)
  /\ new \in Seq(Cell) /\ Len(new) = 12
  /\ new[1] = c1 /\ new[5] = c2 /\ new[9] = c3

(* They follow each other. *)
LEMMA InfoAdded ==
  ASSUME NEW c1 \in Cell, NEW c2 \in Cell, NEW c3 \in Cell
  PROVE  \E new : InfoOn(new, c1, c2, c3)
<1>1. PICK s1 : s1 = Word(c1)
  OBVIOUS
<1>2. s1 \in Seq(Cell) /\ Len(s1) = 4 /\ s1[1] = c1
  BY <1>1 DEF Word, Cell
<1>3. PICK s2 : s2 = s1 \o Word(c2) /\ Adds(s1, s2, c2)
  BY <1>2, WordAdded
<1>4. s2 \in Seq(Cell) /\ Len(s2) = 8 /\ s2[5] = c2 /\ s2[1] = s1[1]
  BY <1>2, <1>3 DEF Adds
<1>5. PICK s3 : s3 = s2 \o Word(c3) /\ Adds(s2, s3, c3)
  BY <1>4, WordAdded
<1>6. s3 \in Seq(Cell) /\ Len(s3) = 12 /\ s3[9] = c3 /\ s3[5] = s2[5] /\ s3[1] = s2[1]
  BY <1>4, <1>5, SMTT(60) DEF Adds
<1>7. s3 = Word(c1) \o Word(c2) \o Word(c3)
  BY <1>1, <1>3, <1>5
<1>8. QED
  BY <1>2, <1>4, <1>6, <1>7 DEF InfoOn

(* It holds after the sections are collected and the info is written. *)
LEMMA CollectInv ==
  ASSUME IInv, Collect
  PROVE  IInv'
<1>1. Linked(order') /\ order' \in Seq(SectionHeader) /\ Len(order') \in Nat
  BY DEF IInv, Collect, Linked
<1>2. /\ <<"tag", "UnBI">> \in Cell /\ <<"number", 12>> \in Cell /\ <<"number", Entry>> \in Cell
  BY DEF Cell
<1>3. image' \in Seq(Cell) /\ Len(image') = 12 /\ Info(image')
  <2>1. PICK c1 \in Cell, c2 \in Cell, c3 \in Cell :
           c1 = <<"tag", "UnBI">> /\ c2 = <<"number", 12>> /\ c3 = <<"number", Entry>>
    BY <1>2
  <2>2. image' = Word(c1) \o Word(c2) \o Word(c3)
    BY <2>1 DEF Collect, Tag, Number, InfoSize
  <2>3. PICK new : InfoOn(new, c1, c2, c3)
    BY InfoAdded
  <2>4. new \in Seq(Cell) /\ Len(new) = 12 /\ new[1] = c1 /\ new[5] = c2 /\ new[9] = c3
    BY <2>3 DEF InfoOn
  <2>5. image' = new /\ Info(new)
    <3>1. image' = new
      BY <2>2, <2>3 DEF InfoOn
    <3>2. Info(new)
      BY <2>1, <2>4 DEF Info
    <3>3. QED
      BY <3>1, <3>2
  <2>6. QED
    BY <2>4, <2>5
<1>4. PICK q : q = [m \in 1 .. 1 |-> 12]
  OBVIOUS
<1>5. i' = 1 /\ z' = NoStream /\ pc' = "section" /\ UNCHANGED loader
  BY DEF IInv, Collect
<1>6. Spans(q, image', order', 1) /\ q[1] = 12
  BY <1>3, <1>4 DEF Spans, Places
<1>7. QED
  BY <1>1, <1>3, <1>5, <1>6, WritingState DEF Collect, Writing

(* It holds after the end mark. *)
LEMMA EndImageInv ==
  ASSUME IInv, EndImage
  PROVE  IInv'
<1>1. pc \in Writing
  BY DEF EndImage, Writing
<1>2. PICK pos : Parts(pos) /\ Spans(pos, image, order, i) /\ pos[i] \in Nat
  BY <1>1, AtSection
<1>3. Linked(order)
  BY <1>1 DEF IInv, Writing
<1>4. i = Len(order) + 1
  <2>1. i <= Len(order) => order[i].size > 0
    BY <1>1, <1>3, AtSection DEF Linked
  <2>2. i <= Len(order) => order[i].size = 0
    BY DEF EndImage, AtEnd
  <2>3. i \in Nat /\ Len(order) \in Nat /\ i \in 1 .. Len(order) + 1
    BY <1>1, AtSection
  <2>4. QED
    BY <2>1, <2>2, <2>3
<1>5. <<"tag", "end">> \in Cell /\ image' = image \o Word(<<"tag", "end">>)
  BY DEF Cell, EndImage, Tag
<1>6. Adds(image, image', <<"tag", "end">>)
  BY <1>1, <1>5, AtSection, WordAdded
<1>7. Len(image) = pos[i] /\ z = NoStream /\ Ready
  BY <1>2 DEF Parts, EndImage, Writing
<1>8. Agree(image, image', pos[i])
  BY <1>2, <1>6, <1>7 DEF Adds, Agree
<1>9. Spans(pos, image', order, i)
  <2>1. pos[i] <= pos[i]
    BY <1>2
  <2>2. QED
    BY <1>1, <1>2, <1>8, <2>1, AtSection, SpansStay
<1>10. Whole(pos, image', order)
  BY <1>4, <1>6, <1>7, <1>9 DEF Whole, Adds
<1>11. Parts(pos)'
  <2>1. pc' = "boot" /\ order' = order /\ i' = i /\ z' = z /\ Ready'
    BY <1>7 DEF EndImage, Ready, loader
  <2>2. QED
    BY <1>4, <1>7, <1>10, <2>1 DEF Parts, Writing, Booting
<1>12. image' \in Seq(Cell)
  BY <1>6 DEF Adds
<1>13. QED
  BY <1>1, <1>3, <1>11, <1>12, AtSection DEF IInv, EndImage, Booting, loader

(* It holds after the span of a zeroed section. *)
LEMMA FillSpanInv ==
  ASSUME IInv, FillSpan
  PROVE  IInv'
<1>1. pc \in Writing
  BY DEF FillSpan, Writing
<1>2. PICK pos : Parts(pos) /\ Spans(pos, image, order, i) /\ pos[i] \in Nat
  BY <1>1, AtSection
<1>3. Linked(order) /\ order \in Seq(SectionHeader) /\ image \in Seq(Cell)
  BY <1>1, AtSection DEF IInv, Writing
<1>4. i \in 1 .. Len(order) /\ order[i] \in SectionHeader
  BY <1>1, AtSection DEF FillSpan, AtEnd
<1>5. PICK s \in SectionHeader : s = order[i]
  BY <1>4
<1>6. s.addr \in Nat /\ s.size \in Nat /\ s.type = "nobits" /\ SpanSize(s) = 20
  BY <1>5, SectionFields DEF FillSpan, SpanSize
<1>7. PICK c1 \in Cell, c2 \in Cell, c3 \in Cell, c4 \in Cell, c5 \in Cell :
         /\ c1 = <<"tag", "fspn">> /\ c2 = <<"number", 20>> /\ c3 = <<"number", s.addr>>
         /\ c4 = <<"number", s.size>> /\ c5 = <<"number", 0>>
  BY <1>6 DEF Cell
<1>8. image' = image \o Word(c1) \o Word(c2) \o Word(c3) \o Word(c4) \o Word(c5)
  BY <1>5, <1>7 DEF FillSpan, Tag, Number, SpanHeader
<1>9. PICK new : HeaderOn(image, new, c1, c2, c3, c4, c5)
  BY <1>3, HeaderAdded
<1>10. /\ new = image' /\ new \in Seq(Cell)
       /\ Len(new) = Len(image) + 20
       /\ \A k \in 1 .. Len(image) : new[k] = image[k]
       /\ new[Len(image) + 1] = c1 /\ new[Len(image) + 5] = c2 /\ new[Len(image) + 9] = c3
       /\ new[Len(image) + 13] = c4 /\ new[Len(image) + 17] = c5
  BY <1>8, <1>9 DEF HeaderOn
<1>11. PICK a \in Nat : a = pos[i]
  BY <1>2
<1>12. Len(image) = a /\ z = NoStream
  BY <1>2, <1>11 DEF Parts, FillSpan
<1>13. Written(new, s, i, a)
  <2>1. /\ Len(new) >= a + 20 /\ new[a + 1] = c1 /\ new[a + 5] = c2
        /\ new[a + 9] = c3 /\ new[a + 13] = c4 /\ new[a + 17] = c5
    BY <1>10, <1>12
  <2>2. QED
    BY <1>6, <1>7, <2>1 DEF Written, Headed
<1>14. Agree(image, new, a)
  BY <1>3, <1>10, <1>12 DEF Agree
<1>15. Spans(pos, new, order, i)
  <2>1. pos[i] <= a
    BY <1>11
  <2>2. i \in 1 .. Len(order) + 1
    BY <1>1, AtSection
  <2>3. QED
    BY <1>2, <1>3, <1>14, <2>1, <2>2, SpansStay
<1>16. PICK q : Spans(q, new, order, i + 1) /\ q[i + 1] = pos[i] + SpanSize(order[i])
  BY <1>3, <1>4, <1>5, <1>11, <1>13, <1>15, SpanDone
<1>17. Len(new) = q[i + 1]
  BY <1>5, <1>6, <1>10, <1>11, <1>12, <1>16
<1>18. i' = i + 1 /\ order' = order /\ pc' = "section" /\ z' = NoStream /\ UNCHANGED loader
  BY <1>12 DEF FillSpan
<1>19. i + 1 \in 1 .. Len(order) + 1
  BY <1>3, <1>4
<1>20. QED
  BY <1>1, <1>3, <1>10, <1>16, <1>17, <1>18, <1>19, WritingState DEF Writing

(* It holds after the header of a compressed span. *)
LEMMA BeginSpanInv ==
  ASSUME IInv, BeginSpan
  PROVE  IInv'
<1>1. pc \in Writing
  BY DEF BeginSpan, Writing
<1>2. PICK pos : Parts(pos) /\ Spans(pos, image, order, i) /\ pos[i] \in Nat
  BY <1>1, AtSection
<1>3. Linked(order) /\ order \in Seq(SectionHeader) /\ image \in Seq(Cell)
  BY <1>1, AtSection DEF IInv, Writing
<1>4. i \in 1 .. Len(order) /\ order[i] \in SectionHeader
  BY <1>1, AtSection DEF BeginSpan, AtEnd
<1>5. PICK s \in SectionHeader : s = order[i]
  BY <1>4
<1>6. s.addr \in Nat /\ s.size \in Nat /\ s.zsize \in Nat /\ s.type = "progbits"
  BY <1>5, SectionFields DEF BeginSpan
<1>7. PICK c1 \in Cell, c2 \in Cell, c3 \in Cell, c4 \in Cell, c5 \in Cell :
         /\ c1 = <<"tag", "zspn">> /\ c2 = <<"number", 0>> /\ c3 = <<"number", 20>>
         /\ c4 = <<"number", s.addr>> /\ c5 = <<"number", s.size>>
  BY <1>6 DEF Cell
<1>8. image' = image \o Word(c1) \o Word(c2) \o Word(c3) \o Word(c4) \o Word(c5)
  BY <1>5, <1>7 DEF BeginSpan, Tag, Number, SpanHeader
<1>9. PICK new : HeaderOn(image, new, c1, c2, c3, c4, c5)
  BY <1>3, HeaderAdded
<1>10. /\ new = image' /\ new \in Seq(Cell)
       /\ Len(new) = Len(image) + 20
       /\ \A k \in 1 .. Len(image) : new[k] = image[k]
       /\ new[Len(image) + 1] = c1 /\ new[Len(image) + 5] = c2 /\ new[Len(image) + 9] = c3
       /\ new[Len(image) + 13] = c4 /\ new[Len(image) + 17] = c5
  BY <1>8, <1>9 DEF HeaderOn
<1>11. PICK a \in Nat : a = pos[i]
  BY <1>2
<1>12. Len(image) = a
  BY <1>2, <1>11 DEF Parts, BeginSpan
<1>13. Headed(new, s, a)
  <2>1. Len(new) >= a + 20 /\ new[a + 1] = c1 /\ new[a + 9] = c3 /\ new[a + 13] = c4 /\ new[a + 17] = c5
    BY <1>10, <1>12
  <2>2. QED
    BY <1>6, <1>7, <2>1 DEF Headed
<1>14. Agree(image, new, a)
  BY <1>3, <1>10, <1>12 DEF Agree
<1>15. i \in 1 .. Len(order) + 1
  BY <1>1, AtSection
<1>16. Spans(pos, new, order, i)
  <2>1. pos[i] <= a
    BY <1>11
  <2>2. QED
    BY <1>2, <1>3, <1>14, <1>15, <2>1, SpansStay
<1>17. z' = [flush |-> "no", left |-> s.size, avail_in |-> 0,
             avail_out |-> OUTPUT_BUFFER_SIZE, total_out |-> 0]
  BY <1>5 DEF BeginSpan
<1>18. Counts(z', s) /\ Out(z') = 0
  BY <1>6, <1>17, BufferAssumption DEF Counts, ZStream, Out
<1>19. Deflating(new, order, i, z', a)
  <2>1. Len(new) = a + 20
    BY <1>10, <1>12
  <2>2. Len(new) = a + 20 + Out(z') /\ Streamed(new, i, a, Out(z'))
    BY <1>18, <2>1 DEF Streamed
  <2>3. i <= Len(order)
    BY <1>4
  <2>4. QED
    BY <1>5, <1>6, <1>13, <1>18, <2>2, <2>3 DEF Deflating
<1>20. i' = i /\ order' = order /\ pc' = "deflate" /\ size_at' = a + 4 /\ UNCHANGED loader
  BY <1>12 DEF BeginSpan
<1>21. QED
  BY <1>1, <1>3, <1>10, <1>11, <1>15, <1>16, <1>19, <1>20, WritingState DEF Writing

(* It holds after a turn of the loop around deflate. *)
LEMMA DeflateInv ==
  ASSUME IInv, Deflate
  PROVE  IInv'
<1> USE BufferAssumption
<1>1. pc \in Writing
  BY DEF Deflate, Writing
<1>2. PICK pos : Parts(pos) /\ Spans(pos, image, order, i) /\ pos[i] \in Nat
  BY <1>1, AtSection
<1>3. Linked(order) /\ order \in Seq(SectionHeader) /\ image \in Seq(Cell)
  BY <1>1, AtSection DEF IInv, Writing
<1>4. PICK a \in Nat : a = pos[i]
  BY <1>2
<1>5. Deflating(image, order, i, z, a) /\ size_at = a + 4
  BY <1>2, <1>4 DEF Parts, Deflate, Writing
<1>6. i \in 1 .. Len(order) /\ order[i] \in SectionHeader /\ i \in Nat
  BY <1>1, <1>5, AtSection DEF Deflating
<1>7. PICK s \in SectionHeader : s = order[i]
  BY <1>6
<1>8. Counts(z, s)
  BY <1>5, <1>7 DEF Deflating
<1>9. z.avail_out \in Nat /\ z.total_out \in Nat /\ Out(z) \in Nat /\ Out(z) <= z.total_out
  BY <1>8 DEF Counts, ZStream, Out
<1>10. PICK f : f = FlushFull(z)
  OBVIOUS
<1>11. /\ Counts(f, s) /\ Out(f) \in Nat /\ Agree(image, image', Len(image))
       /\ Len(image') = a + 20 + Out(f) /\ Streamed(image', i, a, Out(f))
  <2>1. CASE z.avail_out = 0
    <3>1. PICK n \in Nat, last \in Nat : n = Out(z) /\ last = z.total_out
      BY <1>9
    <3>2. n <= last /\ Len(image) = a + 20 + n /\ Streamed(image, i, a, n)
      BY <1>5, <1>9, <3>1 DEF Deflating
    <3>3. PICK new : /\ new = image \o Stream(i, n, last - 1)
                     /\ Agree(image, new, Len(image))
                     /\ Len(new) = a + 20 + last
                     /\ Streamed(new, i, a, last)
      BY <1>3, <1>6, <3>2, BufferAdded
    <3>4. image' = new
      BY <2>1, <3>1, <3>3 DEF Deflate, Buffered, Out
    <3>5. f = [flush |-> z.flush, left |-> z.left, avail_in |-> z.avail_in,
               avail_out |-> OUTPUT_BUFFER_SIZE, total_out |-> z.total_out]
      BY <1>8, <1>10, <2>1 DEF FlushFull, Counts, ZStream
    <3>6. Counts(f, s) /\ Out(f) = last
      BY <1>8, <1>9, <3>1, <3>5 DEF Counts, ZStream, Out
    <3>7. QED
      BY <3>3, <3>4, <3>6
  <2>2. CASE z.avail_out # 0
    <3>1. f = z /\ image' = image
      BY <1>10, <2>2 DEF FlushFull, Deflate
    <3>2. Agree(image, image, Len(image))
      BY <1>3 DEF Agree
    <3>3. QED
      BY <1>5, <1>8, <1>9, <3>1, <3>2 DEF Deflating
  <2>3. QED
    BY <2>1, <2>2
<1>12. PICK g : g = FillInput(f)
  OBVIOUS
<1>13. Counts(g, s) /\ Out(g) = Out(f)
  BY <1>11, <1>12, FillCounts
<1>14. PICK r \in deflate(g, s.zsize) :
          /\ z' = r[2]
          /\ pc' = CASE r[1] = "ok" -> "deflate"
                     [] r[1] = "stream_end" -> "span_end"
                     [] OTHER -> "buffer_error"
  BY <1>7, <1>10, <1>12 DEF Deflate
<1>15. /\ Counts(z', s) /\ Out(z') = Out(f)
       /\ pc' = "span_end" => z'.total_out = s.zsize
       /\ pc' \in {"deflate", "span_end", "buffer_error"}
  <2>1. /\ Counts(r[2], s) /\ Out(r[2]) = Out(g)
        /\ r[1] = "stream_end" => r[2].total_out = s.zsize
        /\ r[1] \in {"ok", "stream_end", "buffer_error"}
    BY <1>13, DeflateCounts
  <2>2. /\ pc' = "span_end" => r[1] = "stream_end"
        /\ pc' \in {"deflate", "span_end", "buffer_error"}
    BY <1>14, <2>1
  <2>3. QED
    BY <1>13, <1>14, <2>1, <2>2
<1>16. pos[i] <= Len(image) /\ a + 20 <= Len(image) /\ image' \in Seq(Cell)
  <2>1. Len(image) = a + 20 + Out(z)
    BY <1>5 DEF Deflating
  <2>2. image' \in Seq(Cell)
    BY <1>11 DEF Agree
  <2>3. QED
    BY <1>4, <1>9, <2>1, <2>2
<1>17. i \in 1 .. Len(order) + 1
  BY <1>1, AtSection
<1>18. Spans(pos, image', order, i)
  BY <1>2, <1>3, <1>11, <1>16, <1>17, SpansStay
<1>19. Deflating(image', order, i, z', a)
  <2>1. Headed(image', s, a)
    BY <1>5, <1>7, <1>11, <1>16, HeadedStays DEF Deflating
  <2>2. QED
    BY <1>5, <1>7, <1>11, <1>15, <2>1 DEF Deflating
<1>20. i' = i /\ order' = order /\ size_at' = a + 4 /\ UNCHANGED loader
  BY <1>5 DEF Deflate
<1>21. QED
  BY <1>1, <1>3, <1>4, <1>7, <1>15, <1>16, <1>17, <1>18, <1>19, <1>20, WritingState DEF Writing

(* It holds after the size of a compressed span is filled in. *)
LEMMA EndSpanInv ==
  ASSUME IInv, EndSpan
  PROVE  IInv'
<1> USE BufferAssumption
<1>1. pc \in Writing
  BY DEF EndSpan, Writing
<1>2. PICK pos : Parts(pos) /\ Spans(pos, image, order, i) /\ pos[i] \in Nat
  BY <1>1, AtSection
<1>3. Linked(order) /\ order \in Seq(SectionHeader) /\ image \in Seq(Cell)
  BY <1>1, AtSection DEF IInv, Writing
<1>4. PICK a \in Nat : a = pos[i]
  BY <1>2
<1>5. Deflating(image, order, i, z, a) /\ size_at = a + 4 /\ z.total_out = order[i].zsize
  BY <1>2, <1>4 DEF Parts, EndSpan, Writing
<1>6. i \in 1 .. Len(order) /\ order[i] \in SectionHeader /\ i \in Nat
  BY <1>1, <1>5, AtSection DEF Deflating
<1>7. PICK s \in SectionHeader : s = order[i]
  BY <1>6
<1>8. Counts(z, s) /\ s.type = "progbits" /\ s.zsize \in Nat /\ z.total_out = s.zsize
  BY <1>5, <1>7, SectionFields DEF Deflating
<1>9. z.avail_out \in Nat /\ Out(z) \in Nat /\ Out(z) <= s.zsize /\ Len(image) = a + 20 + Out(z)
  BY <1>5, <1>8 DEF Counts, ZStream, Out, Deflating
<1>10. PICK out : out = IF z.avail_out # OUTPUT_BUFFER_SIZE THEN image \o Buffered(z) ELSE image
  OBVIOUS
<1>11. /\ Agree(image, out, Len(image))
       /\ Len(out) = a + 20 + s.zsize /\ Streamed(out, i, a, s.zsize)
  <2>1. CASE z.avail_out # OUTPUT_BUFFER_SIZE
    <3>1. PICK n \in Nat, last \in Nat : n = Out(z) /\ last = z.total_out
      BY <1>8, <1>9
    <3>2. n <= last /\ Len(image) = a + 20 + n /\ Streamed(image, i, a, n)
      BY <1>5, <1>8, <1>9, <3>1 DEF Deflating
    <3>3. PICK new : /\ new = image \o Stream(i, n, last - 1)
                     /\ Agree(image, new, Len(image))
                     /\ Len(new) = a + 20 + last
                     /\ Streamed(new, i, a, last)
      BY <1>3, <1>6, <3>2, BufferAdded
    <3>4. out = new
      BY <1>10, <2>1, <3>1, <3>3 DEF Buffered, Out
    <3>5. last = s.zsize
      BY <1>8, <3>1
    <3>6. QED
      BY <3>3, <3>4, <3>5
  <2>2. CASE z.avail_out = OUTPUT_BUFFER_SIZE
    <3>1. out = image /\ Out(z) = s.zsize
      BY <1>8, <1>10, <2>2 DEF Out
    <3>2. Agree(image, image, Len(image))
      BY <1>3 DEF Agree
    <3>3. QED
      BY <1>5, <1>9, <3>1, <3>2 DEF Deflating
  <2>3. QED
    BY <2>1, <2>2
<1>12. PICK c \in Cell : c = <<"number", s.zsize + 20>>
  <2>1. PICK n \in Nat : n = s.zsize + 20
    BY <1>8
  <2>2. <<"number", n>> \in Cell
    BY DEF Cell
  <2>3. QED
    BY <2>1, <2>2
<1>13. image' = [out EXCEPT ![a + 5] = c]
  <2>1. image' = [out EXCEPT ![size_at + 1] = <<"number", z.total_out + SpanHeader>>]
    BY <1>10 DEF EndSpan
  <2>2. size_at + 1 = a + 5 /\ <<"number", z.total_out + SpanHeader>> = c
    BY <1>5, <1>8, <1>12 DEF SpanHeader
  <2>3. QED
    BY <2>1, <2>2
<1>14. out \in Seq(Cell) /\ Len(out) \in Nat
  BY <1>11 DEF Agree
<1>15. PICK new : new = image'
  OBVIOUS
<1>16. /\ new \in Seq(Cell) /\ Len(new) = a + 20 + s.zsize /\ new[a + 5] = c
       /\ \A k \in 1 .. a + 20 + s.zsize : k # a + 5 => new[k] = out[k]
  BY <1>8, <1>11, <1>13, <1>14, <1>15
<1>17. Spans(pos, new, order, i)
  <2>1. Agree(image, new, a)
    <3>1. ASSUME NEW k \in 1 .. a PROVE new[k] = image[k]
      <4>1. k \in 1 .. a + 20 + s.zsize /\ k # a + 5 /\ k \in 1 .. Len(image)
        BY <1>8, <1>9
      <4>2. QED
        BY <1>11, <1>16, <4>1 DEF Agree
    <3>2. a <= Len(image) /\ a <= Len(new)
      BY <1>8, <1>9, <1>16
    <3>3. QED
      BY <1>3, <1>16, <3>1, <3>2 DEF Agree
  <2>2. i \in 1 .. Len(order) + 1 /\ pos[i] <= a
    BY <1>1, <1>4, AtSection
  <2>3. QED
    BY <1>2, <1>3, <2>1, <2>2, SpansStay
<1>18. Headed(new, s, a)
  <2>1. Headed(image, s, a)
    BY <1>5, <1>7 DEF Deflating
  <2>2. Headed(out, s, a)
    <3>1. a + 20 <= Len(image)
      BY <1>9
    <3>2. QED
      BY <1>11, <2>1, <3>1, HeadedStays
  <2>3. \A k \in {1, 9, 13, 17} : new[a + k] = out[a + k]
    <3>1. \A k \in {1, 9, 13, 17} : a + k \in 1 .. a + 20 + s.zsize /\ a + k # a + 5
      BY <1>8
    <3>2. QED
      BY <1>16, <3>1
  <2>4. new[a + 1] = out[a + 1] /\ new[a + 9] = out[a + 9]
        /\ new[a + 13] = out[a + 13] /\ new[a + 17] = out[a + 17]
    BY <2>3
  <2>5. Len(new) >= a + 20
    BY <1>8, <1>16
  <2>6. QED
    BY <1>8, <2>2, <2>4, <2>5 DEF Headed
<1>19. Streamed(new, i, a, s.zsize)
  <2>1. ASSUME NEW k \in 0 .. s.zsize - 1 PROVE new[a + 21 + k] = <<"z", i, k>>
    <3>1. a + 21 + k \in 1 .. a + 20 + s.zsize /\ a + 21 + k # a + 5
      BY <1>8
    <3>2. QED
      BY <1>11, <1>16, <3>1 DEF Streamed
  <2>2. Len(new) >= a + 20 + s.zsize
    BY <1>8, <1>16
  <2>3. QED
    BY <2>1, <2>2 DEF Streamed
<1>20. SpanSize(s) = 20 + s.zsize /\ new[a + 5] = <<"number", SpanSize(s)>>
  <2>1. s.zsize + 20 = 20 + s.zsize
    BY <1>8
  <2>2. QED
    BY <1>8, <1>12, <1>16, <2>1 DEF SpanSize
<1>21. Written(new, s, i, a)
  BY <1>18, <1>19, <1>20 DEF Written
<1>22. PICK q : Spans(q, new, order, i + 1) /\ q[i + 1] = pos[i] + SpanSize(order[i])
  BY <1>3, <1>4, <1>6, <1>7, <1>17, <1>21, SpanDone
<1>23. Len(new) = q[i + 1]
  <2>1. q[i + 1] = a + (20 + s.zsize)
    BY <1>4, <1>7, <1>20, <1>22
  <2>2. QED
    BY <1>8, <1>16, <2>1, SMTT(60)
<1>24. i' = i + 1 /\ order' = order /\ pc' = "section" /\ z' = NoStream /\ UNCHANGED loader
  BY DEF EndSpan
<1>25. i + 1 \in 1 .. Len(order) + 1
  BY <1>3, <1>6
<1>26. QED
  BY <1>1, <1>3, <1>15, <1>16, <1>22, <1>23, <1>24, <1>25, WritingState DEF Writing
-----------------------------------------------------------------------------
(* The boot code's state.  The image is complete, and everything but pc,   *)
(* ebp, frame and ram stays.                                               *)
LEMMA AtBoot ==
  ASSUME IInv, pc \in Booting
  PROVE  /\ Linked(order) /\ order \in Seq(SectionHeader) /\ Len(order) \in Nat
         /\ image \in Seq(Cell)
         /\ \E pos : Parts(pos) /\ Whole(pos, image, order)
         /\ i = Len(order) + 1 /\ z = NoStream
<1>1. Linked(order) /\ image \in Seq(Cell)
  BY DEF IInv, Booting
<1>2. PICK pos : Parts(pos)
  BY DEF IInv, Booting
<1>3. Whole(pos, image, order) /\ i = Len(order) + 1 /\ z = NoStream
  BY <1>2 DEF Parts
<1>4. QED
  BY <1>1, <1>2, <1>3 DEF Linked

(* What an action of the boot code has to establish. *)
LEMMA BootingState ==
  ASSUME IInv, pc \in Booting, pc' \in Booting, UNCHANGED writer,
         frame' \in Int, boot_top - InflateMemory <= frame', frame' <= stack_top,
         NEW pos, Parts(pos), Whole(pos, image, order),
         pc' = "boot" => Ready',
         pc' = "process" => boot_top <= frame' /\ \E j \in 0 .. Len(order) : Reading(pos, j)',
         pc' = "jumped" => Loaded(ram', order, Len(order))
  PROVE  IInv'
<1>1. order' = order /\ image' = image /\ i' = i /\ z' = z
  BY DEF writer
<1>2. Parts(pos)'
  BY <1>1, AtBoot DEF Parts, Writing, Booting
<1>3. Linked(order') /\ i' \in 1 .. Len(order') + 1 /\ image' \in Seq(Cell)
  BY <1>1, AtBoot
<1>4. QED
  BY <1>2, <1>3 DEF IInv, Writing, Booting

(* Words of the image, as the boot code reads them. *)
LEMMA AtWord ==
  ASSUME image \in Seq(Cell), NEW a \in Nat, a < Len(image)
  PROVE  At(a) = image[a + 1]
BY DEF At

(* The words of a header at a. *)
LEMMA AtWords ==
  ASSUME image \in Seq(Cell), NEW a \in Nat, a + 20 <= Len(image)
  PROVE  /\ At(a) = image[a + 1] /\ At(a + 4) = image[a + 5] /\ At(a + 8) = image[a + 9]
         /\ At(a + 12) = image[a + 13] /\ At(a + 16) = image[a + 17]
<1>1. /\ a \in 0 .. Len(image) - 1 /\ a + 4 \in 0 .. Len(image) - 1 /\ a + 8 \in 0 .. Len(image) - 1
      /\ a + 12 \in 0 .. Len(image) - 1 /\ a + 16 \in 0 .. Len(image) - 1
  OBVIOUS
<1>2. /\ (a + 4) + 1 = a + 5 /\ (a + 8) + 1 = a + 9
      /\ (a + 12) + 1 = a + 13 /\ (a + 16) + 1 = a + 17
  OBVIOUS
<1>3. QED
  BY <1>1, <1>2 DEF At

(* It holds after the magic is checked, which is always right. *)
LEMMA CheckMagicInv ==
  ASSUME IInv, CheckMagic
  PROVE  IInv'
<1>1. pc \in Booting
  BY DEF CheckMagic, Booting
<1>2. PICK pos : Parts(pos) /\ Whole(pos, image, order)
  BY <1>1, AtBoot
<1>3. Ready /\ frame \in Int /\ boot_top <= frame /\ boot_top - InflateMemory <= frame /\ frame <= stack_top
  BY <1>2, HeapAssumption DEF Parts, CheckMagic, Ready
<1>4. IsTag(0, "UnBI")
  <2>1. image \in Seq(Cell) /\ Len(image) >= 12 /\ image[1] = <<"tag", "UnBI">>
    BY <1>1, <1>2, AtBoot DEF Whole, Spans, Info
  <2>2. 0 \in 0 .. Len(image) - 1 /\ 0 + 1 = 1
    BY <2>1
  <2>3. QED
    BY <2>1, <2>2 DEF IsTag, At
<1>5. pc' = "process" /\ UNCHANGED <<writer, loader>>
  BY <1>4 DEF CheckMagic
<1>6. Reading(pos, 0)'
  BY <1>3, <1>5 DEF Reading, Ready, Loaded, loader
<1>7. 0 \in 0 .. Len(order) /\ frame' = frame
  BY <1>1, <1>5, AtBoot DEF loader
<1>8. QED
  BY <1>1, <1>2, <1>3, <1>5, <1>6, <1>7, BootingState DEF Booting

(* The next section: from the size word of the last one, or of the info    *)
(* section, the boot code comes to the place of the next.                  *)
LEMMA NextPlace ==
  ASSUME IInv, pc = "process"
  PROVE  \E pos, j : /\ j \in 0 .. Len(order)
                     /\ Parts(pos) /\ Whole(pos, image, order) /\ Reading(pos, j)
                     /\ NextSection = pos[j + 1] /\ pos[j + 1] \in Nat
                     /\ j < Len(order) => Written(image, order[j + 1], j + 1, pos[j + 1])
                     /\ j = Len(order) => IsTag(pos[j + 1], "end")
<1>1. pc \in Booting
  BY DEF Booting
<1>2. PICK pos : Parts(pos) /\ Whole(pos, image, order)
  BY <1>1, AtBoot
<1>3. PICK j \in 0 .. Len(order) : Reading(pos, j)
  BY <1>2 DEF Parts
<1>4. order \in Seq(SectionHeader) /\ Len(order) \in Nat /\ image \in Seq(Cell) /\ j \in Nat /\ j <= Len(order)
  BY <1>1, <1>3, AtBoot
<1>5. Places(pos, order, Len(order) + 1) /\ Info(image)
      /\ \A m \in 1 .. Len(order) : Written(image, order[m], m, pos[m])
  <2>1. (Len(order) + 1) - 1 = Len(order)
    BY <1>4
  <2>2. QED
    BY <1>2, <2>1 DEF Whole, Spans
<1>6. \A m \in 1 .. Len(order) + 1 : pos[m] \in Nat
  BY <1>5 DEF Places
<1>7. NextSection = pos[j + 1]
  <2>1. CASE j = 0
    <3>1. ebp = 0 /\ At(4) = image[5] /\ image[5] = <<"number", 12>>
      <4>1. 4 \in 0 .. Len(image) - 1 /\ 4 + 1 = 5
        BY <1>4, <1>5 DEF Info
      <4>2. At(4) = image[5]
        BY <4>1 DEF At
      <4>3. QED
        BY <1>3, <1>5, <2>1, <4>2 DEF Reading, Info
    <3>2. pos[1] = 12
      BY <1>5 DEF Places
    <3>3. QED
      BY <2>1, <3>1, <3>2 DEF NextSection, Num
  <2>2. CASE j # 0
    <3>1. j \in 1 .. Len(order) /\ ebp = pos[j] /\ pos[j] \in Nat
      BY <1>3, <1>4, <1>6, <2>2 DEF Reading
    <3>2. Written(image, order[j], j, pos[j])
      BY <1>5, <3>1
    <3>3. Len(image) >= pos[j] + 20 /\ image[pos[j] + 5] = <<"number", SpanSize(order[j])>>
      BY <3>2 DEF Written, Headed
    <3>4. At(pos[j] + 4) = image[pos[j] + 5]
      <4>1. PICK b \in Nat : b = pos[j] + 4
        BY <3>1
      <4>2. b < Len(image) /\ b + 1 = pos[j] + 5
        BY <1>4, <3>1, <3>3, <4>1
      <4>3. QED
        BY <1>4, <4>1, <4>2, AtWord
    <3>5. Num(ebp + 4) = SpanSize(order[j])
      BY <3>1, <3>3, <3>4 DEF Num
    <3>6. pos[j + 1] = pos[j] + SpanSize(order[j])
      BY <1>4, <1>5, <3>1 DEF Places
    <3>7. QED
      BY <3>1, <3>5, <3>6 DEF NextSection
  <2>3. QED
    BY <2>1, <2>2
<1>8. j < Len(order) => Written(image, order[j + 1], j + 1, pos[j + 1])
  BY <1>4, <1>5
<1>9. j + 1 \in 1 .. Len(order) + 1 /\ pos[j + 1] \in Nat
  BY <1>4, <1>6
<1>10. j = Len(order) => IsTag(pos[j + 1], "end")
  <2>1. ASSUME j = Len(order) PROVE At(pos[j + 1]) = <<"tag", "end">>
    <3>1. PICK b \in Nat : b = pos[j + 1]
      BY <1>9
    <3>2. b < Len(image) /\ image[b + 1] = <<"tag", "end">>
      BY <1>2, <2>1, <3>1 DEF Whole
    <3>3. QED
      BY <1>4, <3>1, <3>2, AtWord
  <2>2. QED
    BY <2>1 DEF IsTag
<1>11. QED
  BY <1>2, <1>3, <1>7, <1>8, <1>9, <1>10

(* The words of a span at a. *)
LEMMA SpanWords ==
  ASSUME image \in Seq(Cell), NEW s \in SectionHeader, NEW m, NEW a \in Nat,
         s.type \in {"progbits", "nobits"}, Written(image, s, m, a)
  PROVE  /\ s.type = "nobits" => /\ At(a) = <<"tag", "fspn">> /\ Num(a + 8) = s.addr
                                 /\ Num(a + 12) = s.size /\ Num(a + 16) = 0
         /\ s.type = "progbits" => /\ At(a) = <<"tag", "zspn">> /\ Num(a + 4) = 20 + s.zsize
                                   /\ Num(a + 8) = 20 /\ Num(a + 12) = s.addr
                                   /\ Num(a + 16) = s.size /\ At(a + 20) = <<"z", m, 0>>
<1>1. Len(image) \in Nat /\ Len(image) >= a + 20
  BY DEF Written, Headed
<1>2. /\ At(a) = image[a + 1] /\ At(a + 4) = image[a + 5] /\ At(a + 8) = image[a + 9]
      /\ At(a + 12) = image[a + 13] /\ At(a + 16) = image[a + 17]
  BY <1>1, AtWords
<1>3. CASE s.type = "nobits"
  BY <1>2, <1>3 DEF Written, Headed, Num
<1>4. CASE s.type = "progbits"
  <2>1. s.zsize \in Nat /\ s.zsize > 0 /\ SpanSize(s) = 20 + s.zsize
    BY <1>4, SectionFields DEF SpanSize
  <2>2. Len(image) >= a + 20 + s.zsize /\ image[a + 21] = <<"z", m, 0>>
    <3>1. 0 \in 0 .. s.zsize - 1 /\ a + 21 + 0 = a + 21
      BY <2>1
    <3>2. QED
      BY <1>4, <3>1 DEF Written, Streamed
  <2>3. At(a + 20) = image[a + 21]
    <3>1. PICK b \in Nat : b = a + 20
      OBVIOUS
    <3>2. b < Len(image) /\ b + 1 = a + 21
      BY <1>1, <2>1, <2>2, <3>1
    <3>3. QED
      BY <3>1, <3>2, AtWord
  <2>4. /\ image[a + 1] = <<"tag", "zspn">> /\ image[a + 5] = <<"number", 20 + s.zsize>>
        /\ image[a + 9] = <<"number", 20>> /\ image[a + 13] = <<"number", s.addr>>
        /\ image[a + 17] = <<"number", s.size>>
    BY <1>4, <2>1 DEF Written, Headed
  <2>5. QED
    BY <1>2, <1>4, <2>2, <2>3, <2>4, SMTT(60) DEF Num
<1>5. QED
  BY <1>3, <1>4

(* The fill covers the section, although it does not stop at its end. *)
LEMMA FilledCovers ==
  ASSUME NEW n \in Nat, n >= 4
  PROVE  Filled(n) \in Nat /\ n <= Filled(n)
BY DEF Filled

(* One more section is in memory; those below it are as they were. *)
LEMMA SectionLoaded ==
  ASSUME Linked(order), NEW j \in Nat, j < Len(order), Loaded(ram, order, j), NEW r,
         \A n \in 1 .. j : \A k \in 0 .. order[n].size - 1 :
           r[order[n].addr + k] = ram[order[n].addr + k],
         \A k \in 0 .. order[j + 1].size - 1 :
           r[order[j + 1].addr + k] = IF order[j + 1].type = "nobits" THEN <<"fill", 0>>
                                      ELSE <<"byte", j + 1, k>>
  PROVE  Loaded(r, order, j + 1)
<1>1. \A n \in 1 .. j + 1 : n \in 1 .. j \/ n = j + 1
  OBVIOUS
<1>2. QED
  BY <1>1 DEF Loaded

(* The addresses of the sections below the one that is loaded. *)
LEMMA Below ==
  ASSUME Linked(order), NEW j \in Nat, j < Len(order), NEW n \in 1 .. j,
         NEW k \in 0 .. order[n].size - 1
  PROVE  /\ order[n].addr + k \in Ram /\ order[n].addr + k \in Nat
         /\ order[n].addr + k < order[j + 1].addr
         /\ order[j + 1].addr \in Nat
<1>1. order \in Seq(SectionHeader) /\ Len(order) \in Nat
  BY DEF Linked
<1>2. n \in 1 .. Len(order) /\ j + 1 \in 1 .. Len(order) /\ n < j + 1
  BY <1>1
<1>3. order[n] \in SectionHeader /\ order[j + 1] \in SectionHeader
  BY <1>1, <1>2
<1>4. /\ order[n].addr \in Nat /\ order[n].size \in Nat /\ order[j + 1].addr \in Nat
  BY <1>3, SectionFields
<1>5. order[n].addr + order[n].size <= order[j + 1].addr
  BY <1>2 DEF Linked
<1>6. order[n].addr + k \in order[n].addr .. order[n].addr + order[n].size - 1
  BY <1>4
<1>7. order[n].addr + k \in Ram
  BY <1>2, <1>6 DEF Linked
<1>8. QED
  BY <1>4, <1>5, <1>7, SMTT(60)

(* It holds after the boot code fills a section. *)
LEMMA BootFillSpanInv ==
  ASSUME IInv, BootFillSpan
  PROVE  IInv'
<1>1. pc \in Booting /\ pc = "process"
  BY DEF BootFillSpan, Booting
<1>2. PICK pos, j : /\ j \in 0 .. Len(order)
                    /\ Parts(pos) /\ Whole(pos, image, order) /\ Reading(pos, j)
                    /\ NextSection = pos[j + 1] /\ pos[j + 1] \in Nat
                    /\ j < Len(order) => Written(image, order[j + 1], j + 1, pos[j + 1])
                    /\ j = Len(order) => IsTag(pos[j + 1], "end")
  BY <1>1, NextPlace
<1>3. PICK e \in Nat : e = pos[j + 1]
  BY <1>2
<1>4. Linked(order) /\ order \in Seq(SectionHeader) /\ Len(order) \in Nat /\ image \in Seq(Cell)
  BY <1>1, AtBoot
<1>5. At(e) = <<"tag", "fspn">> /\ ebp' = e
  BY <1>2, <1>3 DEF BootFillSpan, IsTag
<1>6. j \in Nat /\ j < Len(order)
  <2>1. j # Len(order)
    BY <1>2, <1>3, <1>5 DEF IsTag
  <2>2. QED
    BY <1>2, <1>4, <2>1
<1>7. j + 1 \in 1 .. Len(order)
  BY <1>4, <1>6
<1>8. PICK s \in SectionHeader : s = order[j + 1]
  BY <1>4, <1>7
<1>9. s.type \in {"progbits", "nobits"} /\ Written(image, s, j + 1, e)
  BY <1>2, <1>3, <1>4, <1>6, <1>7, <1>8 DEF Linked
<1>10. s.type = "nobits" /\ Num(e + 8) = s.addr /\ Num(e + 12) = s.size /\ Num(e + 16) = 0
  BY <1>4, <1>5, <1>9, SpanWords
<1>11. s.addr \in Nat /\ s.size \in Nat /\ s.size >= 4
  BY <1>4, <1>7, <1>8, <1>10, SectionFields DEF Linked
<1>12. PICK f \in Nat : f = Filled(s.size) /\ s.size <= f
  BY <1>11, FilledCovers
<1>13. ram' = [a \in Ram |-> IF a - s.addr \in 0 .. f - 1 THEN <<"fill", 0>> ELSE ram[a]]
  BY <1>2, <1>3, <1>10, <1>12 DEF BootFillSpan
<1>14. ASSUME NEW n \in 1 .. j, NEW k \in 0 .. order[n].size - 1
       PROVE  ram'[order[n].addr + k] = ram[order[n].addr + k]
  <2>1. PICK b \in Nat : b = order[n].addr + k /\ b \in Ram /\ b < s.addr
    BY <1>4, <1>6, <1>8, Below
  <2>2. ~(b - s.addr \in 0 .. f - 1)
    BY <1>11, <2>1
  <2>3. QED
    BY <1>13, <2>1, <2>2
<1>15. ASSUME NEW k \in 0 .. s.size - 1
       PROVE  ram'[s.addr + k] = <<"fill", 0>>
  <2>1. s.addr + k \in s.addr .. s.addr + s.size - 1
    BY <1>11
  <2>2. s.addr + k \in Ram
    BY <1>4, <1>7, <1>8, <2>1 DEF Linked
  <2>3. (s.addr + k) - s.addr \in 0 .. f - 1
    BY <1>11, <1>12
  <2>4. QED
    BY <1>13, <2>2, <2>3
<1>16. Loaded(ram', order, j + 1)
  <2>1. Loaded(ram, order, j)
    BY <1>2 DEF Reading
  <2>2. \A k \in 0 .. order[j + 1].size - 1 :
           ram'[order[j + 1].addr + k] = IF order[j + 1].type = "nobits" THEN <<"fill", 0>>
                                         ELSE <<"byte", j + 1, k>>
    BY <1>8, <1>10, <1>15
  <2>3. QED
    BY <1>4, <1>6, <1>14, <2>1, <2>2, SectionLoaded
<1>17. Reading(pos, j + 1)'
  <2>1. order' = order /\ ebp' = pos[j + 1] /\ j + 1 # 0
    BY <1>3, <1>5, <1>6 DEF BootFillSpan, writer
  <2>2. QED
    BY <1>16, <2>1 DEF Reading
<1>18. pc' = "process" /\ frame' = frame /\ UNCHANGED writer
  BY <1>1 DEF BootFillSpan
<1>19. frame \in Int /\ boot_top <= frame /\ boot_top - InflateMemory <= frame /\ frame <= stack_top
  BY <1>1, <1>2 DEF IInv, Parts
<1>20. \E h \in 0 .. Len(order) : Reading(pos, h)'
  <2>1. j + 1 \in 0 .. Len(order)
    BY <1>7
  <2>2. QED
    BY <1>17, <2>1
<1>21. QED
  BY <1>1, <1>2, <1>18, <1>19, <1>20, BootingState

(* It holds after the boot code uncompresses a section, or fails to. *)
LEMMA BootZSpanInv ==
  ASSUME IInv, BootZSpan
  PROVE  IInv'
<1>1. pc \in Booting /\ pc = "process"
  BY DEF BootZSpan, Booting
<1>2. PICK pos, j : /\ j \in 0 .. Len(order)
                    /\ Parts(pos) /\ Whole(pos, image, order) /\ Reading(pos, j)
                    /\ NextSection = pos[j + 1] /\ pos[j + 1] \in Nat
                    /\ j < Len(order) => Written(image, order[j + 1], j + 1, pos[j + 1])
                    /\ j = Len(order) => IsTag(pos[j + 1], "end")
  BY <1>1, NextPlace
<1>3. PICK e \in Nat : e = pos[j + 1]
  BY <1>2
<1>4. Linked(order) /\ order \in Seq(SectionHeader) /\ Len(order) \in Nat /\ image \in Seq(Cell)
  BY <1>1, AtBoot
<1>5. At(e) = <<"tag", "zspn">> /\ ebp' = e /\ frame' = frame - InflateMemory /\ UNCHANGED writer
  BY <1>2, <1>3 DEF BootZSpan, IsTag
<1>6. j \in Nat /\ j < Len(order)
  <2>1. j # Len(order)
    BY <1>2, <1>3, <1>5 DEF IsTag
  <2>2. QED
    BY <1>2, <1>4, <2>1
<1>7. j + 1 \in 1 .. Len(order)
  BY <1>4, <1>6
<1>8. PICK s \in SectionHeader : s = order[j + 1]
  BY <1>4, <1>7
<1>9. s.type \in {"progbits", "nobits"} /\ Written(image, s, j + 1, e)
  BY <1>2, <1>3, <1>4, <1>6, <1>7, <1>8 DEF Linked
<1>10. /\ s.type = "progbits" /\ Num(e + 8) = 20 /\ Num(e + 12) = s.addr
       /\ Num(e + 16) = s.size /\ At(e + 20) = <<"z", j + 1, 0>>
  BY <1>4, <1>5, <1>9, SpanWords
<1>11. s.addr \in Nat /\ s.size \in Nat
  BY SectionFields
<1>12. frame \in Int /\ boot_top <= frame /\ frame <= stack_top
  BY <1>1, <1>2 DEF IInv, Parts
<1>13. frame' \in Int /\ boot_top - InflateMemory <= frame' /\ frame' <= stack_top
  BY <1>5, <1>12, HeapAssumption
<1>14. CASE pc' = "decompress_error"
  BY <1>1, <1>2, <1>5, <1>13, <1>14, BootingState DEF Booting
<1>15. CASE pc' # "decompress_error"
  <2>1. /\ frame' >= boot_top /\ pc' = "process"
        /\ ram' = [a \in Ram |-> IF a - s.addr \in 0 .. s.size - 1
                                 THEN <<"byte", j + 1, a - s.addr>> ELSE ram[a]]
    <3>1. At(e + Num(e + 8))[2] = j + 1
      BY <1>10
    <3>2. QED
      BY <1>1, <1>2, <1>3, <1>10, <1>15, <3>1 DEF BootZSpan
  <2>2. ASSUME NEW n \in 1 .. j, NEW k \in 0 .. order[n].size - 1
        PROVE  ram'[order[n].addr + k] = ram[order[n].addr + k]
    <3>1. PICK b \in Nat : b = order[n].addr + k /\ b \in Ram /\ b < s.addr
      BY <1>4, <1>6, <1>8, Below
    <3>2. ~(b - s.addr \in 0 .. s.size - 1)
      BY <1>11, <3>1
    <3>3. QED
      BY <2>1, <3>1, <3>2
  <2>3. ASSUME NEW k \in 0 .. s.size - 1
        PROVE  ram'[s.addr + k] = <<"byte", j + 1, k>>
    <3>1. s.addr + k \in s.addr .. s.addr + s.size - 1
      BY <1>11
    <3>2. s.addr + k \in Ram
      BY <1>4, <1>7, <1>8, <3>1 DEF Linked
    <3>3. PICK b : b = s.addr + k
      OBVIOUS
    <3>4. b - s.addr = k /\ b - s.addr \in 0 .. s.size - 1
      BY <1>11, <3>3
    <3>5. QED
      BY <2>1, <3>2, <3>3, <3>4
  <2>4. Loaded(ram', order, j + 1)
    <3>1. Loaded(ram, order, j)
      BY <1>2 DEF Reading
    <3>2. \A k \in 0 .. order[j + 1].size - 1 :
             ram'[order[j + 1].addr + k] = IF order[j + 1].type = "nobits" THEN <<"fill", 0>>
                                           ELSE <<"byte", j + 1, k>>
      BY <1>8, <1>10, <2>3
    <3>3. QED
      BY <1>4, <1>6, <2>2, <3>1, <3>2, SectionLoaded
  <2>5. Reading(pos, j + 1)'
    <3>1. order' = order /\ ebp' = pos[j + 1] /\ j + 1 # 0
      BY <1>3, <1>5, <1>6 DEF writer
    <3>2. QED
      BY <2>4, <3>1 DEF Reading
  <2>6. \E h \in 0 .. Len(order) : Reading(pos, h)'
    <3>1. j + 1 \in 0 .. Len(order)
      BY <1>7
    <3>2. QED
      BY <2>5, <3>1
  <2>7. boot_top <= frame'
    BY <1>13, <2>1, HeapAssumption
  <2>8. QED
    BY <1>1, <1>2, <1>5, <1>13, <2>1, <2>6, <2>7, BootingState
<1>16. QED
  BY <1>14, <1>15

(* It holds after the end mark is met: all sections have been loaded. *)
LEMMA BootEndInv ==
  ASSUME IInv, BootEnd
  PROVE  IInv'
<1>1. pc \in Booting /\ pc = "process"
  BY DEF BootEnd, Booting
<1>2. PICK pos, j : /\ j \in 0 .. Len(order)
                    /\ Parts(pos) /\ Whole(pos, image, order) /\ Reading(pos, j)
                    /\ NextSection = pos[j + 1] /\ pos[j + 1] \in Nat
                    /\ j < Len(order) => Written(image, order[j + 1], j + 1, pos[j + 1])
                    /\ j = Len(order) => IsTag(pos[j + 1], "end")
  BY <1>1, NextPlace
<1>3. PICK e \in Nat : e = pos[j + 1]
  BY <1>2
<1>4. Linked(order) /\ order \in Seq(SectionHeader) /\ Len(order) \in Nat /\ image \in Seq(Cell)
  BY <1>1, AtBoot
<1>5. At(e) # <<"tag", "fspn">> /\ At(e) # <<"tag", "zspn">>
  BY <1>2, <1>3 DEF BootEnd, IsTag
<1>6. j = Len(order)
  <2>1. SUFFICES ASSUME j < Len(order) PROVE FALSE
    BY <1>2, <1>4
  <2>2. j + 1 \in 1 .. Len(order)
    BY <1>2, <1>4, <2>1
  <2>3. PICK s \in SectionHeader : s = order[j + 1]
    BY <1>4, <2>2
  <2>4. s.type \in {"progbits", "nobits"} /\ Written(image, s, j + 1, e)
    BY <1>2, <1>3, <1>4, <2>1, <2>2, <2>3 DEF Linked
  <2>5. QED
    BY <1>4, <1>5, <2>4, SpanWords
<1>7. pc' = "jumped" /\ frame' = frame /\ ram' = ram /\ UNCHANGED writer
  BY <1>2, <1>6 DEF BootEnd
<1>8. Loaded(ram', order, Len(order))
  BY <1>2, <1>6, <1>7 DEF Reading
<1>9. frame \in Int /\ boot_top - InflateMemory <= frame /\ frame <= stack_top
  BY DEF IInv
<1>10. QED
  BY <1>1, <1>2, <1>7, <1>8, <1>9, BootingState DEF Booting

(* It holds after a step of nothing. *)
LEMMA StutterInv ==
  ASSUME IInv, UNCHANGED vars
  PROVE  IInv'
BY DEF IInv, vars, writer, loader, Parts, Reading, Ready

(* It is kept by every step. *)
LEMMA NextInv ==
  ASSUME IInv, [Next]_vars
  PROVE  IInv'
BY CollectInv, EndImageInv, FillSpanInv, BeginSpanInv, DeflateInv, EndSpanInv,
   CheckMagicInv, BootFillSpanInv, BootZSpanInv, BootEndInv, StutterInv DEF Next

(* The invariant says what the property asks for. *)
LEMMA InvSound ==
  ASSUME IInv
  PROVE  ImageSound
<1>1. CASE pc = "collect"
  <2>1. i \in 1 .. Len(order) + 1
    <3>1. order \in Seq(SectionHeader)
      BY <1>1, ProgramsAssumption DEF IInv
    <3>2. QED
      BY <1>1, <3>1 DEF IInv
  <2>2. frame \in boot_top - InflateMemory .. stack_top
    BY HeapAssumption DEF IInv
  <2>3. QED
    BY <1>1, <2>1, <2>2 DEF IInv, ImageSound, TypeOK, MemoryAsLinked
<1>2. CASE pc # "collect"
  <2>1. i \in 1 .. Len(order) + 1 /\ Linked(order) /\ image \in Seq(Cell)
        /\ pc \in Writing \cup Booting
    BY <1>2 DEF IInv
  <2>2. PICK pos : Parts(pos)
    BY <1>2 DEF IInv
  <2>3. z = NoStream \/
          /\ z.flush \in {"no", "finish"}
          /\ z.left \in 0 .. order[i].size /\ z.avail_in \in 0 .. INPUT_BUFFER_SIZE
          /\ z.avail_out \in 0 .. OUTPUT_BUFFER_SIZE /\ z.total_out \in 0 .. order[i].zsize
    <3>1. CASE pc \in Writing \ {"section"}
      <4>1. Deflating(image, order, i, z, pos[i])
        BY <2>2, <3>1 DEF Parts
      <4>2. Counts(z, order[i]) /\ order[i] \in SectionHeader
        BY <2>1, <4>1 DEF Deflating, Linked
      <4>3. order[i].size \in Nat /\ order[i].zsize \in Nat
        BY <4>2, SectionFields
      <4>4. /\ z.flush \in {"no", "finish"} /\ z.left \in Nat /\ z.avail_in \in Nat
            /\ z.avail_out \in Nat /\ z.total_out \in Nat
        BY <4>2 DEF Counts, ZStream
      <4>5. QED
        BY <4>2, <4>3, <4>4, BufferAssumption DEF Counts
    <3>2. CASE pc \in Booting \cup {"section"}
      BY <2>2, <3>2 DEF Parts
    <3>3. QED
      BY <2>1, <3>1, <3>2 DEF Writing, Booting
  <2>4. frame \in boot_top - InflateMemory .. stack_top
    BY HeapAssumption DEF IInv
  <2>5. TypeOK
    BY <2>1, <2>3, <2>4 DEF TypeOK, Writing, Booting
  <2>6. ASSUME pc = "jumped" PROVE Num(8) = Entry /\ Loaded(ram, order, Len(order))
    <3>1. Whole(pos, image, order) /\ Loaded(ram, order, Len(order))
      BY <2>2, <2>6 DEF Parts, Booting
    <3>2. Len(image) >= 12 /\ image[9] = <<"number", Entry>>
      BY <3>1 DEF Whole, Spans, Info
    <3>3. 8 \in 0 .. Len(image) - 1 /\ 8 + 1 = 9
      BY <2>1, <3>2
    <3>4. At(8) = <<"number", Entry>>
      BY <3>2, <3>3 DEF At
    <3>5. QED
      BY <3>1, <3>4 DEF Num
  <2>7. DOMAIN order = 1 .. Len(order)
    BY <2>1 DEF Linked
  <2>8. MemoryAsLinked
    BY <2>6, <2>7 DEF MemoryAsLinked, Loaded
  <2>9. QED
    BY <2>5, <2>8 DEF ImageSound
<1>3. QED
  BY <1>1, <1>2

(* For every program that mkuuubimage and the boot code are known to       *)
(* handle, every buffer size and every behaviour of deflate: zlib's        *)
(* counters stay in the buffers of mkuuubimage, and when the boot code     *)
(* jumps to the entry of the program each of its sections is in memory as  *)
(* it was linked.                                                          *)
THEOREM BootImageIsSound ==
  ASSUME {"empty_section", "tiny_bss", "unsorted"} \cap Allow = {}
  PROVE  Spec => []ImageSound
<1>1. Init => IInv
  BY InitInv
<1>2. IInv /\ [Next]_vars => IInv'
  BY NextInv
<1>3. IInv => ImageSound
  BY InvSound
<1>4. QED
  BY <1>1, <1>2, <1>3, PTL DEF Spec
=============================================================================
