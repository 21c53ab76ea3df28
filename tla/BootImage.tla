------------------------------ MODULE BootImage ------------------------------
(***************************************************************************)
(* A boot image from the linked program to the jump to it: mkuuubimage     *)
(* (toolchain/mkuuubimage/mkuuubimage.c) writes the sections of an ELF     *)
(* file into an image, and the boot code                                   *)
(* (sys/bootloader/x86/boot.asm) unpacks it into memory.                   *)
(*                                                                         *)
(* The image is a sequence of cells, one per byte.  The first cell of a    *)
(* 32 bit word holds it and the other three are Rest; a compressed byte is *)
(* <<"z", i, k>>, the k-th of the i-th section written.  zlib is external: *)
(* deflate gives out the bytes of a section's stream in pieces it chooses, *)
(* and uncompress accepts exactly a whole stream.                          *)
(*                                                                         *)
(* pc       where mkuuubimage or, after it, the boot code is.              *)
(* order    section_order.          i         the section being written.   *)
(* image    the output file.        size_at   file_pos.                    *)
(* z        the z_stream and the rest of the section, while deflating.     *)
(* ebp      the boot code's place in the image.                            *)
(* frame    memory_frame.           ram       the memory of the program.   *)
(*                                                                         *)
(* Allow names programs that a run lets be linked although they are known  *)
(* to go wrong.                                                            *)
(***************************************************************************)
EXTENDS Integers, SequencesExt

CONSTANTS
  Programs,         \* section tables, sequences of [type, addr, size, zsize]
  Entry,
  INPUT_BUFFER_SIZE, OUTPUT_BUFFER_SIZE,
  InflateMemory,    \* what one call of uncompress takes from the heap
  stack_top,        \* here, the top of the heap
  boot_top,
  Ram,              \* the addresses of the program's memory
  Allow

Uses == {"empty_section", "tiny_bss", "unsorted", "many_spans"}

SectionHeader ==
  [type : {"progbits", "nobits", "other"}, addr : Nat, size : Nat, zsize : Nat \ {0}]

ASSUME ProgramsAssumption == Programs \subseteq Seq(SectionHeader)
ASSUME BufferAssumption ==
  INPUT_BUFFER_SIZE \in Nat \ {0} /\ OUTPUT_BUFFER_SIZE \in Nat \ {0}
ASSUME HeapAssumption ==
  InflateMemory \in Nat /\ stack_top \in Int /\ boot_top \in Int /\ boot_top <= stack_top
ASSUME AllowAssumption == Allow \subseteq Uses

VARIABLES pc, order, i, image, size_at, z, ebp, frame, ram

writer == <<order, i, image, size_at, z>>
loader == <<ebp, frame, ram>>
vars == <<pc, writer, loader>>

Loadable(s) == s.type \in {"progbits", "nobits"}

(* The sections that section_order gets: the loadable ones, in the order   *)
(* of the table.                                                           *)
LoadSections(p) ==
  LET section_order[n \in 0 .. Len(p)] ==
        IF n = 0 THEN <<>>
        ELSE IF Loadable(p[n]) THEN Append(section_order[n - 1], p[n])
        ELSE section_order[n - 1]
  IN  section_order[Len(p)]

(* The memory a program is linked for is there. *)
ASSUME RamAssumption ==
  \A p \in Programs : \A n \in DOMAIN p :
    Loadable(p[n]) => p[n].addr .. p[n].addr + p[n].size - 1 \subseteq Ram

(* Programs the tools are known to handle. *)
Proper(p) ==
  LET s == LoadSections(p)
      Spans == {n \in DOMAIN s : s[n].type = "progbits"}
  IN  /\ "empty_section" \in Allow \/ \A n \in DOMAIN s : s[n].size > 0
      /\ "tiny_bss" \in Allow \/ \A n \in DOMAIN s : s[n].type = "nobits" => s[n].size \notin 1 .. 3
      /\ "unsorted" \in Allow \/
           \A m, n \in DOMAIN s : m < n => s[m].addr + s[m].size <= s[n].addr
      /\ "many_spans" \in Allow \/
           Cardinality(Spans) * InflateMemory <= stack_top - boot_top

NoStream == [flush |-> "none"]
Garbage == <<"garbage">>

Init ==
  /\ pc = "collect"
  /\ order \in {p \in Programs : Proper(p)}
  /\ i = 1
  /\ image = <<>>
  /\ size_at = 0
  /\ z = NoStream
  /\ ebp = 0
  /\ frame = stack_top
  /\ ram = [a \in Ram |-> Garbage]
-----------------------------------------------------------------------------
Rest == <<"rest">>
Word(c) == <<c, Rest, Rest, Rest>>
Tag(t) == Word(<<"tag", t>>)
Number(n) == Word(<<"number", n>>)

InfoSize == 12
SpanHeader == 20

(* The loop that is to sort the sections compares an unsigned number with  *)
(* j < 0 and never moves one.  The image starts with the info section.     *)
Collect ==
  /\ pc = "collect"
  /\ order' = LoadSections(order)
  /\ image' = Tag("UnBI") \o Number(InfoSize) \o Number(Entry)
  /\ pc' = "section"
  /\ UNCHANGED <<i, size_at, z, loader>>

AtEnd == i <= Len(order) => order[i].size = 0

(* The loop ends at the first empty section. *)
EndImage ==
  /\ pc = "section"
  /\ AtEnd
  /\ image' = image \o Tag("end")
  /\ pc' = "boot"
  /\ UNCHANGED <<order, i, size_at, z, loader>>

FillSpan ==
  /\ pc = "section"
  /\ ~AtEnd
  /\ order[i].type = "nobits"
  /\ image' = image \o Tag("fspn") \o Number(SpanHeader) \o Number(order[i].addr)
                    \o Number(order[i].size) \o Number(0)
  /\ i' = i + 1
  /\ UNCHANGED <<pc, order, size_at, z, loader>>

(* The size word is left open until the span has been compressed. *)
BeginSpan ==
  /\ pc = "section"
  /\ ~AtEnd
  /\ order[i].type = "progbits"
  /\ size_at' = Len(image) + 4
  /\ image' = image \o Tag("zspn") \o Number(0) \o Number(SpanHeader)
                    \o Number(order[i].addr) \o Number(order[i].size)
  /\ z' = [flush |-> "no", left |-> order[i].size, avail_in |-> 0,
           avail_out |-> OUTPUT_BUFFER_SIZE, total_out |-> 0]
  /\ pc' = "deflate"
  /\ UNCHANGED <<order, i, loader>>

Stream(n, first, last) == [k \in 1 .. last - first + 1 |-> <<"z", n, first + k - 1>>]

(* What the output buffer holds. *)
Buffered(s) == Stream(i, s.total_out - (OUTPUT_BUFFER_SIZE - s.avail_out), s.total_out - 1)

FlushFull(s) == IF s.avail_out = 0 THEN [s EXCEPT !.avail_out = OUTPUT_BUFFER_SIZE] ELSE s

(* An empty input buffer is filled again; the last fill, whose size is     *)
(* left as it is, asks deflate to finish.                                  *)
FillInput(s) ==
  IF s.avail_in > 0 THEN s
  ELSE IF s.left > INPUT_BUFFER_SIZE
       THEN [s EXCEPT !.avail_in = INPUT_BUFFER_SIZE, !.left = @ - INPUT_BUFFER_SIZE]
  ELSE IF s.flush # "finish" THEN [s EXCEPT !.avail_in = s.left, !.flush = "finish"]
  ELSE s

(* zlib's deflate on stream s of zsize bytes: what it may return, with its *)
(* effect.  It keeps at least one byte back until it is told to finish.    *)
deflate(s, zsize) ==
  LET Takes(p) == IF p < s.avail_out THEN {s.avail_in} ELSE 0 .. s.avail_in
      After(p, c) == [flush |-> s.flush, left |-> s.left, avail_in |-> s.avail_in - c,
                      avail_out |-> s.avail_out - p, total_out |-> s.total_out + p]
      owed == zsize - s.total_out
  IN  IF s.avail_out = 0 \/ (s.avail_in = 0 /\ s.flush = "no")
      THEN {<<"buffer_error", s>>}
      ELSE IF s.flush = "no"
      THEN {<<"ok", After(x[1], x[2])>> :
              x \in {y \in (0 .. owed - 1) \X (0 .. s.avail_in) :
                       y[1] <= s.avail_out /\ y[2] \in Takes(y[1]) /\ y[1] + y[2] > 0}}
      ELSE (IF owed <= s.avail_out THEN {<<"stream_end", After(owed, s.avail_in)>>} ELSE {})
           \cup (IF owed >= s.avail_out
                 THEN {<<"ok", After(s.avail_out, c)>> : c \in 0 .. s.avail_in} ELSE {})

(* One turn of the loop. *)
Deflate ==
  /\ pc = "deflate"
  /\ image' = IF z.avail_out = 0 THEN image \o Buffered(z) ELSE image
  /\ \E r \in deflate(FillInput(FlushFull(z)), order[i].zsize) :
       /\ z' = r[2]
       /\ pc' = CASE r[1] = "ok" -> "deflate"
                  [] r[1] = "stream_end" -> "span_end"
                  [] OTHER -> "buffer_error"
  /\ UNCHANGED <<order, i, size_at, loader>>

(* Fault: the size of the header is not added. *)
EndSpanWithout ==
  /\ pc = "span_end"
  /\ LET out == IF z.avail_out # OUTPUT_BUFFER_SIZE THEN image \o Buffered(z) ELSE image
     IN  image' = [out EXCEPT ![size_at + 1] = <<"number", z.total_out>>]
  /\ z' = NoStream
  /\ i' = i + 1
  /\ pc' = "section"
  /\ UNCHANGED <<order, size_at, loader>>

(* What is left in the output buffer is written, and the size word is      *)
(* filled in.                                                              *)
EndSpan ==
  /\ pc = "span_end"
  /\ LET out == IF z.avail_out # OUTPUT_BUFFER_SIZE THEN image \o Buffered(z) ELSE image
     IN  image' = [out EXCEPT ![size_at + 1] = <<"number", z.total_out + SpanHeader>>]
  /\ z' = NoStream
  /\ i' = i + 1
  /\ pc' = "section"
  /\ UNCHANGED <<order, size_at, loader>>
-----------------------------------------------------------------------------
(* The boot code: a word of the image, and a test for a tag. *)
At(a) == IF a \in 0 .. Len(image) - 1 THEN image[a + 1] ELSE Rest
IsTag(a, t) == At(a) = <<"tag", t>>
Num(a) == At(a)[2]

(* The magic, and the entry address, which is pushed for the final jump. *)
CheckMagic ==
  /\ pc = "boot"
  /\ pc' = IF IsTag(0, "UnBI") THEN "process" ELSE "invalid_format"
  /\ UNCHANGED <<writer, loader>>

(* add ebp, [ebp+4] *)
NextSection == ebp + Num(ebp + 4)

(* Fault: the fill stops at the last whole word. *)
FilledWords(size) == 4 * (size \div 8)

(* .fillspan stores size >> 2 words and then, where the odd bytes are      *)
(* meant, size & -4 bytes.                                                 *)
Filled(size) == 8 * (size \div 4)

BootFillSpan ==
  LET e == NextSection IN
  /\ pc = "process"
  /\ IsTag(e, "fspn")
  /\ ebp' = e
  /\ ram' = [a \in Ram |-> IF a - Num(e + 8) \in 0 .. Filled(Num(e + 12)) - 1
                           THEN <<"fill", Num(e + 16)>> ELSE ram[a]]
  /\ UNCHANGED <<pc, frame, writer>>

(* zlib's uncompress: the bytes from source on are one whole stream. *)
Uncompressed(source, len) ==
  \E n \in DOMAIN order :
    /\ len = order[n].zsize
    /\ \A k \in 0 .. len - 1 : At(source + k) = <<"z", n, k>>

(* .zspan.  uncompress takes its memory with calloc, which refuses to go   *)
(* below boot_top, and free does nothing.                                  *)
BootZSpan ==
  LET e      == NextSection
      source == e + Num(e + 8)
      len    == Num(e + 4) - Num(e + 8)
  IN
  /\ pc = "process"
  /\ IsTag(e, "zspn")
  /\ ebp' = e
  /\ frame' = frame - InflateMemory
  /\ IF frame' >= boot_top /\ Uncompressed(source, len)
     THEN /\ ram' = [a \in Ram |-> IF a - Num(e + 12) \in 0 .. Num(e + 16) - 1
                                   THEN <<"byte", At(source)[2], a - Num(e + 12)>> ELSE ram[a]]
          /\ UNCHANGED pc
     ELSE pc' = "decompress_error" /\ UNCHANGED ram
  /\ UNCHANGED writer

(* .end, or an unknown tag. *)
BootEnd ==
  /\ pc = "process"
  /\ \A t \in {"fspn", "zspn"} : ~IsTag(NextSection, t)
  /\ ebp' = NextSection
  /\ pc' = IF IsTag(NextSection, "end") THEN "jumped" ELSE "invalid_format"
  /\ UNCHANGED <<frame, ram, writer>>

Next ==
  \/ Collect \/ EndImage \/ FillSpan \/ BeginSpan \/ Deflate \/ EndSpan
  \/ CheckMagic \/ BootFillSpan \/ BootZSpan \/ BootEnd

(* Both programs run by themselves. *)
Spec == Init /\ [][Next]_vars /\ WF_vars(Next)
-----------------------------------------------------------------------------
TypeOK ==
  /\ pc \in {"collect", "section", "deflate", "span_end", "buffer_error", "boot",
             "process", "invalid_format", "decompress_error", "jumped"}
  /\ i \in 1 .. Len(order) + 1
  /\ z = NoStream \/
       /\ z.flush \in {"no", "finish"}
       /\ z.left \in 0 .. order[i].size /\ z.avail_in \in 0 .. INPUT_BUFFER_SIZE
       /\ z.avail_out \in 0 .. OUTPUT_BUFFER_SIZE /\ z.total_out \in 0 .. order[i].zsize
  /\ frame \in boot_top - InflateMemory .. stack_top

(* When the boot code jumps to the program's entry, each of its sections   *)
(* is in memory at its address, with the bytes of the file or filled with  *)
(* 0, and no section has damaged another.                                  *)
MemoryAsLinked ==
  pc = "jumped" =>
    /\ Num(8) = Entry
    /\ \A n \in DOMAIN order : \A k \in 0 .. order[n].size - 1 :
         ram[order[n].addr + k] = IF order[n].type = "nobits" THEN <<"fill", 0>> ELSE <<"byte", n, k>>

(* The variables keep their types, the counters of zlib's stream stay in   *)
(* their buffers, and the program finds its memory as it was linked.       *)
ImageSound == TypeOK /\ MemoryAsLinked

(* Wherever the buffer boundaries fall, mkuuubimage comes to the end of    *)
(* the image (deflate is never called without input to read or room to     *)
(* write), and the boot code accepts it and starts the program.            *)
ProgramStarts == <>(pc = "jumped")
=============================================================================
