# Verification of Unununium

TLA+ models of the core of the Unununium operating system (`uuu/`) and of the
tools that make its boot image and its disks (`toolchain/`), TLC configurations
that check them on small instances, and proofs checked by TLAPS. The reference is
the source tree; every definition that models code is listed with its lines in
the `map` of `PROJECT.json`, and line numbers below are those of that tree.

## 1. Inventory

Unununium is a set of x86 assembly components that are linked into one boot
image and run in one address space, and a toolchain in C that makes the image
and the disk it boots from. Vendored code (the `snap` graphics SDK and the
C library in `uuu/lib/c`) and the example that is booted by default, a 3D
animation (`uuu/sys/bimage`), are left aside.

| Part | Source | State | Operations | What makes it correct |
|---|---|---|---|---|
| Ring queues | `uuu/lib/queue/ring.asm`, `uuu/include/ring_queue.asm` | two links per node | `insert_before`, `insert_after`, `link_ordered_64`, `remove` | the two links stay inverse, a ring holds what was put on it in the promised order, exactly the misuses are rejected |
| Avalon, the realtime scheduler | `uuu/sys/scheduler/x86/avalon.asm` | thread pools with allocation bitmaps, timer ring, ready ring, 64 bit tick count, drift, PIT resolution | add pool, acquire, initialize, schedule, release; set resolution, set and correct drift, get and set time; the PIT interrupt | a thread is handed out once, no timer is missed, the clock counts what the hardware counts |
| Iridia, the interrupt manager | `uuu/sys/interrupts/x86/iridia.asm` | handler table, one ring of clients per IRQ, PIC mask | set / unset handler, connect, disconnect, dispatch | a line with clients is unmasked, each client is called once, interrupts are enabled again on return |
| NoBlame, the memory manager | `uuu/sys/memory_manager/x86/noblame.asm` | `memory_frame` and the bottom of free memory | allocate, deallocate, reallocate | areas handed out are disjoint and inside memory |
| udbfslib | `toolchain/udbfslib` | mount structure, two bitmaps with separate free counts, list of opened inodes, the device | mount, unmount, create / open / close / free inode, read, write, boot loader inode | no block has two owners, a file reads back what was written, the counts match the bitmaps |
| mkudbfs | `toolchain/mkudbfs` | bitmaps, files and columns under construction | find the size, lay out, create tables and files, save | what it makes is a device udbfslib accepts, with no part on top of another |
| udb-instboot | `toolchain/udbfstools` | none | installs the boot loader through udbfslib, over an older one too | the image is whole, the rest of the device is untouched |
| Stage 1 boot sector | `uuu/sys/bootloader/x86/stage1.asm` | registers, instruction operands that are variables | load the inode, the index blocks, the blocks of stage 2 | the blocks loaded are the image installed last, in order |
| mkuuubimage | `toolchain/mkuuubimage` | section list, zlib stream, two buffers | write the sections of an ELF file as spans | the image says what the linker said |
| Boot image unpacker | `uuu/sys/bootloader/x86/boot.asm` | place in the image, heap | fill span, inflate span, start | memory is as linked when the program is entered |
| hash, reference counts | `uuu/lib/hash`, `uuu/include/ref_count.asm` | none | pure hash; one macro | - |
| Virtual file system | `uuu/fs/vfs` | one descriptor | unfinished | - |
| Drivers of stage 2, diable | `uuu/sys/bootloader`, `uuu/util/debug` | devices | disk and screen I/O | - |

**Interactions.** Avalon and Iridia keep all their dynamic structures on ring
queues and call the library with interrupts enabled unless they say otherwise.
Avalon's PIT handler is installed in the interrupt table and runs between any
two instructions of a thread, including in the middle of a ring queue call made
by `thread.schedule`; Iridia's handler walks rings from which `irq.disconnect`
may be removing a node, and its clients may connect others. Avalon takes memory for nothing after boot: pools are
preallocated or added by clients. mkudbfs formats a device with its own code for
bitmaps, block trees and inodes, udbfslib mounts it, udb-instboot installs the
boot loader through udbfslib, and stage 1 reads it with 16 bit code of its own:
three implementations of one layout that share nothing but the device.
mkuuubimage and the unpacker in boot.asm meet in the same way in the image.
The tools are sequential, but one can be killed at any point, and the library
writes inodes at close and bitmaps only at unmount.

**What is hard here.** (a) Interrupts that fall into pointer updates, into a
64 bit value read as two words, or between registering one of a thread's two
timers and the other. (b) Long sequences of legal calls that have to leave
doubly linked structures intact. (c) Order by 64 bit values compared in 32 bit
halves, fixed point arithmetic, bit numbers at a pool's or a bitmap's end.
(d) An operation of several allocations of which a late one fails. (e) A crash
between the several saves that belong together. (f) Two programs that compute
the same place in different ways, by counting down here and by division there,
and have to agree at every boundary. Every such place is a `hazard`
of `PROJECT.json`, at its line, with the properties that watch it.

## 2. Modules

| Module | Models | State and actions |
|---|---|---|
| `RingLinks` | `ring.asm` | pure: each call as the checks that guard it (`CanInsertAfter`, ...) and the stores it makes (`insert_after`, ...), on one memory of `next` and `prev` links |
| `RingSpec` | what the library promises | abstract: which ring each node is on and at which place; insert at a place, remove |
| `RingQueue` | clients of the library | all sequences of calls, one at a time; each turn of `link_ordered_64`'s loop is a step, with its registers as state |
| `AvalonClock` | clock arithmetic of `avalon.asm` | pure: conversions, `set_timer`, drift correction, one tick; words have `Word` values, 16 bit halves `Short`, the PIT counter `PitLimit` |
| `AvalonPools` | thread pools | pure: add pool, acquire, release |
| `Avalon` | the scheduler | one action per call of a client; calls with interrupts enabled are split wherever the handler can see or change what they work on; `pit_interrupt` is the whole handler and runs at any point |
| `UdbfsBitmap` | `allocate_bit.c`, `free_inode.c` | pure: allocate and free a bit, the count kept apart |
| `UdbfsList` | `link.c`, `unlink.c` | pure: the list of opened inodes; touching a freed node makes it "wild" |
| `UdbfsTree` | `select_active_inode_block.c`, `load_*block.c`, `unload_block.c` | pure: the places of a file (direct, indirect, double, triple indirect), the place of an offset, load and save of index blocks |
| `Udbfs` | udbfslib on one device | one action per call, one per turn of the read and write loops, one per save of an unmount, and `Crash` |
| `IrqSpec` | what the IRQ channels promise (iridia.asm:6) | abstract: the line of each client, the line being served and the clients still to be called |
| `Iridia` | `iridia.asm` | one action per call; `irq.disconnect` and the `ring_queue.remove` in it one action per load, test or store, because they can be interrupted; `_irq_common`, `CallClient` and `CycledRing` are the handler; the masks and in-service lines of the two PICs |
| `NoBlame` | `noblame.asm` | the frame, the memory, the blocks in the hands of threads; each call is `Enter` (up to the read of the frame) and `Store` |
| `BootImage` | `mkuuubimage.c`, then `boot.asm` | the image as cells; an action per section, per turn of the deflate loop and per section unpacked |
| `Mkudbfs` | `mkudbfs.c`, with the offsets of `mount.c` | an action per step of `main` and `mkfs`; the device as extents in bytes; `Killed` |
| `UdbfsBoot` | mkudbfs, then `udb-instboot.c`, then `stage1.asm` | `Mkudbfs` extended by `instboot`, `stage1_start` and a turn of `loading_object` |
| `NumberLemmas` | | induction over natural numbers, for the proofs |
| `RingQueueProofs`, `AvalonProofs`, `IridiaProofs`, `NoBlameProofs`, `UdbfsProofs`, `BootImageProofs`, `UdbfsBootProofs` | | the theorems of section 5 |
| `MC...` | | model values and small sets for TLC |

`Avalon` composes `RingLinks`, `AvalonClock` and `AvalonPools`: the handler and
`thread.schedule` use the very operators whose properties are proved for
`RingQueue`, but `Avalon` splits the stores, because there they can be
interrupted. `Udbfs` composes the three Udbfs modules. `Iridia` uses
`RingLinks` for the insertion, which is a critical section, and spells the
removal out. `UdbfsBoot` composes mkudbfs, the installer and the boot sector
over one device, and reads the root table along the paths of `UdbfsTree`, the
library's own; `BootImage` composes the writer and the reader of an image.

**Refinements.** `RingQueue` implements `RingSpec` (`KeepsPromise`, proved), and
`Iridia` implements `IrqSpec` (`KeepsIrqPromise`, proved) under the mapping

    Irq == INSTANCE IrqSpec WITH serving <- isr.line, todo <- Uncalled

where `Uncalled` is what the links lead to from the node the walk is at: that a
half-done removal does not change it, and that a client connected in the middle
of the walk is not added to it, is what the refinement says. `FormattedForUdbfs`
is the same idea for a start: every device mkudbfs leaves is an initial device
of `Udbfs`, with the bits, counts, system inodes and free padding `Udbfs!Init`
has.

Definitions whose names end in a word such as `Skipped`, `OneWay` or
`Unchecked` and whose comment starts with "Fault:" are deliberate faults. No
specification uses them; each replaces the definition behind it to show that a
property can tell the difference.

**Abstractions.** Data is reduced to what the properties tell apart: a data
word of a file is a number that names its file and position; a thread's stack
is "none", "built" or "saved"; magic numbers and flags that no check of the
code can fail on are left out; a block of a device holds `W` words instead of
hundreds, which keeps all levels of a file's tree within reach. `Mkudbfs` and
`UdbfsBoot` are the exception: block sizes, structures and offsets have their
real numbers of bytes there, and only contents are abstract. In `BootImage`
the k-th compressed byte of a section is a cell that says so; zlib may hand it
out at any time the documentation of `deflate` allows. In `Avalon` a
call that fails a check before its first store is an action that is not
enabled; in `RingQueue` such failures are steps, since they are what
`FailsOnlyOnMisuse` is about. `machine` says how the computer stopped: "hung"
(the procedures for expired and ready threads are one endless loop,
avalon.asm:843), "lock_2" (the handler's sanity lock) or "wild" (a jump to
garbage); nothing is said of it after that. For this reason the runs of Avalon,
Iridia and NoBlame allow deadlock, and those of `BootImage` and `UdbfsBoot`
because the programs end; all others check it.

**Allow.** All but the ring modules have a constant `Allow` that names uses
known to go wrong. A passing run shows that the code is right for clients that
avoid the uses not in its `Allow`. Adding a use to the `Allow` of a
configuration makes TLC show what it does; section 6 says which property fails
then.

## 3. Runs

| Run | Result | Question |
|---|---|---|
| `ring_queue` | pass | Do all sequences of calls on two rings, one of them ordered, keep the links, the order and the promise of `RingSpec`, and does every search end? |
| `avalon_timers` | pass | Threads register timers while interrupts fall anywhere: does the ring hold exactly the armed timers in order, is none missed, is a deadline always noticed, does set time take? |
| `avalon_services` | pass | Pools, changes of resolution and drift: does the clock follow the PIT, is drift worked off exactly, are threads neither lost nor invented? |
| `avalon_release` | violation of `HandedOutOnce` | Can a released thread lead to one that is in use? |
| `iridia` | pass | Two threads connect and disconnect while interrupts and preemption fall between any two stores: are the right clients called, once, and do masks and rings agree? |
| `iridia_return` | violation of `InterruptReturns` | Does an interrupt come back to the code it interrupted? |
| `noblame` | pass | Do blocks stay apart and keep their contents until memory runs out, and after? |
| `udbfs_levels` | pass | Two files growing past their direct blocks on a device that fills up, with inodes freed: content, ownership, counts, list, system blocks |
| `udbfs_blocks` | pass | One file growing through all levels of the tree, with blocks of two words: writes start and end inside blocks and index blocks have several entries |
| `udbfs_crash` | pass | The client dies anywhere, between two saves of an unmount too: are files saved earlier intact, also after later clients allocate again, on a device whose bitmaps end with it? |
| `udbfs_boot` | pass | Do mkudbfs, udbfslib and stage 1 agree on the device, at every depth of the tree and at the edges of the layout, and does the boot sector load the image installed last? |
| `boot_image` | pass | Does every image mkuuubimage writes unpack to the memory the linker described? |

**Bounds and why they are enough.**

- `ring_queue`: two heads, three members, three keys of one high word. Three
  members give a node a left neighbour, a right neighbour and a bystander, in
  all orders; two heads let a node move between rings. The theorems of section 5
  remove the bound for all safety properties, here and in the other passing
  runs, within the hypotheses the table there gives.
- `avalon_timers`: one pool of three threads, init and two clients with two
  timers each; delays 0, 2, 5 and deadlines 3, 6 put timers before, between and
  behind each other, at the same tick and on the ready ring directly; up to
  tick 10 at two ticks per interrupt, so that timers expire in every phase of
  another registration. `MaxTicks` bounds only when calls start; the interrupt
  goes on as long as a thread's timer waits, so `TimersAnswered` is not cut
  off. Registers have 32 values here, so all times share one high word (the
  ordered search is wrong otherwise, see section 6; on the machine this is the
  first 2^32 ticks, about an hour). `Before` is the word in front of
  `timer_ring` in memory, which a scan that overruns the head would read.
- `avalon_services`: registers have 16 values and ticks run to 18, so the low
  word of the clock carries into the high word during drift corrections. A
  second pool is added while the first is in use.
- `udbfs_levels`: with one word per block, the 5 words of a file use the four
  direct blocks and the indirect level; 10 blocks of which 2 are the system's
  run out with two files. The bitmaps have 16 and 8 bits, more than there are
  objects, as on a real device whose count is no multiple of 8.
- `udbfs_blocks`: two words per block and 24 words per file reach the first
  blocks of the triple indirect level (4 + 2 + 4 blocks precede it), with 27
  blocks for data and index.
- `udbfs_crash`: one crash at any point, two files, in a device of 8 blocks so
  that later allocations reuse the blocks the crash left marked free. 8 blocks
  and 8 inodes fill their bitmaps, so that there are no bits past the end
  (section 6 says what they do).
- `iridia`: two threads, so that one is preempted in the middle of a removal by
  the other's calls and by interrupts; three clients, so that the removed one
  has neighbours on both sides of the walk; lines 3 and 4 share a PIC, line 9 is
  behind the cascade on line 2. One vector is claimed by threads and one is an
  exception.
- `noblame`: an address space of 32 bytes with 19 of memory, the bottom not a
  multiple of 4; requests of 0, 4, 5 and 9 bytes are refused, the smallest
  accepted one (smaller than the header), and one behind the header. Memory
  runs out after two to three blocks, and further requests go below the bottom.
- `boot_image`: all programs of up to three sections from 37, with buffers of 4
  and 3 bytes: sections end one byte before, at and behind a buffer's edge, and
  streams of 1, 3 and 7 bytes end inside, at and behind the edge of the output
  buffer. The heap has room for two spans, the limit that is allowed.
- `udbfs_boot`: real numbers. The devices are a file of 64
  blocks, the smallest whose block bitmap is whole (the largest table does not
  fit and mkudbfs exits), a block device one sector above it, a 1.44 MB floppy,
  a block device of 16801 sectors (2100 blocks, 65 inodes), files of 1990 and
  3999 blocks whose bitmaps take two blocks, and files of 1023999, 1024000,
  4096000 and 8192000 bytes and one of 9000000 formatted as 2048000, between
  and at the sizes where the block size changes.
  Each of the five block sizes occurs. Beside the root table of mkfs, tables of
  1, 9 and 60 columns have data of every alignment, and files that need two
  levels of index blocks. Images of 1, 4, 6, 68, 69 and 133 blocks end in the direct,
  indirect and double indirect blocks of a file with 64 ids per block and at
  their edges; two installations give every pair. The stride of the search
  starts at 2^20 instead of 2^30: devices have less than 2^24 bytes.

**Fairness.** `RingQueue!FairSpec`: weak fairness of a turn of the search; the
library runs on its caller's thread and its loop has no other exit.
`Avalon!FairSpec`: weak fairness of `pit_interrupt`, the PIT, a rate generator in
mode 3 (avalon.asm:775), interrupts for ever, and interrupts are never left disabled by a modelled call;
and of `CallStep`, the handler returns to the thread it interrupted. No client
is assumed to make any call. `Iridia!FairSpec`: weak fairness of the handler's
steps; it runs with interrupts off, and its clients return. `BootImage!Spec`:
weak fairness of `Next`, two programs that run by themselves. `UdbfsBoot!BootSpec`:
weak fairness of the steps of mkudbfs, but not of its being killed, and of the
loop of stage 1; nobody has to install an image or to boot. The BIOS is taken to read a
sector in the end, since stage 1 retries for ever. The Udbfs and NoBlame runs
check safety only and assume nothing.

## 4. The properties

Ring queues: `LinksInverse`, `LinksFollowPlaces` (the links lead through exactly
the nodes the calls put there, in the promised order), `OrderedRings`,
`FailsOnlyOnMisuse` (the sanity checks reject a node linked twice or removed
while unlinked, and nothing else), `KeepsPromise` (refinement of `RingSpec`),
`SearchEnds`.

Avalon: `TimerRingHoldsArmed` compares the links with the set of timers whose
registration completed, wherever interrupts fell; `NoTimerMissed` says that
when the handler returns no registered timer is due, although it stops at the
first that is not; `TimersAnswered` (a deadline ends a thread's running on);
`SetTimeTakes` (the time set is the one read at some moment of the call);
`PitMatchesClock` (clock and PIT change resolution together);
`DriftWorkedOff` (what is taken from the drift is what is added to the clock,
within the rate); `ThreadsConserved`; `HandedOutOnce`.

udbfslib: `FilesReadBack` (size and every word of every file of the client,
through the tree as it is in memory or as opening would load it), `OneOwner`
(no block shared, used twice, outside the device, among the system's or free),
`CountsCovered`, `ListsOpenInodes`, `MetaBlocksKept`, `FreesItsInode`.

Iridia: `WalkFindsClients` (however far a removal has come, a walk from the head
meets exactly the connected clients); `MasksMatchRings` (a connected client's
line can be delivered, at both PICs and through its vector, and a line that is
empty when all calls have returned is masked); `KeepsIrqPromise` (refinement of
`IrqSpec`); `DeliveryEnds`; `InterruptReturns`, which does not hold. Since it
does not, an execution of the model delivers one interrupt to clients and stops
in `CycledRing`; the other properties are about that delivery and everything
that can happen before it.

NoBlame: `BlocksInside`, `BlocksDisjoint`, and `ContentsKept` (what was written
to a block, its header, and what reallocate carried over, stays).

Boot image: `ImageSound` (with `MemoryAsLinked`: each section is in memory where
it was linked and none has damaged another), `ProgramStarts`.

From mkudbfs to stage 2: `FormattedForUdbfs` (the size is found to the byte; the
device mounts; boot sector, superblock, inode table, bitmaps and files are
apart, inside the device and marked taken, and bits and counts agree, after a
stop half-way too), `RootTableWhole` (columns on natural boundaries, and the
library reads every block of the table along its own paths), `InstallKeepsDisk`,
`ImageLoaded` (stage 2 is entered with the blocks of the image installed last,
in order, followed by what a longer older one left), `EndsInStage2`.

## 5. Proofs

TLAPS proves every safety invariant and action property that a passing run
checks, for every value of the constants that satisfies the modules' named
assumptions. Each module of proofs has one or two inductive invariants, one
lemma per action that the invariant is kept, and theorems that read the
properties off.

| Module | Theorem | States | Under |
|---|---|---|---|
| `RingQueueProofs` | `TypeCorrect` | `TypeOK` | |
| | `LinksStayInverse` | `LinksInverse` | |
| | `LinksStayInPlace` | `LinksFollowPlaces` | |
| | `RingRefinement` | `KeepsPromise`: the pointers implement `RingSpec` | |
| | `NoProperCallFails` | `FailsOnlyOnMisuse` | |
| | `OrderedByLowWord` | `OrderedRings` | all ordering values have one high word |
| `NoBlameProofs` | `FrameStaysInRange` | `TypeOK` | no "wraps", no "overlap" |
| | `HandedOutInside` | `BlocksInside` | same |
| | `HandedOutDisjoint` | `BlocksDisjoint` | same |
| | `OwnersKeepContents` | `ContentsKept` | same |
| `IridiaProofs` | `WalksFindClients` | `WalkFindsClients` | `Allow = {}` |
| | `MasksFollowRings` | `MasksMatchRings` | same |
| | `IrqRefinement` | `KeepsIrqPromise`: the handler implements `IrqSpec` | same |
| `UdbfsProofs` | `Invariance` | the inductive invariant | `Heeding` |
| | `StateTyped` | `TypeOK` | same |
| | `FilesIntact` | `FilesReadBack` | same |
| | `OwnersUnique` | `OneOwner` | same |
| | `CountsHold` | `CountsCovered` | at most "free" allowed |
| | `ListLeads` | `ListsOpenInodes` | `Heeding` |
| | `MetaSafe` | `MetaBlocksKept` | same |
| | `FreesIt` | `FreesItsInode` | same |
| `AvalonProofs` | `TimersInvariant` | the inductive invariant | `Careful` |
| | `SchedulerTyped` | `TypeOK` | same |
| | `TimersRinged` | `TimerRingHoldsArmed` | same |
| | `TimersNoticed` | `NoTimerMissed` | same |
| | `TimeSet` | `SetTimeTakes` | same |
| | `PitFollowed` | `PitMatchesClock` | counts of 15 bits |
| | `DriftCorrected` | `DriftWorkedOff` | a positive drift |
| | `NoThreadLost` | `ThreadsConserved` | boot pools all different |
| `BootImageProofs` | `BootImageIsSound` | `ImageSound` | no "empty_section", "tiny_bss", "unsorted" |
| `UdbfsBootProofs` | `MkudbfsFormats` | `FormattedForUdbfs` | no "tiny_device", "junk", "killed_late" |
| | `RootTableIsWhole` | `RootTableWhole` | same, and no "odd_block" |
| | `InstallKeepsFileSystem` | `InstallKeepsDisk` | no "tiny_device", "junk", "killed_late" |
| | `StageOneLoadsImage` | `ImageLoaded` | same, and no "other_blocks" |

The hypotheses that name a use or a range of numbers are limits of the code:
section 6 says what goes wrong outside them. One is a limit of the proofs: the
theorems about timers leave the correction of a drift out, and so does the run
`avalon_timers`.

### Ring queues

*Assumptions*: the members are finite and no member is a head, `NoRing` is no
head, the ordered rings are some of the heads, keys are pairs of words
(`MemberAssumption`, `NoRingAssumption`, `OrderedAssumption`, `KeyAssumption`).

*Argument.* None of the listed invariants is inductive alone. That a removal
keeps the links inverse needs only `LinksInverse`; that it closes the gap in
the places needs to know that places on one ring are different and fill
`1 .. Length`, and that a search in progress inserts at the place it reports
needs to know where the search stands. The inductive invariant is

    RingInv == TypeOK /\ LinksInverse /\ LinksFollowPlaces /\ Places /\ SearchStands

`Places` says that heads are at place 0 of their own ring, that members of a
ring have different places between 1 and its length; `SearchStands` that the
node being linked is still on no ring and that `edx` and `ecx` are neighbours
on the ring being searched, so the check inside the loop cannot fail. The
lemmas `LinkBehind` and `Unlink` give the effect of linking a node behind
another and of removing one on all five parts at once; every call is an
instance of one of them (`insert_before` r is linking behind `prev[r]`), so
`StepRingInv` has one step per action. `LengthNat`, `LengthInserted` and
`LengthRemoved` say how the length of a ring changes, from the cardinality
theorems of finite sets. The refinement and `FailsOnlyOnMisuse` follow step by
step from `RingInv`. The order is a second invariant on top of it (`OrderInv`:
the ring is ordered, and everything passed by a search is at most the new
value); its step uses that `StopsBefore`, the comparison the code makes, is the
64 bit comparison when the high words agree; section 6 has an example of two
nodes that shows the assumption to be needed.

### NoBlame

`MemoryInv` says of a call between its read and its store of `memory_frame`
what it still knows then (`Waiting`): `eax` is the frame as it is now less the
size rounded up, and the block a reallocation replaces lies in memory, holds
what its owner wrote and meets no other block. Every block held lies at or above
both the frame and the bottom, starts at a multiple of 4 and has its contents.
Two requests of the same frame, or a size that wraps, would break exactly this.

### Iridia

`IridiaInv` gives, for every point of `irq.disconnect`, which links agree: a
client is *half out* between the two stores of its neighbours' links, and there
alone `prev` of the right neighbour does not point back (`LinksPaired`); what a
call has read still holds when it is used (`Holds`, `CallsApart`); a line that
is empty but not masked is one that a call is about to mask (`LinesMasked`).
That the handler's walk ends and visits exactly the clients needs more than
pointers that agree locally: a ring of clients beside the head would agree as
well. The invariant excludes it by a number for each client that rises along the
forward links (`Climbs`). The walk, `Ahead`, is a recursive function of the
number of links followed; its values are found by induction on that number. The refinement
shows that no store of a removal changes what is ahead of the walk, but the one
that takes out a client that is not being called.

### udbfslib

The client is one that heeds the known limits (`Heeding`): one inode open at a
time, no growth of a reopened short file, no create without a free inode, no
write without room for its index blocks, and inodes freed only where
`deallocate_bit` finds the right bit. It may die anywhere; between the saves of
an unmount ("torn_unmount") only if both counts are multiples of 8.
Section 6 says why that is needed.

    UdbfsInv == Shapes /\ MapsMounted /\ MapsSaved /\ OneOpen
                  /\ FilesKept /\ FilesSecure /\ MetaBlocksKept

`FilesKept` says of each file, through the tree it would be read with: every
position below its size has a block of its own on the device, blocks behind the
last have none and index blocks are where something is below them (`Whole`); the
words are there (`Written`); and nobody else, nor the bitmap in use, has these
blocks. `FilesSecure` says the same of the files the client has not grown since
the mount, through the inode table and the bitmaps *on the device*, which is
what a crash leaves. `MapsSaved` follows the three saves of an unmount. After one
that was cut off the free counts may be anything: then `Covers`, what is known
of a bitmap in use, no longer bounds the count, and an allocation still gives a
free block of the device because the bitmap has no others. Where no unmount is
cut off it is the count alone that keeps the bits past the end from being
allocated.

The first section of the module has the facts about trees, for every block size: the
paths are the tuples of one to four numbers below the bounds of their level, each position
is in exactly one data path (`Offsets`, by division), and a tree that is saved
is loaded again (`RoundTrip`), since the stores of different index blocks go to
different blocks. `Placed` is the contract of one turn of the write loop: the
block chosen contains the cursor and the tree will hold the file up to any end
within that block. `TargetPlaced` proves it for the block already there and for
each of the allocations of up to four blocks, `WriteInv` from it that a turn
keeps the invariant.

### Avalon

`Careful` says that the client makes none of the uses in `Uses`, corrects no
drift, and that `2 * MaxTicks + PitLimit < Word`: all times have one high word.
Beyond that `link_ordered_64` compares wrongly and reads of the clock in two
halves are torn (section 6), and both kinds of statement are false. How many
threads, pools, timers and interrupts there are, and what the constants of the
clock are, is arbitrary.

`TimerInv` says while the machine runs:

- `RingWhole`: the links are one ring of the armed timers in the order of their
  times. Between the two stores of an insertion they are not. `Links` is the
  ring with the missing store made and `Ring` the armed timers with the new
  node; it is they that make an ordered ring, and the handler, which follows the
  forward links and tests a backward link before it removes, either finds
  nothing due before the new node or stops in its sanity lock;
- `Armed`, `Loose`, `ReadyRing`, `ThreadsOut`: every other node loops back, but
  for the ready ring, and nodes of threads nobody has are loose, so
  `thread.acquire` may reset them;
- `Arguments`, `Place`: what `thread.schedule` carries from store to store: its
  two nodes are not armed, and the place of the search is between neighbours,
  behind timers that are not later;
- `ClockInCall`, `Reading`: no expiry that is being computed exceeds a word, and
  a half that was read is still the half of the time it was read at.

A ring is stated by a sequence that goes round it (`InOrder`), and linking a node
into one (`LinkInOrder`) by the sequence with the node inserted: no recursion is
needed. `PitInv` shows that when the handler returns the first timer is not due
and that, by the order, no other is; `RingIsSequence` makes the sequence one of
`SetToSeqs(armed)`. `AdjustExact` is the arithmetic of `set_uuutime` modulo 2^64.

The other three theorems hold for every `Allow`. They do not mention the rings,
and have invariants of their own: `PitGood` (the count waiting to be programmed
has 15 bits), `DriftGood` (the drift stays below half a word, also between the
two stores of a new one, and a call under way has such a drift) and `PoolGood` (a
pool that was not added has no free thread; a thread that is held is of one that
was). `SubAdd` says that what the clock gained beside the ticks of the interrupt
is the step, wherever 2^64 is passed; `StepBounds` that the signed comparison of
low words picks the lesser of step and rest.

### Boot image

*Assumptions*: programs are sequences of sections, both buffers have at least a
byte, the heap ends at or above the code, and every loadable section lies in
memory (`ProgramsAssumption`, `BufferAssumption`, `HeapAssumption`,
`RamAssumption`).

`ImageSound` speaks of the end of a run of two programs, so `IInv` has a part for
every point of each. While the image is written, the spans in front are whole
(`Spans`: each at the place where the one before it ends, its header with the
address and size of its section, its cells the stream of that section), and the
span being written has its header and as much of the stream as zlib has handed
out, in the image or still in the output buffer. When the stream ends, the size
word is stored back at `size_at`, and `SpanDone` adds the span. While the image
is read, the place of the unpacker is the start of a span, all sections in front
are in memory as linked, and nothing of a section behind is needed yet: the fill
loop writes past the end of a section, which the next section, at a higher
address, repairs (`FilledCovers`, `Below`, `SectionLoaded`). This is where the
order and the smallest size of the fill are used. That the heap has room for all
spans ("many_spans") is not needed: without room the program is not entered.

### From mkudbfs to stage 2

*Assumptions*: a device has less than 2^31 bytes, the width of an offset in the
tools, and the size asked for fits on it (`DeviceAssumption`); the first stride
is not 0 (`FormatAssumption`); a root table is any sequence of columns
(`TablesAssumption`); the BIOS reports 1 to 63 sectors and 1 to 256 heads
(`BootAssumption`). Every size of the device, the table and the image, and any
number of installations, is covered.

The programs are deterministic but for their inputs, and the invariants say
exactly what they have done. `FInv` gives, for every `pc` of mkudbfs, the
superblock, both bitmaps and the set of extents on the device as functions of
the size, the chosen block size and the columns (`Formatted`); while the size is
searched, that it is at most two strides above what was found. `VInv` gives the
volume after any installation (`InstalledAt`: the tree of the longest image so
far, with the version of each block, beside what mkudbfs wrote), and the
registers of stage 1 at each turn of its loop (`CpuAt`: `bp` blocks are in
memory, in order, and `bx`, `si`, the operand that counts the entries of the
double indirect block and the index block loaded last are the ones that `bp`
determines).

What has to be shown then is arithmetic about trees. `Place` and `LibPlace` give
the number of each block of a file: mkudbfs allocates an index block in front of
the first block below it, the library behind it. `PlacesApart` says that two
places of a tree never get one number and `PlaceBounds` that the first n blocks,
with their index blocks, stay inside the interval of as many numbers: with the
regions of the layout next to each other it follows that nothing is written
twice and that bits and counts agree. `ExtendedIs` says that growing a tree by an
installation over a shorter image gives the tree the longer one would have had
at first. `RootReads` compares the places of mkudbfs, which counts down, with the
library's, which divides, through all four levels. For stage 1 the same places
are compared with a third computation, by the counter `bx` that runs down from 69
and is reloaded with 64 (`FetchAny`, `TurnLoads`).

The hypotheses are limits of the code (section 6). `InstallKeepsFileSystem` says
more than its run: it holds for all five block sizes, while the run installs only
where stage 1 can load.

### Induction

The library's induction theorems have an operator as a parameter and cannot be
used. `NumberLemmas` gets by without them: a finite set that has, with a number,
all smaller ones is an interval because its cardinality leaves no choice
(`InitialSegment`), so a set of numbers has a least one (`LeastNumber`), so a
*set* that has 0 and all successors has all numbers (`SetInduction`,
`BoundedInduction`), so a step can be repeated any number of times
(`IterationExists`): a recursive function over `0 .. n` exists. Iridia's walk
and the walk over the list of opened inodes rest on these. The recursive
functions of a file's tree have four levels at most and are unrolled
(`LoadedEquation`, `AllocsExist`).

### Only model-checked

Liveness, which is out of the prover's reach: `SearchEnds`, `TimersAnswered`,
`DeliveryEnds`, `ProgramStarts` and `EndsInStage2`.

## 6. Where code and documents disagree

With a run each (`findings` of `PROJECT.json`): `avalon_release` and
`iridia_return`.

Met while modelling, without a run of their own. Each is in the model, kept
from happening by the constants of the passing runs:

*Ring queues*

- `link_ordered_64` compares the low words even when the high word of the new
  node is the greater one (ring.asm:193; 154 speaks of a 64 bit value): with keys
  1:0 and 0:0, `OrderedRings` fails after two insertions.

*Avalon*

- Changing the resolution stores both words of the time into the high word
  (`TIMER_R_EXEC`, avalon.asm:242, 1595): the timer is put first on the ring
  with a time far in the future and hides all others. When it is taken out,
  the scan goes on behind the next node (`remove` leaves that node in `ebx`,
  1750), so one timer is skipped and the head may be read as a timer. With
  "change_resolution" allowed beside timers `NoTimerMissed` fails. This is why
  resolutions and timers are in different runs.
- "lock_2" is reached when an interrupt falls between the two stores of a node
  that is already due.
- `get_uuutime` reads the clock in two halves; a carry in between violates
  `SetTimeTakes` once the ticks pass a word.
- A negative drift, or one of 2^31 and more, moves the clock by almost 2^32
  ticks; `__set_timer` keeps 15 bits of a resolution accepted up to 65535
  (778); `set_timer_resolution` passes on the low half of a product whose high
  half holds the ticks.
- The start time of init is stored at address 0; the frame built by
  `thread.initialize` has no code segment for `iretd`, so a thread that never
  ran cannot be resumed; the procedures for expiring and ready threads are an
  endless loop (843).

- A timer registered before the first interrupt can be linked to the boot
  resolution timer while the interrupt removes that (avalon.asm:1329; 444 calls
  the ring "containing all scheduled threads"). With "early_schedule",
  `TimerRingHoldsArmed` fails.

*Iridia*

- `irq.connect` of a client that is already linked returns to the flags it
  pushed (240). With "connected", `DeliveryEnds` fails.
- `irq.disconnect` is safe against interrupts as long as no other call on the
  same line overlaps ("same line": all four properties fail), nor one that
  changes the mask of the same PIC between its `in` and `out` ("same mask":
  `MasksMatchRings`).
- Given another line than the client's, it masks or leaves open the wrong one
  ("other line"); connecting to and disconnecting from line 2 masks the slave
  ("cascade"); a handler set for a line with clients, as Avalon does for the
  timer, takes their interrupts away ("taken"): `MasksMatchRings` fails.

*NoBlame*

- A size that wraps around is granted ("wraps": `TypeOK`, `BlocksInside`,
  `BlocksDisjoint` fail). Two threads between read and store get one block
  ("overlap": `BlocksDisjoint`, `ContentsKept`).
- allocate reports a lack of memory as "other", and reallocate then returns with
  three words on the stack (noblame.asm:44, 156). "a size under 4 is an error"
  (27), but 4 is refused too (42).

*Boot image*

- The loop meant to sort the sections does nothing (mkuuubimage.c:342), an empty
  section ends the image instead of being skipped (374), the end of a fill
  overruns (boot.asm:231). With "unsorted", "empty_section" or "tiny_bss",
  `ImageSound` fails; in address order the overrun of one section is repaired
  by the next. `free` does nothing, so a program of many sections does not
  start ("many_spans": `ProgramStarts`).

*mkudbfs and stage 1*

- A file that needs one more block than a level holds loses that block
  (mkudbfs.c:528; "odd_block": `RootTableWhole`). The root table of mkfs has 840
  bytes, at most four blocks.
- The boot loader inode is not initialised (202; "junk"); the superblock is
  written before the bitmaps (291; "killed_late"); on devices of less than 64
  blocks the last byte of the block bitmap lacks bits ("tiny_device"). In all
  three `FormattedForUdbfs` fails.
- Stage 1 handles blocks of 512 bytes only: it loads the double indirect block
  512 bytes below itself (stage1.asm:240). mkudbfs chooses other sizes from 256
  to 4096. With "other_blocks", `ImageLoaded` fails. An empty file is loaded for
  ever (301), and the high word of a block number is not shifted (383).

*udbfslib*

- With two inodes open, any close leaves a pointer to a freed one in the list
  (unlink.c:44 stores into the removed node; "two_open" with two handles:
  `ListsOpenInodes`).
- The bit of an inode to be freed is computed with `& 0x03` (free_inode.c:69):
  freeing inode 4 frees inode 0 ("free_any": `FreesItsInode`).
- A file of less than four blocks that is reopened and continued is written to
  block 0 of the device (open_inode.c:44; udbfs.sgml:445 says "A Block ID of 0
  means no block has been assigned."; "grow_reopened": `MetaBlocksKept`).
- A create without a free inode frees the structure that is already linked
  (create_inode.c:31; use "create_when_full").
- A missing index block on a full device is not noticed, and the index block
  goes to block 0 (write_to_inode.c:330; use "index_when_full").
- Freeing an inode does not raise the free count (free_inode.c:75; the
  documentation, udbfs.sgml:262, has the count be the number of free inodes).
  Hence `CountsCovered` claims only "not more than" for inodes.
- The signature is written back at unmount without having been read at mount
  (mount.c:225; udbfs.sgml:373).
- A crash between the saves of an unmount (mount.c:199 to 244) leaves a free
  count that is higher than the number of free blocks (udbfs.sgml:252 wants them
  equal). `allocate_bit` then goes on to the bits behind the last block, which
  mkudbfs leaves set on a device of 64 blocks or more, unless their number is a
  multiple of 8 (mkudbfs.c:326; udbfs.sgml:382 has the bits of blocks "past end of
  disk storage" be 0), and a file gets a block that is not on the device. With
  9 blocks instead of 8, 6 of them the system's, in `UdbfsCrash.cfg`, `OneOwner`
  fails; where there are no such bits no file is harmed (`udbfs_crash`, and
  `FilesIntact` for every such device).

## 7. Not modelled

- *Device drivers.* The floppy, ATA, keyboard and display code of stage 2, its
  command line, the switch to protected mode, and diable are input and output
  with no state beyond the device's; a model would restate the device.
- *Stage 2's copying of ELF segments* and the multiboot header: one pass over
  data that the linker made.
- *The hash* is a pure function of a byte string that nothing uses yet, and the
  `dec_ref` macro is expanded nowhere.
- *The virtual file system and the tables of udbfslib* have no bodies yet.
- *In udbfslib and mkudbfs*, failing `malloc`, device errors and a mount that
  fails half way (which works on uninitialised memory, mount.c:156). A crash
  between any two writes, which loses the same ones, is modelled.
- *Vendored code*: `snap`, by far the largest part of the tree, is a graphics SDK of
  its own (SciTech) that no component here is built with; `uuu/lib/c` is a copy of
  dietlibc. Neither holds logic of this system.
- *Avalon after a context switch*, since none can succeed (section 6), and Iridia
  after an interrupt with clients, for the same reason. Avalon's handler is put
  straight into its vector (avalon.asm:712), so the two share only the table.

## 8. What could follow

1. The theorems about Avalon's timers together with the correction of a drift,
   which moves the clock by more than a tick in one interrupt.
2. Device errors in udbfslib, once the code does more than print them.
