# miyabi: a TLA+ model of the kernel

miyabi is a small x86-64 kernel in C and assembly, started by the Limine boot
protocol on one CPU.  This directory holds TLA+ modules translated from its
source, TLC configurations that check them on small instances, and proofs that
TLAPS checks for all instances.

Contents: [inventory](#inventory) · [modules](#modules) · [runs](#runs) ·
[fairness](#fairness) · [proofs](#proofs) ·
[disagreements](#where-the-code-disagrees-with-its-documents) ·
[not modelled](#what-is-not-modelled) · [plan](#plan)

## Inventory

Paths are relative to the repository; `_start` is in `src/main.c`.

| Part | State | Operations | Correct when |
|---|---|---|---|
| Physical pages, `src/mm/pmm.c` | the bitmap, its address, `page_count` | `init_pmm`, `pmm_alloc` (there is no free) | each page of RAM is given away once, nothing else ever is, NULL only when nothing is left |
| Page tables, `src/mm/vmm.c` | the tables, `pml4` (the tree that is edited), CR3 (the tree that is used) | `vmm_map_page`, `vmm_unmap_page`, `vmm_virt_to_phys`, `vmm_create_user_pml4`, `vmm_switch_pml4`, ranges | a call changes the one page it names, in the space it is meant for; spaces share the kernel half and nothing else; rights are those asked for |
| Heap, `src/mm/heap.c` | list of block headers, `heap_end` | `init_heap`, `kmalloc`, `kfree`, `heap_expand` | callers' memory is disjoint; the list has no gaps; freed memory can be used again |
| Threads, `src/arch/x86_64/thread.c`, `switch.asm` | `thread_queue_head`, `running_thread`, `next`, `state`, saved stacks | `init_scheduler`, `kthread_create`, `kthread_exit`, `schedule` | no thread is lost, none runs after it has ended, every ready one gets its turn |
| Interrupts, `irq.c`, `isr.asm`, `pic.c`, `pit.c`, `exceptions.c` | the controller's requests, mask and in-service bits; IF | dispatch, EOI, `iretq`; the dump of registers | each handler acknowledges its own interrupt; none is shut out for ever |
| Screen, `src/drivers/fb.c` | `cursor_x`, `cursor_y`, `default_fg`, the frame buffer | `put_char`, `scroll`, `clear`, `printf` under `fb_lock` | messages are whole; the screen shows the last lines |
| Keyboard, `keyboard.c` | port 0x60 | the handler reads one scancode and echoes it | keys appear once, in order |
| Disk, `src/drivers/storage/ata.c`, `block.c`, `src/fs/part/mbr.c`, `gpt.c` | the table of block devices, the drive's registers | `block_read`, `register_block_device`, `mbr_parse`, `gpt_parse` | the caller gets the sectors it asked for, unless an earlier read was given up, and always an answer |
| Files, `src/fs/`: `vfs.c`, `initramfs.c`, `devfs/devfs.c`, `fd.c`, `ext2/ext2.c` | nodes, mount points, fixed tables (128 nodes, 32 devices, 16 descriptors) | `init_initramfs`, `vfs_get_node_by_path`, `vfs_mount`, `vfs_read`, `devfs_register`, `init_fds`, descriptors | a path finds its own node, with its own bytes; a full table refuses |
| Kernel modules, `src/modules/loader.c`, `ksym.c` | the file, the module's memory, its relocations | `load_module_from_file`: check, place, relocate, call `module_init` | nothing is written outside the module; nothing unresolved is run; every refusal gives back what was acquired |
| ELF programs and system calls, `src/elf/loader.c`, `src/syscalls/syscalls.c` | a user address space | `elf_load`, `sys_write`, `sys_exit` | each segment's bytes are where its headers put them; a write reaches the screen through an open descriptor only |
| Command line, `src/cmdline.c` | `DEBUG`, `boot_modules` (8 paths) | `read_boot_cmdline`, `check_flag`, `collect_boot_modules` | the modules named are loaded, in order, none cut or skipped |
| GDT, PCI, strings, fonts | none, or set once at boot | constant tables, copies | |

How they meet:

* **Calls.**  `kmalloc` grows through `pmm_alloc` and `vmm_map_page`, and
  `vmm_map_page` calls `pmm_alloc` again for tables; `kthread_create` calls
  `kmalloc`; `mbr_parse` and `gpt_parse` read through `block_read`;
  `load_module_from_file` reads through the VFS and resolves names in the
  kernel's table of exported symbols.
* **Shared state under interrupts.**  The timer calls `schedule` every 10 ms,
  between any two instructions of a thread whose interrupts are on.  The
  keyboard handler prints, through the same `fb_lock`, cursor and colour as the
  thread it interrupts.  `fb_lock` is the only lock.
* **Shared memory.**  The bitmap of `pmm.c` lies in memory that the bitmap
  itself describes.

What makes this hard to test: `spin_unlock` turns interrupts *on*, whatever
they were before, so that the boot runs with interrupts enabled earlier than
its text suggests and interrupt handlers become interruptible in their middle;
`schedule`, `kthread_create` and the boot's own steps interleave at the mercy
of the timer; `context_switch` does not save the flags, so that a thread's
interrupt flag depends on how it was entered; a late answer of a disk races
with the poll limit; and many walks over lists and tables have edges (page 0,
exact fits, full tables) that no ordinary boot reaches.  `PROJECT.json` lists
each such place with its line under `hazards`.

## Modules

One CPU executes the kernel, so concurrency means that an interrupt takes the
CPU between two steps.  Each module cuts its code into steps at the places
where an interrupt, another caller or a device can make a difference, and
leaves data out that no property distinguishes.

**Allocator** is the promise of the heap: an allocation adds a range that
overlaps none of the others, a release takes one away.

**Heap** is `heap.c`.  `hdr` maps addresses of headers to `heap_block_t`, and
`head`, `heap_end`, `current`, `last`, `size` are the variables of the code.
Each round of kmalloc's search (`KmallocSkip`, `KmallocTake`, `KmallocGrow`)
and of kfree's sweep (`KfreeMerge`, `KfreeAdvance`) is a step.  `heap_expand`
is one step: page by page it takes a frame and up to three more for page
tables, and halts the machine when there is none (`init_heap_halt`,
`KmallocHalt`, with the pages mapped up to then).  The callers are one thread:
two threads inside `kmalloc` at once are a hazard that no property covers, as
nothing creates a second thread yet.
`live` is history: what callers own.

**HeapProofs** holds the theorems about Heap.  The other modules of theorems are
**PmmProofs**, **SchedulerProofs**, **ElfProofs** (for Vmm and Elf),
**ConsoleProofs** (for Console and Exceptions), **DriverProofs** (for Ata,
Terminal with Printf, Disk and Ext2), **ModulesProofs** (for Modules and
Cmdline) and **VfsProofs** (for Vfs and Descriptors).

**Pmm** is `pmm.c`: `init_pmm` with its passes over the memory map (size of
the bitmap, its place, free pages, used pages), then `pmm_alloc`.  The
responses of the boot loader are assumed to be there.  `bitmap` is the set of
used pages and `grants` counts how often each page was given away.

**PhysMem** extends Pmm with the stores of the clients into the pages they
got (`heap_expand` and `alloc_page_table`), and therefore into the bitmap,
where bitmap and page coincide.

**Scheduler** is `thread.c` with the timer.  `op` says where each thread is
inside `init_scheduler` or `kthread_create`, `sched` where `schedule` is in its
walk.  `Tick` needs IF.  `rsp` says what a saved stack resumes: the `iretq` of
the interrupt, which restores IF, or the entry point, which does not.
`overtook` is history, for the fairness of the round robin.  `init_scheduler`
assigns two globals of which neither is volatile, so the compiler is free to
store either first; `SetHeadFirst` is a form that stores the head first.

**Terminal** is `put_char`, `scroll` and `clear`: a grid of cells and a
cursor.  `paper` and `row` are history: the text on paper without end.

**Printf** extends Terminal with the formatting of a message into `out_buf`,
directive by directive, and its characters on the screen.  Digits are computed
as the code does, by remainders that are negative for negative numbers.

**Console** composes Terminal with the locking in `printf`, the keyboard and
timer interrupts, the interrupt controller and the steps of `_start` that
unmask and enable interrupts.  `stack` is the stack of activations; `Deliver`
pushes a handler, `Iretq` pops it.  The controller keeps one request per line,
keeps lower priorities back while a handler is in service, and takes an EOI for
the highest one in service.  Messages are given formatted.

**Exceptions** extends Console with CPU exceptions.  `Exception` may come at
any instruction of the code between two messages or of `put_char`, in the boot
thread or in a handler.  The dump is a sequence of calls of `printf`, which
takes the lock and turns interrupts on, and of `print_hex64`, which does
neither and is therefore cut in two (`HexDraw`, `HexWrap`) where a handler can
find the cursor beyond the end of the line.

**Ata** is `block_read` and the driver's loop over sectors against a drive
that may be missing, answer, fail, or stay busy, at any time.  Sector contents
are their own numbers, which the registers cut to 28 bits; that a request lies
on the device nobody tests, and it need not.  A drive that has an answer to
fetch (DRQ) may take or ignore the command that is written to it, and any part
of the address, as ATA leaves that open.  `owed` is history: whether there was
such an answer, or one on its way, when `block_read` was called.

**Disk** is the device table and the search for partitions: `ata_init`,
`mbr_parse` and `gpt_parse`, with reads that may fail at each point, and
otherwise give the sector asked for (the case that `Ata` excepts is left out
here, and in Ext2).  Behind the partition array the disk goes on with any of a
set of sectors, which `gpt_parse` reads when the count tells it to.  A sector
buffer is represented by what the code reads from it: as a GPT header, and as
the bytes of entries that lie where the header's fields were.

**Ext2** extends Disk with `ext2_init` and the registry of file systems, and
with what `_start` does once the partitions are known: it looks `sda1` up and
calls `ext2_mount`, which reads a superblock and counts its groups in 32 bits.

**AddressSpaces** is the promise of the page tables: every space has a map from
pages to mappings, a step changes one page, of the kernel in every space and of
a user in the current one.

**Vmm** is `vmm.c`: `table` holds the page tables by frame, a call of
`vmm_map_page` is a walk (`walk`) that takes one level per step, as a new
table costs a frame and may halt the machine (`NewLevel`, `NewLevelHalt`,
`OldLevel`, `SetEntry`).  A page of `heap_expand` is here too (`HeapPage`).
`Translate` is the MMU's walk, against which `virt_to_phys` and the rights are
compared.

**Elf** extends Vmm with `elf_load` and the part of `_start` around it: the
user's PML4, the switches of CR3, one frame per page of each segment with its
bytes copied, the stack, the entry into ring 3.  `memory` holds the bytes of
frames that `elf_load` has filled.  Neither `elf_load` nor `_start` tests
`pmm_alloc` for NULL, so that frame 0 may be mapped and filled.

**Vfs** is the file system at boot: `init_initramfs` over the tar file, entry
by entry (`SkipExtended`, `AddEntry`, `TableFull`), with
`ensure_parent_dirs_exist`; then `_start` sets the root, registers the frame
buffer, mounts devfs and fills the descriptors.  Paths are sequences of names;
`vfs_get_node_by_path` is a fold over them.  A file's data is the number of the
block it begins at.  Archives are as tar writes them: only directories end in a
slash, and the name of a file is more than dots (`TarFile`).

**FileTable** is the promise of a table of descriptors.

**Descriptors** extends Vfs with what follows the boot: `fd_alloc`, `fd_close`
and the system calls, in any order.  `last` is the last call with its answer,
which is what FileTable speaks of.

**Modules** is the loader: sections, symbols and relocations of a file as the
loader reads them, one step per relocation (`ApplyEntry`, `RefuseEntry`) and
per exit.  `held` is what has been allocated and not freed, `patched` what the
relocations have stored.

**Cmdline** extends Modules with the command line: the search for the flag,
the scan that collects the paths, argument by argument, and the loop of
`_start` that loads them.  A text is a sequence of pieces (spaces, `--MOD=`,
`--debug`, other words).

The boot thus appears in six modules, each with the part of `_start` that
belongs to its component.  The parts follow one another, and meet in the heap
and in the screen only.

The modules named `MC...` give the constants their values for TLC.

## Runs

| Run | Module, configuration | Distinct states | Result |
|---|---|---|---|
| heap | MCHeap, MCHeap.cfg | 106,957 | holds |
| pmm | MCPmm, MCPmm.cfg | 2,014 | holds |
| physmem | MCPhysMem, MCPhysMem.cfg | | violated |
| elf | MCElf, MCElf.cfg | 98,881 | holds |
| scheduler | MCScheduler, MCScheduler.cfg | 5,810 | holds |
| printf | MCPrintf, MCPrintf.cfg | 52,046 | holds |
| console | MCExceptions, MCExceptions.cfg | 192,650 | holds |
| ata | MCAta, MCAta.cfg | 38,392 | holds |
| disk | MCExt2, MCExt2.cfg | 182,472 | holds |
| disk_gpt | MCExt2, MCExt2Gpt.cfg | | violated |
| vfs | MCDescriptors, MCDescriptors.cfg | 171,683 | holds |
| modules | MCCmdline, MCCmdline.cfg | 136,843 | holds |

An invariant that is named after its module (`HeapInv`, `VmmInv`, ...) is the
conjunction of the type invariant and of what keeps the module's data
structure whole; its parts have names of their own in the module.

**heap.**  Any sequence of calls.  `HeapInv` has the parts `Tiling` (the list
has neither gap nor overlap), `Owned` (callers' memory is theirs) and
`Coalesced` (behind the sweep no two neighbours are free).  `NothingLost`: when
all is freed one block is left.  `FirstFit`, `CallsReturn`;
`ImplementsAllocator` is the refinement.  Pages of 12 with headers of 3 and
sizes of 3 and 9 (rounded to 4 and 10) give blocks that split, blocks that fit
with too little left to split, growth of a heap whose last block is free or
taken, and four frames give every way to run out of them, in the heap or in its
page tables.

**pmm.**  All memory maps of four entries of four types with entries that end
inside pages, and every page of them allocated.  `GrantedIsRam`: what is given
away is whole RAM, never page 0, and each page once.  `NullMeansExhausted`, and
`PmmInv` (the bitmap has a place
of its own in usable memory and a bit for every page).  Bytes of two bits make
the bitmap take more than one page.

**elf.**  Up to two programs loaded one after the other, each into a space of
its own, while the heap grows and, between programs, pages are unmapped and
spaces switched.  `SegmentsLoaded`: each program finds its file's bytes and
zeros at the addresses of its segments, with the rights of their headers, and
keeps them whatever is loaded later; on a page that two segments share the last
one is whole, and frame 0 of an exhausted memory is excepted.  `VmmInv`: no
mapping of any space reaches a page table (`TablesOutOfReach`), no two user
pages share a frame (`UserFramesUnshared`, except frame 0), and
`vmm_virt_to_phys` agrees with the MMU (`LookupAgrees`).  `RightsAsAsked`:
tables that pages share take no right away and give none.  `ImplementsSpaces`
is the refinement.  Tables have two entries, of which one of a PML4 is the
kernel's.  Pages of three bytes let a segment begin and end inside a page, span
two, or lie within one.  The free frames are enough for the heap and for two
spaces with a page each, and few enough to run out at every level; a program
with six segments over the same pages leaves none for the next space.

**scheduler.**  Four threads are enough for a queue with a first, a middle and
a last member of which any may be dead, and for a creation that is preempted
at each step.  `SchedulerInv`: one thread is RUNNING, whatever is READY has a
stack, and a tick at boot finds a running thread whenever it finds a queue (the
order of init_scheduler's stores).  `NoThreadLost`, `DeadStaysDead`;
`RoundRobin`: nobody runs twice while another waits; `ServedIfInterruptible`:
each ready thread runs if the threads do not keep interrupts off.  That
condition is not empty: a new thread is entered by the `ret` of
`context_switch` with interrupts off, and if it computes without ever printing,
no tick takes the CPU from it.  One thread creates the others: two creators
would race for the tail.

**printf.**  All messages of three directives: every control character that
`put_char` knows, strings, numbers of eight bits.  `ShowsLastLines`: the cursor
is on the screen, which equals the last lines of the paper.  `MessageAsMeant`:
what lands in the buffer is what the directives stand for, cut where the buffer
ends, and only a number that begins at its end may write behind it.  Strings
with a line feed, and a buffer of six, fill a screen of three columns and two
lines, wrap, and scroll it.  The number of directives is bounded, so the run
may stop: it does not check deadlock.

**console.**  Up to two messages, two keys and one exception on a screen that
scrolls.  `MessagesWhole` (no message is torn, each has one colour, although
handlers set the default), `EchoInOrder`, `ConsoleInv` (what the controller
holds in service are the handlers that have not yet sent their EOI);
`PrintfReturns` (nobody spins for ever on a lock whose holder is underneath)
and `KeysAreRead`, both up to an exception.  `DumpHalts`: an exception prints
its dump to the end and halts, unless it came inside the lock.  `CursorSafe`:
the cursor leaves the screen only between the two halves of a `put_char`
without the lock.  Two keys let a keyboard handler be interrupted by a timer
and, after its EOI, by another keyboard handler; the dump has one call of each
kind and one after `print_hex64`.

**ata.**  A disk and a partition, and all requests of up to three sectors, in
28 bits (here three) and beyond.  `RightSectors`: every sector in the buffer is
the one asked for, except that the first sector of a read that follows one that
was given up may be an old one; and a read that succeeds leaves no answer
behind, so that it happens once for each read given up.  `AtaInv`: no command
is written to a busy drive, nor, but in that first round, to one that has an
answer to fetch.  `ReadsReturn`.  With a poll limit of two the drive answers
before, at and after the limit.

**disk.**  All tables of unused, Linux and protective entries.
`NamesFindPartitions`; `SuperblockOfSda1`: ext2 reads the superblock of the
first partition, through that partition's offset, and counts its groups (as
long as the sum fits in 32 bits); `BootGoesOn`: search and mount end, if only
in the exception of a division by zero.  The device table never fills: one disk
with four primary entries registers at most five devices of sixteen.

**vfs.**  All archives of up to three of ten entries, in any order: directories
and files, with and without their parents, a hidden name, an extended header,
files of less than, exactly and more than a block.  A table of five nodes fills
up at entries and in the middle of parents.  `FilesFound`: each file is found
by its path, with its own bytes, if the archive is one of a directory tree
(`OfATree`: no two entries of the same path), and no path finds another's node
(`OnlyItsOwn`).  `VfsInv`: every node can be reached (`NoOrphans`), and mounting
devfs gives `/dev/fb0` and hides all else below `/dev` (`StandardStreams`).
Archives with a `/test` then go on with descriptors and system calls:
`ImplementsFileTable` is the refinement, with three descriptors, all of which
the standard streams take at first, and addresses of four bits, for buffers
that end at the limit of user space, begin behind it, and wrap.

**modules.**  All command lines of up to five pieces and a few longer ones, with
up to two modules, paths of one character that fit and longer ones that are
refused.
`BootOptionsRead`: the modules loaded are the first that the line names by a
path that fits, in its order.  The files come out of all layouts of three
sections of several sizes and alignments, all pairs of relocations in small
ranges, and one file for each reason to refuse.  `ModulesInv`: everything
written lies inside the module's memory.  `PatchesReach`: a field of 32 signed
bits reaches its symbol, because kernel and heap lie in the topmost 2 GiB; in
the model fields have 8 bits and addresses 10, with the kernel and its heap in
the topmost 128.  `NothingLeaked`, `RunsWhole`.

What the bounds were chosen for is also said at the top of each `MC` module.

## Fairness

* Heap, Ata: the code inside a call keeps executing.  The drive need not do
  anything: polls are bounded by the code.
* Ext2: weak fairness of the boot, which waits for nothing but a drive that
  answers or fails.
* Scheduler: `schedule` runs to its end, and strong fairness of `Tick`, because
  the controller keeps a request that arrives while interrupts are off.  What
  threads do is not assumed.
* Exceptions, for the console: strong fairness of the code of the thread, of the
  keyboard handler and of the dump, and weak fairness of the timer handler,
  because ticks are 10 ms apart and every activation proceeds between two of
  them; strong fairness of the keyboard's delivery, because requests are kept.

## Proofs

A run checks one small instance; the theorems hold for all values of the
constants that satisfy the assumptions named with them.

| Theorem | States |
|---|---|
| **HeapProofs** | |
| `Invariance` | `HeapInv` |
| `HeapTiling`, `HeapCoalesced`, `HeapLiveDisjoint`, `HeapNothingLost` | its parts, and `NothingLost` |
| `HeapFirstFit` | `FirstFit`, the action property of the run |
| `HeapImplementsAllocator` | `Heap` implements `Allocator` |
| **PmmProofs** | |
| `PmmInvariance`, `PmmGrantedIsRam` | `PmmInv`, `GrantedIsRam` |
| `PmmNullMeansExhausted` | `NullMeansExhausted`, if the kernel is linked above all physical memory |
| **SchedulerProofs** | |
| `SchedulerInvariance`, `SchedulerDeadStaysDead` | `SchedulerInv`, `DeadStaysDead` |
| `SchedulerNoThreadLost`, `SchedulerRoundRobin` | `NoThreadLost`, `RoundRobin`, if creations do not overlap |
| **ElfProofs** | |
| `VmmInvariance`, `VmmRightsAsAsked` | `VmmInv`, `RightsAsAsked` |
| `VmmImplementsSpaces` | `Vmm`, under its clients in `Elf`, implements `AddressSpaces` |
| `ElfSegmentsLoaded` | `SegmentsLoaded` |
| **ConsoleProofs** | |
| `ConsoleInvariance`, `ConsoleMessagesWhole`, `ConsoleEchoInOrder`, `ConsoleCursorSafe` | `ConsoleInv`, `MessagesWhole`, `EchoInOrder`, `CursorSafe` |
| **DriverProofs** | |
| `AtaInvariance`, `AtaRightSectors` | `AtaInv`, `RightSectors` |
| `ScreenShowsLastLines` | `ShowsLastLines` |
| `PrintfMessageAsMeant` | `MessageAsMeant` |
| `DiskNamesFindPartitions`, `Ext2SuperblockOfSda1` | `NamesFindPartitions`, `SuperblockOfSda1` |
| **ModulesProofs** | |
| `ModulesInvariance`, `ModulesNothingLeaked` | `ModulesInv`, `NothingLeaked` |
| `ModulesRunWhole` | `RunsWhole`, if `module_init` is in a section with memory |
| `ModulesPatchesReach` | `PatchesReach`, if files are compiled for the kernel's memory model |
| `CmdlineBootOptionsRead` | `BootOptionsRead` |
| **VfsProofs** | |
| `VfsInvariance`, `VfsFilesFound` | `VfsInv`, `FilesFound` |
| `DescriptorsImplementFileTable` | the calls of `Descriptors` implement `FileTable` |

### Assumptions

Most assumptions on constants say what kind of value they are.  The others are
conditions under which the code is right, which it does not check:

* `HeapNoWrap`: no sum that `heap.c` computes reaches the width of `size_t`.
  The code checks none of its additions, so that this is a condition on its
  callers and on the amount of memory.
* `KernelAboveMemory` (a hypothesis of `PmmNullMeansExhausted`): `init_pmm`
  compares link addresses of the kernel with physical ones, and with a kernel
  linked into the last two gigabytes that excludes nothing.
* `OneCreator` (a hypothesis of two theorems of the scheduler): of two walks of
  `kthread_create` to the same tail, the second link would lose the first
  thread.  `SchedulerInvariance` and `SchedulerDeadStaysDead` do without it.
* `ElfConstants`: a segment has no more bytes in the file than in memory, the
  stack's page is none of the program's, and no page has two numbers.
* `ModulesConstants`: what `kmalloc` gives a module lies in the topmost half of
  what a field can span, as `HEAP_START` (`heap.c:10`) does.  `InReach` (a
  hypothesis of `ModulesPatchesReach`): a file uses a signed field only for
  what lies there, which `-mcmodel=kernel` makes the compiler promise
  (`GNUmakefile:22`); `load_module` tests no value.
* `CmdlineConstants`: every piece of a line has at least one character.
* `PrintfConstants`: an argument is of the kind that its directive asks for.
* `ModuleFiles`: sections of an object file follow the format, and its memory
  lies below the end of the address space, so that the sum of their sizes does
  not wrap in 64 bits: `load_module` does not test that, and the size of a
  section without bytes in the file is any number.  That a relocation's symbol
  has a number below 2^31 is part of how Modules describes files.
  `InitInText` (a hypothesis of
  `ModulesRunWhole`): `load_module` does not ask whether the section that
  `module_init` is in was given memory.
* `DiskConstants`, `Ext2Constants`: the device table has room for a disk and
  its four primary entries; numbers on the disk fit in their fields.
* `VfsConstants`: archives are what tar writes (see Vfs above), and `/dev` is
  what `sanitize_path` makes of itself.

### The inductive invariants

**Heap.**  `Tiling` alone is not inductive, for two reasons.  A split or a
merge changes a block through the cursor of a walk, so the invariant must know
that cursors are on the list and, in kmalloc's walk, that `last` is the block
in front of `current` and that nothing behind it fits: `Walks`.  And the heap
grows at `heap_end`, which must be below the top of memory: `Paid` says that
each page was paid for with a frame.  Each list operation (`Carve`, `Link`,
`Absorb`, marking a block) has lemmas that say that it keeps a tiling a tiling
and what it does to ownership; the actions combine them.  `LiveDisjoint` and
`NothingLost` follow from the invariant, the second because a tiling without two
free neighbours and without a taken block has one block only.  The refinement
then needs, besides the invariant, only that the new range is inside the window
and disjoint from the others.

**Pmm.**  Once `init_pmm` has built it, the bitmap has a clear bit exactly for
the pages of usable and reclaimable memory that have not been handed out.

**Scheduler.**  `Core` says where the boot is, which thread is RUNNING and who
has a stack.  `Round(q)` says of the queue, taken as a sequence `q`, where the
walks of `schedule` and `kthread_create` and the round robin stand in it.

**Page tables.**  The tables of all spaces form trees that share the branch of
the kernel.  The invariant gives every table a home: its level, the space it
belongs to, and a page on whose way it lies; from the homes it follows which
walks an entry is part of, and so which mappings an assignment changes.

**Programs.**  `BytesInv` says which pages `elf_load` has mapped so far, and that
each holds the bytes of the last segment it was mapped for; as user pages share
no frame (`UserFramesUnshared`), what it writes reaches no other page and no
program that was loaded before.

**Console.**  `Shape` says which activation may stand where on the stack of
handlers, and that only below an exception does one hold `fb_lock`, or wait for
it, without being on top; `Story` what of each pending message has been shown;
`Cursor` where `put_char` leaves the cursor; `Keys` that what has been typed and
not echoed is what port 0x60 and the one keyboard handler hold.

**Drivers.**  Ata: the sectors read so far are those of the rounds so far, and
what the drive serves is what the driver waits for (`RoundsKept`), unless it
owed an answer when the read began and the buffer is still empty.  A round ends
with nothing left to fetch, which is why the exception is for the first one
only.  Screen: it
is the window on the last lines of the paper, and each character is a drawing, a
feeding of the paper and perhaps a scrolling, which keep it one.  Disk:
`Registered` is what `mbr_parse` has entered in the table so far.

**Messages.**  That `out_buf` is what the last format is formatted to
(`Printed`) is all the state there is; the rest is about operators.  A digit
more at the end of a numeral is the base times the number and that digit
(`ReadDigit`), and what `print_num_to_buf` divides off is read back, by
induction on how far the number is from zero (`OneMoreDigit`).  Round by round
of the loop the buffer is the text or a prefix of it, and all of it while there
is room (`Kept`, `PutKeepsUp`); a round that overruns the buffer is the last that
changes it (`Cut`).  The provers know of no literal that it is a string, so that
the proofs are about `Chars`, the strings and the characters that the code
writes.

**Modules.**  What is held at each step of the loader (`Holding`), where its
sections lie (`Laid`), which relocations have been made (`Patched`,
`Complete`).  That sections do not overlap is an induction along `Ends`.
`PatchesReach` is inductive as it stands: a patch is made once, and a signed
field that cuts off the upper half of an address in the topmost part of the
address space is extended to that address again (`SignedHigh`).

**Command line.**  `LineRead`: the scan stands at the end of an argument or at
the beginning of the line, and there is a list of all arguments before it, in
their order, from which `boot_modules` follows (`Found`).  One round adds what
lies between two spaces to the list (`OneArgument`), so that at the end it lists
all of them, and the ranks by which `Words` numbers them are their places in it
(`WordsAre`).

**Files.**  While `init_initramfs` runs it is at the header of some entry, and
all entries before that one have a node (`Walk`); every node of the table is a
file of the archive or a directory that an entry lies in, with the directories
above it in the table (`Content`); and `Phase` is what `_start` has set up so
far.  That headers never coincide, what `ensure_parent_dirs_exist` adds
(`Grown`) and where `vfs_get_node_by_path` goes are inductions along folds.  In a
tree nothing lies below a file, so that a path whose directories are in the
table leads to its node (`Led`); and the node that a step of the walk finds
carries the path walked so far (`OwnPath`), for which cleaning a path twice must
be the same as cleaning it once (`SanitizedTwice`).  The refinement of
`FileTable` needs the types only.

Folds, flattened sequences and recursive functions are dealt with by
induction over the naturals.  The library states induction with an operator as a
parameter, which the provers cannot instantiate; but it also states that `<` is
well-founded on `Nat`, and from that `Induction`, over a set of numbers,
follows.

### Only model-checked

* Liveness, which is out of the provers' reach: `CallsReturn`,
  `ServedIfInterruptible`, `ReadsReturn`, `PrintfReturns`, `KeysAreRead`,
  `DumpHalts`, `BootGoesOn`.
* The two statements under *Where the code disagrees with its documents*, which
  the code does not meet.

Every safety invariant and every action property of the other runs is the
statement of a theorem.

## Where the code disagrees with its documents

Two runs end in a counterexample, each against a sentence of the repository
that `PROJECT.json` quotes under `findings`:

* **physmem**: the last pass of `init_pmm` frees usable memory after the bitmap
  has been marked used, so the bitmap's own pages can be given away; the heap's
  stores then change bits, and a page is given away twice.
* **disk_gpt**: `gpt_parse` reads the partition array into the buffer that
  holds the header and takes the number of entries from there afterwards, so
  that an ordinary disk shows no partitions.

Observed while modelling, without a sentence they would contradict:

* Page tables and programs: the `NULL` tests of `vmm_unmap_page` and
  `vmm_virt_to_phys` compare an address of the direct map and never hold;
  `elf_load` does not test `pmm_alloc`, and of two segments that share a page
  the later one takes the earlier one's bytes and rights.
* Files and disks: `sanitize_path` stores `.x` as `x`, so that a hidden file and
  its namesake cannot both be reached; a directory that tar lists is in the
  table of nodes twice; `fd_alloc(NULL)` answers a descriptor that stays free;
  an ATA error stays set and fails every later read; `ata_wait_ready` does not
  look at DRQ, so that the answer to a read that was given up can be taken for
  the first sector of the next one, and reported as a success, by a drive that
  ignores commands until its data is fetched (as QEMU does); `block_read` does not
  test that a request lies on the device, and an address is cut to 28 bits;
  `ext2_mount` divides by a
  number from the disk, adds in 32 bits, and returns NULL when it succeeds.
* Screen: an exception inside `fb_lock` waits for ever before it has printed
  anything; the digits of negative numbers in `%x`, and of the smallest `int`,
  are characters below `'0'`; a number that begins at the end of `out_buf`
  runs over it; the loader prints a path as a format (`loader.c:324`).
* Modules and options: `load_module` aligns sections relative to memory that
  `kmalloc` aligns to 8 only, and stores relocations of type `R_X86_64_32` that
  no address of the kernel fits; it keeps the number of a symbol in an `int` and
  tests it from above only; `check_flag` finds its flag at the end of any
  argument; a system call with an unknown number answers that number.

## What is not modelled

* GDT and IDT, fonts and the build: constants.  PCI and `whatthefuck.c` have no
  callers.  The string functions are copies of the C library's; where one
  matters to a property (`memset` of a page, `memcpy` of a segment), the module
  that calls it has its effect.
* Programming the controllers and the timer at boot; glyphs.
* The TLB and huge pages; operations without a caller: the ranges of `vmm.c`,
  `set_cursor`, `vfs_mount_by_name`.
* What a module does once it runs; the texts of the exception's dump, which is
  shortened to calls of each kind.
* Vmm, Elf and Heap take `pmm_alloc` to give every frame once, which the real
  one does only as long as nobody writes to the bitmap (run physmem): what they
  show is what the code makes of a sound allocator.
* A missing response of the boot loader: `_start` halts without an initramfs
  (`main.c:135`), before any of Vfs begins.
* More than two places inside an unlocked `put_char` at which a handler may run:
  between the line wrap's stores, and inside `scroll`.
* The keyboard controller is modelled as far as the kernel sees it: reading port
  0x60 empties it and withdraws its interrupt request, on which the start of the
  boot relies in `Unmask`.
* The user part of `_start` lies behind a `goto` and is not reached in this
  build; Elf and Descriptors model it all the same.
* Everything under *Plan*.

## Plan

1. **Heap × Scheduler**: threads preempted inside `kmalloc`, once something
   calls `kthread_create`.
2. The boot as one sequence, with the programming of the controller and the
   timer.
