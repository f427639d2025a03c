-------------------------------- MODULE Elf --------------------------------
(***************************************************************************)
(* Loading a user program: elf_load (src/elf/loader.c) and the part of     *)
(* _start (main.c) around it, on the page tables of Vmm.tla.               *)
(*                                                                         *)
(* That part of _start stands behind a goto and is not reached today.  It  *)
(* runs one program; here another may follow, in a space of its own, as    *)
(* the functions that only it calls are made for.  Between two programs    *)
(* pages may be unmapped and spaces switched, and at any time but during a *)
(* call of vmm_map_page the heap may grow.                                 *)
(*                                                                         *)
(* A program's file is what elf_load reads of it: whether the header is    *)
(* accepted, the entry point, and the program headers.  Virtual addresses  *)
(* count from 0 through ProgramPages.  A byte of memory is 0 or the number *)
(* of a byte of the file.                                                  *)
(***************************************************************************)
EXTENDS Vmm, FiniteSetsExt

CONSTANTS PAGE,            \* bytes of a page (4096)
          Programs,        \* the files that "/test" may be
          ProgramPages,    \* the user's pages, in the order of addresses
          StackPage        \* user_stack_virtual

PageNumber(seg, p) == seg.vaddr \div PAGE + p

NumPagesWithoutOffset(seg) == (seg.memsz + PAGE - 1) \div PAGE
NumPages(seg) == (seg.memsz + (seg.vaddr % PAGE) + PAGE - 1) \div PAGE

\* A program header: load for PT_LOAD, w for PF_W.
Segment == [load : BOOLEAN, vaddr : Nat, memsz : Nat, filesz : Nat, offset : Nat,
            w : BOOLEAN]

ASSUME ElfConstants ==
  /\ PAGE \in Nat \ {0} /\ StackPage \in UserPages
  /\ ProgramPages \in Seq(UserPages \ {StackPage})
  /\ \A m, n \in DOMAIN ProgramPages : ProgramPages[m] = ProgramPages[n] => m = n
  /\ \A pr \in Programs : pr.segments \in Seq(Segment) /\ \A n \in DOMAIN pr.segments :
       LET seg == pr.segments[n] IN
         /\ seg.filesz <= seg.memsz
         /\ PageNumber(seg, NumPages(seg)) <= Len(ProgramPages)

VARIABLES run,             \* where _start and elf_load are, and their locals
          memory,          \* frame that elf_load has filled -> its bytes
          running          \* space that was entered -> the program in it

elf_vars == <<vars, run, memory, running>>

\* user and kernel are user_pml4_phys and kernel_pml4_phys, i and p the loop
\* variables of elf_load, frame its phys_frame, or the stack's.
NoRun == [at |-> "none", program |-> [entry |-> 0], user |-> 0, kernel |-> 0,
          i |-> 1, p |-> 0, frame |-> 0]

ElfInit == Init /\ run = NoRun /\ memory = <<>> /\ running = <<>>

Goto(where) == run' = [run EXCEPT !.at = where]

-----------------------------------------------------------------------------
(* _start, before elf_load *)

CreateSpace(pr) ==
  /\ run.at = "none"
  /\ vmm_create_user_pml4
  /\ run' = [NoRun EXCEPT !.at = "switch", !.program = pr, !.user = free, !.kernel = cr3]
  /\ UNCHANGED <<memory, running>>

NoSpace == run.at = "none" /\ NoUserPml4 /\ UNCHANGED <<run, memory, running>>

SwitchToUser ==
  /\ run.at = "switch"
  /\ vmm_switch_pml4(run.user)
  /\ Goto("header")
  /\ UNCHANGED <<memory, running>>

-----------------------------------------------------------------------------
(* elf_load *)

Load == /\ run.at = "load" /\ Idle
        /\ run.i \in DOMAIN run.program.segments
Seg == run.program.segments[run.i]

\* An entry point of 0, which also means failure: _start goes on, and stays
\* in the user's space.
HeaderRefused ==
  /\ run.at = "header" /\ ~run.program.valid
  /\ run' = NoRun
  /\ UNCHANGED <<vars, memory, running>>

HeaderAccepted ==
  /\ run.at = "header" /\ run.program.valid
  /\ Goto("load")
  /\ UNCHANGED <<vars, memory, running>>

NextSegment ==
  /\ Load /\ ~(Seg.load /\ run.p < NumPages(Seg))
  /\ run' = [run EXCEPT !.i = @ + 1, !.p = 0]
  /\ UNCHANGED <<vars, memory, running>>

\* pmm_alloc and the call of vmm_map_page, for elf_load and for the stack:
\* neither looks whether pmm_alloc has answered NULL.
MapFrame(v, flags, then) ==
  /\ \/ /\ pmm_alloc /\ Call(v, free, flags)
        /\ run' = [run EXCEPT !.at = then, !.frame = free]
     \/ /\ pmm_alloc_null /\ Call(v, 0, flags)
        /\ run' = [run EXCEPT !.at = then, !.frame = 0]
  /\ UNCHANGED <<table, pml4, cr3, spaces, heap_end, halted, memory, running>>

SegmentFlags == IF Seg.w THEN {P, U, W} ELSE {P, U}

MapSegmentPage ==
  /\ Load /\ Seg.load /\ run.p < NumPages(Seg)
  /\ MapFrame(ProgramPages[PageNumber(Seg, run.p) + 1], SegmentFlags, "fill")

FileByte(n) == n + 1                   \* not 0
Zeros == [b \in 0..(PAGE - 1) |-> 0]

\* The page is cleared, and the part of the segment's file bytes that falls
\* in it copied to its place.
Filled(seg, p) ==
  LET page  == PageNumber(seg, p) * PAGE
      start == Max({page, seg.vaddr})
      end   == Min({page + PAGE, seg.vaddr + seg.filesz})
  IN  [b \in 0..(PAGE - 1) |->
         IF start <= page + b /\ page + b < end
         THEN FileByte(seg.offset + (start - seg.vaddr) + (page + b - start)) ELSE 0]

\* The page in this frame has these bytes from now on.
Write(frame, bytes) ==
  memory' = [f \in DOMAIN memory \cup {frame} |-> IF f = frame THEN bytes ELSE memory[f]]

FillPage ==
  /\ run.at = "fill" /\ Idle
  /\ Write(run.frame, Filled(Seg, run.p))
  /\ run' = [run EXCEPT !.at = "load", !.p = @ + 1]
  /\ UNCHANGED <<vars, running>>

\* elf_load returns the entry point.
Loaded ==
  /\ run.at = "load" /\ run.i \notin DOMAIN run.program.segments
  /\ run' = IF run.program.entry = 0 THEN NoRun ELSE [run EXCEPT !.at = "stack"]
  /\ UNCHANGED <<vars, memory, running>>

-----------------------------------------------------------------------------
(* _start, after elf_load *)

MapStack == run.at = "stack" /\ Idle /\ MapFrame(StackPage, {P, U, W}, "zero")

ZeroStack ==
  /\ run.at = "zero" /\ Idle
  /\ Write(run.frame, Zeros)
  /\ Goto("back")
  /\ UNCHANGED <<vars, running>>

SwitchToKernel ==
  /\ run.at = "back"
  /\ vmm_switch_pml4(run.kernel)
  /\ Goto("again")
  /\ UNCHANGED <<memory, running>>

SwitchAgain ==
  /\ run.at = "again"
  /\ vmm_switch_pml4(run.user)
  /\ Goto("enter")
  /\ UNCHANGED <<memory, running>>

switch_to_user_space ==
  /\ run.at = "enter" /\ Idle
  /\ running' = [s \in DOMAIN running \cup {cr3} |->
                  IF s = cr3 THEN run.program ELSE running[s]]
  /\ run' = NoRun
  /\ UNCHANGED <<vars, memory>>

-----------------------------------------------------------------------------

\* A call of vmm_map_page under way, or the heap.
KernelStep ==
  /\ NewLevel \/ NewLevelHalt \/ OldLevel \/ SetEntry \/ HeapPage \/ HeapPageHalt
  /\ UNCHANGED <<run, memory, running>>

BetweenPrograms ==
  /\ run.at = "none"
  /\ \/ \E v \in UserPages \cup (KernelPages \ {ImagePage}) : vmm_unmap_page(v)
     \/ \E root \in spaces \ {cr3} : vmm_switch_pml4(root)
  /\ UNCHANGED <<run, memory, running>>

Halted == Stopped /\ UNCHANGED <<run, memory, running>>

ElfNext ==
  \/ \E pr \in Programs : CreateSpace(pr)
  \/ NoSpace \/ SwitchToUser \/ HeaderRefused \/ HeaderAccepted
  \/ NextSegment \/ MapSegmentPage \/ FillPage \/ Loaded
  \/ MapStack \/ ZeroStack \/ SwitchToKernel \/ SwitchAgain \/ switch_to_user_space
  \/ KernelStep \/ BetweenPrograms \/ Halted

ElfSpec == ElfInit /\ [][ElfNext]_elf_vars

-----------------------------------------------------------------------------
(* Properties *)

\* The last segment that maps page n is the one whose mapping stays.
LastMapper(program, n) ==
  Max({i \in DOMAIN program.segments :
         LET seg == program.segments[i] IN
           seg.load /\ n \in PageNumber(seg, 0)..(PageNumber(seg, NumPages(seg)) - 1)})

\* What the program finds at address a of its segment i, through CR3's tables.
ByteAsLinked(space, seg, a) ==
  LET m == Translate(space, ProgramPages[a \div PAGE + 1]) IN
    m # Absent /\ m.frame # 0 =>
      /\ memory[m.frame][a % PAGE] =
           IF a < seg.vaddr + seg.filesz THEN FileByte(seg.offset + a - seg.vaddr) ELSE 0
      /\ W \in m.flags <=> seg.w

(***************************************************************************)
(* When elf_load returns to _start and ever after, a program finds at each *)
(* address of each of its segments the byte of its file, or zero behind    *)
(* the file's bytes, writable if its header says so, wherever segments     *)
(* begin and end inside pages.  Excepted is a page that a later segment    *)
(* has mapped again: it keeps that segment's bytes and rights only.  And   *)
(* frame 0, which pmm_alloc answers when no memory is left.                *)
(***************************************************************************)
SegmentsLoaded ==
  LET Whole(space, program) ==
        \A i \in DOMAIN program.segments :
          LET seg == program.segments[i] IN
            seg.load => \A a \in seg.vaddr..(seg.vaddr + seg.memsz - 1) :
                          LastMapper(program, a \div PAGE) = i => ByteAsLinked(space, seg, a)
      Mapped(space, program) ==
        \A i \in DOMAIN program.segments :
          LET seg == program.segments[i] IN
            seg.load => \A a \in seg.vaddr..(seg.vaddr + seg.memsz - 1) :
                          Translate(space, ProgramPages[a \div PAGE + 1]) # Absent
  IN  /\ run.at \in {"stack", "enter"} =>
           Mapped(run.user, run.program) /\ Whole(run.user, run.program)
      /\ \A space \in DOMAIN running : Whole(space, running[space])
=============================================================================
