-------------------------------- MODULE Vmm --------------------------------
(***************************************************************************)
(* Page tables: src/mm/vmm.c, with its client heap_expand (mm/heap.c).     *)
(* Elf.tla adds the client that loads a user program.                      *)
(*                                                                         *)
(* A page is the tuple of its four table indices, the PML4's first.  Each  *)
(* of the three ensure_table of vmm_map_page is a step, for it may take a  *)
(* frame or halt the machine.  One thread at a time changes page tables.   *)
(*                                                                         *)
(* The kernel's own tables, those the boot loader made, hold the kernel    *)
(* image; the heap window shares their PML4 entry (index 511 in the code). *)
(* Left out: the HHDM, through which the code reaches all frames, and the  *)
(* TLB.                                                                    *)
(***************************************************************************)
EXTENDS Integers, Sequences, FiniteSets

CONSTANTS Indices,       \* of a table: 0..511 in the code
          KernelIndices, \* those of a PML4 that create_user_pml4 copies
          HeapPages,     \* the pages of the heap window, in order
          UserPages,     \* pages that programs use
          ImagePage,     \* a page of the kernel image
          LastFrame,     \* bound on the frames pmm_alloc hands out
          MaxSpaces      \* bound on the user address spaces

Page == Indices \X Indices \X Indices \X Indices
KernelPages == {ImagePage} \cup {HeapPages[i] : i \in DOMAIN HeapPages}

ASSUME VmmConstants ==
  /\ KernelIndices \subseteq Indices
  /\ HeapPages \in Seq(Page)
  /\ UserPages \subseteq Page /\ ImagePage \in Page
  /\ \A v \in KernelPages : v[1] = ImagePage[1] /\ v[1] \in KernelIndices
  /\ \A v \in UserPages : v[1] \notin KernelIndices
  /\ LastFrame \in Nat /\ LastFrame >= 5     \* the kernel's tables and image
  /\ MaxSpaces \in Nat

VARIABLES table,         \* frame of a table -> index -> entry
          free,          \* the next frame pmm_alloc returns
          pml4,          \* the static variable: root that vmm.c works on
          cr3,           \* root that the CPU works on
          spaces,        \* the roots: the boot loader's, and users'
          walk,          \* vmm_map_page's locals, <<>> outside of it
          heap_end,      \* pages of the heap window mapped so far
          halted

vars == <<table, free, pml4, cr3, spaces, walk, heap_end, halted>>

\* Entry flags: PTE_PRESENT, PTE_WRITE, PTE_USER.
P == "present"
W == "write"
U == "user"
Absent == [frame |-> 0, flags |-> {}]
Zeroed == [i \in Indices |-> Absent]

\* The tables of the boot loader: frames 1 to 4 lead to the image in frame 5.
BootTable(level) ==
  [Zeroed EXCEPT ![ImagePage[level]] = [frame |-> level + 1, flags |-> {P, W}]]
FirstFree == 6

Init ==
  /\ table = [f \in 1..4 |-> BootTable(f)]
  /\ free = FirstFree
  /\ pml4 = 1 /\ cr3 = 1 /\ spaces = {1}
  /\ walk = <<>> /\ heap_end = 0 /\ halted = FALSE

Idle == walk = <<>> /\ ~halted

NotTaken == free <= LastFrame /\ free' = free

\* pmm_alloc as it should be: every frame once.
pmm_alloc == free <= LastFrame /\ free' = free + 1
pmm_alloc_null == free > LastFrame /\ UNCHANGED free

-----------------------------------------------------------------------------
(* vmm_map_page *)

Call(virt, phys, flags) ==
  walk' = <<[virt |-> virt, phys |-> phys, flags |-> flags,
             level |-> 1, table |-> pml4]>>

At == walk[1]                                  \* the walk that is under way
AtEntry == table[At.table][At.virt[At.level]]  \* the entry it has come to
Walking == walk # <<>> /\ ~halted

NewTableNotUser(f) == [frame |-> f, flags |-> {P, W}]
NewTable(f) == [frame |-> f, flags |-> {P, W, U}]

\* One level down, to the table in frame f.
Descend(f) == walk' = <<[At EXCEPT !.level = @ + 1, !.table = f]>>

\* ensure_table where there is no table yet: alloc_page_table clears it.
NewLevel ==
  /\ Walking /\ At.level < 4 /\ P \notin AtEntry.flags
  /\ pmm_alloc
  /\ table' = [f \in DOMAIN table \cup {free} |->
                 IF f = free THEN Zeroed
                 ELSE IF f = At.table
                      THEN [table[f] EXCEPT ![At.virt[At.level]] = NewTable(free)]
                      ELSE table[f]]
  /\ Descend(free)
  /\ UNCHANGED <<pml4, cr3, spaces, heap_end, halted>>

NewLevelHalt ==
  /\ Walking /\ At.level < 4 /\ P \notin AtEntry.flags
  /\ pmm_alloc_null
  /\ halted' = TRUE
  /\ UNCHANGED <<table, pml4, cr3, spaces, walk, heap_end>>

OldLevel ==
  /\ Walking /\ At.level < 4 /\ P \in AtEntry.flags
  /\ table' = [table EXCEPT ![At.table][At.virt[At.level]].flags = @ \cup {U, W}]
  /\ Descend(AtEntry.frame)
  /\ UNCHANGED <<free, pml4, cr3, spaces, heap_end, halted>>

SetEntry ==
  /\ Walking /\ At.level = 4
  /\ table' = [table EXCEPT ![At.table][At.virt[4]] =
                 [frame |-> At.phys, flags |-> At.flags \cup {P}]]
  /\ walk' = <<>>
  /\ UNCHANGED <<free, pml4, cr3, spaces, heap_end, halted>>

-----------------------------------------------------------------------------
(* The other operations of vmm.c *)

\* The page table that the walks of vmm_unmap_page and vmm_virt_to_phys end
\* at, where there is a table at every level.
PageTable(root, v) == table[table[table[root][v[1]].frame][v[2]].frame][v[3]].frame

HasPageTable(root, v) ==
  LET e1 == table[root][v[1]]
      e2 == table[e1.frame][v[2]]
      e3 == table[e2.frame][v[3]]
  IN  P \in e1.flags /\ P \in e2.flags /\ P \in e3.flags

virt_to_phys(v) == table[PageTable(pml4, v)][v[4]].frame

\* How the CPU translates page v in the space of root: every level has to
\* be present, and every level has to grant an access.
Translate(root, v) ==
  LET e1 == table[root][v[1]]
      e2 == table[e1.frame][v[2]]
      e3 == table[e2.frame][v[3]]
      e4 == table[e3.frame][v[4]]
  IN  IF P \in e1.flags /\ P \in e2.flags /\ P \in e3.flags /\ P \in e4.flags
      THEN [frame |-> e4.frame,
            flags |-> e1.flags \cap e2.flags \cap e3.flags \cap e4.flags]
      ELSE Absent

(***************************************************************************)
(* The tests for NULL of vmm_unmap_page compare a virtual address and are  *)
(* never true: without a table it would write through physical page 0.     *)
(* Hence only pages that have been mapped are unmapped.                    *)
(***************************************************************************)
vmm_unmap_page(v) ==
  /\ Idle /\ Translate(pml4, v) # Absent
  /\ table' = [table EXCEPT ![PageTable(pml4, v)][v[4]] = Absent]
  /\ UNCHANGED <<free, pml4, cr3, spaces, walk, heap_end, halted>>

\* The lower half of a new PML4 is empty, the upper half that of pml4.
UserPml4(root) ==
  [i \in Indices |-> IF i \in KernelIndices THEN table[root][i] ELSE Absent]

vmm_create_user_pml4 ==
  /\ Idle /\ heap_end > 0 /\ Cardinality(spaces) <= MaxSpaces
  /\ pmm_alloc
  /\ table' = [f \in DOMAIN table \cup {free} |->
                 IF f = free THEN UserPml4(pml4) ELSE table[f]]
  /\ spaces' = spaces \cup {free}
  /\ UNCHANGED <<pml4, cr3, walk, heap_end, halted>>

\* _start halts without an address space.
NoUserPml4 ==
  /\ Idle /\ heap_end > 0 /\ Cardinality(spaces) <= MaxSpaces
  /\ pmm_alloc_null
  /\ halted' = TRUE
  /\ UNCHANGED <<table, pml4, cr3, spaces, walk, heap_end>>

SwitchOnlyCr3(root) == cr3' = root /\ pml4' = pml4
SwitchBoth(root) == cr3' = root /\ pml4' = root

vmm_switch_pml4(root) ==
  /\ Idle /\ root \in spaces
  /\ SwitchBoth(root)
  /\ UNCHANGED <<table, free, spaces, walk, heap_end, halted>>

-----------------------------------------------------------------------------
(* Clients *)

\* One page of heap_expand, from whatever space is current.
HeapPage ==
  /\ Idle /\ heap_end < Len(HeapPages)
  /\ pmm_alloc
  /\ Call(HeapPages[heap_end + 1], free, {P, W})
  /\ heap_end' = heap_end + 1
  /\ UNCHANGED <<table, pml4, cr3, spaces, halted>>

HeapPageHalt ==
  /\ Idle /\ heap_end < Len(HeapPages)
  /\ pmm_alloc_null
  /\ halted' = TRUE
  /\ UNCHANGED <<table, pml4, cr3, spaces, walk, heap_end>>

Stopped == halted /\ UNCHANGED vars

-----------------------------------------------------------------------------
(* Properties *)

Frame == 0..LastFrame
Entry == [frame : Frame, flags : SUBSET {P, W, U}]

\* Tables are functions from indices to entries, and a present entry above
\* the last level, where vmm.c's walk stands, leads to a table.
TypeOK ==
  /\ DOMAIN table \subseteq Frame \ {0}
  /\ table \in [DOMAIN table -> [Indices -> Entry]]
  /\ free \in Nat /\ {pml4, cr3} \subseteq spaces /\ spaces \subseteq DOMAIN table
  /\ heap_end \in 0..Len(HeapPages) /\ halted \in BOOLEAN
  /\ walk # <<>> => At.level \in 1..4 /\ At.table \in DOMAIN table

(***************************************************************************)
(* No page that a user may access is a page table, in any space: not a     *)
(* table of its own space, nor of the kernel, nor one that a later call of *)
(* vmm_map_page makes.                                                     *)
(***************************************************************************)
TablesOutOfReach ==
  \A s \in spaces, v \in UserPages \cup KernelPages :
    LET m == Translate(s, v) IN m # Absent => m.frame \notin DOMAIN table

(***************************************************************************)
(* A frame that two user pages share is frame 0, the answer of an          *)
(* exhausted pmm_alloc that elf_load takes for a frame.                    *)
(***************************************************************************)
UserFramesUnshared ==
  \A s, t \in spaces, v, w \in UserPages :
    /\ Translate(s, v) # Absent /\ Translate(t, w) # Absent
    /\ Translate(s, v).frame = Translate(t, w).frame
    => <<s, v>> = <<t, w>> \/ Translate(s, v).frame = 0

(***************************************************************************)
(* vmm_virt_to_phys finds the frame that the CPU finds, and 0 for a page   *)
(* that has been unmapped, although it looks at no flag of any entry.      *)
(***************************************************************************)
LookupAgrees ==
  \A v \in UserPages \cup KernelPages :
    HasPageTable(cr3, v) => virt_to_phys(v) = Translate(cr3, v).frame

(***************************************************************************)
(* A mapped page grants what its client asked for, through tables that     *)
(* other pages share and that were made for other rights: a user page is   *)
(* the user's, a kernel page is not, in any space, and can be written.     *)
(***************************************************************************)
RightsAsAsked ==
  \A s \in spaces, v \in UserPages \cup KernelPages :
    LET m == Translate(s, v) IN
      m # Absent => /\ U \in m.flags <=> v \in UserPages
                    /\ v \in KernelPages => W \in m.flags

(***************************************************************************)
(* The tables of vmm.c are address spaces as AddressSpaces.tla describes   *)
(* them: a step changes at most one page, of the kernel in every space and *)
(* of a user in the one that the CPU uses, whatever tables it shares.      *)
(***************************************************************************)
Abstract == INSTANCE AddressSpaces WITH
  Spaces <- Frame \ {0},
  Mappings <- [frame : Frame, flags : SUBSET {P, W, U}],
  Unmapped <- Absent,
  map <- [s \in spaces |-> [v \in KernelPages \cup UserPages |-> Translate(s, v)]],
  current <- cr3
ImplementsSpaces == Abstract!Spec

(***************************************************************************)
(* The tables of vmm.c as a whole: every present entry above the last      *)
(* level leads to a table, no mapping of any space reaches a table, no two *)
(* user pages share a frame that pmm_alloc has given out, and the lookup   *)
(* in software agrees with the CPU's.                                      *)
(***************************************************************************)
VmmInv == TypeOK /\ TablesOutOfReach /\ UserFramesUnshared /\ LookupAgrees
=============================================================================
