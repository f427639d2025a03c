------------------------------ MODULE PhysMem ------------------------------
(***************************************************************************)
(* Pmm.tla together with what its clients do with the pages they get.      *)
(* heap_expand (src/mm/heap.c) takes a page, maps it with vmm_map_page     *)
(* (src/mm/vmm.c), which takes and clears up to three pages for tables,    *)
(* and the owners of the heap's blocks store into the page what they like. *)
(* The bitmap is stored in pages of the memory it describes: a store into  *)
(* one of them changes the bits that are kept there.                       *)
(***************************************************************************)
EXTENDS Pmm

VARIABLES heap_pages,   \* pages mapped into the heap
          missing       \* tables the running vmm_map_page may still allocate

memVars == <<vars, heap_pages, missing>>

\* The pages whose bits are stored in page p.
BitsIn(p) ==
  LET k == p - bitmap_phys IN
  IF k \in 0..(bitmap_pages - 1)
  THEN (k * PAGE * BITS)..((k + 1) * PAGE * BITS - 1)
  ELSE {}

MemInit == Init /\ heap_pages = {} /\ missing = 0

init == (init_pmm \/ init_pmm_halt) /\ UNCHANGED <<heap_pages, missing>>

\* heap_expand takes the next page of the heap.
heap_expand(p) ==
  /\ pmm_alloc(p)
  /\ heap_pages' = heap_pages \cup {p}
  /\ missing' = 3

\* alloc_page_table: pmm_alloc, then 512 stores of zero.
alloc_page_table(p) ==
  /\ pc = "up" /\ missing > 0
  /\ LowestClear(p)
  /\ bitmap' = Marked(p) \ BitsIn(p)
  /\ grants' = [grants EXCEPT ![p] = @ + 1]
  /\ missing' = missing - 1
  /\ UNCHANGED <<map, pc, page_count, bitmap_phys, bitmap_pages, failed, heap_pages>>

\* A block header, or an owner of a block, is stored into heap page p.
heap_store(p) ==
  /\ pc = "up"
  /\ \E bits \in SUBSET BitsIn(p) : bitmap' = (bitmap \ BitsIn(p)) \cup bits
  /\ UNCHANGED <<map, pc, page_count, bitmap_phys, bitmap_pages, grants, failed,
                 heap_pages, missing>>

\* heap_expand and alloc_page_table halt when there is no page left.
out_of_memory ==
  /\ pc = "up"
  /\ Scanned \subseteq bitmap
  /\ pc' = "halted" /\ failed' = TRUE
  /\ UNCHANGED <<map, page_count, bitmap_phys, bitmap_pages, bitmap, grants,
                 heap_pages, missing>>

MemNext ==
  \/ init
  \/ \E p \in DOMAIN grants : heap_expand(p) \/ alloc_page_table(p)
  \/ \E p \in heap_pages : heap_store(p)
  \/ out_of_memory

MemSpec == MemInit /\ [][MemNext]_memVars

(***************************************************************************)
(* What a stable heap needs of the page allocator: no page of the heap is  *)
(* handed out again, to the heap or as a page table.                       *)
(***************************************************************************)
HeapPagesUnshared == \A p \in heap_pages : grants[p] = 1
=============================================================================
