-------------------------------- MODULE Heap --------------------------------
(***************************************************************************)
(* The kernel heap, src/mm/heap.c: a singly linked list of blocks in       *)
(* address order, first fit with splitting in kmalloc, growth by whole     *)
(* pages at heap_end, and in kfree a sweep of the whole list that merges   *)
(* neighbouring free blocks.                                               *)
(*                                                                         *)
(* Each iteration of a list walk is one step, so the walk's cursors        *)
(* (current, last) are state and every intermediate list is visible.       *)
(* hdr maps the address of every header on the list to its contents: a     *)
(* header that a merge absorbs leaves the domain, because no pointer of    *)
(* the list reaches it any more.                                           *)
(***************************************************************************)
EXTENDS Integers

CONSTANTS HEAP_START,         \* first address of the heap window
          HEAP_INITIAL_SIZE,  \* size init_heap asks heap_expand for
          PAGE_SIZE,
          HDR,                \* sizeof(heap_block_t)
          ALIGN,              \* the 16 that kmalloc rounds sizes up to
          MIN_SPLIT,          \* the 16 that a split must leave over
          FRAMES,             \* the most frames that the memory may have left
          WORD,               \* one more than the largest size_t
          Sizes               \* the sizes callers ask for

(***************************************************************************)
(* HeapNoWrap keeps every sum of the code below the width of size_t: the   *)
(* code checks no addition, so a size within ALIGN of the top of size_t,   *)
(* or a window that grows past the top of the address space, would wrap.   *)
(***************************************************************************)
ASSUME HeapConstants ==
  /\ {HEAP_START, PAGE_SIZE, HDR, ALIGN, MIN_SPLIT} \subseteq Nat \ {0}
  /\ HEAP_INITIAL_SIZE \in Nat /\ HEAP_INITIAL_SIZE > HDR
  /\ FRAMES \in Nat
  /\ Sizes \subseteq Nat \ {0}

ASSUME HeapNoWrap ==
  /\ WORD \in Nat
  /\ HEAP_START + FRAMES * PAGE_SIZE <= WORD
  /\ \A s \in Sizes : s + ALIGN + HDR + MIN_SPLIT + PAGE_SIZE <= WORD

VARIABLES head, heap_end,     \* the two static variables of heap.c
          hdr,                \* address of a block -> its heap_block_t
          frames,             \* frames left in the physical allocator
          pc,                 \* where the (single) caller is
          current, last,      \* the cursors of kmalloc and kfree
          size,               \* kmalloc's size after align_up
          asked,              \* kmalloc's size as the caller passed it
          live                \* pointers the callers own -> size asked for

vars == <<head, heap_end, hdr, frames, pc, current, last, size, asked, live>>

NULL == 0
Blocks == DOMAIN hdr
Block == [size : Nat, is_free : BOOLEAN, next : Nat]
End(h, a) == a + HDR + h[a].size

\* Block b with one of its fields assigned.
Marked(b, f) == [size |-> b.size, is_free |-> f, next |-> b.next]
Pointed(b, n) == [size |-> b.size, is_free |-> b.is_free, next |-> n]

-----------------------------------------------------------------------------

align_up(x, a) == (x + a - 1) - ((x + a - 1) % a)

(***************************************************************************)
(* The page loop of heap_expand.  Every page takes one frame for itself    *)
(* and at most three for the page tables vmm_map_page has to allocate on   *)
(* the way; a pmm_alloc that finds no frame, here or in vmm_map_page,      *)
(* halts the machine with k of the pages mapped.                           *)
(***************************************************************************)
Needed(bytes) == align_up(bytes, PAGE_SIZE)

MapPages(bytes) ==
  LET pages == Needed(bytes) \div PAGE_SIZE IN
    \E tables \in 0..(3 * pages) :
      /\ pages + tables <= frames
      /\ frames' = frames - pages - tables
      /\ heap_end' = heap_end + Needed(bytes)

OutOfMemory(bytes) ==
  LET pages == Needed(bytes) \div PAGE_SIZE IN
    \E k \in 0..(pages - 1) :
      /\ k <= frames /\ frames <= 4 * k + 3
      /\ heap_end' = heap_end + k * PAGE_SIZE
  /\ frames' = 0
  /\ pc' = "halted"
  /\ UNCHANGED <<head, hdr, current, last, size, asked, live>>

\* The block heap_expand returns: all the new pages, free, last of the list.
NewBlock(bytes) ==
  [size |-> Needed(bytes) - HDR, is_free |-> TRUE, next |-> NULL]

-----------------------------------------------------------------------------

SplitTooTight(b, s) == b.size >= s + HDR - 1
SplitLosesTail(h, a, s) ==
  [h EXCEPT ![a] = [size |-> s, is_free |-> FALSE, next |-> h[a].next]]

\* A block larger than the request by a header and MIN_SPLIT bytes is split.
Splittable(b, s) == b.size >= s + HDR + MIN_SPLIT

\* Give block a of list h to a request of s bytes, splitting it if possible.
Carve(h, a, s) ==
  LET rest == a + HDR + s IN
  IF Splittable(h[a], s)
  THEN [x \in DOMAIN h \cup {rest} |->
          CASE x = a    -> [size |-> s, is_free |-> FALSE, next |-> rest]
            [] x = rest -> [size |-> h[a].size - s - HDR, is_free |-> TRUE,
                            next |-> h[a].next]
            [] OTHER    -> h[x]]
  ELSE [h EXCEPT ![a] = Marked(h[a], FALSE)]

\* List h with the new block b at the old heap_end, behind block l.
Link(h, l, a, b) ==
  [x \in DOMAIN h \cup {a} |->
     CASE x = a -> b
       [] x = l -> Pointed(h[x], a)
       [] OTHER -> h[x]]

\* List h after block a has absorbed the block behind it.
Absorb(h, a) ==
  LET n == h[a].next IN
  [x \in DOMAIN h \ {n} |->
     IF x = a THEN [size |-> h[a].size + HDR + h[n].size,
                    is_free |-> h[a].is_free,
                    next |-> h[n].next]
              ELSE h[x]]

\* kmalloc's and kfree's locals are gone once the call has returned.
Return ==
  /\ pc' = "idle"
  /\ current' = NULL /\ last' = NULL /\ size' = 0 /\ asked' = 0

Grant(p) == live' = [q \in DOMAIN live \cup {p} |->
                       IF q = p THEN asked ELSE live[q]]

-----------------------------------------------------------------------------

Init ==
  /\ head = NULL /\ heap_end = HEAP_START
  /\ hdr = [a \in {} |-> NULL]
  /\ frames \in 0..FRAMES
  /\ pc = "boot" /\ current = NULL /\ last = NULL /\ size = 0 /\ asked = 0
  /\ live = [p \in {} |-> 0]

init_heap ==
  /\ pc = "boot"
  /\ MapPages(HEAP_INITIAL_SIZE)
  /\ hdr' = [a \in {heap_end} |-> NewBlock(HEAP_INITIAL_SIZE)]
  /\ head' = heap_end
  /\ pc' = "idle"
  /\ UNCHANGED <<current, last, size, asked, live>>

init_heap_halt == pc = "boot" /\ OutOfMemory(HEAP_INITIAL_SIZE)

\* kmalloc(s), s # 0 (kmalloc(0) returns NULL and changes nothing).
KmallocCall(s) ==
  /\ pc = "idle"
  /\ asked' = s
  /\ size' = align_up(s, ALIGN)
  /\ current' = head /\ last' = NULL
  /\ pc' = "scan"
  /\ UNCHANGED <<head, heap_end, hdr, frames, live>>

FitsStrict(b, s) == b.is_free /\ b.size > s
FitsEvenTaken(b, s) == b.size >= s

Fits(b, s) == b.is_free /\ b.size >= s

SkipInACircle ==
  /\ pc = "scan" /\ current # NULL
  /\ ~Fits(hdr[current], size)
  /\ last' = current
  /\ current' = IF hdr[current].next = NULL THEN head ELSE hdr[current].next
  /\ UNCHANGED <<head, heap_end, hdr, frames, pc, size, asked, live>>

KmallocSkip ==
  /\ pc = "scan" /\ current # NULL
  /\ ~Fits(hdr[current], size)
  /\ last' = current
  /\ current' = hdr[current].next
  /\ UNCHANGED <<head, heap_end, hdr, frames, pc, size, asked, live>>

KmallocTake ==
  /\ pc = "scan" /\ current # NULL
  /\ Fits(hdr[current], size)
  /\ hdr' = Carve(hdr, current, size)
  /\ Grant(current + HDR)
  /\ Return
  /\ UNCHANGED <<head, heap_end, frames>>

KmallocGrow ==
  /\ pc = "scan" /\ current = NULL
  /\ MapPages(size + HDR)
  /\ hdr' = Carve(Link(hdr, last, heap_end, NewBlock(size + HDR)),
                  heap_end, size)
  /\ head' = IF last = NULL /\ head = NULL THEN heap_end ELSE head
  /\ Grant(heap_end + HDR)
  /\ Return

KmallocHalt == pc = "scan" /\ current = NULL /\ OutOfMemory(size + HDR)

\* kfree(p) of a pointer the caller owns (kfree(NULL) changes nothing).
KfreeCall(p) ==
  /\ pc = "idle"
  /\ hdr' = [hdr EXCEPT ![p - HDR] = Marked(hdr[p - HDR], TRUE)]
  /\ live' = [q \in DOMAIN live \ {p} |-> live[q]]
  /\ current' = head
  /\ pc' = "sweep"
  /\ UNCHANGED <<head, heap_end, frames, last, size, asked>>

\* The inner loop's condition: block a and its successor are both free.
Mergeable(h, a) ==
  h[a].is_free /\ h[a].next # NULL /\ h[h[a].next].is_free

KfreeMerge ==
  /\ pc = "sweep" /\ current # NULL
  /\ Mergeable(hdr, current)
  /\ hdr' = Absorb(hdr, current)
  /\ UNCHANGED <<head, heap_end, frames, pc, current, last, size, asked, live>>

KfreeAdvance ==
  /\ pc = "sweep" /\ current # NULL
  /\ ~Mergeable(hdr, current)
  /\ current' = hdr[current].next
  /\ UNCHANGED <<head, heap_end, hdr, frames, pc, last, size, asked, live>>

KfreeReturn ==
  /\ pc = "sweep" /\ current = NULL
  /\ Return
  /\ UNCHANGED <<head, heap_end, hdr, frames, live>>

\* for (;;) hlt
Halted == pc = "halted" /\ UNCHANGED vars

Kmalloc == KmallocSkip \/ KmallocTake \/ KmallocGrow \/ KmallocHalt
Kfree == KfreeMerge \/ KfreeAdvance \/ KfreeReturn

Next ==
  \/ init_heap \/ init_heap_halt
  \/ \E s \in Sizes : KmallocCall(s)
  \/ KmallocSkip \/ KmallocTake \/ KmallocGrow \/ KmallocHalt
  \/ \E p \in DOMAIN live : KfreeCall(p)
  \/ KfreeMerge \/ KfreeAdvance \/ KfreeReturn
  \/ Halted

Spec == Init /\ [][Next]_vars

(***************************************************************************)
(* A caller that is inside kmalloc or kfree keeps executing: nothing in    *)
(* the code blocks there.                                                  *)
(***************************************************************************)
FairSpec == Spec /\ WF_vars(Kmalloc) /\ WF_vars(Kfree)

-----------------------------------------------------------------------------
(* Properties *)

\* A set of headers at non-NULL addresses.
IsList(h) == DOMAIN h \subseteq Nat \ {NULL} /\ h \in [DOMAIN h -> Block]

\* The lists, cursors and sizes of heap.c are what their C types and the
\* callers' sizes allow.
TypeOK ==
  /\ head \in Nat /\ heap_end \in Nat /\ frames \in Nat
  /\ IsList(hdr)
  /\ pc \in {"boot", "idle", "scan", "sweep", "halted"}
  /\ current \in Nat /\ last \in Nat /\ size \in Nat /\ asked \in Nat
  /\ DOMAIN live \subseteq Nat
  /\ live \in [DOMAIN live -> Sizes]

\* Every link of list h leads to the block that starts where this one ends;
\* the block without a successor ends at e.
Linked(h, e) ==
  \A a \in DOMAIN h : IF h[a].next = NULL
                      THEN End(h, a) = e
                      ELSE h[a].next \in DOMAIN h /\ h[a].next = End(h, a)

\* The blocks of list h do not overlap and lie between HEAP_START and e.
Ordered(h, e) ==
  /\ \A a, b \in DOMAIN h : a < b => End(h, a) <= b
  /\ \A a \in DOMAIN h : HEAP_START <= a /\ End(h, a) <= e

Tiles(h, e) == HEAP_START \in DOMAIN h /\ Linked(h, e) /\ Ordered(h, e)

(***************************************************************************)
(* Between boot and a halt the blocks tile the heap: the list starts at    *)
(* HEAP_START, has no gap and no overlap, and ends at heap_end, whatever   *)
(* splits, merges and growths kmalloc and kfree have made so far.          *)
(***************************************************************************)
Tiling ==
  pc \in {"idle", "scan", "sweep"} => head = HEAP_START /\ Tiles(hdr, heap_end)

\* The taken blocks of list h are the payloads of lv, with room enough.
Owns(h, lv) ==
  /\ \A p \in DOMAIN lv : /\ p - HDR \in DOMAIN h
                          /\ ~h[p - HDR].is_free
                          /\ lv[p] <= h[p - HDR].size
  /\ \A a \in DOMAIN h : ~h[a].is_free => a + HDR \in DOMAIN lv

(***************************************************************************)
(* A pointer that kmalloc returned and kfree has not yet been given is the *)
(* payload of a taken block with room for the size asked for, and no block *)
(* is taken without an owner.                                              *)
(***************************************************************************)
Owned == Owns(hdr, live)

(***************************************************************************)
(* The memory of two callers, and the memory of a caller and any header of *)
(* the list, never overlap.                                                *)
(***************************************************************************)
LiveDisjoint ==
  \A p \in DOMAIN live :
    /\ p + live[p] <= heap_end
    /\ \A q \in DOMAIN live : p # q => p + live[p] <= q \/ q + live[q] <= p
    /\ \A a \in Blocks : p + live[p] <= a \/ a + HDR <= p

\* Block a of list h and its successor are both free.
AdjacentFree(h, a) ==
  h[a].is_free /\ h[a].next # NULL /\ h[h[a].next].is_free

(***************************************************************************)
(* No two neighbouring blocks are free, except while kfree's sweep is      *)
(* still in front of them.                                                 *)
(***************************************************************************)
Coalesced ==
  \A a \in Blocks :
    (pc = "sweep" => current = NULL \/ a < current)
      => ~AdjacentFree(hdr, a)

(***************************************************************************)
(* Once every pointer has been freed the heap is one free block again, as  *)
(* large as the heap has ever grown: no sequence of calls loses memory.    *)
(***************************************************************************)
NothingLost ==
  pc = "idle" /\ DOMAIN live = {}
    => Blocks = {HEAP_START} /\ End(hdr, HEAP_START) = heap_end

(***************************************************************************)
(* kmalloc is first fit: every block in front of the one it takes, and     *)
(* every block of the heap when it grows the heap or halts, is taken or    *)
(* too small.                                                              *)
(***************************************************************************)
FirstFit ==
  [][pc = "scan" =>
       \A a \in Blocks :
         \/ \E p \in DOMAIN live' \ DOMAIN live : a + HDR < p
         \/ pc' = "halted"
         => ~(hdr[a].is_free /\ hdr[a].size >= size)]_vars

\* Every call of kmalloc and kfree returns, or halts the machine.
CallsReturn == pc \in {"scan", "sweep"} ~> pc \in {"idle", "halted"}

\* The heap is an allocator as Allocator.tla describes it.
Alloc == INSTANCE Allocator WITH Address <- HEAP_START..WORD
ImplementsAllocator == Alloc!Spec

-----------------------------------------------------------------------------
(* The inductive invariant *)

(***************************************************************************)
(* What the list walks know.  kmalloc has found that no block behind its   *)
(* cursor fits, and last is the block in front of the cursor; kfree's      *)
(* cursor is on the list.  Before init_heap there is no block at all.      *)
(***************************************************************************)
Walks ==
  /\ pc = "boot" => /\ head = NULL /\ heap_end = HEAP_START
                    /\ Blocks = {} /\ DOMAIN live = {}
  /\ pc = "scan" =>
       /\ asked \in Sizes /\ asked <= size
       /\ current = NULL \/ current \in Blocks
       /\ \A a \in Blocks :
            current = NULL \/ a < current => ~Fits(hdr[a], size)
       /\ IF last = NULL THEN current = head
                         ELSE last \in Blocks /\ hdr[last].next = current
  /\ pc = "sweep" => current = NULL \/ current \in Blocks

\* Every page of the heap was paid for with a frame.
Paid == heap_end + frames * PAGE_SIZE <= HEAP_START + FRAMES * PAGE_SIZE

(***************************************************************************)
(* What every step of heap.c preserves: the tiling, the ownership and the  *)
(* merging above, with what the walks know and what the frames pay for.    *)
(***************************************************************************)
HeapInv ==
  /\ TypeOK /\ Tiling /\ Ordered(hdr, heap_end) /\ Owned /\ Coalesced
  /\ Walks /\ Paid
=============================================================================
