-------------------------------- MODULE Pmm --------------------------------
(***************************************************************************)
(* The physical page allocator, src/mm/pmm.c: a bitmap with one bit per    *)
(* page, placed in the first usable region of the boot loader's memory map *)
(* that can hold it, and pmm_alloc, which hands out the lowest page whose  *)
(* bit is clear.  There is no way to give a page back.                     *)
(*                                                                         *)
(* bitmap is the set of pages whose bit is set.  Here nobody stores into   *)
(* the bitmap but this module; PhysMem.tla drops that assumption.          *)
(***************************************************************************)
EXTENDS Integers, Sequences, FiniteSetsExt

CONSTANTS PAGE,                      \* bytes of a page (4096)
          BITS,                      \* bits of a byte (8)
          KERNEL_START, KERNEL_END,  \* link addresses of the kernel image
          Maps                       \* memory maps the boot loader may pass

USABLE == "usable"
ACPI == "acpi_reclaimable"
BOOTLOADER == "bootloader_reclaimable"
OTHER_TYPES == {"reserved", "kernel_and_modules"}
Entry == [base : Nat, length : Nat, type : {USABLE, ACPI, BOOTLOADER} \cup OTHER_TYPES]

ASSUME PmmConstants ==
  /\ PAGE \in Nat \ {0} /\ BITS \in Nat \ {0}
  /\ KERNEL_START \in Nat /\ KERNEL_END \in Nat
  /\ Maps \subseteq Seq(Entry) \ {<<>>}

VARIABLES map,          \* the memory map of this boot
          pc,           \* "boot", "up" or "halted"
          page_count, bitmap_phys, bitmap_pages,
          bitmap,       \* the pages whose bit is set
          grants,       \* page -> how often pmm_alloc has returned it
          failed        \* pmm_alloc has returned NULL

vars == <<map, pc, page_count, bitmap_phys, bitmap_pages, bitmap, grants, failed>>

Entries == {map[i] : i \in DOMAIN map}

-----------------------------------------------------------------------------

PageUpTruncates(x) == x \div PAGE

PageUp(x) == (x + PAGE - 1) \div PAGE      \* align_up_4k(x) / 4096
PageDown(x) == x \div PAGE                 \* align_down_4k(x) / 4096

region_overlaps_kernel(start, end) ==
  ~(end <= KERNEL_START \/ start >= KERNEL_END)

\* The whole pages of entry e, none if it would overlap the kernel.
WholePages(e) ==
  LET first == PageUp(e.base)
      limit == PageDown(e.base + e.length)
  IN  IF region_overlaps_kernel(first * PAGE, limit * PAGE)
      THEN {} ELSE first..(limit - 1)

PagesOf(types) == UNION {WholePages(e) : e \in {x \in Entries : x.type \in types}}

Highest == Max({e.base + e.length : e \in Entries})
BitmapBytes(pages) == (pages + BITS - 1) \div BITS

BitmapPagesRoundedDown(pages) == PageDown(BitmapBytes(pages))
BitmapPages(pages) == PageUp(BitmapBytes(pages))

\* The entries init_pmm accepts for a bitmap of n pages.
Holds(e, n) == /\ e.type = USABLE
               /\ WholePages(e) # {}
               /\ Cardinality(WholePages(e)) >= n

Reclaimable == {USABLE, ACPI, BOOTLOADER}

\* Every bit set; the usable pages cleared; the bitmap's own pages and page 0
\* set; and last every page of usable or reclaimable memory cleared.
InitialBitmap(pages, base, n) ==
  LET all    == 0..(BitmapBytes(pages) * BITS - 1)
      usable == all \ PagesOf({USABLE})
      own    == usable \cup (base..(base + n - 1)) \cup {0}
  IN  own \ PagesOf(Reclaimable)

-----------------------------------------------------------------------------

Init ==
  /\ map \in Maps
  /\ pc = "boot"
  /\ page_count = 0 /\ bitmap_phys = 0 /\ bitmap_pages = 0 /\ bitmap = {}
  /\ grants = <<>> /\ failed = FALSE

init_pmm ==
  /\ pc = "boot"
  /\ page_count' = PageUp(Highest)
  /\ bitmap_pages' = BitmapPages(page_count')
  /\ \E i \in DOMAIN map :
       /\ Holds(map[i], bitmap_pages')
       /\ \A j \in 1..(i - 1) : ~Holds(map[j], bitmap_pages')
       /\ bitmap_phys' = PageUp(map[i].base)
  /\ bitmap' = InitialBitmap(page_count', bitmap_phys', bitmap_pages')
  /\ grants' = [p \in 0..(page_count' - 1) |-> 0]
  /\ pc' = "up"
  /\ UNCHANGED <<map, failed>>

init_pmm_halt ==
  /\ pc = "boot"
  /\ page_count' = PageUp(Highest)
  /\ bitmap_pages' = BitmapPages(page_count')
  /\ \A i \in DOMAIN map : ~Holds(map[i], bitmap_pages')
  /\ pc' = "halted"
  /\ UNCHANGED <<map, bitmap_phys, bitmap, grants, failed>>

ScanOneShort == 1..(page_count - 2)

\* The pages the loop of pmm_alloc looks at; page 0 would look like NULL.
Scanned == 1..(page_count - 1)

Marked(p) == bitmap \cup {p}

\* The first page of the scan whose bit is clear.
LowestClear(p) ==
  p \in Scanned \ bitmap /\ \A q \in Scanned : q < p => q \in bitmap

\* pmm_alloc finds page p.
pmm_alloc(p) ==
  /\ pc = "up"
  /\ LowestClear(p)
  /\ bitmap' = Marked(p)
  /\ grants' = [grants EXCEPT ![p] = @ + 1]
  /\ UNCHANGED <<map, pc, page_count, bitmap_phys, bitmap_pages, failed>>

\* pmm_alloc finds nothing and returns NULL.
pmm_alloc_null ==
  /\ pc = "up"
  /\ Scanned \subseteq bitmap
  /\ failed' = TRUE
  /\ UNCHANGED <<map, pc, page_count, bitmap_phys, bitmap_pages, bitmap, grants>>

Halted == pc = "halted" /\ UNCHANGED vars

Next == \/ init_pmm \/ init_pmm_halt \/ pmm_alloc_null \/ Halted
        \/ \E p \in DOMAIN grants : pmm_alloc(p)

Spec == Init /\ [][Next]_vars

-----------------------------------------------------------------------------
(* Properties *)

\* Once init_pmm has run, pages are counted from 0 to page_count - 1.
TypeOK ==
  /\ map \in Maps
  /\ pc \in {"boot", "up", "halted"}
  /\ page_count \in Nat /\ bitmap_phys \in Nat /\ bitmap_pages \in Nat
  /\ bitmap \subseteq Nat
  /\ DOMAIN grants \subseteq Nat /\ grants \in [DOMAIN grants -> Nat]
  /\ pc = "up" => DOMAIN grants = 0..(page_count - 1)
  /\ failed \in BOOLEAN

Granted == {p \in DOMAIN grants : grants[p] > 0}

\* Page p lies wholly inside an entry of one of the types, byte for byte.
Inside(p, types) ==
  \E e \in Entries : /\ e.type \in types
                     /\ e.base <= p * PAGE
                     /\ (p + 1) * PAGE <= e.base + e.length

(***************************************************************************)
(* Every page pmm_alloc returns is backed, from its first to its last      *)
(* byte, by memory the boot loader reports as usable or reclaimable, even  *)
(* when entries begin or end in the middle of a page; it is never page 0,  *)
(* which callers would take for NULL; and no page is handed out twice.     *)
(***************************************************************************)
GrantedIsRam ==
  \A p \in Granted : p # 0 /\ Inside(p, Reclaimable) /\ grants[p] = 1

(***************************************************************************)
(* All of the bitmap, and not only its first bytes, lies in one usable     *)
(* entry of the map, and has a bit for every page that pmm_alloc tests.    *)
(***************************************************************************)
BitmapFits ==
  pc = "up" =>
    /\ \E e \in Entries :
         /\ e.type = USABLE
         /\ e.base <= bitmap_phys * PAGE
         /\ bitmap_phys * PAGE + BitmapBytes(page_count) <= e.base + e.length
    /\ page_count <= bitmap_pages * PAGE * BITS

(***************************************************************************)
(* pmm_alloc answers NULL only when every whole page of usable and         *)
(* reclaimable memory except page 0 has been handed out.                   *)
(***************************************************************************)
NullMeansExhausted ==
  failed => \A p \in 1..Highest : Inside(p, Reclaimable) => p \in Granted

(***************************************************************************)
(* The bookkeeping of pmm.c as a whole: the types of its variables, and a  *)
(* bitmap that has a place of its own in usable memory, with a bit for     *)
(* every page.                                                             *)
(***************************************************************************)
PmmInv == TypeOK /\ BitmapFits
=============================================================================
