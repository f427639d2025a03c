----------------------------- MODULE PmmProofs -----------------------------
(***************************************************************************)
(* Proofs about Pmm.tla, for any page size, any byte size and any memory   *)
(* maps.  The heart of the argument is that the bitmap, once init_pmm has  *)
(* built it, has a clear bit exactly for the pages of usable and           *)
(* reclaimable memory that have not been handed out.                       *)
(***************************************************************************)
EXTENDS Pmm, FiniteSetTheorems, SequenceTheorems, TLAPS

-----------------------------------------------------------------------------
(* Rounding *)

LEMMA Division ==
  ASSUME NEW a \in Nat, NEW b \in Nat \ {0}
  PROVE  a \div b \in Nat /\ (a \div b) * b <= a /\ a < (a \div b) * b + b
  OBVIOUS

LEMMA Monotonic ==
  ASSUME NEW a \in Int, NEW c \in Int, NEW b \in Nat, a <= c
  PROVE  a * b <= c * b
  OBVIOUS

\* PageUp(x) is the first page that begins at or after byte x.
LEMMA PageUpIs ==
  ASSUME NEW x \in Nat
  PROVE  /\ PageUp(x) \in Nat /\ x <= PageUp(x) * PAGE
         /\ \A p \in Nat : x <= p * PAGE => PageUp(x) <= p
<1> USE PmmConstants
<1>1. /\ PageUp(x) \in Nat /\ PageUp(x) * PAGE <= x + PAGE - 1
      /\ x + PAGE - 1 < PageUp(x) * PAGE + PAGE
  BY x + PAGE - 1 \in Nat, Division DEF PageUp
<1>2. ASSUME NEW p \in Nat, x <= p * PAGE, p + 1 <= PageUp(x) PROVE FALSE
  <2>1. (p + 1) * PAGE <= PageUp(x) * PAGE
    BY <1>1, <1>2, Monotonic
  <2>2. p * PAGE \in Nat /\ (p + 1) * PAGE = p * PAGE + PAGE
    OBVIOUS
  <2> QED
    BY <1>1, <1>2, <2>1, <2>2
<1> QED
  BY <1>1, <1>2

\* Page PageDown(x) is the page of byte x.
LEMMA PageDownIs ==
  ASSUME NEW x \in Nat
  PROVE  /\ PageDown(x) \in Nat /\ PageDown(x) * PAGE <= x
         /\ \A p \in Nat : p * PAGE <= x => p <= PageDown(x)
<1> USE PmmConstants
<1>1. /\ PageDown(x) \in Nat /\ PageDown(x) * PAGE <= x /\ x < PageDown(x) * PAGE + PAGE
  BY Division DEF PageDown
<1>2. ASSUME NEW p \in Nat, p * PAGE <= x, PageDown(x) + 1 <= p PROVE FALSE
  <2>1. (PageDown(x) + 1) * PAGE <= p * PAGE
    BY <1>1, <1>2, Monotonic
  <2>2. PageDown(x) * PAGE \in Nat /\ p * PAGE \in Nat
        /\ (PageDown(x) + 1) * PAGE = PageDown(x) * PAGE + PAGE
    BY <1>1
  <2> QED
    BY <1>1, <1>2, <2>1, <2>2
<1> QED
  BY <1>1, <1>2

\* The bitmap has room for a bit of every page.
LEMMA BitmapIsLargeEnough ==
  ASSUME NEW n \in Nat
  PROVE  /\ BitmapBytes(n) \in Nat /\ BitmapPages(n) \in Nat
         /\ n <= BitmapBytes(n) * BITS
         /\ BitmapBytes(n) <= BitmapPages(n) * PAGE
         /\ n <= BitmapPages(n) * PAGE * BITS
<1> USE PmmConstants
<1>1. /\ BitmapBytes(n) \in Nat /\ n + BITS - 1 < BitmapBytes(n) * BITS + BITS
  BY n + BITS - 1 \in Nat, Division DEF BitmapBytes
<1>2. BitmapPages(n) \in Nat /\ BitmapBytes(n) <= BitmapPages(n) * PAGE
  BY <1>1, PageUpIs DEF BitmapPages
<1>3. BitmapBytes(n) * BITS \in Nat /\ BitmapPages(n) * PAGE \in Nat
  BY <1>1, <1>2
<1>4. BitmapBytes(n) * BITS <= (BitmapPages(n) * PAGE) * BITS
  <2> PICK m, k : m = BitmapBytes(n) /\ k = BitmapPages(n) * PAGE
    OBVIOUS
  <2>1. m \in Int /\ k \in Int /\ m <= k /\ BITS \in Nat
    BY <1>1, <1>2, <1>3
  <2>2. m * BITS <= k * BITS
    BY <2>1, Monotonic
  <2> QED
    BY <2>2
<1>5. BitmapPages(n) * PAGE * BITS \in Nat
  BY <1>3
<1> QED
  BY <1>1, <1>2, <1>3, <1>4, <1>5

-----------------------------------------------------------------------------
(* The memory map *)

LEMMA EntriesOfMap ==
  ASSUME map \in Maps
  PROVE  /\ map \in Seq(Entry) /\ Len(map) \in Nat \ {0} /\ DOMAIN map = 1..Len(map)
         /\ \A e \in Entries : e \in Entry /\ e.base \in Nat /\ e.length \in Nat
<1>1. map \in Seq(Entry) /\ map # <<>>
  BY PmmConstants
<1>2. Len(map) \in Nat /\ DOMAIN map = 1..Len(map)
  BY <1>1
<1>3. Len(map) # 0
  BY <1>1, EmptySeq
<1>4. \A e \in Entries : e \in Entry
  BY <1>1, <1>2 DEF Entries
<1> QED
  BY <1>1, <1>2, <1>3, <1>4 DEF Entry

\* No entry ends above Highest.
LEMMA HighestIs ==
  ASSUME map \in Maps
  PROVE  Highest \in Nat /\ \A e \in Entries : e.base + e.length <= Highest
<1> DEFINE End(i) == map[i].base + map[i].length
           S == 1..Len(map)
           Above(i) == {j \in S : End(j) > End(i)}
           F == {Above(i) : i \in S}
           R == StrictSubsetOrdering(S)
           E == {e.base + e.length : e \in Entries}
<1>1. IsFiniteSet(S) /\ S # {} /\ \A i \in S : End(i) \in Nat /\ map[i] \in Entries
  <2>1. \A i \in S : map[i] \in Entries
    BY EntriesOfMap DEF Entries
  <2>2. IsFiniteSet(S)
    BY EntriesOfMap, FS_Interval
  <2>3. 1 \in S
    BY EntriesOfMap
  <2>4. \A i \in S : End(i) \in Nat
    BY <2>1, EntriesOfMap
  <2> QED
    BY <2>1, <2>2, <2>3, <2>4
<1>2. IsWellFoundedOn(R, SUBSET S)
  BY <1>1, FS_FiniteSubsetsOfFinite, FS_StrictSubsetOrderingWellFounded
<1>3. F \subseteq SUBSET S /\ F # {}
  BY <1>1
<1>4. PICK A \in F : \A B \in F : ~(<<B, A>> \in R)
  <2> HIDE DEF F, R, S
  <2> QED
    BY <1>2, <1>3, WFMin
<1>5. PICK i \in S : A = Above(i)
  OBVIOUS
<1>6. ASSUME NEW j \in S PROVE End(j) <= End(i)
  <2> SUFFICES ASSUME End(j) > End(i) PROVE FALSE
    BY <1>1
  <2>1. Above(j) \subseteq Above(i) /\ Above(j) # Above(i)
    <3>1. j \in Above(i) /\ j \notin Above(j)
      BY <1>1
    <3>2. \A k \in S : End(k) > End(j) => End(k) > End(i)
      BY <1>1
    <3> QED
      BY <3>1, <3>2
  <2>2. Above(j) \in F /\ Above(i) \in SUBSET S /\ Above(j) \in SUBSET S
    OBVIOUS
  <2> QED
    BY <1>4, <1>5, <2>1, <2>2 DEF StrictSubsetOrdering
<1>7. End(i) \in E /\ \A x \in E : End(i) >= x
  BY <1>1, <1>6, EntriesOfMap DEF Entries
<1>8. E \subseteq Nat
  BY EntriesOfMap
<1>9. Highest \in E /\ \A x \in E : Highest >= x
  <2> HIDE DEF E
  <2>1. \E m \in E : \A x \in E : m >= x
    BY <1>7
  <2>2. Max(E) \in E /\ \A x \in E : Max(E) >= x
    BY <2>1 DEF Max
  <2> QED
    BY <2>2 DEF Highest, E
<1> QED
  BY <1>8, <1>9

\* The pages that init_pmm takes from an entry lie in it to their last byte.
LEMMA WholePagesInside ==
  ASSUME NEW e, e.base \in Nat, e.length \in Nat, NEW p \in WholePages(e)
  PROVE  /\ p \in Nat /\ e.base <= p * PAGE /\ (p + 1) * PAGE <= e.base + e.length
<1> USE PmmConstants
<1>1. e.base + e.length \in Nat
  OBVIOUS
<1> PICK first, limit : first = PageUp(e.base) /\ limit = PageDown(e.base + e.length)
  OBVIOUS
<1>2. first \in Nat /\ limit \in Nat /\ e.base <= first * PAGE
      /\ limit * PAGE <= e.base + e.length
  BY <1>1, PageUpIs, PageDownIs
<1>3. p \in first..(limit - 1) /\ p \in Nat /\ p + 1 \in Int /\ p + 1 <= limit /\ first <= p
  BY <1>2 DEF WholePages
<1> PICK r : r = p + 1
  OBVIOUS
<1>4. first * PAGE <= p * PAGE
  BY <1>2, <1>3, Monotonic
<1>5. r \in Int /\ r <= limit
  BY <1>3
<1>6. r * PAGE <= limit * PAGE
  BY <1>2, <1>5, Monotonic
<1>7. /\ first * PAGE \in Nat /\ p * PAGE \in Nat /\ r * PAGE \in Int /\ limit * PAGE \in Nat
  <2>1. PAGE \in Nat
    OBVIOUS
  <2>2. \A m, k \in Nat : m * k \in Nat
    OBVIOUS
  <2>3. \A m \in Int : \A k \in Nat : m * k \in Int
    OBVIOUS
  <2>4. limit \in Nat
    BY <1>2, <1>1, PageDownIs
  <2> QED
    BY ONLY <1>2, <1>3, <1>5, <2>1, <2>2, <2>3, <2>4
<1>8. r * PAGE <= e.base + e.length
  <2> PICK x, y, z : x = r * PAGE /\ y = limit * PAGE /\ z = e.base + e.length
    OBVIOUS
  <2>1. x \in Int /\ y \in Nat /\ z \in Nat /\ x <= y /\ y <= z
    BY <1>1, <1>2, <1>6, <1>7
  <2> QED
    BY ONLY <2>1, x = r * PAGE, z = e.base + e.length
<1>9. e.base <= p * PAGE
  <2> PICK x, y, z : x = e.base /\ y = first * PAGE /\ z = p * PAGE
    OBVIOUS
  <2>1. x \in Nat /\ y \in Nat /\ z \in Nat /\ x <= y /\ y <= z
    BY <1>2, <1>4, <1>7
  <2> QED
    BY ONLY <2>1, x = e.base, z = p * PAGE
<1> QED
  BY <1>3, <1>8, <1>9

\* The kernel is linked above all physical memory.  Its link addresses are
\* virtual, in the last two gigabytes of the address space.
KernelAboveMemory ==
  \A m \in Maps : \A i \in DOMAIN m : m[i].base + m[i].length <= KERNEL_START

\* Then init_pmm takes every page that lies wholly in an entry.
LEMMA InsideIsWhole ==
  ASSUME KernelAboveMemory, map \in Maps, NEW e \in Entries, NEW p \in Nat,
         e.base <= p * PAGE, (p + 1) * PAGE <= e.base + e.length
  PROVE  p \in WholePages(e)
<1> USE PmmConstants
<1>1. e.base \in Nat /\ e.length \in Nat /\ e.base + e.length <= KERNEL_START
  BY EntriesOfMap DEF Entries, KernelAboveMemory
<1> PICK first, limit : first = PageUp(e.base) /\ limit = PageDown(e.base + e.length)
  OBVIOUS
<1>2. e.base + e.length \in Nat /\ p + 1 \in Nat
  BY <1>1
<1>3. first \in Nat /\ first <= p /\ limit \in Nat /\ p + 1 <= limit
      /\ limit * PAGE <= e.base + e.length
  BY <1>1, <1>2, PageUpIs, PageDownIs
<1>4. limit * PAGE \in Nat /\ first * PAGE \in Nat
  BY <1>3
<1>5. ~region_overlaps_kernel(first * PAGE, limit * PAGE)
  BY <1>1, <1>2, <1>3, <1>4 DEF region_overlaps_kernel
<1> QED
  BY <1>3, <1>5 DEF WholePages

-----------------------------------------------------------------------------
(* The inductive invariant *)

\* The place and the size of the bitmap.
Placed ==
  pc = "up" =>
    /\ page_count = PageUp(Highest) /\ bitmap_pages = BitmapPages(page_count)
    /\ \E e \in Entries : Holds(e, bitmap_pages) /\ bitmap_phys = PageUp(e.base)

\* A clear bit means a page of memory that nobody has been given yet.
BitsTell ==
  pc = "up" =>
    \A p \in 0..(page_count - 1) :
      p \notin bitmap <=> p \in PagesOf(Reclaimable) /\ p \notin Granted

GrantsRight ==
  /\ pc # "up" => grants = <<>>
  /\ \A p \in Granted : p # 0 /\ p \in PagesOf(Reclaimable) /\ grants[p] = 1

FailedRight == failed => pc = "up" /\ Scanned \subseteq bitmap

IInv == TypeOK /\ Placed /\ BitsTell /\ GrantsRight /\ FailedRight

LEMMA InitIInv == Init => IInv
<1> SUFFICES ASSUME Init PROVE IInv
  OBVIOUS
<1>1. DOMAIN grants = {}
  BY EmptySeq DEF Init
<1>2. Granted = {}
  BY <1>1 DEF Granted
<1>3. grants \in [DOMAIN grants -> Nat]
  BY <1>1 DEF Init
<1>4. TypeOK
  BY <1>1, <1>3 DEF Init, TypeOK
<1> QED
  BY <1>2, <1>4 DEF Init, IInv, Placed, BitsTell, GrantsRight, FailedRight

\* What init_pmm leaves clear of the bitmap: its last pass decides.
LEMMA InitialBitmapIs ==
  ASSUME map \in Maps, NEW n \in Nat, NEW base \in Nat, NEW k \in Nat,
         NEW p \in 0..(n - 1)
  PROVE  p \notin InitialBitmap(n, base, k) <=> p \in PagesOf(Reclaimable)
<1>1. BitmapBytes(n) \in Nat /\ n <= BitmapBytes(n) * BITS
  BY BitmapIsLargeEnough
<1>2. BitmapBytes(n) * BITS \in Nat
  BY <1>1, PmmConstants
<1>3. p \in 0..(BitmapBytes(n) * BITS - 1)
  BY <1>1, <1>2
<1>4. p \in PagesOf({USABLE}) => p \in PagesOf(Reclaimable)
  BY DEF PagesOf, Reclaimable
<1> QED
  BY <1>3, <1>4 DEF InitialBitmap

LEMMA StepIInv == ASSUME IInv, [Next]_vars PROVE IInv'
<1> USE PmmConstants DEF IInv
<1>1. map \in Maps /\ map' = map
  BY DEF TypeOK, Next, vars, init_pmm, init_pmm_halt, pmm_alloc, pmm_alloc_null, Halted
<1>2. Entries' = Entries /\ Highest' = Highest /\ PagesOf(Reclaimable)' = PagesOf(Reclaimable)
  BY <1>1 DEF Entries, Highest, PagesOf
<1>3. CASE init_pmm
  <2> USE <1>3 DEF init_pmm
  <2>1. page_count' \in Nat /\ bitmap_pages' \in Nat
    BY <1>1, HighestIs, PageUpIs, BitmapIsLargeEnough
  <2>2. PICK i \in DOMAIN map : Holds(map[i], bitmap_pages') /\ bitmap_phys' = PageUp(map[i].base)
    OBVIOUS
  <2>3. map[i] \in Entries /\ map[i].base \in Nat
    BY <1>1, EntriesOfMap DEF Entries
  <2>4. bitmap_phys' \in Nat
    BY <2>2, <2>3, PageUpIs
  <2>5. bitmap' \subseteq Nat
    <3>1. BitmapBytes(page_count') \in Nat
      BY <2>1, BitmapIsLargeEnough
    <3>2. 0..(BitmapBytes(page_count') * BITS - 1) \subseteq Nat
      OBVIOUS
    <3>3. bitmap_phys'..(bitmap_phys' + bitmap_pages' - 1) \subseteq Nat
      BY <2>1, <2>4
    <3> QED
      BY <3>2, <3>3 DEF InitialBitmap
  <2>6. DOMAIN grants' = 0..(page_count' - 1) /\ grants' \in [DOMAIN grants' -> Nat]
    BY <2>1
  <2>7. Granted' = {}
    BY <2>6 DEF Granted
  <2>8. pc' = "up" /\ failed = FALSE /\ failed' = failed
    BY DEF FailedRight, TypeOK
  <2>9. TypeOK'
    BY <1>1, <2>1, <2>4, <2>5, <2>6, <2>8 DEF TypeOK
  <2>10. Placed'
    BY <1>2, <2>2, <2>3, <2>8 DEF Placed, Holds, WholePages
  <2>11. BitsTell'
    BY <1>1, <1>2, <2>1, <2>4, <2>7, InitialBitmapIs DEF BitsTell
  <2>12. GrantsRight' /\ FailedRight'
    BY <2>7, <2>8 DEF GrantsRight, FailedRight
  <2> QED
    BY <2>9, <2>10, <2>11, <2>12
<1>4. CASE init_pmm_halt
  <2> USE <1>4 DEF init_pmm_halt
  <2>1. page_count' \in Nat /\ bitmap_pages' \in Nat
    BY <1>1, HighestIs, PageUpIs, BitmapIsLargeEnough
  <2>2. TypeOK'
    BY <1>1, <2>1 DEF TypeOK
  <2>3. Granted' = Granted
    BY DEF Granted
  <2>4. ~failed
    BY DEF FailedRight
  <2> QED
    BY <1>2, <2>2, <2>3, <2>4 DEF Placed, BitsTell, GrantsRight, FailedRight
<1>5. ASSUME NEW p \in DOMAIN grants, pmm_alloc(p) PROVE IInv'
  <2> USE <1>5 DEF pmm_alloc
  <2>1. p \in 1..(page_count - 1) /\ p \notin bitmap /\ pc = "up"
    BY DEF LowestClear, Scanned
  <2>2. p \in PagesOf(Reclaimable) /\ p \notin Granted /\ p \in 0..(page_count - 1)
    BY <2>1 DEF BitsTell, TypeOK
  <2>3. grants[p] = 0
    BY <2>2 DEF Granted, TypeOK
  <2>4. DOMAIN grants' = DOMAIN grants
        /\ \A r \in DOMAIN grants : grants'[r] = IF r = p THEN 1 ELSE grants[r]
    BY <2>3 DEF TypeOK
  <2>5. Granted' = Granted \cup {p}
    BY <2>4 DEF Granted
  <2>6. bitmap' = bitmap \cup {p}
    BY DEF Marked
  <2>7. TypeOK'
    <3>1. grants' \in [DOMAIN grants' -> Nat]
      BY DEF TypeOK
    <3> QED
      BY <2>1, <2>4, <2>6, <3>1 DEF TypeOK
  <2>8. Placed'
    BY <1>2 DEF Placed, Holds, WholePages
  <2>9. BitsTell'
    BY <1>2, <2>1, <2>2, <2>5, <2>6 DEF BitsTell
  <2>10. GrantsRight'
    BY <1>2, <2>1, <2>2, <2>4, <2>5 DEF GrantsRight, Granted
  <2>11. FailedRight'
    BY <2>6 DEF FailedRight, Scanned
  <2> QED
    BY <2>7, <2>8, <2>9, <2>10, <2>11
<1>6. CASE pmm_alloc_null
  <2> USE <1>6 DEF pmm_alloc_null
  <2>1. TypeOK'
    BY <1>1 DEF TypeOK
  <2>2. Granted' = Granted /\ Scanned' = Scanned
    BY DEF Granted, Scanned
  <2>3. Placed'
    BY <1>2 DEF Placed, Holds, WholePages
  <2> QED
    BY <1>2, <2>1, <2>2, <2>3 DEF BitsTell, GrantsRight, FailedRight
<1>7. CASE UNCHANGED vars
  BY <1>2, <1>7 DEF vars, TypeOK, Placed, Holds, WholePages, BitsTell, GrantsRight, Granted,
                    FailedRight, Scanned
<1> QED
  BY <1>3, <1>4, <1>5, <1>6, <1>7 DEF Next, Halted

LEMMA AlwaysIInv == Spec => []IInv
<1>1. IInv /\ [Next]_vars => IInv'
  BY StepIInv
<1> QED
  BY InitIInv, <1>1, PTL DEF Spec

-----------------------------------------------------------------------------
(* What it implies *)

LEMMA BitmapInEntry == IInv => BitmapFits
<1> SUFFICES ASSUME IInv, pc = "up" PROVE BitmapFits
  BY DEF BitmapFits
<1> USE PmmConstants DEF IInv
<1>1. page_count \in Nat /\ bitmap_pages = BitmapPages(page_count) /\ bitmap_pages \in Nat
  BY DEF TypeOK, Placed
<1>2. PICK e \in Entries : Holds(e, bitmap_pages) /\ bitmap_phys = PageUp(e.base)
  BY DEF Placed
<1>3. e.base \in Nat /\ e.length \in Nat /\ e.type = USABLE /\ e.base + e.length \in Nat
  BY <1>2, EntriesOfMap DEF TypeOK, Holds
<1> PICK first, limit : first = PageUp(e.base) /\ limit = PageDown(e.base + e.length)
  OBVIOUS
<1>4. /\ first \in Nat /\ e.base <= first * PAGE
      /\ limit \in Nat /\ limit * PAGE <= e.base + e.length
  BY <1>3, PageUpIs, PageDownIs
<1>5. WholePages(e) = first..(limit - 1) /\ first <= limit - 1
  BY <1>2, <1>4 DEF Holds, WholePages
<1>6. Cardinality(WholePages(e)) = limit - first
  <2>1. first \in Int /\ limit - 1 \in Int
    BY <1>4
  <2>2. Cardinality(first..(limit - 1)) = IF first > limit - 1 THEN 0 ELSE (limit - 1) - first + 1
    BY <2>1, FS_Interval
  <2> QED
    BY <1>4, <1>5, <2>2
<1>7. first + bitmap_pages <= limit
  BY <1>1, <1>2, <1>4, <1>6 DEF Holds
<1>8. /\ BitmapBytes(page_count) \in Nat
      /\ BitmapBytes(page_count) <= bitmap_pages * PAGE
      /\ page_count <= bitmap_pages * PAGE * BITS
  BY <1>1, BitmapIsLargeEnough
<1>9. first * PAGE + BitmapBytes(page_count) <= e.base + e.length
  <2> PICK sum : sum = first + bitmap_pages
    OBVIOUS
  <2>1. sum \in Nat /\ sum <= limit /\ PAGE \in Nat
    BY <1>1, <1>4, <1>7
  <2>2. sum * PAGE <= limit * PAGE
    BY <1>4, <2>1, Monotonic
  <2>3. sum * PAGE = first * PAGE + bitmap_pages * PAGE
    BY <1>1, <1>4
  <2>4. \A a, b \in Nat : a * b \in Nat
    OBVIOUS
  <2>5. first * PAGE \in Nat /\ bitmap_pages * PAGE \in Nat /\ limit * PAGE \in Nat
    BY <1>1, <1>4, <2>1, <2>4
  <2>6. PICK x, y, z : x = first * PAGE /\ y = bitmap_pages * PAGE /\ z = limit * PAGE
    OBVIOUS
  <2>7. x \in Nat /\ y \in Nat /\ z \in Nat
    BY <2>5, <2>6
  <2>8. x + y <= z /\ z <= e.base + e.length /\ BitmapBytes(page_count) <= y
    BY <1>4, <1>8, <2>2, <2>3, <2>6
  <2>9. x + BitmapBytes(page_count) <= e.base + e.length
    BY <1>3, <1>8, <2>7, <2>8
  <2> QED
    BY <2>6, <2>9
<1> QED
  BY <1>2, <1>3, <1>4, <1>8, <1>9 DEF BitmapFits

(***************************************************************************)
(* For every memory map init_pmm either halts or puts the bitmap into one  *)
(* usable entry, whole, and large enough for every page pmm_alloc tests.   *)
(***************************************************************************)
THEOREM PmmInvariance == Spec => []PmmInv
<1>1. IInv => PmmInv
  BY BitmapInEntry DEF IInv, PmmInv
<1> QED
  BY AlwaysIInv, <1>1, PTL

(***************************************************************************)
(* pmm_alloc returns only whole pages of memory that the boot loader gave  *)
(* away, never page 0, and none of them twice, for every memory map.       *)
(***************************************************************************)
THEOREM PmmGrantedIsRam == Spec => []GrantedIsRam
<1>1. IInv => GrantedIsRam
  <2> SUFFICES ASSUME IInv, NEW p \in Granted PROVE p # 0 /\ Inside(p, Reclaimable) /\ grants[p] = 1
    BY DEF GrantedIsRam
  <2>1. p # 0 /\ grants[p] = 1 /\ p \in PagesOf(Reclaimable)
    BY DEF IInv, GrantsRight
  <2>2. PICK e \in Entries : e.type \in Reclaimable /\ p \in WholePages(e)
    BY <2>1 DEF PagesOf
  <2>3. e.base \in Nat /\ e.length \in Nat
    BY EntriesOfMap DEF IInv, TypeOK
  <2>4. e.base <= p * PAGE /\ (p + 1) * PAGE <= e.base + e.length
    BY <2>2, <2>3, WholePagesInside
  <2> QED
    BY <2>1, <2>2, <2>4 DEF Inside
<1> QED
  BY AlwaysIInv, <1>1, PTL

(***************************************************************************)
(* With the kernel linked above physical memory, pmm_alloc answers NULL    *)
(* only when all of usable and reclaimable memory has been handed out.     *)
(***************************************************************************)
THEOREM PmmNullMeansExhausted == ASSUME KernelAboveMemory PROVE Spec => []NullMeansExhausted
<1>1. IInv => NullMeansExhausted
  <2> SUFFICES ASSUME IInv, failed, NEW p \in 1..Highest, Inside(p, Reclaimable)
               PROVE  p \in Granted
    BY DEF NullMeansExhausted
  <2> USE PmmConstants DEF IInv
  <2>1. map \in Maps /\ pc = "up" /\ Scanned \subseteq bitmap /\ page_count = PageUp(Highest)
    BY DEF TypeOK, FailedRight, Placed
  <2>2. Highest \in Nat /\ p \in Nat /\ p # 0
    BY <2>1, HighestIs
  <2>3. PICK e \in Entries : /\ e.type \in Reclaimable
                             /\ e.base <= p * PAGE
                             /\ (p + 1) * PAGE <= e.base + e.length
    BY DEF Inside
  <2>4. p \in PagesOf(Reclaimable)
    BY <2>1, <2>2, <2>3, InsideIsWhole DEF PagesOf
  <2>5. p + 1 <= page_count
    <3> PICK r : r = p + 1
      OBVIOUS
    <3>1. /\ r \in Nat /\ r * PAGE \in Nat /\ r * PAGE <= e.base + e.length
          /\ e.base \in Nat /\ e.length \in Nat /\ e.base + e.length <= Highest
      BY <2>1, <2>2, <2>3, HighestIs, EntriesOfMap
    <3>2. page_count \in Nat /\ Highest <= page_count * PAGE
      BY <2>1, <2>2, PageUpIs
    <3>3. page_count * PAGE \in Nat
      BY <3>2
    <3>4. r * PAGE <= page_count * PAGE
      BY <2>2, <3>1, <3>2, <3>3
    <3>5. ~(page_count + 1 <= r)
      <4> SUFFICES ASSUME page_count + 1 <= r PROVE FALSE
        OBVIOUS
      <4> PICK c : c = page_count + 1
        OBVIOUS
      <4>1. c \in Nat /\ c * PAGE = page_count * PAGE + PAGE
        BY <3>2
      <4>2. c * PAGE <= r * PAGE
        BY <3>1, <4>1, Monotonic
      <4> QED
        BY <3>1, <3>3, <3>4, <4>1, <4>2
    <3> QED
      BY <3>1, <3>2, <3>5
  <2>6. p \in Scanned /\ p \in 0..(page_count - 1)
    BY <2>2, <2>5 DEF Scanned, TypeOK
  <2> QED
    BY <2>1, <2>4, <2>6 DEF BitsTell
<1> QED
  BY AlwaysIInv, <1>1, PTL
=============================================================================
