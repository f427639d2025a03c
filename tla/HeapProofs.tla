----------------------------- MODULE HeapProofs -----------------------------
(***************************************************************************)
(* Proofs about Heap.tla, for every heap window, page size, header size,   *)
(* set of request sizes and amount of physical memory.                     *)
(*                                                                         *)
(* The argument: Carve, Link and Absorb, the three ways the code rewrites  *)
(* its list, each map a list that tiles the heap to one that tiles it;     *)
(* HeapInv adds what the walks know and is inductive; the properties are   *)
(* its consequences.                                                       *)
(***************************************************************************)
EXTENDS Heap, TLAPS

-----------------------------------------------------------------------------
(* Rounding *)

\* align_up never rounds down, and rounds up by less than a.
LEMMA AlignUpBounds ==
  ASSUME NEW x \in Nat, NEW a \in Nat \ {0}
  PROVE  /\ align_up(x, a) \in Nat
         /\ x <= align_up(x, a)
         /\ align_up(x, a) < x + a
  <1> DEFINE y == x + a - 1
  <1>1. y \in Nat /\ y % a \in 0..(a - 1)
    OBVIOUS
  <1> QED
    BY <1>1 DEF align_up

\* heap_expand maps whole pages: needed is exactly pages * PAGE_SIZE.
LEMMA NeededPages ==
  ASSUME NEW bytes \in Nat
  PROVE  /\ Needed(bytes) \in Nat /\ bytes <= Needed(bytes)
         /\ Needed(bytes) \div PAGE_SIZE \in Nat
         /\ (Needed(bytes) \div PAGE_SIZE) * PAGE_SIZE = Needed(bytes)
  <1> DEFINE y == bytes + PAGE_SIZE - 1
             q == y \div PAGE_SIZE
  <1>1. PAGE_SIZE \in Nat \ {0}
    BY HeapConstants
  <1>2. y \in Nat
    BY <1>1
  <1>3. q \in Nat /\ y - (y % PAGE_SIZE) = PAGE_SIZE * q
    <2> HIDE DEF y
    <2> QED BY <1>1, <1>2
  <1>4. Needed(bytes) = PAGE_SIZE * q
    BY <1>3 DEF Needed, align_up
  <1>5. (PAGE_SIZE * q) \div PAGE_SIZE = q
    <2> HIDE DEF q
    <2> QED BY <1>1, <1>3
  <1>6. Needed(bytes) \div PAGE_SIZE = q
    BY <1>4, <1>5
  <1>7. q * PAGE_SIZE = PAGE_SIZE * q
    <2> HIDE DEF q
    <2> QED BY <1>1, <1>3
  <1>8. Needed(bytes) \in Nat /\ bytes <= Needed(bytes)
    BY <1>1, AlignUpBounds DEF Needed
  <1> QED
    BY <1>3, <1>4, <1>6, <1>7, <1>8

-----------------------------------------------------------------------------
(* The three ways to rewrite the list *)

\* Splitting or taking a free block that is large enough keeps the tiling.
LEMMA CarveTiles ==
  ASSUME NEW h, NEW e \in Nat, IsList(h), Tiles(h, e),
         NEW a \in DOMAIN h, NEW s \in Nat, h[a].size >= s
  PROVE  IsList(Carve(h, a, s)) /\ Tiles(Carve(h, a, s), e)
  <1> DEFINE rest == a + HDR + s
             g == Carve(h, a, s)
  <1>0. HDR \in Nat \ {0} /\ MIN_SPLIT \in Nat \ {0}
    BY HeapConstants
  <1>1. /\ a \in Nat \ {0} /\ h[a] \in Block
        /\ \A x \in DOMAIN h : x \in Nat \ {0} /\ h[x] \in Block
    BY DEF IsList, NULL
  <1>2. CASE Splittable(h[a], s)
    <2>1. h[a].size >= s + HDR + MIN_SPLIT /\ h[a].size \in Nat
      BY <1>1, <1>2 DEF Splittable, Block
    <2>2. /\ DOMAIN g = DOMAIN h \cup {rest}
          /\ g[a] = [size |-> s, is_free |-> FALSE, next |-> rest]
          /\ rest # a
          /\ g[rest] = [size |-> h[a].size - s - HDR, is_free |-> TRUE,
                        next |-> h[a].next]
          /\ \A x \in DOMAIN h \ {a, rest} : g[x] = h[x]
      BY <1>0, <1>1, <1>2 DEF Carve
    <2>3. rest \notin DOMAIN h
      BY <1>0, <1>1, <2>1 DEF Tiles, Ordered, End
    <2>4. IsList(g)
      <3>1. g = [x \in DOMAIN g |-> g[x]]
        BY <1>2 DEF Carve
      <3>2. \A x \in DOMAIN g : x \in Nat \ {0} /\ g[x] \in Block
        <4>1. rest \in Nat \ {0} /\ h[a].size - s - HDR \in Nat
          BY <1>0, <1>1, <2>1
        <4>2. g[a] \in Block /\ g[rest] \in Block
          <5> HIDE DEF g, rest
          <5> QED BY <1>1, <2>2, <4>1 DEF Block
        <4> HIDE DEF g, rest
        <4> QED BY <1>1, <2>2, <4>1, <4>2
      <3> QED
        BY <3>1, <3>2 DEF IsList, NULL
    <2>5. Linked(g, e)
      BY <1>0, <1>1, <2>1, <2>2, <2>3 DEF Linked, End, Tiles, Block, NULL
    <2>6. Ordered(g, e)
      BY <1>0, <1>1, <2>1, <2>2, <2>3 DEF Ordered, End, Tiles, Block
    <2> QED
      BY <2>2, <2>4, <2>5, <2>6 DEF Tiles
  <1>3. CASE ~Splittable(h[a], s)
    <2>1. /\ DOMAIN g = DOMAIN h
          /\ g = [h EXCEPT ![a] = Marked(h[a], FALSE)]
      BY <1>3 DEF Carve, IsList
    <2>2. /\ \A x \in DOMAIN h : /\ g[x] \in Block
                                 /\ g[x].size = h[x].size
                                 /\ g[x].next = h[x].next
      BY <1>1, <2>1 DEF Block, Marked
    <2>3. IsList(g)
      <3>1. g = [x \in DOMAIN g |-> g[x]]
        BY <2>1
      <3> QED
        BY <2>1, <2>2, <3>1 DEF IsList
    <2> QED
      BY <2>1, <2>2, <2>3 DEF Tiles, Linked, Ordered, End
  <1> QED
    BY <1>2, <1>3

\* Appending the block of a new page run to the last block keeps the tiling.
LEMMA LinkTiles ==
  ASSUME NEW h, NEW e \in Nat, IsList(h), Tiles(h, e),
         NEW l \in DOMAIN h, h[l].next = NULL,
         NEW b \in Block, b.next = NULL
  PROVE  /\ e \notin DOMAIN h
         /\ IsList(Link(h, l, e, b))
         /\ Tiles(Link(h, l, e, b), e + HDR + b.size)
         /\ Link(h, l, e, b)[e] = b
         /\ \A x \in DOMAIN h : /\ Link(h, l, e, b)[x].is_free = h[x].is_free
                                /\ Link(h, l, e, b)[x].size = h[x].size
         /\ DOMAIN Link(h, l, e, b) = DOMAIN h \cup {e}
         /\ \A x \in DOMAIN h \ {l} : Link(h, l, e, b)[x].next = h[x].next
         /\ Link(h, l, e, b)[l].next = e
  <1> DEFINE g == Link(h, l, e, b)
  <1>0. HDR \in Nat \ {0} /\ HEAP_START \in Nat \ {0} /\ b.size \in Nat
    BY HeapConstants DEF Block
  <1>1. \A x \in DOMAIN h : x \in Nat \ {0} /\ h[x] \in Block
    BY DEF IsList, NULL
  <1>2. \A x \in DOMAIN h : h[x].size \in Nat /\ x < End(h, x) /\ End(h, x) <= e
    BY <1>0, <1>1 DEF Tiles, Ordered, End, Block
  <1>3. e \notin DOMAIN h /\ e # 0 /\ HEAP_START <= e
    BY <1>0, <1>1, <1>2 DEF Tiles, Ordered, End
  <1>4. /\ DOMAIN g = DOMAIN h \cup {e}
        /\ g[e] = b
        /\ g[l] = Pointed(h[l], e)
        /\ \A x \in DOMAIN h \ {l} : g[x] = h[x]
    BY <1>3 DEF Link
  <1>5. \A x \in DOMAIN h : /\ g[x] \in Block
                            /\ g[x].size = h[x].size
                            /\ g[x].is_free = h[x].is_free
                            /\ g[x].next = IF x = l THEN e ELSE h[x].next
    BY <1>1, <1>4 DEF Block, Pointed
  <1>6. IsList(g)
    <2>1. g = [x \in DOMAIN g |-> g[x]]
      BY DEF Link
    <2>2. \A x \in DOMAIN g : x \in Nat \ {0} /\ g[x] \in Block
      BY <1>1, <1>3, <1>4, <1>5
    <2> QED
      BY <2>1, <2>2 DEF IsList, NULL
  <1>7. \A x \in DOMAIN h : End(g, x) = End(h, x)
    BY <1>5 DEF End
  <1>8. End(g, e) = e + HDR + b.size
    BY <1>4 DEF End
  <1>9. \A x \in DOMAIN h : x # l => h[x].next # NULL
    <2> SUFFICES ASSUME NEW x \in DOMAIN h, x # l, h[x].next = NULL
                 PROVE  FALSE
      OBVIOUS
    <2>1. End(h, x) = e /\ End(h, l) = e
      BY DEF Tiles, Linked
    <2> QED
      BY <1>1, <1>2, <2>1 DEF Tiles, Ordered
  <1>10. Linked(g, e + HDR + b.size)
    BY <1>3, <1>4, <1>5, <1>7, <1>8, <1>9 DEF Linked, Tiles, NULL
  <1>11. Ordered(g, e + HDR + b.size)
    <2>1. \A x \in DOMAIN h : HEAP_START <= x /\ End(h, x) \in Nat
      BY <1>0, <1>1, <1>2 DEF Ordered, Tiles, End
    <2>2. \A x \in DOMAIN g : HEAP_START <= x /\ End(g, x) <= e + HDR + b.size
      BY <1>0, <1>2, <1>3, <1>4, <1>7, <1>8, <2>1
    <2>3. \A x, y \in DOMAIN h : x < y => End(h, x) <= y
      BY DEF Ordered, Tiles
    <2>4. \A x, y \in DOMAIN g : x < y => End(g, x) <= y
      <3> HIDE DEF g
      <3> QED BY <1>1, <1>2, <1>4, <1>7, <2>1, <2>3
    <2> QED
      BY <2>2, <2>4 DEF Ordered
  <1> QED
    BY <1>3, <1>4, <1>5, <1>6, <1>10, <1>11 DEF Tiles

\* Absorbing the next block keeps the tiling.
LEMMA AbsorbTiles ==
  ASSUME NEW h, NEW e \in Nat, IsList(h), Tiles(h, e),
         NEW a \in DOMAIN h, h[a].next # NULL
  PROVE  /\ h[a].next \in DOMAIN h /\ a < h[a].next
         /\ IsList(Absorb(h, a)) /\ Tiles(Absorb(h, a), e)
         /\ DOMAIN Absorb(h, a) = DOMAIN h \ {h[a].next}
         /\ Absorb(h, a)[a].is_free = h[a].is_free
         /\ \A x \in DOMAIN h \ {a, h[a].next} : Absorb(h, a)[x] = h[x]
         /\ Absorb(h, a)[a].next = h[h[a].next].next
  <1> DEFINE g == Absorb(h, a)
             n == h[a].next
  <1>0. HDR \in Nat \ {0} /\ HEAP_START \in Nat \ {0}
    BY HeapConstants
  <1>1. \A x \in DOMAIN h : /\ x \in Nat \ {0} /\ h[x] \in Block
                            /\ h[x].size \in Nat /\ h[x].next \in Nat
    BY DEF IsList, NULL, Block
  <1>2. n \in DOMAIN h /\ n = a + HDR + h[a].size /\ n > a
    BY <1>0, <1>1 DEF Tiles, Linked, End
  <1>3. /\ DOMAIN g = DOMAIN h \ {n}
        /\ g[a] = [size |-> h[a].size + HDR + h[n].size,
                   is_free |-> h[a].is_free, next |-> h[n].next]
        /\ \A x \in DOMAIN h \ {a, n} : g[x] = h[x]
    BY <1>1, <1>2 DEF Absorb
  <1>4. /\ g[a] \in Block /\ g[a].size = h[a].size + HDR + h[n].size
        /\ g[a].next = h[n].next /\ g[a].is_free = h[a].is_free
    BY <1>0, <1>1, <1>2, <1>3 DEF Block
  <1>5. IsList(g)
    <2>1. g = [x \in DOMAIN g |-> g[x]]
      BY DEF Absorb
    <2>2. \A x \in DOMAIN g : x \in Nat \ {0} /\ g[x] \in Block
      BY <1>1, <1>3, <1>4
    <2> QED
      BY <2>1, <2>2 DEF IsList, NULL
  <1>6. End(g, a) = End(h, n)
    BY <1>0, <1>1, <1>2, <1>4 DEF End
  <1>7. \A x \in DOMAIN g \ {a} : End(g, x) = End(h, x)
    BY <1>3 DEF End
  <1>8. Linked(g, e)
    <2> SUFFICES ASSUME NEW x \in DOMAIN g
                 PROVE  IF g[x].next = NULL THEN End(g, x) = e
                        ELSE g[x].next \in DOMAIN g /\ g[x].next = End(g, x)
      BY DEF Linked
    <2>1. CASE x = a
      <3>1. h[n].next # n
        BY <1>0, <1>1, <1>2 DEF Tiles, Linked, End, NULL
      <3> QED
        BY <1>2, <1>3, <1>4, <1>6, <2>1, <3>1 DEF Tiles, Linked
    <2>2. CASE x # a
      <3>1. h[x].next # n
        <4>1. x < a \/ x > a
          BY <1>1, <1>3, <2>2
        <4>2. x < a => End(h, x) <= a
          BY <1>3 DEF Tiles, Ordered
        <4>3. x > a => x > n
          BY <1>0, <1>1, <1>2, <1>3 DEF Tiles, Ordered, End
        <4> QED
          BY <1>0, <1>1, <1>2, <1>3, <4>1, <4>2, <4>3 DEF Tiles, Linked, End, NULL
      <3> QED
        BY <1>3, <1>7, <2>2, <3>1 DEF Tiles, Linked
    <2> QED
      BY <2>1, <2>2
  <1>9. Ordered(g, e)
    <2>1. \A x \in DOMAIN g : HEAP_START <= x /\ End(g, x) <= e
      BY <1>2, <1>3, <1>6, <1>7 DEF Tiles, Ordered
    <2>2. \A x, y \in DOMAIN g : x < y => End(g, x) <= y
      <3> SUFFICES ASSUME NEW x \in DOMAIN g, NEW y \in DOMAIN g, x < y
                   PROVE  End(g, x) <= y
        OBVIOUS
      <3>1. CASE x = a
        <4>1. n <= y /\ n # y
          BY <1>2, <1>3, <3>1 DEF Tiles, Ordered, End
        <4>2. n < y
          BY <1>1, <1>2, <1>3, <4>1
        <4> QED
          BY <1>2, <1>3, <1>6, <3>1, <4>2 DEF Tiles, Ordered
      <3>2. CASE x # a
        BY <1>3, <1>7, <3>2 DEF Tiles, Ordered
      <3> QED
        BY <3>1, <3>2
    <2> QED
      BY <2>1, <2>2 DEF Ordered
  <1>10. HEAP_START \in DOMAIN g
    BY <1>0, <1>1, <1>2, <1>3 DEF Tiles, Ordered
  <1> QED
    BY <1>2, <1>3, <1>4, <1>5, <1>8, <1>9, <1>10 DEF Tiles

\* Carve takes block a, leaves every other block alone, and adds at most the
\* free remainder of a, which it links in front of a's old successor.
LEMMA CarveBlocks ==
  ASSUME NEW h, NEW e \in Nat, IsList(h), Tiles(h, e),
         NEW a \in DOMAIN h, NEW s \in Nat, h[a].size >= s
  PROVE  /\ DOMAIN h \subseteq DOMAIN Carve(h, a, s)
         /\ ~Carve(h, a, s)[a].is_free /\ Carve(h, a, s)[a].size >= s
         /\ \A x \in DOMAIN h \ {a} : Carve(h, a, s)[x] = h[x]
         /\ \A x \in DOMAIN Carve(h, a, s) \ DOMAIN h :
              Carve(h, a, s)[x].is_free /\ Carve(h, a, s)[x].next = h[a].next
  <1> DEFINE rest == a + HDR + s
  <1>0. HDR \in Nat \ {0} /\ MIN_SPLIT \in Nat \ {0}
    BY HeapConstants
  <1>1. \A x \in DOMAIN h : /\ x \in Nat \ {0} /\ h[x] \in Block
                            /\ h[x].size \in Nat
    BY DEF IsList, NULL, Block
  <1>2. CASE Splittable(h[a], s)
    <2>1. rest > a /\ rest < End(h, a)
      BY <1>0, <1>1, <1>2 DEF Splittable, End
    <2>2. rest \notin DOMAIN h
      BY <1>0, <1>1, <2>1 DEF Tiles, Ordered, End
    <2> QED
      BY <1>0, <1>1, <1>2, <2>1, <2>2 DEF Carve
  <1>3. CASE ~Splittable(h[a], s)
    BY <1>3 DEF Carve, Marked, IsList
  <1> QED
    BY <1>2, <1>3

\* Carving a free block leaves no two neighbouring free blocks.
LEMMA CarveCoalesced ==
  ASSUME NEW h, NEW e \in Nat, IsList(h), Tiles(h, e),
         NEW a \in DOMAIN h, NEW s \in Nat, h[a].size >= s, h[a].is_free,
         \A x \in DOMAIN h : ~AdjacentFree(h, x)
  PROVE  \A x \in DOMAIN Carve(h, a, s) : ~AdjacentFree(Carve(h, a, s), x)
  <1> DEFINE g == Carve(h, a, s)
  <1>1. /\ ~g[a].is_free
        /\ \A x \in DOMAIN h \ {a} : g[x] = h[x]
        /\ \A x \in DOMAIN g \ DOMAIN h : g[x].next = h[a].next
    BY CarveBlocks
  <1>2. \A x \in DOMAIN h : h[x].next # NULL => h[x].next \in DOMAIN h
    BY DEF Tiles, Linked
  <1> HIDE DEF g
  <1>3. \A x \in DOMAIN h : ~AdjacentFree(g, x)
    BY <1>1, <1>2 DEF AdjacentFree
  <1>4. \A x \in DOMAIN g \ DOMAIN h : ~AdjacentFree(g, x)
    BY <1>1, <1>2 DEF AdjacentFree
  <1> QED
    BY <1>3, <1>4 DEF g

\* Carving a free block for a new owner keeps blocks and owners matched.
LEMMA CarveOwns ==
  ASSUME NEW h, NEW e \in Nat, IsList(h), Tiles(h, e),
         NEW a \in DOMAIN h, NEW s \in Nat, h[a].size >= s, h[a].is_free,
         NEW lv, DOMAIN lv \subseteq Nat, lv \in [DOMAIN lv -> Sizes],
         Owns(h, lv), NEW n \in Sizes, n <= s
  PROVE  /\ a + HDR \notin DOMAIN lv
         /\ Owns(Carve(h, a, s), [q \in DOMAIN lv \cup {a + HDR} |->
                                    IF q = a + HDR THEN n ELSE lv[q]])
  <1> DEFINE g == Carve(h, a, s)
             m == [q \in DOMAIN lv \cup {a + HDR} |->
                     IF q = a + HDR THEN n ELSE lv[q]]
  <1>0. HDR \in Nat \ {0} /\ Sizes \subseteq Nat
    BY HeapConstants
  <1>1. /\ DOMAIN h \subseteq DOMAIN g
        /\ ~g[a].is_free /\ g[a].size >= s
        /\ \A x \in DOMAIN h \ {a} : g[x] = h[x]
        /\ \A x \in DOMAIN g \ DOMAIN h : g[x].is_free
    BY CarveBlocks
  <1>2. a \in Nat /\ (a + HDR) - HDR = a
    BY <1>0 DEF IsList
  <1>3. a + HDR \notin DOMAIN lv
    BY <1>2 DEF Owns
  <1>4. g[a].size \in Nat
    BY <1>1, CarveTiles DEF IsList, Block
  <1>5. DOMAIN m = DOMAIN lv \cup {a + HDR} /\ m[a + HDR] = n
        /\ \A q \in DOMAIN lv : m[q] = lv[q]
    BY <1>3
  <1> HIDE DEF g, m
  <1>6. \A p \in DOMAIN m : /\ p - HDR \in DOMAIN g
                            /\ ~g[p - HDR].is_free
                            /\ m[p] <= g[p - HDR].size
    <2>1. \A p \in DOMAIN lv : p - HDR # a
      BY <1>0, <1>2 DEF Owns
    <2>2. \A p \in DOMAIN lv : /\ p - HDR \in DOMAIN g
                               /\ ~g[p - HDR].is_free
                               /\ m[p] <= g[p - HDR].size
      BY <1>1, <1>5, <2>1 DEF Owns
    <2>3. n <= g[a].size
      BY <1>0, <1>1, <1>4
    <2> QED
      BY <1>1, <1>2, <1>5, <2>2, <2>3
  <1>7. \A x \in DOMAIN g : ~g[x].is_free => x + HDR \in DOMAIN m
    BY <1>1, <1>5 DEF Owns
  <1> QED
    BY <1>3, <1>6, <1>7 DEF Owns, g, m

-----------------------------------------------------------------------------
(* Physical memory *)

LEMMA ProductNat ==
  ASSUME NEW x \in Nat, NEW y \in Nat
  PROVE  x * y \in Nat
  OBVIOUS

\* A successful heap_expand pays for its pages.
LEMMA MapPagesPays ==
  ASSUME NEW bytes \in Nat, MapPages(bytes), Paid,
         heap_end \in Nat, frames \in Nat
  PROVE  /\ frames' \in Nat /\ heap_end' = heap_end + Needed(bytes)
         /\ Paid'
  <1> DEFINE pages == Needed(bytes) \div PAGE_SIZE
  <1>1. PAGE_SIZE \in Nat /\ FRAMES \in Nat /\ HEAP_START \in Nat
    BY HeapConstants
  <1>2. pages \in Nat /\ Needed(bytes) \in Nat /\ pages * PAGE_SIZE = Needed(bytes)
    BY NeededPages
  <1>3. PICK tables \in 0..(3 * pages) :
          /\ pages + tables <= frames
          /\ frames' = frames - pages - tables
          /\ heap_end' = heap_end + Needed(bytes)
    BY DEF MapPages
  <1> HIDE DEF pages
  <1>4. tables \in Nat
    BY <1>2, <1>3
  <1>5. (frames - pages - tables) * PAGE_SIZE + pages * PAGE_SIZE
          <= frames * PAGE_SIZE
    BY <1>1, <1>2, <1>3, <1>4
  <1>6. frames' * PAGE_SIZE + Needed(bytes) <= frames * PAGE_SIZE
    BY <1>2, <1>3, <1>5
  <1>7. frames' \in Nat
    BY <1>2, <1>3, <1>4
  <1>8. frames' * PAGE_SIZE \in Nat /\ frames * PAGE_SIZE \in Nat
        /\ FRAMES * PAGE_SIZE \in Nat
    BY <1>1, <1>7, ProductNat
  <1> QED
    BY <1>1, <1>2, <1>3, <1>6, <1>7, <1>8 DEF Paid

\* A heap_expand that runs out of frames has paid for what it mapped.
LEMMA OutOfMemoryPays ==
  ASSUME NEW bytes \in Nat, OutOfMemory(bytes), Paid,
         heap_end \in Nat, frames \in Nat
  PROVE  heap_end' \in Nat /\ heap_end <= heap_end' /\ frames' = 0 /\ Paid'
  <1> DEFINE pages == Needed(bytes) \div PAGE_SIZE
  <1>1. PAGE_SIZE \in Nat /\ FRAMES \in Nat /\ HEAP_START \in Nat
    BY HeapConstants
  <1>2. pages \in Nat
    BY NeededPages
  <1>3. PICK k \in 0..(pages - 1) :
          k <= frames /\ heap_end' = heap_end + k * PAGE_SIZE
    BY DEF OutOfMemory
  <1>4. k \in Nat
    BY <1>2, <1>3
  <1>5. k * PAGE_SIZE <= frames * PAGE_SIZE
        /\ k * PAGE_SIZE \in Nat /\ frames * PAGE_SIZE \in Nat
        /\ FRAMES * PAGE_SIZE \in Nat /\ 0 * PAGE_SIZE = 0
    BY <1>1, <1>3, <1>4
  <1>6. frames' = 0
    BY DEF OutOfMemory
  <1> QED
    BY <1>1, <1>3, <1>5, <1>6 DEF Paid

-----------------------------------------------------------------------------
(* The inductive invariant *)

LEMMA InitHeapInv == Init => HeapInv
  <1> SUFFICES ASSUME Init PROVE HeapInv
    OBVIOUS
  <1>1. FRAMES \in Nat /\ HEAP_START \in Nat /\ PAGE_SIZE \in Nat
    BY HeapConstants
  <1>2. DOMAIN hdr = {} /\ DOMAIN live = {}
    BY DEF Init
  <1>3. TypeOK
    BY <1>1, <1>2 DEF Init, TypeOK, IsList, NULL
  <1>4. Tiling /\ Ordered(hdr, heap_end) /\ Owned /\ Coalesced
    BY <1>2 DEF Init, Tiling, Ordered, Owned, Owns, Coalesced, Blocks
  <1>5. Walks
    BY <1>1, <1>2 DEF Init, Walks, Blocks
  <1>6. frames \in Nat /\ frames <= FRAMES /\ heap_end = HEAP_START
    BY <1>1 DEF Init
  <1>7. frames * PAGE_SIZE <= FRAMES * PAGE_SIZE
        /\ frames * PAGE_SIZE \in Nat /\ FRAMES * PAGE_SIZE \in Nat
    BY <1>1, <1>6
  <1>8. Paid
    BY <1>1, <1>6, <1>7 DEF Paid
  <1> QED
    BY <1>3, <1>4, <1>5, <1>8 DEF HeapInv

\* The block heap_expand returns spans the new pages.
LEMMA NewBlockSpans ==
  ASSUME NEW bytes \in Nat, HDR <= bytes
  PROVE  /\ NewBlock(bytes) \in Block /\ NewBlock(bytes).next = NULL
         /\ NewBlock(bytes).is_free /\ NewBlock(bytes).size >= bytes - HDR
         /\ HDR + NewBlock(bytes).size = Needed(bytes)
         /\ NewBlock(bytes).size \in Nat
  <1>1. HDR \in Nat
    BY HeapConstants
  <1>2. Needed(bytes) \in Nat /\ bytes <= Needed(bytes)
    BY NeededPages
  <1> QED
    BY <1>1, <1>2 DEF NewBlock, Block, NULL

\* init_heap makes one free block of the whole initial heap: the walk invariant holds of it.
LEMMA init_heapInv ==
  ASSUME HeapInv, init_heap
  PROVE  HeapInv'
  <1> DEFINE b == NewBlock(HEAP_INITIAL_SIZE)
  <1>0. /\ HDR \in Nat \ {0} /\ HEAP_START \in Nat \ {0}
        /\ HEAP_INITIAL_SIZE \in Nat /\ HDR <= HEAP_INITIAL_SIZE
    BY HeapConstants
  <1>1. TypeOK /\ Paid /\ heap_end = HEAP_START /\ DOMAIN live = {}
    BY DEF HeapInv, Walks, init_heap
  <1>2. /\ frames' \in Nat /\ heap_end' = HEAP_START + Needed(HEAP_INITIAL_SIZE)
        /\ Paid'
    BY <1>0, <1>1, MapPagesPays DEF init_heap, TypeOK
  <1>3. /\ b \in Block /\ b.next = NULL /\ b.is_free /\ b.size \in Nat
        /\ HDR + b.size = Needed(HEAP_INITIAL_SIZE)
    BY <1>0, NewBlockSpans
  <1> HIDE DEF b
  <1>4. /\ hdr' = [a \in {HEAP_START} |-> b] /\ head' = HEAP_START
        /\ pc' = "idle" /\ UNCHANGED <<current, last, size, asked, live>>
    BY <1>1 DEF init_heap, b
  <1>5. DOMAIN hdr' = {HEAP_START} /\ hdr'[HEAP_START] = b
    BY <1>4
  <1>6. TypeOK'
    BY <1>0, <1>1, <1>2, <1>3, <1>4, <1>5 DEF TypeOK, IsList, NULL
  <1>7. Tiling' /\ Ordered(hdr, heap_end)'
    BY <1>0, <1>2, <1>3, <1>4, <1>5
    DEF Tiling, Tiles, Linked, Ordered, End
  <1>8. Owned' /\ Coalesced'
    BY <1>1, <1>3, <1>4, <1>5 DEF Owned, Owns, Coalesced, AdjacentFree, Blocks
  <1>9. Walks'
    BY <1>4 DEF Walks
  <1> QED
    BY <1>2, <1>6, <1>7, <1>8, <1>9 DEF HeapInv

\* Running out of frames stops the kernel and disturbs nothing.
LEMMA HaltInv ==
  ASSUME HeapInv, init_heap_halt \/ KmallocHalt
  PROVE  HeapInv'
  <1>0. /\ HDR \in Nat /\ HEAP_INITIAL_SIZE \in Nat /\ HEAP_START \in Nat
    BY HeapConstants
  <1>1. TypeOK /\ Paid /\ Ordered(hdr, heap_end) /\ Owned /\ Coalesced
    BY DEF HeapInv
  <1>2. PICK bytes \in Nat : OutOfMemory(bytes)
    BY <1>0, <1>1 DEF TypeOK, init_heap_halt, KmallocHalt
  <1>3. heap_end' \in Nat /\ heap_end <= heap_end' /\ frames' = 0 /\ Paid'
    BY <1>1, <1>2, OutOfMemoryPays DEF TypeOK
  <1>4. pc # "sweep" /\ pc' = "halted"
        /\ UNCHANGED <<head, hdr, current, last, size, asked, live>>
    BY <1>2 DEF OutOfMemory, init_heap_halt, KmallocHalt
  <1>5. TypeOK'
    BY <1>1, <1>3, <1>4 DEF TypeOK
  <1>6. Ordered(hdr, heap_end)'
    <2>1. \A a \in DOMAIN hdr : End(hdr, a) \in Nat
      BY <1>0, <1>1 DEF TypeOK, IsList, Block, End
    <2> QED
      BY <1>1, <1>3, <1>4, <2>1 DEF Ordered, End, TypeOK
  <1>7. Tiling' /\ Owned' /\ Coalesced' /\ Walks'
    BY <1>1, <1>4 DEF Tiling, Owned, Coalesced, Walks, Blocks
  <1> QED
    BY <1>3, <1>5, <1>6, <1>7 DEF HeapInv

\* A call of kmalloc only records what is asked and starts the walk at head.
LEMMA KmallocCallInv ==
  ASSUME HeapInv, NEW s \in Sizes, KmallocCall(s)
  PROVE  HeapInv'
  <1>0. s \in Nat /\ ALIGN \in Nat \ {0}
    BY HeapConstants
  <1>1. align_up(s, ALIGN) \in Nat /\ s <= align_up(s, ALIGN)
    BY <1>0, AlignUpBounds
  <1>2. TypeOK'
    BY <1>0, <1>1 DEF HeapInv, TypeOK, KmallocCall, NULL
  <1>3. Tiling' /\ Ordered(hdr, heap_end)' /\ Owned' /\ Coalesced' /\ Paid'
    BY DEF HeapInv, KmallocCall, Tiling, Owned, Coalesced, Paid, Blocks
  <1>4. Walks'
    <2>1. /\ pc' = "scan" /\ current' = head /\ last' = NULL /\ head' = head
          /\ hdr' = hdr /\ asked' = s /\ size' = align_up(s, ALIGN)
          /\ pc = "idle"
      BY DEF KmallocCall
    <2>2. head = HEAP_START /\ head \in DOMAIN hdr
      BY <2>1 DEF HeapInv, Tiling, Tiles
    <2>3. \A a \in DOMAIN hdr : ~(head = NULL \/ a < head)
      BY <2>2 DEF HeapInv, TypeOK, IsList, Ordered, NULL
    <2> QED
      BY <1>1, <2>1, <2>2, <2>3 DEF Walks, Blocks
  <1> QED
    BY <1>2, <1>3, <1>4 DEF HeapInv

\* kmalloc steps over a block that does not fit.
LEMMA KmallocSkipInv ==
  ASSUME HeapInv, KmallocSkip
  PROVE  HeapInv'
  <1>1. /\ pc = "scan" /\ current # NULL /\ ~Fits(hdr[current], size)
        /\ last' = current /\ current' = hdr[current].next
        /\ UNCHANGED <<head, heap_end, hdr, frames, pc, size, asked, live>>
    BY DEF KmallocSkip
  <1>2. current \in DOMAIN hdr /\ current \in Nat /\ hdr[current].next \in Nat
    BY <1>1 DEF HeapInv, Walks, Blocks, TypeOK, IsList, Block
  <1>3. TypeOK'
    BY <1>1, <1>2 DEF HeapInv, TypeOK
  <1>4. Tiling' /\ Ordered(hdr, heap_end)' /\ Owned' /\ Coalesced' /\ Paid'
    BY <1>1 DEF HeapInv, Tiling, Owned, Coalesced, Paid, Blocks
  <1>5. Walks'
    <2>0. HDR \in Nat \ {0}
      BY HeapConstants
    <2>1. Tiles(hdr, heap_end) /\ IsList(hdr)
      BY <1>1 DEF HeapInv, Tiling, TypeOK
    <2>2. \A a \in DOMAIN hdr : /\ a \in Nat /\ hdr[a].size \in Nat
      BY <2>1 DEF IsList, Block
    <2>3. current' = NULL \/ current' \in DOMAIN hdr
      BY <1>1, <1>2, <2>1 DEF Tiles, Linked
    <2>4. \A a \in DOMAIN hdr : current' = NULL \/ a < current' => a <= current
      <3> SUFFICES ASSUME NEW a \in DOMAIN hdr, current' = NULL \/ a < current',
                          ~(a <= current)
                   PROVE  FALSE
        OBVIOUS
      <3>1. current < a
        BY <1>2, <2>2
      <3>2. End(hdr, current) <= a
        BY <1>2, <2>1, <3>1 DEF Tiles, Ordered
      <3>3. CASE current' = NULL
        <4>1. End(hdr, current) = heap_end /\ End(hdr, a) <= heap_end
          BY <1>1, <1>2, <2>1, <3>3 DEF Tiles, Linked, Ordered
        <4> QED
          BY <1>2, <2>0, <2>2, <3>2, <4>1 DEF End
      <3>4. CASE current' # NULL
        BY <1>1, <1>2, <2>0, <2>1, <2>2, <3>2, <3>4 DEF Tiles, Linked, End
      <3> QED
        BY <3>3, <3>4
    <2>5. \A a \in DOMAIN hdr : a < current => ~Fits(hdr[a], size)
      BY <1>1 DEF HeapInv, Walks, Blocks
    <2>6. \A a \in DOMAIN hdr : current' = NULL \/ a < current' => ~Fits(hdr[a], size)
      <3>1. \A a \in DOMAIN hdr : a <= current => a < current \/ a = current
        BY <1>2, <2>2
      <3> QED
        BY <1>1, <2>4, <2>5, <3>1
    <2>7. asked \in Sizes /\ asked <= size
      BY <1>1 DEF HeapInv, Walks
    <2> QED
      BY <1>1, <1>2, <2>3, <2>6, <2>7 DEF Walks, Blocks, Fits
  <1> QED
    BY <1>3, <1>4, <1>5 DEF HeapInv

\* kmalloc splits a free block that is large enough, or takes it whole.
LEMMA KmallocTakeInv ==
  ASSUME HeapInv, KmallocTake
  PROVE  HeapInv'
  <1> DEFINE p == current + HDR
  <1>1. /\ pc = "scan" /\ current # NULL /\ Fits(hdr[current], size)
        /\ hdr' = Carve(hdr, current, size) /\ Grant(p) /\ Return
        /\ UNCHANGED <<head, heap_end, frames>>
    BY DEF KmallocTake
  <1>2. /\ TypeOK /\ IsList(hdr) /\ Tiles(hdr, heap_end) /\ head = HEAP_START
        /\ Owns(hdr, live) /\ current \in DOMAIN hdr
        /\ asked \in Sizes /\ asked <= size /\ size \in Nat /\ heap_end \in Nat
    BY <1>1 DEF HeapInv, Walks, Blocks, TypeOK, Tiling, Owned
  <1>3. hdr[current].is_free /\ hdr[current].size >= size
    BY <1>1 DEF Fits
  <1>4. \A x \in DOMAIN hdr : ~AdjacentFree(hdr, x)
    BY <1>1 DEF HeapInv, Coalesced, Blocks
  <1>5. IsList(hdr') /\ Tiles(hdr', heap_end')
    BY <1>1, <1>2, <1>3, CarveTiles
  <1>6. \A x \in DOMAIN hdr' : ~AdjacentFree(hdr', x)
    BY <1>1, <1>2, <1>3, <1>4, CarveCoalesced
  <1>7. live' = [q \in DOMAIN live \cup {p} |-> IF q = p THEN asked ELSE live[q]]
    BY <1>1 DEF Grant
  <1>8. Owns(hdr', live')
    BY <1>1, <1>2, <1>3, <1>7, CarveOwns DEF TypeOK
  <1>9. p \in Nat
    BY <1>2, HeapConstants DEF IsList
  <1>10. TypeOK'
    BY <1>1, <1>2, <1>5, <1>7, <1>9 DEF TypeOK, Return, NULL
  <1>11. Tiling' /\ Ordered(hdr, heap_end)' /\ Owned' /\ Coalesced'
    BY <1>1, <1>2, <1>5, <1>6, <1>8
    DEF Tiling, Tiles, Owned, Coalesced, Blocks, Return
  <1>12. Walks' /\ Paid'
    BY <1>1 DEF HeapInv, Walks, Paid, Return
  <1> QED
    BY <1>10, <1>11, <1>12 DEF HeapInv

\* kmalloc at the end of the list maps new pages and appends their block.
LEMMA KmallocGrowInv ==
  ASSUME HeapInv, KmallocGrow
  PROVE  HeapInv'
  <1> DEFINE p == heap_end + HDR
             b == NewBlock(size + HDR)
             g == Link(hdr, last, heap_end, b)
  <1>0. HDR \in Nat \ {0} /\ HEAP_START \in Nat \ {0}
    BY HeapConstants
  <1>1. /\ pc = "scan" /\ current = NULL /\ MapPages(size + HDR)
        /\ hdr' = Carve(g, heap_end, size)
        /\ head' = IF last = NULL /\ head = NULL THEN heap_end ELSE head
        /\ Grant(p) /\ Return
    BY DEF KmallocGrow
  <1>2. /\ TypeOK /\ IsList(hdr) /\ Tiles(hdr, heap_end) /\ head = HEAP_START
        /\ Owns(hdr, live) /\ Paid
        /\ asked \in Sizes /\ asked <= size /\ size \in Nat /\ heap_end \in Nat
    BY <1>1 DEF HeapInv, Walks, Blocks, TypeOK, Tiling, Owned
  <1>3. last \in DOMAIN hdr /\ hdr[last].next = NULL
    BY <1>0, <1>1, <1>2 DEF HeapInv, Walks, Blocks, NULL
  <1>4. \A x \in DOMAIN hdr : ~AdjacentFree(hdr, x)
    BY <1>1 DEF HeapInv, Coalesced, Blocks
  <1>5. /\ b \in Block /\ b.next = NULL /\ b.is_free /\ b.size \in Nat
        /\ b.size >= size /\ HDR + b.size = Needed(size + HDR)
    <2>1. size + HDR \in Nat /\ HDR <= size + HDR /\ (size + HDR) - HDR = size
      BY <1>0, <1>2
    <2> QED
      BY <2>1, NewBlockSpans
  <1>6. frames' \in Nat /\ Paid' /\ heap_end' = heap_end + HDR + b.size
    <2>1. size + HDR \in Nat /\ frames \in Nat
      BY <1>0, <1>2 DEF TypeOK
    <2>2. frames' \in Nat /\ Paid' /\ heap_end' = heap_end + Needed(size + HDR)
      BY <1>1, <1>2, <2>1, MapPagesPays
    <2> HIDE DEF b
    <2> QED
      BY <1>0, <1>2, <1>5, <2>2
  <1> HIDE DEF b
  <1>7. /\ heap_end \notin DOMAIN hdr
        /\ IsList(g) /\ Tiles(g, heap_end')
        /\ g[heap_end] = b
        /\ \A x \in DOMAIN hdr : g[x].is_free = hdr[x].is_free
                                 /\ g[x].size = hdr[x].size
        /\ DOMAIN g = DOMAIN hdr \cup {heap_end}
        /\ \A x \in DOMAIN hdr \ {last} : g[x].next = hdr[x].next
        /\ g[last].next = heap_end
    BY <1>2, <1>3, <1>5, <1>6, LinkTiles
  <1> HIDE DEF g
  <1>8. heap_end' \in Nat
    BY <1>0, <1>2, <1>5, <1>6
  <1>9. IsList(hdr') /\ Tiles(hdr', heap_end')
    BY <1>1, <1>2, <1>5, <1>7, <1>8, CarveTiles
  <1>10. \A x \in DOMAIN hdr' : ~AdjacentFree(hdr', x)
    <2>1. /\ ~hdr'[heap_end].is_free
          /\ \A x \in DOMAIN hdr : hdr'[x] = g[x]
          /\ \A x \in DOMAIN hdr' \ DOMAIN g : hdr'[x].next = NULL
      BY <1>1, <1>2, <1>5, <1>7, <1>8, CarveBlocks
    <2>2. \A x \in DOMAIN hdr : hdr[x].next # NULL => hdr[x].next \in DOMAIN hdr
      BY <1>2 DEF Tiles, Linked
    <2>3. ~AdjacentFree(hdr', last)
      BY <1>3, <1>7, <2>1 DEF AdjacentFree
    <2>4. \A x \in DOMAIN hdr \ {last} : ~AdjacentFree(hdr', x)
      BY <1>4, <1>7, <2>1, <2>2 DEF AdjacentFree
    <2>5. ~AdjacentFree(hdr', heap_end)
      BY <2>1 DEF AdjacentFree
    <2>6. \A x \in DOMAIN hdr' \ DOMAIN g : ~AdjacentFree(hdr', x)
      BY <2>1 DEF AdjacentFree
    <2> QED
      BY <1>7, <2>3, <2>4, <2>5, <2>6
  <1>11. live' = [q \in DOMAIN live \cup {p} |-> IF q = p THEN asked ELSE live[q]]
    BY <1>1 DEF Grant
  <1>12. Owns(g, live)
    BY <1>2, <1>5, <1>7 DEF Owns
  <1>13. Owns(hdr', live')
    BY <1>1, <1>2, <1>5, <1>7, <1>8, <1>11, <1>12, CarveOwns DEF TypeOK
  <1>14. p \in Nat
    BY <1>0, <1>2
  <1>15. head' = HEAP_START
    BY <1>0, <1>1, <1>2 DEF NULL
  <1>16. TypeOK'
    BY <1>0, <1>1, <1>2, <1>6, <1>8, <1>9, <1>11, <1>14, <1>15
    DEF TypeOK, Return, NULL
  <1>17. Tiling' /\ Ordered(hdr, heap_end)' /\ Owned' /\ Coalesced' /\ Walks'
    BY <1>1, <1>9, <1>10, <1>13, <1>15
    DEF Tiling, Tiles, Owned, Coalesced, Blocks, Return, Walks
  <1> QED
    BY <1>6, <1>16, <1>17 DEF HeapInv

\* kfree marks the block free before its walk: only what the walk will
\* reach may be left uncoalesced.
LEMMA KfreeCallInv ==
  ASSUME HeapInv, NEW p \in DOMAIN live, KfreeCall(p)
  PROVE  HeapInv'
  <1> DEFINE a == p - HDR
  <1>0. HDR \in Nat \ {0} /\ HEAP_START \in Nat \ {0}
    BY HeapConstants
  <1>1. /\ pc = "idle" /\ hdr' = [hdr EXCEPT ![a] = Marked(hdr[a], TRUE)]
        /\ live' = [q \in DOMAIN live \ {p} |-> live[q]]
        /\ current' = head /\ pc' = "sweep"
        /\ UNCHANGED <<head, heap_end, frames, last, size, asked>>
    BY DEF KfreeCall
  <1>2. /\ TypeOK /\ IsList(hdr) /\ Tiles(hdr, heap_end) /\ head = HEAP_START
        /\ Owns(hdr, live) /\ a \in DOMAIN hdr /\ p \in Nat
        /\ \A x \in DOMAIN hdr : x \in Nat /\ hdr[x] \in Block
    BY <1>1 DEF HeapInv, TypeOK, Tiling, Owned, Owns, IsList
  <1>3. /\ DOMAIN hdr' = DOMAIN hdr
        /\ hdr'[a] = Marked(hdr[a], TRUE)
        /\ \A x \in DOMAIN hdr \ {a} : hdr'[x] = hdr[x]
    BY <1>1, <1>2
  <1>4. \A x \in DOMAIN hdr : /\ hdr'[x] \in Block
                              /\ hdr'[x].size = hdr[x].size
                              /\ hdr'[x].next = hdr[x].next
    <2>1. /\ hdr'[a] \in Block /\ hdr'[a].size = hdr[a].size
          /\ hdr'[a].next = hdr[a].next
      <3> HIDE DEF a
      <3> QED
        BY <1>2, <1>3 DEF Marked, Block
    <2> HIDE DEF a
    <2> QED
      BY <1>2, <1>3, <2>1
  <1>5. IsList(hdr')
    <2>1. hdr' = [x \in DOMAIN hdr' |-> hdr'[x]]
      BY <1>1
    <2> QED
      BY <1>2, <1>3, <1>4, <2>1 DEF IsList
  <1>6. Tiles(hdr', heap_end')
    <2>1. heap_end' = heap_end
      BY <1>1
    <2>2. \A x \in DOMAIN hdr : End(hdr', x) = End(hdr, x)
      BY <1>4 DEF End
    <2> QED
      BY <1>2, <1>3, <1>4, <2>1, <2>2 DEF Tiles, Linked, Ordered
  <1>7. Owns(hdr', live')
    <2>1. /\ DOMAIN live' = DOMAIN live \ {p}
          /\ \A q \in DOMAIN live' : live'[q] = live[q]
      BY <1>1
    <2>2. \A q \in DOMAIN live' : q - HDR # a
      BY <1>0, <1>2, <2>1 DEF TypeOK
    <2>3. \A x \in DOMAIN hdr' : ~hdr'[x].is_free => x # a /\ x + HDR # p
      BY <1>0, <1>2, <1>3 DEF Marked
    <2> QED
      BY <1>2, <1>3, <2>1, <2>2, <2>3 DEF Owns
  <1>8. TypeOK'
    BY <1>1, <1>2, <1>5 DEF TypeOK
  <1>9. Coalesced'
    BY <1>0, <1>1, <1>2, <1>3, <1>6 DEF Coalesced, Blocks, Tiles, Ordered, NULL
  <1>10. Tiling' /\ Ordered(hdr, heap_end)' /\ Owned' /\ Walks' /\ Paid'
    BY <1>1, <1>2, <1>6, <1>7
    DEF HeapInv, Tiling, Tiles, Owned, Blocks, Walks, Paid
  <1> QED
    BY <1>8, <1>9, <1>10 DEF HeapInv

\* One merge of the walk keeps the tiling and the blocks behind it coalesced.
LEMMA KfreeMergeInv ==
  ASSUME HeapInv, KfreeMerge
  PROVE  HeapInv'
  <1> DEFINE n == hdr[current].next
  <1>1. /\ pc = "sweep" /\ current # NULL
        /\ hdr[current].is_free /\ n # NULL /\ hdr[n].is_free
        /\ hdr' = Absorb(hdr, current)
        /\ UNCHANGED <<head, heap_end, frames, pc, current, last, size, asked, live>>
    BY DEF KfreeMerge, Mergeable
  <1>2. /\ TypeOK /\ IsList(hdr) /\ Tiles(hdr, heap_end) /\ head = HEAP_START
        /\ Owns(hdr, live) /\ current \in DOMAIN hdr /\ heap_end \in Nat
        /\ \A x \in DOMAIN hdr : x \in Nat
    BY <1>1 DEF HeapInv, TypeOK, Tiling, Owned, Walks, Blocks, IsList
  <1>3. /\ n \in DOMAIN hdr /\ current < n
        /\ IsList(hdr') /\ Tiles(hdr', heap_end)
        /\ DOMAIN hdr' = DOMAIN hdr \ {n}
        /\ hdr'[current].is_free = hdr[current].is_free
        /\ \A x \in DOMAIN hdr \ {current, n} : hdr'[x] = hdr[x]
    <2>1. /\ hdr[current].next # NULL /\ IsList(hdr) /\ Tiles(hdr, heap_end)
          /\ current \in DOMAIN hdr /\ heap_end \in Nat
      BY <1>1, <1>2
    <2> DEFINE g == Absorb(hdr, current)
    <2>2. n \in DOMAIN hdr /\ current < n
      BY <2>1, AbsorbTiles
    <2>3. IsList(g) /\ Tiles(g, heap_end)
      BY <2>1, AbsorbTiles
    <2>4. DOMAIN g = DOMAIN hdr \ {n}
      BY <2>1, AbsorbTiles
    <2>5. g[current].is_free = hdr[current].is_free
      BY <2>1, AbsorbTiles
    <2>6. \A x \in DOMAIN hdr \ {current, n} : g[x] = hdr[x]
      BY <2>1, AbsorbTiles
    <2>7. hdr' = g
      BY <1>1
    <2> HIDE DEF g, n
    <2> QED
      BY <2>2, <2>3, <2>4, <2>5, <2>6, <2>7
  <1>4. current \in DOMAIN hdr'
    BY <1>2, <1>3
  <1>5. Owns(hdr', live)
    BY <1>1, <1>2, <1>3 DEF Owns
  <1>6. Coalesced'
    <2> SUFFICES ASSUME NEW x \in DOMAIN hdr', x < current
                 PROVE  ~AdjacentFree(hdr', x)
      BY <1>1 DEF Coalesced, Blocks
    <2>1. x \in DOMAIN hdr /\ ~AdjacentFree(hdr, x)
      BY <1>1, <1>3 DEF HeapInv, Coalesced, Blocks
    <2>2. hdr'[x] = hdr[x]
      BY <1>2, <1>3
    <2>3. hdr[x].next # NULL => hdr[x].next \in DOMAIN hdr'
      BY <1>3, <2>2 DEF Tiles, Linked
    <2> QED
      BY <1>1, <1>3, <2>1, <2>2, <2>3 DEF AdjacentFree
  <1>7. TypeOK'
    BY <1>1, <1>2, <1>3 DEF TypeOK
  <1>8. Tiling' /\ Ordered(hdr, heap_end)' /\ Owned' /\ Walks' /\ Paid'
    BY <1>1, <1>2, <1>3, <1>4, <1>5
    DEF HeapInv, Tiling, Tiles, Owned, Blocks, Walks, Paid
  <1> QED
    BY <1>6, <1>7, <1>8 DEF HeapInv

\* The walk moves on only from a block that need not be merged.
LEMMA KfreeAdvanceInv ==
  ASSUME HeapInv, KfreeAdvance
  PROVE  HeapInv'
  <1>0. HDR \in Nat \ {0}
    BY HeapConstants
  <1>1. /\ pc = "sweep" /\ current # NULL /\ ~AdjacentFree(hdr, current)
        /\ current' = hdr[current].next
        /\ UNCHANGED <<head, heap_end, hdr, frames, pc, last, size, asked, live>>
    BY DEF KfreeAdvance, Mergeable, AdjacentFree
  <1>2. /\ TypeOK /\ IsList(hdr) /\ Tiles(hdr, heap_end)
        /\ current \in DOMAIN hdr /\ heap_end \in Nat
        /\ \A x \in DOMAIN hdr : /\ x \in Nat /\ hdr[x].size \in Nat
                                 /\ hdr[x].next \in Nat
    BY <1>1 DEF HeapInv, TypeOK, Tiling, Walks, Blocks, IsList, Block
  <1>3. current' = NULL \/ current' \in DOMAIN hdr
    BY <1>1, <1>2 DEF Tiles, Linked
  <1>4. \A a \in DOMAIN hdr : current' = NULL \/ a < current'
                              => a < current \/ a = current
    <2> SUFFICES ASSUME NEW a \in DOMAIN hdr, current' = NULL \/ a < current',
                        current < a
                 PROVE  FALSE
      BY <1>2
    <2>1. End(hdr, current) <= a
      BY <1>2 DEF Tiles, Ordered
    <2>2. CASE current' = NULL
      <3>1. End(hdr, current) = heap_end /\ End(hdr, a) <= heap_end
        BY <1>1, <1>2, <2>2 DEF Tiles, Linked, Ordered
      <3> QED
        BY <1>0, <1>2, <2>1, <3>1 DEF End
    <2>3. CASE current' # NULL
      BY <1>0, <1>1, <1>2, <2>1, <2>3 DEF Tiles, Linked, End
    <2> QED
      BY <2>2, <2>3
  <1>5. Coalesced'
    BY <1>1, <1>2, <1>4 DEF HeapInv, Coalesced, Blocks
  <1>6. TypeOK'
    BY <1>1, <1>2 DEF TypeOK
  <1>7. Tiling' /\ Ordered(hdr, heap_end)' /\ Owned' /\ Walks' /\ Paid'
    BY <1>1, <1>3 DEF HeapInv, Tiling, Owned, Walks, Blocks, Paid
  <1> QED
    BY <1>5, <1>6, <1>7 DEF HeapInv

\* At its end the walk has seen all blocks: the list is coalesced again.
LEMMA KfreeReturnInv ==
  ASSUME HeapInv, KfreeReturn
  PROVE  HeapInv'
  <1>1. TypeOK' /\ Tiling' /\ Ordered(hdr, heap_end)' /\ Owned'
    BY DEF HeapInv, KfreeReturn, Return, TypeOK, Tiling, Owned, NULL
  <1>2. Coalesced' /\ Walks' /\ Paid'
    BY DEF HeapInv, KfreeReturn, Return, Coalesced, Walks, Blocks, Paid
  <1> QED
    BY <1>1, <1>2 DEF HeapInv

\* A step that changes no variable keeps the invariant.
LEMMA StutterInv ==
  ASSUME HeapInv, UNCHANGED vars
  PROVE  HeapInv'
  BY DEF HeapInv, vars, TypeOK, Tiling, Owned, Coalesced, Walks, Paid, Blocks

\* Every step of heap.c keeps the invariant.
LEMMA NextHeapInv == HeapInv /\ [Next]_vars => HeapInv'
  <1> SUFFICES ASSUME HeapInv, [Next]_vars
               PROVE  HeapInv'
    OBVIOUS
  <1>1. CASE init_heap
    BY <1>1, init_heapInv
  <1>2. CASE init_heap_halt \/ KmallocHalt
    BY <1>2, HaltInv
  <1>3. ASSUME NEW s \in Sizes, KmallocCall(s)
        PROVE  HeapInv'
    BY <1>3, KmallocCallInv
  <1>4. CASE KmallocSkip
    BY <1>4, KmallocSkipInv
  <1>5. CASE KmallocTake
    BY <1>5, KmallocTakeInv
  <1>6. CASE KmallocGrow
    BY <1>6, KmallocGrowInv
  <1>7. ASSUME NEW p \in DOMAIN live, KfreeCall(p)
        PROVE  HeapInv'
    BY <1>7, KfreeCallInv
  <1>8. CASE KfreeMerge
    BY <1>8, KfreeMergeInv
  <1>9. CASE KfreeAdvance
    BY <1>9, KfreeAdvanceInv
  <1>10. CASE KfreeReturn
    BY <1>10, KfreeReturnInv
  <1>11. CASE Halted \/ UNCHANGED vars
    BY <1>11, StutterInv DEF Halted
  <1> QED
    BY <1>1, <1>2, <1>3, <1>4, <1>5, <1>6, <1>7, <1>8, <1>9, <1>10, <1>11
    DEF Next

\* HeapInv holds in every reachable state of the heap.
THEOREM Invariance == Spec => []HeapInv
  BY InitHeapInv, NextHeapInv, PTL DEF Spec

-----------------------------------------------------------------------------
(* What follows from it *)

(***************************************************************************)
(* For every heap geometry, every request size and every sequence of       *)
(* kmalloc and kfree calls, the list tiles the heap, and its taken blocks  *)
(* are exactly the blocks callers own, each with room for what they asked. *)
(***************************************************************************)
THEOREM HeapTiling == Spec => [](TypeOK /\ Tiling /\ Owned)
  <1>1. HeapInv => TypeOK /\ Tiling /\ Owned
    BY DEF HeapInv
  <1> QED
    BY <1>1, Invariance, PTL

\* kfree's sweep leaves no two neighbouring free blocks behind it.
THEOREM HeapCoalesced == Spec => []Coalesced
  <1>1. HeapInv => Coalesced
    BY DEF HeapInv
  <1> QED
    BY <1>1, Invariance, PTL

\* Two blocks that tile the heap do not overlap, their headers included.
LEMMA DisjointBlocks ==
  ASSUME HeapInv, NEW p \in DOMAIN live
  PROVE  /\ p \in Nat /\ live[p] \in Nat /\ live[p] > 0
         /\ p - HDR \in Nat /\ HEAP_START <= p - HDR
         /\ p + live[p] <= End(hdr, p - HDR)
         /\ End(hdr, p - HDR) \in Nat /\ End(hdr, p - HDR) <= heap_end
         /\ \A a \in DOMAIN hdr :
              a # p - HDR => End(hdr, p - HDR) <= a \/ a + HDR < p
  <1>0. HDR \in Nat \ {0} /\ Sizes \subseteq Nat \ {0}
    BY HeapConstants
  <1>1. p \in Nat /\ live[p] \in Sizes
    BY DEF HeapInv, TypeOK
  <1>2. /\ p - HDR \in DOMAIN hdr /\ live[p] <= hdr[p - HDR].size
        /\ \A x \in DOMAIN hdr : x \in Nat /\ hdr[x].size \in Nat
    BY DEF HeapInv, Owned, Owns, TypeOK, IsList, Block
  <1>3. \A a, b \in DOMAIN hdr : a < b => End(hdr, a) <= b
    BY DEF HeapInv, Ordered
  <1>4. HEAP_START <= p - HDR /\ End(hdr, p - HDR) <= heap_end
    BY <1>2 DEF HeapInv, Ordered
  <1>5. End(hdr, p - HDR) \in Nat /\ p + live[p] <= End(hdr, p - HDR)
    <2> DEFINE z == hdr[p - HDR].size
    <2>1. z \in Nat /\ live[p] \in Nat /\ live[p] <= z
      BY <1>0, <1>1, <1>2
    <2>2. End(hdr, p - HDR) = (p - HDR) + HDR + z
      BY DEF End
    <2> HIDE DEF z
    <2> QED
      BY <1>0, <1>1, <2>1, <2>2
  <1>6. ASSUME NEW a \in DOMAIN hdr, a # p - HDR
        PROVE  End(hdr, p - HDR) <= a \/ a + HDR < p
    <2>1. a < p - HDR \/ p - HDR < a
      BY <1>2, <1>6
    <2> QED
      BY <1>0, <1>1, <1>2, <1>3, <2>1
  <1>7. live[p] \in Nat /\ live[p] > 0
    <2>1. live[p] \in Nat \ {0}
      BY <1>0, <1>1
    <2>2. \A n \in Nat \ {0} : n \in Nat /\ n > 0
      OBVIOUS
    <2> QED
      BY <2>1, <2>2
  <1>8. p - HDR \in Nat
    BY <1>2
  <1> QED
    BY <1>1, <1>4, <1>5, <1>6, <1>7, <1>8

\* The inductive invariant keeps live allocations apart.
LEMMA InvLiveDisjoint == HeapInv => LiveDisjoint
  <1> SUFFICES ASSUME HeapInv PROVE LiveDisjoint
    OBVIOUS
  <1>0. HDR \in Nat \ {0} /\ heap_end \in Nat
    BY HeapConstants DEF HeapInv, TypeOK
  <1>1. ASSUME NEW p \in DOMAIN live, NEW a \in DOMAIN hdr
        PROVE  p + live[p] <= a \/ a + HDR <= p
    <2>1. /\ p \in Nat /\ live[p] \in Nat /\ End(hdr, p - HDR) \in Nat
          /\ p + live[p] <= End(hdr, p - HDR)
          /\ a # p - HDR => End(hdr, p - HDR) <= a \/ a + HDR < p
      BY DisjointBlocks
    <2>2. a \in Nat
      BY DEF HeapInv, TypeOK, IsList
    <2>3. CASE a = p - HDR
      BY <1>0, <2>1, <2>2, <2>3
    <2>4. CASE a # p - HDR
      BY <1>0, <2>1, <2>2, <2>4
    <2> QED
      BY <2>3, <2>4
  <1>2. ASSUME NEW p \in DOMAIN live, NEW q \in DOMAIN live, p # q
        PROVE  p + live[p] <= q \/ q + live[q] <= p
    <2> DEFINE a == p - HDR
               b == q - HDR
    <2>1. /\ p \in Nat /\ live[p] \in Nat /\ a \in Nat
          /\ q \in Nat /\ live[q] \in Nat /\ b \in Nat
      BY DisjointBlocks
    <2>2. a \in DOMAIN hdr /\ b \in DOMAIN hdr
      BY DEF HeapInv, Owned, Owns
    <2>3. a # b
      BY <1>0, <1>2, <2>1
    <2>4. p + live[p] <= End(hdr, a) /\ q + live[q] <= End(hdr, b)
      BY DisjointBlocks
    <2>5. End(hdr, a) \in Nat /\ End(hdr, b) \in Nat
      BY DisjointBlocks
    <2>6. End(hdr, a) <= b \/ End(hdr, b) <= a
      BY <2>1, <2>2, <2>3 DEF HeapInv, Ordered
    <2>7. b <= q /\ a <= p
      BY <1>0, <2>1
    <2> HIDE DEF a, b
    <2> QED
      BY <2>1, <2>4, <2>5, <2>6, <2>7
  <1>3. ASSUME NEW p \in DOMAIN live
        PROVE  p + live[p] <= heap_end
    <2>1. /\ p \in Nat /\ live[p] \in Nat /\ End(hdr, p - HDR) \in Nat
          /\ p + live[p] <= End(hdr, p - HDR)
          /\ End(hdr, p - HDR) <= heap_end
      BY DisjointBlocks
    <2> QED
      BY <1>0, <2>1
  <1> QED
    BY <1>1, <1>2, <1>3 DEF LiveDisjoint, Blocks

\* The memory granted to callers never overlaps, nor does it overlap a header.
THEOREM HeapLiveDisjoint == Spec => []LiveDisjoint
  BY InvLiveDisjoint, Invariance, PTL

\* When the last pointer has been freed the heap is a single block again.
THEOREM HeapNothingLost == Spec => []NothingLost
  <1>1. ASSUME HeapInv, pc = "idle", DOMAIN live = {}
        PROVE  DOMAIN hdr = {HEAP_START} /\ End(hdr, HEAP_START) = heap_end
    <2>0. HDR \in Nat \ {0} /\ HEAP_START \in Nat
      BY HeapConstants
    <2>1. /\ Tiles(hdr, heap_end) /\ heap_end \in Nat
          /\ \A x \in DOMAIN hdr : /\ x \in Nat /\ hdr[x].size \in Nat
                                   /\ hdr[x].is_free
                                   /\ ~AdjacentFree(hdr, x)
      BY <1>1 DEF HeapInv, Tiling, TypeOK, IsList, Block, Owned, Owns,
                  Coalesced, Blocks
    <2>2. hdr[HEAP_START].next = NULL
      BY <2>1 DEF Tiles, Linked, AdjacentFree
    <2>3. HEAP_START \in DOMAIN hdr /\ End(hdr, HEAP_START) = heap_end
      BY <2>1, <2>2 DEF Tiles, Linked
    <2>4. ASSUME NEW x \in DOMAIN hdr, x # HEAP_START
          PROVE  FALSE
      <3>1. HEAP_START < x
        BY <2>0, <2>1, <2>4 DEF Tiles, Ordered
      <3>2. End(hdr, HEAP_START) <= x /\ End(hdr, x) <= heap_end
        BY <2>1, <2>3, <3>1 DEF Tiles, Ordered
      <3> QED
        BY <2>0, <2>1, <2>3, <3>2 DEF End
    <2> QED
      BY <2>3, <2>4
  <1>2. HeapInv => NothingLost
    BY <1>1 DEF NothingLost, Blocks
  <1> QED
    BY <1>2, Invariance, PTL

\* Only a successful kmalloc adds a pointer.
LEMMA Granting ==
  ASSUME HeapInv, [Next]_vars, NEW p \in DOMAIN live', p \notin DOMAIN live
  PROVE  KmallocTake \/ KmallocGrow
  <1>1. CASE \E q \in DOMAIN live : KfreeCall(q)
    BY <1>1 DEF KfreeCall
  <1>2. CASE UNCHANGED live
    BY <1>2
  <1> QED
    BY <1>1, <1>2
    DEF Next, vars, init_heap, init_heap_halt, OutOfMemory, KmallocCall,
        KmallocSkip, KmallocHalt, KfreeMerge, KfreeAdvance, KfreeReturn, Halted

\* kmalloc hands out the lowest block that fits, and grows the heap or halts
\* only when no block fits.
THEOREM HeapFirstFit == Spec => FirstFit
  <1> DEFINE A == pc = "scan" =>
                    \A a \in Blocks :
                      \/ \E p \in DOMAIN live' \ DOMAIN live : a + HDR < p
                      \/ pc' = "halted"
                      => ~(hdr[a].is_free /\ hdr[a].size >= size)
  <1>1. HeapInv /\ [Next]_vars => A
    <2> SUFFICES ASSUME HeapInv, [Next]_vars, pc = "scan", NEW a \in DOMAIN hdr,
                        \/ \E p \in DOMAIN live' \ DOMAIN live : a + HDR < p
                        \/ pc' = "halted"
                 PROVE  ~Fits(hdr[a], size)
      BY DEF Fits, Blocks
    <2>0. HDR \in Nat /\ a \in Nat /\ current \in Nat
      BY HeapConstants DEF HeapInv, TypeOK, IsList
    <2>1. CASE pc' = "halted"
      <3>1. KmallocHalt
        BY <2>1
        DEF Next, vars, init_heap, init_heap_halt, KmallocCall, KmallocSkip,
            KmallocTake, KmallocGrow, KfreeCall, KfreeMerge, KfreeAdvance,
            KfreeReturn, Halted, Return
      <3> QED
        BY <3>1 DEF KmallocHalt, HeapInv, Walks, Blocks
    <2>2. ASSUME NEW p \in DOMAIN live' \ DOMAIN live, a + HDR < p
          PROVE  ~Fits(hdr[a], size)
      <3>1. KmallocTake \/ KmallocGrow
        BY <2>2, Granting
      <3>2. CASE KmallocTake
        <4>1. p = current + HDR
          BY <2>2, <3>2 DEF KmallocTake, Grant
        <4>2. a < current
          BY <2>0, <2>2, <4>1
        <4> QED
          BY <4>2 DEF HeapInv, Walks, Blocks
      <3>3. CASE KmallocGrow
        BY <3>3 DEF KmallocGrow, HeapInv, Walks, Blocks
      <3> QED
        BY <3>1, <3>2, <3>3
    <2> QED
      BY <2>1, <2>2
  <1>2. Spec => [][A]_vars
    BY <1>1, Invariance, PTL DEF Spec
  <1> QED
    BY <1>2 DEF FirstFit

\* Granted pointers lie in the heap window.
InWindow == \A p \in DOMAIN live : p \in HEAP_START..WORD

\* Every live address lies in the heap window below WORD.
LEMMA InvWindow == HeapInv => InWindow
  <1> SUFFICES ASSUME HeapInv, NEW p \in DOMAIN live
               PROVE  p \in HEAP_START..WORD
    BY DEF InWindow
  <1>0. /\ HDR \in Nat /\ PAGE_SIZE \in Nat /\ WORD \in Nat /\ HEAP_START \in Nat
        /\ FRAMES \in Nat /\ HEAP_START + FRAMES * PAGE_SIZE <= WORD
    BY HeapConstants, HeapNoWrap
  <1>1. /\ p \in Nat /\ live[p] \in Nat /\ live[p] > 0
        /\ HEAP_START <= p - HDR
        /\ p + live[p] <= End(hdr, p - HDR)
        /\ End(hdr, p - HDR) \in Nat /\ End(hdr, p - HDR) <= heap_end
    BY DisjointBlocks
  <1>2. heap_end \in Nat /\ frames \in Nat
    BY DEF HeapInv, TypeOK
  <1>3. frames * PAGE_SIZE \in Nat /\ FRAMES * PAGE_SIZE \in Nat
    BY <1>0, <1>2, ProductNat
  <1>4. heap_end <= WORD
    BY <1>0, <1>2, <1>3 DEF HeapInv, Paid
  <1> QED
    BY <1>0, <1>1, <1>2, <1>4

\* A kmalloc that returns p takes one step of Allocator.
LEMMA GrantIsAlloc ==
  ASSUME HeapInv, HeapInv', NEW p, p \notin DOMAIN live, asked \in Sizes, Grant(p)
  PROVE  Alloc!Next
  <1>1. /\ DOMAIN live' = DOMAIN live \cup {p} /\ live'[p] = asked
        /\ \A q \in DOMAIN live : live'[q] = live[q]
        /\ live' = [q \in DOMAIN live \cup {p} |->
                      IF q = p THEN asked ELSE live[q]]
    BY DEF Grant
  <1>2. \A q \in DOMAIN live :
          p + asked <= q \/ q + live[q] <= p
    <2>1. LiveDisjoint'
      <3>1. HeapInv' => LiveDisjoint'
        BY InvLiveDisjoint, PTL
      <3> QED
        BY <3>1
    <2> QED
      BY <1>1, <2>1 DEF LiveDisjoint
  <1>3. p \in HEAP_START..WORD
    <2>1. HeapInv' => InWindow'
      BY InvWindow, PTL
    <2> QED
      BY <1>1, <2>1 DEF InWindow
  <1>4. Alloc!Alloc(p, asked)
    BY <1>1, <1>2 DEF Alloc!Alloc, Alloc!Apart
  <1> QED
    BY <1>3, <1>4 DEF Alloc!Next

(***************************************************************************)
(* The heap implements Allocator.tla: what kmalloc returns is always a     *)
(* region of the heap window apart from every region still owned.          *)
(***************************************************************************)
THEOREM HeapImplementsAllocator == Spec => ImplementsAllocator
  <1>1. Init => Alloc!Init
    BY DEF Init, Alloc!Init
  <1>2. HeapInv /\ HeapInv' /\ [Next]_vars => [Alloc!Next]_live
    <2> SUFFICES ASSUME HeapInv, HeapInv', [Next]_vars, live' # live
                 PROVE  Alloc!Next
      OBVIOUS
    <2>1. KmallocTake \/ KmallocGrow \/ \E p \in DOMAIN live : KfreeCall(p)
      BY DEF Next, vars, init_heap, init_heap_halt, OutOfMemory, KmallocCall,
             KmallocSkip, KmallocHalt, KfreeMerge, KfreeAdvance, KfreeReturn,
             Halted
    <2>2. CASE KmallocTake
      <3>1. Grant(current + HDR) /\ asked \in Sizes
        BY <2>2 DEF KmallocTake, HeapInv, Walks
      <3>2. current + HDR \notin DOMAIN live
        <4>1. current \in DOMAIN hdr /\ hdr[current].is_free
          BY <2>2 DEF KmallocTake, Fits, HeapInv, Walks, Blocks
        <4>2. (current + HDR) - HDR = current
          BY HeapConstants DEF HeapInv, TypeOK
        <4> QED
          BY <4>1, <4>2 DEF HeapInv, Owned, Owns
      <3> QED
        BY <3>1, <3>2, GrantIsAlloc
    <2>3. CASE KmallocGrow
      <3>1. Grant(heap_end + HDR) /\ asked \in Sizes
        BY <2>3 DEF KmallocGrow, HeapInv, Walks
      <3>2. heap_end + HDR \notin DOMAIN live
        <4> SUFFICES ASSUME heap_end + HDR \in DOMAIN live PROVE FALSE
          OBVIOUS
        <4> DEFINE q == heap_end + HDR
        <4>1. /\ q \in Nat /\ live[q] \in Nat /\ live[q] > 0
              /\ q + live[q] <= End(hdr, q - HDR)
              /\ End(hdr, q - HDR) \in Nat /\ End(hdr, q - HDR) <= heap_end
          BY DisjointBlocks
        <4>2. HDR \in Nat /\ heap_end \in Nat /\ q = heap_end + HDR
          BY HeapConstants DEF HeapInv, TypeOK
        <4> HIDE DEF q
        <4> QED
          BY <4>1, <4>2
      <3> QED
        BY <3>1, <3>2, GrantIsAlloc
    <2>4. ASSUME NEW p \in DOMAIN live, KfreeCall(p)
          PROVE  Alloc!Next
      <3>1. Alloc!Free(p)
        BY <2>4 DEF KfreeCall, Alloc!Free
      <3> QED
        BY <3>1, InvWindow DEF Alloc!Next, InWindow
    <2> QED
      BY <2>1, <2>2, <2>3, <2>4
  <1> QED
    BY <1>1, <1>2, Invariance, PTL DEF Spec, ImplementsAllocator, Alloc!Spec
=============================================================================
