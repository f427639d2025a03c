----------------------------- MODULE ElfProofs -----------------------------
(***************************************************************************)
(* Proofs about the page tables of Vmm.tla under the client of Elf.tla,    *)
(* for tables, programs and memories of any size.                          *)
(*                                                                         *)
(* The tables form trees that share the branch of the kernel.  The         *)
(* inductive invariant says so by giving every table a home: its level,    *)
(* the space it belongs to (0 for the kernel's) and a page on whose way    *)
(* it lies.  From the homes it follows which walks an entry is part of.    *)
(*                                                                         *)
(* What a program finds in its pages rests on that, as user pages share no *)
(* frame, and on a second invariant: which pages elf_load has mapped so    *)
(* far, and that each holds the bytes of the last segment it is for.       *)
(***************************************************************************)
EXTENDS Elf, TLAPS, WellFoundedInduction

Mapped == UserPages \cup KernelPages

Home == [level : 1..4, root : Frame, page : Page]

\* A table with home h is the l-th on the way to page v in space s.
Lies(h, l, s, v) ==
  /\ h.level = l
  /\ h.root = IF l > 1 /\ v[1] \in KernelIndices THEN 0 ELSE s
  /\ \A k \in 1..(l - 1) : h.page[k] = v[k]

\* The table that entry i of a table with home h leads to has home c.
Child(h, i, c) ==
  /\ c.level = h.level + 1
  /\ c.page[h.level] = i
  /\ \A k \in 1..(h.level - 1) : c.page[k] = h.page[k]
  /\ c.root = IF h.level = 1 /\ i \in KernelIndices THEN 0 ELSE h.root

\* What a client asks for when it maps page v.
AsAsked(v, flags) ==
  /\ flags \in SUBSET {P, W, U} /\ P \in flags
  /\ v \in UserPages => U \in flags
  /\ v \in KernelPages => flags = {P, W}

Homes(home) ==
  /\ home \in [DOMAIN table -> Home]
  /\ \A f \in DOMAIN table : f \in spaces <=> home[f].level = 1
  /\ \A s \in spaces : home[s].root = s

\* An entry above the last level leads one level down, and can be written
\* through, by the user too if it is the user's.
UpperEntries(home) ==
  \A f \in DOMAIN table, i \in Indices :
    table[f][i] # Absent /\ home[f].level < 4 =>
      /\ {P, W} \subseteq table[f][i].flags
      /\ table[f][i].frame \in DOMAIN table
      /\ Child(home[f], i, home[table[f][i].frame])
      /\ home[table[f][i].frame].root # 0 => U \in table[f][i].flags

\* One of the last level leads to a frame that is no table.
Leaves(home) ==
  \A f \in DOMAIN table, i \in Indices :
    table[f][i] # Absent /\ home[f].level = 4 =>
      /\ P \in table[f][i].flags
      /\ table[f][i].frame \notin DOMAIN table /\ table[f][i].frame < free
      /\ \A v \in Mapped :
           v[4] = i /\ (\A k \in 1..3 : home[f].page[k] = v[k])
             => AsAsked(v, table[f][i].flags)

Unshared(home) ==
  \A f, g \in DOMAIN table, i, j \in Indices :
    /\ table[f][i] # Absent /\ home[f].level = 4
    /\ table[g][j] # Absent /\ home[g].level = 4
    /\ table[f][i].frame = table[g][j].frame /\ table[f][i].frame # 0
    => f = g /\ i = j

\* All spaces have the kernel's branch.
KernelShared == \A s \in spaces : table[s][ImagePage[1]] # Absent
                                  /\ table[s][ImagePage[1]].frame = 2

Types ==
  /\ DOMAIN table \subseteq Frame \ {0}
  /\ table \in [DOMAIN table -> [Indices -> Entry]]
  /\ free \in Nat /\ free <= LastFrame + 1 /\ \A f \in DOMAIN table : f < free
  /\ pml4 = cr3 /\ cr3 \in spaces /\ spaces \subseteq DOMAIN table
  /\ heap_end \in 0..Len(HeapPages) /\ halted \in BOOLEAN

Walk == [virt : Page, phys : Frame, flags : SUBSET {P, W, U}, level : 1..4, table : Frame]

\* The entries of a walk from s to v.
E1(s, v) == table[s][v[1]]
E2(s, v) == table[E1(s, v).frame][v[2]]
E3(s, v) == table[E2(s, v).frame][v[3]]
E4(s, v) == table[E3(s, v).frame][v[4]]

\* A walk under way, r, stands at the table where a walk of the CPU would be.
Stands(home, r) ==
  /\ r.virt \in Mapped /\ AsAsked(r.virt, r.flags \cup {P})
  /\ r.table \in DOMAIN table /\ Lies(home[r.table], r.level, pml4, r.virt)
  /\ r.level = 1 => r.table = pml4
  /\ r.level > 1 => E1(pml4, r.virt) # Absent
  /\ r.level = 2 => r.table = E1(pml4, r.virt).frame
  /\ r.level > 2 => E2(pml4, r.virt) # Absent
  /\ r.level = 3 => r.table = E2(pml4, r.virt).frame
  /\ r.level > 3 => E3(pml4, r.virt) # Absent
  /\ r.level = 4 => r.table = E3(pml4, r.virt).frame

\* The frame it is going to map is not in use.
Fresh(home, r) ==
  /\ r.phys \notin DOMAIN table /\ r.phys < free
  /\ r.phys # 0 => \A f \in DOMAIN table, i \in Indices :
                     table[f][i] # Absent /\ home[f].level = 4 => table[f][i].frame # r.phys

WalkRight(home) ==
  walk # <<>> => \E r \in Walk : walk = <<r>> /\ Stands(home, r) /\ Fresh(home, r)

Trees(home) == Homes(home) /\ UpperEntries(home) /\ Leaves(home) /\ Unshared(home)

VInv == Types /\ KernelShared /\ \E home : Trees(home) /\ WalkRight(home)

-----------------------------------------------------------------------------
(* Walks *)

LEMMA PagesAre ==
  /\ \A v \in Page : /\ v[1] \in Indices /\ v[2] \in Indices /\ v[3] \in Indices
                     /\ v[4] \in Indices /\ v = <<v[1], v[2], v[3], v[4]>>
                     /\ \A k \in 1..4 : v[k] \in Indices
  /\ Mapped \subseteq Page
  /\ \A v \in UserPages : v[1] \notin KernelIndices
  /\ \A v \in KernelPages : v[1] = ImagePage[1] /\ v[1] \in KernelIndices
<1>1. ASSUME NEW v \in Page
      PROVE  /\ v[1] \in Indices /\ v[2] \in Indices /\ v[3] \in Indices /\ v[4] \in Indices
             /\ v = <<v[1], v[2], v[3], v[4]>>
  BY DEF Page
<1>2. ASSUME NEW v \in Page, NEW k \in 1..4 PROVE v[k] \in Indices
  <2>1. k = 1 \/ k = 2 \/ k = 3 \/ k = 4
    OBVIOUS
  <2> QED
    BY <1>1, <2>1
<1>3. Mapped \subseteq Page
  <2>1. \A i \in DOMAIN HeapPages : HeapPages[i] \in Page
    BY VmmConstants
  <2> QED
    BY VmmConstants, <2>1 DEF Mapped, KernelPages
<1> QED
  BY <1>1, <1>2, <1>3, VmmConstants

\* An entry of a present walk leads to the next table of that walk.
LEMMA Descent ==
  \A home : \A s \in spaces, v \in Page :
    Types /\ Homes(home) /\ UpperEntries(home) =>
      /\ Lies(home[s], 1, s, v) /\ s \in DOMAIN table
      /\ E1(s, v) # Absent => /\ {P, W} \subseteq E1(s, v).flags
                              /\ E1(s, v).frame \in DOMAIN table
                              /\ Lies(home[E1(s, v).frame], 2, s, v)
                              /\ v[1] \notin KernelIndices => U \in E1(s, v).flags
      /\ E1(s, v) # Absent /\ E2(s, v) # Absent =>
           /\ {P, W} \subseteq E2(s, v).flags
           /\ E2(s, v).frame \in DOMAIN table
           /\ Lies(home[E2(s, v).frame], 3, s, v)
           /\ v[1] \notin KernelIndices => U \in E2(s, v).flags
      /\ E1(s, v) # Absent /\ E2(s, v) # Absent /\ E3(s, v) # Absent =>
           /\ {P, W} \subseteq E3(s, v).flags
           /\ E3(s, v).frame \in DOMAIN table
           /\ Lies(home[E3(s, v).frame], 4, s, v)
           /\ v[1] \notin KernelIndices => U \in E3(s, v).flags
<1> TAKE home
<1> TAKE s \in spaces, v \in Page
<1> HAVE Types /\ Homes(home) /\ UpperEntries(home)
<1>1. s \in DOMAIN table /\ s # 0 /\ Lies(home[s], 1, s, v)
  BY DEF Types, Homes, Lies
\* One level down.
<1>2. ASSUME NEW f \in DOMAIN table, NEW l \in 1..3, Lies(home[f], l, s, v),
             table[f][v[l]] # Absent
      PROVE  /\ {P, W} \subseteq table[f][v[l]].flags
             /\ table[f][v[l]].frame \in DOMAIN table
             /\ Lies(home[table[f][v[l]].frame], l + 1, s, v)
             /\ v[1] \notin KernelIndices => U \in table[f][v[l]].flags
  <2> PICK i, c : i = v[l] /\ c = table[f][v[l]].frame
    OBVIOUS
  <2>1. i \in Indices /\ home[f].level = l
    BY <1>2, PagesAre DEF Lies
  <2>2. /\ {P, W} \subseteq table[f][i].flags /\ c \in DOMAIN table
        /\ Child(home[f], i, home[c])
        /\ home[c].root # 0 => U \in table[f][i].flags
    BY <1>2, <2>1 DEF UpperEntries
  <2>3. home[c].level = l + 1 /\ home[c].page[l] = i
        /\ \A k \in 1..(l - 1) : home[c].page[k] = v[k]
    BY <1>2, <2>1, <2>2 DEF Child, Lies
  <2>4. \A k \in 1..l : home[c].page[k] = v[k]
    BY <2>3
  <2>5. home[c].root = IF v[1] \in KernelIndices THEN 0 ELSE s
    <3>1. CASE l = 1
      BY <1>2, <2>1, <2>2, <3>1 DEF Child, Lies
    <3>2. CASE l > 1
      <4>1. home[c].root = home[f].root
        BY <2>1, <2>2, <3>2 DEF Child
      <4>2. home[f].root = IF v[1] \in KernelIndices THEN 0 ELSE s
        BY <1>2, <3>2 DEF Lies
      <4> QED
        BY <4>1, <4>2
    <3> QED
      BY <3>1, <3>2
  <2> QED
    <3>1. {P, W} \subseteq table[f][v[l]].flags /\ table[f][v[l]].frame \in DOMAIN table
      BY ONLY <2>2, i = v[l], c = table[f][v[l]].frame
    <3>2. (IF l + 1 > 1 /\ v[1] \in KernelIndices THEN 0 ELSE s) = home[c].root
      <4>1. l + 1 > 1
        OBVIOUS
      <4> QED
        BY ONLY <2>5, <4>1
    <3>3. (l + 1) - 1 = l
      OBVIOUS
    <3>4. Lies(home[c], l + 1, s, v)
      BY ONLY <2>3, <2>4, <3>2, <3>3 DEF Lies
    <3>5. v[1] \notin KernelIndices => U \in table[f][v[l]].flags
      BY ONLY <1>1, <2>2, <2>5, i = v[l]
    <3> QED
      BY ONLY <3>1, <3>4, <3>5, c = table[f][v[l]].frame
<1>3. E1(s, v) # Absent => /\ {P, W} \subseteq E1(s, v).flags
                           /\ E1(s, v).frame \in DOMAIN table
                           /\ Lies(home[E1(s, v).frame], 2, s, v)
                           /\ v[1] \notin KernelIndices => U \in E1(s, v).flags
  BY <1>1, <1>2 DEF E1
<1>4. E1(s, v) # Absent /\ E2(s, v) # Absent =>
           /\ {P, W} \subseteq E2(s, v).flags
           /\ E2(s, v).frame \in DOMAIN table
           /\ Lies(home[E2(s, v).frame], 3, s, v)
           /\ v[1] \notin KernelIndices => U \in E2(s, v).flags
  BY <1>2, <1>3 DEF E2
<1>5. E1(s, v) # Absent /\ E2(s, v) # Absent /\ E3(s, v) # Absent =>
           /\ {P, W} \subseteq E3(s, v).flags
           /\ E3(s, v).frame \in DOMAIN table
           /\ Lies(home[E3(s, v).frame], 4, s, v)
           /\ v[1] \notin KernelIndices => U \in E3(s, v).flags
  BY <1>2, <1>3, <1>4 DEF E3
<1> QED
  BY <1>1, <1>3, <1>4, <1>5

\* What the CPU finds is the entry of the last level: the levels above take
\* away none of its rights.
LEMMA Translation ==
  \A home : \A s \in spaces, v \in Mapped :
    Types /\ Trees(home) =>
      /\ HasPageTable(s, v) <=> E1(s, v) # Absent /\ E2(s, v) # Absent /\ E3(s, v) # Absent
      /\ PageTable(s, v) = E3(s, v).frame
      /\ Translate(s, v) = IF HasPageTable(s, v) THEN E4(s, v) ELSE Absent
      /\ Translate(s, v) # Absent =>
           /\ HasPageTable(s, v) /\ E4(s, v) # Absent
           /\ AsAsked(v, E4(s, v).flags)
           /\ E4(s, v).frame \notin DOMAIN table /\ E4(s, v).frame \in Frame
<1> TAKE home
<1> TAKE s \in spaces, v \in Mapped
<1> HAVE Types /\ Trees(home)
<1> USE DEF Trees
<1>1. v \in Page /\ v[4] \in Indices
  BY PagesAre
<1>2. Absent.flags = {} /\ P # W /\ P # U /\ W # U
  BY DEF Absent, P, W, U
<1>3. E1(s, v) # Absent <=> P \in E1(s, v).flags
  BY <1>1, <1>2, Descent
<1>4. E1(s, v) # Absent => (E2(s, v) # Absent <=> P \in E2(s, v).flags)
  BY <1>1, <1>2, Descent
<1>5. E1(s, v) # Absent /\ E2(s, v) # Absent => (E3(s, v) # Absent <=> P \in E3(s, v).flags)
  BY <1>1, <1>2, Descent
<1>6. HasPageTable(s, v) <=> E1(s, v) # Absent /\ E2(s, v) # Absent /\ E3(s, v) # Absent
  BY <1>3, <1>4, <1>5 DEF HasPageTable, E1, E2, E3
<1>7. PageTable(s, v) = E3(s, v).frame
  BY DEF PageTable, E1, E2, E3
<1>8. ASSUME HasPageTable(s, v), E4(s, v) # Absent
      PROVE  /\ AsAsked(v, E4(s, v).flags)
             /\ E4(s, v).frame \notin DOMAIN table /\ E4(s, v) \in Entry
  <2> PICK f : f = E3(s, v).frame
    OBVIOUS
  <2>1. f \in DOMAIN table /\ Lies(home[f], 4, s, v) /\ E4(s, v) = table[f][v[4]]
    BY <1>1, <1>6, <1>8, Descent DEF E4
  <2>2. home[f].level = 4 /\ \A k \in 1..3 : home[f].page[k] = v[k]
    BY <2>1 DEF Lies
  <2>3. table[f][v[4]] # Absent
    BY <1>8, <2>1
  <2>4. AsAsked(v, table[f][v[4]].flags) /\ table[f][v[4]].frame \notin DOMAIN table
    BY <1>1, <2>1, <2>2, <2>3 DEF Leaves
  <2>5. table[f][v[4]] \in Entry
    BY <1>1, <2>1 DEF Types
  <2> QED
    BY <2>1, <2>4, <2>5
<1>9. ASSUME HasPageTable(s, v)
      PROVE  Translate(s, v) = E4(s, v)
  <2>1. CASE E4(s, v) = Absent
    BY <1>2, <2>1 DEF Translate, E1, E2, E3, E4
  <2>2. CASE E4(s, v) # Absent
    <3>1. P \in E4(s, v).flags /\ E4(s, v) \in Entry
      BY <1>8, <1>9, <2>2 DEF AsAsked
    <3> PICK e1, e2, e3, e4 : e1 = E1(s, v) /\ e2 = E2(s, v) /\ e3 = E3(s, v) /\ e4 = E4(s, v)
      OBVIOUS
    <3>2. Translate(s, v) = [frame |-> e4.frame,
                             flags |-> e1.flags \cap e2.flags \cap e3.flags \cap e4.flags]
      BY <1>3, <1>4, <1>5, <1>6, <1>9, <3>1 DEF Translate, E1, E2, E3, E4
    <3>3. {P, W} \subseteq e1.flags /\ {P, W} \subseteq e2.flags /\ {P, W} \subseteq e3.flags
      BY <1>1, <1>6, <1>9, Descent
    <3>4. v \in UserPages => U \in e1.flags /\ U \in e2.flags /\ U \in e3.flags
      BY <1>1, <1>6, <1>9, Descent, PagesAre
    <3>5. AsAsked(v, e4.flags)
      BY <1>8, <1>9, <2>2
    <3>6. e1.flags \cap e2.flags \cap e3.flags \cap e4.flags = e4.flags
      BY <3>3, <3>4, <3>5 DEF AsAsked, Mapped
    <3>7. e4 = [frame |-> e4.frame, flags |-> e4.flags]
      BY <3>1 DEF Entry
    <3> QED
      BY <3>2, <3>6, <3>7
  <2> QED
    BY <2>1, <2>2
<1>10. ~HasPageTable(s, v) => Translate(s, v) = Absent
  BY DEF HasPageTable, Translate
<1>11. Translate(s, v) # Absent =>
         /\ HasPageTable(s, v) /\ E4(s, v) # Absent
         /\ AsAsked(v, E4(s, v).flags)
         /\ E4(s, v).frame \notin DOMAIN table /\ E4(s, v).frame \in Frame
  BY <1>8, <1>9, <1>10 DEF Entry
<1> QED
  BY <1>6, <1>7, <1>9, <1>10, <1>11

-----------------------------------------------------------------------------
(* What the invariant implies *)

LEMMA VInvImplies == VInv => VmmInv /\ RightsAsAsked
<1> SUFFICES ASSUME VInv PROVE VmmInv /\ RightsAsAsked
  OBVIOUS
<1> PICK home : Trees(home) /\ WalkRight(home)
  BY DEF VInv
<1>1. Types
  BY DEF VInv
<1>2. ASSUME NEW s \in spaces, NEW v \in Mapped
      PROVE  /\ PageTable(s, v) = E3(s, v).frame
             /\ HasPageTable(s, v) => Translate(s, v) = E4(s, v)
             /\ Translate(s, v) # Absent =>
                  /\ HasPageTable(s, v) /\ Translate(s, v) = E4(s, v)
                  /\ AsAsked(v, Translate(s, v).flags)
                  /\ Translate(s, v).frame \notin DOMAIN table
  BY <1>1, Translation
<1>3. TypeOK
  <2>1. walk # <<>> => At.level \in 1..4 /\ At.table \in DOMAIN table
    <3> SUFFICES ASSUME walk # <<>> PROVE At.level \in 1..4 /\ At.table \in DOMAIN table
      OBVIOUS
    <3>1. PICK r \in Walk : walk = <<r>> /\ r.table \in DOMAIN table
      BY DEF WalkRight, Stands
    <3>2. At = r
      BY <3>1 DEF At
    <3> QED
      BY <3>1, <3>2 DEF Walk
  <2> QED
    BY <1>1, <2>1 DEF Types, TypeOK
<1>4. TablesOutOfReach
  BY <1>2 DEF TablesOutOfReach, Mapped
<1>5. LookupAgrees
  <2> SUFFICES ASSUME NEW v \in Mapped, HasPageTable(cr3, v)
               PROVE  virt_to_phys(v) = Translate(cr3, v).frame
    BY DEF LookupAgrees, Mapped
  <2> QED
    BY <1>1, <1>2 DEF virt_to_phys, E4, Types
<1>6. RightsAsAsked
  <2>1. UserPages \cap KernelPages = {}
    BY PagesAre
  <2>2. U \notin {P, W}
    BY DEF U, P, W
  <2> QED
    BY <1>2, <2>1, <2>2 DEF RightsAsAsked, Mapped, AsAsked
<1>7. UserFramesUnshared
  <2> SUFFICES ASSUME NEW s \in spaces, NEW t \in spaces, NEW v \in UserPages, NEW w \in UserPages,
                      Translate(s, v) # Absent, Translate(t, w) # Absent,
                      Translate(s, v).frame = Translate(t, w).frame, Translate(s, v).frame # 0
               PROVE  s = t /\ v = w
    BY DEF UserFramesUnshared
  <2> PICK f, g : f = E3(s, v).frame /\ g = E3(t, w).frame
    OBVIOUS
  <2>1. /\ v \in Mapped /\ v \in Page /\ v[4] \in Indices /\ v[1] \notin KernelIndices
        /\ w \in Mapped /\ w \in Page /\ w[4] \in Indices /\ w[1] \notin KernelIndices
    BY PagesAre DEF Mapped
  <2>2. /\ E1(s, v) # Absent /\ E2(s, v) # Absent /\ E3(s, v) # Absent
        /\ E1(t, w) # Absent /\ E2(t, w) # Absent /\ E3(t, w) # Absent
    BY <1>1, <2>1, Translation
  <2>3. /\ f \in DOMAIN table /\ Lies(home[f], 4, s, v)
        /\ g \in DOMAIN table /\ Lies(home[g], 4, t, w)
    BY <1>1, <2>1, <2>2, Descent DEF Trees
  <2>4. /\ table[f][v[4]] = Translate(s, v) /\ table[g][w[4]] = Translate(t, w)
    BY <1>2, <2>1 DEF E4
  <2>5. f = g /\ v[4] = w[4]
    BY <2>1, <2>3, <2>4 DEF Trees, Unshared, Lies
  <2>6. s = t
    BY <2>1, <2>3, <2>5 DEF Lies
  <2>7. \A k \in 1..3 : v[k] = w[k]
    BY <2>3, <2>5 DEF Lies
  <2>8. v = <<v[1], v[2], v[3], v[4]>> /\ w = <<w[1], w[2], w[3], w[4]>>
    BY <2>1, PagesAre
  <2> QED
    BY <2>5, <2>6, <2>7, <2>8
<1> QED
  BY <1>3, <1>4, <1>5, <1>6, <1>7 DEF VmmInv

-----------------------------------------------------------------------------
(* Steps that leave the tables alone *)

LEMMA InitVInv == Init => VInv
<1> SUFFICES ASSUME Init PROVE VInv
  OBVIOUS
<1> USE VmmConstants
<1> PICK image : image = ImagePage
  OBVIOUS
<1> PICK home : home = [f \in 1..4 |-> [level |-> f, root |-> IF f = 1 THEN 1 ELSE 0, page |-> image]]
  OBVIOUS
<1>1. /\ image \in Page /\ image \in KernelPages /\ image[1] \in KernelIndices
      /\ \A k \in 1..4 : image[k] \in Indices
  BY PagesAre DEF KernelPages
<1>2. DOMAIN table = 1..4 /\ spaces = {1} /\ pml4 = 1 /\ cr3 = 1 /\ free = 6 /\ walk = <<>>
      /\ heap_end = 0 /\ halted = FALSE
  BY DEF Init, FirstFree
<1>3. \A f \in 1..4, i \in Indices :
        table[f][i] = IF i = image[f] THEN [frame |-> f + 1, flags |-> {P, W}] ELSE Absent
  BY <1>1 DEF Init, BootTable, Zeroed
<1>4. /\ \A f \in 1..4 : home[f].level = f /\ home[f].page = image /\ home[f] \in Home
      /\ home[1].root = 1 /\ home[2].root = 0 /\ home[3].root = 0 /\ home[4].root = 0
      /\ home \in [1..4 -> Home]
  BY <1>1 DEF Home, Frame
<1>5. Types
  <2>1. \A f \in 1..4 : f + 1 \in Frame /\ f \in Frame
    BY DEF Frame
  <2>2. \A f \in 1..4 : BootTable(f) \in [Indices -> Entry]
    BY <2>1, <1>1 DEF BootTable, Zeroed, Absent, Entry, Frame
  <2>3. table \in [1..4 -> [Indices -> Entry]]
    BY <2>2 DEF Init
  <2>4. 0 \in 0..Len(HeapPages)
    OBVIOUS
  <2>5. DOMAIN table \subseteq Frame \ {0} /\ \A f \in DOMAIN table : f < free
    BY <1>2, <2>1
  <2>6. free \in Nat /\ free <= LastFrame + 1
    BY <1>2
  <2>7. halted \in BOOLEAN
    BY <1>2
  <2>8. table \in [DOMAIN table -> [Indices -> Entry]]
    BY <1>2, <2>3
  <2>9. pml4 = cr3 /\ cr3 \in spaces /\ spaces \subseteq DOMAIN table
    BY <1>2
  <2>10. heap_end \in 0..Len(HeapPages)
    BY <1>2, <2>4
  <2> QED
    BY <2>5, <2>6, <2>7, <2>8, <2>9, <2>10 DEF Types
<1>6. KernelShared
  BY <1>1, <1>2, <1>3 DEF KernelShared, Absent
<1>7. Homes(home)
  BY <1>2, <1>4 DEF Homes
<1>8. UpperEntries(home)
  <2> SUFFICES ASSUME NEW f \in 1..3, table[f][image[f]] # Absent
               PROVE /\ {P, W} \subseteq table[f][image[f]].flags
                     /\ table[f][image[f]].frame \in 1..4
                     /\ Child(home[f], image[f], home[table[f][image[f]].frame])
                     /\ home[table[f][image[f]].frame].root = 0
    BY <1>2, <1>3, <1>4 DEF UpperEntries
  <2>4. f \in 1..4 /\ f + 1 \in 1..4 /\ image[f] \in Indices
    BY <1>1
  <2>1. table[f][image[f]] = [frame |-> f + 1, flags |-> {P, W}]
    BY <1>3, <2>4
  <2>2. home[f + 1].root = 0
    BY <1>4
  <2>3. Child(home[f], image[f], home[f + 1])
    BY <1>1, <1>4 DEF Child
  <2> QED
    BY <2>1, <2>2, <2>3, <2>4
<1>9. Leaves(home)
  <2>3. 4 \in 1..4 /\ image[4] \in Indices /\ 4 + 1 = 5
    BY <1>1
  <2>1. table[4][image[4]] = [frame |-> 5, flags |-> {P, W}]
    BY <1>3, <2>3
  <2>2. ASSUME NEW v \in Mapped, \A k \in 1..3 : image[k] = v[k] PROVE AsAsked(v, {P, W})
    <3>1. v \notin UserPages
      BY <1>1, <2>2, PagesAre
    <3> QED
      BY <3>1 DEF AsAsked
  <2> SUFFICES ASSUME NEW i \in Indices, table[4][i] # Absent
               PROVE  /\ P \in table[4][i].flags
                      /\ table[4][i].frame \notin 1..4 /\ table[4][i].frame < 6
                      /\ \A v \in Mapped :
                           v[4] = i /\ (\A k \in 1..3 : image[k] = v[k])
                             => AsAsked(v, table[4][i].flags)
    BY <1>2, <1>4 DEF Leaves
  <2>4. i = image[4]
    BY <1>3, <2>3
  <2>5. table[4][i].frame = 5 /\ table[4][i].flags = {P, W}
    BY <2>1, <2>4
  <2>6. 5 \notin 1..4 /\ 5 < 6
    OBVIOUS
  <2>7. P \in table[4][i].flags
    BY <2>5
  <2>8. table[4][i].frame \notin 1..4 /\ table[4][i].frame < 6
    BY <2>5, <2>6
  <2> QED
    BY <2>2, <2>4, <2>5, <2>7, <2>8
<1>10. Unshared(home) /\ WalkRight(home)
  BY <1>2, <1>3, <1>4 DEF Unshared, WalkRight
<1> QED
  BY <1>5, <1>6, <1>7, <1>8, <1>9, <1>10 DEF VInv, Trees

\* What the spaces map is the same before and after a step.
SameView ==
  /\ spaces' = spaces /\ cr3' = cr3
  /\ \A s \in spaces, v \in Mapped : Translate(s, v)' = Translate(s, v)

LEMMA FrozenTables ==
  ASSUME VInv, UNCHANGED <<table, free, pml4, cr3, spaces, walk, heap_end>>, halted' \in BOOLEAN
  PROVE  VInv' /\ SameView
<1>1. Types'
  BY DEF VInv, Types
<1>2. KernelShared'
  BY DEF VInv, KernelShared
<1>3. PICK home : Trees(home) /\ WalkRight(home)
  BY DEF VInv
<1>4. Trees(home)'
  BY <1>3 DEF Trees, Homes, UpperEntries, Leaves, Unshared
<1>5. WalkRight(home)'
  <2>1. \A s, v : /\ E1(s, v)' = E1(s, v) /\ E2(s, v)' = E2(s, v) /\ E3(s, v)' = E3(s, v)
    BY DEF E1, E2, E3
  <2> SUFFICES ASSUME walk # <<>> PROVE WalkRight(home)'
    BY DEF WalkRight
  <2>2. PICK r \in Walk : walk = <<r>> /\ Stands(home, r) /\ Fresh(home, r)
    BY <1>3 DEF WalkRight
  <2>3. Stands(home, r)'
    BY <2>1, <2>2 DEF Stands
  <2>4. Fresh(home, r)'
    BY <2>2 DEF Fresh
  <2> QED
    BY <2>2, <2>3, <2>4 DEF WalkRight
<1>6. SameView
  BY DEF SameView, Translate
<1> QED
  BY <1>1, <1>2, <1>4, <1>5, <1>6 DEF VInv

\* vmm_map_page is called, with a frame from pmm_alloc or with frame 0.
LEMMA CallStarts ==
  ASSUME VInv, walk = <<>>, NEW v \in Mapped, NEW phys, NEW flags \in SUBSET {P, W, U},
         AsAsked(v, flags \cup {P}),
         \/ pmm_alloc /\ phys = free
         \/ pmm_alloc_null /\ phys = 0,
         Call(v, phys, flags), heap_end' \in 0..Len(HeapPages),
         UNCHANGED <<table, pml4, cr3, spaces, halted>>
  PROVE  VInv' /\ SameView
<1>1. Types
  BY DEF VInv
<1>2. free' \in Nat /\ free <= free' /\ free' <= LastFrame + 1
  BY <1>1, VmmConstants DEF pmm_alloc, pmm_alloc_null, Types
<1>3. Types'
  <2>1. halted' \in BOOLEAN
    BY <1>1 DEF Types
  <2>2. \A f \in DOMAIN table : f < free'
    BY <1>1, <1>2 DEF Types, Frame
  <2> QED
    BY <1>1, <1>2, <2>1, <2>2 DEF Types
<1>4. KernelShared'
  BY DEF VInv, KernelShared
<1>5. PICK home : Trees(home)
  BY DEF VInv
<1>6. Trees(home)'
  <2>1. Homes(home)' /\ UpperEntries(home)' /\ Unshared(home)'
    BY <1>5 DEF Trees, Homes, UpperEntries, Unshared
  <2>2. Leaves(home)'
    <3>1. \A f \in DOMAIN table, i \in Indices : table[f][i].frame \in Nat
      BY <1>1 DEF Types, Entry, Frame
    <3> QED
      BY <1>1, <1>2, <1>5, <3>1 DEF Trees, Leaves, Types
  <2> QED
    BY <2>1, <2>2 DEF Trees
<1>7. WalkRight(home)'
  <2>7. PICK r : r = [virt |-> v, phys |-> phys, flags |-> flags, level |-> 1, table |-> pml4]
    OBVIOUS
  <2>1. walk' = <<r>>
    BY <2>7 DEF Call
  <2>2. pml4 \in DOMAIN table /\ pml4 \in Frame \ {0} /\ pml4 < free /\ Lies(home[pml4], 1, pml4, v)
    BY <1>1, <1>5 DEF Types, Trees, Homes, Lies
  <2>3. phys \in Frame /\ phys \notin DOMAIN table /\ phys < free'
    BY <1>1, <2>2, VmmConstants DEF Types, pmm_alloc, pmm_alloc_null, Frame
  <2>4. phys # 0 => \A f \in DOMAIN table, i \in Indices :
                      table[f][i] # Absent /\ home[f].level = 4 => table[f][i].frame # phys
    <3> SUFFICES ASSUME phys = free PROVE \A f \in DOMAIN table, i \in Indices :
                      table[f][i] # Absent /\ home[f].level = 4 => table[f][i].frame # phys
      OBVIOUS
    <3>1. \A f \in DOMAIN table, i \in Indices :
            table[f][i] # Absent /\ home[f].level = 4 => table[f][i].frame < free
      BY <1>5 DEF Trees, Leaves
    <3> QED
      BY <1>1, <3>1 DEF Types
  <2>5. r \in Walk
    BY <2>2, <2>3, <2>7, PagesAre DEF Walk
  <2>6. /\ r.virt = v /\ r.phys = phys /\ r.flags = flags /\ r.level = 1 /\ r.table = pml4
    BY <2>7
  <2>8. Stands(home, r)'
    BY <2>2, <2>6 DEF Stands
  <2>9. Fresh(home, r)'
    BY <2>3, <2>4, <2>6 DEF Fresh
  <2> QED
    BY <2>1, <2>5, <2>8, <2>9 DEF WalkRight
<1>8. SameView
  BY DEF SameView, Translate
<1> QED
  BY <1>3, <1>4, <1>6, <1>7, <1>8 DEF VInv

-----------------------------------------------------------------------------
(* The walk of vmm_map_page *)

\* Translation holds of the next state as well.
LEMMA TranslationNext ==
  \A home : \A s \in spaces', v \in Mapped :
    Types' /\ Trees(home)' =>
      Translate(s, v)' = IF E1(s, v)' # Absent /\ E2(s, v)' # Absent /\ E3(s, v)' # Absent
                         THEN E4(s, v)' ELSE Absent
<1> DEFINE Leaf == \A home : \A s \in spaces, v \in Mapped :
      Types /\ Trees(home) =>
        Translate(s, v) = IF E1(s, v) # Absent /\ E2(s, v) # Absent /\ E3(s, v) # Absent
                          THEN E4(s, v) ELSE Absent
<1>1. Leaf
  <2> TAKE home
  <2> TAKE s \in spaces, v \in Mapped
  <2> HAVE Types /\ Trees(home)
  <2> QED
    BY Translation
<1>2. Leaf'
  BY <1>1, PTL
<1> QED
  BY <1>2

\* A walk under way is at an entry of a table of its level.
LEMMA WalkIsAt ==
  ASSUME Types, NEW home, Trees(home), WalkRight(home), Walking, At.level < 4
  PROVE  \E r \in Walk :
           /\ walk = <<r>> /\ At = r /\ Stands(home, r) /\ Fresh(home, r)
           /\ r.level \in 1..3 /\ r.virt \in Page /\ r.virt[r.level] \in Indices
           /\ r.table \in DOMAIN table /\ home[r.table].level = r.level
           /\ AtEntry = table[r.table][r.virt[r.level]]
           /\ P \notin AtEntry.flags <=> AtEntry = Absent
<1>1. PICK r \in Walk : walk = <<r>> /\ Stands(home, r) /\ Fresh(home, r)
  BY DEF WalkRight, Walking
<1>2. At = r
  BY <1>1 DEF At
<1>3. r.level \in 1..3 /\ r.virt \in Page
  BY <1>2 DEF Walk
<1>4. r.virt[r.level] \in Indices
  BY <1>3, PagesAre
<1>5. r.table \in DOMAIN table /\ home[r.table].level = r.level
  BY <1>1 DEF Stands, Lies
<1>6. AtEntry = table[r.table][r.virt[r.level]]
  BY <1>2 DEF AtEntry
<1>7. P \notin AtEntry.flags <=> AtEntry = Absent
  <2>1. AtEntry # Absent => {P, W} \subseteq AtEntry.flags
    BY <1>3, <1>4, <1>5, <1>6 DEF Trees, UpperEntries
  <2> QED
    BY <2>1 DEF Absent
<1> QED
  BY <1>1, <1>2, <1>3, <1>4, <1>5, <1>6, <1>7

\* ensure_table makes a table.
LEMMA NewLevelKeeps == ASSUME VInv, NewLevel PROVE VInv' /\ SameView
<1>1. Types /\ KernelShared
  BY DEF VInv
<1>2. PICK home : Trees(home) /\ WalkRight(home)
  BY DEF VInv
<1>3. PICK r \in Walk :
           /\ walk = <<r>> /\ At = r /\ Stands(home, r) /\ Fresh(home, r)
           /\ r.level \in 1..3 /\ r.virt \in Page /\ r.virt[r.level] \in Indices
           /\ r.table \in DOMAIN table /\ home[r.table].level = r.level
           /\ table[r.table][r.virt[r.level]] = Absent
  BY <1>1, <1>2, WalkIsAt DEF NewLevel
<1>4. PICK a, x, n, l, v, root :
        /\ a = r.table /\ x = r.virt[r.level] /\ n = free /\ l = r.level /\ v = r.virt /\ root = pml4
  OBVIOUS
<1>5. /\ a \in DOMAIN table /\ x \in Indices /\ l \in 1..3 /\ v \in Page /\ v[l] = x
      /\ home[a].level = l /\ table[a][x] = Absent /\ v \in Mapped /\ Lies(home[a], l, root, v)
      /\ root \in spaces
  BY <1>1, <1>3, <1>4 DEF Stands, Types
<1>6. /\ n \in Nat /\ n \in Frame \ {0} /\ n \notin DOMAIN table /\ free' = n + 1
      /\ n + 1 <= LastFrame + 1
  <2>1. a < n /\ a \in Nat \ {0}
    BY <1>1, <1>4, <1>5 DEF Types, Frame
  <2> QED
    BY <1>1, <1>4, <2>1, VmmConstants DEF NewLevel, pmm_alloc, Types, Frame
<1>7. /\ DOMAIN table' = DOMAIN table \cup {n}
      /\ \A f \in DOMAIN table, i \in Indices :
           table'[f][i] = IF f = a /\ i = x THEN NewTable(n) ELSE table[f][i]
      /\ \A i \in Indices : table'[n][i] = Absent
      /\ table' \in [DOMAIN table' -> [Indices -> Entry]]
  <2>1. table' = [f \in DOMAIN table \cup {n} |->
                   IF f = n THEN Zeroed
                   ELSE IF f = a THEN [table[f] EXCEPT ![x] = NewTable(n)] ELSE table[f]]
    BY <1>3, <1>4 DEF NewLevel
  <2>2. Zeroed \in [Indices -> Entry] /\ NewTable(n) \in Entry
    <3>1. Absent \in Entry
      BY VmmConstants DEF Absent, Entry, Frame
    <3>2. NewTable(n) \in Entry
      BY <1>6 DEF NewTable, Entry
    <3> QED
      BY <3>1, <3>2 DEF Zeroed
  <2>3. \A f \in DOMAIN table : [table[f] EXCEPT ![x] = NewTable(n)] \in [Indices -> Entry]
    BY <1>1, <2>2 DEF Types
  <2>4. table' \in [DOMAIN table' -> [Indices -> Entry]]
    BY <1>1, <2>1, <2>2, <2>3 DEF Types
  <2>5. \A i \in Indices : table'[n][i] = Absent
    BY <2>1 DEF Zeroed
  <2>6. \A f \in DOMAIN table, i \in Indices :
           table'[f][i] = IF f = a /\ i = x THEN NewTable(n) ELSE table[f][i]
    BY <1>1, <1>6, <2>1 DEF Types
  <2> QED
    BY <2>1, <2>4, <2>5, <2>6
<1>8. UNCHANGED <<pml4, cr3, spaces, heap_end, halted>>
  BY DEF NewLevel
<1>9. PICK r2 : r2 = [r EXCEPT !.level = @ + 1, !.table = n]
  OBVIOUS
<1>10. /\ walk' = <<r2>> /\ r2 \in Walk /\ r2.level = l + 1 /\ r2.table = n /\ r2.virt = v
       /\ r2.phys = r.phys /\ r2.flags = r.flags
  <2>1. walk' = <<r2>>
    BY <1>3, <1>4, <1>9 DEF NewLevel, Descend
  <2>2. /\ DOMAIN r = {"virt", "phys", "flags", "level", "table"}
        /\ r2.level = l + 1 /\ r2.table = n /\ r2.virt = v
        /\ r2.phys = r.phys /\ r2.flags = r.flags
    BY <1>3, <1>4, <1>9 DEF Walk
  <2>3. l + 1 \in 1..4 /\ n \in Frame
    BY <1>5, <1>6
  <2>4. r2 = [virt |-> r.virt, phys |-> r.phys, flags |-> r.flags, level |-> l + 1, table |-> n]
    BY <1>3, <1>4, <1>9 DEF Walk
  <2>5. r.virt \in Page /\ r.phys \in Frame /\ r.flags \in SUBSET {P, W, U}
    BY <1>3 DEF Walk
  <2>6. r2 \in Walk
    BY <2>3, <2>4, <2>5 DEF Walk
  <2> QED
    BY <2>1, <2>2, <2>6
<1>11. PICK c : c = [level |-> l + 1, root |-> IF v[1] \in KernelIndices THEN 0 ELSE root, page |-> v]
  OBVIOUS
<1>12. PICK home2 : home2 = [f \in DOMAIN table \cup {n} |-> IF f = n THEN c ELSE home[f]]
  OBVIOUS
<1>13. /\ c.level = l + 1 /\ c.page = v /\ c \in Home
       /\ c.root = IF v[1] \in KernelIndices THEN 0 ELSE root
  <2>1. root \in Frame /\ 0 \in Frame
    BY <1>1, <1>4, VmmConstants DEF Types, Frame
  <2> QED
    BY <1>5, <1>11, <2>1 DEF Home
<1>14. /\ DOMAIN home2 = DOMAIN table \cup {n} /\ home2[n] = c
       /\ \A f \in DOMAIN table : home2[f] = home[f]
  BY <1>6, <1>12
<1>15. NewTable(n) # Absent /\ NewTable(n).frame = n /\ NewTable(n).flags = {P, W, U}
  BY DEF NewTable, Absent
<1>16. Types'
  <2>1. halted' \in BOOLEAN
    BY <1>1, <1>8 DEF Types
  <2>2. \A f \in DOMAIN table' : f < free' /\ f \in Frame \ {0}
    BY <1>1, <1>4, <1>6, <1>7 DEF Types, Frame
  <2>3. free' \in Nat /\ free' <= LastFrame + 1
    BY <1>6
  <2> QED
    BY <1>1, <1>7, <1>8, <2>1, <2>2, <2>3 DEF Types
<1>17. KernelShared'
  <2> SUFFICES ASSUME NEW s \in spaces
               PROVE  table'[s][ImagePage[1]] = table[s][ImagePage[1]]
    BY <1>1, <1>8 DEF KernelShared
  <2>1. s \in DOMAIN table /\ ImagePage[1] \in Indices
    BY <1>1, VmmConstants, PagesAre DEF Types
  <2> QED
    BY <1>1, <1>5, <1>7, <2>1 DEF KernelShared
<1>18. Homes(home2)'
  <2>1. home \in [DOMAIN table -> Home] /\ n \notin spaces
    BY <1>1, <1>2, <1>6 DEF Trees, Homes, Types
  <2>2. home2 \in [DOMAIN table' -> Home]
    BY <1>7, <1>12, <1>13, <2>1
  <2>3. c.level # 1
    BY <1>5, <1>13
  <2>4. spaces \subseteq DOMAIN table
    BY <1>1 DEF Types
  <2> QED
    BY <1>2, <1>7, <1>8, <1>14, <2>1, <2>2, <2>3, <2>4 DEF Trees, Homes
<1>19. UpperEntries(home2)'
  <2>1. Child(home[a], x, c)
    <3>1. \A k \in 1..(l - 1) : c.page[k] = home[a].page[k]
      BY <1>5, <1>13 DEF Lies
    <3>2. c.root = IF l = 1 /\ x \in KernelIndices THEN 0 ELSE home[a].root
      <4>1. CASE l = 1
        BY <1>5, <1>13, <4>1 DEF Lies
      <4>2. CASE l > 1
        BY <1>5, <1>13, <4>2 DEF Lies
      <4> QED
        BY <1>5, <4>1, <4>2
    <3> QED
      BY <1>5, <1>13, <3>1, <3>2 DEF Child
  <2> SUFFICES ASSUME NEW f \in DOMAIN table, NEW i \in Indices, table'[f][i] # Absent, home[f].level < 4
               PROVE /\ {P, W} \subseteq table'[f][i].flags
                     /\ table'[f][i].frame \in DOMAIN table'
                     /\ Child(home2[f], i, home2[table'[f][i].frame])
                     /\ home2[table'[f][i].frame].root # 0 => U \in table'[f][i].flags
    BY <1>7, <1>14 DEF UpperEntries
  <2>2. CASE f = a /\ i = x
    BY <1>7, <1>14, <1>15, <2>1, <2>2
  <2>3. CASE ~(f = a /\ i = x)
    <3>1. table'[f][i] = table[f][i]
      BY <1>7, <2>3
    <3> QED
      BY <1>2, <1>7, <1>14, <3>1 DEF Trees, UpperEntries
  <2> QED
    BY <2>2, <2>3
\* The leaves are what they were.
<1>20. ASSUME NEW f \in DOMAIN table', NEW i \in Indices, table'[f][i] # Absent, home2[f].level = 4
       PROVE  f \in DOMAIN table /\ home[f].level = 4 /\ home2[f] = home[f] /\ table'[f][i] = table[f][i]
  <2>1. f # n
    BY <1>7, <1>20
  <2>2. f # a
    BY <1>5, <1>14, <1>20
  <2> QED
    BY <1>7, <1>14, <1>20, <2>1, <2>2
<1>21. Leaves(home2)'
  <2> SUFFICES ASSUME NEW f \in DOMAIN table', NEW i \in Indices,
                      table'[f][i] # Absent, home2[f].level = 4
               PROVE  /\ P \in table'[f][i].flags
                      /\ table'[f][i].frame \notin DOMAIN table' /\ table'[f][i].frame < free'
                      /\ \A w \in Mapped :
                           w[4] = i /\ (\A k \in 1..3 : home2[f].page[k] = w[k])
                             => AsAsked(w, table'[f][i].flags)
    BY DEF Leaves
  <2>1. f \in DOMAIN table /\ home[f].level = 4 /\ home2[f] = home[f] /\ table'[f][i] = table[f][i]
    BY <1>20
  <2>2. table[f][i] # Absent /\ table[f][i].frame \in Nat
    BY <1>1, <2>1 DEF Types, Entry, Frame
  <2>3. /\ P \in table[f][i].flags
        /\ table[f][i].frame \notin DOMAIN table /\ table[f][i].frame < n
        /\ \A w \in Mapped :
             w[4] = i /\ (\A k \in 1..3 : home[f].page[k] = w[k])
               => AsAsked(w, table[f][i].flags)
    BY <1>2, <1>4, <2>1, <2>2 DEF Trees, Leaves
  <2>4. table[f][i].frame \notin DOMAIN table' /\ table[f][i].frame < free'
    BY <1>6, <1>7, <2>2, <2>3
  <2> QED
    BY <2>1, <2>3, <2>4
<1>22. Unshared(home2)'
  BY <1>2, <1>20 DEF Trees, Unshared
<1>23. Stands(home2, r2)' /\ Fresh(home2, r2)'
  <2>1. Lies(c, l + 1, root, v)
    BY <1>5, <1>13 DEF Lies
  <2>2. /\ v \in Mapped /\ AsAsked(v, r.flags \cup {P})
        /\ l = 1 => a = root
        /\ l > 1 => E1(root, v) # Absent
        /\ l = 2 => a = E1(root, v).frame
        /\ l > 2 => E2(root, v) # Absent
        /\ l = 3 => a = E2(root, v).frame
    BY <1>3, <1>4 DEF Stands
  <2>3. root \in DOMAIN table /\ home[root].level = 1 /\ v[1] \in Indices /\ v[2] \in Indices
        /\ v[3] \in Indices
    BY <1>1, <1>2, <1>5, PagesAre DEF Types, Trees, Homes
  <2>4. /\ E1(root, v) # Absent => E1(root, v).frame \in DOMAIN table
                                   /\ home[E1(root, v).frame].level = 2
        /\ E1(root, v) # Absent /\ E2(root, v) # Absent => E2(root, v).frame \in DOMAIN table
    <3>1. /\ E1(root, v) # Absent => E1(root, v).frame \in DOMAIN table
                                      /\ Lies(home[E1(root, v).frame], 2, root, v)
          /\ E1(root, v) # Absent /\ E2(root, v) # Absent => E2(root, v).frame \in DOMAIN table
      BY <1>1, <1>2, <1>5, Descent DEF Trees
    <3> QED
      BY <3>1 DEF Lies
  <2>5. r2.level = 2 => E1(root, v)' = NewTable(n)
    BY <1>5, <1>7, <1>10, <2>2, <2>3 DEF E1
  <2>6. r2.level > 2 => E1(root, v)' = E1(root, v)
    BY <1>5, <1>7, <1>10, <2>3 DEF E1
  <2>7. r2.level = 3 => E2(root, v)' = NewTable(n)
    BY <1>5, <1>7, <1>10, <2>2, <2>3, <2>4, <2>6 DEF E2
  <2>8. r2.level > 3 => E2(root, v)' = E2(root, v)
    BY <1>5, <1>7, <1>10, <2>2, <2>3, <2>4, <2>6 DEF E2
  <2>9. r2.level = 4 => E3(root, v)' = NewTable(n)
    BY <1>5, <1>7, <1>10, <2>2, <2>3, <2>4, <2>8 DEF E3
  <2>10. Stands(home2, r2)'
    <3>1. n \in DOMAIN table' /\ l + 1 \in {2, 3, 4}
      BY <1>5, <1>7
    <3>2. pml4' = root /\ home2[n] = c /\ r2.virt = v /\ r2.table = n /\ r2.level = l + 1
      BY <1>4, <1>8, <1>10, <1>14
    <3>3. AsAsked(v, r2.flags \cup {P})
      BY <1>10, <2>2
    <3>4. CASE l = 1
      BY <1>5, <1>15, <2>1, <2>5, <3>1, <3>2, <3>3, <3>4 DEF Stands
    <3>5. CASE l = 2
      BY <1>5, <1>15, <2>1, <2>2, <2>6, <2>7, <3>1, <3>2, <3>3, <3>5 DEF Stands
    <3>6. CASE l = 3
      BY <1>5, <1>15, <2>1, <2>2, <2>6, <2>8, <2>9, <3>1, <3>2, <3>3, <3>6 DEF Stands
    <3> QED
      BY <1>5, <3>4, <3>5, <3>6
  <2>11. Fresh(home2, r2)'
    <3>1. r.phys \in Nat /\ r.phys \notin DOMAIN table /\ r.phys < n
      BY <1>3, <1>4 DEF Fresh, Walk, Frame
    <3>2. r.phys \notin DOMAIN table' /\ r.phys < free'
      BY <1>6, <1>7, <3>1
    <3> QED
      BY <1>3, <1>10, <1>20, <3>2 DEF Fresh
  <2> QED
    BY <2>10, <2>11
<1>24. Trees(home2)'
  BY <1>18, <1>19, <1>21, <1>22 DEF Trees
<1>25. VInv'
  <2>1. WalkRight(home2)'
    BY <1>10, <1>23 DEF WalkRight
  <2> QED
    BY <1>16, <1>17, <1>24, <2>1 DEF VInv
<1>26. ASSUME NEW s \in spaces, NEW w \in Mapped PROVE Translate(s, w)' = Translate(s, w)
  <2>1. /\ w \in Page /\ w[1] \in Indices /\ w[2] \in Indices /\ w[3] \in Indices /\ w[4] \in Indices
    BY PagesAre
  <2>2. Translate(s, w) = IF E1(s, w) # Absent /\ E2(s, w) # Absent /\ E3(s, w) # Absent
                          THEN E4(s, w) ELSE Absent
    BY <1>1, <1>2, Translation
  <2>3. Translate(s, w)' = IF E1(s, w)' # Absent /\ E2(s, w)' # Absent /\ E3(s, w)' # Absent
                           THEN E4(s, w)' ELSE Absent
    BY <1>8, <1>16, <1>24, TranslationNext
  <2>4. /\ s \in DOMAIN table /\ home[s].level = 1
        /\ E1(s, w) # Absent => E1(s, w).frame \in DOMAIN table /\ home[E1(s, w).frame].level = 2
        /\ E1(s, w) # Absent /\ E2(s, w) # Absent =>
             E2(s, w).frame \in DOMAIN table /\ home[E2(s, w).frame].level = 3
        /\ E1(s, w) # Absent /\ E2(s, w) # Absent /\ E3(s, w) # Absent =>
             E3(s, w).frame \in DOMAIN table /\ home[E3(s, w).frame].level = 4
    <3>1. /\ Lies(home[s], 1, s, w) /\ s \in DOMAIN table
          /\ E1(s, w) # Absent => E1(s, w).frame \in DOMAIN table
                                  /\ Lies(home[E1(s, w).frame], 2, s, w)
          /\ E1(s, w) # Absent /\ E2(s, w) # Absent =>
               E2(s, w).frame \in DOMAIN table /\ Lies(home[E2(s, w).frame], 3, s, w)
          /\ E1(s, w) # Absent /\ E2(s, w) # Absent /\ E3(s, w) # Absent =>
               E3(s, w).frame \in DOMAIN table /\ Lies(home[E3(s, w).frame], 4, s, w)
      BY <1>1, <1>2, <2>1, Descent DEF Trees
    <3> QED
      BY <3>1 DEF Lies
  <2>5. CASE s = a /\ w[1] = x
    <3>1. E1(s, w) = Absent /\ E1(s, w)' = NewTable(n)
      BY <1>5, <1>7, <2>1, <2>4, <2>5 DEF E1
    <3>2. E2(s, w)' = Absent
      BY <1>7, <1>15, <2>1, <3>1 DEF E2
    <3> QED
      BY <2>2, <2>3, <3>1, <3>2
  <2>6. CASE ~(s = a /\ w[1] = x)
    <3>1. E1(s, w)' = E1(s, w)
      BY <1>7, <2>1, <2>4, <2>6 DEF E1
    <3>2. CASE E1(s, w) = Absent
      BY <2>2, <2>3, <3>1, <3>2
    <3>3. CASE E1(s, w) # Absent /\ E1(s, w).frame = a /\ w[2] = x
      <4>1. E2(s, w) = Absent /\ E2(s, w)' = NewTable(n)
        BY <1>5, <1>7, <2>1, <3>1, <3>3 DEF E2
      <4>2. E3(s, w)' = Absent
        BY <1>7, <1>15, <2>1, <4>1 DEF E3
      <4> QED
        BY <2>2, <2>3, <4>1, <4>2
    <3>4. CASE E1(s, w) # Absent /\ ~(E1(s, w).frame = a /\ w[2] = x)
      <4>1. E2(s, w)' = E2(s, w)
        BY <1>7, <2>1, <2>4, <3>1, <3>4 DEF E2
      <4>2. CASE E2(s, w) = Absent
        BY <2>2, <2>3, <4>1, <4>2
      <4>3. CASE E2(s, w) # Absent /\ E2(s, w).frame = a /\ w[3] = x
        <5>1. E3(s, w) = Absent /\ E3(s, w)' = NewTable(n)
          BY <1>5, <1>7, <2>1, <4>1, <4>3 DEF E3
        <5>2. E4(s, w)' = Absent
          BY <1>7, <1>15, <2>1, <5>1 DEF E4
        <5> QED
          BY <2>2, <2>3, <5>1, <5>2
      <4>4. CASE E2(s, w) # Absent /\ ~(E2(s, w).frame = a /\ w[3] = x)
        <5>1. E3(s, w)' = E3(s, w)
          BY <1>7, <2>1, <2>4, <3>4, <4>1, <4>4 DEF E3
        <5>2. E3(s, w) # Absent => E3(s, w).frame # a
          BY <1>5, <2>4, <3>4, <4>4
        <5>3. E3(s, w) # Absent => E4(s, w)' = E4(s, w)
          BY <1>7, <2>1, <2>4, <3>4, <4>4, <5>1, <5>2 DEF E4
        <5> QED
          BY <2>2, <2>3, <3>1, <4>1, <5>1, <5>3
      <4> QED
        BY <4>2, <4>3, <4>4
    <3> QED
      BY <3>2, <3>3, <3>4
  <2> QED
    BY <2>5, <2>6
<1> QED
  BY <1>8, <1>25, <1>26 DEF SameView

\* ensure_table finds a table, and opens the way to it for the user.
LEMMA OldLevelKeeps == ASSUME VInv, OldLevel PROVE VInv' /\ SameView
<1>1. Types /\ KernelShared
  BY DEF VInv
<1>2. PICK home : Trees(home) /\ WalkRight(home)
  BY DEF VInv
<1>3. PICK r \in Walk :
           /\ walk = <<r>> /\ At = r /\ Stands(home, r) /\ Fresh(home, r)
           /\ r.level \in 1..3 /\ r.virt \in Page /\ r.virt[r.level] \in Indices
           /\ r.table \in DOMAIN table /\ home[r.table].level = r.level
           /\ AtEntry = table[r.table][r.virt[r.level]] /\ AtEntry # Absent
  BY <1>1, <1>2, WalkIsAt DEF OldLevel
<1>4. PICK a, x, l, v, root, e :
        /\ a = r.table /\ x = r.virt[r.level] /\ l = r.level /\ v = r.virt /\ root = pml4
        /\ e = table[r.table][r.virt[r.level]]
  OBVIOUS
<1>5. /\ a \in DOMAIN table /\ x \in Indices /\ l \in 1..3 /\ v \in Page /\ v[l] = x
      /\ home[a].level = l /\ table[a][x] = e /\ e # Absent /\ e \in Entry /\ v \in Mapped
      /\ Lies(home[a], l, root, v) /\ root \in spaces
  BY <1>1, <1>3, <1>4 DEF Stands, Types
<1>6. /\ {P, W} \subseteq e.flags /\ e.frame \in DOMAIN table /\ Child(home[a], x, home[e.frame])
      /\ e.frame \in Frame /\ e.flags \in SUBSET {P, W, U}
  BY <1>1, <1>2, <1>5 DEF Trees, UpperEntries, Entry
<1>7. PICK e2 : e2 = [frame |-> e.frame, flags |-> e.flags \cup {U, W}]
  OBVIOUS
<1>8. /\ DOMAIN table' = DOMAIN table
      /\ \A f \in DOMAIN table, i \in Indices :
           table'[f][i] = IF f = a /\ i = x THEN e2 ELSE table[f][i]
      /\ table' \in [DOMAIN table' -> [Indices -> Entry]]
  <2>1. table' = [table EXCEPT ![a][x].flags = @ \cup {U, W}]
    BY <1>3, <1>4 DEF OldLevel
  <2>2. [table[a][x] EXCEPT !.flags = @ \cup {U, W}] = e2
    BY <1>5, <1>7 DEF Entry
  <2>3. table' = [table EXCEPT ![a] = [table[a] EXCEPT ![x] = e2]]
    BY <1>1, <1>5, <2>1, <2>2 DEF Types
  <2>4. e2 \in Entry
    BY <1>6, <1>7 DEF Entry
  <2>5. [table[a] EXCEPT ![x] = e2] \in [Indices -> Entry]
    BY <1>1, <1>5, <2>4 DEF Types
  <2>6. table' \in [DOMAIN table' -> [Indices -> Entry]] /\ DOMAIN table' = DOMAIN table
    BY <1>1, <2>3, <2>5 DEF Types
  <2>7. \A f \in DOMAIN table, i \in Indices :
           table'[f][i] = IF f = a /\ i = x THEN e2 ELSE table[f][i]
    BY <1>1, <1>5, <2>3 DEF Types
  <2> QED
    BY <2>6, <2>7
<1>9. UNCHANGED <<free, pml4, cr3, spaces, heap_end, halted>>
  BY DEF OldLevel
<1>10. e2 # Absent /\ e2.frame = e.frame /\ {P, W, U} \subseteq e2.flags
  BY <1>6, <1>7 DEF Absent
<1>11. PICK r2 : r2 = [virt |-> r.virt, phys |-> r.phys, flags |-> r.flags, level |-> l + 1, table |-> e.frame]
  OBVIOUS
<1>12. /\ walk' = <<r2>> /\ r2 \in Walk /\ r2.level = l + 1 /\ r2.table = e.frame /\ r2.virt = v
       /\ r2.phys = r.phys /\ r2.flags = r.flags
  <2>1. [r EXCEPT !.level = @ + 1, !.table = e.frame] = r2
    <3>1. r \in Walk /\ r.level = l
      BY <1>3, <1>4
    <3>2. PICK n : n = e.frame
      OBVIOUS
    <3>3. PICK r3 : r3 = [r EXCEPT !.level = @ + 1, !.table = n]
      OBVIOUS
    <3>4. r3 = [virt |-> r.virt, phys |-> r.phys, flags |-> r.flags, level |-> l + 1, table |-> n]
      BY <3>1, <3>3 DEF Walk
    <3> QED
      BY <1>11, <3>2, <3>3, <3>4
  <2>2. walk' = <<r2>>
    BY <1>3, <1>4, <2>1 DEF OldLevel, Descend
  <2>3. l + 1 \in 1..4
    BY <1>5
  <2>4. r.virt \in Page /\ r.phys \in Frame /\ r.flags \in SUBSET {P, W, U}
    BY <1>3 DEF Walk
  <2> QED
    BY <1>4, <1>6, <1>11, <2>2, <2>3, <2>4 DEF Walk
<1>13. Types'
  <2>1. halted' \in BOOLEAN
    BY <1>1, <1>9 DEF Types
  <2> QED
    BY <1>1, <1>8, <1>9, <2>1 DEF Types
<1>14. KernelShared'
  <2> SUFFICES ASSUME NEW s \in spaces
               PROVE  table'[s][ImagePage[1]] # Absent
                      /\ table'[s][ImagePage[1]].frame = table[s][ImagePage[1]].frame
    BY <1>1, <1>9 DEF KernelShared
  <2>1. s \in DOMAIN table /\ ImagePage[1] \in Indices /\ table[s][ImagePage[1]] # Absent
    BY <1>1, VmmConstants, PagesAre DEF Types, KernelShared
  <2> QED
    BY <1>5, <1>8, <1>10, <2>1
<1>15. Homes(home)'
  BY <1>2, <1>8, <1>9 DEF Trees, Homes
<1>16. UpperEntries(home)'
  <2> SUFFICES ASSUME NEW f \in DOMAIN table, NEW i \in Indices, table'[f][i] # Absent, home[f].level < 4
               PROVE /\ {P, W} \subseteq table'[f][i].flags
                     /\ table'[f][i].frame \in DOMAIN table'
                     /\ Child(home[f], i, home[table'[f][i].frame])
                     /\ home[table'[f][i].frame].root # 0 => U \in table'[f][i].flags
    BY <1>8 DEF UpperEntries
  <2>1. CASE f = a /\ i = x
    BY <1>6, <1>8, <1>10, <2>1
  <2>2. CASE ~(f = a /\ i = x)
    <3>1. table'[f][i] = table[f][i]
      BY <1>8, <2>2
    <3> QED
      BY <1>2, <1>8, <3>1 DEF Trees, UpperEntries
  <2> QED
    BY <2>1, <2>2
<1>17. \A f \in DOMAIN table', i \in Indices :
         home[f].level = 4 => f \in DOMAIN table /\ table'[f][i] = table[f][i]
  BY <1>5, <1>8
<1>18. Leaves(home)' /\ Unshared(home)'
  BY <1>2, <1>8, <1>9, <1>17 DEF Trees, Leaves, Unshared
<1>19. Trees(home)'
  BY <1>15, <1>16, <1>18 DEF Trees
\* All walks lead through the same tables as before.
<1>20. ASSUME NEW s \in spaces, NEW w \in Page
       PROVE  /\ (E1(s, w) # Absent <=> E1(s, w)' # Absent) /\ E1(s, w)'.frame = E1(s, w).frame
              /\ E1(s, w) # Absent =>
                    (E2(s, w) # Absent <=> E2(s, w)' # Absent) /\ E2(s, w)'.frame = E2(s, w).frame
              /\ E1(s, w) # Absent /\ E2(s, w) # Absent =>
                    (E3(s, w) # Absent <=> E3(s, w)' # Absent) /\ E3(s, w)'.frame = E3(s, w).frame
              /\ E1(s, w) # Absent /\ E2(s, w) # Absent /\ E3(s, w) # Absent =>
                    E4(s, w)' = E4(s, w)
  <2>1. /\ w[1] \in Indices /\ w[2] \in Indices /\ w[3] \in Indices /\ w[4] \in Indices
    BY PagesAre
  <2>2. /\ s \in DOMAIN table
        /\ E1(s, w) # Absent => E1(s, w).frame \in DOMAIN table
        /\ E1(s, w) # Absent /\ E2(s, w) # Absent => E2(s, w).frame \in DOMAIN table
        /\ E1(s, w) # Absent /\ E2(s, w) # Absent /\ E3(s, w) # Absent =>
             E3(s, w).frame \in DOMAIN table /\ home[E3(s, w).frame].level = 4
    <3>1. /\ s \in DOMAIN table
          /\ E1(s, w) # Absent => E1(s, w).frame \in DOMAIN table
          /\ E1(s, w) # Absent /\ E2(s, w) # Absent => E2(s, w).frame \in DOMAIN table
          /\ E1(s, w) # Absent /\ E2(s, w) # Absent /\ E3(s, w) # Absent =>
               E3(s, w).frame \in DOMAIN table /\ Lies(home[E3(s, w).frame], 4, s, w)
      BY <1>1, <1>2, Descent DEF Trees
    <3> QED
      BY <3>1 DEF Lies
  <2>3. ASSUME NEW f \in DOMAIN table, NEW i \in Indices
        PROVE  (table[f][i] # Absent <=> table'[f][i] # Absent) /\ table'[f][i].frame = table[f][i].frame
    BY <1>5, <1>8, <1>10
  <2>4. (E1(s, w) # Absent <=> E1(s, w)' # Absent) /\ E1(s, w)'.frame = E1(s, w).frame
    BY <2>1, <2>2, <2>3 DEF E1
  <2>5. E1(s, w) # Absent =>
           (E2(s, w) # Absent <=> E2(s, w)' # Absent) /\ E2(s, w)'.frame = E2(s, w).frame
    BY <2>1, <2>2, <2>3, <2>4 DEF E2
  <2>6. E1(s, w) # Absent /\ E2(s, w) # Absent =>
           (E3(s, w) # Absent <=> E3(s, w)' # Absent) /\ E3(s, w)'.frame = E3(s, w).frame
    BY <2>1, <2>2, <2>3, <2>5 DEF E3
  <2>7. E1(s, w) # Absent /\ E2(s, w) # Absent /\ E3(s, w) # Absent => E4(s, w)' = E4(s, w)
    BY <1>8, <1>17, <2>1, <2>2, <2>6 DEF E4
  <2> QED
    BY <2>4, <2>5, <2>6, <2>7
<1>21. Stands(home, r2)' /\ Fresh(home, r2)'
  <2>1. /\ v \in Mapped /\ AsAsked(v, r.flags \cup {P})
        /\ l = 1 => a = root
        /\ l > 1 => E1(root, v) # Absent
        /\ l = 2 => a = E1(root, v).frame
        /\ l > 2 => E2(root, v) # Absent
        /\ l = 3 => a = E2(root, v).frame
    BY <1>3, <1>4 DEF Stands
  <2>2. /\ l = 1 => e = E1(root, v)
        /\ l = 2 => e = E2(root, v)
        /\ l = 3 => e = E3(root, v)
    BY <1>5, <2>1 DEF E1, E2, E3
  <2>3. Lies(home[e.frame], l + 1, root, v)
    <3>1. /\ home[e.frame].level = l + 1 /\ home[e.frame].page[l] = x
          /\ \A k \in 1..(l - 1) : home[e.frame].page[k] = v[k]
      BY <1>5, <1>6 DEF Child, Lies
    <3>2. \A k \in 1..l : home[e.frame].page[k] = v[k]
      BY <1>5, <3>1
    <3>3. home[e.frame].root = IF v[1] \in KernelIndices THEN 0 ELSE root
      <4>1. CASE l = 1
        BY <1>5, <1>6, <4>1 DEF Child, Lies
      <4>2. CASE l > 1
        <5>1. home[e.frame].root = home[a].root
          BY <1>5, <1>6, <4>2 DEF Child
        <5>2. home[a].root = IF v[1] \in KernelIndices THEN 0 ELSE root
          BY <1>5, <4>2 DEF Lies
        <5> QED
          BY <5>1, <5>2
      <4> QED
        BY <1>5, <4>1, <4>2
    <3> QED
      BY <1>5, <3>1, <3>2, <3>3 DEF Lies
  <2>4. pml4' = root /\ e.frame \in DOMAIN table' /\ AsAsked(v, r2.flags \cup {P})
    BY <1>4, <1>6, <1>8, <1>9, <1>12, <2>1
  <2>5. Stands(home, r2)'
    <3>1. CASE l = 1
      BY <1>5, <1>12, <1>20, <2>1, <2>2, <2>3, <2>4, <3>1 DEF Stands
    <3>2. CASE l = 2
      BY <1>5, <1>12, <1>20, <2>1, <2>2, <2>3, <2>4, <3>2 DEF Stands
    <3>3. CASE l = 3
      BY <1>5, <1>12, <1>20, <2>1, <2>2, <2>3, <2>4, <3>3 DEF Stands
    <3> QED
      BY <1>5, <3>1, <3>2, <3>3
  <2>6. Fresh(home, r2)'
    BY <1>3, <1>8, <1>9, <1>12, <1>17 DEF Fresh
  <2> QED
    BY <2>5, <2>6
<1>22. VInv'
  <2>1. WalkRight(home)'
    BY <1>12, <1>21 DEF WalkRight
  <2> QED
    BY <1>13, <1>14, <1>19, <2>1 DEF VInv
<1>23. ASSUME NEW s \in spaces, NEW w \in Mapped PROVE Translate(s, w)' = Translate(s, w)
  <2>1. w \in Page
    BY PagesAre
  <2>2. Translate(s, w) = IF E1(s, w) # Absent /\ E2(s, w) # Absent /\ E3(s, w) # Absent
                          THEN E4(s, w) ELSE Absent
    BY <1>1, <1>2, Translation
  <2>3. Translate(s, w)' = IF E1(s, w)' # Absent /\ E2(s, w)' # Absent /\ E3(s, w)' # Absent
                           THEN E4(s, w)' ELSE Absent
    BY <1>9, <1>13, <1>19, TranslationNext
  <2> QED
    BY <1>20, <2>1, <2>2, <2>3
<1> QED
  BY <1>9, <1>22, <1>23 DEF SameView

-----------------------------------------------------------------------------
(* Steps that change a page, or the spaces *)

\* Page v of the current space is mapped to m from now on; a page of the
\* kernel in all spaces.
PageView(v, m) ==
  /\ spaces' = spaces /\ cr3' = cr3
  /\ \A s \in spaces, w \in Mapped :
       Translate(s, w)' = IF w = v /\ (s = cr3 \/ v \in KernelPages) THEN m ELSE Translate(s, w)

\* The entry of page v in a table of the last level becomes e.
LEMMA LeafChanges ==
  ASSUME Types, KernelShared, NEW home, Trees(home), NEW v \in Mapped,
         E1(cr3, v) # Absent, E2(cr3, v) # Absent, E3(cr3, v) # Absent,
         NEW a, a = E3(cr3, v).frame, NEW e \in Entry,
         table' = [table EXCEPT ![a] = [table[a] EXCEPT ![v[4]] = e]],
         e # Absent =>
           /\ AsAsked(v, e.flags) /\ e.frame \notin DOMAIN table /\ e.frame < free
           /\ e.frame # 0 => \A f \in DOMAIN table, i \in Indices :
                 table[f][i] # Absent /\ home[f].level = 4 => table[f][i].frame # e.frame,
         walk' = <<>>, UNCHANGED <<free, pml4, cr3, spaces, heap_end, halted>>
  PROVE  VInv' /\ PageView(v, e)
<1> PICK x : x = v[4]
  OBVIOUS
<1>1. v \in Page /\ x \in Indices /\ cr3 \in spaces
  BY PagesAre DEF Types
<1>2. a \in DOMAIN table /\ Lies(home[a], 4, cr3, v)
  BY <1>1, Descent DEF Trees
<1>3. home[a].level = 4 /\ \A k \in 1..3 : home[a].page[k] = v[k]
  BY <1>2 DEF Lies
<1>4. /\ DOMAIN table' = DOMAIN table
      /\ \A f \in DOMAIN table, i \in Indices :
           table'[f][i] = IF f = a /\ i = x THEN e ELSE table[f][i]
      /\ table' \in [DOMAIN table' -> [Indices -> Entry]]
  <2>1. [table[a] EXCEPT ![x] = e] \in [Indices -> Entry]
    BY <1>1, <1>2 DEF Types
  <2>2. table' \in [DOMAIN table' -> [Indices -> Entry]] /\ DOMAIN table' = DOMAIN table
    BY <2>1 DEF Types
  <2>3. \A f \in DOMAIN table, i \in Indices :
           table'[f][i] = IF f = a /\ i = x THEN e ELSE table[f][i]
    BY <1>1, <1>2 DEF Types
  <2> QED
    BY <2>2, <2>3
<1>5. Types'
  <2>1. halted' \in BOOLEAN
    BY DEF Types
  <2> QED
    BY <1>4, <2>1 DEF Types
<1>6. \A f \in DOMAIN table, i \in Indices : home[f].level # 4 => table'[f][i] = table[f][i]
  BY <1>3, <1>4
<1>7. KernelShared'
  <2> SUFFICES ASSUME NEW s \in spaces
               PROVE  table'[s][ImagePage[1]] = table[s][ImagePage[1]]
    BY DEF KernelShared
  <2>1. s \in DOMAIN table /\ home[s].level = 1 /\ ImagePage[1] \in Indices
    BY VmmConstants, PagesAre DEF Types, Trees, Homes
  <2> QED
    BY <1>6, <2>1
<1>8. Homes(home)' /\ UpperEntries(home)'
  BY <1>4, <1>6 DEF Trees, Homes, UpperEntries
<1>9. Leaves(home)'
  <2> SUFFICES ASSUME NEW f \in DOMAIN table, NEW i \in Indices, table'[f][i] # Absent, home[f].level = 4
               PROVE  /\ P \in table'[f][i].flags
                      /\ table'[f][i].frame \notin DOMAIN table /\ table'[f][i].frame < free
                      /\ \A w \in Mapped :
                           w[4] = i /\ (\A k \in 1..3 : home[f].page[k] = w[k])
                             => AsAsked(w, table'[f][i].flags)
    BY <1>4 DEF Leaves
  <2>1. CASE f = a /\ i = x
    <3>1. table'[f][i] = e
      BY <1>4, <2>1
    <3>2. ASSUME NEW w \in Mapped, w[4] = i, \A k \in 1..3 : home[f].page[k] = w[k]
          PROVE  w = v
      <4>1. w[1] = v[1] /\ w[2] = v[2] /\ w[3] = v[3] /\ w[4] = v[4]
        BY <1>3, <2>1, <3>2
      <4> QED
        BY <1>1, <4>1, PagesAre
    <3> QED
      BY <3>1, <3>2 DEF AsAsked
  <2>2. CASE ~(f = a /\ i = x)
    <3>1. table'[f][i] = table[f][i]
      BY <1>4, <2>2
    <3> QED
      BY <3>1 DEF Trees, Leaves
  <2> QED
    BY <2>1, <2>2
<1>10. Unshared(home)'
  <2> SUFFICES ASSUME NEW f \in DOMAIN table, NEW g \in DOMAIN table, NEW i \in Indices, NEW j \in Indices,
                      table'[f][i] # Absent, home[f].level = 4, table'[g][j] # Absent, home[g].level = 4,
                      table'[f][i].frame = table'[g][j].frame, table'[f][i].frame # 0
               PROVE  f = g /\ i = j
    BY <1>4 DEF Unshared
  <2>1. CASE f = a /\ i = x
    <3>1. table'[f][i] = e
      BY <1>4, <2>1
    <3>2. CASE ~(g = a /\ j = x)
      <4>1. table'[g][j] = table[g][j]
        BY <1>4, <3>2
      <4> QED
        BY <3>1, <4>1
    <3> QED
      BY <2>1, <3>2
  <2>2. CASE ~(f = a /\ i = x)
    <3>1. table'[f][i] = table[f][i]
      BY <1>4, <2>2
    <3>2. CASE g = a /\ j = x
      <4>1. table'[g][j] = e
        BY <1>4, <3>2
      <4> QED
        BY <3>1, <4>1
    <3>3. CASE ~(g = a /\ j = x)
      <4>1. table'[g][j] = table[g][j]
        BY <1>4, <3>3
      <4> QED
        BY <3>1, <4>1 DEF Trees, Unshared
    <3> QED
      BY <3>2, <3>3
  <2> QED
    BY <2>1, <2>2
<1>11. Trees(home)'
  BY <1>8, <1>9, <1>10 DEF Trees
<1>12. VInv'
  <2>1. WalkRight(home)'
    BY DEF WalkRight
  <2> QED
    BY <1>5, <1>7, <1>11, <2>1 DEF VInv
<1>13. ASSUME NEW s \in spaces, NEW w \in Mapped
       PROVE  Translate(s, w)' = IF w = v /\ (s = cr3 \/ v \in KernelPages) THEN e ELSE Translate(s, w)
  <2>1. /\ w \in Page /\ w[1] \in Indices /\ w[2] \in Indices /\ w[3] \in Indices /\ w[4] \in Indices
        /\ w = <<w[1], w[2], w[3], w[4]>> /\ v = <<v[1], v[2], v[3], v[4]>>
    BY <1>1, PagesAre
  <2>2. Translate(s, w) = IF E1(s, w) # Absent /\ E2(s, w) # Absent /\ E3(s, w) # Absent
                          THEN E4(s, w) ELSE Absent
    BY Translation
  <2>3. Translate(s, w)' = IF E1(s, w)' # Absent /\ E2(s, w)' # Absent /\ E3(s, w)' # Absent
                           THEN E4(s, w)' ELSE Absent
    BY <1>5, <1>11, TranslationNext
  <2>4. /\ Lies(home[s], 1, s, w) /\ s \in DOMAIN table
        /\ E1(s, w) # Absent => E1(s, w).frame \in DOMAIN table
                                /\ Lies(home[E1(s, w).frame], 2, s, w)
        /\ E1(s, w) # Absent /\ E2(s, w) # Absent =>
             E2(s, w).frame \in DOMAIN table /\ Lies(home[E2(s, w).frame], 3, s, w)
        /\ E1(s, w) # Absent /\ E2(s, w) # Absent /\ E3(s, w) # Absent =>
             E3(s, w).frame \in DOMAIN table /\ Lies(home[E3(s, w).frame], 4, s, w)
    BY <2>1, Descent DEF Trees
  <2>5. E1(s, w)' = E1(s, w)
    BY <1>6, <2>1, <2>4 DEF E1, Lies
  <2>6. E1(s, w) # Absent => E2(s, w)' = E2(s, w)
    BY <1>6, <2>1, <2>4, <2>5 DEF E2, Lies
  <2>7. E1(s, w) # Absent /\ E2(s, w) # Absent => E3(s, w)' = E3(s, w)
    <3> SUFFICES ASSUME E1(s, w) # Absent, E2(s, w) # Absent PROVE E3(s, w)' = E3(s, w)
      OBVIOUS
    <3> PICK f : f = E2(s, w).frame
      OBVIOUS
    <3>1. f \in DOMAIN table /\ home[f].level = 3 /\ w[3] \in Indices
      BY <2>1, <2>4 DEF Lies
    <3>2. E2(s, w)' = E2(s, w)
      BY <2>6
    <3>3. table'[f][w[3]] = table[f][w[3]]
      BY <1>6, <3>1
    <3> QED
      BY <3>2, <3>3 DEF E3
  <2>8. E1(s, w) # Absent /\ E2(s, w) # Absent /\ E3(s, w) # Absent =>
          E4(s, w)' = IF E3(s, w).frame = a /\ w[4] = x THEN e ELSE E4(s, w)
    BY <1>4, <2>1, <2>4, <2>7 DEF E4
  <2>9. CASE w = v /\ (s = cr3 \/ v \in KernelPages)
    <3>1. E1(s, w) # Absent /\ E1(s, w).frame = E1(cr3, v).frame
      <4>1. CASE s = cr3
        BY <2>9, <4>1
      <4>2. CASE v \in KernelPages
        BY <1>1, <2>9, <4>2, PagesAre DEF KernelShared, E1
      <4> QED
        BY <2>9, <4>1, <4>2
    <3>2. E2(s, w) = E2(cr3, v)
      BY <2>9, <3>1 DEF E2
    <3>3. E3(s, w) = E3(cr3, v)
      BY <2>9, <3>2 DEF E3
    <3> QED
      BY <2>3, <2>5, <2>6, <2>7, <2>8, <2>9, <3>1, <3>2, <3>3
  <2>10. CASE ~(w = v /\ (s = cr3 \/ v \in KernelPages))
    <3>1. ASSUME E1(s, w) # Absent, E2(s, w) # Absent, E3(s, w) # Absent, E3(s, w).frame = a, w[4] = x
          PROVE  FALSE
      <4>1. Lies(home[a], 4, s, w)
        BY <2>4, <3>1
      <4>2. w[1] = v[1] /\ w[2] = v[2] /\ w[3] = v[3]
        BY <1>3, <4>1 DEF Lies
      <4>3. w = v
        BY <2>1, <3>1, <4>2
      <4>4. v \in UserPages => s = cr3
        BY <1>2, <4>1, <4>3, PagesAre DEF Lies
      <4> QED
        BY <2>10, <4>3, <4>4 DEF Mapped
    <3> QED
      BY <2>2, <2>3, <2>5, <2>6, <2>7, <2>8, <2>10, <3>1
  <2> QED
    BY <2>9, <2>10
<1> QED
  BY <1>12, <1>13 DEF PageView

\* vmm_map_page writes the entry of its page.
LEMMA SetEntryKeeps ==
  ASSUME VInv, SetEntry
  PROVE  /\ VInv' /\ walk' = <<>> /\ At.virt \in Mapped
         /\ [frame |-> At.phys, flags |-> At.flags \cup {P}] \in Entry
         /\ PageView(At.virt, [frame |-> At.phys, flags |-> At.flags \cup {P}])
<1>1. Types /\ KernelShared
  BY DEF VInv
<1>2. PICK home : Trees(home) /\ WalkRight(home)
  BY DEF VInv
<1>3. PICK r \in Walk : walk = <<r>> /\ Stands(home, r) /\ Fresh(home, r)
  BY <1>2 DEF WalkRight, SetEntry, Walking
<1>4. At = r
  BY <1>3 DEF At
<1>5. /\ r.level = 4 /\ r.virt \in Mapped /\ AsAsked(r.virt, r.flags \cup {P})
      /\ E1(cr3, r.virt) # Absent /\ E2(cr3, r.virt) # Absent /\ E3(cr3, r.virt) # Absent
      /\ r.table = E3(cr3, r.virt).frame /\ r.table \in DOMAIN table
  BY <1>1, <1>3, <1>4 DEF SetEntry, Stands, Types
<1>6. PICK v, a, e : v = r.virt /\ a = r.table /\ e = [frame |-> r.phys, flags |-> r.flags \cup {P}]
  OBVIOUS
<1>7. e \in Entry /\ e.frame = r.phys /\ e.flags = r.flags \cup {P}
  BY <1>3, <1>6 DEF Walk, Entry
<1>8. table' = [table EXCEPT ![a] = [table[a] EXCEPT ![v[4]] = e]]
  BY <1>1, <1>4, <1>5, <1>6 DEF SetEntry, Types
<1>9. walk' = <<>> /\ UNCHANGED <<free, pml4, cr3, spaces, heap_end, halted>>
  BY DEF SetEntry
<1>10. VInv' /\ PageView(v, e)
  <2>1. AsAsked(v, e.flags) /\ e.frame \notin DOMAIN table /\ e.frame < free
    BY <1>3, <1>5, <1>6, <1>7 DEF Fresh
  <2>2. e.frame # 0 => \A f \in DOMAIN table, i \in Indices :
          table[f][i] # Absent /\ home[f].level = 4 => table[f][i].frame # e.frame
    BY <1>3, <1>7 DEF Fresh
  <2>3. /\ v \in Mapped /\ a = E3(cr3, v).frame /\ e \in Entry
        /\ E1(cr3, v) # Absent /\ E2(cr3, v) # Absent /\ E3(cr3, v) # Absent
    BY <1>5, <1>6, <1>7
  <2>4. Trees(home)
    BY <1>2
  <2> QED
    BY <1>1, <1>8, <1>9, <2>1, <2>2, <2>3, <2>4, LeafChanges
<1> QED
  BY <1>4, <1>5, <1>6, <1>7, <1>9, <1>10

LEMMA UnmapKeeps ==
  ASSUME VInv, NEW v \in Mapped, vmm_unmap_page(v)
  PROVE  VInv' /\ PageView(v, Absent)
<1>1. Types /\ KernelShared /\ walk = <<>>
  BY DEF VInv, vmm_unmap_page, Idle
<1>2. PICK home : Trees(home)
  BY DEF VInv
<1>3. /\ E1(cr3, v) # Absent /\ E2(cr3, v) # Absent /\ E3(cr3, v) # Absent
      /\ PageTable(pml4, v) = E3(cr3, v).frame
  <2>1. cr3 \in spaces /\ pml4 = cr3 /\ Translate(cr3, v) # Absent
    BY <1>1 DEF Types, vmm_unmap_page
  <2> QED
    BY <1>1, <1>2, <2>1, Translation
<1>4. PICK a : a = E3(cr3, v).frame
  OBVIOUS
<1>5. table' = [table EXCEPT ![a] = [table[a] EXCEPT ![v[4]] = Absent]]
  BY <1>3, <1>4 DEF vmm_unmap_page
<1>6. Absent \in Entry
  BY VmmConstants DEF Absent, Entry, Frame
<1>7. walk' = <<>> /\ UNCHANGED <<free, pml4, cr3, spaces, heap_end, halted>>
  BY <1>1 DEF vmm_unmap_page
<1> QED
  BY <1>1, <1>2, <1>3, <1>4, <1>5, <1>6, <1>7, LeafChanges

\* vmm_create_user_pml4: the new space knows the kernel and no user.
NewView(n) ==
  /\ n \notin spaces /\ n \in Frame \ {0} /\ spaces' = spaces \cup {n} /\ cr3' = cr3
  /\ \A s \in spaces, w \in Mapped : Translate(s, w)' = Translate(s, w)
  /\ \A w \in Mapped : Translate(n, w)' = IF w \in KernelPages THEN Translate(cr3, w) ELSE Absent

LEMMA CreateKeeps ==
  ASSUME VInv, vmm_create_user_pml4
  PROVE  VInv' /\ free \in Frame /\ NewView(free)
<1>1. Types /\ KernelShared
  BY DEF VInv
<1>2. PICK home : Trees(home)
  BY DEF VInv
<1>3. PICK n, root : n = free /\ root = pml4
  OBVIOUS
<1>4. /\ n \in Nat /\ n \in Frame \ {0} /\ n \notin DOMAIN table /\ free' = n + 1
      /\ n + 1 <= LastFrame + 1 /\ root \in spaces /\ root \in DOMAIN table /\ root = cr3
  <2>1. cr3 < free /\ cr3 \in Nat \ {0}
    BY <1>1 DEF Types, Frame
  <2> QED
    BY <1>1, <1>3, <2>1, VmmConstants DEF vmm_create_user_pml4, pmm_alloc, Types, Frame
<1>5. /\ DOMAIN table' = DOMAIN table \cup {n}
      /\ \A f \in DOMAIN table : table'[f] = table[f]
      /\ \A i \in Indices : table'[n][i] = IF i \in KernelIndices THEN table[root][i] ELSE Absent
      /\ table' \in [DOMAIN table' -> [Indices -> Entry]]
  <2>1. table' = [f \in DOMAIN table \cup {n} |-> IF f = n THEN UserPml4(root) ELSE table[f]]
    BY <1>3 DEF vmm_create_user_pml4
  <2>2. Absent \in Entry
    BY VmmConstants DEF Absent, Entry, Frame
  <2>3. UserPml4(root) \in [Indices -> Entry]
    BY <1>1, <1>4, <2>2 DEF UserPml4, Types
  <2>4. table' \in [DOMAIN table' -> [Indices -> Entry]]
    BY <1>1, <2>1, <2>3 DEF Types
  <2>5. \A i \in Indices : table'[n][i] = IF i \in KernelIndices THEN table[root][i] ELSE Absent
    BY <2>1 DEF UserPml4
  <2> QED
    BY <1>4, <2>1, <2>4, <2>5
<1>6. walk = <<>> /\ spaces' = spaces \cup {n} /\ UNCHANGED <<pml4, cr3, walk, heap_end, halted>>
  BY <1>3 DEF vmm_create_user_pml4, Idle
<1>7. PICK image : image = ImagePage
  OBVIOUS
<1>8. PICK c : c = [level |-> 1, root |-> n, page |-> image]
  OBVIOUS
<1>9. PICK home2 : home2 = [f \in DOMAIN table \cup {n} |-> IF f = n THEN c ELSE home[f]]
  OBVIOUS
<1>10. /\ DOMAIN home2 = DOMAIN table \cup {n} /\ home2[n] = c
       /\ \A f \in DOMAIN table : home2[f] = home[f]
  BY <1>4, <1>9
<1>11. c.level = 1 /\ c.root = n /\ c \in Home
  BY <1>4, <1>7, <1>8, VmmConstants DEF Home
<1>12. Types'
  <2>1. halted' \in BOOLEAN
    BY <1>1, <1>6 DEF Types
  <2>2. \A f \in DOMAIN table' : f < free' /\ f \in Frame \ {0}
    BY <1>1, <1>3, <1>4, <1>5 DEF Types, Frame
  <2>3. free' \in Nat /\ free' <= LastFrame + 1
    BY <1>4
  <2> QED
    BY <1>1, <1>5, <1>6, <2>1, <2>2, <2>3 DEF Types
<1>13. KernelShared'
  <2>1. ImagePage[1] \in Indices /\ ImagePage[1] \in KernelIndices
    BY VmmConstants, PagesAre DEF KernelPages
  <2>2. table'[n][ImagePage[1]] = table[root][ImagePage[1]]
    BY <1>5, <2>1
  <2>3. \A s \in spaces : table'[s] = table[s]
    BY <1>1, <1>5 DEF Types
  <2> QED
    BY <1>1, <1>4, <1>6, <2>2, <2>3 DEF KernelShared
<1>14. Homes(home2)'
  <2>1. home \in [DOMAIN table -> Home] /\ n \notin spaces
    BY <1>1, <1>2, <1>4 DEF Trees, Homes, Types
  <2>2. home2 \in [DOMAIN table' -> Home]
    BY <1>5, <1>9, <1>11, <2>1
  <2>3. spaces \subseteq DOMAIN table
    BY <1>1 DEF Types
  <2> QED
    BY <1>2, <1>5, <1>6, <1>10, <1>11, <2>1, <2>2, <2>3 DEF Trees, Homes
<1>15. home[root].level = 1 /\ home[root].root = root
  BY <1>2, <1>4 DEF Trees, Homes
<1>16. UpperEntries(home2)'
  <2> SUFFICES ASSUME NEW f \in DOMAIN table', NEW i \in Indices, table'[f][i] # Absent, home2[f].level < 4
               PROVE /\ {P, W} \subseteq table'[f][i].flags
                     /\ table'[f][i].frame \in DOMAIN table'
                     /\ Child(home2[f], i, home2[table'[f][i].frame])
                     /\ home2[table'[f][i].frame].root # 0 => U \in table'[f][i].flags
    BY DEF UpperEntries
  <2>1. CASE f \in DOMAIN table
    <3>1. table'[f][i] = table[f][i] /\ home2[f] = home[f]
      BY <1>5, <1>10, <2>1
    <3> QED
      BY <1>2, <1>5, <1>10, <2>1, <3>1 DEF Trees, UpperEntries
  <2>2. CASE f = n
    <3>1. i \in KernelIndices /\ table'[f][i] = table[root][i]
      BY <1>5, <2>2
    <3>2. PICK e, h : e = table[root][i] /\ h = home[e.frame]
      OBVIOUS
    <3>3. /\ {P, W} \subseteq e.flags /\ e.frame \in DOMAIN table /\ Child(home[root], i, h)
      BY <1>2, <1>4, <1>15, <3>1, <3>2 DEF Trees, UpperEntries
    <3>4. Child(c, i, h) /\ h.root = 0
      BY <1>11, <1>15, <3>1, <3>3 DEF Child
    <3> QED
      BY <1>5, <1>10, <2>2, <3>1, <3>2, <3>3, <3>4
  <2> QED
    BY <1>5, <2>1, <2>2
<1>17. \A f \in DOMAIN table' : home2[f].level = 4 =>
         f \in DOMAIN table /\ home2[f] = home[f] /\ table'[f] = table[f]
  BY <1>5, <1>10, <1>11
<1>18. Leaves(home2)'
  <2> SUFFICES ASSUME NEW f \in DOMAIN table, NEW i \in Indices, table[f][i] # Absent, home[f].level = 4
               PROVE  table[f][i].frame \notin DOMAIN table' /\ table[f][i].frame < free'
    BY <1>2, <1>17 DEF Trees, Leaves
  <2>1. table[f][i].frame \notin DOMAIN table /\ table[f][i].frame < n /\ table[f][i].frame \in Nat
    BY <1>1, <1>2, <1>3 DEF Trees, Leaves, Types, Entry, Frame
  <2> QED
    BY <1>4, <1>5, <2>1
<1>19. Unshared(home2)'
  BY <1>2, <1>17 DEF Trees, Unshared
<1>20. Trees(home2)'
  BY <1>14, <1>16, <1>18, <1>19 DEF Trees
<1>21. VInv'
  <2>1. WalkRight(home2)'
    BY <1>6 DEF WalkRight
  <2> QED
    BY <1>12, <1>13, <1>20, <2>1 DEF VInv
<1>22. ASSUME NEW s \in spaces, NEW w \in Page
       PROVE  /\ E1(s, w)' = E1(s, w)
              /\ E1(s, w) # Absent => E2(s, w)' = E2(s, w)
              /\ E1(s, w) # Absent /\ E2(s, w) # Absent => E3(s, w)' = E3(s, w)
              /\ E1(s, w) # Absent /\ E2(s, w) # Absent /\ E3(s, w) # Absent => E4(s, w)' = E4(s, w)
  <2>1. /\ s \in DOMAIN table
        /\ E1(s, w) # Absent => E1(s, w).frame \in DOMAIN table
        /\ E1(s, w) # Absent /\ E2(s, w) # Absent => E2(s, w).frame \in DOMAIN table
        /\ E1(s, w) # Absent /\ E2(s, w) # Absent /\ E3(s, w) # Absent => E3(s, w).frame \in DOMAIN table
    BY <1>1, <1>2, Descent DEF Trees
  <2>2. E1(s, w)' = E1(s, w)
    BY <1>5, <2>1 DEF E1
  <2>3. E1(s, w) # Absent => E2(s, w)' = E2(s, w)
    BY <1>5, <2>1, <2>2 DEF E2
  <2>4. E1(s, w) # Absent /\ E2(s, w) # Absent => E3(s, w)' = E3(s, w)
    BY <1>5, <2>1, <2>3 DEF E3
  <2>5. E1(s, w) # Absent /\ E2(s, w) # Absent /\ E3(s, w) # Absent => E4(s, w)' = E4(s, w)
    BY <1>5, <2>1, <2>4 DEF E4
  <2> QED
    BY <2>2, <2>3, <2>4, <2>5
<1>23. ASSUME NEW s \in spaces, NEW w \in Mapped PROVE Translate(s, w)' = Translate(s, w)
  <2>1. w \in Page
    BY PagesAre
  <2>2. Translate(s, w) = IF E1(s, w) # Absent /\ E2(s, w) # Absent /\ E3(s, w) # Absent
                          THEN E4(s, w) ELSE Absent
    BY <1>1, <1>2, Translation
  <2>3. Translate(s, w)' = IF E1(s, w)' # Absent /\ E2(s, w)' # Absent /\ E3(s, w)' # Absent
                           THEN E4(s, w)' ELSE Absent
    BY <1>6, <1>12, <1>20, TranslationNext
  <2> QED
    BY <1>22, <2>1, <2>2, <2>3
<1>24. ASSUME NEW w \in Mapped
       PROVE  Translate(n, w)' = IF w \in KernelPages THEN Translate(cr3, w) ELSE Absent
  <2>1. w \in Page /\ w[1] \in Indices
    BY PagesAre
  <2>2. Translate(n, w)' = IF E1(n, w)' # Absent /\ E2(n, w)' # Absent /\ E3(n, w)' # Absent
                           THEN E4(n, w)' ELSE Absent
    BY <1>6, <1>12, <1>20, TranslationNext
  <2>3. CASE w \in KernelPages
    <3>1. E1(n, w)' = E1(root, w)
      BY <1>5, <2>1, <2>3, PagesAre DEF E1
    <3>2. E1(n, w)' = E1(root, w)'
      BY <1>4, <1>22, <2>1, <3>1
    <3>3. E2(n, w)' = E2(root, w)' /\ E3(n, w)' = E3(root, w)' /\ E4(n, w)' = E4(root, w)'
      BY <3>2 DEF E2, E3, E4
    <3>4. Translate(root, w)' = IF E1(root, w)' # Absent /\ E2(root, w)' # Absent /\ E3(root, w)' # Absent
                                THEN E4(root, w)' ELSE Absent
      BY <1>4, <1>6, <1>12, <1>20, TranslationNext
    <3> QED
      BY <1>4, <1>23, <2>2, <2>3, <3>2, <3>3, <3>4
  <2>4. CASE w \notin KernelPages
    <3>1. E1(n, w)' = Absent
      BY <1>5, <2>1, <2>4, PagesAre DEF E1, Mapped
    <3> QED
      BY <2>2, <2>4, <3>1
  <2> QED
    BY <2>3, <2>4
<1>25. NewView(n)
  <2>1. n \notin spaces
    BY <1>1, <1>4 DEF Types
  <2> QED
    BY <1>4, <1>6, <1>23, <1>24, <2>1 DEF NewView
<1> QED
  BY <1>3, <1>4, <1>21, <1>25

\* vmm_switch_pml4.
LEMMA SwitchKeeps ==
  ASSUME VInv, NEW root \in spaces, vmm_switch_pml4(root)
  PROVE  VInv' /\ cr3' = root /\ spaces' = spaces
         /\ \A s \in spaces, w \in Mapped : Translate(s, w)' = Translate(s, w)
<1>1. /\ walk = <<>> /\ cr3' = root /\ pml4' = root
      /\ UNCHANGED <<table, free, spaces, walk, heap_end, halted>>
  BY DEF vmm_switch_pml4, SwitchBoth, Idle
<1>2. Types'
  <2>1. Types
    BY DEF VInv
  <2>2. halted' \in BOOLEAN
    BY <1>1, <2>1 DEF Types
  <2> QED
    BY <1>1, <2>1, <2>2 DEF Types
<1>3. KernelShared'
  BY <1>1 DEF VInv, KernelShared
<1>4. PICK home : Trees(home)
  BY DEF VInv
<1>5. Trees(home)' /\ WalkRight(home)'
  BY <1>1, <1>4 DEF Trees, Homes, UpperEntries, Leaves, Unshared, WalkRight
<1>6. \A s \in spaces, w \in Mapped : Translate(s, w)' = Translate(s, w)
  BY <1>1 DEF Translate
<1> QED
  BY <1>1, <1>2, <1>3, <1>5, <1>6 DEF VInv

-----------------------------------------------------------------------------
(* The client *)

\* The locals of _start and elf_load.
RunOK ==
  /\ run \in [at : {"none", "switch", "header", "load", "fill", "stack", "zero", "back", "again", "enter"},
              program : Programs \cup {[entry |-> 0]}, user : Frame, kernel : Frame,
              i : Nat, p : Nat, frame : Frame]
  /\ run.at \in {"switch", "header", "load", "fill"} => run.program \in Programs

IInv == VInv /\ RunOK

\* What a step does to the spaces.
Views ==
  \/ SameView
  \/ \E v \in Mapped, m \in Entry : PageView(v, m)
  \/ \E n \in Frame : NewView(n)
  \/ /\ cr3' \in spaces /\ spaces' = spaces
     /\ \A s \in spaces, w \in Mapped : Translate(s, w)' = Translate(s, w)

\* elf_load asks for pages of the user, with rights of the user.
LEMMA SegmentPage ==
  ASSUME RunOK, Load, run.p < NumPages(Seg)
  PROVE  /\ ProgramPages[PageNumber(Seg, run.p) + 1] \in UserPages
         /\ SegmentFlags \in {{P, U}, {P, U, W}}
<1>1. run.program \in Programs /\ run.i \in DOMAIN run.program.segments /\ run.p \in Nat
  BY DEF RunOK, Load
<1>2. PICK seg : seg = Seg
  OBVIOUS
<1>3. seg \in Segment /\ PageNumber(seg, NumPages(seg)) <= Len(ProgramPages)
  <2>1. run.program.segments \in Seq(Segment)
    BY <1>1, ElfConstants
  <2> QED
    BY <1>1, <1>2, <2>1, ElfConstants DEF Seg
<1>4. PICK q, n, k : q = seg.vaddr \div PAGE /\ n = NumPages(seg) /\ k = run.p
  OBVIOUS
<1>5. q \in Nat
  BY <1>3, <1>4, ElfConstants DEF Segment
<1>6. n \in Int
  BY <1>3, <1>4, ElfConstants DEF Segment, NumPages
<1>7. q + n <= Len(ProgramPages) /\ k < n /\ k \in Nat
  BY <1>1, <1>2, <1>3, <1>4 DEF PageNumber
<1>8. q + k + 1 \in 1..Len(ProgramPages)
  BY <1>5, <1>6, <1>7, ElfConstants
<1>9. ProgramPages[q + k + 1] \in UserPages
  BY <1>8, ElfConstants
<1>10. PageNumber(Seg, run.p) = q + k
  BY <1>2, <1>4 DEF PageNumber
<1> QED
  BY <1>9, <1>10 DEF SegmentFlags

LEMMA MapFrameKeeps ==
  ASSUME VInv, walk = <<>>, NEW v \in UserPages, NEW flags \in {{P, U}, {P, U, W}}, NEW then,
         MapFrame(v, flags, then)
  PROVE  VInv' /\ SameView
<1>1. v \in Mapped /\ flags \in SUBSET {P, W, U} /\ AsAsked(v, flags \cup {P})
  <2>1. v \notin KernelPages
    BY PagesAre
  <2> QED
    BY <2>1 DEF Mapped, AsAsked
<1>2. heap_end' \in 0..Len(HeapPages)
  BY DEF VInv, Types, MapFrame
<1>3. UNCHANGED <<table, pml4, cr3, spaces, halted>>
  BY DEF MapFrame
<1>4. CASE pmm_alloc /\ Call(v, free, flags)
  BY <1>1, <1>2, <1>3, <1>4, CallStarts
<1>5. CASE pmm_alloc_null /\ Call(v, 0, flags)
  BY <1>1, <1>2, <1>3, <1>5, CallStarts
<1> QED
  BY <1>4, <1>5 DEF MapFrame

LEMMA KernelStepKeeps == ASSUME VInv, KernelStep PROVE VInv' /\ Views
<1>1. CASE NewLevel
  BY <1>1, NewLevelKeeps DEF Views
<1>2. CASE OldLevel
  BY <1>2, OldLevelKeeps DEF Views
<1>3. CASE SetEntry
  BY <1>3, SetEntryKeeps DEF Views
<1>4. CASE NewLevelHalt \/ HeapPageHalt
  <2>1. UNCHANGED <<table, free, pml4, cr3, spaces, walk, heap_end>> /\ halted' \in BOOLEAN
    BY <1>4 DEF NewLevelHalt, HeapPageHalt, pmm_alloc_null
  <2> QED
    BY <2>1, FrozenTables DEF Views
<1>5. CASE HeapPage
  <2> PICK v : v = HeapPages[heap_end + 1]
    OBVIOUS
  <2>1. heap_end + 1 \in 1..Len(HeapPages) /\ heap_end' = heap_end + 1
    BY <1>5 DEF HeapPage, VInv, Types
  <2>2. v \in KernelPages
    BY <2>1, VmmConstants DEF KernelPages
  <2>3. v \in Mapped /\ {P, W} \in SUBSET {P, W, U} /\ AsAsked(v, {P, W} \cup {P})
    BY <2>2, PagesAre DEF Mapped, AsAsked
  <2>4. /\ walk = <<>> /\ pmm_alloc /\ Call(v, free, {P, W})
        /\ UNCHANGED <<table, pml4, cr3, spaces, halted>>
    BY <1>5 DEF HeapPage, Idle
  <2>5. heap_end' \in 0..Len(HeapPages)
    BY <2>1
  <2> QED
    BY <2>3, <2>4, <2>5, CallStarts DEF Views
<1> QED
  BY <1>1, <1>2, <1>3, <1>4, <1>5 DEF KernelStep

LEMMA StepIInv == ASSUME IInv, ElfNext PROVE IInv' /\ Views
<1> USE DEF IInv
<1>1. Types /\ walk \in {<<>>} \cup {<<r>> : r \in Walk}
  BY DEF VInv, WalkRight
<1>2. UNCHANGED vars => VInv' /\ Views
  <2> SUFFICES ASSUME UNCHANGED vars PROVE VInv' /\ Views
    OBVIOUS
  <2>1. halted' \in BOOLEAN
    BY <1>1 DEF Types, vars
  <2> QED
    BY <2>1, FrozenTables DEF vars, Views
<1>3. CASE UNCHANGED vars /\ UNCHANGED run
  BY <1>2, <1>3 DEF RunOK
<1>4. ASSUME NEW pr \in Programs, CreateSpace(pr) PROVE IInv' /\ Views
  <2>1. VInv' /\ Views
    BY <1>4, CreateKeeps DEF CreateSpace, Views
  <2>2. free \in Frame /\ cr3 \in Frame
    BY <1>1, <1>4, VmmConstants DEF CreateSpace, vmm_create_user_pml4, pmm_alloc, Types, Frame
  <2>3. run' = [at |-> "switch", program |-> pr, user |-> free, kernel |-> cr3,
                i |-> 1, p |-> 0, frame |-> 0]
    BY <1>4 DEF CreateSpace, NoRun
  <2>4. 0 \in Frame
    BY VmmConstants DEF Frame
  <2>5. RunOK'
    BY <2>2, <2>3, <2>4 DEF RunOK
  <2> QED
    BY <2>1, <2>5
<1>5. CASE NoSpace
  <2>1. UNCHANGED <<table, free, pml4, cr3, spaces, walk, heap_end>> /\ halted' \in BOOLEAN
    BY <1>5 DEF NoSpace, NoUserPml4, pmm_alloc_null
  <2>2. RunOK'
    BY <1>5 DEF NoSpace, RunOK
  <2> QED
    BY <2>1, <2>2, FrozenTables DEF Views
<1>6. CASE SwitchToUser \/ SwitchToKernel \/ SwitchAgain
  <2>1. PICK root \in spaces : vmm_switch_pml4(root)
    BY <1>6 DEF SwitchToUser, SwitchToKernel, SwitchAgain, vmm_switch_pml4
  <2>2. VInv' /\ Views
    BY <2>1, SwitchKeeps DEF Views
  <2>3. RunOK'
    BY <1>6 DEF SwitchToUser, SwitchToKernel, SwitchAgain, Goto, RunOK
  <2> QED
    BY <2>2, <2>3
<1>7. CASE HeaderRefused \/ HeaderAccepted \/ NextSegment \/ Loaded \/ FillPage \/ ZeroStack
           \/ switch_to_user_space
  <2>1. UNCHANGED vars
    BY <1>7 DEF HeaderRefused, HeaderAccepted, NextSegment, Loaded, FillPage, ZeroStack, switch_to_user_space
  <2>2. RunOK'
    <3>1. NoRun \in [at : {"none"}, program : {[entry |-> 0]}, user : Frame, kernel : Frame,
                     i : Nat, p : Nat, frame : Frame]
      BY VmmConstants DEF NoRun, Frame
    <3>2. CASE run' = NoRun
      BY <3>1, <3>2 DEF RunOK
    <3>3. CASE HeaderAccepted \/ ZeroStack
      BY <3>3 DEF HeaderAccepted, ZeroStack, Goto, RunOK
    <3>4. CASE NextSegment \/ FillPage
      <4>1. run.at \in {"load", "fill"} /\ run.i + 1 \in Nat /\ run.p + 1 \in Nat /\ 0 \in Nat
        BY <3>4 DEF NextSegment, FillPage, Load, RunOK
      <4>2. \/ run' = [run EXCEPT !.i = run.i + 1, !.p = 0]
            \/ run' = [run EXCEPT !.at = "load", !.p = run.p + 1]
        BY <3>4 DEF NextSegment, FillPage
      <4> PICK i, p : i = run.i + 1 /\ p = run.p + 1
        OBVIOUS
      <4> QED
        BY <4>1, <4>2 DEF RunOK
    <3>5. CASE run' = [run EXCEPT !.at = "stack"]
      BY <3>5 DEF RunOK
    <3> QED
      BY <1>7, <3>2, <3>3, <3>4, <3>5 DEF HeaderRefused, Loaded, switch_to_user_space
  <2> QED
    BY <1>2, <2>1, <2>2
<1>8. ASSUME NEW v \in UserPages, NEW flags \in {{P, U}, {P, U, W}}, NEW then \in {"fill", "zero"},
             walk = <<>>, MapFrame(v, flags, then), then = "fill" => run.program \in Programs
      PROVE  IInv' /\ Views
  <2>1. VInv' /\ Views
    BY <1>8, MapFrameKeeps DEF Views
  <2>2. RunOK'
    <3>1. \/ free \in Frame /\ run' = [run EXCEPT !.at = then, !.frame = free]
          \/ 0 \in Frame /\ run' = [run EXCEPT !.at = then, !.frame = 0]
      BY <1>1, <1>8, VmmConstants DEF MapFrame, pmm_alloc, Types, Frame
    <3> QED
      BY <1>8, <3>1 DEF RunOK
  <2> QED
    BY <2>1, <2>2
<1>9. CASE MapSegmentPage
  <2>1. Load /\ run.p < NumPages(Seg) /\ walk = <<>> /\ run.at = "load"
        /\ MapFrame(ProgramPages[PageNumber(Seg, run.p) + 1], SegmentFlags, "fill")
    BY <1>9 DEF MapSegmentPage, Load, Idle
  <2> QED
    BY <1>8, <2>1, SegmentPage DEF RunOK
<1>10. CASE MapStack
  BY <1>8, <1>10, ElfConstants DEF MapStack, Idle
<1>11. CASE KernelStep
  <2>1. RunOK'
    BY <1>11 DEF KernelStep, RunOK
  <2> QED
    BY <1>11, <2>1, KernelStepKeeps
<1>12. CASE BetweenPrograms
  <2>1. RunOK'
    BY <1>12 DEF BetweenPrograms, RunOK
  <2>2. ASSUME NEW v \in Mapped, vmm_unmap_page(v) PROVE VInv' /\ Views
    <3>1. Absent \in Entry
      BY VmmConstants DEF Absent, Entry, Frame
    <3> QED
      BY <2>2, <3>1, UnmapKeeps DEF Views
  <2>3. ASSUME NEW root \in spaces, vmm_switch_pml4(root) PROVE VInv' /\ Views
    BY <2>3, SwitchKeeps DEF Views
  <2> QED
    BY <1>12, <2>1, <2>2, <2>3 DEF BetweenPrograms, Mapped
<1> QED
  BY <1>3, <1>4, <1>5, <1>6, <1>7, <1>9, <1>10, <1>11, <1>12 DEF ElfNext, Halted, Stopped

LEMMA InitIInv == ElfInit => IInv
<1> SUFFICES ASSUME ElfInit PROVE IInv
  OBVIOUS
<1>1. VInv
  BY InitVInv DEF ElfInit
<1>2. run = [at |-> "none", program |-> [entry |-> 0], user |-> 0, kernel |-> 0,
             i |-> 1, p |-> 0, frame |-> 0]
  BY DEF ElfInit, NoRun
<1>3. RunOK
  BY <1>2, VmmConstants DEF RunOK, Frame
<1> QED
  BY <1>1, <1>3 DEF IInv

LEMMA StepViews == IInv /\ [ElfNext]_elf_vars => IInv' /\ Views
<1> SUFFICES ASSUME IInv, [ElfNext]_elf_vars PROVE IInv' /\ Views
  OBVIOUS
<1>1. CASE ElfNext
  BY <1>1, StepIInv
<1>2. CASE UNCHANGED elf_vars
  <2>1. UNCHANGED <<table, free, pml4, cr3, spaces, walk, heap_end>> /\ halted' = halted
    BY <1>2 DEF elf_vars, vars
  <2>2. halted' \in BOOLEAN
    BY <2>1 DEF IInv, VInv, Types
  <2>3. VInv' /\ Views
    BY <2>1, <2>2, FrozenTables DEF IInv, Views
  <2>4. RunOK'
    BY <1>2 DEF elf_vars, IInv, RunOK
  <2> QED
    BY <2>3, <2>4 DEF IInv
<1> QED
  BY <1>1, <1>2

LEMMA IInvInvariance == ElfSpec => []IInv
<1>1. IInv /\ [ElfNext]_elf_vars => IInv'
  BY StepViews
<1> QED
  BY InitIInv, <1>1, PTL DEF ElfSpec

-----------------------------------------------------------------------------
(* The theorems *)

(***************************************************************************)
(* Whatever the sizes: however often vmm_map_page, vmm_unmap_page,         *)
(* vmm_create_user_pml4 and vmm_switch_pml4 are called by elf_load, _start *)
(* and heap_expand, every entry that a walk follows leads to a table, no   *)
(* page leads to one, user pages share no frame that pmm_alloc gave out,   *)
(* and vmm_virt_to_phys finds the frame that the CPU finds.                *)
(***************************************************************************)
THEOREM VmmInvariance == ElfSpec => []VmmInv
<1>1. IInv => VmmInv
  BY VInvImplies DEF IInv
<1> QED
  BY IInvInvariance, <1>1, PTL

(***************************************************************************)
(* The rights of a mapped page are those that vmm_map_page was asked for,  *)
(* though ensure_table widens the rights of the tables above it, which the *)
(* spaces share.                                                           *)
(***************************************************************************)
THEOREM VmmRightsAsAsked == ElfSpec => []RightsAsAsked
<1>1. IInv => RightsAsAsked
  BY VInvImplies DEF IInv
<1> QED
  BY IInvInvariance, <1>1, PTL

\* The map of AddressSpaces.tla that the tables stand for.
Map == [s \in spaces |-> [v \in KernelPages \cup UserPages |-> Translate(s, v)]]

LEMMA TranslateInEntry ==
  ASSUME VInv PROVE \A s \in spaces, v \in Mapped : Translate(s, v) \in Entry
<1>1. PICK home : Types /\ Trees(home)
  BY DEF VInv
<1>2. Absent \in Entry
  BY VmmConstants DEF Absent, Entry, Frame
<1> SUFFICES ASSUME NEW s \in spaces, NEW v \in Mapped, Translate(s, v) # Absent
             PROVE  Translate(s, v) \in Entry
  BY <1>2
<1>3. /\ Translate(s, v) = E4(s, v) /\ AsAsked(v, E4(s, v).flags) /\ E4(s, v).frame \in Frame
      /\ HasPageTable(s, v) /\ E3(s, v) # Absent /\ PageTable(s, v) = E3(s, v).frame
  BY <1>1, Translation
<1>4. Translate(s, v) = [frame |-> E4(s, v).frame,
                         flags |-> E1(s, v).flags \cap E2(s, v).flags \cap E3(s, v).flags \cap E4(s, v).flags]
  BY DEF Translate, E1, E2, E3, E4
<1> QED
  BY <1>3, <1>4 DEF Entry, AsAsked

LEMMA InitSpaces == ElfInit => Abstract!Init
<1> SUFFICES ASSUME ElfInit PROVE Abstract!Init
  OBVIOUS
<1>1. VInv /\ spaces = {1} /\ cr3 = 1 /\ 1 \in Frame \ {0}
  BY InitVInv, VmmConstants DEF ElfInit, Init, Frame
<1>2. \A v \in Mapped : Translate(1, v) \in Entry
  BY <1>1, TranslateInEntry
<1>3. ASSUME NEW v \in UserPages PROVE Translate(1, v) = Absent
  <2>1. v[1] \in Indices /\ ImagePage[1] \in KernelIndices /\ v[1] # ImagePage[1]
    BY PagesAre, VmmConstants DEF Mapped, KernelPages
  <2>2. table[1] = BootTable(1)
    BY DEF ElfInit, Init
  <2>3. table[1][v[1]] = Absent
    BY <2>1, <2>2 DEF BootTable, Zeroed
  <2>4. P \notin table[1][v[1]].flags
    BY <2>3 DEF Absent
  <2> QED
    BY <2>4 DEF Translate
<1> QED
  BY <1>1, <1>2, <1>3 DEF Abstract!Init, Abstract!Pages, Mapped, Entry

\* What a step does to the spaces is a step of AddressSpaces, or none.
LEMMA ViewsAreSteps ==
  ASSUME VInv, VInv', Views
  PROVE  [Abstract!Next]_<<Map, cr3>>
<1> DEFINE M == Map
<1>1. /\ DOMAIN M = spaces /\ \A s \in spaces : DOMAIN M[s] = Mapped
      /\ \A s \in spaces, v \in Mapped : M[s][v] = Translate(s, v)
      /\ M' = [s \in spaces' |-> [v \in Mapped |-> Translate(s, v)']]
      /\ Mapped = KernelPages \cup UserPages
  BY DEF Map, Mapped
<1>2. cr3 \in spaces
  BY DEF VInv, Types
<1>3. CASE SameView
  <2>1. M' = M
    BY <1>3 DEF SameView, Map, Mapped
  <2> QED
    BY <1>3, <2>1 DEF SameView
<1>4. ASSUME NEW v \in Mapped, NEW m \in Entry, PageView(v, m) PROVE Abstract!Next
  <2>1. M'[cr3][v] = m
    BY <1>1, <1>2, <1>4 DEF PageView
  <2>2. M' = Abstract!Assigned(v, m)
    BY <1>1, <1>4 DEF PageView, Abstract!Assigned, Map, Mapped
  <2>3. Abstract!Remap(v)
    BY <1>4, <2>1, <2>2 DEF Abstract!Remap, PageView, Map, Entry
  <2> QED
    BY <2>3, <1>1 DEF Abstract!Next, Abstract!Pages
<1>5. ASSUME NEW n \in Frame, NewView(n) PROVE Abstract!Next
  <2>1. Abstract!Create(n)
    BY <1>1, <1>2, <1>5 DEF NewView, Abstract!Create, Abstract!Pages, Map, Mapped
  <2> QED
    BY <2>1, <1>5 DEF Abstract!Next, NewView
<1>6. ASSUME cr3' \in spaces, spaces' = spaces,
             \A s \in spaces, w \in Mapped : Translate(s, w)' = Translate(s, w)
      PROVE  Abstract!Next
  <2>1. M' = M
    BY <1>6 DEF Map, Mapped
  <2>2. cr3' \in Frame \ {0}
    BY <1>6 DEF VInv, Types
  <2>3. Abstract!Switch(cr3')
    BY <1>6, <2>1 DEF Abstract!Switch, Map
  <2> QED
    BY <2>2, <2>3 DEF Abstract!Next
<1> QED
  BY <1>3, <1>4, <1>5, <1>6 DEF Views

(***************************************************************************)
(* The page tables are address spaces: a step of vmm.c changes one page at *)
(* most, of the kernel in every space and of a user in the current one, a  *)
(* new space begins with the kernel's pages, and a switch changes no page. *)
(***************************************************************************)
THEOREM VmmImplementsSpaces == ElfSpec => ImplementsSpaces
<1>1. IInv /\ IInv' /\ [ElfNext]_elf_vars => [Abstract!Next]_<<Map, cr3>>
  BY StepViews, ViewsAreSteps DEF IInv
<1> QED
  BY IInvInvariance, InitSpaces, <1>1, PTL DEF ElfSpec, ImplementsSpaces, Abstract!Spec, Map

-----------------------------------------------------------------------------
(* The bytes of programs *)

\* The page of a program with number n.
PageOf(n) == ProgramPages[n + 1]

\* Segment j of program pr has bytes, or zeros, in page n.
Loads(pr, j, n) ==
  /\ j \in DOMAIN pr.segments /\ pr.segments[j].load
  /\ n \in PageNumber(pr.segments[j], 0)
           ..(PageNumber(pr.segments[j], NumPages(pr.segments[j])) - 1)

\* The pages that elf_load maps for a program, each with the segment it is
\* for, and those among them that it has mapped when it comes to page p of
\* segment i.
AllPages(pr) == {d \in Nat \X Nat : Loads(pr, d[1], d[2])}
Done(pr, i, p) ==
  {d \in AllPages(pr) : d[1] < i \/ (d[1] = i /\ d[2] < PageNumber(pr.segments[i], p))}

\* If page n is still mapped it has the bytes and the rights of segment j.
Holds(s, pr, j, n) ==
  LET m == Translate(s, PageOf(n))
      seg == pr.segments[j]
  IN  m # Absent /\ m.frame # 0 =>
        /\ m.frame \in DOMAIN memory
        /\ memory[m.frame] = Filled(seg, n - PageNumber(seg, 0))
        /\ W \in m.flags <=> seg.w

\* Of the segments that pages were mapped for the last one is whole.
Kept(s, pr, done) ==
  \A d \in done : (\A e \in done : e[2] = d[2] => e[1] <= d[1]) => Holds(s, pr, d[1], d[2])

There(s, done) == \A d \in done : Translate(s, PageOf(d[2])) # Absent

\* vmm_map_page is in the user's half only for elf_load and _start: on its
\* way to page v, or there.
HeapsWalk == walk # <<>> => At.virt \in KernelPages
Mapping(v, flags) ==
  \/ /\ walk # <<>>
     /\ At.virt = v /\ At.phys = run.frame /\ At.flags = flags
  \/ HeapsWalk /\ Translate(run.user, v) = [frame |-> run.frame, flags |-> flags]

\* elf_load's page, while it is being mapped and filled.
ThisPage == PageNumber(Seg, run.p)

Beginning == run.at \in {"switch", "header"}
Finished == run.at \in {"stack", "zero", "back", "again", "enter"}

LoaderAt ==
  /\ run.at # "none" => /\ run.program \in Programs
                        /\ run.user \in spaces /\ run.user \notin DOMAIN running
  /\ run.at \in {"header", "load", "fill", "stack", "zero", "back", "enter"} => cr3 = run.user
  /\ Beginning => run.i = 1 /\ run.p = 0
  /\ run.at = "load" =>
       /\ run.i \in 1..(Len(run.program.segments) + 1)
       /\ There(run.user, Done(run.program, run.i, run.p))
       /\ Kept(run.user, run.program, Done(run.program, run.i, run.p))
  /\ run.at = "fill" =>
       /\ run.i \in DOMAIN run.program.segments /\ Seg.load /\ run.p < NumPages(Seg)
       /\ There(run.user, Done(run.program, run.i, run.p))
       /\ Kept(run.user, run.program,
               {d \in Done(run.program, run.i, run.p) : d[2] # ThisPage})
       /\ Mapping(PageOf(ThisPage), SegmentFlags)
  /\ Finished =>
       /\ There(run.user, AllPages(run.program))
       /\ Kept(run.user, run.program, AllPages(run.program))
  /\ run.at = "zero" => Mapping(StackPage, {P, U, W})
  /\ run.at \notin {"fill", "zero"} => HeapsWalk

RunningKept ==
  \A s \in DOMAIN running :
    s \in spaces /\ running[s] \in Programs /\ Kept(s, running[s], AllPages(running[s]))

BytesInv == LoaderAt /\ RunningKept

-----------------------------------------------------------------------------
(* What elf_load has mapped when *)

LEMMA SegmentsAre ==
  ASSUME NEW pr \in Programs
  PROVE  /\ pr.segments \in Seq(Segment) /\ Len(pr.segments) \in Nat
         /\ DOMAIN pr.segments = 1..Len(pr.segments)
         /\ \A j \in DOMAIN pr.segments : j \in Nat
BY ElfConstants

LEMMA SegmentIs ==
  ASSUME NEW pr \in Programs, NEW j \in DOMAIN pr.segments, NEW seg, seg = pr.segments[j]
  PROVE  /\ seg \in Segment /\ seg.filesz <= seg.memsz
         /\ PageNumber(seg, 0) \in Nat /\ NumPages(seg) \in Int
         /\ \A k \in Int : PageNumber(seg, k) = PageNumber(seg, 0) + k
         /\ PageNumber(seg, 0) + NumPages(seg) <= Len(ProgramPages)
<1>1. seg \in Segment /\ seg.filesz <= seg.memsz /\ PageNumber(seg, NumPages(seg)) <= Len(ProgramPages)
  BY SegmentsAre, ElfConstants
<1>2. seg.vaddr \in Nat /\ seg.memsz \in Nat /\ PAGE \in Nat \ {0}
  BY <1>1, ElfConstants DEF Segment
<1>3. seg.vaddr \div PAGE \in Nat
  BY <1>2
<1>4. NumPages(seg) \in Int
  BY <1>2 DEF NumPages
<1>5. PageNumber(seg, 0) = seg.vaddr \div PAGE
  BY <1>3 DEF PageNumber
<1>6. \A k \in Int : PageNumber(seg, k) = PageNumber(seg, 0) + k
  BY <1>5 DEF PageNumber
<1> QED
  BY <1>1, <1>3, <1>4, <1>5, <1>6

\* A segment's pages are the user's, each has its own number, and none is the
\* stack's.
LEMMA PagesOfPrograms ==
  ASSUME NEW pr \in Programs, NEW j, NEW n, Loads(pr, j, n)
  PROVE  /\ j \in Nat /\ n \in Nat /\ n + 1 \in DOMAIN ProgramPages
         /\ PageOf(n) \in UserPages /\ PageOf(n) # StackPage
         /\ \A m \in Nat : m + 1 \in DOMAIN ProgramPages /\ PageOf(m) = PageOf(n) => m = n
<1> PICK seg, q, k : seg = pr.segments[j] /\ q = PageNumber(seg, 0) /\ k = NumPages(seg)
  OBVIOUS
<1>1. /\ j \in DOMAIN pr.segments /\ q \in Nat /\ k \in Int /\ q + k <= Len(ProgramPages)
      /\ PageNumber(seg, k) = q + k /\ j \in Nat
  BY SegmentsAre, SegmentIs DEF Loads
<1>2. n \in q..(q + k - 1)
  BY <1>1 DEF Loads
<1>3. n \in Nat /\ n + 1 \in 1..Len(ProgramPages)
  BY <1>1, <1>2, ElfConstants
<1>4. n + 1 \in DOMAIN ProgramPages
  BY <1>3, ElfConstants
<1>5. PageOf(n) \in UserPages \ {StackPage}
  BY <1>4, ElfConstants DEF PageOf
<1>6. ASSUME NEW m \in Nat, m + 1 \in DOMAIN ProgramPages, PageOf(m) = PageOf(n) PROVE m = n
  <2>1. m + 1 = n + 1
    BY <1>4, <1>6, ElfConstants DEF PageOf
  <2> QED
    BY <1>3, <2>1
<1> QED
  BY <1>1, <1>3, <1>4, <1>5, <1>6

LEMMA DoneAre ==
  ASSUME NEW pr \in Programs, NEW i, NEW p, NEW d \in Done(pr, i, p)
  PROVE  Loads(pr, d[1], d[2])
BY DEF Done, AllPages

\* elf_load has mapped nothing yet,
LEMMA DoneNone == ASSUME NEW pr \in Programs PROVE Done(pr, 1, 0) = {}
<1> SUFFICES ASSUME NEW d \in Done(pr, 1, 0) PROVE FALSE
  OBVIOUS
<1>1. Loads(pr, d[1], d[2]) /\ (d[1] < 1 \/ (d[1] = 1 /\ d[2] < PageNumber(pr.segments[1], 0)))
  BY DEF Done, AllPages
<1>2. d[1] \in 1..Len(pr.segments) /\ Len(pr.segments) \in Nat
  BY <1>1, SegmentsAre DEF Loads
<1>3. d[1] = 1 /\ d[2] < PageNumber(pr.segments[1], 0)
  BY <1>1, <1>2
<1>4. PageNumber(pr.segments[1], 0) \in Nat /\ NumPages(pr.segments[1]) \in Int
      /\ PageNumber(pr.segments[1], NumPages(pr.segments[1])) \in Int
  BY <1>2, <1>3, SegmentsAre, SegmentIs
<1>5. d[2] \in PageNumber(pr.segments[1], 0)
               ..(PageNumber(pr.segments[1], NumPages(pr.segments[1])) - 1)
  BY <1>1, <1>3 DEF Loads
<1> QED
  BY <1>3, <1>4, <1>5

\* a segment without pages left changes nothing,
LEMMA DoneNextSegment ==
  ASSUME NEW pr \in Programs, NEW i \in DOMAIN pr.segments, NEW p \in Nat,
         ~(pr.segments[i].load /\ p < NumPages(pr.segments[i]))
  PROVE  Done(pr, i + 1, 0) = Done(pr, i, p)
<1> PICK seg, q, k : seg = pr.segments[i] /\ q = PageNumber(seg, 0) /\ k = NumPages(seg)
  OBVIOUS
<1>1. /\ i \in Nat /\ q \in Nat /\ k \in Int /\ PageNumber(seg, p) = q + p
      /\ PageNumber(seg, k) = q + k
  BY SegmentsAre, SegmentIs
<1>2. ASSUME NEW d \in AllPages(pr)
      PROVE  (d[1] < i + 1 \/ (d[1] = i + 1 /\ d[2] < PageNumber(pr.segments[i + 1], 0)))
             <=> (d[1] < i \/ (d[1] = i /\ d[2] < PageNumber(pr.segments[i], p)))
  <2>1. Loads(pr, d[1], d[2]) /\ d[1] \in Nat /\ d[2] \in Nat
    BY DEF AllPages
  <2>2. ~(d[1] = i + 1 /\ d[2] < PageNumber(pr.segments[i + 1], 0))
    <3> SUFFICES ASSUME d[1] = i + 1, d[2] < PageNumber(pr.segments[i + 1], 0) PROVE FALSE
      OBVIOUS
    <3>1. i + 1 \in DOMAIN pr.segments
      BY <2>1 DEF Loads
    <3> PICK q2, e2 : /\ q2 = PageNumber(pr.segments[i + 1], 0)
                      /\ e2 = PageNumber(pr.segments[i + 1], NumPages(pr.segments[i + 1]))
      OBVIOUS
    <3>2. q2 \in Nat /\ e2 \in Int
      BY <3>1, SegmentIs
    <3>3. d[2] \in q2..(e2 - 1)
      BY <2>1 DEF Loads
    <3> QED
      BY <3>2, <3>3
  <2>3. d[1] = i => d[2] < q + p
    <3> SUFFICES ASSUME d[1] = i PROVE d[2] < q + p
      OBVIOUS
    <3>1. seg.load /\ d[2] \in q..(q + k - 1)
      BY <1>1, <2>1 DEF Loads
    <3>2. ~(p < k)
      BY <3>1
    <3> QED
      BY <1>1, <3>1, <3>2
  <2> QED
    BY <1>1, <2>1, <2>2, <2>3
<1> QED
  BY <1>2 DEF Done

\* the next page is added behind all others,
LEMMA DoneNextPage ==
  ASSUME NEW pr \in Programs, NEW i \in DOMAIN pr.segments, NEW p \in Nat,
         pr.segments[i].load, p < NumPages(pr.segments[i]),
         NEW n, n = PageNumber(pr.segments[i], p)
  PROVE  /\ Loads(pr, i, n)
         /\ Done(pr, i, p + 1) = Done(pr, i, p) \cup {<<i, n>>}
         /\ \A d \in Done(pr, i, p) : d[1] <= i
<1> PICK seg, q, k : seg = pr.segments[i] /\ q = PageNumber(seg, 0) /\ k = NumPages(seg)
  OBVIOUS
<1>1. /\ i \in Nat /\ q \in Nat /\ k \in Int /\ n = q + p
      /\ PageNumber(seg, p + 1) = q + (p + 1) /\ PageNumber(seg, k) = q + k
  BY SegmentsAre, SegmentIs
<1>2. Loads(pr, i, n)
  <2>1. n \in q..(q + k - 1)
    BY <1>1
  <2> QED
    BY <1>1, <2>1 DEF Loads
<1>3. <<i, n>> \in AllPages(pr)
  BY <1>1, <1>2 DEF AllPages
<1>4. ASSUME NEW d \in AllPages(pr)
      PROVE  (d[1] < i \/ (d[1] = i /\ d[2] < q + (p + 1)))
             <=> (d[1] < i \/ (d[1] = i /\ d[2] < q + p)) \/ d = <<i, n>>
  <2>1. d[1] \in Nat /\ d[2] \in Nat /\ d = <<d[1], d[2]>>
    BY DEF AllPages
  <2> QED
    BY <1>1, <2>1
<1>5. Done(pr, i, p + 1) = Done(pr, i, p) \cup {<<i, n>>}
  BY <1>1, <1>3, <1>4 DEF Done
<1>6. \A d \in Done(pr, i, p) : d[1] <= i
  BY <1>1 DEF Done, AllPages
<1> QED
  BY <1>2, <1>5, <1>6

\* and behind the last segment it is all done.
LEMMA DoneAll ==
  ASSUME NEW pr \in Programs, NEW i \in 1..(Len(pr.segments) + 1), i \notin DOMAIN pr.segments, NEW p
  PROVE  Done(pr, i, p) = AllPages(pr)
<1>1. Len(pr.segments) \in Nat /\ DOMAIN pr.segments = 1..Len(pr.segments)
  BY SegmentsAre
<1>2. ASSUME NEW d \in AllPages(pr) PROVE d[1] < i
  <2>1. d[1] \in 1..Len(pr.segments)
    BY <1>1 DEF AllPages, Loads
  <2> QED
    BY <1>1, <2>1
<1> QED
  BY <1>2 DEF Done

-----------------------------------------------------------------------------
(* Addresses *)

\* Division and its rest.
LEMMA Quotients ==
  ASSUME NEW a \in Nat, NEW d \in Nat \ {0}
  PROVE  \E n \in Nat, b \in 0..(d - 1) :
           n = a \div d /\ b = a % d /\ a = n * d + b /\ n * d \in Nat
<1>1. PICK n \in Int, b \in 0..(d - 1) : n = a \div d /\ b = a % d /\ a = d * n + b
  OBVIOUS
<1>2. a \div d \in Nat
  OBVIOUS
<1>3. n \in Nat /\ d * n = n * d /\ n * d \in Int
  BY <1>1, <1>2
<1>4. n * d >= 0
  BY <1>3
<1>5. a = n * d + b /\ n * d \in Nat
  BY <1>1, <1>3, <1>4
<1> QED
  BY <1>1, <1>3, <1>5

\* Multiples of the page size are in the order of their page numbers.
LEMMA Multiples ==
  ASSUME NEW m \in Int, NEW n \in Int, NEW d \in Nat \ {0}, m * d < n * d
  PROVE  m < n
<1> SUFFICES ASSUME n <= m PROVE n * d <= m * d
  BY m * d \in Int, n * d \in Int
<1> QED
  OBVIOUS

\* The address a of a segment lies in one of the segment's pages, and the
\* page's buffer has the byte that the segment has there.
LEMMA AddressOfSegment ==
  ASSUME NEW pr \in Programs, NEW j \in DOMAIN pr.segments, NEW seg, seg = pr.segments[j],
         seg.load, NEW a \in seg.vaddr..(seg.vaddr + seg.memsz - 1),
         NEW n, n = a \div PAGE
  PROVE  /\ Loads(pr, j, n)
         /\ Filled(seg, n - PageNumber(seg, 0))[a % PAGE] =
              IF a < seg.vaddr + seg.filesz THEN FileByte(seg.offset + a - seg.vaddr) ELSE 0
<1> PICK v, z, f, o, d :
      v = seg.vaddr /\ z = seg.memsz /\ f = seg.filesz /\ o = seg.offset /\ d = PAGE
  OBVIOUS
<1>1. /\ v \in Nat /\ z \in Nat /\ f \in Nat /\ o \in Nat /\ d \in Nat \ {0} /\ f <= z
      /\ a \in Nat /\ v <= a /\ a < v + z
  <2>1. seg \in Segment /\ f <= z
    BY SegmentIs
  <2>2. v \in Nat /\ z \in Nat /\ f \in Nat /\ o \in Nat
    BY <2>1 DEF Segment
  <2>3. d \in Nat \ {0}
    BY ElfConstants
  <2>4. a \in v..(v + z - 1)
    OBVIOUS
  <2> QED
    BY <2>1, <2>2, <2>3, <2>4
<1>2. PICK b \in 0..(d - 1), m \in Nat : n = m /\ b = a % d /\ a = m * d + b /\ m * d \in Nat
  <2>1. \E m \in Nat, b \in 0..(d - 1) :
           m = a \div d /\ b = a % d /\ a = m * d + b /\ m * d \in Nat
    BY <1>1, Quotients
  <2> QED
    BY <2>1
<1>3. PICK q \in Nat, r \in 0..(d - 1) : q = v \div d /\ r = v % d /\ v = q * d + r /\ q * d \in Nat
  BY <1>1, Quotients
<1>4. PICK up \in Nat : up = z + r + d - 1
  <2>1. d \in Nat /\ d >= 1 /\ r \in Nat /\ z \in Nat
    BY <1>1
  <2> QED
    BY ONLY <2>1
<1>5. PICK k \in Nat, t \in 0..(d - 1) :
        k = up \div d /\ up = k * d + t /\ k * d \in Nat
  BY <1>1, Quotients
<1>6. PageNumber(seg, 0) = q /\ NumPages(seg) = k /\ PageNumber(seg, k) = q + k
      /\ PageNumber(seg, n - q) = n
  <2>1. NumPages(seg) = k
    BY <1>3, <1>4, <1>5 DEF NumPages
  <2>2. \A x : PageNumber(seg, x) = q + x
    BY <1>3 DEF PageNumber
  <2>3. q + 0 = q /\ q + (n - q) = n
    <3>1. n \in Nat
      BY <1>2
    <3> QED
      BY ONLY <3>1, q \in Nat
  <2> QED
    BY <2>1, <2>2, <2>3
<1>7. q <= n
  <2>1. (m + 1) * d = m * d + d /\ q * d < m * d + d
    BY <1>1, <1>2, <1>3
  <2>2. q < m + 1
    BY <1>1, <2>1, Multiples
  <2> QED
    BY <1>2, <2>2
<1>8. n < q + k
  <2>1. (q + k) * d = q * d + k * d
    BY <1>1
  <2>2. m * d < q * d + k * d
    <3>1. z \in Nat /\ d \in Nat /\ d >= 1 /\ v \in Nat /\ a < v + z
      BY <1>1
    <3>2. PICK x \in Nat, y \in Nat, w \in Nat : x = m * d /\ y = q * d /\ w = k * d
      BY <1>2, <1>3, <1>5
    <3>3. a = x + b
      BY <1>2, <3>2
    <3>4. v = y + r
      BY <1>3, <3>2
    <3>5. z + r + d - 1 = w + t
      BY <1>4, <1>5, <3>2
    <3>6. x < y + w
      BY ONLY <3>1, <3>3, <3>4, <3>5, x \in Nat, y \in Nat, w \in Nat, b \in 0..(d - 1),
              r \in 0..(d - 1), t \in 0..(d - 1)
    <3> QED
      BY <3>2, <3>6
  <2>3. m < q + k
    BY <1>1, <2>1, <2>2, Multiples
  <2> QED
    BY <1>2, <2>3
<1>9. Loads(pr, j, n)
  <2>1. n \in q..(q + k - 1)
    BY <1>2, <1>3, <1>7, <1>8
  <2> QED
    BY <1>6, <2>1 DEF Loads
<1>10. PICK page, start, end :
        page = n * d /\ start = Max({page, v}) /\ end = Min({page + d, v + f})
  OBVIOUS
<1>11. /\ start \in Nat /\ (start = page \/ start = v) /\ page <= start /\ v <= start
  <2>1. \E x \in {page, v} : \A y \in {page, v} : x >= y
    BY <1>1, <1>2, <1>10
  <2>2. start \in {page, v} /\ \A y \in {page, v} : start >= y
    BY <1>10, <2>1 DEF Max
  <2> QED
    BY <1>1, <1>2, <1>10, <2>2
<1>12. /\ end \in Nat /\ (end = page + d \/ end = v + f) /\ end <= page + d /\ end <= v + f
  <2>1. page + d \in Nat /\ v + f \in Nat
    BY <1>1, <1>2, <1>10
  <2>2. \E x \in {page + d, v + f} : \A y \in {page + d, v + f} : x <= y
    BY <2>1
  <2>3. end \in {page + d, v + f} /\ \A y \in {page + d, v + f} : end <= y
    BY <1>10, <2>2 DEF Min
  <2> QED
    BY <2>1, <2>3
<1>13. Filled(seg, n - q)[b] =
         IF start <= page + b /\ page + b < end
         THEN FileByte(o + (start - v) + (page + b - start)) ELSE 0
  BY <1>2, <1>6, <1>10 DEF Filled
<1>14. page + b = a /\ start <= a
  BY <1>1, <1>2, <1>10, <1>11
<1>15. a < end <=> a < v + f
  BY <1>1, <1>2, <1>10, <1>12, <1>14
<1>16. o + (start - v) + (page + b - start) = o + a - v
  <2>1. page + b = a /\ a \in Nat /\ page \in Nat /\ b \in Nat /\ start \in Nat /\ v \in Nat /\ o \in Nat
    BY <1>1, <1>2, <1>10, <1>11, <1>14
  <2> QED
    BY ONLY <2>1
<1> QED
  BY <1>2, <1>6, <1>9, <1>13, <1>14, <1>15, <1>16

-----------------------------------------------------------------------------
(* What the invariant of the bytes implies *)

Less == {p \in Nat \X Nat : p[1] < p[2]}

\* A set of numbers that has a bound has a largest.
LEMMA LargestIs ==
  ASSUME NEW n \in Nat, NEW S \in SUBSET (1..n), S # {}
  PROVE  Max(S) \in S /\ \A k \in S : k <= Max(S)
<1>1. IsWellFoundedOn(Less, Nat)
  BY NatLessThanWellFounded DEF OpToRel, Less
<1> DEFINE T == {n - k : k \in S}
<1>2. T \subseteq Nat /\ T # {}
  <2>1. \A k \in 1..n : n - k \in Nat
    OBVIOUS
  <2> QED
    BY <2>1
<1>3. PICK t \in T : \A u \in T : <<u, t>> \notin Less
  BY <1>1, <1>2, WFMin
<1>4. PICK x \in S : t = n - x
  OBVIOUS
<1>5. ASSUME NEW k \in S PROVE x >= k
  <2>1. n - k \in T /\ n - k \in Nat /\ t \in Nat
    BY <1>2, <1>3
  <2>2. ~(n - k < t)
    BY <1>3, <2>1 DEF Less
  <2>3. k \in 1..n /\ x \in 1..n
    OBVIOUS
  <2> QED
    BY <1>4, <2>1, <2>2, <2>3
<1>6. \E y \in S : \A k \in S : y >= k
  BY <1>5
<1>7. Max(S) \in S /\ \A k \in S : Max(S) >= k
  BY <1>6 DEF Max
<1> QED
  BY <1>7

\* No segment behind LastMapper maps the page.
LEMMA LastMapperIs ==
  ASSUME NEW pr \in Programs, NEW n, NEW j, Loads(pr, j, n), LastMapper(pr, n) = j
  PROVE  \A k : Loads(pr, k, n) => k <= j
<1> DEFINE S == {k \in DOMAIN pr.segments : Loads(pr, k, n)}
<1>1. LastMapper(pr, n) = Max(S)
  <2>1. S = {k \in DOMAIN pr.segments :
               LET seg == pr.segments[k] IN
                 seg.load /\ n \in PageNumber(seg, 0)..(PageNumber(seg, NumPages(seg)) - 1)}
    BY DEF Loads
  <2> HIDE DEF S
  <2> QED
    BY <2>1 DEF LastMapper
<1>2. S \in SUBSET (1..Len(pr.segments)) /\ Len(pr.segments) \in Nat /\ S # {}
  BY SegmentsAre DEF Loads
<1>3. \A k \in S : k <= Max(S)
  BY <1>2, LargestIs
<1> QED
  BY <1>1, <1>3 DEF Loads

\* Once elf_load is through, what is kept is what was linked.
LEMMA KeptIsLinked ==
  ASSUME NEW pr \in Programs, NEW s, NEW j \in DOMAIN pr.segments, NEW seg, seg = pr.segments[j],
         seg.load, NEW a \in seg.vaddr..(seg.vaddr + seg.memsz - 1)
  PROVE  /\ There(s, AllPages(pr)) => Translate(s, ProgramPages[a \div PAGE + 1]) # Absent
         /\ Kept(s, pr, AllPages(pr)) /\ LastMapper(pr, a \div PAGE) = j => ByteAsLinked(s, seg, a)
<1> PICK n : n = a \div PAGE
  OBVIOUS
<1>1. /\ Loads(pr, j, n)
      /\ Filled(seg, n - PageNumber(seg, 0))[a % PAGE] =
           IF a < seg.vaddr + seg.filesz THEN FileByte(seg.offset + a - seg.vaddr) ELSE 0
  BY AddressOfSegment
<1>2. <<j, n>> \in AllPages(pr) /\ PageOf(n) = ProgramPages[n + 1]
  BY <1>1, PagesOfPrograms DEF AllPages, PageOf
<1>3. There(s, AllPages(pr)) => Translate(s, ProgramPages[n + 1]) # Absent
  BY <1>2 DEF There
<1>4. ASSUME Kept(s, pr, AllPages(pr)), LastMapper(pr, n) = j PROVE ByteAsLinked(s, seg, a)
  <2>1. \A e \in AllPages(pr) : e[2] = n => e[1] <= j
    BY <1>1, <1>4, LastMapperIs DEF AllPages
  <2>2. Holds(s, pr, j, n)
    BY <1>2, <1>4, <2>1 DEF Kept
  <2> QED
    BY <1>1, <1>2, <2>2 DEF Holds, ByteAsLinked
<1> QED
  BY <1>3, <1>4

\* Hence a running program has its bytes, and so has one about to run.
LEMMA BytesInvImplies == ASSUME BytesInv PROVE SegmentsLoaded
<1>1. ASSUME run.at \in {"stack", "enter"}
      PROVE  \A j \in DOMAIN run.program.segments :
               run.program.segments[j].load =>
                 \A a \in run.program.segments[j].vaddr
                          ..(run.program.segments[j].vaddr + run.program.segments[j].memsz - 1) :
                   /\ Translate(run.user, ProgramPages[a \div PAGE + 1]) # Absent
                   /\ LastMapper(run.program, a \div PAGE) = j
                        => ByteAsLinked(run.user, run.program.segments[j], a)
  <2> PICK pr, s : pr = run.program /\ s = run.user
    OBVIOUS
  <2>1. pr \in Programs /\ There(s, AllPages(pr)) /\ Kept(s, pr, AllPages(pr))
    BY <1>1 DEF BytesInv, LoaderAt, Finished
  <2>2. \A j \in DOMAIN pr.segments :
          pr.segments[j].load =>
            \A a \in pr.segments[j].vaddr..(pr.segments[j].vaddr + pr.segments[j].memsz - 1) :
              /\ Translate(s, ProgramPages[a \div PAGE + 1]) # Absent
              /\ LastMapper(pr, a \div PAGE) = j => ByteAsLinked(s, pr.segments[j], a)
    BY <2>1, KeptIsLinked
  <2> QED
    BY <2>2
<1>2. ASSUME NEW s \in DOMAIN running
      PROVE  \A j \in DOMAIN running[s].segments :
               running[s].segments[j].load =>
                 \A a \in running[s].segments[j].vaddr
                          ..(running[s].segments[j].vaddr + running[s].segments[j].memsz - 1) :
                   LastMapper(running[s], a \div PAGE) = j
                     => ByteAsLinked(s, running[s].segments[j], a)
  <2> PICK pr : pr = running[s]
    OBVIOUS
  <2>1. pr \in Programs /\ Kept(s, pr, AllPages(pr))
    BY DEF BytesInv, RunningKept
  <2>2. \A j \in DOMAIN pr.segments :
          pr.segments[j].load =>
            \A a \in pr.segments[j].vaddr..(pr.segments[j].vaddr + pr.segments[j].memsz - 1) :
              LastMapper(pr, a \div PAGE) = j => ByteAsLinked(s, pr.segments[j], a)
    BY <2>1, KeptIsLinked
  <2> QED
    BY <2>2
<1> QED
  BY <1>1, <1>2 DEF SegmentsLoaded

-----------------------------------------------------------------------------
(* What a step does to the bytes of programs *)

\* Neither the mapping of a page nor its frame changes, or it is unmapped.
LEMMA KeptAfter ==
  ASSUME NEW s, NEW pr, NEW done, Kept(s, pr, done),
         \A d \in done :
           LET m == Translate(s, PageOf(d[2])) IN
             \/ Translate(s, PageOf(d[2]))' = Absent
             \/ /\ Translate(s, PageOf(d[2]))' = m
                /\ m.frame \in DOMAIN memory /\ m # Absent /\ m.frame # 0
                     => m.frame \in DOMAIN memory' /\ memory'[m.frame] = memory[m.frame]
  PROVE  Kept(s, pr, done)'
<1> SUFFICES ASSUME NEW d \in done, Holds(s, pr, d[1], d[2]) PROVE Holds(s, pr, d[1], d[2])'
  BY DEF Kept
<1> QED
  BY DEF Holds

\* The pages of users stay what they are.
UserSame == spaces' = spaces /\ \A s \in spaces, v \in UserPages : Translate(s, v)' = Translate(s, v)

LEMMA SamePagesKept ==
  ASSUME UserSame, memory' = memory, NEW s \in spaces, NEW pr \in Programs,
         NEW done \in SUBSET AllPages(pr)
  PROVE  /\ Kept(s, pr, done) => Kept(s, pr, done)'
         /\ There(s, done) => There(s, done)'
<1>1. \A d \in done : PageOf(d[2]) \in UserPages
  BY PagesOfPrograms DEF AllPages
<1>2. \A d \in done : Translate(s, PageOf(d[2]))' = Translate(s, PageOf(d[2]))
  BY <1>1 DEF UserSame
<1>3. There(s, done) => There(s, done)'
  BY <1>2 DEF There
<1>4. Kept(s, pr, done) => Kept(s, pr, done)'
  BY <1>2, KeptAfter
<1> QED
  BY <1>3, <1>4

LEMMA DoneInAll == \A pr, i, p : Done(pr, i, p) \in SUBSET AllPages(pr)
BY DEF Done

LEMMA RunningStays ==
  ASSUME RunningKept, UserSame, UNCHANGED <<memory, running>>
  PROVE  RunningKept'
<1> SUFFICES ASSUME NEW s \in DOMAIN running
             PROVE  s \in spaces /\ running[s] \in Programs /\ Kept(s, running[s], AllPages(running[s]))'
  BY DEF RunningKept, UserSame
<1> PICK pr : pr = running[s]
  OBVIOUS
<1>1. s \in spaces /\ pr \in Programs /\ Kept(s, pr, AllPages(pr))
  BY DEF RunningKept
<1>2. AllPages(pr) \in SUBSET AllPages(pr)
  OBVIOUS
<1>3. Kept(s, pr, AllPages(pr))'
  BY <1>1, <1>2, SamePagesKept
<1> QED
  BY <1>1, <1>3

\* vmm_map_page goes on, or the heap's call of it ends, and another begins.
SameWalk ==
  \/ HeapsWalk /\ HeapsWalk'
  \/ /\ walk # <<>> /\ walk' # <<>>
     /\ At'.virt = At.virt /\ At'.phys = At.phys /\ At'.flags = At.flags

LEMMA SamePagesStep ==
  ASSUME BytesInv, RunOK, UserSame, cr3' = cr3, SameWalk, UNCHANGED <<run, memory, running>>
  PROVE  BytesInv'
<1>1. RunningKept'
  BY RunningStays DEF BytesInv
<1> PICK pr, u, i, p : pr = run.program /\ u = run.user /\ i = run.i /\ p = run.p
  OBVIOUS
<1>2. ASSUME pr \in Programs, u \in spaces, NEW done \in SUBSET AllPages(pr)
      PROVE  /\ Kept(u, pr, done) => Kept(u, pr, done)'
             /\ There(u, done) => There(u, done)'
  BY <1>2, SamePagesKept
<1>3. ASSUME u \in spaces, NEW v \in UserPages, NEW flags, Mapping(v, flags) PROVE Mapping(v, flags)'
  <2>1. Translate(u, v)' = Translate(u, v)
    BY <1>3 DEF UserSame
  <2>2. ASSUME walk # <<>>, At.virt = v PROVE ~HeapsWalk
    BY <2>2, PagesAre DEF HeapsWalk
  <2>3. ASSUME HeapsWalk PROVE HeapsWalk'
    BY <2>3 DEF SameWalk, HeapsWalk
  <2> QED
    BY <1>3, <2>1, <2>2, <2>3 DEF Mapping, SameWalk
<1>4. HeapsWalk => HeapsWalk'
  BY DEF SameWalk, HeapsWalk
<1>5. run.at \in {"load", "fill"} =>
        Done(pr, i, p) \in SUBSET AllPages(pr)
        /\ {d \in Done(pr, i, p) : d[2] # ThisPage} \in SUBSET AllPages(pr)
  BY DoneInAll
<1>6. run' = run /\ ThisPage' = ThisPage /\ SegmentFlags' = SegmentFlags /\ Seg' = Seg
  BY DEF ThisPage, SegmentFlags, Seg
<1> USE DEF LoaderAt, BytesInv
<1>7. /\ run.at # "none" => pr \in Programs /\ u \in spaces' /\ u \notin DOMAIN running'
      /\ run.at \in {"header", "load", "fill", "stack", "zero", "back", "enter"} => cr3' = u
  BY DEF UserSame
<1>8. run.at = "load" => There(u, Done(pr, i, p))' /\ Kept(u, pr, Done(pr, i, p))'
  BY <1>2, <1>5
<1>9. run.at = "fill" =>
       /\ There(u, Done(pr, i, p))'
       /\ Kept(u, pr, {d \in Done(pr, i, p) : d[2] # ThisPage})'
       /\ Mapping(PageOf(ThisPage), SegmentFlags)'
  <2> SUFFICES ASSUME run.at = "fill"
               PROVE /\ There(u, Done(pr, i, p))'
                     /\ Kept(u, pr, {d \in Done(pr, i, p) : d[2] # ThisPage})'
                     /\ Mapping(PageOf(ThisPage), SegmentFlags)'
    OBVIOUS
  <2> PICK n, v, flags : n = ThisPage /\ v = PageOf(ThisPage) /\ flags = SegmentFlags
    OBVIOUS
  <2>1. n' = ThisPage' /\ v = PageOf(n)
    BY <1>6
  <2>2. There(u, Done(pr, i, p)) /\ Kept(u, pr, {d \in Done(pr, i, p) : d[2] # n})
        /\ Mapping(v, flags)
    OBVIOUS
  <2>3. {d \in Done(pr, i, p) : d[2] # n} \in SUBSET AllPages(pr)
    BY DoneInAll
  <2>4. There(u, Done(pr, i, p))' /\ Kept(u, pr, {d \in Done(pr, i, p) : d[2] # n})'
    BY <1>2, <1>7, <2>2, <2>3, DoneInAll DEF UserSame
  <2>5. v \in UserPages
    <3>1. /\ pr \in Programs /\ i \in DOMAIN pr.segments /\ pr.segments[i].load /\ p \in Nat
          /\ p < NumPages(pr.segments[i]) /\ n = PageNumber(pr.segments[i], p)
      BY DEF Seg, ThisPage, RunOK
    <3>2. Loads(pr, i, n)
      BY <3>1, DoneNextPage
    <3> QED
      BY <3>1, <3>2, PagesOfPrograms
  <2>6. Mapping(v, flags)'
    BY <1>3, <1>7, <2>2, <2>5 DEF UserSame
  <2> QED
    BY <1>6, <2>4, <2>6
<1>10. Finished => There(u, AllPages(pr))' /\ Kept(u, pr, AllPages(pr))'
  BY <1>2, <1>7 DEF Finished, UserSame
<1>11. run.at = "zero" => Mapping(StackPage, {P, U, W})'
  BY <1>3, <1>7, ElfConstants DEF UserSame
<1>12. LoaderAt'
  BY <1>4, <1>6, <1>7, <1>8, <1>9, <1>10, <1>11 DEF Beginning, Finished
<1> QED
  BY <1>1, <1>12

\* What elf_load maps now.
LEMMA ThisPageIs ==
  ASSUME LoaderAt, RunOK, run.at = "fill"
  PROVE  /\ run.program \in Programs /\ run.i \in DOMAIN run.program.segments /\ run.p \in Nat
         /\ Seg = run.program.segments[run.i] /\ Seg.load /\ run.p < NumPages(Seg)
         /\ Loads(run.program, run.i, ThisPage) /\ ThisPage = PageNumber(Seg, run.p)
         /\ PageOf(ThisPage) \in UserPages
<1>1. /\ run.program \in Programs /\ run.i \in DOMAIN run.program.segments /\ run.p \in Nat
      /\ Seg = run.program.segments[run.i] /\ Seg.load /\ run.p < NumPages(Seg)
      /\ ThisPage = PageNumber(Seg, run.p)
  BY DEF LoaderAt, RunOK, Seg, ThisPage
<1>2. Loads(run.program, run.i, ThisPage)
  BY <1>1, DoneNextPage
<1> QED
  BY <1>1, <1>2, PagesOfPrograms

\* vmm_map_page comes to the entry of its page.
LEMMA SetEntryStep ==
  ASSUME BytesInv, VInv, RunOK, SetEntry, UNCHANGED <<run, memory, running>>
  PROVE  BytesInv'
<1> PICK pr, u, i, p, v, e :
      /\ pr = run.program /\ u = run.user /\ i = run.i /\ p = run.p /\ v = At.virt
      /\ e = [frame |-> At.phys, flags |-> At.flags \cup {P}]
  OBVIOUS
<1>1. walk # <<>> /\ walk' = <<>> /\ v \in Mapped /\ PageView(v, e)
  BY SetEntryKeeps DEF SetEntry, Walking
<1>2. CASE v \in KernelPages
  <2>1. v \notin UserPages
    BY <1>2, PagesAre
  <2>2. UserSame
    BY <1>1, <2>1 DEF PageView, UserSame, Mapped
  <2>3. SameWalk
    BY <1>1, <1>2 DEF SameWalk, HeapsWalk
  <2> QED
    BY <1>1, <2>2, <2>3, SamePagesStep DEF PageView
<1>3. CASE v \in UserPages
  <2>1. v \notin KernelPages /\ ~HeapsWalk /\ HeapsWalk'
    BY <1>1, <1>3, PagesAre DEF HeapsWalk
  <2>2. run.at \in {"fill", "zero"} /\ cr3 = u /\ u \in spaces /\ u \notin DOMAIN running
        /\ pr \in Programs
    BY <2>1 DEF BytesInv, LoaderAt
  <2>3. /\ spaces' = spaces /\ cr3' = cr3
        /\ \A s \in spaces, w \in UserPages :
             Translate(s, w)' = IF s = u /\ w = v THEN e ELSE Translate(s, w)
    BY <1>1, <2>1, <2>2 DEF PageView, Mapped
  \* Nothing but page v changes.
  <2>4. ASSUME NEW s \in spaces, NEW pr2 \in Programs, NEW done \in SUBSET AllPages(pr2),
               Kept(s, pr2, done), s = u => \A d \in done : PageOf(d[2]) # v
        PROVE  Kept(s, pr2, done)'
    <3>1. \A d \in done : PageOf(d[2]) \in UserPages
      BY PagesOfPrograms DEF AllPages
    <3>2. \A d \in done : Translate(s, PageOf(d[2]))' = Translate(s, PageOf(d[2]))
      BY <2>3, <2>4, <3>1
    <3> QED
      BY <2>4, <3>2, KeptAfter
  <2>5. ASSUME NEW done \in SUBSET AllPages(pr), There(u, done) PROVE There(u, done)'
    <3>1. \A d \in done : PageOf(d[2]) \in UserPages
      BY <2>2, PagesOfPrograms DEF AllPages
    <3>2. e # Absent
      BY DEF Absent
    <3> QED
      BY <2>2, <2>3, <2>5, <3>1, <3>2 DEF There
  <2>6. RunningKept'
    <3> SUFFICES ASSUME NEW s \in DOMAIN running
                 PROVE  s \in spaces /\ running[s] \in Programs /\ Kept(s, running[s], AllPages(running[s]))'
      BY <2>3 DEF RunningKept
    <3> PICK pr2 : pr2 = running[s]
      OBVIOUS
    <3>1. s \in spaces /\ pr2 \in Programs /\ Kept(s, pr2, AllPages(pr2)) /\ s # u
      BY <2>2 DEF BytesInv, RunningKept
    <3>2. Kept(s, pr2, AllPages(pr2))'
      BY <2>4, <3>1
    <3> QED
      BY <3>1, <3>2
  <2>7. ASSUME NEW flags, P \in flags, Mapping(v, flags) PROVE Mapping(v, flags)'
    <3>1. At.phys = run.frame /\ At.flags = flags
      BY <2>1, <2>7 DEF Mapping
    <3>2. e = [frame |-> run.frame, flags |-> flags]
      BY <2>7, <3>1
    <3>3. Translate(u, v)' = [frame |-> run.frame, flags |-> flags]
      BY <1>3, <2>2, <2>3, <3>2
    <3> QED
      BY <2>1, <3>3 DEF Mapping
  <2>8. ASSUME NEW w, NEW flags, Mapping(w, flags) PROVE w = v
    BY <2>1, <2>8 DEF Mapping
  <2>9. run' = run /\ ThisPage' = ThisPage /\ SegmentFlags' = SegmentFlags /\ Seg' = Seg
    BY DEF ThisPage, SegmentFlags, Seg
  <2>10. CASE run.at = "fill"
    <3> PICK n, flags : n = ThisPage /\ flags = SegmentFlags
      OBVIOUS
    <3>1. /\ There(u, Done(pr, i, p)) /\ Kept(u, pr, {d \in Done(pr, i, p) : d[2] # n})
          /\ Mapping(PageOf(n), flags)
      BY <2>10 DEF BytesInv, LoaderAt
    <3>2. PageOf(n) = v /\ Loads(pr, i, n)
      BY <2>8, <2>10, <3>1, ThisPageIs DEF BytesInv
    <3>3. P \in flags
      BY DEF SegmentFlags
    <3>4. \A d \in Done(pr, i, p) : d[2] # n => PageOf(d[2]) # v
      <4> SUFFICES ASSUME NEW d \in Done(pr, i, p), PageOf(d[2]) = v PROVE d[2] = n
        OBVIOUS
      <4>1. Loads(pr, d[1], d[2])
        BY <2>2, DoneAre
      <4>2. d[2] \in Nat /\ d[2] + 1 \in DOMAIN ProgramPages
        BY <2>2, <4>1, PagesOfPrograms
      <4> QED
        BY <2>2, <3>2, <4>2, PagesOfPrograms
    <3>5. {d \in Done(pr, i, p) : d[2] # n} \in SUBSET AllPages(pr)
      BY DoneInAll
    <3>6. There(u, Done(pr, i, p))' /\ Kept(u, pr, {d \in Done(pr, i, p) : d[2] # n})'
      BY <2>2, <2>4, <2>5, <3>1, <3>4, <3>5, DoneInAll
    <3>7. Mapping(PageOf(n), flags)'
      BY <2>7, <3>1, <3>2, <3>3
    <3>8. LoaderAt'
      BY <2>2, <2>3, <2>9, <2>10, <3>6, <3>7 DEF LoaderAt, BytesInv, Beginning, Finished
    <3> QED
      BY <2>6, <3>8 DEF BytesInv
  <2>11. CASE run.at = "zero"
    <3>1. /\ There(u, AllPages(pr)) /\ Kept(u, pr, AllPages(pr)) /\ Mapping(StackPage, {P, U, W})
      BY <2>11 DEF BytesInv, LoaderAt, Finished
    <3>2. StackPage = v
      BY <2>8, <3>1
    <3>3. \A d \in AllPages(pr) : PageOf(d[2]) # v
      BY <2>2, <3>2, PagesOfPrograms DEF AllPages
    <3>4. There(u, AllPages(pr))' /\ Kept(u, pr, AllPages(pr))'
      BY <2>2, <2>4, <2>5, <3>1, <3>3
    <3>5. Mapping(StackPage, {P, U, W})'
      BY <2>7, <3>1, <3>2
    <3>6. LoaderAt'
      BY <2>2, <2>3, <2>9, <2>11, <3>4, <3>5 DEF LoaderAt, BytesInv, Beginning, Finished
    <3> QED
      BY <2>6, <3>6 DEF BytesInv
  <2> QED
    BY <2>2, <2>10, <2>11
<1> QED
  BY <1>1, <1>2, <1>3 DEF Mapped

LEMMA UserSameOf ==
  ASSUME spaces' = spaces, \A s \in spaces, w \in Mapped : Translate(s, w)' = Translate(s, w)
  PROVE  UserSame
BY DEF UserSame, Mapped

\* One level down it is still the same page.
LEMMA DescendSame ==
  ASSUME VInv, Walking, NEW f, Descend(f)
  PROVE  SameWalk
<1>1. PICK r \in Walk : walk = <<r>>
  BY DEF VInv, WalkRight, Walking
<1>2. At = r
  BY <1>1 DEF At
<1>3. PICK r2 : r2 = [r EXCEPT !.level = @ + 1, !.table = f]
  OBVIOUS
<1>4. walk' = <<r2>> /\ r2.virt = r.virt /\ r2.phys = r.phys /\ r2.flags = r.flags
  BY <1>2, <1>3 DEF Descend, Walk
<1>5. At' = r2
  BY <1>4 DEF At
<1> QED
  BY <1>1, <1>2, <1>4, <1>5 DEF SameWalk

LEMMA HaltedSame ==
  ASSUME BytesInv, RunOK, UNCHANGED <<table, spaces, cr3, walk, run, memory, running>>
  PROVE  BytesInv'
<1>1. UserSame
  BY DEF UserSame, Translate
<1>2. SameWalk
  BY DEF SameWalk, HeapsWalk, At
<1> QED
  BY <1>1, <1>2, SamePagesStep

\* vmm_map_page, and the heap, while a program is loaded.
LEMMA KernelStepBytes ==
  ASSUME BytesInv, VInv, RunOK, KernelStep
  PROVE  BytesInv'
<1>1. UNCHANGED <<run, memory, running>>
  BY DEF KernelStep
<1>2. CASE NewLevel
  <2>1. UserSame /\ cr3' = cr3
    BY <1>2, NewLevelKeeps, UserSameOf DEF SameView
  <2>2. SameWalk
    BY <1>2, DescendSame DEF NewLevel
  <2> QED
    BY <1>1, <2>1, <2>2, SamePagesStep
<1>3. CASE OldLevel
  <2>1. UserSame /\ cr3' = cr3
    BY <1>3, OldLevelKeeps, UserSameOf DEF SameView
  <2>2. SameWalk
    BY <1>3, DescendSame DEF OldLevel
  <2> QED
    BY <1>1, <2>1, <2>2, SamePagesStep
<1>4. CASE SetEntry
  BY <1>1, <1>4, SetEntryStep
<1>5. CASE NewLevelHalt \/ HeapPageHalt
  <2>1. UNCHANGED <<table, spaces, cr3, walk>>
    BY <1>5 DEF NewLevelHalt, HeapPageHalt
  <2> QED
    BY <1>1, <2>1, HaltedSame
<1>6. CASE HeapPage
  <2>1. UNCHANGED <<table, spaces, cr3>> /\ walk = <<>>
    BY <1>6 DEF HeapPage, Idle
  <2>2. UserSame
    BY <2>1 DEF UserSame, Translate
  <2>3. HeapPages[heap_end + 1] \in KernelPages
    BY <1>6, VmmConstants DEF HeapPage, VInv, Types, KernelPages
  <2>4. At'.virt = HeapPages[heap_end + 1]
    BY <1>6 DEF HeapPage, Call, At
  <2>5. SameWalk
    BY <2>1, <2>3, <2>4 DEF SameWalk, HeapsWalk
  <2> QED
    BY <1>1, <2>1, <2>2, <2>5, SamePagesStep
<1> QED
  BY <1>2, <1>3, <1>4, <1>5, <1>6 DEF KernelStep

\* Between two programs only those that run have pages to keep.
LEMMA OnlyRunning ==
  ASSUME RunningKept', run'.at = "none", walk' = <<>>
  PROVE  BytesInv'
BY DEF BytesInv, LoaderAt, HeapsWalk, Beginning, Finished

LEMMA BetweenProgramsBytes ==
  ASSUME BytesInv, VInv, RunOK, BetweenPrograms
  PROVE  BytesInv'
<1>1. UNCHANGED <<run, memory, running>> /\ run'.at = "none"
  BY DEF BetweenPrograms
<1>2. ASSUME NEW v \in Mapped, vmm_unmap_page(v) PROVE BytesInv'
  <2>1. PageView(v, Absent) /\ walk' = <<>>
    BY <1>2, UnmapKeeps DEF vmm_unmap_page, Idle
  <2>2. ASSUME NEW s \in DOMAIN running
        PROVE  s \in spaces /\ running[s] \in Programs /\ Kept(s, running[s], AllPages(running[s]))'
    <3> PICK pr : pr = running[s]
      OBVIOUS
    <3>1. s \in spaces /\ pr \in Programs /\ Kept(s, pr, AllPages(pr))
      BY DEF BytesInv, RunningKept
    <3>2. \A d \in AllPages(pr) : PageOf(d[2]) \in Mapped
      BY <3>1, PagesOfPrograms DEF AllPages, Mapped
    <3>3. \A d \in AllPages(pr) : \/ Translate(s, PageOf(d[2]))' = Absent
                                  \/ Translate(s, PageOf(d[2]))' = Translate(s, PageOf(d[2]))
      BY <2>1, <3>1, <3>2 DEF PageView
    <3>4. Kept(s, pr, AllPages(pr))'
      BY <1>1, <3>1, <3>3, KeptAfter
    <3> QED
      BY <1>1, <3>1, <3>4
  <2>3. RunningKept'
    BY <1>1, <2>1, <2>2 DEF RunningKept, PageView
  <2> QED
    BY <1>1, <2>1, <2>3, OnlyRunning
<1>3. ASSUME NEW root \in spaces, vmm_switch_pml4(root) PROVE BytesInv'
  <2>1. UserSame /\ walk' = <<>>
    BY <1>3, SwitchKeeps, UserSameOf DEF vmm_switch_pml4, Idle
  <2>2. RunningKept'
    BY <1>1, <2>1, RunningStays DEF BytesInv
  <2> QED
    BY <1>1, <2>1, <2>2, OnlyRunning
<1> QED
  BY <1>2, <1>3 DEF BetweenPrograms, Mapped

-----------------------------------------------------------------------------
(* What the steps of the loader do to the bytes of programs *)

\* vmm_create_user_pml4: the new space is no running program's.
LEMMA CreateSpaceBytes ==
  ASSUME BytesInv, VInv, NEW pr \in Programs, CreateSpace(pr)
  PROVE  BytesInv'
<1>1. /\ free \in Frame /\ NewView(free) /\ walk' = <<>> /\ UNCHANGED <<memory, running>>
      /\ run' = [at |-> "switch", program |-> pr, user |-> free, kernel |-> cr3,
                 i |-> 1, p |-> 0, frame |-> 0]
  BY CreateKeeps DEF CreateSpace, vmm_create_user_pml4, Idle, NoRun
<1>2. ASSUME NEW s \in DOMAIN running
      PROVE  s \in spaces /\ running[s] \in Programs /\ Kept(s, running[s], AllPages(running[s]))'
  <2> PICK pr2 : pr2 = running[s]
    OBVIOUS
  <2>1. s \in spaces /\ pr2 \in Programs /\ Kept(s, pr2, AllPages(pr2))
    BY DEF BytesInv, RunningKept
  <2>2. \A d \in AllPages(pr2) : PageOf(d[2]) \in Mapped
    BY <2>1, PagesOfPrograms DEF AllPages, Mapped
  <2>3. \A d \in AllPages(pr2) : Translate(s, PageOf(d[2]))' = Translate(s, PageOf(d[2]))
    BY <1>1, <2>1, <2>2 DEF NewView
  <2>4. Kept(s, pr2, AllPages(pr2))'
    BY <1>1, <2>1, <2>3, KeptAfter
  <2> QED
    BY <1>1, <2>1, <2>4
<1>3. RunningKept'
  BY <1>1, <1>2 DEF RunningKept, NewView
<1>4. free \in spaces' /\ free \notin DOMAIN running'
  BY <1>1 DEF NewView, BytesInv, RunningKept
<1>5. LoaderAt'
  BY <1>1, <1>4 DEF LoaderAt, HeapsWalk, Beginning, Finished
<1> QED
  BY <1>3, <1>5 DEF BytesInv

\* vmm_switch_pml4, to the new space, back, and there again.
LEMMA SwitchBytes ==
  ASSUME BytesInv, VInv, RunOK, SwitchToUser \/ SwitchToKernel \/ SwitchAgain
  PROVE  BytesInv'
<1>1. PICK root \in spaces : vmm_switch_pml4(root)
                             /\ (SwitchToUser \/ SwitchAgain => root = run.user)
  BY DEF SwitchToUser, SwitchToKernel, SwitchAgain, vmm_switch_pml4
<1>2. cr3' = root /\ UserSame /\ walk' = <<>> /\ UNCHANGED <<memory, running>>
  BY <1>1, SwitchKeeps, UserSameOf
     DEF SwitchToUser, SwitchToKernel, SwitchAgain, vmm_switch_pml4, Idle
<1>3. RunningKept'
  BY <1>2, RunningStays DEF BytesInv
<1> PICK pr, u : pr = run.program /\ u = run.user
  OBVIOUS
<1>4. pr \in Programs /\ u \in spaces' /\ u \notin DOMAIN running'
  BY <1>2 DEF BytesInv, LoaderAt, SwitchToUser, SwitchToKernel, SwitchAgain, UserSame
<1>5. PICK at2 : run' = [run EXCEPT !.at = at2]
                 /\ \/ SwitchToUser /\ at2 = "header"
                    \/ SwitchToKernel /\ at2 = "again"
                    \/ SwitchAgain /\ at2 = "enter"
  BY DEF SwitchToUser, SwitchToKernel, SwitchAgain, Goto
<1>6. /\ run'.at = at2 /\ run'.program = pr /\ run'.user = u
      /\ run'.i = run.i /\ run'.p = run.p
  BY <1>5 DEF RunOK
<1>7. CASE SwitchToUser
  <2>1. at2 = "header" /\ run'.i = 1 /\ run'.p = 0
    BY <1>5, <1>6, <1>7 DEF SwitchToUser, SwitchToKernel, SwitchAgain, BytesInv, LoaderAt, Beginning
  <2>2. cr3' = u
    BY <1>1, <1>2, <1>7
  <2>3. LoaderAt'
    BY <1>2, <1>4, <1>6, <2>1, <2>2 DEF LoaderAt, HeapsWalk, Beginning, Finished
  <2> QED
    BY <1>3, <2>3 DEF BytesInv
<1>8. CASE SwitchToKernel \/ SwitchAgain
  <2>1. There(u, AllPages(pr)) /\ Kept(u, pr, AllPages(pr)) /\ u \in spaces
    BY <1>8 DEF BytesInv, LoaderAt, Finished, SwitchToKernel, SwitchAgain
  <2>2. There(u, AllPages(pr))' /\ Kept(u, pr, AllPages(pr))'
    BY <1>2, <1>4, <2>1, SamePagesKept
  <2>3. at2 \in {"again", "enter"} /\ (at2 = "enter" => cr3' = u)
    BY <1>1, <1>2, <1>5, <1>8 DEF SwitchToUser, SwitchToKernel, SwitchAgain
  <2>4. LoaderAt'
    BY <1>2, <1>4, <1>6, <2>2, <2>3 DEF LoaderAt, HeapsWalk, Beginning, Finished
  <2> QED
    BY <1>3, <2>4 DEF BytesInv
<1> QED
  BY <1>7, <1>8

\* elf_load goes on without a page to map, or returns, or fails.
LEMMA LoaderGoesOn ==
  ASSUME BytesInv, VInv, RunOK, HeaderRefused \/ HeaderAccepted \/ NextSegment \/ Loaded
  PROVE  BytesInv'
<1>1. UNCHANGED <<vars, memory, running>>
  BY DEF HeaderRefused, HeaderAccepted, NextSegment, Loaded
<1>2. UserSame /\ cr3' = cr3 /\ walk' = walk
  BY <1>1 DEF UserSame, Translate, vars
<1>3. RunningKept'
  BY <1>1, <1>2, RunningStays DEF BytesInv
<1>4. HeapsWalk' /\ run.at \in {"header", "load"}
  BY <1>2 DEF BytesInv, LoaderAt, HeapsWalk, At, HeaderRefused, HeaderAccepted, NextSegment, Load, Loaded
<1> PICK pr, u, i, p : pr = run.program /\ u = run.user /\ i = run.i /\ p = run.p
  OBVIOUS
<1>5. /\ pr \in Programs /\ u \in spaces /\ cr3 = u /\ u \in spaces' /\ u \notin DOMAIN running'
  BY <1>1, <1>2, <1>4 DEF BytesInv, LoaderAt, UserSame
<1>6. ASSUME run' = NoRun PROVE BytesInv'
  BY <1>3, <1>4, <1>6 DEF BytesInv, LoaderAt, Beginning, Finished, NoRun
<1>7. CASE HeaderAccepted
  <2>1. /\ run'.at = "load" /\ run'.program = pr /\ run'.user = u /\ run'.i = i /\ run'.p = p
        /\ i = 1 /\ p = 0
    BY <1>7 DEF HeaderAccepted, Goto, RunOK, BytesInv, LoaderAt, Beginning
  <2>2. Done(pr, i, p) = {} /\ i \in 1..(Len(pr.segments) + 1)
    BY <1>5, <2>1, DoneNone, SegmentsAre
  <2>3. There(u, Done(pr, i, p))' /\ Kept(u, pr, Done(pr, i, p))'
    BY <2>2 DEF There, Kept
  <2>4. LoaderAt'
    BY <1>2, <1>4, <1>5, <2>1, <2>2, <2>3 DEF LoaderAt, Beginning, Finished
  <2> QED
    BY <1>3, <2>4 DEF BytesInv
<1>8. CASE NextSegment
  <2>1. /\ i \in DOMAIN pr.segments /\ p \in Nat /\ run.at = "load"
        /\ ~(pr.segments[i].load /\ p < NumPages(pr.segments[i]))
    BY <1>8 DEF NextSegment, Load, Seg, RunOK
  <2>2. /\ There(u, Done(pr, i, p)) /\ Kept(u, pr, Done(pr, i, p))
    BY <2>1 DEF BytesInv, LoaderAt
  <2>3. Done(pr, i + 1, 0) = Done(pr, i, p) /\ Done(pr, i, p) \in SUBSET AllPages(pr)
    BY <1>5, <2>1, DoneNextSegment, DoneInAll
  <2>4. There(u, Done(pr, i, p))' /\ Kept(u, pr, Done(pr, i, p))'
    BY <1>1, <1>2, <1>5, <2>2, <2>3, SamePagesKept
  <2>5. i + 1 \in 1..(Len(pr.segments) + 1) /\ i \in Nat
    BY <1>5, <2>1, SegmentsAre
  <2>6. /\ run'.at = "load" /\ run'.program = pr /\ run'.user = u /\ run'.i = i + 1 /\ run'.p = 0
    BY <1>8, <2>1 DEF NextSegment, RunOK
  <2>7. LoaderAt'
    BY <1>2, <1>4, <1>5, <2>3, <2>4, <2>5, <2>6 DEF LoaderAt, Beginning, Finished
  <2> QED
    BY <1>3, <2>7 DEF BytesInv
<1>9. CASE Loaded /\ run' = [run EXCEPT !.at = "stack"]
  <2>1. run.at = "load" /\ i \notin DOMAIN pr.segments
    BY <1>9 DEF Loaded
  <2>2. /\ There(u, Done(pr, i, p)) /\ Kept(u, pr, Done(pr, i, p)) /\ i \in 1..(Len(pr.segments) + 1)
    BY <2>1 DEF BytesInv, LoaderAt
  <2>3. Done(pr, i, p) = AllPages(pr)
    BY <1>5, <2>1, <2>2, DoneAll
  <2>4. There(u, AllPages(pr))' /\ Kept(u, pr, AllPages(pr))'
    BY <1>1, <1>2, <1>5, <2>2, <2>3, SamePagesKept
  <2>5. /\ run'.at = "stack" /\ run'.program = pr /\ run'.user = u
    BY <1>9 DEF RunOK
  <2>6. LoaderAt'
    BY <1>2, <1>4, <1>5, <2>4, <2>5 DEF LoaderAt, Beginning, Finished
  <2> QED
    BY <1>3, <2>6 DEF BytesInv
<1> QED
  BY <1>6, <1>7, <1>8, <1>9 DEF HeaderRefused, Loaded

\* pmm_alloc and the call of vmm_map_page: nothing is mapped yet.
LEMMA MapFrameBytes ==
  ASSUME BytesInv, VInv, RunOK, NEW v \in UserPages, NEW flags \in {{P, U}, {P, U, W}},
         NEW then \in {"fill", "zero"}, walk = <<>>, MapFrame(v, flags, then)
  PROVE  /\ UserSame /\ cr3' = cr3 /\ RunningKept' /\ UNCHANGED <<memory, running>>
         /\ run'.at = then /\ run'.program = run.program /\ run'.user = run.user
         /\ run'.i = run.i /\ run'.p = run.p
         /\ Mapping(v, flags)'
<1>1. UserSame /\ cr3' = cr3
  BY MapFrameKeeps, UserSameOf DEF SameView
<1>2. UNCHANGED <<memory, running>>
  BY DEF MapFrame
<1>3. RunningKept'
  BY <1>1, <1>2, RunningStays DEF BytesInv
<1>4. PICK f : Call(v, f, flags) /\ run' = [run EXCEPT !.at = then, !.frame = f]
  BY DEF MapFrame
<1>5. /\ run'.at = then /\ run'.program = run.program /\ run'.user = run.user
      /\ run'.i = run.i /\ run'.p = run.p /\ run'.frame = f
  BY <1>4 DEF RunOK
<1>6. Mapping(v, flags)'
  <2> PICK r : r = [virt |-> v, phys |-> f, flags |-> flags, level |-> 1, table |-> pml4]
    OBVIOUS
  <2>1. walk' = <<r>> /\ r.virt = v /\ r.phys = f /\ r.flags = flags
    BY <1>4 DEF Call
  <2>2. At' = r
    BY <2>1 DEF At
  <2> QED
    BY <1>5, <2>1, <2>2 DEF Mapping
<1> QED
  BY <1>1, <1>2, <1>3, <1>5, <1>6

LEMMA MapSegmentPageBytes ==
  ASSUME BytesInv, VInv, RunOK, MapSegmentPage
  PROVE  BytesInv'
<1> PICK pr, u, i, p, n, flags :
      /\ pr = run.program /\ u = run.user /\ i = run.i /\ p = run.p
      /\ n = PageNumber(Seg, run.p) /\ flags = SegmentFlags
  OBVIOUS
<1>1. /\ run.at = "load" /\ walk = <<>> /\ i \in DOMAIN pr.segments /\ p \in Nat
      /\ Seg = pr.segments[i] /\ Seg.load /\ p < NumPages(Seg) /\ Load
      /\ MapFrame(PageOf(n), flags, "fill")
  BY DEF MapSegmentPage, Load, Idle, Seg, PageOf, RunOK
<1>2. PageOf(n) \in UserPages /\ flags \in {{P, U}, {P, U, W}}
  BY <1>1, SegmentPage DEF PageOf
<1>3. /\ UserSame /\ cr3' = cr3 /\ RunningKept' /\ UNCHANGED <<memory, running>>
      /\ run'.at = "fill" /\ run'.program = pr /\ run'.user = u /\ run'.i = i /\ run'.p = p
      /\ Mapping(PageOf(n), flags)'
  BY <1>1, <1>2, MapFrameBytes
<1>4. /\ pr \in Programs /\ u \in spaces /\ cr3 = u /\ u \notin DOMAIN running
      /\ There(u, Done(pr, i, p)) /\ Kept(u, pr, Done(pr, i, p))
  BY <1>1 DEF BytesInv, LoaderAt
<1>5. Kept(u, pr, {d \in Done(pr, i, p) : d[2] # n})
  BY <1>4 DEF Kept
<1>6. Done(pr, i, p) \in SUBSET AllPages(pr)
      /\ {d \in Done(pr, i, p) : d[2] # n} \in SUBSET AllPages(pr)
  BY DoneInAll
<1>7. There(u, Done(pr, i, p))' /\ Kept(u, pr, {d \in Done(pr, i, p) : d[2] # n})'
  BY <1>3, <1>4, <1>5, <1>6, SamePagesKept
<1>8. Seg' = Seg /\ ThisPage' = n /\ SegmentFlags' = flags
  BY <1>1, <1>3 DEF Seg, ThisPage, SegmentFlags
<1>9. u \in spaces' /\ u \notin DOMAIN running'
  BY <1>3, <1>4 DEF UserSame
<1>10. LoaderAt'
  BY <1>1, <1>3, <1>4, <1>7, <1>8, <1>9 DEF LoaderAt, Beginning, Finished
<1> QED
  BY <1>3, <1>10 DEF BytesInv

LEMMA MapStackBytes ==
  ASSUME BytesInv, VInv, RunOK, MapStack
  PROVE  BytesInv'
<1> PICK pr, u : pr = run.program /\ u = run.user
  OBVIOUS
<1>1. run.at = "stack" /\ walk = <<>> /\ MapFrame(StackPage, {P, U, W}, "zero")
  BY DEF MapStack, Idle
<1>2. /\ UserSame /\ cr3' = cr3 /\ RunningKept' /\ UNCHANGED <<memory, running>>
      /\ run'.at = "zero" /\ run'.program = pr /\ run'.user = u
      /\ Mapping(StackPage, {P, U, W})'
  BY <1>1, ElfConstants, MapFrameBytes
<1>3. /\ pr \in Programs /\ u \in spaces /\ cr3 = u /\ u \notin DOMAIN running
      /\ There(u, AllPages(pr)) /\ Kept(u, pr, AllPages(pr))
  BY <1>1 DEF BytesInv, LoaderAt, Finished
<1>4. There(u, AllPages(pr))' /\ Kept(u, pr, AllPages(pr))'
  BY <1>2, <1>3, SamePagesKept
<1>5. u \in spaces' /\ u \notin DOMAIN running'
  BY <1>2, <1>3 DEF UserSame
<1>6. LoaderAt'
  BY <1>2, <1>3, <1>4, <1>5 DEF LoaderAt, Beginning, Finished
<1> QED
  BY <1>2, <1>6 DEF BytesInv

\* What elf_load and _start write into a page that they have mapped reaches
\* no other page of a user, as user pages share no frame but 0.
LEMMA WriteKeeps ==
  ASSUME VInv, NEW u \in spaces, NEW v \in UserPages, NEW f, NEW flags, P \in flags,
         Translate(u, v) = [frame |-> f, flags |-> flags],
         NEW x, Write(f, x), UNCHANGED vars,
         NEW s \in spaces, NEW pr \in Programs, NEW done \in SUBSET AllPages(pr),
         Kept(s, pr, done), s = u => \A d \in done : PageOf(d[2]) # v
  PROVE  Kept(s, pr, done)'
<1>1. \A g \in DOMAIN memory : g # f => g \in DOMAIN memory' /\ memory'[g] = memory[g]
  BY DEF Write
<1>2. Translate(u, v) # Absent /\ Translate(u, v).frame = f
  BY DEF Absent
<1>3. UserFramesUnshared
  BY VInvImplies DEF VmmInv
<1>4. ASSUME NEW d \in done, Translate(s, PageOf(d[2])) # Absent, Translate(s, PageOf(d[2])).frame # 0
      PROVE  Translate(s, PageOf(d[2])).frame # f
  <2>1. PageOf(d[2]) \in UserPages
    BY PagesOfPrograms DEF AllPages
  <2>2. <<s, PageOf(d[2])>> # <<u, v>>
    OBVIOUS
  <2> QED
    BY <1>2, <1>3, <1>4, <2>1, <2>2 DEF UserFramesUnshared
<1>5. \A d \in done : Translate(s, PageOf(d[2]))' = Translate(s, PageOf(d[2]))
  BY DEF Translate, vars
<1> QED
  BY <1>1, <1>4, <1>5, KeptAfter

LEMMA WriteKeepsRunning ==
  ASSUME BytesInv, VInv, NEW u \in spaces, u \notin DOMAIN running, NEW v \in UserPages,
         NEW f, NEW flags, P \in flags,
         Translate(u, v) = [frame |-> f, flags |-> flags],
         NEW x, Write(f, x), UNCHANGED <<vars, running>>
  PROVE  RunningKept'
<1>1. UNCHANGED vars /\ spaces' = spaces
  BY DEF vars
<1>2. ASSUME NEW s \in DOMAIN running
      PROVE  s \in spaces /\ running[s] \in Programs /\ Kept(s, running[s], AllPages(running[s]))'
  <2> PICK pr : pr = running[s]
    OBVIOUS
  <2>1. s \in spaces /\ pr \in Programs /\ Kept(s, pr, AllPages(pr)) /\ s # u
    BY DEF BytesInv, RunningKept
  <2>2. AllPages(pr) \in SUBSET AllPages(pr)
    OBVIOUS
  <2>3. Kept(s, pr, AllPages(pr))'
    BY <1>1, <2>1, <2>2, WriteKeeps
  <2> QED
    BY <2>1, <2>3
<1> QED
  BY <1>1, <1>2 DEF RunningKept

\* The page that elf_load has mapped gets its bytes.
LEMMA FillPageBytes ==
  ASSUME BytesInv, VInv, RunOK, FillPage
  PROVE  BytesInv'
<1> PICK pr, u, i, p, n, f, flags, seg, v, x :
      /\ x = Filled(Seg, run.p) /\ pr = run.program /\ u = run.user /\ i = run.i /\ p = run.p /\ f = run.frame
      /\ n = ThisPage /\ flags = SegmentFlags /\ seg = Seg /\ v = PageOf(ThisPage)
  OBVIOUS
<1>1. /\ run.at = "fill" /\ walk = <<>> /\ Write(f, x)
      /\ UNCHANGED <<vars, running>>
  BY DEF FillPage, Idle
<1>2. /\ pr \in Programs /\ i \in DOMAIN pr.segments /\ p \in Nat /\ seg = pr.segments[i]
      /\ seg.load /\ p < NumPages(seg) /\ Loads(pr, i, n) /\ n = PageNumber(seg, p)
      /\ v \in UserPages /\ v = PageOf(n)
  BY <1>1, ThisPageIs DEF BytesInv
<1>3. /\ u \in spaces /\ u \notin DOMAIN running /\ cr3 = u
      /\ There(u, Done(pr, i, p)) /\ Kept(u, pr, {d \in Done(pr, i, p) : d[2] # n})
      /\ Mapping(PageOf(n), flags)
  BY <1>1 DEF BytesInv, LoaderAt
<1>4. Translate(u, v) = [frame |-> f, flags |-> flags] /\ P \in flags
  BY <1>1, <1>2, <1>3 DEF Mapping, SegmentFlags
<1>5. UNCHANGED vars /\ spaces' = spaces /\ cr3' = cr3 /\ walk' = <<>>
      /\ \A w : Translate(u, w)' = Translate(u, w)
  BY <1>1 DEF vars, Translate
<1>6. RunningKept'
  BY <1>1, <1>2, <1>3, <1>4, WriteKeepsRunning
<1>7. /\ Done(pr, i, p + 1) = Done(pr, i, p) \cup {<<i, n>>}
      /\ \A d \in Done(pr, i, p) : d[1] <= i
  BY <1>2, DoneNextPage
<1>8. {d \in Done(pr, i, p) : d[2] # n} \in SUBSET AllPages(pr)
  BY DoneInAll
<1>9. \A d \in {d \in Done(pr, i, p) : d[2] # n} : PageOf(d[2]) # v
  <2> SUFFICES ASSUME NEW d \in Done(pr, i, p), PageOf(d[2]) = v PROVE d[2] = n
    OBVIOUS
  <2>1. Loads(pr, d[1], d[2])
    BY <1>2, DoneAre
  <2>2. d[2] \in Nat /\ d[2] + 1 \in DOMAIN ProgramPages
    BY <1>2, <2>1, PagesOfPrograms
  <2> QED
    BY <1>2, <2>2, PagesOfPrograms
<1>10. Kept(u, pr, {d \in Done(pr, i, p) : d[2] # n})'
  BY <1>1, <1>2, <1>3, <1>4, <1>5, <1>8, <1>9, WriteKeeps
<1>11. Holds(u, pr, i, n)'
  <2>1. n - PageNumber(seg, 0) = p
    <3>1. PageNumber(seg, 0) \in Nat /\ \A k \in Int : PageNumber(seg, k) = PageNumber(seg, 0) + k
      BY <1>2, SegmentIs
    <3>2. PageNumber(seg, p) = PageNumber(seg, 0) + p
      BY <1>2, <3>1
    <3> QED
      BY <1>2, <3>1, <3>2
  <2>2. f \in DOMAIN memory' /\ memory'[f] = Filled(seg, p)
    BY <1>1 DEF Write
  <2>3. W \in flags <=> seg.w
    BY DEF SegmentFlags, W, U, P
  <2>4. Translate(u, PageOf(n))' = [frame |-> f, flags |-> flags]
    BY <1>2, <1>4, <1>5
  <2> QED
    BY <1>2, <2>1, <2>2, <2>3, <2>4 DEF Holds
<1>12. Kept(u, pr, Done(pr, i, p + 1))'
  <2> SUFFICES ASSUME NEW d \in Done(pr, i, p + 1),
                      \A e \in Done(pr, i, p + 1) : e[2] = d[2] => e[1] <= d[1]
               PROVE  Holds(u, pr, d[1], d[2])'
    BY DEF Kept
  <2>1. CASE d[2] = n
    <3>1. i <= d[1] /\ (d \in Done(pr, i, p) => d[1] <= i)
      <4>1. <<i, n>> \in Done(pr, i, p + 1)
        BY <1>7
      <4>2. <<i, n>>[2] = d[2] => <<i, n>>[1] <= d[1]
        BY <4>1
      <4> QED
        BY <1>7, <2>1, <4>2
    <3>2. d[1] \in Nat /\ i \in Nat
      <4>1. Loads(pr, d[1], d[2])
        BY <1>2, DoneAre
      <4> QED
        BY <1>2, <4>1, SegmentsAre DEF Loads
    <3>3. d[1] = i
      BY <1>7, <3>1, <3>2
    <3> QED
      BY <1>11, <2>1, <3>3
  <2>2. CASE d[2] # n
    <3>1. d \in {e \in Done(pr, i, p) : e[2] # n}
      BY <1>7, <2>2
    <3>2. \A e \in {e \in Done(pr, i, p) : e[2] # n} : e[2] = d[2] => e[1] <= d[1]
      BY <1>7
    <3> QED
      BY <1>10, <3>1, <3>2 DEF Kept
  <2> QED
    BY <2>1, <2>2
<1>13. There(u, Done(pr, i, p + 1))'
  BY <1>2, <1>3, <1>4, <1>5, <1>7 DEF There, Absent
<1>14. /\ run'.at = "load" /\ run'.program = pr /\ run'.user = u /\ run'.i = i /\ run'.p = p + 1
  BY <1>2 DEF FillPage, RunOK
<1>15. i \in 1..(Len(pr.segments) + 1)
  BY <1>2, SegmentsAre
<1>16. LoaderAt'
  BY <1>1, <1>2, <1>3, <1>5, <1>12, <1>13, <1>14, <1>15 DEF LoaderAt, HeapsWalk, Beginning, Finished
<1> QED
  BY <1>6, <1>16 DEF BytesInv

\* The stack is cleared; no segment is on it.
LEMMA ZeroStackBytes ==
  ASSUME BytesInv, VInv, RunOK, ZeroStack
  PROVE  BytesInv'
<1> PICK pr, u, f, flags, x :
      pr = run.program /\ u = run.user /\ f = run.frame /\ flags = {P, U, W} /\ x = Zeros
  OBVIOUS
<1>1. /\ run.at = "zero" /\ walk = <<>> /\ Write(f, x)
      /\ UNCHANGED <<vars, running>>
  BY DEF ZeroStack, Idle
<1>2. /\ pr \in Programs /\ u \in spaces /\ u \notin DOMAIN running /\ cr3 = u
      /\ There(u, AllPages(pr)) /\ Kept(u, pr, AllPages(pr)) /\ Mapping(StackPage, flags)
  BY <1>1 DEF BytesInv, LoaderAt, Finished
<1>3. Translate(u, StackPage) = [frame |-> f, flags |-> flags] /\ P \in flags
      /\ StackPage \in UserPages
  BY <1>1, <1>2, ElfConstants DEF Mapping
<1>4. UNCHANGED vars /\ spaces' = spaces /\ cr3' = cr3 /\ walk' = <<>>
      /\ \A w : Translate(u, w)' = Translate(u, w)
  BY <1>1 DEF vars, Translate
<1>5. RunningKept'
  BY <1>1, <1>2, <1>3, WriteKeepsRunning
<1>6. \A d \in AllPages(pr) : PageOf(d[2]) # StackPage
  BY <1>2, PagesOfPrograms DEF AllPages
<1>7. AllPages(pr) \in SUBSET AllPages(pr)
  OBVIOUS
<1>8. Kept(u, pr, AllPages(pr))'
  BY <1>1, <1>2, <1>3, <1>4, <1>6, <1>7, WriteKeeps
<1>9. There(u, AllPages(pr))'
  BY <1>2, <1>4 DEF There
<1>10. run'.at = "back" /\ run'.program = pr /\ run'.user = u
  BY DEF ZeroStack, Goto, RunOK
<1>11. LoaderAt'
  BY <1>1, <1>2, <1>4, <1>8, <1>9, <1>10 DEF LoaderAt, HeapsWalk, Beginning, Finished
<1> QED
  BY <1>5, <1>11 DEF BytesInv

\* From now on the program runs.
LEMMA EnterBytes ==
  ASSUME BytesInv, RunOK, switch_to_user_space
  PROVE  BytesInv'
<1> PICK pr, u : pr = run.program /\ u = run.user
  OBVIOUS
<1>1. /\ run.at = "enter" /\ walk' = <<>> /\ UNCHANGED <<vars, memory>>
      /\ running' = [s \in DOMAIN running \cup {cr3} |-> IF s = cr3 THEN pr ELSE running[s]] /\ run'.at = "none"
  BY DEF switch_to_user_space, Idle, vars, NoRun
<1>2. /\ pr \in Programs /\ u \in spaces /\ cr3 = u /\ Kept(u, pr, AllPages(pr))
  BY <1>1 DEF BytesInv, LoaderAt, Finished
<1>3. UserSame /\ memory' = memory
  BY <1>1 DEF UserSame, Translate, vars
<1>4. ASSUME NEW s \in DOMAIN running', NEW pr2, pr2 = running'[s]
      PROVE  s \in spaces' /\ pr2 \in Programs /\ Kept(s, pr2, AllPages(pr2))'
  <2>1. s = u \/ s \in DOMAIN running
    BY <1>1, <1>2
  <2>2. pr2 = IF s = u THEN pr ELSE running[s]
    BY <1>1, <1>2, <1>4, <2>1
  <2>3. s \in spaces /\ pr2 \in Programs /\ Kept(s, pr2, AllPages(pr2))
    BY <1>2, <2>1, <2>2 DEF BytesInv, RunningKept
  <2>4. AllPages(pr2) \in SUBSET AllPages(pr2)
    OBVIOUS
  <2>5. Kept(s, pr2, AllPages(pr2))'
    BY <1>3, <2>3, <2>4, SamePagesKept
  <2> QED
    BY <1>3, <2>3, <2>5 DEF UserSame
<1>5. RunningKept'
  BY <1>4 DEF RunningKept
<1> QED
  BY <1>1, <1>5, OnlyRunning

LEMMA BytesStep == ASSUME BytesInv, IInv, ElfNext PROVE BytesInv'
<1>1. VInv /\ RunOK
  BY DEF IInv
<1>2. ASSUME NEW pr \in Programs, CreateSpace(pr) PROVE BytesInv'
  BY <1>1, <1>2, CreateSpaceBytes
<1>3. CASE SwitchToUser \/ SwitchToKernel \/ SwitchAgain
  BY <1>1, <1>3, SwitchBytes
<1>4. CASE HeaderRefused \/ HeaderAccepted \/ NextSegment \/ Loaded
  BY <1>1, <1>4, LoaderGoesOn
<1>5. CASE MapSegmentPage
  BY <1>1, <1>5, MapSegmentPageBytes
<1>6. CASE FillPage
  BY <1>1, <1>6, FillPageBytes
<1>7. CASE MapStack
  BY <1>1, <1>7, MapStackBytes
<1>8. CASE ZeroStack
  BY <1>1, <1>8, ZeroStackBytes
<1>9. CASE switch_to_user_space
  BY <1>1, <1>9, EnterBytes
<1>10. CASE KernelStep
  BY <1>1, <1>10, KernelStepBytes
<1>11. CASE BetweenPrograms
  BY <1>1, <1>11, BetweenProgramsBytes
<1>12. CASE NoSpace \/ Halted
  <2>1. UNCHANGED <<table, spaces, cr3, walk, run, memory, running>>
    BY <1>12 DEF NoSpace, NoUserPml4, Halted, Stopped, vars
  <2> QED
    BY <1>1, <2>1, HaltedSame
<1> QED
  BY <1>2, <1>3, <1>4, <1>5, <1>6, <1>7, <1>8, <1>9, <1>10, <1>11, <1>12 DEF ElfNext

LEMMA BytesInvariance == ElfSpec => []BytesInv
<1>1. ElfInit => BytesInv
  BY DEF ElfInit, Init, NoRun, BytesInv, LoaderAt, RunningKept, HeapsWalk, Beginning, Finished
<1>2. BytesInv /\ IInv /\ [ElfNext]_elf_vars => BytesInv'
  <2>1. ASSUME BytesInv, IInv, UNCHANGED elf_vars PROVE BytesInv'
    <3>1. UNCHANGED <<table, spaces, cr3, walk, run, memory, running>>
      BY <2>1 DEF elf_vars, vars
    <3> QED
      BY <2>1, <3>1, HaltedSame DEF IInv
  <2> QED
    BY <2>1, BytesStep
<1> QED
  BY IInvInvariance, <1>1, <1>2, PTL DEF ElfSpec

(***************************************************************************)
(* elf_load and _start, whatever the segments of a program and however     *)
(* many programs, pages and frames: a program that runs finds the bytes of *)
(* its file at the addresses that it was linked for, though pages of other *)
(* programs and of the heap are mapped, filled and unmapped all the while. *)
(***************************************************************************)
THEOREM ElfSegmentsLoaded == ElfSpec => []SegmentsLoaded
<1>1. BytesInv => SegmentsLoaded
  BY BytesInvImplies
<1> QED
  BY BytesInvariance, <1>1, PTL
=============================================================================
