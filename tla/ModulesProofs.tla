--------------------------- MODULE ModulesProofs ---------------------------
(***************************************************************************)
(* Proofs about the loading of kernel modules (Modules.tla, driven by the  *)
(* command line of Cmdline.tla), for any files and command lines.          *)
(*                                                                         *)
(* Ends is recursive over the sections, and what it returns is shown by    *)
(* induction.  The library's induction theorems take an operator, which    *)
(* none of the provers used here instantiates; its theorem that < is well  *)
(* founded on the naturals does not, and from it follow a least element    *)
(* (Least) and induction over a set (Induction).                           *)
(*                                                                         *)
(* The reading of the command line itself, for any line: the scan is shown *)
(* to list the runs of pieces between spaces one by one (OneArgument),     *)
(* from which the ranks of Words are the places in the list (WordsAre),    *)
(* and what it takes of each is what the run names (CollectedIs).          *)
(***************************************************************************)
EXTENDS Cmdline, FiniteSetTheorems, WellFoundedInduction, TLAPS

-----------------------------------------------------------------------------
(* Induction *)

Less == {p \in Nat \X Nat : p[1] < p[2]}

LEMMA LessWellFounded == IsWellFoundedOn(Less, Nat)
  BY NatLessThanWellFounded DEF OpToRel, Less

\* A set of naturals that is not empty has a least element.
LEMMA Least ==
  ASSUME NEW T, T \subseteq Nat, T # {}
  PROVE  \E n \in T : \A m \in T : n <= m
<1>1. PICK n \in T : \A m \in T : <<m, n>> \notin Less
  BY LessWellFounded, WFMin
<1>2. ASSUME NEW m \in T PROVE n <= m
  <2>1. n \in Nat /\ m \in Nat
    OBVIOUS
  <2>2. ~(m < n)
    BY <1>1, <2>1 DEF Less
  <2> QED
    BY <2>1, <2>2
<1> QED
  BY <1>2

LEMMA Induction ==
  ASSUME NEW G, 0 \in G, \A n \in Nat : n \in G => n + 1 \in G
  PROVE  \A n \in Nat : n \in G
<1> SUFFICES ASSUME Nat \ G # {} PROVE FALSE
  OBVIOUS
<1>1. PICK n \in Nat \ G : \A m \in Nat \ G : n <= m
  BY Least
<1>2. n # 0 /\ n - 1 \in Nat /\ n - 1 \notin Nat \ G
  BY <1>1
<1> QED
  BY <1>1, <1>2

-----------------------------------------------------------------------------
(* Where load_module puts the sections *)

\* Rounding up: to no less than it was.
LEMMA Aligned ==
  ASSUME NEW x \in Nat, NEW a \in Nat
  PROVE  AlignUp(x, a) \in Nat /\ AlignUp(x, a) >= x
<1>1. CASE a > 1
  <2>1. PICK n \in Int, q \in Int, r \in 0..a-1 :
          n = x + a - 1 /\ q = n \div a /\ r = n % a /\ n = a * q + r
    BY <1>1
  <2>2. a * q = q * a
    BY <2>1
  <2>3. q * a \in Int
    BY <2>1
  <2>4. q * a >= x
    BY <2>1, <2>2, <2>3
  <2>5. AlignUp(x, a) = q * a
    BY <1>1, <2>1 DEF AlignUp
  <2> QED
    BY <2>3, <2>4, <2>5
<1>2. CASE ~(a > 1)
  BY <1>2 DEF AlignUp
<1> QED
  BY <1>1, <1>2

\* The two loops of load_module over the sections, as they are written.
LEMMA EndsIsTheLoop ==
  ASSUME NEW ss \in Seq(SectionHeader)
  PROVE  /\ Ends(ss)[0] = 0
         /\ \A s \in 1..Len(ss) :
              Ends(ss)[s] = IF ss[s].alloc
                            THEN AlignUp(Ends(ss)[s - 1], ss[s].align) + ss[s].size
                            ELSE Ends(ss)[s - 1]
<1> DEFINE Round(h, s) == IF s = 0 THEN 0
                          ELSE IF ss[s].alloc
                               THEN AlignUp(h[s - 1], ss[s].align) + ss[s].size
                               ELSE h[s - 1]
           Is(h, n) == h = [s \in 0..n |-> Round(h, s)]
           G == {n \in Nat : \E h : Is(h, n)}
<1>0. Len(ss) \in Nat
  OBVIOUS
<1>1. 0 \in G
  <2>1. Is([s \in 0..0 |-> 0], 0)
    OBVIOUS
  <2> QED
    BY <2>1
<1>2. ASSUME NEW n \in Nat, n \in G PROVE n + 1 \in G
  <2>1. PICK h : Is(h, n)
    BY <1>2
  <2> DEFINE g == [s \in 0..n+1 |-> IF s = n + 1 THEN Round(h, n + 1) ELSE h[s]]
  <2> HIDE DEF Round
  <2>2. \A s \in 0..n : g[s] = h[s]
    OBVIOUS
  <2>3. \A s \in 0..n+1 : Round(g, s) = Round(h, s)
    BY <2>2 DEF Round
  <2>4. \A s \in 0..n : h[s] = Round(h, s)
    BY <2>1
  <2>5. \A s \in 0..n+1 : g[s] = Round(g, s)
    BY <2>3, <2>4
  <2>6. Is(g, n + 1)
    BY <2>5
  <2>7. \E f : Is(f, n + 1)
    <3> HIDE DEF Is, g
    <3> QED BY <2>6
  <2> QED
    BY <2>7
<1>3. \E h : Is(h, Len(ss))
  <2> HIDE DEF G
  <2>1. Len(ss) \in G
    BY <1>0, <1>1, <1>2, Induction
  <2> QED
    BY <2>1 DEF G
<1>4. Ends(ss) = CHOOSE h : Is(h, Len(ss))
  BY DEF Ends
<1>5. Is(Ends(ss), Len(ss))
  <2> HIDE DEF Is
  <2> QED BY <1>3, <1>4
<1>6. \A s \in 0..Len(ss) : Ends(ss)[s] = Round(Ends(ss), s)
  <2> HIDE DEF Round
  <2> QED BY <1>5
<1>7. Ends(ss)[0] = 0
  BY <1>0, <1>6
<1>8. ASSUME NEW s \in 1..Len(ss)
      PROVE  Ends(ss)[s] = IF ss[s].alloc
                           THEN AlignUp(Ends(ss)[s - 1], ss[s].align) + ss[s].size
                           ELSE Ends(ss)[s - 1]
  <2>1. s # 0 /\ s \in 0..Len(ss)
    BY <1>0
  <2> QED
    BY <1>6, <2>1
<1> QED
  BY <1>7, <1>8

\* The ends only grow.
LEMMA EndsGrow ==
  ASSUME NEW ss \in Seq(SectionHeader)
  PROVE  /\ \A t \in 0..Len(ss) : Ends(ss)[t] \in Nat
         /\ \A t \in 0..Len(ss) : \A s \in 0..t : Ends(ss)[s] <= Ends(ss)[t]
<1> DEFINE E == Ends(ss)
           P(t) == E[t] \in Nat /\ \A s \in 0..t : E[s] \in Nat /\ E[s] <= E[t]
           G == {t \in Nat : t <= Len(ss) => P(t)}
<1>0. Len(ss) \in Nat
  OBVIOUS
<1> HIDE DEF E
<1>1. 0 \in G
  <2>1. E[0] = 0
    BY EndsIsTheLoop DEF E
  <2> QED
    BY <2>1
<1>2. ASSUME NEW t \in Nat, t \in G PROVE t + 1 \in G
  <2>1. CASE t + 1 <= Len(ss)
    <3>1. t + 1 \in 1..Len(ss) /\ t <= Len(ss) /\ (t + 1) - 1 = t
      BY <2>1, <1>0
    <3>2. P(t)
      BY <1>2, <3>1
    <3>3. ss[t + 1].size \in Nat /\ ss[t + 1].align \in Nat
      <4>1. ss[t + 1] \in SectionHeader
        BY <3>1
      <4> QED
        BY <4>1 DEF SectionHeader
    <3>4. AlignUp(E[t], ss[t + 1].align) \in Nat /\ AlignUp(E[t], ss[t + 1].align) >= E[t]
      BY <3>2, <3>3, Aligned
    <3>5. E[t + 1] = IF ss[t + 1].alloc
                     THEN AlignUp(E[t], ss[t + 1].align) + ss[t + 1].size ELSE E[t]
      BY <3>1, EndsIsTheLoop DEF E
    <3>6. E[t + 1] \in Nat /\ E[t] <= E[t + 1]
      <4>1. \A a, b, c \in Nat : b >= a => b + c \in Nat /\ a <= b + c /\ a <= a
        OBVIOUS
      <4>2. E[t] \in Nat
        BY <3>2
      <4> HIDE DEF E
      <4> QED
        BY ONLY <4>1, <4>2, <3>3, <3>4, <3>5
    <3>7. ASSUME NEW s \in 0..t+1 PROVE E[s] \in Nat /\ E[s] <= E[t + 1]
      <4>1. CASE s = t + 1
        BY <3>6, <4>1
      <4>2. CASE s # t + 1
        <5>1. s \in 0..t
          BY <4>2
        <5>2. E[s] \in Nat /\ E[s] <= E[t]
          BY <5>1, <3>2
        <5> QED
          BY <5>2, <3>2, <3>6
      <4> QED
        BY <4>1, <4>2
    <3> QED
      BY <3>6, <3>7
  <2>2. CASE ~(t + 1 <= Len(ss))
    BY <2>2
  <2> QED
    BY <2>1, <2>2
<1>3. \A t \in Nat : t \in G
  <2> HIDE DEF G
  <2> QED BY <1>1, <1>2, Induction
<1>4. \A t \in 0..Len(ss) : P(t)
  <2> HIDE DEF P
  <2>1. \A t \in 0..Len(ss) : t \in Nat /\ t <= Len(ss)
    BY <1>0
  <2> QED
    BY <1>3, <2>1
<1> QED
  BY <1>4 DEF E

\* The offset of an allocated section.
Offset(ss, s) == AlignUp(Ends(ss)[s - 1], ss[s].align)

\* It lies behind all that come before it, and ends where Ends says.
LEMMA Offsets ==
  ASSUME NEW ss \in Seq(SectionHeader), NEW s \in 1..Len(ss), ss[s].alloc
  PROVE  /\ Offset(ss, s) \in Nat /\ ss[s].size \in Nat
         /\ Offset(ss, s) + ss[s].size = Ends(ss)[s]
         /\ Offset(ss, s) + ss[s].size <= Ends(ss)[Len(ss)]
         /\ \A r \in 0..s-1 : Ends(ss)[r] <= Offset(ss, s)
<1>0. Len(ss) \in Nat /\ s - 1 \in 0..Len(ss) /\ s \in 0..Len(ss) /\ Len(ss) \in 0..Len(ss)
  OBVIOUS
<1>1. Ends(ss)[s - 1] \in Nat /\ Ends(ss)[s] \in Nat /\ Ends(ss)[Len(ss)] \in Nat
  BY <1>0, EndsGrow
<1>2. ss[s].size \in Nat /\ ss[s].align \in Nat
  <2>1. ss[s] \in SectionHeader
    OBVIOUS
  <2> QED
    BY <2>1 DEF SectionHeader
<1>3. Offset(ss, s) \in Nat /\ Ends(ss)[s - 1] <= Offset(ss, s)
  BY <1>1, <1>2, Aligned DEF Offset
<1>4. Ends(ss)[s] = Offset(ss, s) + ss[s].size
  BY EndsIsTheLoop DEF Offset
<1>5. Ends(ss)[s] <= Ends(ss)[Len(ss)]
  BY <1>0, EndsGrow
<1>6. ASSUME NEW r \in 0..s-1 PROVE Ends(ss)[r] <= Offset(ss, s)
  <2>1. Ends(ss)[r] \in Nat /\ Ends(ss)[r] <= Ends(ss)[s - 1]
    <3>1. r \in 0..Len(ss)
      BY <1>0
    <3> QED
      BY <1>0, <3>1, EndsGrow
  <2> QED
    BY <2>1, <1>1, <1>3
<1> QED
  BY <1>1, <1>2, <1>3, <1>4, <1>5, <1>6

-----------------------------------------------------------------------------
(* The inductive invariant *)

\* No command line names more modules than boot_modules has room for.
Counted ==
  /\ \E Texts : boot_modules \in Seq(Texts)
  /\ Len(boot_modules) <= MAX_BOOT_MODULES
  /\ loads \in 0..MAX_BOOT_MODULES /\ modules \subseteq 1..loads
  /\ i \in Nat /\ j \in Nat \ {0} /\ init \in 0..WORD-1

\* The file of a load is one that the path may lead to.
Opened ==
  pc # "next" =>
    /\ loads \in 1..MAX_BOOT_MODULES
    /\ \E p \in DOMAIN FilesAt : file \in FilesAt[p] /\ file.kind = "file"

\* What PlaceSections has done.
Placed ==
  /\ addr = [s \in Allocated |-> Place(s)]
  /\ memory_size = TotalSize /\ TotalSize > 0
NotPlaced == addr = <<>> /\ patched = <<>>

Laid ==
  /\ pc \in {"next", "validate"} => NotPlaced /\ i = 1 /\ j = 1
  /\ pc = "symtab" => Placed /\ patched = <<>> /\ i = 1 /\ j = 1
  /\ pc \in {"rela", "init", "return"} => Placed
  /\ pc = "close" => Placed \/ NotPlaced

\* What load_module has allocated for this load.
Taken ==
  IF pc = "next" THEN {}
  ELSE IF pc \in {"validate", "close"} THEN {"file_buffer"}
  ELSE IF pc \in {"symtab", "rela"} THEN {"file_buffer", "module_memory"}
  ELSE {"file_buffer", "module_memory", "kernel_module_t"}

Holding ==
  /\ pc \in {"next", "validate", "symtab", "rela", "init", "return", "close"}
  /\ held = ({"module_memory", "kernel_module_t"} \X modules) \cup (Taken \X {loads})
  /\ pc \in {"validate", "symtab", "rela", "init", "return"} => loads \notin modules

Before(s, k) == s < i \/ (s = i /\ k < j)

\* The patches are those of entries before j of section i, and all of those.
Patched ==
  \A e \in DOMAIN patched :
    /\ e \in Nat \X Nat /\ Before(e[1], e[2])
    /\ Bytes(patched[e].at, Width(patched[e].type)) \subseteq Memory

Complete ==
  /\ pc \in {"rela", "init"} =>
       \A s \in Sections : \A k \in DOMAIN Section(s).relas :
         Section(s).type = "rela" /\ Before(s, k) =>
           /\ Section(s).info \in Sections
           /\ Section(Section(s).info).alloc /\ Section(s).relas[k].type # "NONE" =>
                <<s, k>> \in DOMAIN patched
  /\ pc = "init" => i \notin Sections

Entered == InitInText /\ pc = "init" => init \in Memory

IInv == Counted /\ Opened /\ Laid /\ Holding /\ Patched /\ Complete /\ Entered

-----------------------------------------------------------------------------

\* The file that is being loaded.
LEMMA TheFile ==
  ASSUME Opened, pc # "next"
  PROVE  /\ IsObject(file)
         /\ file.sections \in Seq(SectionHeader) /\ Len(file.sections) \in Nat
         /\ Sections = 0..Len(file.sections)
         /\ \A s \in 1..Len(file.sections) : Section(s) = file.sections[s]
         /\ Allocated = {s \in 1..Len(file.sections) : file.sections[s].alloc}
         /\ Base[loads] \in Nat
         /\ Base[loads] + TotalSize <= WORD
<1>1. loads \in 1..MAX_BOOT_MODULES
  BY DEF Opened
<1>2. IsObject(file) /\ Base[loads] + TotalSize <= WORD
  BY <1>1, ModuleFiles DEF Opened, TotalSize
<1>3. file.sections \in Seq(SectionHeader)
  BY <1>2 DEF IsObject
<1>4. Base[loads] \in Nat
  BY <1>1, ModulesConstants
<1>5. Len(file.sections) \in Nat /\ DOMAIN file.sections = 1..Len(file.sections)
  BY <1>3
<1>6. \A s \in 1..Len(file.sections) : Section(s) = file.sections[s]
  BY <1>5 DEF Section
<1> QED
  BY <1>2, <1>3, <1>4, <1>5, <1>6 DEF Sections, Allocated

\* Every allocated section lies in the memory, and behind those before it.
LEMMA SectionsInside ==
  ASSUME Opened, pc # "next", Placed
  PROVE  /\ DOMAIN addr = Allocated /\ memory_size \in Nat \ {0}
         /\ \A s \in Allocated :
              /\ addr[s] \in Nat /\ Section(s).size \in Nat
              /\ Base[loads] <= addr[s]
              /\ addr[s] + Section(s).size <= Base[loads] + memory_size
              /\ \A r \in Allocated : r < s => addr[r] + Section(r).size <= addr[s]
<1> DEFINE ss == file.sections
<1>0. /\ ss \in Seq(SectionHeader) /\ Len(ss) \in Nat
      /\ \A s \in 1..Len(ss) : Section(s) = ss[s]
      /\ Allocated = {s \in 1..Len(ss) : ss[s].alloc}
      /\ Base[loads] \in Nat
  BY TheFile
<1>1. TotalSize = Ends(ss)[Len(ss)] /\ TotalSize \in Nat
  BY <1>0, EndsGrow DEF TotalSize
<1>2. addr = [s \in Allocated |-> Place(s)] /\ memory_size = TotalSize /\ TotalSize > 0
  BY DEF Placed
<1>3. ASSUME NEW s \in Allocated
      PROVE  /\ s \in 1..Len(ss) /\ ss[s].alloc /\ Section(s) = ss[s]
             /\ addr[s] = Base[loads] + Offset(ss, s)
  BY <1>0, <1>2 DEF Place, Offset
<1>4. ASSUME NEW s \in Allocated
      PROVE  /\ Offset(ss, s) \in Nat /\ ss[s].size \in Nat
             /\ Offset(ss, s) + ss[s].size = Ends(ss)[s]
             /\ Offset(ss, s) + ss[s].size <= Ends(ss)[Len(ss)]
             /\ \A r \in 0..s-1 : Ends(ss)[r] <= Offset(ss, s)
  BY <1>0, <1>3, Offsets
<1>5. ASSUME NEW s \in Allocated, NEW r \in Allocated, r < s
      PROVE  addr[r] + Section(r).size <= addr[s]
  <2>1. r \in 0..s-1 /\ Ends(ss)[r] <= Offset(ss, s)
    BY <1>3, <1>4, <1>5
  <2>2. /\ addr[r] = Base[loads] + Offset(ss, r) /\ addr[s] = Base[loads] + Offset(ss, s)
        /\ Section(r).size = ss[r].size
    BY <1>3
  <2>3. /\ Offset(ss, r) \in Nat /\ Offset(ss, s) \in Nat /\ ss[r].size \in Nat
        /\ Offset(ss, r) + ss[r].size = Ends(ss)[r]
    BY <1>4
  <2>4. Base[loads] \in Nat
    BY <1>0
  <2> HIDE DEF ss
  <2> QED
    BY <2>1, <2>2, <2>3, <2>4
<1>6. ASSUME NEW s \in Allocated
      PROVE  /\ addr[s] \in Nat /\ Section(s).size \in Nat
             /\ Base[loads] <= addr[s]
             /\ addr[s] + Section(s).size <= Base[loads] + memory_size
  <2>1. addr[s] = Base[loads] + Offset(ss, s) /\ Section(s).size = ss[s].size
    BY <1>3
  <2>2. /\ Offset(ss, s) \in Nat /\ ss[s].size \in Nat
        /\ Offset(ss, s) + ss[s].size <= memory_size /\ memory_size \in Nat
    BY <1>1, <1>2, <1>4
  <2>3. Base[loads] \in Nat
    BY <1>0
  <2> HIDE DEF ss
  <2> QED
    BY <2>1, <2>2, <2>3
<1>7. DOMAIN addr = Allocated /\ memory_size \in Nat \ {0}
  BY <1>1, <1>2
<1> QED
  BY <1>5, <1>6, <1>7

\* What depends on these variables only.
LEMMA SameFile ==
  ASSUME UNCHANGED <<file, loads, addr, memory_size>>
  PROVE  /\ Sections' = Sections /\ Allocated' = Allocated /\ Memory' = Memory
         /\ \A s : Section(s)' = Section(s)
         /\ Placed' <=> Placed
<1>1. Sections' = Sections /\ Allocated' = Allocated /\ Memory' = Memory /\ TotalSize' = TotalSize
  BY DEF Sections, Allocated, Memory, TotalSize
<1>2. \A s : Section(s)' = Section(s)
  BY DEF Section
<1>3. \A s : Place(s)' = Place(s)
  BY <1>2 DEF Place
<1> QED
  BY <1>1, <1>2, <1>3 DEF Placed

-----------------------------------------------------------------------------
(* The steps *)

LEMMA Start == CmdlineInit => IInv
<1> SUFFICES ASSUME CmdlineInit PROVE IInv
  OBVIOUS
<1> USE DEF CmdlineInit, Init
<1>1. Counted
  <2>1. boot_modules \in Seq({}) /\ Len(boot_modules) = 0
    OBVIOUS
  <2>2. Len(boot_modules) <= MAX_BOOT_MODULES /\ loads \in 0..MAX_BOOT_MODULES
    BY <2>1, ModulesConstants
  <2>3. modules \subseteq 1..loads /\ i \in Nat /\ j \in Nat /\ init \in 0..WORD-1
    BY ModulesConstants
  <2> QED
    BY <2>1, <2>2, <2>3 DEF Counted
<1>2. Opened /\ Laid /\ Complete /\ Entered
  BY DEF Opened, Laid, NotPlaced, Complete, Entered
<1>3. Holding
  BY DEF Holding, Taken
<1>4. Patched
  <2>1. DOMAIN patched = {}
    OBVIOUS
  <2> QED
    BY <2>1 DEF Patched
<1> QED
  BY <1>1, <1>2, <1>3, <1>4 DEF IInv

\* The command line names no more modules than there is room for.
LEMMA Collecting ==
  ASSUME IInv, NoCmdline \/ ReadFlag \/ NextArgument
  PROVE  IInv'
<1>1. UNCHANGED <<file, loads, pc, held, addr, memory_size, i, j, patched, init, modules>>
  BY DEF NoCmdline, ReadFlag, NextArgument, vars, locals
<1>2. Counted'
  <2>1. CASE UNCHANGED boot_modules
    BY <1>1, <2>1 DEF IInv, Counted
  <2>2. CASE NextArgument
    <3>1. PICK text : boot_modules' = boot_modules \o Collected(text, Len(boot_modules))
      BY <2>2 DEF NextArgument
    <3>2. PICK Texts : boot_modules \in Seq(Texts)
      BY DEF IInv, Counted
    <3> DEFINE More == Texts \cup {Tail(text)}
    <3>3. boot_modules \in Seq(More) /\ Len(boot_modules) \in Nat
      <4>1. \A k \in 1..Len(boot_modules) : boot_modules[k] \in More
        BY <3>2
      <4> HIDE DEF More
      <4> QED
        BY <3>2, <4>1
    <3>4. CASE Collected(text, Len(boot_modules)) = <<>>
      <4>1. boot_modules' = boot_modules
        BY <3>1, <3>3, <3>4
      <4> QED
        BY <4>1, <2>1
    <3>5. CASE /\ Collected(text, Len(boot_modules)) = <<Tail(text)>>
               /\ Len(boot_modules) < MAX_BOOT_MODULES
      <4>1. boot_modules' = Append(boot_modules, Tail(text)) /\ Tail(text) \in More
        BY <3>1, <3>3, <3>5
      <4>2. boot_modules' \in Seq(More) /\ Len(boot_modules') = Len(boot_modules) + 1
        <5> HIDE DEF More
        <5> QED BY <4>1, <3>3
      <4>3. Len(boot_modules') <= MAX_BOOT_MODULES
        BY <4>2, <3>3, <3>5, ModulesConstants
      <4>4. \E T : boot_modules' \in Seq(T)
        BY <4>2
      <4> QED
        BY <4>3, <4>4, <1>1 DEF IInv, Counted
    <3> QED
      BY <3>4, <3>5 DEF Collected
  <2> QED
    BY <2>1, <2>2 DEF NoCmdline, ReadFlag
<1>3. /\ Sections' = Sections /\ Memory' = Memory
      /\ \A s : Section(s)' = Section(s)
      /\ Placed' <=> Placed
  BY <1>1, SameFile
<1>4. Opened' /\ Laid' /\ Holding'
  BY <1>1, <1>3 DEF IInv, Opened, Laid, NotPlaced, Holding, Taken
<1>5. Patched' /\ Complete' /\ Entered'
  BY <1>1, <1>3 DEF IInv, Patched, Complete, Entered, Before
<1> QED
  BY <1>2, <1>4, <1>5 DEF IInv

\* load_module_from_file, up to load_module.
LEMMA Opening ==
  ASSUME IInv, load_module_from_file
  PROVE  IInv'
<1>1. PICK f \in FilesOf(boot_modules[loads + 1]) : Open(f)
  BY DEF load_module_from_file
<1>2. /\ pc = "next" /\ loads' = loads + 1 /\ UNCHANGED boot_modules
      /\ UNCHANGED <<addr, memory_size, i, j, patched, init, modules>>
  BY <1>1 DEF Open, locals, load_module_from_file
<1>3. /\ NotPlaced /\ i = 1 /\ j = 1 /\ DOMAIN patched = {}
  BY <1>2 DEF IInv, Laid, NotPlaced
<1>4. loads < Len(boot_modules) /\ Len(boot_modules) \in Nat
  BY DEF load_module_from_file, IInv, Counted
<1>5. Counted' /\ loads' \in 1..MAX_BOOT_MODULES /\ loads' \notin modules
  BY <1>2, <1>4, ModulesConstants DEF IInv, Counted
<1>6. Patched'
  BY <1>2, <1>3 DEF Patched
<1>7. held = {"module_memory", "kernel_module_t"} \X modules
  BY <1>2 DEF IInv, Holding, Taken
<1>8. CASE f.kind # "file" \/ f.size = 0
  <2>1. UNCHANGED <<file, pc, held>>
    BY <1>1, <1>8 DEF Open
  <2>2. Opened' /\ Laid' /\ Complete' /\ Entered'
    BY <2>1, <1>2, <1>3 DEF Opened, Laid, NotPlaced, Complete, Entered
  <2>3. Holding'
    BY <2>1, <1>2, <1>7 DEF Holding, Taken
  <2> QED
    BY <2>2, <2>3, <1>5, <1>6 DEF IInv
<1>9. CASE ~(f.kind # "file" \/ f.size = 0)
  <2>1. /\ file' = f /\ pc' = "validate"
        /\ held' = held \cup {<<"file_buffer", loads'>>}
    BY <1>1, <1>9 DEF Open
  <2>2. Opened'
    <3>1. NoFile.kind # "file"
      BY DEF NoFile
    <3>2. boot_modules[loads + 1] \in DOMAIN FilesAt /\ f \in FilesAt[boot_modules[loads + 1]]
      BY <1>1, <1>9, <3>1 DEF FilesOf
    <3> QED
      BY <2>1, <3>2, <1>5, <1>9 DEF Opened
  <2>3. Laid' /\ Complete' /\ Entered'
    BY <2>1, <1>2, <1>3 DEF Laid, NotPlaced, Complete, Entered
  <2>4. Holding'
    BY <2>1, <1>2, <1>5, <1>7 DEF Holding, Taken
  <2> QED
    BY <2>2, <2>3, <2>4, <1>5, <1>6 DEF IInv
<1> QED
  BY <1>8, <1>9

LEMMA Closing ==
  ASSUME IInv, Close, UNCHANGED cmdvars
  PROVE  IInv'
<1>1. /\ pc = "close" /\ pc' = "next" /\ UNCHANGED <<loads, modules, boot_modules>>
      /\ held' = held \ {<<"file_buffer", loads>>}
      /\ addr' = <<>> /\ i' = 1 /\ j' = 1 /\ patched' = <<>> /\ init' = 0
  BY DEF Close, cmdvars
<1>2. Counted'
  BY <1>1, ModulesConstants DEF IInv, Counted
<1>3. Opened' /\ Laid' /\ Complete' /\ Entered'
  BY <1>1 DEF Opened, Laid, NotPlaced, Complete, Entered
<1>4. DOMAIN patched' = {}
  BY <1>1
<1>5. Patched'
  BY <1>4 DEF Patched
<1>6. Holding'
  BY <1>1 DEF IInv, Holding, Taken
<1> QED
  BY <1>2, <1>3, <1>5, <1>6 DEF IInv

\* Both refusals before there is memory, and all that come after it.
LEMMA Refusing ==
  ASSUME IInv, UNCHANGED cmdvars,
         RefuseFile \/ RefuseSymbols \/ RefuseRela \/ RefuseEntry
  PROVE  IInv'
<1>1. /\ pc' = "close" /\ UNCHANGED boot_modules
      /\ UNCHANGED <<file, loads, addr, memory_size, i, j, patched, init, modules>>
  BY DEF RefuseFile, RefuseSymbols, RefuseRela, RefuseEntry, Refuse, locals, cmdvars
<1>2. \/ pc = "validate" /\ UNCHANGED held
      \/ pc \in {"symtab", "rela"} /\ held' = held \ {<<"module_memory", loads>>}
  BY DEF RefuseFile, RefuseSymbols, RefuseRela, RefuseEntry, Refuse, InRela, AtEntry, FreeMemory
<1>3. Memory' = Memory /\ (Placed' <=> Placed)
  BY <1>1, SameFile
<1>4. Counted' /\ Opened'
  BY <1>1, <1>2 DEF IInv, Counted, Opened
<1>5. Laid'
  BY <1>1, <1>2, <1>3 DEF IInv, Laid, NotPlaced
<1>6. Complete' /\ Entered'
  BY <1>1 DEF Complete, Entered
<1>7. Patched'
  BY <1>1, <1>3 DEF IInv, Patched, Before
<1>8. Holding'
  BY <1>1, <1>2 DEF IInv, Holding, Taken
<1> QED
  BY <1>4, <1>5, <1>6, <1>7, <1>8 DEF IInv

LEMMA Placing ==
  ASSUME IInv, PlaceSections, UNCHANGED cmdvars
  PROVE  IInv'
<1>1. /\ pc = "validate" /\ pc' = "symtab" /\ UNCHANGED boot_modules
      /\ UNCHANGED <<file, loads, i, j, patched, init, modules>>
      /\ addr' = [s \in Allocated |-> Place(s)] /\ memory_size' = TotalSize
      /\ held' = held \cup {<<"module_memory", loads>>}
      /\ TotalSize > 0
  BY DEF PlaceSections, Loadable, cmdvars
<1>2. Allocated' = Allocated /\ TotalSize' = TotalSize /\ \A s : Place(s)' = Place(s)
  BY <1>1 DEF Allocated, TotalSize, Place, Section
<1>3. Placed'
  BY <1>1, <1>2 DEF Placed
<1>4. patched = <<>> /\ i = 1 /\ j = 1 /\ DOMAIN patched = {}
  BY <1>1 DEF IInv, Laid, NotPlaced
<1>5. Counted' /\ Opened'
  BY <1>1 DEF IInv, Counted, Opened
<1>6. Laid' /\ Complete' /\ Entered'
  BY <1>1, <1>3, <1>4 DEF Laid, Complete, Entered
<1>7. Patched'
  BY <1>1, <1>4 DEF Patched
<1>8. Holding'
  BY <1>1 DEF IInv, Holding, Taken
<1> QED
  BY <1>5, <1>6, <1>7, <1>8 DEF IInv

LEMMA Finding ==
  ASSUME IInv, FindSymbols, UNCHANGED cmdvars
  PROVE  IInv'
<1>1. /\ pc = "symtab" /\ pc' = "rela" /\ UNCHANGED boot_modules
      /\ UNCHANGED <<file, loads, held, addr, memory_size, i, j, patched, init, modules>>
  BY DEF FindSymbols, locals, cmdvars
<1>2. /\ Sections' = Sections /\ Memory' = Memory /\ (Placed' <=> Placed)
      /\ \A s : Section(s)' = Section(s)
  BY <1>1, SameFile
<1>3. Counted' /\ Opened' /\ Laid' /\ Entered'
  BY <1>1, <1>2 DEF IInv, Counted, Opened, Laid, NotPlaced, Entered
<1>4. patched = <<>> /\ i = 1 /\ j = 1 /\ DOMAIN patched = {}
  BY <1>1 DEF IInv, Laid
<1>5. Patched'
  BY <1>1, <1>4 DEF Patched
<1>6. Holding'
  BY <1>1 DEF IInv, Holding, Taken
<1>7. \A s \in Sections : \A k \in DOMAIN Section(s).relas : Section(s).type = "rela" => ~Before(s, k)'
  <2> SUFFICES ASSUME NEW s \in Sections, NEW k \in DOMAIN Section(s).relas,
                      Section(s).type = "rela"
               PROVE  ~Before(s, k)'
    OBVIOUS
  <2>1. /\ Len(file.sections) \in Nat /\ Sections = 0..Len(file.sections)
        /\ file.sections \in Seq(SectionHeader)
        /\ \A n \in 1..Len(file.sections) : Section(n) = file.sections[n]
    BY <1>1, TheFile DEF IInv
  <2>2. s # 0
    BY DEF Section, NullSection
  <2>3. s \in 1..Len(file.sections)
    BY <2>1, <2>2
  <2>4. Section(s) \in SectionHeader
    BY <2>1, <2>3
  <2>5. Section(s).relas \in Seq(Relocation)
    BY <2>4 DEF SectionHeader
  <2>6. k \in Nat /\ k >= 1
    BY <2>5
  <2> QED
    BY <2>1, <2>3, <2>6, <1>1, <1>4 DEF Before
<1>8. Complete'
  BY <1>1, <1>2, <1>7 DEF Complete
<1> QED
  BY <1>3, <1>5, <1>6, <1>8 DEF IInv

LEMMA Passing ==
  ASSUME IInv, NextSection, UNCHANGED cmdvars
  PROVE  IInv'
<1>1. /\ pc = "rela" /\ pc' = pc /\ UNCHANGED boot_modules
      /\ UNCHANGED <<file, loads, held, addr, memory_size, patched, init, modules>>
      /\ i' = i + 1 /\ j' = 1 /\ i \in Sections
      /\ \/ Section(i).type # "rela"
         \/ Section(i).info \in Sections /\ ~Section(Section(i).info).alloc
         \/ Section(i).info \in Sections /\ j > Len(Section(i).relas)
  BY DEF NextSection, InRela, Rela, RelaValid, Relevant, AllMade, cmdvars
<1>2. /\ Sections' = Sections /\ Memory' = Memory /\ (Placed' <=> Placed)
      /\ \A s : Section(s)' = Section(s)
  BY <1>1, SameFile
<1>3. i \in Nat /\ j \in Nat
  BY DEF IInv, Counted
<1>4. Counted' /\ Opened' /\ Laid' /\ Entered'
  BY <1>1, <1>2, <1>3 DEF IInv, Counted, Opened, Laid, NotPlaced, Entered
<1>5. Patched'
  <2>1. \A e \in Nat \X Nat : Before(e[1], e[2]) => Before(e[1], e[2])'
    BY <1>1, <1>3 DEF Before
  <2> QED
    BY <2>1, <1>1, <1>2 DEF IInv, Patched
<1>6. Holding'
  BY <1>1 DEF IInv, Holding, Taken
<1>7. ASSUME NEW s \in Sections, NEW k \in DOMAIN Section(s).relas,
             Section(s).type = "rela", Before(s, k)'
      PROVE  /\ Section(s).info \in Sections
             /\ Section(Section(s).info).alloc /\ Section(s).relas[k].type # "NONE" =>
                  <<s, k>> \in DOMAIN patched
  <2>1. /\ Len(file.sections) \in Nat /\ Sections = 0..Len(file.sections)
        /\ file.sections \in Seq(SectionHeader)
        /\ \A n \in 1..Len(file.sections) : Section(n) = file.sections[n]
    BY <1>1, TheFile DEF IInv
  <2>2. s # 0
    BY <1>7 DEF Section, NullSection
  <2>3. s \in 1..Len(file.sections)
    BY <2>1, <2>2
  <2>4. Section(s) \in SectionHeader
    BY <2>1, <2>3
  <2>5. Section(s).relas \in Seq(Relocation)
    BY <2>4 DEF SectionHeader
  <2>6. k \in 1..Len(Section(s).relas) /\ Len(Section(s).relas) \in Nat
    BY <2>5
  <2>7. CASE Before(s, k)
    BY <2>7, <1>1, <1>7 DEF IInv, Complete
  <2>8. CASE ~Before(s, k)
    <3>1. s = i /\ ~(k < j)
      BY <2>3, <2>6, <2>8, <1>1, <1>3, <1>7 DEF Before
    <3>2. ~(j > Len(Section(s).relas))
      BY <3>1, <2>6, <1>3
    <3> QED
      BY <3>1, <3>2, <1>1, <1>7
  <2> QED
    BY <2>7, <2>8
<1>8. Complete'
  BY <1>1, <1>2, <1>7 DEF Complete
<1> QED
  BY <1>4, <1>5, <1>6, <1>8 DEF IInv

\* A patch lies in its section, and its section in the memory.
LEMMA Applying ==
  ASSUME IInv, ApplyEntry, UNCHANGED cmdvars
  PROVE  IInv'
<1> DEFINE new == <<i, j>>
           at == addr[Rela.info] + Entry.offset
<1>1. /\ pc = "rela" /\ pc' = pc /\ UNCHANGED boot_modules
      /\ UNCHANGED <<file, loads, held, addr, memory_size, i, init, modules>>
      /\ j' = j + 1 /\ i \in Sections
      /\ Rela.type = "rela" /\ Rela.info \in Sections /\ Section(Rela.info).alloc
      /\ ~(j > Len(Rela.relas))
      /\ Entry.type = "NONE" \/ InSection
  BY DEF ApplyEntry, AtEntry, InRela, Relevant, RelaValid, AllMade, Patchable, cmdvars
<1>2. \/ Entry.type = "NONE" /\ patched' = patched
      \/ /\ Entry.type # "NONE"
         /\ DOMAIN patched' = DOMAIN patched \cup {new}
         /\ patched'[new].at = at /\ patched'[new].type = Entry.type
         /\ \A e \in DOMAIN patched : e # new => patched'[e] = patched[e]
  BY DEF ApplyEntry
<1>3. /\ Sections' = Sections /\ Memory' = Memory /\ (Placed' <=> Placed)
      /\ \A s : Section(s)' = Section(s)
  BY <1>1, SameFile
<1>4. i \in Nat /\ j \in Nat
  BY DEF IInv, Counted
<1>5. Counted' /\ Opened' /\ Laid' /\ Entered'
  BY <1>1, <1>3, <1>4 DEF IInv, Counted, Opened, Laid, NotPlaced, Entered
<1>6. Holding'
  BY <1>1 DEF IInv, Holding, Taken
<1>7. /\ Len(file.sections) \in Nat /\ Sections = 0..Len(file.sections)
      /\ file.sections \in Seq(SectionHeader)
      /\ \A n \in 1..Len(file.sections) : Section(n) = file.sections[n]
      /\ Allocated = {s \in 1..Len(file.sections) : file.sections[s].alloc}
      /\ Base[loads] \in Nat
  BY <1>1, TheFile DEF IInv
<1>8. Section(0).type # "rela" /\ Section(0).alloc = FALSE
  BY DEF Section, NullSection
<1>9. ASSUME NEW s \in Sections, Section(s).type = "rela"
      PROVE  /\ Section(s).relas \in Seq(Relocation)
             /\ DOMAIN Section(s).relas = 1..Len(Section(s).relas)
             /\ Len(Section(s).relas) \in Nat
  <2>1. s \in 1..Len(file.sections)
    BY <1>7, <1>8, <1>9
  <2>2. Section(s) \in SectionHeader
    BY <1>7, <2>1
  <2>3. Section(s).relas \in Seq(Relocation)
    BY <2>2 DEF SectionHeader
  <2> QED
    BY <2>3
<1>10. Bytes(at, Width(Entry.type)) \subseteq Memory \/ Entry.type = "NONE"
  <2> SUFFICES ASSUME Entry.type # "NONE" PROVE Bytes(at, Width(Entry.type)) \subseteq Memory
    OBVIOUS
  <2>1. Rela.info \in Allocated
    BY <1>1, <1>7, <1>8
  <2>2. Placed
    BY <1>1 DEF IInv, Laid
  <2>3. /\ addr[Rela.info] \in Nat /\ Section(Rela.info).size \in Nat
        /\ Base[loads] <= addr[Rela.info] /\ memory_size \in Nat
        /\ addr[Rela.info] + Section(Rela.info).size <= Base[loads] + memory_size
    BY <2>1, <2>2, <1>1, SectionsInside DEF IInv
  <2>4. Width(Entry.type) \in Nat
    BY DEF Width
  <2>5. /\ Entry.offset <= Section(Rela.info).size
        /\ Width(Entry.type) <= Section(Rela.info).size - Entry.offset
    BY <1>1 DEF InSection
  <2>6. Entry.offset \in Nat
    <3>1. Rela.relas \in Seq(Relocation) /\ j <= Len(Rela.relas) /\ Len(Rela.relas) \in Nat
      BY <1>1, <1>4, <1>9 DEF Rela
    <3>2. j \in 1..Len(Rela.relas)
      <4>1. j # 0
        BY DEF IInv, Counted
      <4> QED
        BY <3>1, <4>1, <1>4
    <3>3. Entry \in Relocation
      BY <3>1, <3>2 DEF Entry
    <3> QED
      BY <3>3 DEF Relocation
  <2>7. /\ Base[loads] <= at /\ at \in Nat
        /\ at + Width(Entry.type) <= Base[loads] + memory_size
    <3>1. \A a, o, w, z, b, m \in Nat :
            b <= a /\ a + z <= b + m /\ o <= z /\ w <= z - o =>
              b <= a + o /\ a + o \in Nat /\ a + o + w <= b + m
      OBVIOUS
    <3> QED
      BY ONLY <3>1, <2>3, <2>4, <2>5, <2>6, <1>7
  <2> HIDE DEF at
  <2> QED
    BY <2>3, <2>4, <2>7, <1>7 DEF Bytes, Memory
<1> HIDE DEF at
<1>11. Patched'
  <2> SUFFICES ASSUME NEW e \in DOMAIN patched'
               PROVE  /\ e \in Nat \X Nat /\ Before(e[1], e[2])'
                      /\ Bytes(patched'[e].at, Width(patched'[e].type)) \subseteq Memory'
    BY DEF Patched, Bytes, Width
  <2>1. CASE e = new /\ Entry.type # "NONE"
    <3>1. Bytes(patched'[e].at, Width(patched'[e].type)) \subseteq Memory'
      BY <2>1, <1>2, <1>3, <1>10
    <3>2. e \in Nat \X Nat /\ Before(e[1], e[2])'
      BY <2>1, <1>1, <1>4 DEF Before
    <3> QED
      BY <3>1, <3>2
  <2>2. CASE e # new \/ Entry.type = "NONE"
    <3>1. e \in DOMAIN patched /\ patched'[e] = patched[e]
      BY <2>2, <1>2
    <3>2. /\ e \in Nat \X Nat /\ Before(e[1], e[2])
          /\ Bytes(patched[e].at, Width(patched[e].type)) \subseteq Memory
      BY <3>1 DEF IInv, Patched
    <3>3. Before(e[1], e[2])'
      BY <3>2, <1>1, <1>4 DEF Before
    <3> QED
      BY <3>1, <3>2, <3>3, <1>3
  <2> QED
    BY <2>1, <2>2
<1>12. ASSUME NEW s \in Sections, NEW k \in DOMAIN Section(s).relas,
              Section(s).type = "rela", Before(s, k)'
       PROVE  /\ Section(s).info \in Sections
              /\ Section(Section(s).info).alloc /\ Section(s).relas[k].type # "NONE" =>
                   <<s, k>> \in DOMAIN patched'
  <2>1. s \in Nat /\ k \in Nat
    BY <1>7, <1>9, <1>12
  <2>2. CASE Before(s, k)
    BY <2>2, <1>1, <1>2, <1>12 DEF IInv, Complete
  <2>3. CASE ~Before(s, k)
    <3>1. s = i /\ k = j
      BY <2>1, <2>3, <1>1, <1>4, <1>12 DEF Before
    <3>2. Section(s) = Rela /\ Section(s).relas[k] = Entry
      BY <3>1 DEF Rela, Entry
    <3> QED
      BY <3>1, <3>2, <1>1, <1>2
  <2> QED
    BY <2>2, <2>3
<1>13. Complete'
  BY <1>1, <1>3, <1>12 DEF Complete
<1> QED
  BY <1>5, <1>6, <1>11, <1>13 DEF IInv

\* kernel_module_t, and the last symbol of the name module_init.
LEMMA Making ==
  ASSUME IInv, MakeModule, UNCHANGED cmdvars
  PROVE  IInv'
<1>1. /\ pc = "rela" /\ i \notin Sections /\ UNCHANGED boot_modules
      /\ pc' \in {"return", "init"} /\ pc' = IF FindInit = 0 THEN "return" ELSE "init"
      /\ UNCHANGED <<file, loads, addr, memory_size, i, j, patched, modules>>
      /\ init' = FindInit
      /\ held' = held \cup {<<"kernel_module_t", loads>>}
  BY DEF MakeModule, cmdvars
<1>2. /\ Sections' = Sections /\ Memory' = Memory /\ (Placed' <=> Placed)
      /\ \A s : Section(s)' = Section(s)
  BY <1>1, SameFile
<1>3. /\ IsObject(file) /\ Len(file.sections) \in Nat /\ Sections = 0..Len(file.sections)
      /\ Base[loads] \in Nat /\ Base[loads] + TotalSize <= WORD
      /\ Allocated = {s \in 1..Len(file.sections) : file.sections[s].alloc}
      /\ \A s \in 1..Len(file.sections) : Section(s) = file.sections[s]
  BY <1>1, TheFile DEF IInv
<1>4. Placed /\ Placed'
  BY <1>1, <1>2 DEF IInv, Laid
<1>5. /\ DOMAIN addr = Allocated /\ memory_size \in Nat \ {0} /\ memory_size = TotalSize
      /\ \A s \in Allocated :
           /\ addr[s] \in Nat /\ Section(s).size \in Nat /\ Base[loads] <= addr[s]
           /\ addr[s] + Section(s).size <= Base[loads] + memory_size
  BY <1>1, <1>4, SectionsInside DEF IInv, Placed
<1>6. WORD \in Nat \ {0}
  BY ModulesConstants
<1>7. file.symbols \in Seq(Symbol) /\ DOMAIN file.symbols = 1..Len(file.symbols)
      /\ Len(file.symbols) \in Nat
  <2>1. file.symbols \in Seq(Symbol)
    BY <1>3 DEF IsObject
  <2> QED
    BY <2>1
<1>8. FindInit = 0 \/ \E s \in InitSymbols :
        FindInit = ((IF file.symbols[s].shndx \in DOMAIN addr
                     THEN addr[file.symbols[s].shndx] ELSE 0) + file.symbols[s].value) % WORD
  <2>1. CASE InitSymbols = {}
    BY <2>1 DEF FindInit
  <2>2. CASE InitSymbols # {}
    <3>1. InitSymbols \subseteq 1..Len(file.symbols)
      BY <1>7 DEF InitSymbols
    <3> DEFINE Behind == {Len(file.symbols) - s : s \in InitSymbols}
    <3>2. Behind \subseteq Nat /\ Behind # {}
      <4>1. \A s \in InitSymbols : Len(file.symbols) - s \in Nat
        BY <3>1, <1>7
      <4> QED
        BY <4>1, <2>2
    <3>3. PICK n \in Behind : \A m \in Behind : n <= m
      BY <3>2, Least
    <3>4. PICK s \in InitSymbols : n = Len(file.symbols) - s
      BY <3>3
    <3>5. \A t \in InitSymbols : t <= s
      <4> SUFFICES ASSUME NEW t \in InitSymbols PROVE t <= s
        OBVIOUS
      <4>1. Len(file.symbols) - t \in Behind
        OBVIOUS
      <4>2. n <= Len(file.symbols) - t
        BY <4>1, <3>3
      <4>3. s \in Nat /\ t \in Nat
        BY <3>1, <1>7
      <4> QED
        BY <4>2, <4>3, <3>4, <1>7
    <3> DEFINE last == CHOOSE u \in InitSymbols : \A t \in InitSymbols : t <= u
    <3>6. last \in InitSymbols
      BY <3>5
    <3>7. FindInit = ((IF file.symbols[last].shndx \in DOMAIN addr
                       THEN addr[file.symbols[last].shndx] ELSE 0)
                      + file.symbols[last].value) % WORD
      BY <2>2 DEF FindInit
    <3> HIDE DEF last
    <3> QED
      BY <3>6, <3>7
  <2> QED
    BY <2>1, <2>2
<1>9. ASSUME NEW s \in InitSymbols
      PROVE  /\ file.symbols[s].shndx \in 1..Len(file.sections)
             /\ file.symbols[s].value \in Nat
             /\ file.symbols[s].name = "module_init" /\ s \in DOMAIN file.symbols
  <2>1. s \in 1..Len(file.symbols) /\ file.symbols[s].name = "module_init"
    BY <1>7 DEF InitSymbols
  <2>2. file.symbols[s].shndx \in Sections /\ file.symbols[s].shndx # 0
    BY DEF InitSymbols, UNDEF
  <2>3. file.symbols[s] \in Symbol
    BY <2>1, <1>7
  <2> QED
    BY <2>1, <2>2, <2>3, <1>3, <1>7 DEF Symbol
<1>10. FindInit \in 0..WORD-1
  <2>1. CASE FindInit = 0
    BY <2>1, <1>6
  <2>2. CASE FindInit # 0
    <3>1. PICK s \in InitSymbols :
            FindInit = ((IF file.symbols[s].shndx \in DOMAIN addr
                         THEN addr[file.symbols[s].shndx] ELSE 0) + file.symbols[s].value) % WORD
      BY <2>2, <1>8
    <3>2. (IF file.symbols[s].shndx \in DOMAIN addr
           THEN addr[file.symbols[s].shndx] ELSE 0) + file.symbols[s].value \in Nat
      BY <1>5, <1>9
    <3> QED
      BY <3>1, <3>2, <1>6
  <2> QED
    BY <2>1, <2>2
<1>11. ASSUME InitInText, FindInit # 0 PROVE FindInit \in Memory
  <2>1. PICK s \in InitSymbols :
          FindInit = ((IF file.symbols[s].shndx \in DOMAIN addr
                       THEN addr[file.symbols[s].shndx] ELSE 0) + file.symbols[s].value) % WORD
    BY <1>8, <1>11
  <2> DEFINE t == file.symbols[s].shndx
             v == file.symbols[s].value
  <2>2. PICK p \in DOMAIN FilesAt : file \in FilesAt[p] /\ file.kind = "file"
    BY <1>1 DEF IInv, Opened
  <2>3. file.sections[t].alloc /\ v < file.sections[t].size
    BY <2>2, <1>9, <1>11 DEF InitInText
  <2>4. t \in Allocated /\ Section(t) = file.sections[t] /\ v \in Nat
    BY <2>3, <1>3, <1>9
  <2>5. /\ addr[t] \in Nat /\ Section(t).size \in Nat /\ Base[loads] <= addr[t]
        /\ addr[t] + Section(t).size <= Base[loads] + memory_size
    BY <2>4, <1>5
  <2>6. FindInit = (addr[t] + v) % WORD
    BY <2>1, <2>4, <1>5
  <2> HIDE DEF t, v
  <2>7. /\ Base[loads] <= addr[t] + v /\ addr[t] + v < Base[loads] + memory_size
        /\ addr[t] + v \in 0..WORD-1
    <3> PICK x, z, b, m, w : /\ x = addr[t] /\ z = Section(t).size /\ b = Base[loads]
                             /\ m = memory_size /\ w = WORD
      OBVIOUS
    <3>1. x \in Nat /\ z \in Nat /\ v \in Nat /\ v < z /\ b <= x /\ x + z <= b + m
      BY <2>3, <2>4, <2>5
    <3>2. b \in Nat /\ m \in Nat /\ w \in Nat /\ b + m <= w
      BY <1>3, <1>5, <1>6
    <3>3. b <= x + v /\ x + v < b + m /\ x + v \in 0..w-1
      BY ONLY <3>1, <3>2
    <3> QED
      BY <3>3
  <2>8. FindInit = addr[t] + v
    BY <2>6, <2>7, <1>6
  <2> QED
    BY <2>7, <2>8, <1>3, <1>5 DEF Memory, Bytes
<1>12. Counted' /\ Opened' /\ Laid'
  BY <1>1, <1>4, <1>10 DEF IInv, Counted, Opened, Laid
<1>13. Entered'
  BY <1>1, <1>2, <1>11 DEF Entered
<1>14. Holding'
  BY <1>1 DEF IInv, Holding, Taken
<1>15. Patched'
  BY <1>1, <1>2 DEF IInv, Patched, Before
<1>16. Complete'
  BY <1>1, <1>2 DEF IInv, Complete, Before
<1> QED
  BY <1>12, <1>13, <1>14, <1>15, <1>16 DEF IInv

\* module_init runs, and load_module returns.
LEMMA Running ==
  ASSUME IInv, module_init \/ ReturnModule, UNCHANGED cmdvars
  PROVE  IInv'
<1>1. /\ pc \in {"init", "return"} /\ pc' \in {"return", "close"} /\ UNCHANGED boot_modules
      /\ UNCHANGED <<file, loads, held, addr, memory_size, i, j, patched, init>>
      /\ \/ pc = "init" /\ pc' = "return" /\ UNCHANGED modules
         \/ pc = "return" /\ pc' = "close" /\ modules' = modules \cup {loads}
  BY DEF module_init, ReturnModule, locals, cmdvars
<1>2. Memory' = Memory /\ (Placed' <=> Placed)
  BY <1>1, SameFile
<1>3. loads \in 1..MAX_BOOT_MODULES
  BY <1>1 DEF IInv, Opened
<1>4. Counted' /\ Opened' /\ Laid'
  <2>1. modules' \subseteq 1..loads
    <3>1. modules \subseteq 1..loads
      BY DEF IInv, Counted
    <3>2. loads \in 1..loads
      BY <1>3
    <3> QED
      BY <1>1, <3>1, <3>2
  <2>2. Counted'
    BY <1>1, <2>1 DEF IInv, Counted
  <2> QED
    BY <1>1, <1>2, <2>2 DEF IInv, Opened, Laid
<1>5. Complete' /\ Entered'
  BY <1>1 DEF Complete, Entered
<1>6. Holding'
  BY <1>1 DEF IInv, Holding, Taken
<1>7. Patched'
  BY <1>1, <1>2 DEF IInv, Patched, Before
<1> QED
  BY <1>4, <1>5, <1>6, <1>7 DEF IInv

LEMMA Step == ASSUME IInv, [CmdlineNext]_<<vars, cmdvars>> PROVE IInv'
<1>1. CASE UNCHANGED <<vars, cmdvars>>
  <2>1. /\ UNCHANGED <<file, loads, pc, held, addr, memory_size, i, j, patched, init, modules>>
        /\ UNCHANGED boot_modules
    BY <1>1 DEF vars, locals, cmdvars
  <2>2. /\ Sections' = Sections /\ Memory' = Memory /\ (Placed' <=> Placed)
        /\ \A s : Section(s)' = Section(s)
    BY <2>1, SameFile
  <2>3. Counted' /\ Opened' /\ Laid' /\ Holding'
    BY <2>1, <2>2 DEF IInv, Counted, Opened, Laid, NotPlaced, Holding, Taken
  <2>4. Patched' /\ Complete' /\ Entered'
    BY <2>1, <2>2 DEF IInv, Patched, Complete, Entered, Before
  <2> QED
    BY <2>3, <2>4 DEF IInv
<1>2. CASE Load
  BY <1>2, Closing, Refusing, Placing, Finding, Passing, Applying, Making, Running
     DEF Load, LoaderNext
<1> QED
  BY <1>1, <1>2, Collecting, Opening DEF CmdlineNext, AllLoaded

LEMMA Inductive == CmdlineSpec => []IInv
<1>1. IInv /\ [CmdlineNext]_<<vars, cmdvars>> => IInv'
  BY Step
<1> QED
  BY Start, <1>1, PTL DEF CmdlineSpec

(***************************************************************************)
(* load_module of loader.c keeps its books, and writes only into memory    *)
(* that is its own: whatever the sections' sizes and alignments, if their  *)
(* sum does not wrap in 64 bits (ModuleFiles), the two loops over them     *)
(* agree, no section overlaps another, and no relocation that passes the   *)
(* bounds test is made outside its section.                                *)
(***************************************************************************)
THEOREM ModulesInvariance == CmdlineSpec => []ModulesInv
<1>1. ASSUME IInv PROVE ModulesInv
  <2>1. Holding /\ Counted /\ Laid /\ Opened /\ Patched
    BY <1>1 DEF IInv
  <2>2. pc \in {"symtab", "rela", "init", "return"} =>
          DOMAIN addr = Allocated /\ memory_size \in Nat \ {0}
    BY <2>1, SectionsInside DEF Laid
  <2>3. held \subseteq {"file_buffer", "module_memory", "kernel_module_t"} \X (1..loads)
    <3>1. modules \subseteq 1..loads /\ (pc # "next" => loads \in 1..loads)
      BY <2>1 DEF Counted, Opened
    <3>2. Taken \subseteq {"file_buffer", "module_memory", "kernel_module_t"}
          /\ (pc = "next" => Taken = {})
      BY DEF Taken
    <3> QED
      BY <2>1, <3>1, <3>2 DEF Holding
  <2>4. \A e \in DOMAIN patched : e[1] < i \/ (e[1] = i /\ e[2] < j)
    BY <2>1 DEF Patched, Before
  <2>5. TypeOK
    BY <2>1, <2>2, <2>3, <2>4 DEF TypeOK, Holding, Counted
  <2>6. WritesInside
    <3>1. CASE NotPlaced
      <4>1. DOMAIN addr = {} /\ DOMAIN patched = {}
        BY <3>1 DEF NotPlaced
      <4> QED
        BY <4>1 DEF WritesInside
    <3>2. CASE Placed /\ pc # "next"
      <4>1. /\ DOMAIN addr = Allocated /\ memory_size \in Nat \ {0}
            /\ \A s \in Allocated :
                 /\ addr[s] \in Nat /\ Section(s).size \in Nat
                 /\ Base[loads] <= addr[s]
                 /\ addr[s] + Section(s).size <= Base[loads] + memory_size
                 /\ \A r \in Allocated : r < s => addr[r] + Section(r).size <= addr[s]
        BY <2>1, <3>2, SectionsInside
      <4>2. Base[loads] \in Nat /\ Allocated \subseteq Nat
        BY <2>1, <3>2, TheFile
      <4>3. ASSUME NEW s \in Allocated
            PROVE  Bytes(addr[s], Section(s).size) \subseteq Memory
        BY <4>1, <4>2 DEF Bytes, Memory
      <4>4. ASSUME NEW s \in Allocated, NEW t \in Allocated, s < t
            PROVE  Bytes(addr[s], Section(s).size) \cap Bytes(addr[t], Section(t).size) = {}
        BY <4>1, <4>4 DEF Bytes
      <4>5. ASSUME NEW s \in Allocated, NEW t \in Allocated, s # t
            PROVE  Bytes(addr[s], Section(s).size) \cap Bytes(addr[t], Section(t).size) = {}
        <5>1. s < t \/ t < s
          BY <4>2, <4>5
        <5> QED
          BY <4>4, <5>1
      <4> QED
        BY <2>1, <4>1, <4>3, <4>5 DEF WritesInside, Patched
    <3> QED
      BY <2>1, <3>1, <3>2 DEF Laid, Holding
  <2> QED
    BY <2>5, <2>6 DEF ModulesInv
<1>2. IInv => ModulesInv
  BY <1>1
<1> QED
  BY Inductive, <1>2, PTL

(***************************************************************************)
(* Every way out of load_module and load_module_from_file gives back what  *)
(* it has allocated: between two modules only the memory of those that     *)
(* were loaded is held.                                                    *)
(***************************************************************************)
THEOREM ModulesNothingLeaked == CmdlineSpec => []NothingLeaked
<1>1. IInv => NothingLeaked
  BY DEF IInv, Holding, Taken, NothingLeaked
<1> QED
  BY Inductive, <1>1, PTL

(***************************************************************************)
(* module_init runs only when every relocation of the module has been made *)
(* and inside the memory of the module, for the files that a compiler      *)
(* makes.                                                                  *)
(***************************************************************************)
THEOREM ModulesRunWhole == ASSUME InitInText PROVE CmdlineSpec => []RunsWhole
<1>1. ASSUME IInv, pc = "init"
      PROVE  RunsWhole
  <2>1. init \in Memory
    BY <1>1 DEF IInv, Entered
  <2>2. <<"module_memory", loads>> \in held
    BY <1>1 DEF IInv, Holding, Taken
  <2>3. ASSUME NEW s \in Sections, Section(s).type = "rela", Section(Section(s).info).alloc,
               NEW k \in DOMAIN Section(s).relas, Section(s).relas[k].type # "NONE"
        PROVE  <<s, k>> \in DOMAIN patched
    <3>1. i \notin Sections /\ i \in Nat
      BY <1>1 DEF IInv, Complete, Counted
    <3>2. Sections = 0..Len(file.sections) /\ Len(file.sections) \in Nat
      BY <1>1, TheFile DEF IInv
    <3>3. Before(s, k)
      BY <3>1, <3>2 DEF Before
    <3> QED
      BY <3>3, <1>1, <2>3 DEF IInv, Complete
  <2> QED
    BY <2>1, <2>2, <2>3 DEF RunsWhole
<1>2. IInv => RunsWhole
  BY <1>1 DEF RunsWhole
<1> QED
  BY Inductive, <1>2, PTL
-----------------------------------------------------------------------------
(* What a signed field of 32 bits can name *)

\* The remainder is the only number from 0 to m - 1 that is as far from x as a
\* multiple of m.
LEMMA Remainder ==
  ASSUME NEW m \in Nat \ {0}, NEW q \in Int, NEW r \in 0..m-1, NEW x \in Int, x = m * q + r
  PROVE  x % m = r
<1>1. PICK d \in Int, e \in 0..m-1 : d = x \div m /\ e = x % m /\ x = m * d + e
  OBVIOUS
<1>2. m * (q - d) = e - r
  BY <1>1
<1> DEFINE k == q - d
<1>3. k \in Int /\ m * k = e - r
  BY <1>1, <1>2
<1> HIDE DEF k
<1>4. ~(k >= 1)
  <2> SUFFICES ASSUME k >= 1 PROVE FALSE
    OBVIOUS
  <2>1. PICK c \in Nat : k = c + 1
    <3>1. k - 1 \in Nat /\ k = (k - 1) + 1
      BY <1>3
    <3> QED
      BY <3>1
  <2>2. m * c \in Nat /\ m * k = m * c + m
    BY <2>1
  <2> QED
    BY <1>1, <1>3, <2>2
<1>5. ~(k <= -1)
  <2> SUFFICES ASSUME k <= -1 PROVE FALSE
    OBVIOUS
  <2>1. PICK c \in Nat : k = -c - 1
    <3>1. -k - 1 \in Nat /\ k = -(-k - 1) - 1
      BY <1>3
    <3> QED
      BY <3>1
  <2>2. m * c \in Nat /\ m * k = -(m * c) - m
    BY <2>1
  <2> QED
    BY <1>1, <1>3, <2>2
<1>6. k = 0
  BY <1>3, <1>4, <1>5
<1> QED
  BY <1>1, <1>3, <1>6

\* Signed undoes the cut to a field for what lies in half a field around 0.
LEMMA SignedField ==
  ASSUME NEW d \in Int, -(FIELD \div 2) <= d, d < FIELD \div 2
  PROVE  Signed(d % FIELD) = d
<1>1. FIELD \in Nat \ {0} /\ FIELD % 2 = 0
  BY ModulesConstants
<1>2. PICK h \in Nat : h = FIELD \div 2 /\ FIELD = 2 * h
  BY <1>1
<1>3. CASE d >= 0
  <2>1. d = FIELD * 0 + d /\ d \in 0..FIELD-1
    BY <1>1, <1>2, <1>3
  <2>2. d % FIELD = d
    BY <1>1, <2>1, Remainder
  <2> QED
    BY <2>2, <1>2 DEF Signed
<1>4. CASE d < 0
  <2>1. d = FIELD * (-1) + (d + FIELD) /\ d + FIELD \in 0..FIELD-1
    BY <1>1, <1>2, <1>4
  <2>2. d % FIELD = d + FIELD
    BY <1>1, <2>1, Remainder
  <2>3. d + FIELD >= h
    BY <1>2
  <2> QED
    BY <2>2, <2>3, <1>2 DEF Signed
<1> QED
  BY <1>3, <1>4

\* A word of the topmost addresses survives the cut to a signed field.
LEMMA SignedHigh ==
  ASSUME NEW v \in High
  PROVE  Signed(v % FIELD) % WORD = v % WORD
<1>1. FIELD \in Nat \ {0} /\ FIELD % 2 = 0 /\ WORD \in Nat \ {0} /\ WORD % FIELD = 0
  BY ModulesConstants
<1>2. PICK h \in Nat : h = FIELD \div 2 /\ FIELD = 2 * h
  BY <1>1
<1>3. PICK q \in Int : WORD = FIELD * q
  <2>1. PICK d \in Int, e \in Int : d = WORD \div FIELD /\ e = WORD % FIELD /\ WORD = FIELD * d + e
    BY <1>1
  <2>2. FIELD * d \in Int /\ e = 0
    BY <2>1, <1>1
  <2> QED
    BY <2>1, <2>2
<1>0. FIELD <= WORD
  <2>1. CASE WORD < FIELD
    <3>1. WORD = FIELD * 0 + WORD /\ WORD \in 0..FIELD-1
      BY <1>1, <2>1
    <3>2. WORD % FIELD = WORD
      BY <1>1, <3>1, Remainder
    <3> QED
      BY <1>1, <3>2
  <2> QED
    BY <1>1, <2>1
<1> DEFINE d == v - WORD
<1>4. d \in Int /\ -h <= d /\ d < 0 /\ v \in Nat
  BY <1>0, <1>1, <1>2 DEF High
<1>5. v % FIELD = d % FIELD
  <2>1. d + FIELD \in 0..FIELD-1
    BY <1>1, <1>2, <1>4
  <2>2. d % FIELD = d + FIELD
    <3>1. d = FIELD * (-1) + (d + FIELD)
      BY <1>1, <1>4
    <3> HIDE DEF d
    <3> QED
      BY <1>1, <1>4, <2>1, <3>1, Remainder
  <2>3. v % FIELD = d + FIELD
    <3>1. v = FIELD * (q - 1) + (d + FIELD)
      <4>1. FIELD * (q - 1) = FIELD * q - FIELD
        BY <1>1
      <4>2. FIELD * (q - 1) = WORD - FIELD
        BY <4>1, <1>3
      <4>3. WORD - FIELD + (v - WORD + FIELD) = v
        BY <1>1, <1>4
      <4> QED
        BY <4>2, <4>3
    <3>2. PICK c \in Int, r \in 0..FIELD-1 : c = q - 1 /\ r = d + FIELD
      BY <2>1
    <3> HIDE DEF d
    <3>3. v = FIELD * c + r
      BY <3>1, <3>2
    <3>4. v % FIELD = r
      BY <1>1, <1>4, <3>3, Remainder
    <3> QED
      BY <3>2, <3>4
  <2> QED
    BY <2>2, <2>3
<1>6. Signed(v % FIELD) = d
  <2> HIDE DEF d
  <2> QED
    BY <1>2, <1>4, <1>5, SignedField
<1>7. d % WORD = v
  <2>1. d = WORD * (-1) + v /\ v \in 0..WORD-1
    BY <1>1, <1>4
  <2> HIDE DEF d
  <2> QED
    BY <1>1, <1>4, <2>1, Remainder
<1>8. v % WORD = v
  <2>1. v = WORD * 0 + v /\ v \in 0..WORD-1
    BY <1>1, <1>4
  <2> QED
    BY <1>1, <2>1, Remainder
<1> QED
  BY <1>6, <1>7, <1>8

\* The place of the entry and, if the field is a signed one, the value are where
\* the kernel is.
LEMMA EntryHigh ==
  ASSUME IInv, ApplyEntry, InReach, Entry.type \in {"PC32", "PLT32", "32S"}
  PROVE  /\ addr[Rela.info] + Entry.offset \in High
         /\ SymbolValue + Entry.addend \in High
<1> DEFINE sym == file.symbols[Entry.sym]
<1>1. /\ pc = "rela" /\ i \in Sections
      /\ Rela.type = "rela" /\ Rela.info \in Sections /\ Section(Rela.info).alloc
      /\ ~(j > Len(Rela.relas))
      /\ InSection /\ Resolves
  BY DEF ApplyEntry, AtEntry, InRela, Relevant, RelaValid, AllMade, Patchable
<1>2. /\ Len(file.sections) \in Nat /\ Sections = 0..Len(file.sections)
      /\ file.sections \in Seq(SectionHeader)
      /\ \A n \in 1..Len(file.sections) : Section(n) = file.sections[n]
      /\ Allocated = {s \in 1..Len(file.sections) : file.sections[s].alloc}
      /\ Base[loads] + TotalSize <= WORD
  BY <1>1, TheFile DEF IInv
<1>3. i \in 1..Len(file.sections) /\ Rela.info \in Allocated
  <2>1. Section(0).type # "rela" /\ Section(0).alloc = FALSE
    BY DEF Section, NullSection
  <2> QED
    BY <1>1, <1>2, <2>1 DEF Rela
<1>4. Rela = file.sections[i] /\ Rela \in SectionHeader
  BY <1>2, <1>3 DEF Rela
<1>5. j \in DOMAIN Rela.relas /\ Entry \in Relocation
  <2>1. Rela.relas \in Seq(Relocation)
    BY <1>4 DEF SectionHeader
  <2>2. j \in Nat \ {0}
    BY DEF IInv, Counted
  <2>3. j \in 1..Len(Rela.relas)
    BY <1>1, <2>1, <2>2
  <2> QED
    BY <2>1, <2>3 DEF Entry
<1>6. Placed /\ loads \in 1..MAX_BOOT_MODULES
  BY <1>1 DEF IInv, Laid, Opened
<1>7. /\ DOMAIN addr = Allocated
      /\ addr[Rela.info] \in Nat /\ Section(Rela.info).size \in Nat
      /\ Base[loads] <= addr[Rela.info]
      /\ addr[Rela.info] + Section(Rela.info).size <= Base[loads] + memory_size
      /\ memory_size = TotalSize /\ memory_size \in Nat
  BY <1>1, <1>3, <1>6, SectionsInside DEF IInv, Placed
<1>8. addr[Rela.info] + Entry.offset \in High
  <2>1. Entry.offset \in Nat
    BY <1>5 DEF Relocation
  <2>2. Entry.offset <= Section(Rela.info).size /\ 4 <= Section(Rela.info).size - Entry.offset
    BY <1>1 DEF InSection, Width
  <2>3. Base[loads] \in High /\ Base[loads] \in Nat /\ WORD \in Nat /\ FIELD \div 2 \in Int
    BY <1>6, ModulesConstants
  <2>4. \A w, h, b, a, o, z, m \in Int :
          /\ w - h <= b /\ b <= a /\ 0 <= o /\ a + z <= b + m /\ b + m <= w
          /\ o <= z /\ 4 <= z - o
          => a + o \in w - h .. w - 1
    OBVIOUS
  <2>5. WORD - FIELD \div 2 <= Base[loads]
    BY <2>3 DEF High
  <2>6. Base[loads] + memory_size <= WORD
    BY <1>2, <1>7
  <2> QED
    BY <1>7, <2>1, <2>2, <2>3, <2>4, <2>5, <2>6 DEF High
<1>9. Entry.sym \in DOMAIN file.symbols /\ HasAddress(file, Entry.sym)
  BY <1>1, <1>2, <1>7 DEF Resolves, HasAddress
<1>10. SymbolValue = Address(file, loads, Entry.sym)
  <2>1. CASE sym.shndx = UNDEF \/ sym.shndx = ABS
    BY <2>1 DEF SymbolValue, Address, UNDEF, ABS
  <2>2. CASE ~(sym.shndx = UNDEF \/ sym.shndx = ABS)
    <3>1. sym.shndx \in Allocated
      BY <1>1, <1>7, <2>2 DEF Resolves
    <3>2. addr[sym.shndx] = Place(sym.shndx) /\ Section(sym.shndx) = file.sections[sym.shndx]
      BY <1>2, <1>6, <3>1 DEF Placed
    <3> QED
      BY <2>2, <3>2 DEF SymbolValue, Address, Place
  <2> QED
    BY <2>1, <2>2
<1>11. Address(file, loads, Entry.sym) + Entry.addend \in High
  <2>1. PICK p \in DOMAIN FilesAt : file \in FilesAt[p] /\ file.kind = "file"
    BY <1>1 DEF IInv, Opened
  <2>2. Entry = file.sections[i].relas[j] /\ i \in DOMAIN file.sections
        /\ j \in DOMAIN file.sections[i].relas
    BY <1>2, <1>3, <1>4, <1>5 DEF Entry
  <2> QED
    BY <1>6, <1>9, <2>1, <2>2 DEF InReach
<1> QED
  BY <1>8, <1>10, <1>11

\* A patch means what it was made for.
LEMMA Reaching ==
  ASSUME InReach, IInv, PatchesReach, [CmdlineNext]_<<vars, cmdvars>>
  PROVE  PatchesReach'
<1>1. CASE patched' = patched
  BY <1>1 DEF PatchesReach, Meaning, Signed
<1>2. CASE patched' = <<>>
  BY <1>2 DEF PatchesReach
<1>3. CASE ApplyEntry
  <2> DEFINE new == <<i, j>>
             at == addr[Rela.info] + Entry.offset
             value == SymbolValue + Entry.addend
  <2>1. CASE Entry.type = "NONE"
    BY <1>1, <1>3, <2>1 DEF ApplyEntry
  <2>2. CASE Entry.type # "NONE"
    <3>1. /\ DOMAIN patched' = DOMAIN patched \cup {new}
          /\ patched'[new] = [type |-> Entry.type, at |-> at, value |-> value,
                              stored |-> Stored(Entry.type, value, at)]
          /\ \A e \in DOMAIN patched : e # new => patched'[e] = patched[e]
      BY <1>3, <2>2 DEF ApplyEntry
    <3>2. Entry.type \in {"64", "PC32", "PLT32", "32", "32S"}
      BY <1>3, <2>2 DEF ApplyEntry, Patchable
    <3>3. PICK p : p = [type |-> Entry.type, at |-> at, value |-> value,
                        stored |-> Stored(Entry.type, value, at)]
      OBVIOUS
    <3>4. p.type # "32" => Meaning(p) = p.value % WORD
      <4>1. CASE Entry.type = "64"
        BY <3>3, <4>1 DEF Meaning, Stored
      <4>2. CASE Entry.type \in {"PC32", "PLT32"}
        <5>1. at \in High /\ value \in High
          BY <1>3, <4>2, EntryHigh
        <5> HIDE DEF at, value
        <5>2. /\ value - at \in Int /\ -(FIELD \div 2) <= value - at /\ value - at < FIELD \div 2
              /\ at + (value - at) = value
          BY <5>1, ModulesConstants DEF High
        <5>3. Signed((value - at) % FIELD) = value - at
          BY <5>2, SignedField
        <5>4. Meaning(p) = (at + Signed((value - at) % FIELD)) % WORD
          BY <3>3, <4>2 DEF Meaning, Stored
        <5> QED
          BY <3>3, <5>2, <5>3, <5>4
      <4>3. CASE Entry.type = "32S"
        <5>1. value \in High
          BY <1>3, <4>3, EntryHigh
        <5> HIDE DEF at, value
        <5>2. Meaning(p) = Signed(value % FIELD) % WORD
          BY <3>3, <4>3 DEF Meaning, Stored
        <5> QED
          BY <3>3, <5>1, <5>2, SignedHigh
      <4>4. CASE Entry.type = "32"
        BY <3>3, <4>4
      <4> QED
        BY <3>2, <4>1, <4>2, <4>3, <4>4
    <3>5. ASSUME NEW e \in DOMAIN patched', patched'[e].type # "32"
          PROVE  Meaning(patched'[e]) = patched'[e].value % WORD
      <4>1. CASE e = new
        BY <3>1, <3>3, <3>4, <3>5, <4>1
      <4>2. CASE e # new
        BY <3>1, <3>5, <4>2 DEF PatchesReach
      <4> QED
        BY <4>1, <4>2
    <3> QED
      BY <3>5 DEF PatchesReach, Meaning, Signed
  <2> QED
    BY <2>1, <2>2
<1>4. patched' = patched \/ patched' = <<>> \/ ApplyEntry
  BY DEF CmdlineNext, NoCmdline, ReadFlag, NextArgument, load_module_from_file, Open, Load,
     LoaderNext, AllLoaded, Close, RefuseFile, PlaceSections, RefuseSymbols, FindSymbols,
     NextSection, RefuseRela, RefuseEntry, Refuse, MakeModule, module_init, ReturnModule,
     vars, locals, cmdvars
<1> QED
  BY <1>1, <1>2, <1>3, <1>4

(***************************************************************************)
(* load_module never tests that the value of a relocation fits the field   *)
(* of 32 bits that it is stored in, and need not: wherever kmalloc puts    *)
(* the module, a signed field names what the entry means, in the kernel    *)
(* and in the module, for files compiled for the kernel's memory model.    *)
(***************************************************************************)
THEOREM ModulesPatchesReach == ASSUME InReach PROVE CmdlineSpec => []PatchesReach
<1>1. CmdlineInit => PatchesReach
  BY DEF CmdlineInit, Init, PatchesReach
<1>2. IInv /\ PatchesReach /\ [CmdlineNext]_<<vars, cmdvars>> => PatchesReach'
  BY Reaching
<1> QED
  BY Inductive, <1>1, <1>2, PTL DEF CmdlineSpec

-----------------------------------------------------------------------------
(* Folding a sequence *)

\* Induction up to a number.
LEMMA UpToN ==
  ASSUME NEW n \in Nat, NEW G, 0 \in G, \A k \in 0..n : k \in G /\ k < n => k + 1 \in G
  PROVE  \A k \in 0..n : k \in G
<1> DEFINE H == {k \in Nat : k <= n => k \in G}
<1>1. 0 \in H
  BY ONLY 0 \in G
<1>2. ASSUME NEW k \in Nat, k \in H PROVE k + 1 \in H
  <2>1. k + 1 <= n => k \in 0..n /\ k < n /\ k <= n
    BY ONLY n \in Nat, k \in Nat
  <2> QED
    BY <1>2, <2>1
<1> HIDE DEF H
<1>3. \A k \in Nat : k \in H
  BY <1>1, <1>2, Induction
<1> QED
  BY <1>3 DEF H

\* The largest index of a set, which is the one that MapThenFoldSet takes.
LEMMA LargestIs ==
  ASSUME NEW n \in Nat, NEW s \in SUBSET (1..n), s # {}
  PROVE  Max(s) \in s /\ \A k \in s : k <= Max(s)
<1> DEFINE G == {m \in Nat : \A t \in SUBSET (1..m) :
                   t # {} => \E x \in t : \A k \in t : x >= k}
<1>1. 0 \in G
  <2>1. 1..0 = {}
    OBVIOUS
  <2> QED
    BY <2>1
<1>2. ASSUME NEW m \in Nat, m \in G PROVE m + 1 \in G
  <2> SUFFICES ASSUME NEW t \in SUBSET (1..(m + 1)), t # {}
               PROVE  \E x \in t : \A k \in t : x >= k
    OBVIOUS
  <2>1. CASE m + 1 \in t
    BY <2>1
  <2>2. CASE m + 1 \notin t
    <3>1. t \in SUBSET (1..m)
      BY <2>2
    <3> QED
      BY <1>2, <3>1
  <2> QED
    BY <2>1, <2>2
<1> HIDE DEF G
<1>3. n \in G
  BY <1>1, <1>2, Induction
<1>4. \E x \in s : \A k \in s : x >= k
  BY <1>3 DEF G
<1> QED
  BY <1>4 DEF Max

LEMMA TopIs == ASSUME NEW k \in Nat \ {0} PROVE Max(1..k) = k
<1> PICK x : x = Max(1..k)
  OBVIOUS
<1>1. k \in 1..k /\ 1..k # {} /\ 1..k \in SUBSET (1..k)
  OBVIOUS
<1>2. x \in 1..k /\ \A l \in 1..k : l <= x
  BY <1>1, LargestIs
<1>3. x \in 1..k /\ k <= x
  BY <1>1, <1>2
<1> QED
  BY ONLY <1>3, k \in Nat, x = Max(1..k)

LEMMA UpTo ==
  ASSUME NEW n \in Nat, NEW k \in 1..n
  PROVE  /\ k \in Nat \ {0} /\ k \in 0..n /\ k - 1 \in 0..n
         /\ 1..k # {} /\ 1..k \in SUBSET (1..n) /\ (1..k) \ {k} = 1..(k - 1)
         /\ 1..(k - 1) \in SUBSET (1..n)
<1>1. k \in Nat \ {0} /\ k \in 0..n /\ k - 1 \in 0..n /\ 1..k # {}
  OBVIOUS
<1>2. (1..k) \ {k} = 1..(k - 1)
  OBVIOUS
<1>3. \A l \in 1..k : l \in 1..n
  OBVIOUS
<1>4. \A l \in 1..(k - 1) : l \in 1..n
  OBVIOUS
<1> QED
  BY <1>1, <1>2, <1>3, <1>4

\* What a fold computes for the sets of the first indices.
Folds(F, base, seq, n, it) ==
  \A s \in SUBSET (1..n) :
    it[s] = IF s = {} THEN base ELSE F[it[s \ {Max(s)}]][seq[Max(s)]]

Foldable(A, F, base, seq, n) ==
  \E it \in [SUBSET (1..n) -> A] : Folds(F, base, seq, n, it)

LEMMA FoldExists ==
  ASSUME NEW A, NEW B, NEW F \in [A -> [B -> A]], NEW base \in A, NEW n \in Nat, NEW seq,
         \A k \in 1..n : seq[k] \in B
  PROVE  Foldable(A, F, base, seq, n)
<1> DEFINE G == {m \in Nat : m <= n => Foldable(A, F, base, seq, m)}
<1>1. 0 \in G
  <2>1. SUBSET (1..0) = {{}}
    OBVIOUS
  <2>2. [s \in SUBSET (1..0) |-> base] \in [SUBSET (1..0) -> A]
    OBVIOUS
  <2>3. Folds(F, base, seq, 0, [s \in SUBSET (1..0) |-> base])
    BY <2>1 DEF Folds
  <2> QED
    BY <2>2, <2>3 DEF Foldable
<1>2. ASSUME NEW m \in Nat, m + 1 <= n, Foldable(A, F, base, seq, m)
      PROVE  Foldable(A, F, base, seq, m + 1)
  <2>1. PICK it \in [SUBSET (1..m) -> A] : Folds(F, base, seq, m, it)
    BY <1>2 DEF Foldable
  <2> DEFINE g == [s \in SUBSET (1..(m + 1)) |->
                     IF m + 1 \in s THEN F[it[s \ {m + 1}]][seq[m + 1]] ELSE it[s]]
  <2>2. ASSUME NEW s \in SUBSET (1..(m + 1)), m + 1 \in s
        PROVE  /\ s \ {m + 1} \in SUBSET (1..m) /\ Max(s) = m + 1
               /\ g[s] = F[it[s \ {m + 1}]][seq[m + 1]] /\ g[s] \in A
               /\ g[s \ {m + 1}] = it[s \ {m + 1}]
    <3>1. s \ {m + 1} \in SUBSET (1..m)
      OBVIOUS
    <3>2. Max(s) \in s /\ m + 1 <= Max(s) /\ Max(s) \in 1..(m + 1)
      <4>1. m + 1 \in Nat /\ s # {} /\ s \in SUBSET (1..(m + 1))
        BY <2>2
      <4>2. Max(s) \in s /\ \A k \in s : k <= Max(s)
        BY ONLY <4>1, LargestIs
      <4> QED
        BY <2>2, <4>2
    <3>3. g[s] = F[it[s \ {m + 1}]][seq[m + 1]]
      BY <2>2
    <3>4. it[s \ {m + 1}] \in A /\ seq[m + 1] \in B
      <4>1. m + 1 \in 1..n
        BY ONLY <1>2, n \in Nat
      <4> QED
        BY <3>1, <4>1
    <3>5. g[s \ {m + 1}] = it[s \ {m + 1}]
      OBVIOUS
    <3> HIDE DEF g
    <3>6. Max(s) = m + 1
      <4> PICK x : x = Max(s)
        OBVIOUS
      <4>1. x \in 1..(m + 1) /\ m + 1 <= x
        BY <3>2
      <4>2. x = m + 1
        BY ONLY <4>1, m \in Nat
      <4> QED
        BY <4>2
    <3> QED
      BY <3>1, <3>3, <3>4, <3>5, <3>6
  <2>3. ASSUME NEW s \in SUBSET (1..(m + 1)), m + 1 \notin s
        PROVE  /\ s \in SUBSET (1..m) /\ g[s] = it[s] /\ g[s] \in A
               /\ g[s \ {Max(s)}] = it[s \ {Max(s)}]
    <3>1. s \in SUBSET (1..m)
      <4>1. \A k \in 1..(m + 1) : k # m + 1 => k \in 1..m
        BY ONLY m \in Nat
      <4>2. \A k \in s : k \in 1..(m + 1) /\ k # m + 1
        BY <2>3
      <4> QED
        BY <4>1, <4>2
    <3>2. m + 1 \notin s \ {Max(s)} /\ s \ {Max(s)} \in SUBSET (1..(m + 1))
      BY <2>3
    <3>3. g[s] = it[s] /\ g[s \ {Max(s)}] = it[s \ {Max(s)}]
      BY <2>3, <3>2
    <3> HIDE DEF g
    <3> QED
      BY <3>1, <3>3
  <2>4. g \in [SUBSET (1..(m + 1)) -> A]
    <3>1. \A s \in SUBSET (1..(m + 1)) : g[s] \in A
      BY <2>2, <2>3
    <3> QED
      BY <3>1
  <2>5. Folds(F, base, seq, m + 1, g)
    <3> SUFFICES ASSUME NEW s \in SUBSET (1..(m + 1))
                 PROVE  g[s] = IF s = {} THEN base ELSE F[g[s \ {Max(s)}]][seq[Max(s)]]
      BY DEF Folds
    <3> HIDE DEF g
    <3>1. CASE m + 1 \in s
      BY <2>2, <3>1
    <3>2. CASE m + 1 \notin s
      BY <2>1, <2>3, <3>2 DEF Folds
    <3> QED
      BY <3>1, <3>2
  <2> HIDE DEF g
  <2> QED
    BY <2>4, <2>5 DEF Foldable
<1>3. ASSUME NEW m \in Nat, m \in G PROVE m + 1 \in G
  <2>1. m + 1 <= n => m <= n /\ m + 1 \in Nat
    BY ONLY m \in Nat, n \in Nat
  <2> QED
    BY <1>2, <1>3, <2>1
<1> HIDE DEF G
<1>4. n \in G
  BY <1>1, <1>3, Induction
<1> QED
  BY <1>4 DEF G

-----------------------------------------------------------------------------
(* Reading the command line *)

PieceSet == DOMAIN LengthOf

LEMMA LengthTyped == \A n \in Nat : \A p \in PieceSet : n + LengthOf[p] \in Nat
  BY CmdlineConstants DEF PieceSet

LEMMA NamedTyped ==
  \A ws \in Seq(Seq(PieceSet)) : \A word \in Seq(PieceSet) :
    IfNamed(ws, word) \in Seq(Seq(PieceSet))
<1> SUFFICES ASSUME NEW ws \in Seq(Seq(PieceSet)), NEW word \in Seq(PieceSet)
             PROVE  Append(ws, word) \in Seq(Seq(PieceSet))
  BY DEF IfNamed
<1> PICK S : S = Seq(PieceSet)
  OBVIOUS
<1>1. ws \in Seq(S) /\ word \in S
  OBVIOUS
<1>2. Append(ws, word) \in Seq(S)
  BY <1>1
<1> QED
  BY <1>2

\* The characters of an argument, piece by piece.
LEMMA CharactersAre ==
  ASSUME NEW text \in Seq(PieceSet)
  PROVE  \E w \in [0..Len(text) -> Nat] :
           /\ w[0] = 0
           /\ \A k \in 1..Len(text) : w[k] = w[k - 1] + LengthOf[text[k]]
           /\ Characters(text) = w[Len(text)]
<1> DEFINE n == Len(text)
           F == [a \in Nat |-> [b \in PieceSet |-> a + LengthOf[b]]]
           Body(h, s) == IF s = {} THEN 0
                         ELSE h[s \ {Max(s)}] + LengthOf[text[Max(s)]]
           Iter(h) == h = [s \in SUBSET DOMAIN text |-> Body(h, s)]
<1>0. n \in Nat /\ DOMAIN text = 1..n /\ \A k \in 1..n : text[k] \in PieceSet
  OBVIOUS
<1>1. Characters(text) = (CHOOSE h : Iter(h))[DOMAIN text]
  BY DEF Characters, FoldLeft, MapThenFoldSet
<1>2. \E h : Iter(h)
  <2>1. F \in [Nat -> [PieceSet -> Nat]]
    BY LengthTyped
  <2>2. 0 \in Nat
    OBVIOUS
  <2> HIDE DEF F
  <2>3. PICK h \in [SUBSET (1..n) -> Nat] : Folds(F, 0, text, n, h)
    <3> PICK fn, L, C, r : fn = F /\ L = Nat /\ C = PieceSet /\ r = 0
      OBVIOUS
    <3>1. fn \in [L -> [C -> L]] /\ r \in L /\ \A k \in 1..n : text[k] \in C
      BY <1>0, <2>1, <2>2
    <3>2. Foldable(L, fn, r, text, n)
      <4> HIDE DEF n
      <4> QED BY ONLY <1>0, <3>1, FoldExists
    <3> QED
      BY <3>2 DEF Foldable
  <2>4. ASSUME NEW s \in SUBSET (1..n) PROVE h[s] = Body(h, s)
    <3>1. CASE s = {}
      BY <2>3, <3>1 DEF Folds
    <3>2. CASE s # {}
      <4>1. Max(s) \in 1..n
        BY <1>0, <3>2, LargestIs
      <4>2. h[s \ {Max(s)}] \in Nat /\ text[Max(s)] \in PieceSet
        BY <1>0, <4>1
      <4>3. F[h[s \ {Max(s)}]][text[Max(s)]] = h[s \ {Max(s)}] + LengthOf[text[Max(s)]]
        BY <4>2 DEF F
      <4> QED
        BY <2>3, <3>2, <4>3 DEF Folds
    <3> QED
      BY <3>1, <3>2
  <2> HIDE DEF Body, n
  <2>5. h = [s \in SUBSET (1..n) |-> Body(h, s)]
    BY <2>4
  <2> QED
    BY <1>0, <2>5
<1> PICK h : h = CHOOSE g : Iter(g)
  OBVIOUS
<1>3. h = [s \in SUBSET (1..n) |-> Body(h, s)]
  <2>1. Iter(h)
    BY <1>2
  <2> QED
    BY <1>0, <2>1
<1>4. ASSUME NEW s \in SUBSET (1..n) PROVE h[s] = Body(h, s)
  <2> HIDE DEF Body
  <2> QED
    BY <1>3
<1> DEFINE v == [k \in 0..n |-> h[1..k]]
<1>5. v[0] = 0
  <2>1. 0 \in 0..n /\ 1..0 = {} /\ 1..0 \in SUBSET (1..n)
    BY <1>0
  <2> HIDE DEF n
  <2> QED
    BY <1>4, <2>1
<1>6. ASSUME NEW k \in 1..n PROVE v[k] = v[k - 1] + LengthOf[text[k]]
  <2>1. /\ k \in Nat \ {0} /\ k \in 0..n /\ k - 1 \in 0..n
        /\ 1..k # {} /\ 1..k \in SUBSET (1..n) /\ (1..k) \ {k} = 1..(k - 1)
    <3> HIDE DEF n
    <3> QED BY ONLY <1>0, UpTo, k \in 1..n
  <2>2. Max(1..k) = k
    BY <2>1, TopIs
  <2> HIDE DEF n
  <2>3. h[1..k] = h[1..(k - 1)] + LengthOf[text[k]]
    BY <1>4, <2>1, <2>2
  <2> QED
    BY <2>1, <2>3
<1>7. \A k \in 0..n : v[k] \in Nat
  <2> DEFINE G == {k \in 0..n : v[k] \in Nat}
  <2>1. 0 \in G
    <3>1. 0 \in Nat /\ 0 \in 0..n
      BY <1>0
    <3> HIDE DEF v, n
    <3> QED BY <1>5, <3>1
  <2>2. ASSUME NEW k \in 0..n, k \in G, k < n PROVE k + 1 \in G
    <3>1. k + 1 \in 1..n /\ k + 1 \in 0..n /\ (k + 1) - 1 = k
      BY <1>0, <2>2
    <3>2. v[k + 1] = v[k] + LengthOf[text[k + 1]]
      BY <1>6, <3>1
    <3> HIDE DEF v, n
    <3> QED
      BY <1>0, <2>2, <3>1, <3>2, LengthTyped
  <2> HIDE DEF G, n
  <2>3. \A k \in 0..n : k \in G
    BY <1>0, <2>1, <2>2, UpToN
  <2> QED
    BY <2>3 DEF G
<1>8. v \in [0..n -> Nat]
  BY <1>7
<1>9. Characters(text) = v[n]
  BY <1>0, <1>1
<1> HIDE DEF v
<1> QED
  BY <1>5, <1>6, <1>8, <1>9

\* The arguments that name a module, one by one.
LEMMA NamedAre ==
  ASSUME NEW words \in Seq(Seq(PieceSet))
  PROVE  \E w \in [0..Len(words) -> Seq(Seq(PieceSet))] :
           /\ w[0] = <<>>
           /\ \A k \in 1..Len(words) : w[k] = IfNamed(w[k - 1], words[k])
           /\ Named(words) = w[Len(words)]
<1> DEFINE n == Len(words)
           F == [a \in Seq(Seq(PieceSet)) |-> [b \in Seq(PieceSet) |-> IfNamed(a, b)]]
           Body(h, s) == IF s = {} THEN <<>>
                         ELSE IfNamed(h[s \ {Max(s)}], words[Max(s)])
           Iter(h) == h = [s \in SUBSET DOMAIN words |-> Body(h, s)]
<1>0. n \in Nat /\ DOMAIN words = 1..n /\ \A k \in 1..n : words[k] \in Seq(PieceSet)
  OBVIOUS
<1>1. Named(words) = (CHOOSE h : Iter(h))[DOMAIN words]
  BY DEF Named, FoldLeft, MapThenFoldSet
<1>2. \E h : Iter(h)
  <2>1. F \in [Seq(Seq(PieceSet)) -> [Seq(PieceSet) -> Seq(Seq(PieceSet))]]
    BY NamedTyped
  <2>2. <<>> \in Seq(Seq(PieceSet))
    OBVIOUS
  <2> HIDE DEF F
  <2>3. PICK h \in [SUBSET (1..n) -> Seq(Seq(PieceSet))] : Folds(F, <<>>, words, n, h)
    <3> PICK fn, L, C, r : fn = F /\ L = Seq(Seq(PieceSet)) /\ C = Seq(PieceSet) /\ r = <<>>
      OBVIOUS
    <3>1. fn \in [L -> [C -> L]] /\ r \in L /\ \A k \in 1..n : words[k] \in C
      BY <1>0, <2>1, <2>2
    <3>2. Foldable(L, fn, r, words, n)
      <4> HIDE DEF n
      <4> QED BY ONLY <1>0, <3>1, FoldExists
    <3> QED
      BY <3>2 DEF Foldable
  <2>4. ASSUME NEW s \in SUBSET (1..n) PROVE h[s] = Body(h, s)
    <3>1. CASE s = {}
      BY <2>3, <3>1 DEF Folds
    <3>2. CASE s # {}
      <4>1. Max(s) \in 1..n
        BY <1>0, <3>2, LargestIs
      <4>2. h[s \ {Max(s)}] \in Seq(Seq(PieceSet)) /\ words[Max(s)] \in Seq(PieceSet)
        BY <1>0, <4>1
      <4>3. F[h[s \ {Max(s)}]][words[Max(s)]] = IfNamed(h[s \ {Max(s)}], words[Max(s)])
        BY <4>2 DEF F
      <4> QED
        BY <2>3, <3>2, <4>3 DEF Folds
    <3> QED
      BY <3>1, <3>2
  <2> HIDE DEF Body, n
  <2>5. h = [s \in SUBSET (1..n) |-> Body(h, s)]
    BY <2>4
  <2> QED
    BY <1>0, <2>5
<1> PICK h : h = CHOOSE g : Iter(g)
  OBVIOUS
<1>3. h = [s \in SUBSET (1..n) |-> Body(h, s)]
  <2>1. Iter(h)
    BY <1>2
  <2> QED
    BY <1>0, <2>1
<1>4. ASSUME NEW s \in SUBSET (1..n) PROVE h[s] = Body(h, s)
  <2> HIDE DEF Body
  <2> QED
    BY <1>3
<1> DEFINE v == [k \in 0..n |-> h[1..k]]
<1>5. v[0] = <<>>
  <2>1. 0 \in 0..n /\ 1..0 = {} /\ 1..0 \in SUBSET (1..n)
    BY <1>0
  <2> HIDE DEF n
  <2> QED
    BY <1>4, <2>1
<1>6. ASSUME NEW k \in 1..n PROVE v[k] = IfNamed(v[k - 1], words[k])
  <2>1. /\ k \in Nat \ {0} /\ k \in 0..n /\ k - 1 \in 0..n
        /\ 1..k # {} /\ 1..k \in SUBSET (1..n) /\ (1..k) \ {k} = 1..(k - 1)
    <3> HIDE DEF n
    <3> QED BY ONLY <1>0, UpTo, k \in 1..n
  <2>2. Max(1..k) = k
    BY <2>1, TopIs
  <2> HIDE DEF n
  <2>3. h[1..k] = IfNamed(h[1..(k - 1)], words[k])
    BY <1>4, <2>1, <2>2
  <2> QED
    BY <2>1, <2>3
<1>7. \A k \in 0..n : v[k] \in Seq(Seq(PieceSet))
  <2> DEFINE G == {k \in 0..n : v[k] \in Seq(Seq(PieceSet))}
  <2>1. 0 \in G
    <3>1. <<>> \in Seq(Seq(PieceSet)) /\ 0 \in 0..n
      BY <1>0
    <3> HIDE DEF v, n
    <3> QED BY <1>5, <3>1
  <2>2. ASSUME NEW k \in 0..n, k \in G, k < n PROVE k + 1 \in G
    <3>1. k + 1 \in 1..n /\ k + 1 \in 0..n /\ (k + 1) - 1 = k
      BY <1>0, <2>2
    <3>2. v[k + 1] = IfNamed(v[k], words[k + 1])
      BY <1>6, <3>1
    <3> HIDE DEF v, n
    <3> QED
      BY <1>0, <2>2, <3>1, <3>2, NamedTyped
  <2> HIDE DEF G, n
  <2>3. \A k \in 0..n : k \in G
    BY <1>0, <2>1, <2>2, UpToN
  <2> QED
    BY <2>3 DEF G
<1>8. v \in [0..n -> Seq(Seq(PieceSet))]
  BY <1>7
<1>9. Named(words) = v[n]
  BY <1>0, <1>1
<1> HIDE DEF v
<1> QED
  BY <1>5, <1>6, <1>8, <1>9

\* A path has as many characters as its argument without the prefix, and none
\* only if it is empty.
LEMMA PrefixCounts ==
  ASSUME NEW text \in Seq(PieceSet), Len(text) >= 1, text[1] = MOD
  PROVE  /\ Characters(text) \in Nat /\ Characters(Tail(text)) \in Nat
         /\ Characters(text) = 6 + Characters(Tail(text))
         /\ Characters(Tail(text)) >= 1 <=> Len(text) > 1
<1> PICK rest, n : rest = Tail(text) /\ n = Len(rest)
  OBVIOUS
<1>1. /\ rest \in Seq(PieceSet) /\ n \in Nat /\ Len(text) = n + 1
      /\ \A k \in 1..n : rest[k] = text[k + 1] /\ rest[k] \in PieceSet
      /\ 1 \in 1..Len(text)
  OBVIOUS
<1>2. PICK w \in [0..Len(text) -> Nat] :
        /\ w[0] = 0
        /\ \A k \in 1..Len(text) : w[k] = w[k - 1] + LengthOf[text[k]]
        /\ Characters(text) = w[Len(text)]
  BY CharactersAre
<1>3. PICK v \in [0..n -> Nat] :
        /\ v[0] = 0
        /\ \A k \in 1..n : v[k] = v[k - 1] + LengthOf[rest[k]]
        /\ Characters(rest) = v[n]
  BY <1>1, CharactersAre
<1>4. \A p \in PieceSet : LengthOf[p] \in Nat \ {0}
  BY CmdlineConstants DEF PieceSet
<1> DEFINE G == {k \in 0..n : w[k + 1] = 6 + v[k] /\ (k > 0 => v[k] >= 1)}
<1>5. 0 \in G
  <2>1. w[1] = w[0] + LengthOf[text[1]]
    <3>1. 1 - 1 = 0
      OBVIOUS
    <3> QED BY <1>1, <1>2, <3>1
  <2>2. LengthOf[text[1]] = 6
    BY CmdlineConstants
  <2> QED
    BY <1>1, <1>2, <1>3, <2>1, <2>2
<1>6. ASSUME NEW k \in 0..n, k \in G, k < n PROVE k + 1 \in G
  <2>1. k + 1 \in 1..n /\ k + 1 \in 0..n /\ (k + 1) - 1 = k /\ k + 2 \in 1..Len(text) /\ (k + 2) - 1 = k + 1
        /\ (k + 1) + 1 = k + 2
    BY <1>1, <1>6
  <2>2. v[k + 1] = v[k] + LengthOf[rest[k + 1]] /\ rest[k + 1] = text[k + 2]
    BY <1>1, <1>3, <2>1
  <2>3. w[k + 2] = w[k + 1] + LengthOf[text[k + 2]]
    BY <1>2, <2>1
  <2>4. LengthOf[rest[k + 1]] \in Nat \ {0} /\ v[k] \in Nat /\ w[k + 1] = 6 + v[k]
    BY <1>1, <1>3, <1>4, <1>6, <2>1
  <2> PICK x, y, a, b, p : x = w[k + 1] /\ y = v[k] /\ a = w[k + 2] /\ b = v[k + 1] /\ p = LengthOf[rest[k + 1]]
    OBVIOUS
  <2>5. w[k + 2] = 6 + v[k + 1] /\ v[k + 1] >= 1
    <3>1. b = y + p /\ a = x + p /\ p \in Nat \ {0} /\ y \in Nat /\ x = 6 + y
      BY <2>2, <2>3, <2>4
    <3>2. a = 6 + b /\ b >= 1
      BY ONLY <3>1
    <3> QED
      BY <3>2
  <2> QED
    BY <2>1, <2>5
<1> HIDE DEF G
<1>7. n \in G
  <2>1. \A k \in 0..n : k \in G
    BY <1>1, <1>5, <1>6, UpToN
  <2> QED
    BY <1>1, <2>1
<1>8. Characters(rest) = v[n] /\ v[n] \in Nat /\ Characters(text) = 6 + v[n] /\ (n > 0 => v[n] >= 1)
      /\ (n = 0 => v[n] = 0)
  BY <1>1, <1>2, <1>3, <1>7 DEF G
<1> QED
  BY <1>1, <1>8

\* What collect_boot_modules takes is what names a module.
LEMMA CollectedIs ==
  ASSUME NEW text \in Seq(PieceSet), NEW n \in Nat
  PROVE  /\ text # <<>> /\ Names(text) /\ n < MAX_BOOT_MODULES => Collected(text, n) = <<Tail(text)>>
         /\ ~(text # <<>> /\ Names(text) /\ n < MAX_BOOT_MODULES) => Collected(text, n) = <<>>
<1>1. MAX_BOOT_MODULE_PATH \in Nat \ {0} /\ MAX_BOOT_MODULES \in Nat
  BY CmdlineConstants, ModulesConstants
<1>2. CASE text = <<>>
  <2>1. Len(text) = 0
    BY <1>2
  <2> QED
    BY <1>2, <2>1 DEF Collected, is_module_argument
<1>3. CASE text # <<>> /\ text[1] # MOD
  BY <1>3 DEF Collected, is_module_argument, Names
<1>4. CASE text # <<>> /\ text[1] = MOD
  <2>1. Len(text) >= 1 /\ Len(text) \in Nat
    BY <1>4
  <2> PICK all, path : all = Characters(text) /\ path = Characters(Tail(text))
    OBVIOUS
  <2>2. all \in Nat /\ path \in Nat /\ all = 6 + path /\ (path >= 1 <=> Len(text) > 1)
    BY <1>4, <2>1, PrefixCounts
  <2>3. Names(text) <=> all \in 7..(6 + MAX_BOOT_MODULE_PATH - 1)
    BY <1>4 DEF Names
  <2>4. Names(text) <=> path >= 1 /\ path < MAX_BOOT_MODULE_PATH
    BY <1>1, <2>2, <2>3
  <2>5. Names(text) <=> Len(text) > 1 /\ path < MAX_BOOT_MODULE_PATH
    BY <2>2, <2>4
  <2>6. is_module_argument(text) <=> Len(text) > 1
    BY <1>4 DEF is_module_argument
  <2> QED
    BY <1>4, <2>5, <2>6 DEF Collected
<1> QED
  BY <1>2, <1>3, <1>4

\* The scan: From goes past the spaces, and then to the end of the argument.
LEMMA FromIs ==
  ASSUME cmdline \in Seq(PieceSet), NEW k \in 1..Len(cmdline) + 1
  PROVE  /\ LET e == From(k, FALSE) IN
              /\ e \in k..Len(cmdline) + 1
              /\ e > Len(cmdline) \/ cmdline[e] # SPACE
              /\ \A d \in k..e-1 : cmdline[d] = SPACE
         /\ LET e == From(k, TRUE) IN
              /\ e \in k..Len(cmdline) + 1
              /\ e > Len(cmdline) \/ cmdline[e] = SPACE
              /\ \A d \in k..e-1 : cmdline[d] # SPACE
<1> PICK n : n = Len(cmdline)
  OBVIOUS
<1>0. n \in Nat /\ k \in 1..n+1
  OBVIOUS
<1>1. ASSUME NEW space \in BOOLEAN
      PROVE  LET e == From(k, space) IN
               /\ e \in k..n + 1
               /\ e > n \/ (cmdline[e] = SPACE) = space
               /\ \A d \in k..e-1 : (cmdline[d] = SPACE) # space
  <2> DEFINE T == {e \in k..n + 1 : e > n \/ (cmdline[e] = SPACE) = space}
  <2>1. T \subseteq Nat
    BY <1>0
  <2>2. n + 1 \in T
    BY <1>0
  <2>3. PICK e \in T : \A d \in T : e <= d
    <3> HIDE DEF T
    <3> QED BY <2>1, <2>2, Least
  <2>4. ASSUME NEW d \in k..e-1 PROVE (cmdline[d] = SPACE) # space
    <3>1. d \in k..n+1 /\ d < e
      BY <1>0, <2>1, <2>4
    <3>2. d \notin T
      BY <1>0, <2>1, <2>3, <3>1
    <3> QED
      BY <3>1, <3>2, Zenon
  <2>5. e \in k..n+1 /\ (e > n \/ (cmdline[e] = SPACE) = space)
    BY <2>3, Zenon
  <2> QED
    BY <2>4, <2>5 DEF From
<1>2. LET e == From(k, FALSE) IN
        /\ e \in k..n + 1
        /\ e > n \/ cmdline[e] # SPACE
        /\ \A d \in k..e-1 : cmdline[d] = SPACE
  <2> PICK e : e = From(k, FALSE)
    OBVIOUS
  <2>1. /\ e \in k..n + 1
        /\ e > n \/ (cmdline[e] = SPACE) = FALSE
        /\ \A d \in k..e-1 : (cmdline[d] = SPACE) # FALSE
    BY <1>1
  <2> QED
    BY <2>1
<1>3. LET e == From(k, TRUE) IN
        /\ e \in k..n + 1
        /\ e > n \/ cmdline[e] = SPACE
        /\ \A d \in k..e-1 : cmdline[d] # SPACE
  <2> PICK e : e = From(k, TRUE)
    OBVIOUS
  <2>1. /\ e \in k..n + 1
        /\ e > n \/ (cmdline[e] = SPACE) = TRUE
        /\ \A d \in k..e-1 : (cmdline[d] = SPACE) # TRUE
    BY <1>1
  <2> QED
    BY <2>1
<1> QED
  BY <1>2, <1>3

-----------------------------------------------------------------------------
(* The arguments of a line *)

InWord(line, p) == p \in DOMAIN line /\ line[p] # SPACE

\* Where its arguments are: from the first piece to the last.
Runs(line) ==
  {r \in (DOMAIN line) \X (DOMAIN line) :
     /\ ~InWord(line, r[1] - 1) /\ ~InWord(line, r[2] + 1)
     /\ r[1] <= r[2] /\ \A p \in r[1]..r[2] : InWord(line, p)}
RunsBefore(line, e) == {r \in Runs(line) : r[2] < e}
Word(line, r) == SubSeq(line, r[1], r[2])

\* z lists the n runs of R in the order of the line.
Lists(z, n, R) ==
  /\ z \in [1..n -> R]
  /\ \A r \in R : \E k \in 1..n : z[k] = r
  /\ \A k, m \in 1..n : k < m => z[k][1] < z[m][1]

\* Listing them is what the ranks of Words do.
LEMMA WordsAre ==
  ASSUME cmdline \in Seq(PieceSet), NEW n \in Nat, NEW z, Lists(z, n, Runs(cmdline))
  PROVE  Words = [k \in 1..n |-> Word(cmdline, z[k])]
<1> PICK R : R = Runs(cmdline)
  OBVIOUS
<1>1. \A r \in R : r = <<r[1], r[2]>> /\ r[1] \in Nat /\ r[2] \in Nat
  <2>1. DOMAIN cmdline \subseteq Nat
    OBVIOUS
  <2> QED
    BY <2>1 DEF Runs
<1>2. /\ z \in [1..n -> R] /\ \A r \in R : \E k \in 1..n : z[k] = r
      /\ \A k, m \in 1..n : k < m => z[k][1] < z[m][1]
  BY DEF Lists
<1>3. \A k, m \in 1..n : (z[m][1] <= z[k][1] <=> m <= k) /\ (z[k] = z[m] => k = m)
  <2> SUFFICES ASSUME NEW k \in 1..n, NEW m \in 1..n
               PROVE  (z[m][1] <= z[k][1] <=> m <= k) /\ (z[k] = z[m] => k = m)
    OBVIOUS
  <2>1. z[k][1] \in Nat /\ z[m][1] \in Nat /\ k \in Nat /\ m \in Nat
    BY <1>1, <1>2
  <2>2. /\ k < m => z[k][1] < z[m][1]
        /\ m < k => z[m][1] < z[k][1]
    BY <1>2
  <2> QED
    BY <2>1, <2>2
<1>4. ASSUME NEW k \in 0..n, NEW S, S \subseteq R, \A m \in 1..n : z[m] \in S <=> m <= k
      PROVE  IsFiniteSet(S) /\ Cardinality(S) = k
  <2> DEFINE f == [m \in 1..k |-> z[m]]
  <2>1. \A m \in 1..k : m \in 1..n /\ m <= k
    OBVIOUS
  <2>2. f \in [1..k -> S]
    BY <1>4, <2>1
  <2>3. \A s \in S : \E m \in 1..k : f[m] = s
    <3> SUFFICES ASSUME NEW s \in S PROVE \E m \in 1..k : f[m] = s
      OBVIOUS
    <3>1. PICK m \in 1..n : z[m] = s
      BY <1>2, <1>4
    <3>2. m \in 1..k
      BY <1>4, <3>1
    <3> QED
      BY <3>1, <3>2
  <2>4. \A a, b \in 1..k : f[a] = f[b] => a = b
    BY <1>3, <2>1
  <2> HIDE DEF f
  <2>5. f \in Bijection(1..k, S)
    BY <2>2, <2>3, <2>4 DEF Bijection, Injection, Surjection, IsInjective
  <2>6. ExistsBijection(1..k, S)
    BY <2>5 DEF ExistsBijection
  <2>7. IsFiniteSet(1..k) /\ Cardinality(1..k) = k
    <3>1. k \in Int /\ 1 \in Int /\ k >= 0
      OBVIOUS
    <3>2. IsFiniteSet(1..k) /\ Cardinality(1..k) = IF 1 > k THEN 0 ELSE k - 1 + 1
      BY <3>1, FS_Interval
    <3> QED
      BY <3>1, <3>2
  <2> QED
    BY <2>6, <2>7, FS_Bijection
<1>5. Cardinality(R) = n
  <2>1. \A m \in 1..n : z[m] \in R <=> m <= n
    BY <1>2
  <2> QED
    BY <1>4, <2>1
<1>6. ASSUME NEW k \in 1..n
      PROVE  Cardinality({q \in R : q[1] <= z[k][1]}) = k
  <2> PICK S : S = {q \in R : q[1] <= z[k][1]}
    OBVIOUS
  <2>1. \A m \in 1..n : z[m] \in S <=> m <= k
    BY <1>2, <1>3
  <2>2. S \subseteq R /\ k \in 0..n
    OBVIOUS
  <2> QED
    BY <1>4, <2>1, <2>2
<1>7. ASSUME NEW k \in 1..n
      PROVE  (CHOOSE r \in R : Cardinality({q \in R : q[1] <= r[1]}) = k) = z[k]
  <2>1. z[k] \in R /\ Cardinality({q \in R : q[1] <= z[k][1]}) = k
    BY <1>2, <1>6
  <2> PICK r : r = CHOOSE t \in R : Cardinality({q \in R : q[1] <= t[1]}) = k
    OBVIOUS
  <2>2. r \in R /\ Cardinality({q \in R : q[1] <= r[1]}) = k
    BY <2>1
  <2>3. PICK m \in 1..n : z[m] = r
    BY <1>2, <2>2
  <2>4. m = k
    BY <1>6, <2>2, <2>3
  <2> QED
    BY <2>3, <2>4
<1> DEFINE Ranked(k) == CHOOSE r \in R : Cardinality({q \in R : q[1] <= r[1]}) = k
<1>8. Words = [k \in 1..Cardinality(R) |-> SubSeq(cmdline, Ranked(k)[1], Ranked(k)[2])]
  BY DEF Words, Runs, InWord
<1>9. \A k \in 1..n : Ranked(k) = z[k]
  BY <1>7
<1> HIDE DEF Ranked
<1> QED
  BY <1>5, <1>8, <1>9 DEF Word

\* w[k] is what the first k runs of z name.
Selects(w, z, n, line) ==
  /\ w \in [0..n -> Seq(Seq(PieceSet))]
  /\ w[0] = <<>>
  /\ \A k \in 1..n : w[k] = IfNamed(w[k - 1], Word(line, z[k]))

\* The paths that boot_modules has room for.
Paths(words) ==
  [k \in 1..(IF Len(words) < MAX_BOOT_MODULES THEN Len(words) ELSE MAX_BOOT_MODULES) |->
     Tail(words[k])]

\* What a scan that has come to e has found.
Found(line, e, paths) ==
  \E n \in Nat : \E z, w :
    /\ Lists(z, n, RunsBefore(line, e)) /\ Selects(w, z, n, line)
    /\ paths = Paths(w[n])

\* A run is an argument, which ends with the last piece of the run.
LEMMA RunTyped ==
  ASSUME NEW line \in Seq(PieceSet), NEW r \in Runs(line)
  PROVE  /\ r[1] \in 1..Len(line) /\ r[2] \in 1..Len(line) /\ r[1] <= r[2]
         /\ r = <<r[1], r[2]>>
         /\ Word(line, r) \in Seq(PieceSet) /\ Len(Word(line, r)) = r[2] - r[1] + 1
         /\ Word(line, r)[Len(Word(line, r))] = line[r[2]]
<1>1. r[1] \in 1..Len(line) /\ r[2] \in 1..Len(line) /\ r[1] <= r[2] /\ r = <<r[1], r[2]>>
  BY DEF Runs
<1> PICK a, b : a = r[1] /\ b = r[2]
  OBVIOUS
<1>2. a \in 1..Len(line) /\ b \in 1..Len(line) /\ a <= b
  BY <1>1
<1>3. SubSeq(line, a, b) \in Seq(PieceSet) /\ Len(SubSeq(line, a, b)) = b - a + 1
  BY <1>2
<1>4. SubSeq(line, a, b)[b - a + 1] = line[b]
  BY <1>2
<1> QED
  BY <1>1, <1>3, <1>4 DEF Word

\* What an argument adds to the paths is what it adds to the named ones.
LEMMA PathsMore ==
  ASSUME NEW words \in Seq(Seq(PieceSet)), NEW text \in Seq(PieceSet), text # <<>>
  PROVE  Paths(IfNamed(words, text)) = Paths(words) \o Collected(text, Len(Paths(words)))
<1> PICK S, m, bm, max : /\ S = Seq(PieceSet) /\ m = Len(words) /\ bm = Paths(words)
                         /\ max = MAX_BOOT_MODULES
  OBVIOUS
<1>1. max \in Nat /\ m \in Nat
  BY ModulesConstants
<1>2. bm = [k \in 1..(IF m < max THEN m ELSE max) |-> Tail(words[k])]
  BY DEF Paths
<1>3. /\ bm \in Seq({Tail(words[k]) : k \in 1..m})
      /\ Len(bm) = IF m < max THEN m ELSE max
  <2> PICK b, B : b = (IF m < max THEN m ELSE max) /\ B = {Tail(words[k]) : k \in 1..m}
    OBVIOUS
  <2>1. b \in Nat /\ \A k \in 1..b : k \in 1..m
    BY <1>1
  <2>2. bm \in [1..b -> B]
    BY <1>2, <2>1
  <2>3. \A T : bm \in [1..b -> T] => bm \in Seq(T) /\ Len(bm) = b
    BY ONLY <2>1
  <2>4. bm \in Seq(B) /\ Len(bm) = b
    BY ONLY <2>2, <2>3
  <2> QED
    BY ONLY <2>4, b = (IF m < max THEN m ELSE max), B = {Tail(words[k]) : k \in 1..m}
<1>4. CASE Names(text) /\ Len(bm) < max
  <2>1. Collected(text, Len(bm)) = <<Tail(text)>>
    BY <1>1, <1>3, <1>4, CollectedIs
  <2>2. IfNamed(words, text) = Append(words, text)
    BY <1>4 DEF IfNamed
  <2>3. Len(bm) = m /\ m < max
    BY <1>1, <1>3, <1>4
  <2>4. /\ Len(Append(words, text)) = m + 1
        /\ Append(words, text)[m + 1] = text
        /\ \A k \in 1..m : Append(words, text)[k] = words[k]
    <3>1. words \in Seq(S) /\ text \in S
      OBVIOUS
    <3> QED
      BY <3>1
  <2>5. (IF m + 1 < max THEN m + 1 ELSE max) = m + 1
    BY <1>1, <2>3
  <2>6. Paths(Append(words, text)) = [k \in 1..m+1 |-> Tail(Append(words, text)[k])]
    BY <2>4, <2>5 DEF Paths
  <2>7. bm \o <<Tail(text)>> = [k \in 1..m+1 |-> IF k = m + 1 THEN Tail(text) ELSE bm[k]]
    <3> PICK T, t : T = {Tail(words[k]) : k \in 1..m} /\ t = Tail(text)
      OBVIOUS
    <3> PICK U : U = T \cup {t}
      OBVIOUS
    <3>1. bm \in Seq(U) /\ t \in U
      <4>1. bm \in Seq(T)
        BY <1>3
      <4>2. t \in U /\ \A k \in 1..Len(bm) : bm[k] \in U
        BY <4>1
      <4> QED
        BY <4>1, <4>2
    <3>2. bm \o <<t>> = Append(bm, t)
      BY ONLY <3>1
    <3>3. Append(bm, t) = [k \in 1..m+1 |-> IF k = m + 1 THEN t ELSE bm[k]]
      <4> PICK app : app = Append(bm, t)
        OBVIOUS
      <4>1. app \in Seq(U) /\ Len(app) = m + 1
        <5>1. \A q \in Seq(U) : \A x \in U : Append(q, x) \in Seq(U) /\ Len(Append(q, x)) = Len(q) + 1
          OBVIOUS
        <5> QED
          BY ONLY <2>3, <3>1, <5>1, app = Append(bm, t)
      <4>2. \A k \in 1..m+1 : app[k] = IF k = m + 1 THEN t ELSE bm[k]
        BY ONLY <1>1, <2>3, <3>1, app = Append(bm, t)
      <4>3. app = [k \in 1..m+1 |-> app[k]]
        BY ONLY <4>1
      <4> QED
        BY <4>2, <4>3
    <3> QED
      BY <3>2, <3>3
  <2>8. \A k \in 1..m+1 :
          Tail(Append(words, text)[k]) = IF k = m + 1 THEN Tail(text) ELSE bm[k]
    <3> SUFFICES ASSUME NEW k \in 1..m+1
                 PROVE  Tail(Append(words, text)[k]) = IF k = m + 1 THEN Tail(text) ELSE bm[k]
      OBVIOUS
    <3>1. k = m + 1 \/ k \in 1..m
      BY <1>1
    <3>2. k \in 1..m => k # m + 1 /\ bm[k] = Tail(words[k])
      BY <1>1, <1>2, <2>3
    <3> QED
      BY <2>4, <3>1, <3>2
  <2> QED
    BY <2>1, <2>2, <2>6, <2>7, <2>8
<1>5. CASE Names(text) /\ ~(Len(bm) < max)
  <2>1. Collected(text, Len(bm)) = <<>>
    BY <1>1, <1>3, <1>5, CollectedIs
  <2>2. IfNamed(words, text) = Append(words, text)
    BY <1>5 DEF IfNamed
  <2>3. ~(m < max) /\ Len(bm) = max
    BY <1>1, <1>3, <1>5
  <2>4. /\ Len(Append(words, text)) = m + 1
        /\ \A k \in 1..m : Append(words, text)[k] = words[k]
    <3>1. words \in Seq(S) /\ text \in S
      OBVIOUS
    <3> QED
      BY <3>1
  <2>5. (IF m + 1 < max THEN m + 1 ELSE max) = max /\ \A k \in 1..max : k \in 1..m
    BY <1>1, <2>3
  <2>6. Paths(Append(words, text)) = [k \in 1..max |-> Tail(words[k])]
    BY <2>4, <2>5 DEF Paths
  <2>7. bm \o <<>> = bm
    BY <1>3
  <2> QED
    BY <1>2, <2>1, <2>2, <2>3, <2>6, <2>7
<1>6. CASE ~Names(text)
  <2>1. Collected(text, Len(bm)) = <<>>
    BY <1>1, <1>3, <1>6, CollectedIs
  <2>2. IfNamed(words, text) = words
    BY <1>6 DEF IfNamed
  <2>3. bm \o <<>> = bm
    BY <1>3
  <2> QED
    BY <2>1, <2>2, <2>3
<1> QED
  BY <1>4, <1>5, <1>6

\* Nothing has been found before the first piece.
LEMMA NothingFound == ASSUME NEW line \in Seq(PieceSet) PROVE Found(line, 1, <<>>)
<1> DEFINE z == [k \in 1..0 |-> k]
           w == [k \in 0..0 |-> <<>>]
<1>1. RunsBefore(line, 1) = {}
  <2>1. \A r \in Runs(line) : ~(r[2] < 1)
    BY RunTyped
  <2> QED
    BY <2>1 DEF RunsBefore
<1>2. Lists(z, 0, RunsBefore(line, 1))
  BY <1>1 DEF Lists
<1>3. Selects(w, z, 0, line)
  BY DEF Selects
<1>4. Paths(w[0]) = <<>>
  <2> PICK e : e = <<>>
    OBVIOUS
  <2>1. Len(e) = 0 /\ w[0] = e
    OBVIOUS
  <2>2. 1..(IF Len(e) < MAX_BOOT_MODULES THEN Len(e) ELSE MAX_BOOT_MODULES) = {}
    BY <2>1, ModulesConstants
  <2>3. Paths(e) = <<>>
    BY <2>2 DEF Paths
  <2> QED
    BY <2>1, <2>3
<1>5. 0 \in Nat
  OBVIOUS
<1> HIDE DEF z, w
<1> QED
  BY <1>2, <1>3, <1>4, <1>5 DEF Found

\* A run more is listed behind the others, and adds the path that it names.
LEMMA OneMoreRun ==
  ASSUME NEW line \in Seq(PieceSet), NEW a \in 1..Len(line) + 1, NEW e \in Nat,
         NEW paths, Found(line, a, paths),
         NEW r \in Runs(line), r[1] >= a, RunsBefore(line, e) = RunsBefore(line, a) \cup {r}
  PROVE  Found(line, e, paths \o Collected(Word(line, r), Len(paths)))
<1> PICK n \in Nat : \E z, w :
      /\ Lists(z, n, RunsBefore(line, a)) /\ Selects(w, z, n, line) /\ paths = Paths(w[n])
  BY DEF Found
<1> PICK z, w : Lists(z, n, RunsBefore(line, a)) /\ Selects(w, z, n, line) /\ paths = Paths(w[n])
  OBVIOUS
<1> PICK R, Q, text : R = RunsBefore(line, a) /\ Q = RunsBefore(line, e) /\ text = Word(line, r)
  OBVIOUS
<1> DEFINE zz == [k \in 1..n+1 |-> IF k = n + 1 THEN r ELSE z[k]]
           ww == [k \in 0..n+1 |-> IF k = n + 1 THEN IfNamed(w[n], text) ELSE w[k]]
<1>0. n + 1 \in Nat /\ \A k \in 1..n+1 : k # n + 1 => k \in 1..n /\ k - 1 \in 0..n
  OBVIOUS
<1>1. /\ z \in [1..n -> R] /\ \A q \in R : \E k \in 1..n : z[k] = q
      /\ \A k, m \in 1..n : k < m => z[k][1] < z[m][1]
  BY DEF Lists
<1>2. Q = R \cup {r}
  OBVIOUS
<1>3. \A q \in R : q[1] \in Nat /\ q[1] < r[1]
  <2> SUFFICES ASSUME NEW q \in R PROVE q[1] \in Nat /\ q[1] < r[1]
    OBVIOUS
  <2>1. q \in Runs(line) /\ q[2] < a
    BY DEF RunsBefore
  <2>2. q[1] \in Nat /\ q[2] \in Nat /\ q[1] <= q[2] /\ r[1] \in Nat /\ a \in Nat
    BY <2>1, RunTyped
  <2> QED
    BY <2>1, <2>2
<1>4. Lists(zz, n + 1, Q)
  <2>1. zz \in [1..n+1 -> Q]
    BY <1>0, <1>1, <1>2
  <2>2. \A q \in Q : \E k \in 1..n+1 : zz[k] = q
    <3>1. ASSUME NEW q \in R PROVE \E k \in 1..n+1 : zz[k] = q
      <4>1. PICK k \in 1..n : z[k] = q
        BY <1>1
      <4>2. k \in 1..n+1 /\ k # n + 1
        OBVIOUS
      <4> QED
        BY <4>1, <4>2
    <3>2. n + 1 \in 1..n+1 /\ zz[n + 1] = r
      OBVIOUS
    <3> HIDE DEF zz
    <3> QED
      BY <1>2, <3>1, <3>2
  <2>3. ASSUME NEW k \in 1..n+1, NEW m \in 1..n+1, k < m PROVE zz[k][1] < zz[m][1]
    <3>1. k \in 1..n /\ k # n + 1
      BY <2>3
    <3>2. CASE m = n + 1
      BY <1>1, <1>3, <3>1, <3>2
    <3>3. CASE m # n + 1
      BY <1>0, <1>1, <2>3, <3>1, <3>3
    <3> QED
      BY <3>2, <3>3
  <2> HIDE DEF zz
  <2> QED
    BY <2>1, <2>2, <2>3 DEF Lists
<1>5. Selects(ww, zz, n + 1, line)
  <2> PICK S : S = Seq(Seq(PieceSet))
    OBVIOUS
  <2>1. /\ w \in [0..n -> S] /\ w[0] = <<>>
        /\ \A k \in 1..n : w[k] = IfNamed(w[k - 1], Word(line, z[k]))
    BY DEF Selects
  <2>2. text \in Seq(PieceSet) /\ n \in 0..n
    BY RunTyped
  <2>3. IfNamed(w[n], text) \in S
    BY <2>1, <2>2, NamedTyped
  <2>4. ww \in [0..n+1 -> S]
    <3>1. \A k \in 0..n+1 : k # n + 1 => k \in 0..n
      OBVIOUS
    <3> QED
      BY <2>1, <2>3, <3>1
  <2>5. ww[0] = <<>>
    BY <2>1
  <2>6. ASSUME NEW k \in 1..n+1 PROVE ww[k] = IfNamed(ww[k - 1], Word(line, zz[k]))
    <3>1. CASE k = n + 1
      <4>1. k - 1 = n /\ n \in 0..n+1 /\ n # n + 1
        BY <3>1
      <4> QED
        BY <3>1, <4>1
    <3>2. CASE k # n + 1
      <4>1. k \in 1..n /\ k \in 0..n+1 /\ k - 1 \in 0..n+1 /\ k - 1 # n + 1
        BY <3>2
      <4>2. ww[k] = w[k] /\ ww[k - 1] = w[k - 1] /\ zz[k] = z[k]
        BY <3>2, <4>1
      <4> HIDE DEF ww, zz
      <4> QED
        BY <2>1, <4>1, <4>2
    <3> QED
      BY <3>1, <3>2
  <2> HIDE DEF ww, zz
  <2> QED
    BY <2>4, <2>5, <2>6 DEF Selects
<1>6. Paths(ww[n + 1]) = paths \o Collected(text, Len(paths))
  <2>1. w[n] \in Seq(Seq(PieceSet)) /\ n + 1 \in 0..n+1
    BY DEF Selects
  <2>2. text \in Seq(PieceSet) /\ text # <<>>
    <3>1. text \in Seq(PieceSet) /\ Len(text) = r[2] - r[1] + 1 /\ r[1] <= r[2] /\ r[1] \in Nat /\ r[2] \in Nat
      BY RunTyped
    <3>2. Len(text) # 0
      BY <3>1
    <3> QED
      BY <3>1, <3>2
  <2>3. Paths(IfNamed(w[n], text)) = Paths(w[n]) \o Collected(text, Len(Paths(w[n])))
    BY <2>1, <2>2, PathsMore
  <2> QED
    BY <2>1, <2>3
<1> HIDE DEF zz, ww
<1>7. Found(line, e, paths \o Collected(text, Len(paths)))
  BY <1>0, <1>4, <1>5, <1>6 DEF Found
<1> QED
  BY <1>7

\* What has been found is a sequence.
LEMMA FoundTyped ==
  ASSUME NEW line \in Seq(PieceSet), NEW e, NEW paths, Found(line, e, paths)
  PROVE  paths \o <<>> = paths
<1> PICK n \in Nat : \E z, w : Selects(w, z, n, line) /\ paths = Paths(w[n])
  BY DEF Found
<1> PICK z, w : Selects(w, z, n, line) /\ paths = Paths(w[n])
  OBVIOUS
<1> PICK words : words = w[n]
  OBVIOUS
<1>1. words \in Seq(Seq(PieceSet))
  BY DEF Selects
<1> PICK b : b = IF Len(words) < MAX_BOOT_MODULES THEN Len(words) ELSE MAX_BOOT_MODULES
  OBVIOUS
<1>2. b \in Nat
  BY <1>1, ModulesConstants
<1>3. paths = [k \in 1..b |-> Tail(words[k])]
  BY DEF Paths
<1> PICK B : B = {Tail(words[k]) : k \in 1..b}
  OBVIOUS
<1>4. paths \in [1..b -> B]
  BY <1>3
<1>5. \A T : paths \in [1..b -> T] => paths \in Seq(T)
  BY ONLY <1>2
<1>6. paths \in Seq(B)
  BY ONLY <1>4, <1>5
<1> QED
  BY ONLY <1>6

\* What lies behind a: spaces up to s, and then an argument up to e.
LEMMA OneWord ==
  ASSUME cmdline \in Seq(PieceSet), NEW a \in 1..Len(cmdline) + 1,
         a = 1 \/ ~InWord(cmdline, a), NEW paths, Found(cmdline, a, paths),
         NEW s \in a..Len(cmdline) + 1, s > Len(cmdline) \/ cmdline[s] # SPACE,
         \A d \in a..s-1 : cmdline[d] = SPACE,
         NEW e \in s..Len(cmdline) + 1, e > Len(cmdline) \/ cmdline[e] = SPACE,
         \A d \in s..e-1 : cmdline[d] # SPACE
  PROVE  /\ e \in 1..Len(cmdline) + 1 /\ ~InWord(cmdline, e)
         /\ Found(cmdline, e, paths \o Collected(SubSeq(cmdline, s, e - 1), Len(paths)))
<1> PICK n : n = Len(cmdline)
  OBVIOUS
<1>0. n \in Nat /\ DOMAIN cmdline = 1..n /\ a \in 1..n+1
  OBVIOUS
<1>1. /\ s \in a..n+1 /\ (s > n \/ cmdline[s] # SPACE)
      /\ \A d \in a..s-1 : cmdline[d] = SPACE
  OBVIOUS
<1>2. s \in 1..n+1
  BY <1>0, <1>1
<1>3. /\ e \in s..n+1 /\ (e > n \/ cmdline[e] = SPACE)
      /\ \A d \in s..e-1 : cmdline[d] # SPACE
  OBVIOUS
<1>4. e \in 1..n+1 /\ ~InWord(cmdline, e)
  BY <1>0, <1>2, <1>3 DEF InWord
<1>5. ASSUME NEW r \in Runs(cmdline)
      PROVE  /\ r[1] \in 1..n /\ r[2] \in 1..n /\ r[1] <= r[2] /\ r = <<r[1], r[2]>>
             /\ ~InWord(cmdline, r[1] - 1) /\ ~InWord(cmdline, r[2] + 1)
             /\ \A p \in r[1]..r[2] : InWord(cmdline, p)
  BY <1>0, <1>5 DEF Runs
<1>6. ASSUME NEW r \in Runs(cmdline), a <= r[2], r[2] < e PROVE s <= n /\ r = <<s, e - 1>>
  <2> PICK x, y : x = r[1] /\ y = r[2]
    OBVIOUS
  <2>1. /\ x \in 1..n /\ y \in 1..n /\ x <= y /\ a <= y /\ y < e
        /\ r = <<x, y>>
        /\ ~InWord(cmdline, x - 1) /\ ~InWord(cmdline, y + 1)
        /\ \A p \in x..y : InWord(cmdline, p)
    BY <1>5, <1>6
  <2>2. s <= y /\ s <= n
    <3> SUFFICES ASSUME ~(s <= y) PROVE FALSE
      BY <1>0, <1>2, <2>1
    <3>1. y \in a..s-1 /\ y \in x..y
      BY <1>0, <1>2, <2>1
    <3> QED
      BY <1>1, <2>1, <3>1 DEF InWord
  <2>3. y = e - 1
    <3> SUFFICES ASSUME y # e - 1 PROVE FALSE
      OBVIOUS
    <3>1. y + 1 \in s..e-1 /\ y + 1 \in 1..n
      BY <1>0, <1>2, <1>4, <2>1, <2>2
    <3> QED
      BY <1>0, <1>3, <2>1, <3>1 DEF InWord
  <2>4. x = s
    <3>1. ASSUME x < s PROVE FALSE
      <4>1. s - 1 \in x..y
        BY <1>2, <2>1, <2>2, <3>1
      <4>2. InWord(cmdline, s - 1)
        BY <2>1, <4>1
      <4>3. CASE a < s
        <5>1. s - 1 \in a..s-1
          BY <1>0, <1>2, <4>3
        <5> QED
          BY <1>1, <4>2, <5>1 DEF InWord
      <4>4. CASE ~(a < s)
        <5>1. a = s /\ a # 1
          BY <1>0, <1>1, <1>2, <2>1, <3>1, <4>4
        <5>2. ~InWord(cmdline, s) /\ InWord(cmdline, s)
          <6>1. s \in x..y
            BY <1>2, <2>1, <2>2, <3>1
          <6> QED
            BY <2>1, <5>1, <6>1
        <5> QED
          BY <5>2
      <4> QED
        BY <4>3, <4>4
    <3>2. ASSUME s < x PROVE FALSE
      <4>1. x - 1 \in s..e-1 /\ x - 1 \in 1..n
        BY <1>2, <2>1, <2>3, <3>2
      <4> QED
        BY <1>0, <1>3, <2>1, <4>1 DEF InWord
    <3> QED
      BY <1>2, <2>1, <3>1, <3>2
  <2> QED
    BY <2>1, <2>2, <2>3, <2>4
<1>7. CASE s > n
  <2>1. s = n + 1 /\ e = n + 1
    BY <1>0, <1>2, <1>3, <1>7
  <2>2. SubSeq(cmdline, s, e - 1) = <<>>
    BY <1>0, <2>1
  <2>3. RunsBefore(cmdline, e) = RunsBefore(cmdline, a)
    <3>1. ASSUME NEW r \in Runs(cmdline) PROVE r[2] < e /\ r[2] < a
      <4>1. r[2] < e
        BY <1>0, <1>5, <2>1
      <4>2. r[2] < a
        BY <1>0, <1>5, <1>6, <1>7, <4>1
      <4> QED
        BY <4>1, <4>2
    <3> QED
      BY <3>1 DEF RunsBefore
  <2>4. Collected(<<>>, Len(paths)) = <<>>
    <3> PICK t : t = <<>>
      OBVIOUS
    <3>1. Len(t) = 0
      OBVIOUS
    <3>2. ~is_module_argument(t)
      BY <3>1 DEF is_module_argument
    <3> QED
      BY <3>2 DEF Collected
  <2>5. paths \o <<>> = paths
    BY <1>0, FoundTyped
  <2>6. Found(cmdline, e, paths)
    BY <2>3 DEF Found
  <2> QED
    BY <1>4, <2>2, <2>4, <2>5, <2>6
<1>8. CASE ~(s > n)
  <2> PICK r : r = <<s, e - 1>>
    OBVIOUS
  <2>1. s \in 1..n /\ cmdline[s] # SPACE /\ s < e /\ e - 1 \in 1..n /\ s <= e - 1
        /\ (e - 1) + 1 = e
    <3>1. s \in 1..n /\ cmdline[s] # SPACE
      BY <1>0, <1>1, <1>2, <1>8
    <3>2. e # s
      BY <1>0, <1>3, <3>1
    <3> QED
      BY <1>0, <1>3, <3>1, <3>2
  <2>2. ~InWord(cmdline, s - 1)
    <3>1. CASE a < s
      <4>1. s - 1 \in a..s-1
        BY <1>0, <1>2, <3>1
      <4> QED
        BY <1>1, <4>1 DEF InWord
    <3>2. CASE ~(a < s)
      <4>1. a = s
        BY <1>0, <1>1, <3>2
      <4>2. a = 1
        BY <1>0, <2>1, <4>1 DEF InWord
      <4>3. s - 1 \notin 1..n
        BY <4>1, <4>2
      <4> QED
        BY <1>0, <4>3 DEF InWord
    <3> QED
      BY <3>1, <3>2
  <2>3. \A p \in s..e-1 : InWord(cmdline, p)
    <3>1. \A p \in s..e-1 : p \in 1..n
      BY <2>1
    <3> QED
      BY <1>0, <1>3, <3>1 DEF InWord
  <2>4. r \in Runs(cmdline) /\ r[1] = s /\ r[2] = e - 1
    BY <1>0, <1>4, <2>1, <2>2, <2>3 DEF Runs
  <2>5. RunsBefore(cmdline, e) = RunsBefore(cmdline, a) \cup {r}
    <3>1. ASSUME NEW q \in Runs(cmdline) PROVE q[2] < e <=> q[2] < a \/ q = r
      <4>1. q[2] \in Nat /\ a \in Nat /\ e \in Nat /\ s \in Nat /\ a <= s
        BY <1>0, <1>1, <1>2, <1>4, <1>5
      <4>2. q[2] < e /\ a <= q[2] => q = r
        BY <1>6
      <4>3. q[2] < a => q[2] < e
        BY <2>1, <4>1
      <4>4. q = r => q[2] < e
        BY <2>1, <2>4, <4>1
      <4> QED
        BY <4>1, <4>2, <4>3, <4>4
    <3> QED
      BY <2>4, <3>1 DEF RunsBefore
  <2>6. r[1] >= a /\ e \in Nat
    BY <1>0, <1>1, <1>4, <2>4
  <2>7. Found(cmdline, e, paths \o Collected(Word(cmdline, r), Len(paths)))
    BY <2>4, <2>5, <2>6, OneMoreRun
  <2> QED
    BY <1>4, <2>4, <2>7 DEF Word
<1> QED
  BY <1>7, <1>8

\* One argument of the scan.
LEMMA OneArgument ==
  ASSUME cmdline \in Seq(PieceSet), NEW a \in 1..Len(cmdline) + 1,
         a = 1 \/ ~InWord(cmdline, a), NEW paths, Found(cmdline, a, paths)
  PROVE  LET start == From(a, FALSE)
             end == From(start, TRUE)
         IN  /\ end \in 1..Len(cmdline) + 1 /\ ~InWord(cmdline, end)
             /\ Found(cmdline, end,
                      paths \o Collected(SubSeq(cmdline, start, end - 1), Len(paths)))
<1>1. PICK s \in a..Len(cmdline) + 1 :
        /\ s = From(a, FALSE)
        /\ s > Len(cmdline) \/ cmdline[s] # SPACE
        /\ \A d \in a..s-1 : cmdline[d] = SPACE
  BY FromIs
<1>2. s \in 1..Len(cmdline) + 1
  <2>1. \A m \in Nat : \A x \in 1..m+1 : \A y \in x..m+1 : y \in 1..m+1
    OBVIOUS
  <2>2. Len(cmdline) \in Nat
    OBVIOUS
  <2> QED
    BY ONLY <2>1, <2>2, a \in 1..Len(cmdline) + 1, s \in a..Len(cmdline) + 1
<1>3. PICK e \in s..Len(cmdline) + 1 :
        /\ e = From(s, TRUE)
        /\ e > Len(cmdline) \/ cmdline[e] = SPACE
        /\ \A d \in s..e-1 : cmdline[d] # SPACE
  BY <1>2, FromIs
<1>4. /\ e \in 1..Len(cmdline) + 1 /\ ~InWord(cmdline, e)
      /\ Found(cmdline, e, paths \o Collected(SubSeq(cmdline, s, e - 1), Len(paths)))
  BY <1>1, <1>3, OneWord
<1> QED
  BY <1>1, <1>3, <1>4

\* At the end of a line, what has been found is what Words and Named say.
LEMMA AllFound ==
  ASSUME cmdline \in Seq(PieceSet), NEW paths, Found(cmdline, Len(cmdline) + 1, paths)
  PROVE  /\ paths = Paths(Named(Words))
         /\ check_flag <=> \E k \in DOMAIN Words : Words[k][Len(Words[k])] = FLAG
<1> PICK line : line = cmdline
  OBVIOUS
<1>0. line \in Seq(PieceSet) /\ Len(line) \in Nat /\ DOMAIN line = 1..Len(line)
  OBVIOUS
<1>1. RunsBefore(line, Len(line) + 1) = Runs(line)
  <2>1. \A r \in Runs(line) : r[2] \in 1..Len(line)
    BY <1>0, RunTyped
  <2>2. \A r \in Runs(line) : r[2] < Len(line) + 1
    BY <1>0, <2>1
  <2> QED
    BY <2>2 DEF RunsBefore
<1> PICK n \in Nat : \E z, w :
      Lists(z, n, Runs(line)) /\ Selects(w, z, n, line) /\ paths = Paths(w[n])
  BY <1>1 DEF Found
<1> PICK z, w : Lists(z, n, Runs(line)) /\ Selects(w, z, n, line) /\ paths = Paths(w[n])
  OBVIOUS
<1> PICK words : words = Words
  OBVIOUS
<1>2. words = [k \in 1..n |-> Word(line, z[k])]
  BY <1>0, WordsAre
<1>3. z \in [1..n -> Runs(line)] /\ \A r \in Runs(line) : \E k \in 1..n : z[k] = r
  BY DEF Lists
<1>4. words \in Seq(Seq(PieceSet)) /\ Len(words) = n /\ DOMAIN words = 1..n
  <2> PICK S : S = Seq(PieceSet)
    OBVIOUS
  <2>1. \A k \in 1..n : Word(line, z[k]) \in S
    BY <1>0, <1>3, RunTyped
  <2>2. words \in [1..n -> S]
    BY <1>2, <2>1
  <2>3. \A T : words \in [1..n -> T] => words \in Seq(T) /\ Len(words) = n
    BY ONLY n \in Nat
  <2> QED
    BY <1>2, <2>2, <2>3
<1>5. Named(words) = w[n]
  <2>1. PICK u \in [0..n -> Seq(Seq(PieceSet))] :
          /\ u[0] = <<>>
          /\ \A k \in 1..n : u[k] = IfNamed(u[k - 1], words[k])
          /\ Named(words) = u[n]
    <3>1. \E u \in [0..Len(words) -> Seq(Seq(PieceSet))] :
            /\ u[0] = <<>>
            /\ \A k \in 1..Len(words) : u[k] = IfNamed(u[k - 1], words[k])
            /\ Named(words) = u[Len(words)]
      BY <1>4, NamedAre
    <3> QED
      BY <1>4, <3>1
  <2>2. w[0] = <<>> /\ \A k \in 1..n : w[k] = IfNamed(w[k - 1], words[k])
    BY <1>2 DEF Selects
  <2> DEFINE G == {k \in 0..n : u[k] = w[k]}
  <2>3. 0 \in G
    BY <2>1, <2>2
  <2>4. ASSUME NEW k \in 0..n, k \in G, k < n PROVE k + 1 \in G
    <3>1. k + 1 \in 1..n /\ k + 1 \in 0..n /\ (k + 1) - 1 = k
      BY <2>4
    <3>2. u[k + 1] = IfNamed(u[k], words[k + 1]) /\ w[k + 1] = IfNamed(w[k], words[k + 1])
      BY <2>1, <2>2, <3>1
    <3>3. u[k] = w[k]
      BY <2>4
    <3> QED
      BY <3>1, <3>2, <3>3
  <2> HIDE DEF G
  <2>5. \A k \in 0..n : k \in G
    BY <2>3, <2>4, UpToN
  <2>6. n \in G
    BY <2>5
  <2> QED
    BY <2>1, <2>6 DEF G
<1>6. \A k \in 1..n : words[k][Len(words[k])] = line[z[k][2]]
  BY <1>0, <1>2, <1>3, RunTyped
<1>7. ASSUME NEW k \in 1..n, line[z[k][2]] = FLAG PROVE check_flag
  <2> PICK b : b = z[k][2]
    OBVIOUS
  <2>1. b \in 1..Len(line) /\ ~InWord(line, b + 1)
    BY <1>0, <1>3 DEF Runs
  <2>2. b = Len(line) \/ line[b + 1] = SPACE
    <3>1. b # Len(line) => b + 1 \in 1..Len(line)
      BY <1>0, <2>1
    <3> QED
      BY <1>0, <2>1, <3>1 DEF InWord
  <2> QED
    BY <1>0, <1>7, <2>1, <2>2 DEF check_flag, Follows
<1>8. ASSUME check_flag PROVE \E k \in 1..n : line[z[k][2]] = FLAG
  <2>1. PICK b \in 1..Len(line) : line[b] = FLAG /\ (b = Len(line) \/ line[b + 1] = SPACE)
    BY <1>0, <1>8 DEF check_flag, Follows
  <2> DEFINE T == {a \in 1..b : \A p \in a..b : InWord(line, p)}
  <2>2. b \in T
    <3>1. \A p \in b..b : p = b
      OBVIOUS
    <3>2. InWord(line, b)
      BY <1>0, <2>1 DEF InWord, FLAG, SPACE
    <3> QED
      BY <3>1, <3>2
  <2>3. T \subseteq Nat
    OBVIOUS
  <2>4. PICK a \in T : \A d \in T : a <= d
    <3> HIDE DEF T
    <3> QED BY <2>2, <2>3, Least
  <2>5. a \in 1..b /\ a \in 1..Len(line) /\ a <= b /\ \A p \in a..b : InWord(line, p)
    BY <1>0
  <2>6. ~InWord(line, a - 1)
    <3> SUFFICES ASSUME InWord(line, a - 1) PROVE FALSE
      OBVIOUS
    <3>1. a - 1 \in 1..b
      BY <1>0, <2>5 DEF InWord
    <3>2. \A p \in (a - 1)..b : p = a - 1 \/ p \in a..b
      BY <2>5
    <3>3. a - 1 \in T
      BY <2>5, <3>1, <3>2
    <3>4. a <= a - 1
      BY <2>4, <3>3
    <3> QED
      BY <2>5, <3>4
  <2>7. ~InWord(line, b + 1)
    <3>1. b = Len(line) => b + 1 \notin 1..Len(line)
      BY <1>0
    <3> QED
      BY <1>0, <2>1, <3>1 DEF InWord
  <2> HIDE DEF T
  <2>8. <<a, b>> \in Runs(line)
    BY <1>0, <2>5, <2>6, <2>7 DEF Runs
  <2>9. PICK k \in 1..n : z[k] = <<a, b>>
    BY <1>3, <2>8
  <2> QED
    BY <2>1, <2>9
<1> QED
  BY <1>4, <1>5, <1>6, <1>7, <1>8

-----------------------------------------------------------------------------
(* The inductive invariant of the scan *)

LineRead ==
  /\ stage \in {"flag", "collect", "load"}
  /\ cmdline # NULL => cmdline \in Lines
  /\ stage = "flag" => boot_modules = <<>> /\ arg = 1
  /\ stage = "collect" =>
       /\ cmdline \in Lines
       /\ arg \in 1..Len(cmdline) + 1 /\ (arg = 1 \/ ~InWord(cmdline, arg))
       /\ Found(cmdline, arg, boot_modules)
  /\ stage = "load" /\ cmdline # NULL => Found(cmdline, Len(cmdline) + 1, boot_modules)
  /\ stage # "flag" /\ cmdline # NULL => (DEBUG <=> check_flag)

LEMMA LineFirst == CmdlineInit => LineRead
  BY DEF CmdlineInit, LineRead

LEMMA LineNext ==
  ASSUME LineRead, [CmdlineNext]_<<vars, cmdvars>>
  PROVE  LineRead'
<1>0. \A line \in Lines : line \in Seq(PieceSet) /\ Len(line) \in Nat
  BY CmdlineConstants DEF PieceSet
<1>1. CASE UNCHANGED cmdvars
  BY <1>1 DEF LineRead, cmdvars, check_flag, Follows
<1>2. CASE NoCmdline
  BY <1>2 DEF NoCmdline, LineRead
<1>3. CASE ReadFlag
  <2>1. /\ stage = "flag" /\ cmdline # NULL /\ stage' = "collect" /\ DEBUG' = check_flag
        /\ cmdline' = cmdline /\ arg' = arg /\ boot_modules' = boot_modules
    BY <1>3 DEF ReadFlag
  <2>2. cmdline \in Lines /\ boot_modules = <<>> /\ arg = 1
    BY <2>1 DEF LineRead
  <2>3. Found(cmdline, 1, <<>>)
    BY <1>0, <2>2, NothingFound
  <2>4. 1 \in 1..Len(cmdline) + 1
    BY <1>0, <2>2
  <2>5. check_flag' <=> check_flag
    BY <2>1 DEF check_flag, Follows
  <2>6. DEBUG' <=> check_flag
    BY <2>1, Zenon
  <2> QED
    BY <2>1, <2>2, <2>3, <2>4, <2>5, <2>6 DEF LineRead
<1>4. CASE NextArgument
  <2> PICK start, end : start = From(arg, FALSE) /\ end = From(start, TRUE)
    OBVIOUS
  <2>1. /\ stage = "collect"
        /\ boot_modules' =
             boot_modules \o Collected(SubSeq(cmdline, start, end - 1), Len(boot_modules))
        /\ arg' = end
        /\ stage' = IF end > Len(cmdline) THEN "load" ELSE "collect"
        /\ cmdline' = cmdline /\ DEBUG' = DEBUG
    BY <1>4 DEF NextArgument
  <2>2. /\ cmdline \in Lines /\ cmdline \in Seq(PieceSet) /\ Len(cmdline) \in Nat
        /\ arg \in 1..Len(cmdline) + 1 /\ (arg = 1 \/ ~InWord(cmdline, arg))
        /\ Found(cmdline, arg, boot_modules)
    BY <1>0, <2>1 DEF LineRead
  <2>3. /\ end \in 1..Len(cmdline) + 1 /\ ~InWord(cmdline, end)
        /\ Found(cmdline, end, boot_modules')
    BY <2>1, <2>2, OneArgument
  <2>4. end > Len(cmdline) => end = Len(cmdline) + 1
    BY ONLY <2>2, <2>3
  <2>5. check_flag' <=> check_flag
    BY <2>1 DEF check_flag, Follows
  <2>6. cmdline # NULL => (DEBUG <=> check_flag)
    BY <2>1 DEF LineRead
  <2>7. CASE end > Len(cmdline)
    BY <2>1, <2>2, <2>3, <2>4, <2>5, <2>6, <2>7 DEF LineRead
  <2>8. CASE ~(end > Len(cmdline))
    BY <2>1, <2>2, <2>3, <2>5, <2>6, <2>8 DEF LineRead
  <2> QED
    BY <2>7, <2>8
<1>5. CASE load_module_from_file
  BY <1>5 DEF load_module_from_file, LineRead
<1> QED
  BY <1>1, <1>2, <1>3, <1>4, <1>5 DEF CmdlineNext, Load, AllLoaded

(***************************************************************************)
(* read_boot_cmdline and collect_boot_modules of cmdline.c read any line   *)
(* as it is meant, however long it is and wherever its spaces lie: the     *)
(* scan finds every argument once and in order, the paths are those of the *)
(* first arguments that name a module by one that fits, and debugging is   *)
(* on exactly if an argument ends with the flag.                           *)
(***************************************************************************)
THEOREM CmdlineBootOptionsRead == CmdlineSpec => []BootOptionsRead
<1>1. ASSUME LineRead PROVE BootOptionsRead
  <2> SUFFICES ASSUME stage = "load", cmdline # NULL
               PROVE  LET named == Named(Words) IN
                        /\ boot_modules =
                             [k \in 1..(IF Len(named) < MAX_BOOT_MODULES THEN Len(named)
                                        ELSE MAX_BOOT_MODULES) |-> Tail(named[k])]
                        /\ DEBUG <=> \E k \in DOMAIN Words : Words[k][Len(Words[k])] = FLAG
    BY DEF BootOptionsRead
  <2>1. cmdline \in Seq(PieceSet) /\ Found(cmdline, Len(cmdline) + 1, boot_modules)
    BY <1>1, CmdlineConstants DEF LineRead, PieceSet
  <2>2. DEBUG <=> check_flag
    BY <1>1 DEF LineRead
  <2>3. /\ boot_modules = Paths(Named(Words))
        /\ check_flag <=> \E k \in DOMAIN Words : Words[k][Len(Words[k])] = FLAG
    BY <2>1, AllFound
  <2> QED
    BY <2>2, <2>3 DEF Paths
<1>2. LineRead /\ [CmdlineNext]_<<vars, cmdvars>> => LineRead'
  BY LineNext
<1>3. LineRead => BootOptionsRead
  BY <1>1
<1> QED
  BY LineFirst, <1>2, <1>3, PTL DEF CmdlineSpec
=============================================================================
