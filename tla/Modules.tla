------------------------------ MODULE Modules ------------------------------
(***************************************************************************)
(* Kernel modules: load_module_from_file and load_module of                *)
(* src/modules/loader.c.  Cmdline.tla is the command line, for whose every *)
(* module _start calls them, one after the other.                          *)
(*                                                                         *)
(* A file is described by what the loader reads from it: whether the ELF   *)
(* header passes elf_validate, the sections, the symbols and the           *)
(* relocations.  Section 0 is the null section of every ELF file.  The     *)
(* bytes of sections are left out, the patches that relocations make in    *)
(* them are not.  A section is "inside" if it lies in the file and, for    *)
(* relocations, is made of whole entries; a symbol is "named" if its name  *)
(* lies in the string table.  The number of a relocation's symbol fits in  *)
(* the int in which the loader keeps it; one of 2^31 or more would be      *)
(* negative there, pass the test, and be read in front of the table.       *)
(*                                                                         *)
(* The kernel and its heap lie in the topmost FIELD \div 2 addresses, as   *)
(* they do in the topmost 2 GiB.  kmalloc halts rather than fail, except   *)
(* for size 0.                                                             *)
(***************************************************************************)
EXTENDS Integers, Sequences, SequencesExt, FiniteSets

CONSTANTS MAX_BOOT_MODULES,
          Exported,      \* ksymtab: name -> address
          Base,          \* where kmalloc puts the memory of the nth module
          WORD,          \* one more than the largest address
          FIELD          \* values of a 32 bit field

UNDEF == 0
ABS == 1000
NullSection == [alloc |-> FALSE, type |-> "null", size |-> 0, align |-> 0,
                inside |-> TRUE, info |-> 0, link |-> 0, relas |-> <<>>]

High == WORD - FIELD \div 2 .. WORD - 1

ASSUME ModulesConstants ==
  /\ MAX_BOOT_MODULES \in Nat /\ Base \in [1..MAX_BOOT_MODULES -> Nat]
  /\ {WORD, FIELD} \subseteq Nat \ {0} /\ FIELD % 2 = 0 /\ WORD % FIELD = 0
  /\ \A n \in 1..MAX_BOOT_MODULES : Base[n] \in High

VARIABLES file,          \* the file being loaded
          loads,         \* how many have been loaded, or not
          pc,
          held,          \* kmalloc'ed and not kfreed: <<what, which load>>
          addr,          \* section -> sh_addr
          memory_size,
          i, j,          \* relocation section and entry
          patched,       \* section and entry -> the patch it made
          init,          \* mod->init, 0 for NULL
          modules        \* the loads that returned a module

locals == <<addr, memory_size, i, j, patched, init>>
vars == <<file, loads, pc, held, locals, modules>>

Sections == 0..Len(file.sections)
Section(s) == IF s = 0 THEN NullSection ELSE file.sections[s]
Allocated == {s \in DOMAIN file.sections : file.sections[s].alloc}

(***************************************************************************)
(* What a file of the kind "file" is like.  load_module rounds an offset   *)
(* up by masking its low bits, which AlignUp says for powers of two only,  *)
(* and ELF knows no other alignment.                                       *)
(***************************************************************************)
Relocation == [type : STRING, sym : Nat, offset : Nat, addend : Int]
SectionHeader == [alloc : BOOLEAN, type : STRING, size : Nat, align : Nat, inside : BOOLEAN,
                  info : Nat, link : Nat, relas : Seq(Relocation)]
Symbol == [named : BOOLEAN, shndx : Nat, value : Nat, name : STRING]

IsObject(f) ==
  /\ f.size \in Nat /\ f.valid \in BOOLEAN
  /\ f.sections \in Seq(SectionHeader) /\ f.symbols \in Seq(Symbol)
  /\ \A s \in DOMAIN f.sections : f.sections[s].align \in {0} \cup {2^k : k \in 0..30}

NoFile == [kind |-> "missing"]

Init ==
  /\ loads = 0 /\ pc = "next" /\ held = {} /\ modules = {}
  /\ file = NoFile /\ addr = <<>> /\ memory_size = 0
  /\ i = 1 /\ j = 1 /\ patched = <<>> /\ init = 0

-----------------------------------------------------------------------------
(* load_module_from_file *)

\* The next load, of a path that leads to f.
Open(f) ==
  /\ pc = "next"
  /\ loads' = loads + 1
  /\ IF f.kind # "file" \/ f.size = 0                   \* kmalloc(0) is NULL
     THEN UNCHANGED <<file, pc, held>>
     ELSE /\ file' = f
          /\ pc' = "validate"
          /\ held' = held \cup {<<"file_buffer", loads'>>}
  /\ UNCHANGED <<locals, modules>>

\* kfree of the buffer, and vfs_close, which does nothing for these files.
Close ==
  /\ pc = "close"
  /\ held' = held \ {<<"file_buffer", loads>>}
  /\ pc' = "next"
  /\ file' = NoFile /\ addr' = <<>> /\ memory_size' = 0
  /\ i' = 1 /\ j' = 1 /\ patched' = <<>> /\ init' = 0
  /\ UNCHANGED <<loads, modules>>

-----------------------------------------------------------------------------
(* load_module: sections *)

AlignUp(x, a) == IF a > 1 THEN ((x + a - 1) \div a) * a ELSE x

\* Section -> where the allocated ones end that are not behind it.
Ends(sections) ==
  LET end[s \in 0..Len(sections)] ==
        IF s = 0 THEN 0
        ELSE IF sections[s].alloc
             THEN AlignUp(end[s - 1], sections[s].align) + sections[s].size
             ELSE end[s - 1]
  IN  end

TotalSizeUnaligned ==
  FoldLeft(LAMBDA n, h : IF h.alloc THEN n + h.size ELSE n, 0, file.sections)
TotalSize == Ends(file.sections)[Len(file.sections)]

\* sh_addr of an allocated section.
Place(s) == Base[loads] + AlignUp(Ends(file.sections)[s - 1], Section(s).align)

SectionsInFile ==
  /\ file.valid
  /\ \A s \in Allocated : Section(s).type # "nobits" => Section(s).inside
Loadable == SectionsInFile /\ TotalSize > 0            \* kmalloc(0) is NULL

RefuseFile ==
  /\ pc = "validate" /\ ~Loadable
  /\ pc' = "close"
  /\ UNCHANGED <<file, loads, held, locals, modules>>

PlaceSections ==
  /\ pc = "validate" /\ Loadable
  /\ held' = held \cup {<<"module_memory", loads>>}
  /\ memory_size' = TotalSize
  /\ addr' = [s \in Allocated |-> Place(s)]
  /\ pc' = "symtab"
  /\ UNCHANGED <<file, loads, i, j, patched, init, modules>>

-----------------------------------------------------------------------------
(* load_module: symbols and relocations *)

\* The first symbol table, 0 if there is none.
Symtab == SelectInSeq(file.sections, LAMBDA s : s.type = "symtab")

\* The symbol table and its strings lie in the file.
SymbolsValid ==
  /\ Symtab # 0
  /\ LET t == Section(Symtab) IN
       /\ t.inside /\ t.link \in Sections
       /\ Section(t.link).type = "strtab" /\ Section(t.link).inside

KeepMemory == UNCHANGED held
FreeMemory == held' = held \ {<<"module_memory", loads>>}

Refuse ==
  /\ FreeMemory
  /\ pc' = "close"
  /\ UNCHANGED <<file, loads, locals, modules>>

RefuseSymbols == pc = "symtab" /\ ~SymbolsValid /\ Refuse

FindSymbols ==
  /\ pc = "symtab" /\ SymbolsValid
  /\ pc' = "rela"
  /\ UNCHANGED <<file, loads, held, locals, modules>>

\* The relocation section that i has come to, if there is one left.
Rela == Section(i)
InRela == pc = "rela" /\ i \in Sections
RelaValid == Rela.info \in Sections /\ Rela.inside
ButTheLast == j >= Len(Rela.relas)
AllMade == j > Len(Rela.relas)
Relevant == Rela.type = "rela" /\ RelaValid /\ Section(Rela.info).alloc

NextSection ==
  /\ InRela
  /\ \/ Rela.type # "rela"
     \/ RelaValid /\ ~Section(Rela.info).alloc
     \/ Relevant /\ AllMade
  /\ i' = i + 1 /\ j' = 1
  /\ UNCHANGED <<file, loads, pc, held, addr, memory_size, patched, init, modules>>

RefuseRela == InRela /\ Rela.type = "rela" /\ ~RelaValid /\ Refuse

Entry == Rela.relas[j]
AtEntry == InRela /\ Relevant /\ ~AllMade

\* The symbol of the entry is there, and if a section defines it, an
\* allocated one does.
Resolves ==
  /\ Entry.sym \in DOMAIN file.symbols
  /\ LET sym == file.symbols[Entry.sym] IN
       /\ sym.named
       /\ \/ sym.shndx = UNDEF /\ sym.name \in DOMAIN Exported
          \/ sym.shndx = ABS
          \/ sym.shndx \in DOMAIN addr

SymbolValue ==
  LET sym == file.symbols[Entry.sym] IN
    CASE sym.shndx = UNDEF -> Exported[sym.name]
      [] sym.shndx = ABS   -> sym.value
      [] OTHER             -> addr[sym.shndx] + sym.value

Width(type) == IF type = "64" THEN 8 ELSE 4
InSection == Entry.offset <= Section(Rela.info).size
             /\ Width(Entry.type) <= Section(Rela.info).size - Entry.offset

Patchable ==
  /\ Resolves
  /\ \/ Entry.type = "NONE"
     \/ Entry.type \in {"64", "PC32", "PLT32", "32", "32S"} /\ InSection

RefuseEntry == AtEntry /\ ~Patchable /\ Refuse

StoredAbsolute(type, value, at) == IF type = "64" THEN value % WORD ELSE value % FIELD
Stored(type, value, at) ==
  CASE type = "64" -> value % WORD
    [] type \in {"PC32", "PLT32"} -> (value - at) % FIELD
    [] type \in {"32", "32S"} -> value % FIELD

ApplyEntry ==
  /\ AtEntry /\ Patchable
  /\ LET at == addr[Rela.info] + Entry.offset
         value == SymbolValue + Entry.addend
     IN  patched' =
           IF Entry.type = "NONE" THEN patched
           ELSE [e \in DOMAIN patched \cup {<<i, j>>} |->
                   IF e = <<i, j>>
                   THEN [type |-> Entry.type, at |-> at, value |-> value,
                         stored |-> Stored(Entry.type, value, at)]
                   ELSE patched[e]]
  /\ j' = j + 1
  /\ UNCHANGED <<file, loads, pc, held, addr, memory_size, i, init, modules>>

-----------------------------------------------------------------------------
(* load_module: the module *)

\* The last symbol of the name that a section defines.
InitSymbols ==
  {s \in DOMAIN file.symbols : /\ file.symbols[s].name = "module_init"
                               /\ file.symbols[s].shndx \in Sections \ {UNDEF}}
FindInit ==
  IF InitSymbols = {} THEN 0
  ELSE LET s == CHOOSE s \in InitSymbols : \A t \in InitSymbols : t <= s
           sym == file.symbols[s]
       IN  ((IF sym.shndx \in DOMAIN addr THEN addr[sym.shndx] ELSE 0) + sym.value) % WORD

MakeModule ==
  /\ pc = "rela" /\ i \notin Sections
  /\ held' = held \cup {<<"kernel_module_t", loads>>}
  /\ init' = FindInit
  /\ pc' = IF FindInit = 0 THEN "return" ELSE "init"
  /\ UNCHANGED <<file, loads, addr, memory_size, i, j, patched, modules>>

module_init ==
  /\ pc = "init"
  /\ pc' = "return"
  /\ UNCHANGED <<file, loads, held, locals, modules>>

ReturnModule ==
  /\ pc = "return"
  /\ modules' = modules \cup {loads}
  /\ pc' = "close"
  /\ UNCHANGED <<file, loads, held, locals>>

\* Every step of a load but its first.
LoaderNext ==
  \/ Close
  \/ RefuseFile \/ PlaceSections \/ RefuseSymbols \/ FindSymbols
  \/ NextSection \/ RefuseRela \/ RefuseEntry \/ ApplyEntry
  \/ MakeModule \/ module_init \/ ReturnModule

-----------------------------------------------------------------------------
(* Properties *)

(***************************************************************************)
(* From PlaceSections on load_module has memory, of some size, and an      *)
(* address for every allocated section; the relocations made so far are    *)
(* before entry j of section i.                                            *)
(***************************************************************************)
TypeOK ==
  /\ pc \in {"next", "validate", "symtab", "rela", "init", "return", "close"}
  /\ loads \in 0..MAX_BOOT_MODULES /\ modules \subseteq 1..loads
  /\ held \subseteq {"file_buffer", "module_memory", "kernel_module_t"} \X (1..loads)
  /\ pc \in {"symtab", "rela", "init", "return"} =>
       DOMAIN addr = Allocated /\ memory_size \in Nat \ {0}
  /\ init \in 0..WORD-1
  /\ \A e \in DOMAIN patched : \/ e[1] < i
                               \/ e[1] = i /\ e[2] < j

Bytes(a, n) == a..(a + n - 1)
Memory == Bytes(Base[loads], memory_size)

(***************************************************************************)
(* Whatever the sections' sizes and alignments and the relocations'        *)
(* offsets, everything that load_module writes lies inside the memory it   *)
(* has allocated for them, and no section overlaps another.                *)
(***************************************************************************)
WritesInside ==
  /\ \A s \in DOMAIN addr :
       /\ Bytes(addr[s], Section(s).size) \subseteq Memory
       /\ \A t \in DOMAIN addr :
            s # t => Bytes(addr[s], Section(s).size) \cap Bytes(addr[t], Section(t).size) = {}
  /\ \A e \in DOMAIN patched :
       Bytes(patched[e].at, Width(patched[e].type)) \subseteq Memory

Signed(x) == IF x >= FIELD \div 2 THEN x - FIELD ELSE x

\* The address that a patched place stands for when its instruction runs.
Meaning(p) ==
  CASE p.type = "64" -> p.stored
    [] p.type \in {"PC32", "PLT32"} -> (p.at + Signed(p.stored)) % WORD
    [] p.type = "32S" -> Signed(p.stored) % WORD
    [] p.type = "32" -> p.stored

(***************************************************************************)
(* Relocations of 32 signed bits reach their symbols, in the kernel and in *)
(* the module, although load_module never tests that a value fits: the     *)
(* kernel and its heap are close enough, and high enough, for that.  (The  *)
(* zero extended 32 bits of R_X86_64_32 can name neither, and are stored   *)
(* all the same.)                                                          *)
(***************************************************************************)
PatchesReach ==
  \A e \in DOMAIN patched :
    patched[e].type # "32" => Meaning(patched[e]) = patched[e].value % WORD

(***************************************************************************)
(* Between two modules only the memory of those that were loaded is held:  *)
(* every way out of load_module gives back what it has allocated so far.   *)
(***************************************************************************)
NothingLeaked ==
  pc = "next" => held = {"module_memory", "kernel_module_t"} \X modules

(***************************************************************************)
(* module_init runs in a module whose every relocation has been made, from *)
(* memory that is the module's.                                            *)
(***************************************************************************)
RunsWhole ==
  pc = "init" =>
    /\ init \in Memory
    /\ <<"module_memory", loads>> \in held
    /\ \A s \in Sections :
         Section(s).type = "rela" /\ Section(Section(s).info).alloc =>
           \A k \in DOMAIN Section(s).relas :
             Section(s).relas[k].type # "NONE" => <<s, k>> \in DOMAIN patched

(***************************************************************************)
(* What load_module has done so far: its memory has an address for every   *)
(* allocated section, and all that it has written lies in that memory, if  *)
(* the sum of the sections' sizes, which it does not test, does not wrap.  *)
(***************************************************************************)
ModulesInv == TypeOK /\ WritesInside
=============================================================================
