----------------------------- MODULE MCCmdline -----------------------------
(***************************************************************************)
(* Command lines of up to five pieces, among them two paths that fit and  *)
(* longer ones, with spaces anywhere; two modules at most.                 *)
(*                                                                         *)
(* Files with text, data and bss, a symbol table and up to two relocation  *)
(* sections, and the ways in which each part of one can be wrong.  Of the  *)
(* 1024 addresses the topmost 128 are what a signed field of 8 bits can    *)
(* name: the kernel lies in 896..959, its heap above it.                   *)
(***************************************************************************)
EXTENDS Cmdline

ExportedSymbols == [kmalloc |-> 900, printf |-> 955]
HeapMemory == <<960, 992>>

Alloc(type, size, align, inside) ==
  [alloc |-> TRUE, type |-> type, size |-> size, align |-> align,
   inside |-> inside, info |-> 0, link |-> 0, relas |-> <<>>]
Table(type, inside, link) ==
  [NullSection EXCEPT !.type = type, !.inside = inside, !.link = link]
RelaFor(info, inside, relas) ==
  [NullSection EXCEPT !.type = "rela", !.info = info, !.inside = inside, !.relas = relas]

Defined(shndx, value, name) == [named |-> TRUE, shndx |-> shndx, value |-> value, name |-> name]

(* 1 kmalloc, 2 printf, 3 a symbol the kernel does not export, 4 an    *)
(* absolute one, 5 a counter in data, 6 module_init in text, 7 one that a   *)
(* section without memory defines, 8 one whose name is out of its table.    *)
SomeSymbols ==
  << Defined(UNDEF, 0, "kmalloc"), Defined(UNDEF, 0, "printf"),
     Defined(UNDEF, 0, "missing"), Defined(ABS, 1020, "absolute"),
     Defined(2, 1, "counter"), Defined(1, 2, "module_init"),
     Defined(4, 0, "file.c"), [Defined(2, 0, "?") EXCEPT !.named = FALSE] >>

Entries ==
  [type : {"64", "PC32", "32S"}, sym : {1, 5}, offset : {0, 4}, addend : {-4, 0}]
OtherEntries ==
  { [type |-> "PLT32", sym |-> 2, offset |-> 2, addend |-> -4],
    [type |-> "NONE", sym |-> 1, offset |-> 99, addend |-> 0],
    [type |-> "GOT", sym |-> 1, offset |-> 0, addend |-> 0],
    [type |-> "32S", sym |-> 4, offset |-> 4, addend |-> 0],
    [type |-> "32", sym |-> 1, offset |-> 4, addend |-> 0] }
  \cup [type : {"PC32"}, sym : {3, 6, 7, 8, 9}, offset : {0}, addend : {0}]
  \cup [type : {"64", "PC32"}, sym : {1}, offset : {5, 9, 12}, addend : {0}]

\* text, data and bss, the tables, the relocations of the text and of the
\* tables themselves (which have no memory and need none).
Object(sizes, aligns, first, second) ==
  [kind |-> "file", size |-> 64, valid |-> TRUE,
   symbols |-> SomeSymbols,
   sections |-> << Alloc("bits", sizes[1], aligns[1], TRUE),
                   Alloc("bits", sizes[2], aligns[2], TRUE),
                   Alloc("nobits", sizes[3], aligns[3], FALSE),
                   Table("symtab", TRUE, 5), Table("strtab", TRUE, 0),
                   RelaFor(1, TRUE, first), RelaFor(4, TRUE, second),
                   RelaFor(2, TRUE, second) >>]

Plain == Object(<<8, 8, 3>>, <<4, 4, 1>>, <<[type |-> "PC32", sym |-> 1, offset |-> 0, addend |-> -4]>>, <<>>)

With(k, s) == [Plain EXCEPT !.sections[k] = s]

Layouts ==
  {Object(z, a, <<e>>, <<>>) :
     z \in {<<8, 8, 0>>, <<9, 5, 3>>, <<5, 9, 2>>}, a \in {<<1, 1, 1>>, <<0, 4, 1>>, <<4, 8, 2>>},
     e \in [type : {"64", "PC32"}, sym : {5}, offset : {0, 1, 4, 5}, addend : {0}]}

Relocated ==
  {Object(<<8, 8, 3>>, <<4, 4, 1>>, <<e>>, <<f>>) : e \in Entries \cup OtherEntries, f \in Entries}
  \cup {Object(<<8, 8, 3>>, <<4, 4, 1>>, <<f, e>>, <<>>) : e \in Entries, f \in OtherEntries}

Wrong ==
  { [kind |-> "missing"], [kind |-> "directory"],
    [Plain EXCEPT !.size = 0], [Plain EXCEPT !.valid = FALSE],
    [Object(<<0, 0, 0>>, <<1, 1, 1>>, <<>>, <<>>) EXCEPT !.symbols[6].name = "start"],
    With(1, Alloc("bits", 8, 4, FALSE)),
    With(4, Table("strtab", TRUE, 0)), With(4, Table("symtab", FALSE, 5)),
    With(4, Table("symtab", TRUE, 9)), With(4, Table("symtab", TRUE, 6)),
    With(5, Table("strtab", FALSE, 0)),
    With(6, RelaFor(9, TRUE, <<>>)), With(6, RelaFor(1, FALSE, <<>>)),
    [Plain EXCEPT !.symbols[6].name = "start"] }

Pieces == (SPACE :> 1) @@ (MOD :> 6) @@ (FLAG :> 7) @@ ("a" :> 1) @@ ("b" :> 1)
SomeLines == SeqOf(DOMAIN Pieces, 5) \cup
  {<<MOD, p, SPACE, MOD>> \o r : p \in {"a", "b"},
     r \in {<<"a">>, <<"b", SPACE, MOD, "a">>, <<"a", "b", SPACE, MOD, "b">>}}

SomeFiles == (<<"a">> :> Layouts \cup Wrong) @@ (<<"b">> :> Relocated)

ASSUME InitInText /\ InReach
=============================================================================
