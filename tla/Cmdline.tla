------------------------------ MODULE Cmdline ------------------------------
(***************************************************************************)
(* The kernel command line: read_boot_cmdline and collect_boot_modules of  *)
(* src/cmdline.c, and the loop of _start (main.c) that loads the modules   *)
(* it names with the loader of Modules.tla.                                *)
(*                                                                         *)
(* The text of a command line is a sequence of pieces: spaces, the prefix  *)
(* "--MOD=", the flag "--debug" and other text without a space, each with  *)
(* the number of its characters.                                           *)
(***************************************************************************)
EXTENDS Modules

CONSTANTS Lines,                  \* the texts that the boot loader may hand over
          NULL,                   \* its having no response, or no text
          LengthOf,               \* piece -> its characters
          MAX_BOOT_MODULE_PATH,
          FilesAt                 \* path -> the files it may lead to

MOD == "--MOD="
FLAG == "--debug"
SPACE == " "

ASSUME CmdlineConstants ==
  /\ MAX_BOOT_MODULE_PATH \in Nat \ {0}
  /\ LengthOf[SPACE] = 1 /\ LengthOf[MOD] = 6 /\ LengthOf[FLAG] = 7
  /\ \A piece \in DOMAIN LengthOf : LengthOf[piece] \in Nat \ {0}
  /\ Lines \subseteq Seq(DOMAIN LengthOf)

\* A module's memory lies below the end of the address space.  In particular
\* no sum of load_module wraps in 64 bits, which it does not test: the size of
\* a section without bytes in the file is any number that the header gives.
ASSUME ModuleFiles ==
  \A p \in DOMAIN FilesAt : \A f \in FilesAt[p] :
    f.kind = "file" =>
      /\ IsObject(f)
      /\ \A n \in 1..MAX_BOOT_MODULES :
           Base[n] + Ends(f.sections)[Len(f.sections)] <= WORD

\* What a compiler does, and load_module relies on: module_init is in a section
\* that has memory.
InitInText ==
  \A p \in DOMAIN FilesAt : \A f \in FilesAt[p] :
    f.kind = "file" =>
      \A n \in DOMAIN f.symbols :
        f.symbols[n].name = "module_init" /\ f.symbols[n].shndx \in 1..Len(f.sections) =>
          /\ f.sections[f.symbols[n].shndx].alloc
          /\ f.symbols[n].value < f.sections[f.symbols[n].shndx].size

\* Where symbol k of f is when f is the nth to be loaded, if it is anywhere.
HasAddress(f, k) ==
  LET sym == f.symbols[k] IN
    \/ sym.shndx = UNDEF /\ sym.name \in DOMAIN Exported
    \/ sym.shndx = ABS
    \/ sym.shndx \in DOMAIN f.sections /\ f.sections[sym.shndx].alloc
Address(f, n, k) ==
  LET sym == f.symbols[k]
      t == f.sections[sym.shndx]
  IN  CASE sym.shndx = UNDEF -> Exported[sym.name]
        [] sym.shndx = ABS   -> sym.value
        [] OTHER -> Base[n] + AlignUp(Ends(f.sections)[sym.shndx - 1], t.align) + sym.value

\* What compiling for the kernel's memory model (-mcmodel=kernel) promises: a
\* signed field of 32 bits is used only for what lies where the kernel does.
InReach ==
  \A p \in DOMAIN FilesAt : \A f \in FilesAt[p] :
    f.kind = "file" =>
      \A s \in DOMAIN f.sections : \A k \in DOMAIN f.sections[s].relas :
        LET entry == f.sections[s].relas[k] IN
          /\ entry.type \in {"PC32", "PLT32", "32S"}
          /\ entry.sym \in DOMAIN f.symbols /\ HasAddress(f, entry.sym)
          => \A n \in 1..MAX_BOOT_MODULES : Address(f, n, entry.sym) + entry.addend \in High

VARIABLES stage,         \* of _start
          cmdline,
          arg,           \* the piece that the scan has come to
          DEBUG,
          boot_modules   \* the paths to load, in order

cmdvars == <<stage, cmdline, arg, DEBUG, boot_modules>>

CmdlineInit ==
  /\ Init
  /\ stage = "flag" /\ arg = 1 /\ DEBUG = FALSE /\ boot_modules = <<>>
  /\ cmdline \in Lines \cup {NULL}

-----------------------------------------------------------------------------
(* read_boot_cmdline *)

NoCmdline ==
  /\ stage = "flag" /\ cmdline = NULL
  /\ stage' = "load"
  /\ UNCHANGED <<vars, cmdline, arg, DEBUG, boot_modules>>

\* Nothing is asked of what stands before the flag.
Follows(k) == k = Len(cmdline) \/ cmdline[k + 1] = SPACE
check_flag == \E k \in DOMAIN cmdline : cmdline[k] = FLAG /\ Follows(k)

ReadFlag ==
  /\ stage = "flag" /\ cmdline # NULL
  /\ DEBUG' = check_flag
  /\ stage' = "collect"
  /\ UNCHANGED <<vars, cmdline, arg, boot_modules>>

\* The first place from k on where there is, or is not, a space; the end of
\* the text counts as both.
From(k, space) ==
  CHOOSE e \in k..Len(cmdline) + 1 :
    /\ e > Len(cmdline) \/ (cmdline[e] = SPACE) = space
    /\ \A d \in k..e-1 : (cmdline[d] = SPACE) # space

Characters(text) == FoldLeft(LAMBDA n, piece : n + LengthOf[piece], 0, text)

is_module_argument(text) == Len(text) > 1 /\ text[1] = MOD

CollectedOneLonger(text, n) ==
  IF /\ is_module_argument(text) /\ n < MAX_BOOT_MODULES
     /\ Characters(Tail(text)) <= MAX_BOOT_MODULE_PATH
  THEN <<Tail(text)>> ELSE <<>>

\* What an argument adds to the n paths there are.
Collected(text, n) ==
  IF /\ is_module_argument(text) /\ n < MAX_BOOT_MODULES
     /\ Characters(Tail(text)) < MAX_BOOT_MODULE_PATH
  THEN <<Tail(text)>> ELSE <<>>

NextArgument ==
  /\ stage = "collect"
  /\ LET start == From(arg, FALSE)
         end == From(start, TRUE)
     IN  /\ boot_modules' =
              boot_modules \o Collected(SubSeq(cmdline, start, end - 1), Len(boot_modules))
         /\ arg' = end
         /\ stage' = IF end > Len(cmdline) THEN "load" ELSE "collect"
  /\ UNCHANGED <<vars, cmdline, DEBUG>>

-----------------------------------------------------------------------------
(* _start *)

\* A path that leads nowhere is opened in vain.
FilesOf(path) == IF path \in DOMAIN FilesAt THEN FilesAt[path] ELSE {NoFile}

\* The next of the modules; the text is not used any more.
load_module_from_file ==
  /\ stage = "load" /\ loads < Len(boot_modules)
  /\ \E f \in FilesOf(boot_modules[loads + 1]) : Open(f)
  /\ cmdline' = NULL /\ arg' = 1 /\ DEBUG' = FALSE
  /\ UNCHANGED <<stage, boot_modules>>

Load == LoaderNext /\ UNCHANGED cmdvars

AllLoaded ==
  /\ stage = "load" /\ pc = "next" /\ loads = Len(boot_modules)
  /\ UNCHANGED <<vars, cmdvars>>

CmdlineNext ==
  \/ NoCmdline \/ ReadFlag \/ NextArgument
  \/ load_module_from_file \/ Load \/ AllLoaded

CmdlineSpec == CmdlineInit /\ [][CmdlineNext]_<<vars, cmdvars>>

-----------------------------------------------------------------------------
(* Properties *)

\* The arguments: the longest runs of pieces without a space.
Words ==
  LET at(p) == p \in DOMAIN cmdline /\ cmdline[p] # SPACE
      runs == {r \in (DOMAIN cmdline) \X (DOMAIN cmdline) :
                 /\ ~at(r[1] - 1) /\ ~at(r[2] + 1)
                 /\ r[1] <= r[2] /\ \A p \in r[1]..r[2] : at(p)}
  IN  [k \in 1..Cardinality(runs) |->
         LET r == CHOOSE r \in runs : Cardinality({q \in runs : q[1] <= r[1]}) = k
         IN  SubSeq(cmdline, r[1], r[2])]

\* An argument that names a module, by a path that there is room for.
Names(word) ==
  /\ word[1] = MOD
  /\ Characters(word) \in 7..(6 + MAX_BOOT_MODULE_PATH - 1)
IfNamed(found, word) == IF Names(word) THEN Append(found, word) ELSE found
Named(words) == FoldLeft(IfNamed, <<>>, words)

(***************************************************************************)
(* However the spaces lie, the modules that _start loads are the first     *)
(* MAX_BOOT_MODULES that the command line names by a path that fits, in    *)
(* its order: an argument that is refused takes no place, and none is cut. *)
(* Debugging is on exactly if some argument ends with the flag.            *)
(***************************************************************************)
BootOptionsRead ==
  stage = "load" /\ cmdline # NULL =>
    LET named == Named(Words) IN
      /\ boot_modules =
           [k \in 1..(IF Len(named) < MAX_BOOT_MODULES THEN Len(named)
                      ELSE MAX_BOOT_MODULES) |-> Tail(named[k])]
      /\ DEBUG <=> \E k \in DOMAIN Words : Words[k][Len(Words[k])] = FLAG
=============================================================================
