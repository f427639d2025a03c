------------------------------- MODULE MCExt2 -------------------------------
(***************************************************************************)
(* Every partition table of unused, Linux and protective entries, and      *)
(* partition arrays of two sectors whose first name is short, or long      *)
(* enough to reach the places of the header's two numbers; with LongNames  *)
(* the count stays larger than the array, and the loop goes on behind it,  *)
(* where a sector may be empty or look like one of long names.  The        *)
(* superblock is that of the first partition, or of a disk without         *)
(* partitions.                                                             *)
(***************************************************************************)
EXTENDS Ext2

Table(types) == [k \in 1..4 |-> [type |-> types[k], lba_start |-> 10 * k, sector_count |-> k]]
Plain == [used |-> TRUE, num |-> 0, size |-> 0]
Array(used, num, size) ==
  <<<<[used |-> used, num |-> num, size |-> size], Plain>>, <<Plain, Plain>>>>

LongNames ==
  <<<<[Plain EXCEPT !.num = 9], Plain>>, <<[Plain EXCEPT !.num = 9], Plain>>>>

Behind == {<<Plain, Plain>>, LongNames[2]}

MCDisks ==
  {[signature |-> sig, mbr |-> Table(types), header |-> h, array |-> a, beyond |-> Behind,
    superblock |-> l]
     : sig \in BOOLEAN, types \in [1..4 -> {UNUSED, 131, GPT}],
       h \in [valid : BOOLEAN, num : {0, 3, 4}],
       a \in {Array(TRUE, 0, 0), Array(FALSE, 4, 0), Array(TRUE, 3, 7), LongNames},
       l \in {2, 12}}

\* A disk with one partition of a short name, in the first place.
MCShortName ==
  {[signature |-> TRUE, mbr |-> Table(<<GPT, UNUSED, UNUSED, UNUSED>>),
    header |-> [valid |-> TRUE, num |-> 4],
    array |-> <<<<Plain, [Plain EXCEPT !.used = FALSE]>>,
                <<[Plain EXCEPT !.used = FALSE], [Plain EXCEPT !.used = FALSE]>>>>,
    beyond |-> Behind,
    superblock |-> 2]}
=============================================================================
