-------------------------------- MODULE Disk --------------------------------
(***************************************************************************)
(* Finding the partitions of the disk at boot: the block device table of   *)
(* src/drivers/storage/block.c, ata_init, mbr_parse (src/fs/part/mbr.c)    *)
(* and gpt_parse (src/fs/part/gpt.c), in the order in which _start calls   *)
(* them; Ext2.tla is what comes next.  Every sector read may fail; one     *)
(* that does not gets the sector it asks for, which Ata.tla says of all    *)
(* but the read after one that was given up.                               *)
(* block_write always fails: no driver has a write function.               *)
(*                                                                         *)
(* gpt_parse reads the header into sector_buf and keeps a pointer to it;   *)
(* it then reads the sectors of the partition array into the same buffer.  *)
(* So sector_buf is state, and header->num_partition_entries and           *)
(* header->size_of_partition_entry are whatever the buffer holds at their  *)
(* places: in a sector of the array, two pairs of characters of the name   *)
(* of its first partition, zero if the name is short.                      *)
(***************************************************************************)
EXTENDS Integers, Sequences, SequencesExt

CONSTANTS Disks,              \* disks: [signature, mbr, header, array, ...]
          MAX_BLOCK_DEVICES,
          PER_SECTOR,         \* partition entries in a sector (4)
          DISK_SECTORS        \* the size ata_init gives "sda"

UNUSED == 0
GPT == 238                    \* 0xEE, the protective partition

(***************************************************************************)
(* mbr: four entries [type, lba_start, sector_count].  header: [valid,     *)
(* num].  array: sectors of entries; an entry is [used, num, size], num    *)
(* and size being the numbers that its name has at the places of the       *)
(* header's num_partition_entries and size_of_partition_entry.             *)
(***************************************************************************)
ASSUME DiskConstants ==
  /\ MAX_BLOCK_DEVICES \in Nat /\ MAX_BLOCK_DEVICES > 4 /\ PER_SECTOR \in Nat \ {0} /\ DISK_SECTORS \in Nat
  /\ \A d \in Disks : /\ Len(d.mbr) = 4
                      /\ d.header.num \in Nat
                      /\ d.header.num <= PER_SECTOR * Len(d.array)
                      /\ \A s \in DOMAIN d.array : Len(d.array[s]) = PER_SECTOR
                      /\ \A entries \in d.beyond : Len(entries) = PER_SECTOR

VARIABLES disk,
          block_devices,      \* sequence of [name, start_lba, total_sectors]
          progress,           \* how far the boot has come
          i,                  \* mbr_parse's entry, gpt_parse's parsed_entries
          entry_lba,          \* next sector of the partition array
          sector_buf,         \* gpt_parse's buffer: [num, size, entries]
          listed              \* the partitions gpt_parse has printed

disk_vars == <<disk, block_devices, progress, i, entry_lba, sector_buf, listed>>

Empty == [num |-> 0, size |-> 0, entries |-> <<>>]

register_block_device(dev) ==
  block_devices' = IF Len(block_devices) >= MAX_BLOCK_DEVICES THEN block_devices
                   ELSE Append(block_devices, dev)

DiskInit ==
  /\ disk \in Disks
  /\ block_devices = <<>>
  /\ progress = "ata_init" /\ i = 0 /\ entry_lba = 1
  /\ sector_buf = Empty /\ listed = {}

ata_init ==
  /\ progress = "ata_init"
  /\ register_block_device([name |-> "sda", start_lba |-> 0,
                            total_sectors |-> DISK_SECTORS])
  /\ progress' = "sector0"
  /\ UNCHANGED <<disk, i, entry_lba, sector_buf, listed>>

-----------------------------------------------------------------------------
(* mbr_parse *)

\* _start reads sector 0; mbr_parse looks at its signature.
ReadSector0 ==
  /\ progress = "sector0"
  /\ progress' = IF disk.signature THEN "mbr" ELSE "done"
  /\ UNCHANGED <<disk, block_devices, i, entry_lba, sector_buf, listed>>

RetryForEver ==
  /\ progress \in {"sector0", "header", "array"}
  /\ progress = "array" => i < sector_buf.num
  /\ progress' = IF progress = "array" THEN "header" ELSE "done"
  /\ i' = 0 /\ entry_lba' = 1
  /\ UNCHANGED <<disk, block_devices, sector_buf, listed>>

\* A read may fail at any time.
ReadFails ==
  /\ progress \in {"sector0", "header", "array"}
  /\ progress = "array" => i < sector_buf.num
  /\ progress' = "done"
  /\ UNCHANGED <<disk, block_devices, i, entry_lba, sector_buf, listed>>

PartitionName(k) == <<"sda1", "sda2", "sda3", "sda4">>[k]

StopAtUnused ==
  /\ progress = "mbr" /\ i < 4
  /\ disk.mbr[i + 1].type = UNUSED
  /\ i' = 4
  /\ UNCHANGED <<disk, block_devices, progress, entry_lba, sector_buf, listed>>

MbrSkip ==
  /\ progress = "mbr" /\ i < 4
  /\ disk.mbr[i + 1].type = UNUSED
  /\ i' = i + 1
  /\ UNCHANGED <<disk, block_devices, progress, entry_lba, sector_buf, listed>>

MbrPartition ==
  /\ progress = "mbr" /\ i < 4
  /\ disk.mbr[i + 1].type \notin {UNUSED, GPT}
  /\ register_block_device([name |-> PartitionName(i + 1),
                            start_lba |-> disk.mbr[i + 1].lba_start,
                            total_sectors |-> disk.mbr[i + 1].sector_count])
  /\ i' = i + 1
  /\ UNCHANGED <<disk, progress, entry_lba, sector_buf, listed>>

MbrProtective ==
  /\ progress = "mbr" /\ i < 4
  /\ disk.mbr[i + 1].type = GPT
  /\ progress' = "header"
  /\ i' = 0
  /\ UNCHANGED <<disk, block_devices, entry_lba, sector_buf, listed>>

MbrEnd ==
  /\ progress = "mbr" /\ i = 4
  /\ progress' = "parsed"
  /\ UNCHANGED <<disk, block_devices, i, entry_lba, sector_buf, listed>>

-----------------------------------------------------------------------------
(* gpt_parse *)

ReadHeader ==
  /\ progress = "header"
  /\ sector_buf' = [num |-> disk.header.num, size |-> 128, entries |-> <<>>]
  /\ progress' = IF disk.header.valid /\ disk.header.num # 0 THEN "array" ELSE "done"
  /\ UNCHANGED <<disk, block_devices, i, entry_lba, listed>>

\* What may be read next: the loop does not stop at the end of the array.
NextSectors ==
  IF entry_lba \in DOMAIN disk.array THEN {disk.array[entry_lba]} ELSE disk.beyond

\* The next sector, over the header.
ReadArray ==
  /\ progress = "array" /\ i < sector_buf.num
  /\ \E entries \in NextSectors :
       sector_buf' = [num |-> entries[1].num, size |-> entries[1].size,
                      entries |-> entries]
  /\ progress' = "entries"
  /\ entry_lba' = entry_lba + 1
  /\ UNCHANGED <<disk, block_devices, i, listed>>

\* The entries among the first n that look used: sector_buf.size is the
\* stride.  With any but 0 and 128 it leads into the middle of an entry.
LookUsed(n) ==
  CASE sector_buf.size = 128 -> {{j \in 1..n : sector_buf.entries[j].used}}
    [] sector_buf.size = 0   -> {{j \in 1..n : sector_buf.entries[1].used}}
    [] OTHER -> {s \in SUBSET (1..n) : n > 0 => (1 \in s <=> sector_buf.entries[1].used)}

\* The inner loop over the sector's entries.
ListEntries ==
  /\ progress = "entries"
  /\ LET n == Max({0, Min({PER_SECTOR, sector_buf.num - i})}) IN
     /\ i' = i + n
     /\ \E s \in LookUsed(n) : listed' = listed \cup {i + j : j \in s}
  /\ progress' = "array"
  /\ UNCHANGED <<disk, block_devices, entry_lba, sector_buf>>

GptEnd ==
  /\ progress = "array" /\ i >= sector_buf.num
  /\ progress' = "listed"
  /\ UNCHANGED <<disk, block_devices, i, entry_lba, sector_buf, listed>>

\* How the search may have ended.
Ended == {"done", "parsed", "listed"}

DiskNext ==
  \/ ata_init \/ ReadSector0 \/ ReadFails
  \/ MbrSkip \/ MbrPartition \/ MbrProtective \/ MbrEnd
  \/ ReadHeader \/ ReadArray \/ ListEntries \/ GptEnd

-----------------------------------------------------------------------------
(* Properties *)

\* get_block_device: the first device of that name.
get_block_device(name) ==
  LET found == SelectInSeq(block_devices, LAMBDA d : d.name = name)
  IN  IF found = 0 THEN <<>> ELSE <<block_devices[found]>>

(***************************************************************************)
(* When mbr_parse has come to the end of the table, the name of every used *)
(* entry finds that entry, whatever gaps the table has, and the name of an *)
(* unused one finds nothing.                                               *)
(***************************************************************************)
NamesFindPartitions ==
  progress = "parsed" =>
    \A k \in 1..4 :
      get_block_device(PartitionName(k)) =
        IF disk.mbr[k].type = UNUSED THEN <<>>
        ELSE <<[name |-> PartitionName(k), start_lba |-> disk.mbr[k].lba_start,
                total_sectors |-> disk.mbr[k].sector_count]>>

(***************************************************************************)
(* A gpt_parse that reports success has printed the used entries among the *)
(* first num_partition_entries of the partition array, and no other.       *)
(***************************************************************************)
ListsPartitions ==
  progress = "listed" =>
    listed = {n \in 1..disk.header.num :
                disk.array[1 + ((n - 1) \div PER_SECTOR)][1 + ((n - 1) % PER_SECTOR)].used}
=============================================================================
