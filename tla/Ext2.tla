-------------------------------- MODULE Ext2 --------------------------------
(***************************************************************************)
(* The ext2 driver: ext2_init, which registers it with the VFS, and what   *)
(* _start does once the partitions are known: it looks the driver up and   *)
(* mounts "sda1" with it.  ext2_mount (src/fs/ext2/ext2.c) reads the       *)
(* superblock, fills an ext2_fs_t from it and returns NULL in every case:  *)
(* nothing holds the ext2_fs_t, and no file is read yet.                   *)
(*                                                                         *)
(* Where a disk has a superblock is part of the disk; the numbers in it    *)
(* are chosen when it is read.  A division by zero ends in exception 0,    *)
(* whose handler halts.                                                    *)
(***************************************************************************)
EXTENDS Disk

CONSTANTS BlockCounts, GroupSizes,   \* blocks_count and blocks_per_group
          WORD                       \* values of a uint32_t

ASSUME Ext2Constants ==
  /\ WORD \in Nat \ {0}
  /\ BlockCounts \cup GroupSizes \subseteq 0..WORD-1
  /\ \A d \in Disks : d.superblock \in Nat       \* the sector of the only one

VARIABLES fs_types_head,     \* the names of the registered filesystems
          stage,             \* of _start, as far as ext2 is concerned
          sda1,              \* the device to mount, <<>> for NULL
          ext2_fs            \* the ext2_fs_t, <<>> for none

ext2vars == <<fs_types_head, stage, sda1, ext2_fs>>

Ext2Init ==
  /\ DiskInit
  /\ fs_types_head = <<>> /\ stage = "init" /\ sda1 = <<>> /\ ext2_fs = <<>>

vfs_register_filesystem(name) == fs_types_head' = <<name>> \o fs_types_head
vfs_find_filesystem(name) == name \in ToSet(fs_types_head)

ext2_init ==
  /\ stage = "init" /\ progress = "sector0"
  /\ vfs_register_filesystem("ext2")
  /\ stage' = "partitions"
  /\ UNCHANGED <<disk_vars, sda1, ext2_fs>>

Partitions ==
  /\ progress = "ata_init" \/ stage = "partitions"
  /\ DiskNext
  /\ UNCHANGED ext2vars

\* However the search for partitions has ended.
FindSda1 ==
  /\ stage = "partitions" /\ progress \in Ended
  /\ sda1' = IF vfs_find_filesystem("ext2") THEN get_block_device("sda1") ELSE <<>>
  /\ stage' = IF sda1' = <<>> THEN "done" ELSE "mount"
  /\ UNCHANGED <<disk_vars, fs_types_head, ext2_fs>>

-----------------------------------------------------------------------------
(* ext2_mount *)

\* block_read's absolute_lba.
absolute_lba_of_disk(d, lba) == lba
absolute_lba(d, lba) == d.start_lba + lba

\* The read fails, or what it has read is no superblock.
MountFails ==
  /\ stage = "mount"
  /\ stage' = "done"
  /\ UNCHANGED <<disk_vars, fs_types_head, sda1, ext2_fs>>

ReadSuperblock ==
  /\ stage = "mount"
  /\ absolute_lba(sda1[1], 2) = disk.superblock
  /\ \E b \in BlockCounts, g \in GroupSizes :
       ext2_fs' = <<[dev |-> sda1[1], blocks_count |-> b, blocks_per_group |-> g,
                     group_count |-> 0]>>
  /\ stage' = "groups"
  /\ UNCHANGED <<disk_vars, fs_types_head, sda1>>

\* In 32 bits.
Groups(b, g) == ((b + g - 1) % WORD) \div g

CountGroups ==
  /\ stage = "groups"
  /\ LET g == ext2_fs[1].blocks_per_group IN
       IF g = 0
       THEN stage' = "exception" /\ UNCHANGED ext2_fs
       ELSE /\ ext2_fs' = [ext2_fs EXCEPT ![1].group_count =
                             Groups(ext2_fs[1].blocks_count, g)]
            /\ stage' = "done"
  /\ UNCHANGED <<disk_vars, fs_types_head, sda1>>

Stop == stage \in {"done", "exception"} /\ UNCHANGED <<disk_vars, ext2vars>>

Ext2Next ==
  \/ ext2_init \/ Partitions \/ FindSda1
  \/ MountFails \/ ReadSuperblock \/ CountGroups \/ Stop

Ext2Spec == Ext2Init /\ [][Ext2Next]_<<disk_vars, ext2vars>>

\* Nothing in this part of the boot waits for anything but a drive that
\* answers or fails.
FairExt2Spec == Ext2Spec /\ WF_<<disk_vars, ext2vars>>(Ext2Next)

-----------------------------------------------------------------------------
(* Properties *)

(***************************************************************************)
(* Whatever the partition table, and whether the search for partitions has *)
(* succeeded or not, the ext2_fs_t describes the filesystem of the first   *)
(* entry of the table, read where that partition's superblock is.  Its     *)
(* groups are as many as its blocks need, as long as blocks_count and      *)
(* blocks_per_group together do not exceed 2^32.                           *)
(***************************************************************************)
SuperblockOfSda1 ==
  ext2_fs # <<>> =>
    LET fs == ext2_fs[1] IN
      /\ disk.mbr[1].type \notin {UNUSED, GPT}
      /\ disk.superblock = disk.mbr[1].lba_start + 2
      /\ stage = "done" /\ fs.blocks_count + fs.blocks_per_group <= WORD =>
           fs.blocks_count - fs.group_count * fs.blocks_per_group
             \in 1-fs.blocks_per_group..0

(***************************************************************************)
(* The search for partitions and the mount of the first one end, whatever  *)
(* is written on the disk, also where the number of entries changes under  *)
(* gpt_parse's loop and takes it behind the partition array.               *)
(***************************************************************************)
BootGoesOn == <>(stage \in {"done", "exception"})
=============================================================================
