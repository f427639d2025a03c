-------------------------------- MODULE Vfs --------------------------------
(***************************************************************************)
(* Files: the tar walk of initramfs.c, devfs.c, the path walk and mount    *)
(* points of vfs.c, the standard descriptors of fd.c, and the part of      *)
(* _start (main.c) that puts them together.                                *)
(*                                                                         *)
(* A path is the sequence of its names.  A trailing slash, which tar gives *)
(* to directories, is kept beside it, because ensure_parent_dirs_exist     *)
(* takes it for one more parent.  sanitize_path removes dots and slashes   *)
(* from the front of a path, the dot of a hidden file included.  Names are *)
(* shorter than the header's 100 characters.                               *)
(***************************************************************************)
EXTENDS Integers, Sequences, SequencesExt, FiniteSetsExt

CONSTANTS Archives,         \* sequences of tar entries
          Paths,            \* the paths that are looked up
          undotted,         \* a name without its leading dots
          BLOCK,            \* 512, the blocks of a tar file
          MAX_RAMFS_NODES, MAX_DEVFS_DEVICES, MAX_OPEN_FILES,
          NULL

\* What the lookups return: the roots, a node of the initramfs, a device.
RAMFS == <<"initramfs", 0>>      \* ramfs_root
DEVFS == <<"devfs", "">>         \* devfs_root
Ram(k) == <<"initramfs", k>>
Device(name) == <<"devfs", name>>
Nodes == {RAMFS, DEVFS, Device("fb0")} \cup {Ram(k) : k \in 1..MAX_RAMFS_NODES}

\* A tar entry: type "5" is a directory, "0" a file, "x" an extended header.
TarEntry == [path : Seq(DOMAIN undotted), slash : BOOLEAN, type : {"0", "5", "x"},
             size : Nat]

\* tar puts the slash behind directories only; and a file's name is more
\* than dots, of which sanitize_path would leave nothing.
TarFile(e) == ~e.slash /\ \E k \in DOMAIN e.path : undotted[e.path[k]] # ""

ASSUME VfsConstants ==
  /\ Archives \subseteq Seq(TarEntry)
  /\ \A a \in Archives : \A i \in DOMAIN a : a[i].type = "0" => TarFile(a[i])
  /\ Paths \subseteq Seq(DOMAIN undotted)
  /\ \A n \in DOMAIN undotted :
       undotted[n] # "" => undotted[n] \in DOMAIN undotted
                           /\ undotted[undotted[n]] = undotted[n]
  /\ "dev" \in DOMAIN undotted /\ undotted["dev"] = "dev"
  /\ BLOCK \in Nat \ {0} /\ MAX_RAMFS_NODES \in Nat
  /\ MAX_DEVFS_DEVICES \in Nat \ {0} /\ MAX_OPEN_FILES \in Nat /\ MAX_OPEN_FILES > 2
  /\ NULL \notin Nodes

VARIABLES archive,          \* the entries of the initramfs
          pc, header,       \* header is the block that init_initramfs is at
          ramfs_nodes,      \* nodes in order: path, whether a directory, data
          devices,          \* names that devfs knows
          mounted,          \* node with FS_MOUNTPOINT -> its ptr
          fd_table,
          fs_root

vars == <<archive, pc, header, ramfs_nodes, devices, mounted, fd_table, fs_root>>

-----------------------------------------------------------------------------
(* What tar has written: every entry is a header block and its data *)

Padded(size) == (size + BLOCK - 1) \div BLOCK
HeaderOf(i) ==
  FoldLeft(LAMBDA at, e : at + 1 + Padded(e.size), 1, SubSeq(archive, 1, i - 1))

\* The headers that begin in the block that init_initramfs looks at.  There
\* is none behind the last entry, and none in a file's data, which is taken
\* to be zeros: either has no name and ends the walk.
Headers == {i \in DOMAIN archive : HeaderOf(i) = header}
AtEnd == Headers = {}
AtHeader == archive[CHOOSE i \in Headers : TRUE]

-----------------------------------------------------------------------------
(* initramfs.c *)

\* Without the names that are nothing but dots in front, and without the
\* dots of the first name left.
sanitize_path(path) ==
  LET k == SelectInSeq(path, LAMBDA n : undotted[n] # "") IN
    IF k = 0 THEN <<>>
    ELSE <<undotted[path[k]]>> \o SubSeq(path, k + 1, Len(path))

\* tar_match_name, over the table: the first node of that path, or 0.
Match(nodes, path) == SelectInSeq(nodes, LAMBDA n : n.path = sanitize_path(path))

ramfs_finddir(k, name) ==
  LET dir == IF k = 0 THEN <<>> ELSE ramfs_nodes[k].path
      j == Match(ramfs_nodes, Append(dir, name))
  IN  IF j = 0 THEN NULL ELSE Ram(j)

\* The bytes that ramfs_read copies; it answers how many.
ramfs_read(length, size, offset) ==
  IF offset >= length THEN 0
  ELSE IF offset + size > length THEN length - offset ELSE size

Directory(path) == [path |-> path, dir |-> TRUE, data |-> 0, length |-> 0]

\* A directory for every slash in the path, unless the table has it already
\* or is full.
ensure_parent_dirs_exist(nodes, path, slash) ==
  LET Ensure(ns, k) ==
        IF Match(ns, SubSeq(path, 1, k)) # 0 \/ Len(ns) >= MAX_RAMFS_NODES
        THEN ns ELSE Append(ns, Directory(SubSeq(path, 1, k)))
  IN  FoldLeft(Ensure, nodes,
               [k \in 1..(IF slash THEN Len(path) ELSE Len(path) - 1) |-> k])

BlocksRoundedDown(size) == size \div BLOCK
Blocks(size) == size \div BLOCK + (IF size % BLOCK # 0 THEN 1 ELSE 0)
NextHeader == header' = header + 1 + Blocks(AtHeader.size)

Init ==
  /\ archive \in Archives
  /\ pc = "tar" /\ header = 1 /\ ramfs_nodes = <<>>
  /\ devices = <<>> /\ mounted = [n \in {} |-> NULL]
  /\ fd_table = [i \in 0..(MAX_OPEN_FILES - 1) |-> NULL]
  /\ fs_root = NULL

SkipExtended ==
  /\ pc = "tar" /\ ~AtEnd /\ AtHeader.type = "x"
  /\ NextHeader
  /\ UNCHANGED <<archive, pc, ramfs_nodes, devices, mounted, fd_table, fs_root>>

\* The loop ends without an entry: the table filled up with its parents.
TableFull ==
  /\ pc = "tar" /\ ~AtEnd /\ AtHeader.type # "x"
  /\ LET path == sanitize_path(AtHeader.path)
         nodes == ensure_parent_dirs_exist(ramfs_nodes, path, AtHeader.slash)
     IN  Len(nodes) >= MAX_RAMFS_NODES /\ ramfs_nodes' = nodes
  /\ pc' = "root"
  /\ UNCHANGED <<archive, header, devices, mounted, fd_table, fs_root>>

HasRoom(nodes) == Len(nodes) < MAX_RAMFS_NODES

AddEntry ==
  /\ pc = "tar" /\ ~AtEnd /\ AtHeader.type # "x"
  /\ LET path == sanitize_path(AtHeader.path)
         nodes == ensure_parent_dirs_exist(ramfs_nodes, path, AtHeader.slash)
         node == IF AtHeader.type = "5" THEN Directory(path)
                 ELSE [path |-> path, dir |-> FALSE,
                       data |-> header + 1, length |-> AtHeader.size]
     IN  HasRoom(nodes) /\ ramfs_nodes' = Append(nodes, node)
  /\ NextHeader
  /\ UNCHANGED <<archive, pc, devices, mounted, fd_table, fs_root>>

EndOfArchive ==
  /\ pc = "tar" /\ AtEnd
  /\ pc' = "root"
  /\ UNCHANGED <<archive, header, ramfs_nodes, devices, mounted, fd_table, fs_root>>

-----------------------------------------------------------------------------
(* vfs.c *)

NeverMounted(n) == n
ThroughMount(n) == IF n \in DOMAIN mounted THEN mounted[n] ELSE n

IsDirectory(n) ==
  \/ n \in {RAMFS, DEVFS}
  \/ n[1] = "initramfs" /\ ramfs_nodes[n[2]].dir

finddir(n, name) ==
  IF n[1] = "initramfs" THEN ramfs_finddir(n[2], name)
  ELSE IF name \in ToSet(devices) THEN Device(name) ELSE NULL

\* One token of the path: mount points are followed one level deep.
WalkOne(n, name) ==
  IF n = NULL \/ ~IsDirectory(ThroughMount(n)) THEN NULL
  ELSE finddir(ThroughMount(n), name)

vfs_get_node_by_path(path) ==
  LET n == FoldLeft(WalkOne, fs_root, path)
  IN  IF n = NULL THEN NULL ELSE ThroughMount(n)

-----------------------------------------------------------------------------
(* _start *)

\* _start halts if the boot loader gives it no archive; here it does.
SetRoot ==
  /\ pc = "root"
  /\ fs_root' = RAMFS
  /\ pc' = "devfs"
  /\ UNCHANGED <<archive, header, ramfs_nodes, devices, mounted, fd_table>>

devfs_register ==
  /\ pc = "devfs"
  /\ devices' = IF Len(devices) >= MAX_DEVFS_DEVICES THEN devices
                ELSE Append(devices, "fb0")
  /\ pc' = "mount"
  /\ UNCHANGED <<archive, header, ramfs_nodes, mounted, fd_table, fs_root>>

\* vfs_mount on what "/dev" names.
vfs_mount ==
  /\ pc = "mount" /\ vfs_get_node_by_path(<<"dev">>) # NULL
  /\ mounted' = [n \in DOMAIN mounted \cup {vfs_get_node_by_path(<<"dev">>)} |-> DEVFS]
  /\ pc' = "fds"
  /\ UNCHANGED <<archive, header, ramfs_nodes, devices, fd_table, fs_root>>

NoDev ==
  /\ pc = "mount" /\ vfs_get_node_by_path(<<"dev">>) = NULL
  /\ pc' = "up"
  /\ UNCHANGED <<archive, header, ramfs_nodes, devices, mounted, fd_table, fs_root>>

Standard == {1, 2}

init_fds ==
  /\ pc = "fds"
  /\ fd_table' = [i \in DOMAIN fd_table |->
                    IF i \in Standard THEN vfs_get_node_by_path(<<"dev", "fb0">>)
                    ELSE NULL]
  /\ pc' = "up"
  /\ UNCHANGED <<archive, header, ramfs_nodes, devices, mounted, fs_root>>

VfsNext ==
  \/ SkipExtended \/ TableFull \/ AddEntry \/ EndOfArchive
  \/ SetRoot \/ devfs_register \/ vfs_mount \/ NoDev \/ init_fds

-----------------------------------------------------------------------------
(* Properties *)

\* The fixed tables of initramfs.c, devfs.c and fd.c never overflow.
TypeOK ==
  /\ Len(ramfs_nodes) <= MAX_RAMFS_NODES
  /\ Len(devices) <= MAX_DEVFS_DEVICES
  /\ DOMAIN fd_table = 0..(MAX_OPEN_FILES - 1)
  /\ DOMAIN mounted \subseteq {RAMFS} \cup {Ram(k) : k \in DOMAIN ramfs_nodes}
  /\ \A k \in DOMAIN ramfs_nodes : ramfs_nodes[k].dir \in BOOLEAN

Entries == {i \in DOMAIN archive : archive[i].type # "x"}
PathOf(i) == sanitize_path(archive[i].path)

\* As tar writes a directory tree: no path twice, and nothing below a file.
OfATree ==
  \A i, j \in Entries :
    i # j => /\ PathOf(i) # PathOf(j)
             /\ archive[i].type = "0" => ~IsPrefix(PathOf(i), PathOf(j))

\* In the initramfs, but behind the mount point of devfs.
Hidden(path) == path # <<>> /\ path[1] = "dev"

\* A path leads to the node of that path and to no other, also when the
\* table has filled up.
OnlyItsOwn ==
  pc = "up" =>
    \A p \in Paths : \A k \in DOMAIN ramfs_nodes :
      vfs_get_node_by_path(p) = Ram(k) => ramfs_nodes[k].path = sanitize_path(p)

\* If the table does not fill up first, each file is found under its path,
\* with the bytes that tar has put behind its header.
AllFound ==
  pc = "up" /\ Len(ramfs_nodes) < MAX_RAMFS_NODES /\ OfATree =>
    \A i \in Entries :
      archive[i].type = "0" /\ ~Hidden(PathOf(i)) =>
        \E k \in DOMAIN ramfs_nodes :
          /\ vfs_get_node_by_path(PathOf(i)) = Ram(k)
          /\ ~ramfs_nodes[k].dir
          /\ ramfs_nodes[k].data = HeaderOf(i) + 1
          /\ ramfs_read(ramfs_nodes[k].length, archive[i].size, 0) = archive[i].size

(***************************************************************************)
(* Every file of the archive is found under its path, whatever came before *)
(* it: parents later than children or not at all, extended headers, files  *)
(* that end inside a block; and no path, of any archive, leads to the node *)
(* of another.                                                             *)
(***************************************************************************)
FilesFound == OnlyItsOwn /\ AllFound

(***************************************************************************)
(* No node of a directory tree is an orphan: the directories that lead to  *)
(* it are in the table whenever it is, also when the table fills up in     *)
(* the middle of making them.                                              *)
(***************************************************************************)
NoOrphans ==
  pc = "up" /\ OfATree =>
    \A k \in DOMAIN ramfs_nodes :
      ~Hidden(ramfs_nodes[k].path) =>
        vfs_get_node_by_path(ramfs_nodes[k].path) # NULL

(***************************************************************************)
(* Standard output and standard error are the frame buffer if and only if  *)
(* the initramfs has a place to mount devfs at, and then nothing of the    *)
(* initramfs shines through at that place.                                 *)
(***************************************************************************)
StandardStreams ==
  pc = "up" =>
    LET there == \E k \in DOMAIN ramfs_nodes : ramfs_nodes[k].path = <<"dev">>
    IN  /\ \A i \in DOMAIN fd_table :
             fd_table[i] = (IF there /\ i \in {1, 2} THEN Device("fb0") ELSE NULL)
        /\ \A p \in Paths :
             there /\ Hidden(p) =>
               vfs_get_node_by_path(p) \in {NULL, DEVFS, Device("fb0")}

(***************************************************************************)
(* The file system as _start leaves it: no table has overflowed, every     *)
(* node that init_initramfs has made can be reached from the root, however *)
(* full the table was when it was made, and the standard streams are the   *)
(* frame buffer wherever devfs could be mounted.                           *)
(***************************************************************************)
VfsInv == TypeOK /\ NoOrphans /\ StandardStreams
=============================================================================
