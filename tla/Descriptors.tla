---------------------------- MODULE Descriptors ----------------------------
(***************************************************************************)
(* File descriptors and system calls: fd_alloc, fd_get_node and fd_close   *)
(* of src/fs/fd.c, which nothing calls yet, syscall_handler of             *)
(* src/syscalls/syscalls.c and sys_write of src/drivers/fb.c, on the file  *)
(* system as _start has left it (Vfs.tla).                                 *)
(*                                                                         *)
(* A call that syscall_handler does not know answers its own number, since *)
(* rax is not written; sys_exit never returns.  fd_table holds the nodes   *)
(* of the table only: nothing reads its offsets and flags.                 *)
(***************************************************************************)
EXTENDS Vfs, FiniteSets

CONSTANTS OpenedPaths,      \* whose nodes fd_alloc is given
          Fds,              \* the descriptors that callers name
          Buffers,          \* the arguments of sys_write: [addr, size]
          ADDRESS,          \* one more than the largest address
          USER_END          \* 0x0000800000000000

ASSUME DescriptorsConstants ==
  /\ {ADDRESS, USER_END} \subseteq Nat /\ Fds \subseteq Int
  /\ Buffers \subseteq [addr : 0..ADDRESS-1, size : 0..ADDRESS-1]
  /\ OpenedPaths \subseteq Seq(DOMAIN undotted)

VARIABLE last               \* the last call and its answer, for FileTable

DescriptorsInit ==
  /\ Init
  /\ last = [call |-> "none", fd |-> 0, answer |-> 0]

Boot == VfsNext /\ UNCHANGED last

\* The program that makes system calls is /test.  From here on fd_table is
\* all of Vfs.tla that changes.
BootDone ==
  /\ pc = "up" /\ vfs_get_node_by_path(<<"test">>) # NULL
  /\ pc' = "user"
  /\ UNCHANGED <<archive, header, ramfs_nodes, devices, mounted, fd_table, fs_root, last>>

Call(call, fd, answer) ==
  /\ pc = "user"
  /\ last' = [call |-> call, fd |-> fd, answer |-> answer]
  /\ UNCHANGED <<archive, header, ramfs_nodes, devices, mounted, fs_root>>

-----------------------------------------------------------------------------
(* fd.c *)

FreeByFlags == DOMAIN fd_table \ Standard
Free == {i \in DOMAIN fd_table : fd_table[i] = NULL}

fd_alloc ==
  \E p \in OpenedPaths :
    LET node == vfs_get_node_by_path(p) IN
      IF Free = {}
      THEN Call("open", -1, -1) /\ UNCHANGED <<pc, fd_table>>
      ELSE LET i == Min(Free) IN
             /\ IF node = NULL THEN Call("other", 0, i) ELSE Call("open", i, i)
             /\ fd_table' = [fd_table EXCEPT ![i] = node]
             /\ UNCHANGED pc

fd_get_node(fd) == IF fd \in DOMAIN fd_table THEN fd_table[fd] ELSE NULL

fd_close ==
  \E fd \in Fds :
    /\ IF fd \in DOMAIN fd_table THEN Call("close", fd, 0) ELSE Call("other", 0, 0)
    /\ fd_table' = [i \in DOMAIN fd_table |-> IF i = fd THEN NULL ELSE fd_table[i]]
    /\ UNCHANGED pc

-----------------------------------------------------------------------------
(* System calls *)

\* node->write: only fb_create_vfs_node sets it.
HasWrite(node) == node = Device("fb0")

validate_user_pointer(addr, size) ==
  (addr + size) % ADDRESS >= addr /\ addr < USER_END

sys_write ==
  \E fd \in Fds, buf \in Buffers :
    LET node == fd_get_node(fd)
        written == node # NULL /\ HasWrite(node) /\ validate_user_pointer(buf.addr, buf.size)
    IN  /\ Call("write", fd, IF written THEN buf.size ELSE -1)
        /\ UNCHANGED <<pc, fd_table>>

\* sys_read and a call that does not exist.
sys_read == Call("other", 0, 0) /\ UNCHANGED <<pc, fd_table>>
UnknownCall == Call("other", 0, 3) /\ UNCHANGED <<pc, fd_table>>

sys_exit ==
  /\ pc = "user"
  /\ pc' = "exited"
  /\ UNCHANGED <<archive, header, ramfs_nodes, devices, mounted, fd_table, fs_root, last>>

Exited ==
  /\ \/ pc = "exited"
     \/ pc = "up" /\ vfs_get_node_by_path(<<"test">>) = NULL
  /\ UNCHANGED <<vars, last>>

DescriptorsNext ==
  \/ Boot \/ BootDone
  \/ fd_alloc \/ fd_close
  \/ sys_write \/ sys_read \/ UnknownCall \/ sys_exit \/ Exited

DescriptorsSpec == DescriptorsInit /\ [][DescriptorsNext]_<<vars, last>>

-----------------------------------------------------------------------------
(* Properties *)

FT == INSTANCE FileTable WITH
        Descriptors <- 0..MAX_OPEN_FILES-1,
        Nodes <- Nodes,
        Writable <- {Device("fb0")},
        Sizes <- {b.size : b \in Buffers},
        owner <- [d \in {i \in DOMAIN fd_table : fd_table[i] # NULL} |-> fd_table[d]]

(***************************************************************************)
(* From the end of the boot on fd.c and the system calls keep what         *)
(* FileTable promises: no descriptor is given out twice or changes its     *)
(* node, a full table is answered with -1, and a write reaches the screen  *)
(* only through a descriptor that is open on it.                           *)
(***************************************************************************)
ImplementsFileTable ==
  [][pc = "user" => FT!Next]_<<fd_table, last>>
=============================================================================
