--------------------------- MODULE AddressSpaces ---------------------------
(***************************************************************************)
(* What the virtual memory manager promises: every address space maps      *)
(* pages to frames with access rights, pages of the kernel are mapped the  *)
(* same in all of them, and a user page belongs to one of them.  There are *)
(* no tables.  Vmm.tla implements this module.                             *)
(***************************************************************************)
CONSTANTS Spaces,        \* names of address spaces
          KernelPages, UserPages,
          Mappings,      \* what a page may be mapped to: frame and rights
          Unmapped       \* the mapping of a page that has none

VARIABLES map,           \* space -> page -> mapping
          current        \* the space the CPU uses

Pages == KernelPages \cup UserPages

\* map with page v of the current space mapped to m; a kernel page changes
\* in all spaces at once.
Assigned(v, m) ==
  [s \in DOMAIN map |->
     IF s = current \/ v \in KernelPages THEN [map[s] EXCEPT ![v] = m] ELSE map[s]]

Init ==
  /\ current \in Spaces
  /\ DOMAIN map = {current} /\ DOMAIN map[current] = Pages
  /\ \A v \in KernelPages : map[current][v] \in Mappings \cup {Unmapped}
  /\ \A v \in UserPages : map[current][v] = Unmapped

\* Page v is mapped to something else, or unmapped.
Remap(v) ==
  LET m == map'[current][v] IN
    /\ m \in Mappings \cup {Unmapped}
    /\ map' = Assigned(v, m)
    /\ UNCHANGED current

\* A new space knows the kernel, and nothing of the other users.
Create(s) ==
  /\ s \notin DOMAIN map
  /\ map' = [t \in DOMAIN map \cup {s} |->
               IF t # s THEN map[t]
               ELSE [v \in Pages |->
                       IF v \in KernelPages THEN map[current][v] ELSE Unmapped]]
  /\ UNCHANGED current

Switch(s) == s \in DOMAIN map /\ current' = s /\ UNCHANGED map

Next ==
  \/ \E v \in Pages : Remap(v)
  \/ \E s \in Spaces : Create(s) \/ Switch(s)

Spec == Init /\ [][Next]_<<map, current>>
=============================================================================
