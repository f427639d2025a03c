----------------------------- MODULE FileTable -----------------------------
(***************************************************************************)
(* What a table of file descriptors promises: a descriptor stands for the  *)
(* node that it was opened for until it is closed, opening takes a         *)
(* descriptor that stands for nothing and fails only if there is none, and *)
(* a write succeeds only on a descriptor whose node can be written, and    *)
(* then writes all.                                                        *)
(***************************************************************************)
EXTENDS Integers, Functions

CONSTANTS Descriptors, Nodes, Writable, Sizes

VARIABLES owner,    \* open descriptor -> its node
          last      \* the last call: what, on which descriptor, the answer

Answer(call, fd, answer) == last' = [call |-> call, fd |-> fd, answer |-> answer]

Init ==
  /\ \E open \in SUBSET Descriptors : owner \in [open -> Writable]
  /\ last = [call |-> "none", fd |-> 0, answer |-> 0]

Open ==
  \E d \in Descriptors \ DOMAIN owner, n \in Nodes :
    /\ owner' = [e \in DOMAIN owner \cup {d} |-> IF e = d THEN n ELSE owner[e]]
    /\ Answer("open", d, d)

NoneLeft ==
  /\ DOMAIN owner = Descriptors
  /\ Answer("open", -1, -1)
  /\ UNCHANGED owner

Close ==
  \E d \in Descriptors :
    /\ owner' = Restrict(owner, DOMAIN owner \ {d})
    /\ Answer("close", d, 0)

Write ==
  /\ UNCHANGED owner
  /\ \/ \E d \in DOMAIN owner, size \in Sizes :
          owner[d] \in Writable /\ Answer("write", d, size)
     \/ last'.call = "write" /\ last'.answer = -1

\* A call that has nothing to do with the table, or with no part of it.
Other == UNCHANGED owner /\ last'.call = "other"

Next == Open \/ NoneLeft \/ Close \/ Write \/ Other

Spec == Init /\ [][Next]_<<owner, last>>
=============================================================================
