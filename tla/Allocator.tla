----------------------------- MODULE Allocator -----------------------------
(***************************************************************************)
(* What a kernel allocator promises its callers, with no block list, no    *)
(* headers and no pages: a set of granted regions, each a pointer and the  *)
(* number of bytes the caller asked for, of which no two overlap.          *)
(*                                                                         *)
(* The promise is the one every caller of kmalloc in the repository relies *)
(* on: a non-NULL pointer to at least that many bytes that nobody else     *)
(* owns until it is passed to kfree.  Heap.tla implements this module.     *)
(***************************************************************************)
EXTENDS Integers

CONSTANTS Address,      \* where regions may start; NULL is not among them
          Sizes         \* the sizes callers ask for

VARIABLE live           \* granted pointer -> size asked for

\* The regions [p, p+n) and [q, q+m) have no address in common.
Apart(p, n, q, m) == p + n <= q \/ q + m <= p

Init == live = [p \in {} |-> 0]

Alloc(p, n) ==
  /\ p \notin DOMAIN live
  /\ \A q \in DOMAIN live : Apart(p, n, q, live[q])
  /\ live' = [q \in DOMAIN live \cup {p} |-> IF q = p THEN n ELSE live[q]]

Free(p) ==
  /\ p \in DOMAIN live
  /\ live' = [q \in DOMAIN live \ {p} |-> live[q]]

Next == \/ \E p \in Address, n \in Sizes : Alloc(p, n)
        \/ \E p \in Address : Free(p)

Spec == Init /\ [][Next]_live
=============================================================================
