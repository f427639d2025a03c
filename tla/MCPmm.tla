------------------------------- MODULE MCPmm -------------------------------
(***************************************************************************)
(* Pmm.tla for all memory maps made of four neighbouring entries: pages of *)
(* four bytes, bytes of two bits, so that the bitmap needs two pages.  As  *)
(* the boot protocol promises, usable and boot loader entries are made of  *)
(* whole pages; the other types may begin and end anywhere.                *)
(***************************************************************************)
EXTENDS Pmm

Cuts == {<<0, 4, 12, 24, 36>>, <<0, 8, 11, 20, 35>>, <<0, 8, 20, 29, 36>>}

Aligned(e) == e.base % PAGE = 0 /\ e.length % PAGE = 0

MCMaps ==
  {m \in {[i \in 1..4 |-> [base |-> c[i], length |-> c[i + 1] - c[i],
                           type |-> t[i]]]
            : c \in Cuts, t \in [1..4 -> {USABLE, ACPI, BOOTLOADER, "reserved"}]} :
     \A i \in 1..4 : m[i].type \in {USABLE, BOOTLOADER} => Aligned(m[i])}
=============================================================================
