----------------------------- MODULE MCPhysMem -----------------------------
(***************************************************************************)
(* PhysMem.tla on one map with the shape of a PC's: a reserved first page, *)
(* usable memory, boot loader memory, reserved memory at the top.          *)
(***************************************************************************)
EXTENDS PhysMem

Region(b, l, t) == [base |-> b, length |-> l, type |-> t]

PCMap == <<Region(0, 4, "reserved"), Region(4, 20, USABLE),
           Region(24, 8, BOOTLOADER), Region(32, 4, "reserved")>>
MCMaps == {PCMap}
=============================================================================
