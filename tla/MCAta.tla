------------------------------- MODULE MCAta -------------------------------
(***************************************************************************)
(* A disk and a partition of it, and requests that lie within 28 bits,     *)
(* here three, at their end and beyond; a poll limit of two, so that the   *)
(* drive is sometimes in time and sometimes late.                          *)
(***************************************************************************)
EXTENDS Ata

MCDevices == {[start_lba |-> 0], [start_lba |-> 2]}
=============================================================================
