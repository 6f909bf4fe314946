------------------------------- MODULE MCEpt -------------------------------
(***************************************************************************)
(* Ept on a machine of four pages of two cells: two directories of two     *)
(* entries, the monitor in page 1, and two pages above Limit (one behind a *)
(* PDPT entry that stays empty, one behind a second PML4 entry).           *)
(***************************************************************************)
EXTENDS Ept

MCBootMem == [a \in Addrs |-> IF a \in Vmm THEN 1 ELSE 0]
=============================================================================
