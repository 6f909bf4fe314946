----------------------------- MODULE MCVcpuMode -----------------------------
(***************************************************************************)
(* VcpuMode has no bound to choose: its state space is finite.             *)
(***************************************************************************)
EXTENDS VcpuMode
=============================================================================
