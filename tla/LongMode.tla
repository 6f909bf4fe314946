------------------------------ MODULE LongMode ------------------------------
(***************************************************************************)
(* IA-32e mode as the processor manuals define it, and as a guest expects  *)
(* it: long mode is active (EFER.LMA) exactly while paging is on and long  *)
(* mode is enabled; EFER.LME changes only with paging off; CR4.PAE stays   *)
(* set while long mode is active.  EFER.LMA is read-only to software.      *)
(*                                                                         *)
(* External: the architecture lvisor virtualises.  VcpuMode.tla implements *)
(* it.                                                                     *)
(***************************************************************************)

VARIABLES
  pg,    \* CR0.PG
  pae,   \* CR4.PAE
  lme,   \* EFER.LME
  lma    \* EFER.LMA

vars == <<pg, pae, lme, lma>>

Init ==
  /\ pg = FALSE
  /\ pae = FALSE
  /\ lme = FALSE
  /\ lma = FALSE

WriteCr0 ==
  /\ pg' \in BOOLEAN
  /\ lme /\ ~pg /\ pg' => pae
  /\ lma' = (lme /\ pg')
  /\ UNCHANGED <<pae, lme>>

WriteCr4 ==
  /\ pae' \in BOOLEAN
  /\ lma => pae'
  /\ UNCHANGED <<pg, lme, lma>>

WriteEfer ==
  /\ lme' \in BOOLEAN
  /\ lme' # lme => ~pg
  /\ UNCHANGED <<pg, pae, lma>>

Next == WriteCr0 \/ WriteCr4 \/ WriteEfer

Spec == Init /\ [][Next]_vars
=============================================================================
