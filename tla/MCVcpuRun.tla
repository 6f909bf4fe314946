----------------------------- MODULE MCVcpuRun -----------------------------
(***************************************************************************)
(* VcpuRun with 32-bit halves of five values.  The guest loads registers   *)
(* with the words that select each MSR, CPUID leaf, delivery mode and flag *)
(* combination; RAX, RDX and RCX also take words with a non-zero upper     *)
(* half, so that a missing truncation shows.                               *)
(***************************************************************************)
EXTENDS VcpuRun

MCMovs ==
  ({"rax"} \X {1, 9, 13}) \cup ({"rdx"} \X {7})
    \cup ({"rcx"} \X {1, 2, 8, 24}) \cup ({"r11"} \X {2, 3})

MCTscValues == {4, 23}

\* Leaf 1 shows VMX and hides the rest.
MCNativeCpuid ==
  [leaf \in Halves |->
     [rax |-> leaf, rbx |-> 4, rcx |-> IF leaf = 1 THEN 1 ELSE 3, rdx |-> 2]]

MCHostContext ==
  [gpr |-> [r \in Regs |-> 20], rip |-> 20, rflags |-> {}, shadow |-> FALSE,
   cpl |-> 0, cr3 |-> 20, msr |-> [lstar |-> 20, fmask |-> 20]]
=============================================================================
