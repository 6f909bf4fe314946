-------------------------------- MODULE Host --------------------------------
(***************************************************************************)
(* The kernel code below the hypervisor and the test kernels: traps and    *)
(* printk.  They share no state: a run is about one of them, drawn by      *)
(* Init.  What one takes from the other is in both models: a handler       *)
(* prints (do_trap in Printk), and a trap that hits C code resumes it      *)
(* (ReturnResumes in TrapEntry).                                           *)
(***************************************************************************)
EXTENDS TrapEntry, Printk

VARIABLE part   \* "traps" or "printk"

vars == <<part, trapVars, printkVars>>

Init ==
  /\ part \in {"traps", "printk"}
  /\ TrapInit
  /\ IF part = "printk" THEN PrintkInit ELSE PrintkIdle

Traps == part = "traps" /\ TrapNext /\ UNCHANGED <<part, printkVars>>
Consoles == part = "printk" /\ PrintkNext /\ UNCHANGED <<part, trapVars>>

Next == Traps \/ Consoles

\* The CPU executes vprintk unless it is halted; the serial port empties its transmitter.
Fairness ==
  /\ WF_vars(part = "printk" /\ vprintk /\ UNCHANGED <<part, trapVars>>)
  /\ WF_vars(part = "printk" /\ Transmit /\ UNCHANGED <<part, trapVars>>)

Spec == Init /\ [][Next]_vars /\ Fairness
=============================================================================
