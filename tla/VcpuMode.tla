------------------------------ MODULE VcpuMode ------------------------------
(***************************************************************************)
(* The operating mode of the virtual CPU: CR0, CR4, EFER, the task         *)
(* register and the "IA-32e mode guest" VM-entry control, as vmm/vmx.c     *)
(* keeps them in the VMCS.                                                 *)
(*                                                                         *)
(* A guest changes its mode along two routes.  A mov to CR0 or CR4 that    *)
(* agrees with the read shadow on the host-owned bits is executed by the   *)
(* processor, which maintains EFER.LMA itself; one that disagrees exits to *)
(* handle_cr, and every wrmsr to EFER exits to handle_wrmsr, where the     *)
(* monitor must leave the VMCS in the same state the processor would have  *)
(* reached.  A VMCS that breaks the consistency rules of VM entry makes    *)
(* the entry fail, and vmx_handle_exit panics on the unknown exit reason.  *)
(*                                                                         *)
(* Registers are sets of the bits that matter here.  The guest writes any  *)
(* value.  A native write the architecture refuses raises #GP and changes  *)
(* nothing; a write that exits does so before the value is looked at, and  *)
(* neither handle_cr nor handle_wrmsr looks at it either.                  *)
(***************************************************************************)
EXTENDS Integers

Cr0Bits  == {"PE", "WP", "NE", "PG"}
Cr4Bits  == {"PAE", "VMXE"}
EferBits == {"SCE", "LME", "LMA"}
TrTypes  == {"tss16", "tss"}      \* busy 16-bit TSS, busy 32/64-bit TSS

\* Registers the guest-state area and the processor both hold.
GuestRegs == [cr0 : SUBSET Cr0Bits, cr4 : SUBSET Cr4Bits,
              efer : SUBSET EferBits, tr : TrTypes]

KVM_GUEST_CR0_ALWAYS_ON == {"WP", "NE"}
KVM_GUEST_CR4_ALWAYS_ON == {"VMXE"}

VARIABLES
  mode,    \* "guest": the guest runs;  "exit": kvm_loop is in handle_exit;
           \* "ready": about to enter the guest;  "dead": panicked
  hw,      \* the guest's registers in the processor, current in "guest"
  vmcs,    \* the guest-state area, current otherwise
  ia32e,   \* VM_ENTRY_IA32E_MODE in VM_ENTRY_CONTROLS
  exit     \* exit reason and the value the guest wrote

vars == <<mode, hw, vmcs, ia32e, exit>>

NoExit == [reason |-> "none", val |-> {}]

Exits ==
  [reason : {"none", "other"}, val : {{}}]
    \cup [reason : {"cr0"}, val : SUBSET Cr0Bits]
    \cup [reason : {"cr4"}, val : SUBSET Cr4Bits]
    \cup [reason : {"efer"}, val : SUBSET EferBits]

-----------------------------------------------------------------------------
(***************************************************************************)
(* The monitor's handlers, on a pair of guest registers and entry control. *)
(***************************************************************************)
State(regs, ctl) == [regs |-> regs, ia32e |-> ctl]

\* Mutant of enter_lmode: the VM-entry control is forgotten.
enter_lmode_NoControl(s) ==
  State([s.regs EXCEPT !.efer = @ \cup {"LMA"}, !.tr = "tss"], s.ia32e)

\* Sets the entry control and EFER.LMA, and turns TR into a 64-bit TSS.
enter_lmode(s) ==
  State([s.regs EXCEPT !.efer = @ \cup {"LMA"}, !.tr = "tss"], TRUE)

exit_lmode(s) ==
  State([s.regs EXCEPT !.efer = @ \ {"LMA"}], FALSE)

\* Mutant of vmx_set_cr0: long mode is entered without a look at EFER.LME.
vmx_set_cr0_IgnoresLme(s, val) ==
  LET t == IF "PG" \notin s.regs.cr0 /\ "PG" \in val THEN enter_lmode(s)
           ELSE IF "PG" \in s.regs.cr0 /\ "PG" \notin val THEN exit_lmode(s)
           ELSE s
  IN  [t EXCEPT !.regs.cr0 = val \cup KVM_GUEST_CR0_ALWAYS_ON]

vmx_set_cr0(s, val) ==
  LET old == s.regs.cr0
      t == IF "LME" \notin s.regs.efer THEN s
           ELSE IF "PG" \notin old /\ "PG" \in val THEN enter_lmode(s)
           ELSE IF "PG" \in old /\ "PG" \notin val THEN exit_lmode(s)
           ELSE s
  IN  [t EXCEPT !.regs.cr0 = val \cup KVM_GUEST_CR0_ALWAYS_ON]

vmx_set_cr4(s, val) ==
  [s EXCEPT !.regs.cr4 = val \cup KVM_GUEST_CR4_ALWAYS_ON]

\* Mutant of wrmsr_efer: the line that is commented out in handle_wrmsr.
wrmsr_efer_KeepsSce(s, val) == [s EXCEPT !.regs.efer = val]

\* case MSR_EFER of handle_wrmsr: SCE is kept off so that SYSCALL faults.
wrmsr_efer(s, val) == [s EXCEPT !.regs.efer = val \ {"SCE"}]

-----------------------------------------------------------------------------
(***************************************************************************)
(* vmx_vcpu_setup: host-owned bits set, everything else off.               *)
(***************************************************************************)
ResetRegs == [cr0 |-> KVM_GUEST_CR0_ALWAYS_ON, cr4 |-> KVM_GUEST_CR4_ALWAYS_ON,
              efer |-> {}, tr |-> "tss"]

Init ==
  /\ mode = "ready"
  /\ hw = ResetRegs
  /\ vmcs = ResetRegs
  /\ ia32e = FALSE
  /\ exit = NoExit

(***************************************************************************)
(* The processor (external).                                               *)
(***************************************************************************)

\* Which writes the architecture accepts of the guest as it is.
LegalCr0(val) ==
  /\ "PG" \in val => "PE" \in val
  /\ "LME" \in hw.efer /\ "PG" \notin hw.cr0 /\ "PG" \in val
       => "PAE" \in hw.cr4 /\ hw.tr # "tss16"

LegalCr4(val) == "LMA" \in hw.efer => "PAE" \in val

LegalEfer(val) == ("LME" \in val) # ("LME" \in hw.efer) => "PG" \notin hw.cr0

LegalWrite(e) ==
  /\ e.reason = "cr0" => LegalCr0(e.val)
  /\ e.reason = "cr4" => LegalCr4(e.val)
  /\ e.reason = "efer" => LegalEfer(e.val)

\* EFER.LMA is read-only: the processor ignores what wrmsr has there.
KeepsLma(e) == e.reason = "efer" => ("LMA" \in e.val <=> "LMA" \in hw.efer)

\* A VM exit saves the guest's registers and, with unrestricted guest and
\* VM_EXIT_SAVE_IA32_EFER, copies EFER.LMA to the entry control.
VmExit(reason, val) ==
  /\ mode' = "exit"
  /\ vmcs' = hw
  /\ ia32e' = ("LMA" \in hw.efer)
  /\ exit' = [reason |-> reason, val |-> val]
  /\ hw' = hw

\* A mov to CR0 or CR4 exits iff a host-owned bit differs from its read
\* shadow; vmx_vcpu_setup sets mask and shadow to the always-on bits.
Cr0Exits(val) == ~(KVM_GUEST_CR0_ALWAYS_ON \subseteq val)
Cr4Exits(val) == ~(KVM_GUEST_CR4_ALWAYS_ON \subseteq val)

GuestMovCr0(val) ==
  /\ mode = "guest"
  /\ \/ Cr0Exits(val) /\ VmExit("cr0", val)
     \/ /\ ~Cr0Exits(val)
        /\ LegalCr0(val)
        /\ hw' = [hw EXCEPT !.cr0 = val,
                            !.efer = IF "PG" \in val /\ "LME" \in hw.efer
                                     THEN @ \cup {"LMA"} ELSE @ \ {"LMA"}]
        /\ UNCHANGED <<mode, vmcs, ia32e, exit>>

GuestMovCr4(val) ==
  /\ mode = "guest"
  /\ \/ Cr4Exits(val) /\ VmExit("cr4", val)
     \/ /\ ~Cr4Exits(val)
        /\ LegalCr4(val)
        /\ hw' = [hw EXCEPT !.cr4 = val]
        /\ UNCHANGED <<mode, vmcs, ia32e, exit>>

GuestWrmsrEfer(val) ==
  /\ mode = "guest"
  /\ VmExit("efer", val)

GuestLtr(tr) ==
  /\ mode = "guest"
  /\ "LMA" \in hw.efer => tr = "tss"
  /\ hw' = [hw EXCEPT !.tr = tr]
  /\ UNCHANGED <<mode, vmcs, ia32e, exit>>

\* Any other exit: CPUID, RDTSC, an EPT violation, a trapped SYSCALL.
GuestOtherExit ==
  /\ mode = "guest"
  /\ VmExit("other", {})

\* The consistency rules of VM entry that these fields can break.
EntryChecks ==
  /\ "NE" \in vmcs.cr0
  /\ "VMXE" \in vmcs.cr4
  /\ "PG" \in vmcs.cr0 => "PE" \in vmcs.cr0
  /\ ia32e => "PG" \in vmcs.cr0 /\ "PAE" \in vmcs.cr4 /\ vmcs.tr # "tss16"
  /\ "LMA" \in vmcs.efer <=> ia32e
  /\ "PG" \in vmcs.cr0 => ("LMA" \in vmcs.efer <=> "LME" \in vmcs.efer)

VmEntry ==
  /\ mode = "ready"
  /\ EntryChecks
  /\ mode' = "guest"
  /\ hw' = vmcs
  /\ UNCHANGED <<vmcs, ia32e, exit>>

\* The exit reason of a failed entry has bit 31 set: vmx_handle_exit knows
\* no handler for it and panics.
VmEntryFails ==
  /\ mode = "ready"
  /\ ~EntryChecks
  /\ mode' = "dead"
  /\ UNCHANGED <<hw, vmcs, ia32e, exit>>

(***************************************************************************)
(* handle_exit.                                                            *)
(***************************************************************************)
Return(s) ==
  /\ vmcs' = s.regs
  /\ ia32e' = s.ia32e
  /\ mode' = "ready"
  /\ UNCHANGED <<hw, exit>>

handle_cr ==
  /\ mode = "exit"
  /\ \/ exit.reason = "cr0" /\ Return(vmx_set_cr0(State(vmcs, ia32e), exit.val))
     \/ exit.reason = "cr4" /\ Return(vmx_set_cr4(State(vmcs, ia32e), exit.val))

handle_wrmsr ==
  /\ mode = "exit"
  /\ exit.reason = "efer"
  /\ Return(wrmsr_efer(State(vmcs, ia32e), exit.val))

handle_other ==
  /\ mode = "exit"
  /\ exit.reason = "other"
  /\ Return(State(vmcs, ia32e))

Next ==
  \/ \E val \in SUBSET Cr0Bits : GuestMovCr0(val)
  \/ \E val \in SUBSET Cr4Bits : GuestMovCr4(val)
  \/ \E val \in SUBSET EferBits : GuestWrmsrEfer(val)
  \/ \E tr \in TrTypes : GuestLtr(tr)
  \/ GuestOtherExit
  \/ handle_cr
  \/ handle_wrmsr
  \/ handle_other
  \/ VmEntry
  \/ VmEntryFails

Spec == Init /\ [][Next]_vars

-----------------------------------------------------------------------------
(***************************************************************************)
(* Properties.                                                             *)
(***************************************************************************)

\* The type invariant.
TypeOK ==
  /\ mode \in {"guest", "exit", "ready", "dead"}
  /\ hw \in GuestRegs
  /\ vmcs \in GuestRegs
  /\ ia32e \in BOOLEAN
  /\ exit \in Exits

\* "Consistency requirements: EFER.LMA == VM-entry control's 64-bit guest
\* mode bit; EFER.LMA == CR0.PG & EFER.LME" (the comment above enter_lmode):
\* no VM entry after a write the architecture accepts fails for breaking
\* them.
ConsistencyRequirements ==
  mode = "dead" /\ LegalWrite(exit) =>
    /\ "LMA" \in vmcs.efer <=> ia32e
    /\ "LMA" \in vmcs.efer <=> "PG" \in vmcs.cr0 /\ "LME" \in vmcs.efer

\* A VM entry fails, and the monitor panics, only after a write that the
\* architecture refuses, or an EFER write with a foreign LMA: any other
\* mix of native and emulated mode switches leaves an enterable VMCS.
OnlyBadWritesKill == mode = "dead" => ~(LegalWrite(exit) /\ KeepsLma(exit))

\* While the guest runs, EFER.SCE is off: every SYSCALL and SYSRET raises
\* #UD and reaches handle_exception_nmi ("disable SCE" in handle_wrmsr).
SyscallsTrap == mode = "guest" => "SCE" \notin hw.efer

\* The registers the guest would observe.  A write that exited and is not
\* as the architecture wants it counts once the guest is entered with it.
Now ==
  IF mode # "guest" /\ LegalWrite(exit) /\ KeepsLma(exit) THEN vmcs ELSE hw

LM == INSTANCE LongMode WITH
        pg  <- "PG" \in Now.cr0,
        pae <- "PAE" \in Now.cr4,
        lme <- "LME" \in Now.efer,
        lma <- "LMA" \in Now.efer

\* Emulated and native writes together behave as the architecture does,
\* whatever the guest writes: it cannot tell which of its mode switches the
\* monitor performed, and a write that LongMode refuses never takes effect.
ImplementsLongMode == LM!Spec

-----------------------------------------------------------------------------
(***************************************************************************)
(* The inductive invariant.                                                *)
(***************************************************************************)
Coherent(r) ==
  /\ "NE" \in r.cr0
  /\ "VMXE" \in r.cr4
  /\ "PG" \in r.cr0 => "PE" \in r.cr0
  /\ "LMA" \in r.efer <=> "PG" \in r.cr0 /\ "LME" \in r.efer
  /\ "LMA" \in r.efer => "PAE" \in r.cr4 /\ r.tr # "tss16"
  /\ "SCE" \notin r.efer

\* What the handlers make of a guest that exited.
Handled(s, e) ==
  IF e.reason = "cr0" THEN vmx_set_cr0(s, e.val)
  ELSE IF e.reason = "cr4" THEN vmx_set_cr4(s, e.val)
  ELSE IF e.reason = "efer" THEN wrmsr_efer(s, e.val)
  ELSE s

ModeInv ==
  /\ TypeOK
  /\ mode \in {"guest", "exit", "ready"} => Coherent(hw)
  /\ mode = "exit" => hw = vmcs /\ (ia32e <=> "LMA" \in hw.efer)
  /\ mode = "ready" =>
       State(vmcs, ia32e) = Handled(State(hw, "LMA" \in hw.efer), exit)
  /\ OnlyBadWritesKill
=============================================================================
