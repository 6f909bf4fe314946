------------------------------ MODULE GuestIsa ------------------------------
(***************************************************************************)
(* What the guest's instructions operate on: the part of the processor     *)
(* that vmm/vmx.c and vmm/kvm.c save, restore and emulate, and the         *)
(* instructions a guest may execute.                                       *)
(*                                                                         *)
(* A 64-bit register is a number below W = H * H, a 32-bit half a number   *)
(* below H, so that splitting and joining EDX:EAX and the truncation to    *)
(* uint32_t are visible.  RFLAGS is a set of flags; SYSCALL and SYSRET     *)
(* convert it to and from a register word.                                 *)
(***************************************************************************)
EXTENDS Integers

CONSTANTS
  H,               \* values of a 32-bit half register
  Movs,            \* register loads the guest may execute: <<register, word>>
  Kinds,           \* the other kinds of instruction the guest may execute
  TscValues,       \* what the time-stamp counter may read
  NativeCpuid,     \* the processor's CPUID leaves
  MaxInstr         \* bound: instructions the guest executes

\* MSR numbers, CPUID leaves and delivery modes, as words of this size.
MSR_LSTAR == 0
MSR_SYSCALL_MASK == 1
APIC_ICR == 2
MSR_IA32_APICBASE == 3

APIC_DM_INIT == 1
APIC_DM_STARTUP == 2

ASSUME HalfHasRoom == H \in Nat /\ H >= 5

W == H * H
Halves == 0 .. (H - 1)
Words == 0 .. (W - 1)

Lo(w) == w % H
Hi(w) == w \div H
Join(hi, lo) == Lo(hi) * H + Lo(lo)

Regs == {"rax", "rbx", "rcx", "rdx", "r11"}
Flags == {"IF", "RF"}

FlagsOf(w) == {f \in Flags : (f = "IF" /\ w % 2 = 1) \/ (f = "RF" /\ (w \div 2) % 2 = 1)}
WordOf(fl) == (IF "IF" \in fl THEN 1 ELSE 0) + (IF "RF" \in fl THEN 2 ELSE 0)

AllKinds ==
  {"sti", "cli", "wrmsr", "cpuid", "rdtsc", "movcr3", "syscall", "sysret",
   "pagefault", "badop", "rdmsr_vmx", "nohandler"}

ASSUME GuestProgramOK ==
  /\ Movs \subseteq (Regs \X Words)
  /\ Kinds \subseteq AllKinds
  /\ TscValues \subseteq Words
  /\ NativeCpuid \in [Halves -> [{"rax", "rbx", "rcx", "rdx"} -> Halves]]
  /\ MaxInstr \in Nat

NoInstr == [kind |-> "none", reg |-> "rax", val |-> 0]

Instrs ==
  {[kind |-> "mov", reg |-> m[1], val |-> m[2]] : m \in Movs}
    \cup {[kind |-> k, reg |-> "rax", val |-> 0] : k \in Kinds}

InstrLen(i) ==
  CASE i.kind \in {"sti", "cli", "mov"} -> 1
    [] i.kind \in {"movcr3", "sysret"}  -> 3
    [] OTHER                            -> 2

\* The processor state of a guest.  shadow: interrupts are blocked for one
\* instruction after STI; cpl is SS.DPL.
Contexts ==
  [gpr : [Regs -> Words], rip : Words, rflags : SUBSET Flags,
   shadow : BOOLEAN, cpl : {0, 3}, cr3 : Words,
   msr : [lstar : Words, fmask : Words]]

-----------------------------------------------------------------------------
(***************************************************************************)
(* Instructions the processor executes in VMX non-root operation without   *)
(* an exit.  Completing one clears RF and ends the STI shadow.             *)
(***************************************************************************)
MsrIndex(s) == Lo(s.gpr["rcx"])

EdxEax(s) == Join(s.gpr["rdx"], s.gpr["rax"])

RunsNatively(i, s) ==
  \/ i.kind \in {"mov", "sti", "cli"}
  \/ i.kind = "wrmsr" /\ MsrIndex(s) \in {MSR_LSTAR, MSR_SYSCALL_MASK}

Advance(i, s) ==
  [s EXCEPT !.rip = (@ + InstrLen(i)) % W, !.rflags = @ \ {"RF"}, !.shadow = FALSE]

NativeEffect(i, s) ==
  LET t == Advance(i, s)
  IN  CASE i.kind = "mov" -> [t EXCEPT !.gpr[i.reg] = i.val]
        [] i.kind = "sti" -> [t EXCEPT !.rflags = @ \cup {"IF"},
                                       !.shadow = "IF" \notin s.rflags]
        [] i.kind = "cli" -> [t EXCEPT !.rflags = @ \ {"IF"}]
        [] i.kind = "wrmsr" /\ MsrIndex(s) = MSR_LSTAR ->
             [t EXCEPT !.msr.lstar = EdxEax(s)]
        [] i.kind = "wrmsr" /\ MsrIndex(s) = MSR_SYSCALL_MASK ->
             [t EXCEPT !.msr.fmask = EdxEax(s)]
=============================================================================
