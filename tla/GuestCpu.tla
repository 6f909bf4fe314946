------------------------------ MODULE GuestCpu ------------------------------
(***************************************************************************)
(* What lvisor promises its guest: a processor that executes the guest's   *)
(* instructions one after the other, each exactly once and with its        *)
(* architectural effect, or stops at an instruction the monitor does not   *)
(* support.  No VM exit, register save area or emulation is visible here.  *)
(* Two effects of SYSCALL and SYSRET are left open: whether RF is among    *)
(* the flags saved in R11, and whether SYSRET ends the shadow of an STI    *)
(* directly before it; if it does not, and clears IF, the machine stops.   *)
(***************************************************************************)
EXTENDS GuestIsa

CONSTANTS
  BootContext,   \* the guest's processor state at its first instruction
  BootDevices

VARIABLES
  g,        \* the guest's processor state (RF is not part of it)
  dev,      \* the local APIC registers the guest can write
  cur,      \* the instruction being executed
  halted,   \* the monitor panicked
  count     \* instructions completed

vars == <<g, dev, cur, halted, count>>

Init ==
  /\ g = BootContext
  /\ dev = BootDevices
  /\ cur = NoInstr
  /\ halted = FALSE
  /\ count = 0

\* The hypervisor's processor hides VMX, shows x2APIC and a hypervisor
\* (bit 0 and bit 1 of ECX here), has no cache-topology leaf and no
\* paravirtual features, and carries a signature leaf.
GuestCpuid(leaf) ==
  CASE leaf = 1 -> [NativeCpuid[1] EXCEPT !["rcx"] = 4 * (@ \div 4) + 2]
    [] leaf = 3 -> [rax |-> 2, rbx |-> 3, rcx |-> 4, rdx |-> 1]
    [] leaf \in {2, 4} -> [r \in {"rax", "rbx", "rcx", "rdx"} |-> 0]
    [] OTHER -> NativeCpuid[leaf]

\* Instructions that stop the machine: faults the monitor does not reflect
\* back, MSRs it does not allow, exits it has no handler for.
Unsupported(i, s) ==
  \/ i.kind \in {"pagefault", "badop", "rdmsr_vmx", "nohandler"}
  \/ /\ i.kind = "wrmsr"
     /\ MsrIndex(s) \notin {MSR_LSTAR, MSR_SYSCALL_MASK, APIC_ICR, MSR_IA32_APICBASE}
  \/ i.kind = "wrmsr" /\ MsrIndex(s) = MSR_IA32_APICBASE /\ EdxEax(s) % 2 = 0

\* The possible states after instruction i.
Effects(i, s) ==
  LET t == Advance(i, s)
      SplitTsc(v) == [t.gpr EXCEPT !["rax"] = Lo(v), !["rdx"] = Hi(v)]
      id == GuestCpuid(Lo(s.gpr["rax"]))
  IN  CASE i.kind = "cpuid" ->
             {[t EXCEPT !.gpr = [r \in Regs |-> IF r \in DOMAIN id
                                                THEN id[r] ELSE @[r]]]}
        [] i.kind = "rdtsc"  -> {[t EXCEPT !.gpr = SplitTsc(v)] : v \in TscValues}
        [] i.kind = "movcr3" -> {[t EXCEPT !.cr3 = s.gpr["rax"]]}
        [] i.kind = "syscall" ->
             {[t EXCEPT !.gpr["rcx"] = t.rip, !.gpr["r11"] = WordOf(s.rflags \cup rf),
                        !.rip = s.msr.lstar, !.cpl = 0,
                        !.rflags = s.rflags \ FlagsOf(s.msr.fmask)]
                : rf \in {{}, {"RF"}}}
        [] i.kind = "sysret" ->
             {[t EXCEPT !.rip = s.gpr["rcx"], !.cpl = 3, !.shadow = shadow,
                        !.rflags = FlagsOf(s.gpr["r11"]) \ {"RF"}]
                : shadow \in {FALSE, s.shadow}}
        [] i.kind = "wrmsr" /\ ~RunsNatively(i, s) -> {t}
        [] OTHER -> {NativeEffect(i, s)}

\* A one-processor machine has nobody to INIT or start up.
DeviceEffect(i, s, d) ==
  CASE i.kind = "wrmsr" /\ MsrIndex(s) = APIC_ICR
         /\ Lo(EdxEax(s)) \notin {APIC_DM_INIT, APIC_DM_STARTUP} ->
           [d EXCEPT !.icr = EdxEax(s)]
    [] i.kind = "wrmsr" /\ MsrIndex(s) = MSR_IA32_APICBASE ->
           [d EXCEPT !.apicbase = EdxEax(s)]
    [] OTHER -> d

Fetch ==
  /\ ~halted
  /\ cur = NoInstr
  /\ count < MaxInstr
  /\ cur' \in Instrs
  /\ UNCHANGED <<g, dev, halted, count>>

Retire ==
  /\ ~halted
  /\ cur # NoInstr
  /\ ~Unsupported(cur, g)
  /\ g' \in Effects(cur, g)
  /\ dev' = DeviceEffect(cur, g, dev)
  /\ cur' = NoInstr
  /\ count' = count + 1
  /\ UNCHANGED halted

\* Interrupts blocked by STI although IF is clear: no processor state.
Broken(s) == s.shadow /\ "IF" \notin s.rflags

Stop ==
  /\ ~halted
  /\ IF cur = NoInstr THEN Broken(g) ELSE Unsupported(cur, g)
  /\ halted' = TRUE
  /\ UNCHANGED <<g, dev, cur, count>>

\* The machine may fail to start.
NeverStarts ==
  /\ ~halted
  /\ cur = NoInstr
  /\ count = 0
  /\ halted' = TRUE
  /\ UNCHANGED <<g, dev, cur, count>>

Next == Fetch \/ Retire \/ Stop \/ NeverStarts

Spec == Init /\ [][Next]_vars

\* An instruction once begun completes or stops the machine.
FairSpec == Spec /\ WF_vars(Retire \/ Stop)
=============================================================================
