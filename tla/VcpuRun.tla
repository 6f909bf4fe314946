------------------------------ MODULE VcpuRun ------------------------------
(***************************************************************************)
(* kvm_loop of vmm/kvm.c: enter the guest (vmx_vcpu_run), leave it at a VM *)
(* exit, run the exit handler (vmx_handle_exit), enter again.              *)
(*                                                                         *)
(* The guest's state is spread over four places, and no single one is      *)
(* current all the time: the processor while the guest runs; otherwise the *)
(* VMCS (RIP, RFLAGS, SS, CR3), vcpu->regs (general registers, saved and   *)
(* loaded by the assembly of vmx_vcpu_run together with CR2) and           *)
(* msr_autoload.guest (MSRs the processor stores at exit and loads at      *)
(* entry).  A handler must change the right place, and advance RIP exactly *)
(* when it has emulated the instruction.                                   *)
(*                                                                         *)
(* SYSCALL and SYSRET raise #UD because EFER.SCE is off (VcpuMode).  Which *)
(* EPT violations are resolved and which panic is the subject of Ept; here *)
(* an instruction may meet one and is then executed again.  CR0, CR4 and   *)
(* EFER writes are in VcpuMode.                                            *)
(***************************************************************************)
EXTENDS GuestIsa

CONSTANTS
  HostContext,    \* what the registers hold while the monitor runs
  BootStates,     \* launch states the VMCS may have when the guest starts:
                  \* vmx_vcpu_enable loads it without a VMCLEAR
  UdLengths       \* what VM_EXIT_INSTRUCTION_LEN may hold after a #UD exit

ASSUME VcpuRunConstants ==
  /\ HostContext \in Contexts
  /\ BootStates \subseteq {"clear", "launched"}
  /\ UdLengths \subseteq Words

VARIABLES
  mode,       \* "run": at the call of run;  "guest": the guest executes;
              \* "exit": at the call of handle_exit;  "dead": panicked
  hw,         \* the processor's registers
  vmcs,       \* guest-state fields of the VMCS
  info,       \* VM-exit information fields of the VMCS
  vmcsState,  \* launch state of the VMCS, kept by the processor
  regs,       \* vcpu->regs
  guestMsrs,  \* msr_autoload.guest
  launched,   \* vmx->launched
  fail,       \* vmx->fail
  dev,        \* the local APIC registers
  cur,        \* the instruction the guest is executing
  retried,    \* it already met an EPT violation
  count       \* instructions completed

hostVars == <<launched, fail>>
cpuVars == <<hw, vmcs, info, vmcsState, regs, guestMsrs>>
vars == <<mode, cpuVars, hostVars, dev, cur, retried, count>>

-----------------------------------------------------------------------------
(***************************************************************************)
(* create_vcpu, vmx_vcpu_setup and run_vcpu: zeroed registers and MSR      *)
(* list, RFLAGS = 2, CS:RIP at the firmware.  The exit-information fields  *)
(* of a fresh VMCS are zero, and exit reason 0 is EXCEPTION_NMI.           *)
(***************************************************************************)
BootContext ==
  [gpr |-> [r \in Regs |-> 0], rip |-> 0, rflags |-> {}, shadow |-> FALSE,
   cpl |-> 0, cr3 |-> 0, msr |-> [lstar |-> 0, fmask |-> 0]]

BootDevices == [icr |-> 0, apicbase |-> 1]

VmcsFields(s) == [rip |-> s.rip, rflags |-> s.rflags, shadow |-> s.shadow,
                  cpl |-> s.cpl, cr3 |-> s.cr3]

Init ==
  /\ mode = "run"
  /\ hw = HostContext
  /\ vmcs = VmcsFields(BootContext)
  /\ info = [reason |-> "exception_nmi", vector |-> 0, len |-> 0]
  /\ vmcsState \in BootStates
  /\ regs = BootContext.gpr
  /\ guestMsrs = BootContext.msr
  /\ launched = FALSE
  /\ fail = FALSE
  /\ dev = BootDevices
  /\ cur = NoInstr
  /\ retried = FALSE
  /\ count = 0

-----------------------------------------------------------------------------
(***************************************************************************)
(* vmx_vcpu_run.                                                           *)
(***************************************************************************)

\* cmpl $0, launched: VMLAUNCH needs a clear VMCS, VMRESUME a launched one.
EntryInstructionOK == vmcsState = (IF launched THEN "launched" ELSE "clear")

\* The guest-state check of VM entry that the handlers here can break:
\* blocking by STI needs RFLAGS.IF.
GuestStateOK == vmcs.shadow => "IF" \in vmcs.rflags

\* The registers are loaded from vcpu->regs, the processor loads the VMCS
\* fields and the MSR list.
EnterGuest ==
  /\ mode = "run"
  /\ EntryInstructionOK
  /\ GuestStateOK
  /\ mode' = "guest"
  /\ hw' = [gpr |-> regs, rip |-> vmcs.rip, rflags |-> vmcs.rflags,
            shadow |-> vmcs.shadow, cpl |-> vmcs.cpl, cr3 |-> vmcs.cr3,
            msr |-> guestMsrs]
  /\ vmcsState' = "launched"
  /\ UNCHANGED <<vmcs, info, regs, guestMsrs, hostVars, dev, cur, retried, count>>

\* launched = 1 at the end of vmx_vcpu_run, whatever the outcome.
SetLaunched == launched' = TRUE

\* VMLAUNCH or VMRESUME fails (VMfailValid): control falls through to the
\* code after a VM exit, which saves the registers it had just loaded and
\* sets fail.  The exit-information fields keep their old contents.
EntryFails ==
  /\ mode = "run"
  /\ ~EntryInstructionOK
  /\ mode' = "exit"
  /\ fail' = TRUE
  /\ SetLaunched
  /\ UNCHANGED <<cpuVars, dev, cur, retried, count>>

\* The processor rejects the guest state: an exit with its own reason.
EntryRejected ==
  /\ mode = "run"
  /\ EntryInstructionOK
  /\ ~GuestStateOK
  /\ mode' = "exit"
  /\ info' = [reason |-> "invalid_state", vector |-> 0, len |-> 0]
  /\ fail' = FALSE
  /\ SetLaunched
  /\ UNCHANGED <<hw, vmcs, vmcsState, regs, guestMsrs, dev, cur, retried, count>>

\* Mutant of SaveGuestRegisters: RCX, used for the vcpu pointer, is not saved.
SaveGuestRegisters_NotRcx == regs' = [hw.gpr EXCEPT !["rcx"] = regs["rcx"]]

\* A VM exit of the running guest: the processor saves the VMCS fields and
\* the MSRs and loads the host's, the assembly saves the registers.  A
\* fault-like exit saves RFLAGS with RF set.
SaveGuestRegisters == regs' = hw.gpr

VmExit(newInfo, faultLike) ==
  /\ mode' = "exit"
  /\ vmcs' = [VmcsFields(hw) EXCEPT
                !.rflags = IF faultLike THEN @ \cup {"RF"} ELSE @]
  /\ info' = newInfo
  /\ guestMsrs' = hw.msr
  /\ SaveGuestRegisters
  /\ hw' = HostContext
  /\ fail' = FALSE
  /\ SetLaunched
  /\ UNCHANGED <<vmcsState, dev, cur, count>>

-----------------------------------------------------------------------------
(***************************************************************************)
(* The guest (external: the processor in VMX non-root operation).          *)
(***************************************************************************)
GuestFetch ==
  /\ mode = "guest"
  /\ cur = NoInstr
  /\ count < MaxInstr
  /\ cur' \in Instrs
  /\ retried' = FALSE
  /\ UNCHANGED <<mode, cpuVars, hostVars, dev, count>>

GuestExecutes ==
  /\ mode = "guest"
  /\ cur # NoInstr
  /\ RunsNatively(cur, hw)
  /\ hw' = NativeEffect(cur, hw)
  /\ cur' = NoInstr
  /\ count' = count + 1
  /\ UNCHANGED <<mode, vmcs, info, vmcsState, regs, guestMsrs, hostVars, dev, retried>>

GuestMeetsEptViolation ==
  /\ mode = "guest"
  /\ cur # NoInstr
  /\ ~retried
  /\ retried' = TRUE
  /\ VmExit([reason |-> "ept_violation", vector |-> 0, len |-> 0], TRUE)

\* The exits setup_vmcs_config and vmx_hardware_setup ask for.
ExitReason(i) ==
  CASE i.kind = "cpuid"     -> "cpuid"
    [] i.kind = "rdtsc"     -> "rdtsc"
    [] i.kind = "movcr3"    -> "cr_access"
    [] i.kind = "wrmsr"     -> "wrmsr"
    [] i.kind = "rdmsr_vmx" -> "rdmsr"
    [] OTHER                -> "other"

GuestTraps ==
  /\ mode = "guest"
  /\ cur # NoInstr
  /\ ~RunsNatively(cur, hw)
  /\ cur.kind \notin {"syscall", "sysret", "badop", "pagefault"}
  /\ VmExit([reason |-> ExitReason(cur), vector |-> 0, len |-> InstrLen(cur)], FALSE)
  /\ UNCHANGED retried

GuestFaults ==
  /\ mode = "guest"
  /\ cur.kind \in {"syscall", "sysret", "badop", "pagefault"}
  /\ \E len \in UdLengths :
       VmExit([reason |-> "exception_nmi",
               vector |-> IF cur.kind = "pagefault" THEN 14 ELSE 6,
               len |-> len], TRUE)
  /\ UNCHANGED retried

-----------------------------------------------------------------------------
(***************************************************************************)
(* The exit handlers.                                                      *)
(***************************************************************************)

\* kvm_skip_emulated_instruction on the VMCS fields v.
skip_emulated_instruction(v) ==
  [v EXCEPT !.rip = (@ + info.len) % W, !.shadow = FALSE]

kvm_read_edx_eax == Join(regs["rdx"], regs["rax"])

kvm_write_edx_eax(val) == [regs EXCEPT !["rax"] = Lo(val), !["rdx"] = Hi(val)]

\* A handler that returns to kvm_loop: done when it has emulated the
\* instruction, not when the guest is to execute it again.
BackToLoop ==
  /\ mode' = "run"
  /\ UNCHANGED <<hw, info, vmcsState, guestMsrs, hostVars, retried>>

Emulated ==
  /\ cur' = NoInstr
  /\ count' = count + 1

Panic ==
  /\ mode' = "dead"
  /\ UNCHANGED <<cpuVars, hostVars, dev, cur, retried, count>>

Dispatched(reason) == mode = "exit" /\ info.reason = reason

\* Feature bits of leaf 1: bit 0 stands for VMX, bit 1 for X2APIC and
\* HYPERVISOR.  Leaf 3 stands for 0x40000000, leaf 2 for 0x40000001.
CpuidResult(leaf, native) ==
  CASE leaf = 1 -> [native EXCEPT !["rcx"] =
                      LET noVmx == @ - (@ % 2)
                      IN  IF (noVmx \div 2) % 2 = 1 THEN noVmx ELSE noVmx + 2]
    [] leaf = 4 -> [r \in DOMAIN native |-> 0]
    [] leaf = 3 -> [rax |-> 2, rbx |-> 3, rcx |-> 4, rdx |-> 1]
    [] leaf = 2 -> [r \in DOMAIN native |-> 0]
    [] OTHER    -> native

kvm_emulate_cpuid ==
  /\ Dispatched("cpuid")
  /\ LET leaf == Lo(regs["rax"])
         out  == CpuidResult(leaf, NativeCpuid[leaf])
     IN  regs' = [r \in Regs |-> IF r \in DOMAIN out THEN out[r] ELSE regs[r]]
  /\ vmcs' = skip_emulated_instruction(vmcs)
  /\ Emulated
  /\ BackToLoop
  /\ UNCHANGED dev

handle_rdtsc ==
  /\ Dispatched("rdtsc")
  /\ \E val \in TscValues : regs' = kvm_write_edx_eax(val)
  /\ vmcs' = skip_emulated_instruction(vmcs)
  /\ Emulated
  /\ BackToLoop
  /\ UNCHANGED dev

handle_cr ==
  /\ Dispatched("cr_access")
  /\ vmcs' = skip_emulated_instruction([vmcs EXCEPT !.cr3 = regs["rax"]])
  /\ Emulated
  /\ BackToLoop
  /\ UNCHANGED <<regs, dev>>

\* What a wrmsr does to the APIC; INIT and STARTUP are dropped.
WrmsrPanics(msr, val) ==
  \/ msr \notin {MSR_IA32_APICBASE, APIC_ICR}
  \/ msr = MSR_IA32_APICBASE /\ val % 2 = 0     \* BUG_ON: APIC disabled

WrmsrDevice(msr, val) ==
  IF msr = MSR_IA32_APICBASE THEN [dev EXCEPT !.apicbase = val]
  ELSE IF Lo(val) \in {APIC_DM_INIT, APIC_DM_STARTUP} THEN dev
  ELSE [dev EXCEPT !.icr = val]

handle_wrmsr ==
  /\ Dispatched("wrmsr")
  /\ ~WrmsrPanics(Lo(regs["rcx"]), kvm_read_edx_eax)
  /\ dev' = WrmsrDevice(Lo(regs["rcx"]), kvm_read_edx_eax)
  /\ vmcs' = skip_emulated_instruction(vmcs)
  /\ Emulated
  /\ BackToLoop
  /\ UNCHANGED regs

handle_wrmsr_panics ==
  /\ Dispatched("wrmsr")
  /\ WrmsrPanics(Lo(regs["rcx"]), kvm_read_edx_eax)
  /\ Panic

\* RIP is not advanced: the guest executes the instruction again.
handle_ept_violation ==
  /\ Dispatched("ept_violation")
  /\ BackToLoop
  /\ UNCHANGED <<vmcs, regs, dev, cur, count>>

\* The opcode bytes at RIP tell SYSCALL and SYSRET from other #UDs.
IsUd(kind) == info.vector = 6 /\ cur.kind = kind

handle_syscall ==
  /\ Dispatched("exception_nmi")
  /\ IsUd("syscall")
  /\ LET next == skip_emulated_instruction(vmcs)
     IN  /\ regs' = [regs EXCEPT !["rcx"] = next.rip,
                                 !["r11"] = WordOf(next.rflags)]
         /\ vmcs' = [next EXCEPT !.rip = guestMsrs.lstar,
                                 !.rflags = @ \ FlagsOf(guestMsrs.fmask),
                                 !.cpl = 0]
  /\ Emulated
  /\ BackToLoop
  /\ UNCHANGED dev

\* The mask 0x3c7fd7 drops RF; there is no skip_emulated_instruction.
handle_sysret ==
  /\ Dispatched("exception_nmi")
  /\ IsUd("sysret")
  /\ vmcs' = [vmcs EXCEPT !.rip = regs["rcx"],
                          !.rflags = FlagsOf(regs["r11"]) \ {"RF"},
                          !.cpl = 3]
  /\ Emulated
  /\ BackToLoop
  /\ UNCHANGED <<regs, dev>>

\* Mutant of handle_exception_panics: an exit without a vector is ignored.
handle_exception_panics_Ignores ==
  /\ Dispatched("exception_nmi")
  /\ ~IsUd("syscall")
  /\ ~IsUd("sysret")
  /\ IF info.vector = 0
     THEN BackToLoop /\ UNCHANGED <<vmcs, regs, dev, cur, count>>
     ELSE Panic

handle_exception_panics ==
  /\ Dispatched("exception_nmi")
  /\ ~IsUd("syscall")
  /\ ~IsUd("sysret")
  /\ Panic

\* handle_rdmsr, and reasons that vmx_exit_handlers does not know.
handle_exit_panics ==
  /\ mode = "exit"
  /\ info.reason \in {"rdmsr", "invalid_state", "other"}
  /\ Panic

vmx_handle_exit ==
  \/ kvm_emulate_cpuid
  \/ handle_rdtsc
  \/ handle_cr
  \/ handle_wrmsr
  \/ handle_wrmsr_panics
  \/ handle_ept_violation
  \/ handle_syscall
  \/ handle_sysret
  \/ handle_exception_panics
  \/ handle_exit_panics

vmx_vcpu_run ==
  \/ EnterGuest
  \/ EntryFails
  \/ EntryRejected

GuestStep ==
  \/ GuestExecutes
  \/ GuestMeetsEptViolation
  \/ GuestTraps
  \/ GuestFaults

Next ==
  \/ GuestFetch
  \/ GuestStep
  \/ vmx_vcpu_run
  \/ vmx_handle_exit

Spec == Init /\ [][Next]_vars

\* The processor completes what it executes and kvm_loop calls run and
\* handle_exit without condition; the guest need not go on.
Fairness ==
  /\ WF_vars(GuestStep)
  /\ WF_vars(vmx_vcpu_run)
  /\ WF_vars(vmx_handle_exit)

FairSpec == Spec /\ Fairness

-----------------------------------------------------------------------------
(***************************************************************************)
(* Properties.                                                             *)
(***************************************************************************)

\* The guest's state, wherever it is kept at the moment.
Now == IF mode = "guest" THEN hw
       ELSE [gpr |-> regs, rip |-> vmcs.rip, rflags |-> vmcs.rflags,
             shadow |-> vmcs.shadow, cpl |-> vmcs.cpl, cr3 |-> vmcs.cr3,
             msr |-> guestMsrs]

GC == INSTANCE GuestCpu WITH
        g <- [Now EXCEPT !.rflags = @ \ {"RF"}],
        halted <- mode = "dead"

\* Across entries, exits, retries and emulation the guest sees a processor:
\* every instruction takes effect exactly once, with its architectural
\* effect on registers, flags, MSRs and RIP, nothing is lost on the way
\* through vcpu->regs, VMCS and MSR list, and the monitor stops only when
\* the first entry fails, at an instruction it does not support, or after a
\* SYSRET in the shadow of STI (kvm_loop and all exit handlers).
ImplementsGuestCpu == GC!FairSpec

\* No exit is handled twice: a handler returns to the loop only if the
\* entry before it succeeded.  vmx->fail is never read, so after a failed
\* VMLAUNCH or VMRESUME vmx_handle_exit works on the exit information of an
\* earlier exit (or on none).
NoStaleDispatch ==
  [][mode = "exit" /\ mode' = "run" => ~fail]_vars

\* A failed entry stops the machine, and nothing retries it forever.
FailedEntryIsFatal == fail ~> mode = "dead"

\* The VMM test runs xv6's usertests and waits for "ALL TESTS PASSED"
\* (tests/test_vmm.py); usertests makes its children fault on purpose, so a
\* page fault of the guest must be left to the guest.
PageFaultIsNotFatal == ~(mode = "dead" /\ cur.kind = "pagefault")

-----------------------------------------------------------------------------
(***************************************************************************)
(* The inductive invariant behind NoStaleDispatch: vmx->launched follows   *)
(* the launch state, which software cannot read, except around the first   *)
(* entry, when the exit information names no event any handler accepts.    *)
(***************************************************************************)
NothingToHandle ==
  \/ info.reason = "invalid_state"
  \/ info.reason = "exception_nmi" /\ info.vector = 0

LaunchInv ==
  /\ mode \in {"run", "guest", "exit", "dead"}
  /\ mode = "guest" => vmcsState = "launched"
  /\ mode = "run" =>
       \/ launched = TRUE /\ vmcsState = "launched"
       \/ launched = FALSE /\ NothingToHandle
  /\ mode = "exit" =>
       /\ launched = TRUE
       /\ \/ vmcsState = "launched" /\ fail = FALSE
          \/ NothingToHandle
=============================================================================
