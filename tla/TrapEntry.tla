----------------------------- MODULE TrapEntry -----------------------------
(***************************************************************************)
(* Traps, interrupts and system calls of one CPU: the gates kernel/idt.c   *)
(* and kernel/traps.c set up, and the way through kernel/entry.S from the  *)
(* interrupted code to a C handler and back.                               *)
(*                                                                         *)
(* Kernel memory is mapped twice.  The page table kpml4 has it at its own  *)
(* address ("identity") and again at __ENTRY_OFFSET ("shared"); the user's *)
(* page table upml4 has the shared mapping only.  A word is a triple: a    *)
(* number, what it is, and the mapping it points into or "".               *)
(***************************************************************************)
EXTENDS Integers, Sequences, SequencesExt, LibBits

CONSTANTS
  NR_VECTORS, FIRST_EXTERNAL_VECTOR,
  LOCAL_TIMER_VECTOR, ERROR_APIC_VECTOR, SPURIOUS_APIC_VECTOR,
  Vectors,    \* bound: vectors of the events
  MaxNest     \* bound: contexts interrupted by one another

ASSUME TrapConstants ==
  /\ {NR_VECTORS, FIRST_EXTERNAL_VECTOR, MaxNest} \subseteq Nat
  /\ Vectors \subseteq 0 .. (NR_VECTORS - 1)
  /\ {LOCAL_TIMER_VECTOR, ERROR_APIC_VECTOR, SPURIOUS_APIC_VECTOR}
       \subseteq FIRST_EXTERNAL_VECTOR .. (NR_VECTORS - 1)
  /\ FIRST_EXTERNAL_VECTOR >= 20   \* behind the exceptions of def_idts
  /\ LOCAL_TIMER_VECTOR # ERROR_APIC_VECTOR /\ LOCAL_TIMER_VECTOR # SPURIOUS_APIC_VECTOR
  /\ ERROR_APIC_VECTOR # SPURIOUS_APIC_VECTOR

VARIABLES
  boot,            \* step of main() of the kernel: trap_init, syscall_init, user_init
  entry,           \* next entry of the table that step copies
  idt_table,       \* vector -> gate
  system_vectors,  \* bitmap
  msr,             \* LSTAR is set, flags SYSCALL clears
  cpu,             \* privilege level, cr3, gs and its shadow, rip, rsp, IF, registers
  stacks,          \* contents of the CPU's stack and of the double fault stack
  scratch,         \* cr3_scratch, rsp_scratch: per-CPU variables
  pc, sym,         \* place in entry.S; the entry point taken, "" if none
  frames,          \* the contexts interrupted, the last one on top
  inService        \* the local APIC waits for an EOI

trapVars == <<boot, entry, idt_table, system_vectors, msr, cpu, stacks, scratch, pc, sym,
              frames, inService>>
bootVars == <<boot, entry, idt_table, system_vectors, msr>>

-----------------------------------------------------------------------------
X86_TRAP_DE == 0
X86_TRAP_OF == 4
X86_TRAP_UD == 6
X86_TRAP_DF == 8
X86_TRAP_NP == 11
X86_TRAP_GP == 13

Gate(addr, ist, dpl) == [present |-> TRUE, addr |-> addr, ist |-> ist, dpl |-> dpl]
NoGate == [present |-> FALSE, addr |-> "", ist |-> 0, dpl |-> 0]
INTG(vector, addr) == <<vector, Gate(addr, 0, 0)>>
SYSG(vector, addr) == <<vector, Gate(addr, 0, 3)>>
ISTG(vector, addr, ist) == <<vector, Gate(addr, ist, 0)>>

def_idts == <<
  INTG(X86_TRAP_DE, "divide_error"), INTG(5, "bounds"), INTG(X86_TRAP_UD, "invalid_op"),
  INTG(7, "device_not_available"), INTG(9, "coprocessor_segment_overrun"),
  INTG(10, "invalid_TSS"), INTG(X86_TRAP_NP, "segment_not_present"), INTG(12, "stack_segment"),
  INTG(X86_TRAP_GP, "general_protection"), INTG(14, "page_fault"),
  INTG(15, "spurious_interrupt_bug"), INTG(16, "coprocessor_error"),
  INTG(17, "alignment_check"), INTG(19, "simd_coprocessor_error"),
  INTG(X86_TRAP_DF, "double_fault"), SYSG(X86_TRAP_OF, "overflow")>>

apic_idts == <<
  INTG(LOCAL_TIMER_VECTOR, "apic_timer_interrupt"), INTG(SPURIOUS_APIC_VECTOR, "spurious_interrupt"),
  INTG(ERROR_APIC_VECTOR, "error_interrupt")>>

ist_idts == <<ISTG(X86_TRAP_DF, "double_fault", 1)>>

Table(step) == CASE step = "traps" -> def_idts [] step = "ist" -> ist_idts
                 [] step = "apic" -> apic_idts

\* The entry points declared with has_error_code=1.
has_error_code(s) == s \in {"double_fault", "invalid_TSS", "segment_not_present", "alignment_check",
                            "stack_segment", "general_protection", "page_fault"}
apicinterrupt(s) == s \in {"apic_timer_interrupt", "error_interrupt", "spurious_interrupt"}

\* The exceptions the processor pushes an error code for.
PushesError == {8, 10, 11, 12, 13, 14, 17}

-----------------------------------------------------------------------------
(***************************************************************************)
(* trap_init, syscall_init and the start of the first user.                *)
(***************************************************************************)
ExtraRegs == <<"r15", "r14", "r13", "r12", "rbp", "rbx">>
CRegs == <<"r11", "r10", "r9", "r8", "rax", "rcx", "rdx", "rsi", "rdi">>
GpRegs == ExtraRegs \o CRegs
Regs == ToSet(GpRegs)

Junk == <<-1, "junk", "">>
MinusOne == <<-1, "-1", "">>
FlagsOf(level, on) == <<level, "flags", IF on THEN "if" ELSE "">>
RspWord(rsp) == <<rsp.at, rsp.stack, rsp.map>>
RspOf(word) == [stack |-> word[2], at |-> word[1], map |-> word[3]]
\* Registers as some code has them.
OwnRegs == [r \in Regs |-> <<0, r, "">>]

TrapInit ==
  /\ boot = "traps" /\ entry = 1
  /\ idt_table = [v \in 0 .. (NR_VECTORS - 1) |-> NoGate]
  /\ system_vectors = {}
  /\ msr = [LSTAR |-> FALSE, clears |-> {}]
  /\ cpu = [cpl |-> 0, cr3 |-> "kpml4", gs |-> "identity", kgs |-> "user", rip |-> "identity",
            rsp |-> [stack |-> "cpu", at |-> 0, map |-> "identity"], if |-> FALSE,
            regs |-> OwnRegs]
  /\ stacks = [s \in {"cpu", "ist"} |-> <<>>]
  /\ scratch = [cr3 |-> "", rsp |-> Junk]
  /\ pc = "c" /\ sym = ""
  /\ frames = <<>>
  /\ inService = FALSE

\* Boot code runs: no trap is being handled.
Booting(step) == boot = step /\ pc = "c" /\ frames = <<>>
RestOfBoot == UNCHANGED <<cpu, stacks, scratch, pc, sym, frames, inService>>

set_intr_gate(n, addr) == idt_table' = [idt_table EXCEPT ![n] = Gate(addr, 0, 0)]

idt_setup_from_table(step) ==
  /\ Booting(step) /\ entry <= Len(Table(step))
  /\ idt_table' = [idt_table EXCEPT ![Table(step)[entry][1]] = Table(step)[entry][2]]
  /\ system_vectors' = set_bit(Table(step)[entry][1], system_vectors)
  /\ entry' = entry + 1
  /\ UNCHANGED <<boot, msr>> /\ RestOfBoot

TableDone(step) == Booting(step) /\ entry > Len(Table(step)) /\ UNCHANGED <<msr>>

\* load_idt; the handlers of the table are in use from here on.
idt_setup_traps ==
  TableDone("traps") /\ boot' = "ist" /\ entry' = 1
  /\ UNCHANGED <<idt_table, system_vectors>> /\ RestOfBoot

idt_setup_ist_traps ==
  TableDone("ist") /\ boot' = "apic" /\ entry' = 1
  /\ UNCHANGED <<idt_table, system_vectors>> /\ RestOfBoot

\* for_each_clear_bit_from: entry is i once the table is copied.
idt_setup_apic_and_irq_gates ==
  \/ /\ TableDone("apic")
     /\ boot' = "irq"
     /\ entry' = find_next_zero_bit(system_vectors, NR_VECTORS, FIRST_EXTERNAL_VECTOR)
     /\ UNCHANGED <<idt_table, system_vectors>> /\ RestOfBoot
  \/ /\ Booting("irq") /\ entry < NR_VECTORS
     /\ system_vectors' = set_bit(entry, system_vectors)
     /\ set_intr_gate(entry, "spurious_interrupt")
     /\ entry' = find_next_zero_bit(system_vectors', NR_VECTORS, entry + 1)
     /\ UNCHANGED <<boot, msr>> /\ RestOfBoot
  \/ /\ Booting("irq") /\ entry >= NR_VECTORS
     /\ boot' = "msrs"
     /\ UNCHANGED <<entry, idt_table, system_vectors, msr>> /\ RestOfBoot

\* The rest of trap_init: gs moves to the shared mapping.
trap_init ==
  /\ Booting("msrs")
  /\ cpu' = [cpu EXCEPT !.kgs = "user", !.gs = "shared"]
  /\ boot' = "syscall"
  /\ UNCHANGED <<entry, idt_table, system_vectors, msr, stacks, scratch, pc, sym, frames, inService>>

\* Mutant of syscall_init: SYSCALL leaves interrupts on.
syscall_init_KeepsIf ==
  /\ Booting("syscall")
  /\ msr' = [LSTAR |-> TRUE, clears |-> {"TF", "DF", "IOPL", "AC", "NT"}]
  /\ boot' = "user"
  /\ UNCHANGED <<entry, idt_table, system_vectors>> /\ RestOfBoot

syscall_init ==
  /\ Booting("syscall")
  /\ msr' = [LSTAR |-> TRUE, clears |-> {"TF", "DF", "IF", "IOPL", "AC", "NT"}]
  /\ boot' = "user"
  /\ UNCHANGED <<entry, idt_table, system_vectors>> /\ RestOfBoot

-----------------------------------------------------------------------------
(***************************************************************************)
(* The stack: element at of stacks[s] is the word at its rsp.              *)
(***************************************************************************)
Stack == SubSeq(stacks[cpu.rsp.stack], 1, cpu.rsp.at)
\* n(%rsp), n in words.
Slot(n) == Stack[Len(Stack) - n]
Push(c, words) ==
  /\ stacks' = [stacks EXCEPT ![c.rsp.stack] = SubSeq(@, 1, c.rsp.at) \o words]
  /\ cpu' = [c EXCEPT !.rsp.at = @ + Len(words)]
Popped(c, n) == [c EXCEPT !.rsp.at = @ - n]

\* Offsets in the frame, in words: R15 is 0 .. RDI is 14.
ORIG_RAX == 15
RIP == 16
CS == 17
RFLAGS == 18
RSP == 19
OffsetOf(r) == (CHOOSE i \in DOMAIN GpRegs : GpRegs[i] = r) - 1

\* The words SAVE_C_REGS and SAVE_EXTRA_REGS leave: RDI is the deepest.
Saved(regs) == [i \in 1 .. 15 |-> regs[GpRegs[16 - i]]]

At(p) == pc = p /\ UNCHANGED bootVars
KeepTrap == UNCHANGED <<sym, frames, inService>>

-----------------------------------------------------------------------------
(***************************************************************************)
(* The processor: delivery of an event, IRET, SYSCALL, SYSRET.             *)
(***************************************************************************)
\* Code that may be interrupted: the user's, or C code with a kernel stack.
Interruptible == pc \in {"user", "c"} /\ Len(frames) < MaxNest

Interrupted(event) == Append(frames, [cpu |-> cpu, sym |-> sym, event |-> event])

Deliver(v, error) ==
  LET vector == IF idt_table[v].present THEN v ELSE X86_TRAP_NP
      gate == idt_table[vector]
      code == IF vector # v THEN <<v, "gate", "">> ELSE error
      pushed == <<<<cpu.cpl, "ss", "">>, RspWord(cpu.rsp), FlagsOf(Len(frames), cpu.if),
                  <<cpu.cpl, "cs", "">>, <<Len(frames), "rip", cpu.rip>>>>
                \o IF vector \in PushesError THEN <<code>> ELSE <<>>
      rsp == IF gate.ist # 0 THEN [stack |-> "ist", at |-> 0, map |-> "shared"]
             ELSE IF cpu.cpl = 3 THEN [stack |-> "cpu", at |-> 0, map |-> "shared"]
             ELSE [cpu.rsp EXCEPT !.at = 2 * ((@ + 1) \div 2)]
      pad == IF rsp.at = cpu.rsp.at + 1 THEN <<Junk>> ELSE <<>>
      base == [rsp EXCEPT !.at = IF pad = <<>> THEN @ ELSE @ - 1]
  IN  /\ Push([cpu EXCEPT !.cpl = 0, !.if = FALSE, !.rip = "shared", !.rsp = base], pad \o pushed)
      /\ frames' = Interrupted([vector |-> vector, error |-> code])
      /\ sym' = gate.addr /\ pc' = "entry"
      /\ UNCHANGED <<bootVars, scratch>>

\* An exception of the code that runs.
Exception(v) ==
  /\ Interruptible /\ boot # "traps" /\ v < FIRST_EXTERNAL_VECTOR
  /\ (v = X86_TRAP_DF) => cpu.rsp.stack # "ist"
  /\ Deliver(v, <<v, "error", "">>)
  /\ UNCHANGED inService

\* int $v in user code.
SoftwareInterrupt(v) ==
  /\ Interruptible /\ pc = "user"
  /\ IF idt_table[v].dpl = 3 THEN Deliver(v, <<v, "error", "">>)
     ELSE Deliver(X86_TRAP_GP, <<v, "gate", "">>)
  /\ UNCHANGED inService

\* An interrupt; the spurious one is never in service.
Interrupt(v) ==
  /\ Interruptible /\ cpu.if /\ ~inService /\ v >= FIRST_EXTERNAL_VECTOR
  /\ Deliver(v, <<v, "error", "">>)
  /\ inService' = (v # SPURIOUS_APIC_VECTOR)

\* What IRETQ makes of the words at rsp.
Returned ==
  [cpu EXCEPT !.cpl = Slot(1)[1], !.rip = Slot(0)[3], !.if = (Slot(2)[3] = "if"),
              !.rsp = RspOf(Slot(3))]

\* Nothing reads the words below the rsp of the code returned to.
Forget(c) == stacks' = [s \in DOMAIN stacks |->
                          IF s = c.rsp.stack THEN SubSeq(stacks[s], 1, c.rsp.at) ELSE <<>>]

Iretq ==
  /\ At("iretq")
  /\ cpu' = Returned
  /\ pc' = IF cpu'.cpl = 3 THEN "user" ELSE "c"
  /\ sym' = IF frames = <<>> THEN "" ELSE Last(frames).sym
  /\ frames' = IF frames = <<>> THEN <<>> ELSE Front(frames)
  /\ Forget(cpu')
  /\ UNCHANGED <<scratch, inService>>

Syscall ==
  /\ At("user") /\ Interruptible /\ msr.LSTAR
  /\ cpu' = [cpu EXCEPT !.cpl = 0, !.rip = "shared", !.if = @ /\ "IF" \notin msr.clears,
                        !.regs["rcx"] = <<Len(frames), "rip", cpu.rip>>,
                        !.regs["r11"] = FlagsOf(Len(frames), cpu.if)]
  /\ frames' = Interrupted([vector |-> -1, error |-> Junk])
  /\ sym' = "do_syscall_64" /\ pc' = "entry"
  /\ UNCHANGED <<stacks, scratch, inService>>

SysretTo == [cpu EXCEPT !.cpl = 3, !.rip = cpu.regs["rcx"][3], !.if = (cpu.regs["r11"][3] = "if")]

Sysretq ==
  /\ At("sysretq")
  /\ cpu' = SysretTo
  /\ pc' = "user"
  /\ sym' = Last(frames).sym /\ frames' = Front(frames)
  /\ Forget(cpu')
  /\ UNCHANGED <<scratch, inService>>

-----------------------------------------------------------------------------
(***************************************************************************)
(* entry.S                                                                 *)
(***************************************************************************)
Swapgs(c) == [c EXCEPT !.gs = cpu.kgs, !.kgs = cpu.gs]

\* A per-CPU variable is reached through gs in both address spaces.
PerCpu == cpu.gs = "shared"

\* idtentry, up to error_entry: the return address $1f is the identity one.
idtentry ==
  /\ At("entry") /\ ~apicinterrupt(sym) /\ sym # "do_syscall_64"
  /\ Push(cpu, (IF has_error_code(sym) THEN <<>> ELSE <<MinusOne>>)
               \o [i \in 1 .. 15 |-> Junk] \o <<<<1, "1f", "identity">>>>)
  /\ pc' = "error_entry"
  /\ UNCHANGED scratch /\ KeepTrap

\* ret: to the address pushed, in the mapping it names.
Ret(c) == [Popped(c, 1) EXCEPT !.rip = Slot(0)[3]]

\* Mutant of error_entry: the registers are stored without the offset of the return address.
error_entry_NoOffset ==
  /\ At("error_entry")
  /\ stacks' = [stacks EXCEPT ![cpu.rsp.stack] = SubSeq(@, 1, cpu.rsp.at - 15) \o Saved(cpu.regs)]
  /\ IF Slot(CS + 1)[1] # 3
     THEN cpu' = [Ret(cpu) EXCEPT !.regs["rbx"] = <<1, "ebx", "">>] /\ pc' = "call"
     ELSE cpu' = [Swapgs(cpu) EXCEPT !.regs["rbx"] = <<0, "ebx", "">>] /\ pc' = "switch_cr3"
  /\ UNCHANGED scratch /\ KeepTrap

error_entry ==
  /\ At("error_entry")
  /\ stacks' = [stacks EXCEPT ![cpu.rsp.stack] =
                  SubSeq(@, 1, cpu.rsp.at - 16) \o Saved(cpu.regs) \o <<Slot(0)>>]
  /\ IF Slot(CS + 1)[1] # 3
     THEN cpu' = [Ret(cpu) EXCEPT !.regs["rbx"] = <<1, "ebx", "">>] /\ pc' = "call"
     ELSE cpu' = [Swapgs(cpu) EXCEPT !.regs["rbx"] = <<0, "ebx", "">>] /\ pc' = "switch_cr3"
  /\ UNCHANGED scratch /\ KeepTrap

\* The macro interrupt, up to SWITCH_TO_KERNEL; from kernel mode it jumps to itself.
interrupt ==
  /\ At("entry") /\ apicinterrupt(sym)
  /\ stacks' = [stacks EXCEPT ![cpu.rsp.stack] =
                  SubSeq(@, 1, cpu.rsp.at) \o <<<<1, "~vector", "">>>> \o Saved(cpu.regs)]
  /\ LET c == [cpu EXCEPT !.rsp.at = @ + 16]
     IN  IF Slot(1)[1] # 3 THEN cpu' = c /\ pc' = "spin"
         ELSE cpu' = Swapgs(c) /\ pc' = "switch_cr3"
  /\ UNCHANGED scratch /\ KeepTrap

\* do_syscall_64, up to the call; rsp is the user's until sp0 is loaded.
do_syscall_64 ==
  \/ /\ At("entry") /\ sym = "do_syscall_64"
     /\ cpu' = Swapgs(cpu) /\ pc' = "syscall_stack"
     /\ UNCHANGED <<stacks, scratch>> /\ KeepTrap
  \/ /\ At("syscall_stack")
     /\ scratch' = [scratch EXCEPT !.rsp = IF PerCpu THEN RspWord(cpu.rsp) ELSE @]
     /\ LET c == [cpu EXCEPT !.rsp = [stack |-> "cpu", at |-> 0, map |-> "shared"]]
            R(r) == cpu.regs[r]
        IN  Push(c, <<<<3, "ss", "">>, scratch'.rsp, R("r11"), <<3, "cs", "">>, R("rcx"), R("rax"),
                      R("rdi"), R("rsi"), R("rdx"), R("rcx"), <<-1, "ENOSYS", "">>,
                      R("r8"), R("r9"), R("r10"), R("r11")>> \o [i \in 1 .. 6 |-> Junk])
     /\ pc' \in {"switch_cr3", "syscall_restore"}   \* the number is below NR_syscalls, or not
     /\ KeepTrap

Scratch == IF sym = "do_syscall_64" THEN "rcx" ELSE "rdi"

\* SWITCH_TO_KERNEL, one step for each of cr3, rip and rsp.
SWITCH_TO_KERNEL ==
  \/ /\ At("switch_cr3")
     /\ scratch' = [scratch EXCEPT !.cr3 = IF PerCpu THEN cpu.cr3 ELSE @]
     /\ cpu' = [cpu EXCEPT !.cr3 = "kpml4", !.regs[Scratch] = Junk]
     /\ pc' = "switch_rip"
     /\ UNCHANGED stacks /\ KeepTrap
  \/ /\ At("switch_rip")
     /\ cpu' = [cpu EXCEPT !.rip = "identity"]
     /\ pc' = "switch_rsp"
     /\ UNCHANGED <<stacks, scratch>> /\ KeepTrap
  \/ /\ At("switch_rsp")
     /\ LET c == [cpu EXCEPT !.rsp.map = "identity"]
        IN  cpu' = IF apicinterrupt(sym) \/ sym = "do_syscall_64" THEN c ELSE Ret(c)
     /\ pc' = "call"
     /\ UNCHANGED <<stacks, scratch>> /\ KeepTrap

\* The arguments, ALIGN_STACK_PUSH, the call, and the registers a C function keeps.
CalledWith ==
  [cpu.regs EXCEPT !["rdi"] = RspWord(cpu.rsp),
                   !["rsi"] = IF has_error_code(sym) THEN Slot(ORIG_RAX) ELSE <<0, "zero", "">>]
Call ==
  /\ At("call")
  /\ LET regs == IF sym = "do_syscall_64" THEN [cpu.regs EXCEPT !["rcx"] = cpu.regs["r10"]] ELSE CalledWith
         top == IF has_error_code(sym)
                THEN [Stack EXCEPT ![Len(Stack) - ORIG_RAX] = MinusOne] ELSE Stack
     IN  /\ stacks' = [stacks EXCEPT ![cpu.rsp.stack] =
                         top \o <<RspWord(cpu.rsp), <<2, "return", cpu.rip>>>>
                             \o [i \in 1 .. 6 |-> cpu.regs[ExtraRegs[i]]]]
         /\ cpu' = [cpu EXCEPT !.rsp.at = @ + 8, !.regs = regs]
  /\ pc' = "c"
  /\ UNCHANGED scratch /\ KeepTrap

-----------------------------------------------------------------------------
(***************************************************************************)
(* C handlers.                                                             *)
(***************************************************************************)
Handling == At("c") /\ frames # <<>>

\* smp_apic_timer_interrupt and smp_error_interrupt end with apic_eoi.
Eoi == IF sym \in {"apic_timer_interrupt", "error_interrupt"} THEN FALSE ELSE inService

\* The handler returns.  The exception handlers are weak: another one may return.  A double fault
\* does not return, and smp_spurious_interrupt is a BUG_ON.
HandlerReturns ==
  /\ Handling /\ sym \notin {"double_fault", "spurious_interrupt"}
  /\ LET kept == [r \in Regs |-> IF \E i \in 1 .. 6 : ExtraRegs[i] = r
                                 THEN Slot(OffsetOf("rbx") - OffsetOf(r)) ELSE Junk]
     IN  cpu' = [cpu EXCEPT !.rsp = RspOf(Slot(7)), !.rip = Slot(6)[3],
                            !.regs = [kept EXCEPT !["rax"] = <<Len(frames), "result", "">>]]
  /\ inService' = Eoi
  /\ pc' = CASE sym = "do_syscall_64" -> "syscall_exit"
             [] apicinterrupt(sym) -> "retint_user"
             [] OTHER -> "error_exit"
  /\ UNCHANGED <<stacks, scratch, sym, frames>>

\* do_trap, smp_spurious_interrupt: die().
HandlerDies ==
  /\ Handling /\ sym \notin {"do_syscall_64", "apic_timer_interrupt", "error_interrupt",
                             "spurious_interrupt_bug"}
  /\ pc' = "dead"
  /\ UNCHANGED <<cpu, stacks, scratch>> /\ KeepTrap

-----------------------------------------------------------------------------
\* Mutant of error_exit: the flag is not looked at.
error_exit_Kernel ==
  /\ At("error_exit")
  /\ pc' = "retint_kernel"
  /\ UNCHANGED <<cpu, stacks, scratch>> /\ KeepTrap

error_exit ==
  /\ At("error_exit")
  /\ pc' = IF cpu.regs["rbx"] # <<0, "ebx", "">> THEN "retint_kernel" ELSE "retint_user"
  /\ UNCHANGED <<cpu, stacks, scratch>> /\ KeepTrap

\* movq %rax, RAX(%rsp) after the call of a system call.
syscall_exit ==
  /\ At("syscall_exit")
  /\ stacks' = [stacks EXCEPT !["cpu"] = [Stack EXCEPT ![Len(Stack) - OffsetOf("rax")] = cpu.regs["rax"]]]
  /\ pc' = "retint_user"
  /\ UNCHANGED <<cpu, scratch>> /\ KeepTrap

\* Mutant of SWITCH_TO_USER: cr3 is restored before rip moves to the shared mapping.
SWITCH_TO_USER_Cr3First ==
  \/ /\ At("retint_user")
     /\ cpu' = [cpu EXCEPT !.rsp.map = "shared", !.cr3 = scratch.cr3, !.regs[Scratch] = Junk]
     /\ pc' = "back_rip"
     /\ UNCHANGED <<stacks, scratch>> /\ KeepTrap
  \/ /\ At("back_rip")
     /\ cpu' = [cpu EXCEPT !.rip = "shared"]
     /\ pc' = IF sym = "do_syscall_64" THEN "syscall_restore" ELSE "swapgs_out"
     /\ UNCHANGED <<stacks, scratch>> /\ KeepTrap

\* SWITCH_TO_USER: rsp, rip, then cr3.
SWITCH_TO_USER ==
  \/ /\ At("retint_user")
     /\ cpu' = [cpu EXCEPT !.rsp.map = "shared", !.regs[Scratch] = Junk]
     /\ pc' = "back_rip"
     /\ UNCHANGED <<stacks, scratch>> /\ KeepTrap
  \/ /\ At("back_rip")
     /\ cpu' = [cpu EXCEPT !.rip = "shared"]
     /\ pc' = "back_cr3"
     /\ UNCHANGED <<stacks, scratch>> /\ KeepTrap
  \/ /\ At("back_cr3")
     /\ cpu' = [cpu EXCEPT !.cr3 = scratch.cr3]
     /\ pc' = IF sym = "do_syscall_64" THEN "syscall_restore" ELSE "swapgs_out"
     /\ UNCHANGED <<stacks, scratch>> /\ KeepTrap

swapgs_out ==
  /\ At("swapgs_out")
  /\ cpu' = Swapgs(cpu) /\ pc' = "retint_kernel"
  /\ UNCHANGED <<stacks, scratch>> /\ KeepTrap

\* POP_EXTRA_REGS, POP_C_REGS, skip orig_ax.
retint_kernel ==
  /\ At("retint_kernel")
  /\ cpu' = [Popped(cpu, 16) EXCEPT !.regs = [r \in Regs |-> Slot(OffsetOf(r))]]
  /\ pc' = "iretq"
  /\ UNCHANGED <<stacks, scratch>> /\ KeepTrap

\* The end of do_syscall_64; rcx and r11 come from the frame, the extra registers were kept.
syscall_restore ==
  /\ At("syscall_restore")
  /\ cpu' = [Swapgs(cpu) EXCEPT
               !.regs = [r \in Regs |->
                  CASE r = "rcx" -> Slot(RIP) [] r = "r11" -> Slot(RFLAGS)
                    [] r \in ToSet(ExtraRegs) -> cpu.regs[r] [] OTHER -> Slot(OffsetOf(r))],
               !.rsp = RspOf(scratch.rsp)]
  /\ pc' = "sysretq"
  /\ UNCHANGED <<stacks, scratch>> /\ KeepTrap

\* user_init: a frame built on the boot stack, its address and upml4 passed to return_to_usermode.
return_to_usermode ==
  /\ Booting("user")
  /\ boot' = "done"
  /\ stacks' = [stacks EXCEPT !["cpu"] =
       <<<<3, "ss", "">>, <<0, "user", "user">>, FlagsOf(0, TRUE), <<3, "cs", "">>, <<0, "rip", "user">>,
         <<0, "zero", "">>>> \o Saved(OwnRegs)]
  /\ cpu' = [cpu EXCEPT !.rsp.at = 21]
  /\ scratch' = [scratch EXCEPT !.cr3 = "upml4"]
  /\ pc' = "retint_user"
  /\ UNCHANGED <<entry, idt_table, system_vectors, msr>> /\ KeepTrap

-----------------------------------------------------------------------------
BootStep ==
  \/ \E step \in {"traps", "ist", "apic"} : idt_setup_from_table(step)
  \/ idt_setup_traps \/ idt_setup_ist_traps \/ idt_setup_apic_and_irq_gates
  \/ trap_init \/ syscall_init \/ return_to_usermode

EntryStep ==
  \/ idtentry \/ error_entry \/ interrupt \/ do_syscall_64 \/ SWITCH_TO_KERNEL \/ Call
  \/ HandlerReturns \/ HandlerDies
  \/ error_exit \/ syscall_exit \/ SWITCH_TO_USER \/ swapgs_out \/ retint_kernel \/ Iretq
  \/ syscall_restore \/ Sysretq

Event ==
  \/ \E v \in Vectors : Exception(v) \/ SoftwareInterrupt(v) \/ Interrupt(v)
  \/ Syscall

TrapNext == BootStep \/ EntryStep \/ Event

-----------------------------------------------------------------------------
(***************************************************************************)
(* Properties.                                                             *)
(***************************************************************************)

\* The code of entry.S is mapped at every step, whichever page table is in
\* use: under the user's page table it runs, pushes and reaches the per-CPU
\* variables through the shared mapping (calling.h: SWITCH_TO_KERNEL and
\* SWITCH_TO_USER change cr3, rip and rsp in opposite orders).
EntryStaysMapped ==
  /\ (cpu.cpl = 0 /\ cpu.cr3 = "upml4") =>
       /\ cpu.rip = "shared"
       /\ \/ cpu.rsp.map = "shared"
          \/ pc \in {"syscall_stack", "sysretq"}
          \/ pc = "entry" /\ sym = "do_syscall_64"
  /\ pc \in {"syscall_stack", "switch_cr3", "back_cr3", "syscall_restore"} => PerCpu

\* A C handler runs with the kernel's page table and per-CPU base, at its
\* identity address and with interrupts off, and its pt_regs holds the
\* registers, flags, stack and place of the code that was interrupted, with
\* the error code passed beside it (entry.S: idtentry, error_entry).
HandlerSeesContext ==
  (pc = "c" /\ frames # <<>> /\ sym # "do_syscall_64") =>
    LET was == Last(frames).cpu
        arg == RspOf(cpu.regs["rdi"])
        frame(n) == stacks[arg.stack][arg.at - n]
    IN  /\ cpu.cr3 = "kpml4" /\ cpu.rip = "identity" /\ ~cpu.if
        /\ cpu.gs \in IF boot \in {"syscall", "user", "done"} THEN {"shared"} ELSE {"identity"}
        /\ \A r \in Regs : frame(OffsetOf(r)) = was.regs[r]
        /\ frame(RIP) = <<Len(frames) - 1, "rip", was.rip>>
        /\ frame(CS)[1] = was.cpl /\ frame(RSP) = RspWord(was.rsp)
        /\ has_error_code(sym) => cpu.regs["rsi"] = Last(frames).event.error
        /\ sym = "double_fault" /\ boot \notin {"traps", "ist"} => cpu.rsp.stack = "ist"

\* A return from a trap or an interrupt gives the interrupted code back
\* everything it had, the address space and both gs bases included, however
\* deeply traps nested (entry.S:241-260; cr3_scratch has one slot per CPU).
ReturnResumes ==
  (pc = "iretq" /\ frames # <<>>) => Returned = Last(frames).cpu

\* A system call returns to the instruction after it with the user's stack,
\* address space, gs base and flags, and changes only rax, rcx and r11
\* (entry.S:52-111).
SyscallResumes ==
  pc = "sysretq" =>
    LET was == Last(frames).cpu
    IN  SysretTo = [was EXCEPT !.regs = [r \in Regs |->
                      IF r \in {"rax", "rcx", "r11"} THEN cpu.regs[r] ELSE @[r]]]

\* No interrupt arrives in kernel mode, where the entry code would jump to
\* itself forever (entry.S:128-130, "this should never happen").
NeverSpins == pc # "spin"

\* Once trap_init is through, no vector an interrupt can use is without a
\* gate, and the loop that fills the rest has overwritten no gate of the
\* tables (idt.c: idt_setup_apic_and_irq_gates).
GatesAreComplete ==
  boot \in {"msrs", "syscall", "user", "done"} =>
    /\ \A v \in FIRST_EXTERNAL_VECTOR .. (NR_VECTORS - 1) : idt_table[v].present
    /\ \A i \in DOMAIN apic_idts : idt_table[apic_idts[i][1]] = apic_idts[i][2]
    /\ \A v \in 0 .. (FIRST_EXTERNAL_VECTOR - 1) :
         idt_table[v].present <=> \E i \in DOMAIN def_idts : def_idts[i][1] = v

\* When user code runs again after an interrupt, the local APIC waits for no
\* EOI, so the next interrupt can be delivered (idt.c: apic_eoi).
EoiBeforeReturn == pc = "user" => ~inService

\* Every way out of entry.S, iretq or sysretq, leads back to the code that
\* was left, with all it had.
ReturnsResume == ReturnResumes /\ SyscallResumes

\* An interrupt is served: it finds a gate, is not caught in the endless loop
\* of entry.S, and is acknowledged before user code runs again.
InterruptsAreServed == GatesAreComplete /\ NeverSpins /\ EoiBeforeReturn
=============================================================================
