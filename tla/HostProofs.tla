----------------------------- MODULE HostProofs -----------------------------
(***************************************************************************)
(* Proofs about Host.  For every number of vectors, every width of the     *)
(* bitmap's words and every depth of nesting, a trap, an interrupt and a   *)
(* system call find their way through entry.S and back.  For every         *)
(* message and every size of the line buffer, the consoles put out every   *)
(* line of printk whole, and a trap that interrupts it does not mix in.    *)
(* For every size of the screen, every text and every cursor it was taken  *)
(* over with, the screen shows the end of the text, the cursor behind it.  *)
(***************************************************************************)
EXTENDS Host, TLAPS, WellFoundedInduction, SequenceTheorems

-----------------------------------------------------------------------------
(***************************************************************************)
(* Types.                                                                  *)
(***************************************************************************)
Maps == {"", "if", "identity", "shared", "user"}
StackNames == {"cpu", "ist", "user"}
Names == Regs \cup StackNames \cup
  {"junk", "-1", "flags", "ss", "cs", "rip", "error", "gate", "1f", "~vector", "ENOSYS", "return",
   "ebx", "zero", "result"}
Words == Int \X Names \X Maps

RspType == [stack : StackNames, at : Nat, map : Maps]
Bases == {"identity", "shared", "user"}

CpuType ==
  [cpl : {0, 3}, cr3 : {"kpml4", "upml4"}, gs : Bases, kgs : Bases, rip : Maps, rsp : RspType,
   if : BOOLEAN, regs : [Regs -> Words]]

ExceptionSyms == {def_idts[i][2].addr : i \in 1 .. 16}
ApicSyms == {"apic_timer_interrupt", "error_interrupt", "spurious_interrupt"}
Syms == ExceptionSyms \cup ApicSyms \cup {"do_syscall_64", ""}

EventType == [vector : Int, error : Words]

FrameType == [cpu : CpuType, sym : Syms, event : EventType]

Pcs == {"user", "c", "dead", "entry", "error_entry", "syscall_stack", "switch_cr3", "switch_rip",
        "switch_rsp", "call", "error_exit", "syscall_exit", "retint_user", "back_rip", "back_cr3",
        "swapgs_out", "syscall_restore", "retint_kernel", "iretq", "sysretq"}

TrapTypeOK ==
  /\ cpu \in CpuType
  /\ stacks \in [{"cpu", "ist"} -> Seq(Words)]
  /\ scratch \in [cr3 : {"", "kpml4", "upml4"}, rsp : Words]
  /\ pc \in Pcs
  /\ sym \in Syms
  /\ frames \in Seq(FrameType)
  /\ inService \in BOOLEAN

-----------------------------------------------------------------------------
(***************************************************************************)
(* The gates.                                                              *)
(***************************************************************************)
Boots == {"traps", "ist", "apic", "irq", "msrs", "syscall", "user", "done"}
AllVectors == 0 .. (NR_VECTORS - 1)

GateType == [present : BOOLEAN, addr : Syms, ist : Int, dpl : Int]

\* What a gate that is present leads to.
GateFits(v, gate) ==
  IF v < FIRST_EXTERNAL_VECTOR
  THEN /\ gate.addr \in ExceptionSyms
       /\ has_error_code(gate.addr) <=> v \in PushesError
       /\ gate.addr = "double_fault" => v = X86_TRAP_DF
       /\ gate.ist # 0 => v = X86_TRAP_DF /\ gate.addr = "double_fault"
  ELSE /\ gate.addr \in ApicSyms /\ gate.ist = 0 /\ gate.dpl = 0

\* Entries 1 .. n of a table are installed.
Installed(table, n) == \A i \in 1 .. n : idt_table[table[i][1]] = table[i][2]

ExceptionVectors == {def_idts[i][1] : i \in 1 .. 16}

GateInv ==
  /\ boot \in Boots /\ entry \in Nat
  /\ idt_table \in [AllVectors -> GateType]
  /\ system_vectors = {v \in AllVectors : idt_table[v].present}
  /\ \A v \in AllVectors : idt_table[v].present => GateFits(v, idt_table[v])
  /\ \A v \in AllVectors : v < FIRST_EXTERNAL_VECTOR /\ idt_table[v].present => v \in ExceptionVectors
  /\ boot = "traps" => entry \in 1 .. 17 /\ \A i \in 1 .. (entry - 1) : idt_table[def_idts[i][1]].present
  /\ boot # "traps" => \A v \in ExceptionVectors : idt_table[v].present
  /\ boot = "ist" => entry \in 1 .. 2 /\ (entry = 2 => idt_table[X86_TRAP_DF].ist = 1)
  /\ boot \notin {"traps", "ist"} => idt_table[X86_TRAP_DF].ist = 1
  /\ boot = "apic" => entry \in 1 .. 4 /\ Installed(apic_idts, entry - 1)
  /\ boot \notin {"traps", "ist", "apic"} => Installed(apic_idts, 3)
  /\ boot = "irq" => /\ entry \in FIRST_EXTERNAL_VECTOR .. NR_VECTORS
                     /\ \A v \in FIRST_EXTERNAL_VECTOR .. (entry - 1) : idt_table[v].present
                     /\ entry < NR_VECTORS => ~idt_table[entry].present
  /\ boot \in {"msrs", "syscall", "user", "done"} =>
       \A v \in FIRST_EXTERNAL_VECTOR .. (NR_VECTORS - 1) : idt_table[v].present
  /\ msr.LSTAR => "IF" \in msr.clears

-----------------------------------------------------------------------------
(***************************************************************************)
(* Words on a stack S.  A frame is named by the place F of its R15.        *)
(***************************************************************************)
\* The five words the processor pushed for the context was, the place last at T.
HardwareFrame(S, T, stack, was, n) ==
  /\ T >= 5 /\ T <= Len(S)
  /\ was.rsp.stack = stack => was.rsp.at + 5 <= T
  /\ S[T] = <<n, "rip", was.rip>> /\ S[T - 1] = <<was.cpl, "cs", "">>
  /\ S[T - 2] = FlagsOf(n, was.if) /\ S[T - 3] = RspWord(was.rsp)

Frame(S, F, stack, was, n) ==
  /\ F <= Len(S)
  /\ HardwareFrame(S, F - RIP, stack, was, n)
  /\ \A r \in Regs : S[F - OffsetOf(r)] = was.regs[r]

\* The registers do_syscall_64 leaves to its frame.
FrameRegs == {"r10", "r9", "r8", "rdx", "rsi", "rdi"}

SyscallFrame(S, F, was, n) ==
  /\ F >= 21 /\ F <= Len(S)
  /\ S[F - RIP] = <<n, "rip", was.rip>> /\ S[F - RFLAGS] = FlagsOf(n, was.if)
  /\ \A r \in FrameRegs : S[F - OffsetOf(r)] = was.regs[r]

KeepsExtra(regs, was) == \A i \in 1 .. 6 : regs[ExtraRegs[i]] = was.regs[ExtraRegs[i]]

\* ebx, as error_entry sets it.
EbxOf(was) == <<IF was.cpl = 3 THEN 0 ELSE 1, "ebx", "">>

\* The stack of the C handler of s that runs as c, called for the context was.
Handles(S, c, s, was, event, n) ==
  LET F == c.rsp.at - 8
  IN  /\ c.rsp.at <= Len(S)
      /\ S[F + 1] = <<F, c.rsp.stack, c.rsp.map>> /\ S[F + 2] = <<2, "return", "identity">>
      /\ IF s = "do_syscall_64"
         THEN /\ SyscallFrame(S, F, was, n)
              /\ \A i \in 1 .. 6 : S[F + 2 + i] = was.regs[ExtraRegs[i]]
         ELSE /\ Frame(S, F, c.rsp.stack, was, n)
              /\ c.regs["rdi"] = <<F, c.rsp.stack, c.rsp.map>>
              /\ has_error_code(s) => c.regs["rsi"] = event.error
              /\ ~apicinterrupt(s) => S[F + 8] = EbxOf(was)

-----------------------------------------------------------------------------
(***************************************************************************)
(* Contexts.                                                               *)
(***************************************************************************)
KernelGs(b) == IF b \in {"syscall", "user", "done"} THEN "shared" ELSE "identity"

UserRsp == [stack |-> "user", at |-> 0, map |-> "user"]

UserContext(c) ==
  /\ c.cpl = 3 /\ c.cr3 = "upml4" /\ c.gs = "user" /\ c.kgs = "shared" /\ c.rip = "user"
  /\ c.rsp = UserRsp /\ c.if = TRUE

\* Kernel code at its identity address, with the kernel's page table.
KernelContext(c, b) ==
  /\ c.cpl = 0 /\ c.cr3 = "kpml4" /\ c.gs = KernelGs(b) /\ c.kgs = "user" /\ c.rip = "identity"
  /\ c.if = FALSE /\ c.rsp.stack \in {"cpu", "ist"}

BootContext(c, b) ==
  /\ KernelContext(c, b) /\ b # "done"
  /\ c.rsp = [stack |-> "cpu", at |-> 0, map |-> "identity"]

\* The entry point s, taken from the context was, works on a stack.
Entered(s, was, stack, b) ==
  /\ s \in ExceptionSyms \cup ApicSyms \cup {"do_syscall_64"}
  /\ s \in ApicSyms \cup {"do_syscall_64"} => was.cpl = 3
  /\ s = "double_fault" /\ b \notin {"traps", "ist"} => stack = "ist"
  /\ stack # was.rsp.stack => was.cpl = 3 \/ s = "double_fault"
  /\ was.rsp.stack = "ist" => stack = "ist"
  /\ was.cpl = 3 => b = "done"
  /\ s = "do_syscall_64" => stack # "ist"

\* The contexts interrupted.
ChainInv ==
  /\ frames # <<>> => /\ frames[1].sym = ""
                      /\ IF boot = "done" THEN UserContext(frames[1].cpu) ELSE BootContext(frames[1].cpu, boot)
  /\ \A n \in 2 .. Len(frames) :
       /\ KernelContext(frames[n].cpu, boot)
       /\ Entered(frames[n].sym, frames[n - 1].cpu, frames[n].cpu.rsp.stack, boot)
       /\ frames[n].cpu.rsp.stack = cpu.rsp.stack =>
            Handles(stacks[cpu.rsp.stack], frames[n].cpu, frames[n].sym, frames[n - 1].cpu,
                    frames[n - 1].event, n - 2)
  /\ \A m \in 1 .. Len(frames) : \A n \in 1 .. m :
       /\ frames[n].cpu.rsp.stack = frames[m].cpu.rsp.stack => frames[n].cpu.rsp.at <= frames[m].cpu.rsp.at
       /\ frames[n].cpu.rsp.stack = "ist" => frames[m].cpu.rsp.stack = "ist"

\* The context to return to; user_init returns to one that never ran.
FirstUser ==
  [cpl |-> 3, cr3 |-> "upml4", gs |-> "user", kgs |-> "shared", rip |-> "user", rsp |-> UserRsp,
   if |-> TRUE, regs |-> OwnRegs]
Was == IF frames = <<>> THEN FirstUser ELSE frames[Len(frames)].cpu
Of == IF frames = <<>> THEN [vector |-> 0, error |-> Junk] ELSE frames[Len(frames)].event
Level == IF frames = <<>> THEN 0 ELSE Len(frames) - 1

-----------------------------------------------------------------------------
(***************************************************************************)
(* The place reached in entry.S.                                           *)
(***************************************************************************)
\* How cr3, the gs bases, rip and the mapping of rsp stand.
Stands(cr3, gs, kgs, rip) ==
  cpu.cpl = 0 /\ cpu.if = FALSE /\ cpu.cr3 = cr3 /\ cpu.gs = gs /\ cpu.kgs = kgs /\ cpu.rip = rip

\* The pt_regs at F, complete.
PtRegs(F) ==
  IF sym = "do_syscall_64" THEN cpu.rsp.stack = "cpu" /\ SyscallFrame(stacks["cpu"], F, Was, Level)
  ELSE Frame(stacks[cpu.rsp.stack], F, cpu.rsp.stack, Was, Level)

\* The registers the code still needs.
LiveRegs ==
  /\ sym = "do_syscall_64" => KeepsExtra(cpu.regs, Was)
  /\ sym \in ExceptionSyms => cpu.regs["rbx"] = EbxOf(Was)

ErrorAt(x) == has_error_code(sym) => stacks[cpu.rsp.stack][x] = Of.error

\* SWITCH_TO_KERNEL has the return address of error_entry on top in an exception.
SwitchPtRegs ==
  IF sym \in ExceptionSyms
  THEN /\ PtRegs(cpu.rsp.at - 1) /\ ErrorAt(cpu.rsp.at - 16) /\ cpu.rsp.at <= Len(stacks[cpu.rsp.stack])
       /\ stacks[cpu.rsp.stack][cpu.rsp.at] = <<1, "1f", "identity">>
  ELSE PtRegs(cpu.rsp.at)

OnKernelStack == cpu.rsp.stack \in {"cpu", "ist"}
InTrap == frames # <<>> /\ Entered(sym, Was, cpu.rsp.stack, boot)
Leaving == IF frames = <<>> THEN sym = "" /\ boot = "done" ELSE InTrap

\* The registers at the system call: SYSCALL has put rip and the flags into rcx and r11.
SyscallRegs == [Was.regs EXCEPT !["rcx"] = <<Level, "rip", Was.rip>>, !["r11"] = FlagsOf(Level, Was.if)]

AtUser == frames = <<>> /\ sym = "" /\ boot = "done" /\ UserContext(cpu)

AtSyscall == sym = "do_syscall_64" /\ cpu.rsp = Was.rsp /\ cpu.regs = SyscallRegs

AtGate ==
  LET E == IF has_error_code(sym) THEN 1 ELSE 0
  IN  /\ sym # "do_syscall_64" /\ OnKernelStack
      /\ cpu.regs = Was.regs /\ (Was.cpl = 3 => cpu.rsp.map = "shared")
      /\ HardwareFrame(stacks[cpu.rsp.stack], cpu.rsp.at - E, cpu.rsp.stack, Was, Level)
      /\ cpu.rsp.at <= Len(stacks[cpu.rsp.stack]) /\ ErrorAt(cpu.rsp.at)

AtEntry == InTrap /\ Stands(Was.cr3, Was.gs, Was.kgs, "shared") /\ (AtSyscall \/ AtGate)

AtErrorEntry ==
  /\ InTrap /\ Stands(Was.cr3, Was.gs, Was.kgs, "shared") /\ sym \in ExceptionSyms /\ OnKernelStack
  /\ cpu.regs = Was.regs /\ (Was.cpl = 3 => cpu.rsp.map = "shared")
  /\ HardwareFrame(stacks[cpu.rsp.stack], cpu.rsp.at - 17, cpu.rsp.stack, Was, Level)
  /\ cpu.rsp.at <= Len(stacks[cpu.rsp.stack])
  /\ stacks[cpu.rsp.stack][cpu.rsp.at] = <<1, "1f", "identity">> /\ ErrorAt(cpu.rsp.at - 16)

AtSyscallStack == InTrap /\ Stands("upml4", "shared", "user", "shared") /\ AtSyscall

AtSwitch(cr3, rip) ==
  /\ InTrap /\ Was.cpl = 3 /\ Stands(cr3, "shared", "user", rip) /\ cpu.rsp.map = "shared"
  /\ OnKernelStack /\ SwitchPtRegs /\ LiveRegs

AtCall ==
  /\ InTrap /\ KernelContext(cpu, boot) /\ PtRegs(cpu.rsp.at) /\ LiveRegs
  /\ ErrorAt(cpu.rsp.at - ORIG_RAX)

AtC ==
  /\ KernelContext(cpu, boot)
  /\ IF frames = <<>> THEN sym = "" /\ BootContext(cpu, boot)
     ELSE InTrap /\ Handles(stacks[cpu.rsp.stack], cpu, sym, Was, Of, Level)

AtExit ==
  /\ InTrap /\ KernelContext(cpu, boot) /\ sym # "double_fault" /\ PtRegs(cpu.rsp.at) /\ LiveRegs

AtBack(cr3, rip) ==
  /\ Leaving /\ Was.cpl = 3 /\ sym # "double_fault" /\ OnKernelStack
  /\ Stands(cr3, "shared", "user", rip) /\ PtRegs(cpu.rsp.at)
  /\ sym = "do_syscall_64" => KeepsExtra(cpu.regs, Was)

AtRetint ==
  /\ Leaving /\ sym # "double_fault" /\ sym # "do_syscall_64" /\ OnKernelStack
  /\ Stands(Was.cr3, Was.gs, Was.kgs, IF Was.cpl = 3 THEN "shared" ELSE "identity")
  /\ Was.cpl = 3 => cpu.rsp.map = "shared"

AtSysretq ==
  /\ InTrap /\ Stands(Was.cr3, Was.gs, Was.kgs, "shared") /\ sym = "do_syscall_64" /\ cpu.rsp = Was.rsp
  /\ cpu.regs["rcx"] = <<Level, "rip", Was.rip>> /\ cpu.regs["r11"] = FlagsOf(Level, Was.if)
  /\ \A r \in Regs \ {"rax", "rcx", "r11"} : cpu.regs[r] = Was.regs[r]

PlaceInv ==
  /\ pc = "user" => AtUser
  /\ pc = "entry" => AtEntry
  /\ pc = "error_entry" => AtErrorEntry
  /\ pc = "syscall_stack" => AtSyscallStack
  /\ pc = "switch_cr3" => AtSwitch("upml4", "shared")
  /\ pc = "switch_rip" => AtSwitch("kpml4", "shared")
  /\ pc = "switch_rsp" => AtSwitch("kpml4", "identity")
  /\ pc = "call" => AtCall
  /\ pc = "c" => AtC
  /\ pc = "dead" => cpu.cr3 = "kpml4"
  /\ pc = "error_exit" => AtExit /\ sym \in ExceptionSyms
  /\ pc = "syscall_exit" => AtExit /\ sym = "do_syscall_64"
  /\ pc = "retint_user" => AtBack("kpml4", "identity")
  /\ pc = "back_rip" => AtBack("kpml4", "identity") /\ cpu.rsp.map = "shared"
  /\ pc = "back_cr3" => AtBack("kpml4", "shared") /\ cpu.rsp.map = "shared"
  /\ pc = "swapgs_out" => AtBack("upml4", "shared") /\ cpu.rsp.map = "shared" /\ sym # "do_syscall_64"
  /\ pc = "syscall_restore" => AtBack("upml4", "shared") /\ cpu.rsp.map = "shared" /\ sym = "do_syscall_64"
  /\ pc = "retint_kernel" => AtRetint /\ PtRegs(cpu.rsp.at)
  /\ pc = "iretq" => /\ AtRetint /\ cpu.regs = Was.regs
                     /\ HardwareFrame(stacks[cpu.rsp.stack], cpu.rsp.at, cpu.rsp.stack, Was, Level)
  /\ pc = "sysretq" => AtSysretq

\* cr3_scratch has the user's page table, rsp_scratch the stack of the system call.
ScratchInv ==
  /\ boot = "done" => scratch.cr3 = "upml4"
  /\ sym = "do_syscall_64" /\ cpu.rsp.stack # "user" => scratch.rsp = RspWord(UserRsp)
  /\ \A n \in 2 .. Len(frames) : frames[n].sym = "do_syscall_64" => scratch.rsp = RspWord(UserRsp)

\* Who has to acknowledge the interrupt in service.
BeforeEoi == {"entry", "switch_cr3", "switch_rip", "switch_rsp", "call", "c", "dead"}
ServiceInv ==
  inService =>
    /\ frames # <<>>
    /\ IF Len(frames) = 1 THEN sym \in ApicSyms /\ pc \in BeforeEoi ELSE frames[2].sym \in ApicSyms

EntryInv == TrapTypeOK /\ ChainInv /\ PlaceInv /\ ScratchInv /\ ServiceInv

\* The inductive invariant.
TrapInv == GateInv /\ EntryInv

-----------------------------------------------------------------------------
(***************************************************************************)
(* Registers and entry points.                                             *)
(***************************************************************************)
LEMMA GpRegsAre ==
  /\ DOMAIN GpRegs = 1 .. 15
  /\ GpRegs[1] = "r15" /\ GpRegs[2] = "r14" /\ GpRegs[3] = "r13" /\ GpRegs[4] = "r12"
  /\ GpRegs[5] = "rbp" /\ GpRegs[6] = "rbx" /\ GpRegs[7] = "r11" /\ GpRegs[8] = "r10"
  /\ GpRegs[9] = "r9" /\ GpRegs[10] = "r8" /\ GpRegs[11] = "rax" /\ GpRegs[12] = "rcx"
  /\ GpRegs[13] = "rdx" /\ GpRegs[14] = "rsi" /\ GpRegs[15] = "rdi"
  /\ Regs = {"r15", "r14", "r13", "r12", "rbp", "rbx", "r11", "r10", "r9", "r8", "rax", "rcx",
             "rdx", "rsi", "rdi"}
<1> DEFINE U == {"r15", "r14", "r13", "r12", "rbp", "rbx", "r11", "r10", "r9", "r8", "rax", "rcx",
                "rdx", "rsi", "rdi"}
<1>1. ExtraRegs \in Seq(U) /\ CRegs \in Seq(U) /\ Len(ExtraRegs) = 6 /\ Len(CRegs) = 9
  BY DEF ExtraRegs, CRegs
<1> HIDE DEF U
<1>a. /\ GpRegs \in Seq(U) /\ Len(GpRegs) = Len(ExtraRegs) + Len(CRegs)
      /\ \A i \in 1 .. (Len(ExtraRegs) + Len(CRegs)) :
            GpRegs[i] = IF i <= Len(ExtraRegs) THEN ExtraRegs[i] ELSE CRegs[i - Len(ExtraRegs)]
  BY <1>1, ConcatProperties, Zenon DEF GpRegs
<1>2. GpRegs \in Seq(U) /\ Len(GpRegs) = 15
  BY <1>1, <1>a
<1>3. /\ \A i \in 1 .. 6 : GpRegs[i] = ExtraRegs[i]
      /\ \A i \in 7 .. 15 : GpRegs[i] = CRegs[i - 6]
  BY <1>1, <1>a
<1>4. /\ GpRegs[1] = "r15" /\ GpRegs[2] = "r14" /\ GpRegs[3] = "r13" /\ GpRegs[4] = "r12"
      /\ GpRegs[5] = "rbp" /\ GpRegs[6] = "rbx"
  BY <1>3 DEF ExtraRegs
<1>5. /\ GpRegs[7] = CRegs[1] /\ GpRegs[8] = CRegs[2] /\ GpRegs[9] = CRegs[3] /\ GpRegs[10] = CRegs[4]
      /\ GpRegs[11] = CRegs[5] /\ GpRegs[12] = CRegs[6] /\ GpRegs[13] = CRegs[7] /\ GpRegs[14] = CRegs[8]
      /\ GpRegs[15] = CRegs[9]
  BY <1>3
<1>6. /\ GpRegs[7] = "r11" /\ GpRegs[8] = "r10" /\ GpRegs[9] = "r9" /\ GpRegs[10] = "r8"
      /\ GpRegs[11] = "rax" /\ GpRegs[12] = "rcx" /\ GpRegs[13] = "rdx" /\ GpRegs[14] = "rsi"
      /\ GpRegs[15] = "rdi"
  BY <1>5 DEF CRegs
<1>7. DOMAIN GpRegs = 1 .. 15
  BY <1>2
<1>8. Regs = {GpRegs[i] : i \in 1 .. 15}
  BY <1>7, Zenon DEF Regs, ToSet
<1>9. \A i \in 1 .. 15 : i = 1 \/ i = 2 \/ i = 3 \/ i = 4 \/ i = 5 \/ i = 6 \/ i = 7 \/ i = 8 \/ i = 9
                      \/ i = 10 \/ i = 11 \/ i = 12 \/ i = 13 \/ i = 14 \/ i = 15
  OBVIOUS
<1>10. Regs = {"r15", "r14", "r13", "r12", "rbp", "rbx", "r11", "r10", "r9", "r8", "rax", "rcx",
               "rdx", "rsi", "rdi"}
  BY <1>4, <1>6, <1>8, <1>9
<1> QED BY <1>4, <1>6, <1>7, <1>10

\* Where a register lies in the frame.
LEMMA Offsets ==
  /\ OffsetOf("r15") = 0 /\ OffsetOf("r14") = 1 /\ OffsetOf("r13") = 2 /\ OffsetOf("r12") = 3
  /\ OffsetOf("rbp") = 4 /\ OffsetOf("rbx") = 5 /\ OffsetOf("r11") = 6 /\ OffsetOf("r10") = 7
  /\ OffsetOf("r9") = 8 /\ OffsetOf("r8") = 9 /\ OffsetOf("rax") = 10 /\ OffsetOf("rcx") = 11
  /\ OffsetOf("rdx") = 12 /\ OffsetOf("rsi") = 13 /\ OffsetOf("rdi") = 14
<1>1. DOMAIN GpRegs = 1 .. 15
  BY GpRegsAre
<1>2. ASSUME NEW k \in 1 .. 15
      PROVE  OffsetOf(GpRegs[k]) = k - 1
  BY GpRegsAre, <1>1 DEF OffsetOf
<1> QED BY <1>2, GpRegsAre

LEMMA OffsetFacts ==
  ASSUME NEW r \in Regs
  PROVE  OffsetOf(r) \in 0 .. 14 /\ GpRegs[OffsetOf(r) + 1] = r
BY GpRegsAre, Offsets

LEMMA ExtraRegsAre ==
  /\ ExtraRegs[1] = "r15" /\ ExtraRegs[2] = "r14" /\ ExtraRegs[3] = "r13" /\ ExtraRegs[4] = "r12"
  /\ ExtraRegs[5] = "rbp" /\ ExtraRegs[6] = "rbx"
  /\ \A i \in 1 .. 6 : /\ ExtraRegs[i] \in Regs /\ OffsetOf(ExtraRegs[i]) = i - 1
                       /\ ExtraRegs[i] \notin {"rcx", "r11", "rdi", "rsi", "rax"}
  /\ ToSet(ExtraRegs) = {"r15", "r14", "r13", "r12", "rbp", "rbx"}
<1>1. /\ ExtraRegs[1] = "r15" /\ ExtraRegs[2] = "r14" /\ ExtraRegs[3] = "r13" /\ ExtraRegs[4] = "r12"
      /\ ExtraRegs[5] = "rbp" /\ ExtraRegs[6] = "rbx" /\ DOMAIN ExtraRegs = 1 .. 6
  BY DEF ExtraRegs
<1>2. \A i \in 1 .. 6 : i = 1 \/ i = 2 \/ i = 3 \/ i = 4 \/ i = 5 \/ i = 6
  OBVIOUS
<1>3. ToSet(ExtraRegs) = {ExtraRegs[i] : i \in 1 .. 6}
  BY <1>1, Zenon DEF ToSet
<1>4. ToSet(ExtraRegs) = {"r15", "r14", "r13", "r12", "rbp", "rbx"}
  BY <1>1, <1>2, <1>3
<1>5. \A i \in 1 .. 6 : /\ ExtraRegs[i] \in Regs /\ OffsetOf(ExtraRegs[i]) = i - 1
                        /\ ExtraRegs[i] \notin {"rcx", "r11", "rdi", "rsi", "rax"}
  BY <1>1, <1>2, Offsets, GpRegsAre
<1> QED BY <1>1, <1>4, <1>5

LEMMA DefIdtsAre ==
  /\ Len(def_idts) = 16
  /\ ExceptionVectors = {0, 5, 6, 7, 9, 10, 11, 12, 13, 14, 15, 16, 17, 19, 8, 4}
  /\ ExceptionSyms = {"divide_error", "bounds", "invalid_op", "device_not_available",
       "coprocessor_segment_overrun", "invalid_TSS", "segment_not_present", "stack_segment",
       "general_protection", "page_fault", "spurious_interrupt_bug", "coprocessor_error",
       "alignment_check", "simd_coprocessor_error", "double_fault", "overflow"}
  /\ \A i \in 1 .. 16 : /\ def_idts[i][1] \in ExceptionVectors
                        /\ def_idts[i][2] \in GateType /\ def_idts[i][2].present
                        /\ def_idts[i][2].ist = 0
                        /\ has_error_code(def_idts[i][2].addr) <=> def_idts[i][1] \in PushesError
                        /\ def_idts[i][2].addr = "double_fault" => def_idts[i][1] = X86_TRAP_DF
                        /\ def_idts[i][2].addr \in ExceptionSyms
<1>1. \A i \in 1 .. 16 : i = 1 \/ i = 2 \/ i = 3 \/ i = 4 \/ i = 5 \/ i = 6 \/ i = 7 \/ i = 8 \/ i = 9
                      \/ i = 10 \/ i = 11 \/ i = 12 \/ i = 13 \/ i = 14 \/ i = 15 \/ i = 16
  OBVIOUS
<1>2. /\ def_idts[1] = <<0, Gate("divide_error", 0, 0)>> /\ def_idts[2] = <<5, Gate("bounds", 0, 0)>>
      /\ def_idts[3] = <<6, Gate("invalid_op", 0, 0)>> /\ def_idts[4] = <<7, Gate("device_not_available", 0, 0)>>
      /\ def_idts[5] = <<9, Gate("coprocessor_segment_overrun", 0, 0)>>
      /\ def_idts[6] = <<10, Gate("invalid_TSS", 0, 0)>> /\ def_idts[7] = <<11, Gate("segment_not_present", 0, 0)>>
      /\ def_idts[8] = <<12, Gate("stack_segment", 0, 0)>> /\ def_idts[9] = <<13, Gate("general_protection", 0, 0)>>
      /\ def_idts[10] = <<14, Gate("page_fault", 0, 0)>> /\ def_idts[11] = <<15, Gate("spurious_interrupt_bug", 0, 0)>>
      /\ def_idts[12] = <<16, Gate("coprocessor_error", 0, 0)>> /\ def_idts[13] = <<17, Gate("alignment_check", 0, 0)>>
      /\ def_idts[14] = <<19, Gate("simd_coprocessor_error", 0, 0)>>
      /\ def_idts[15] = <<8, Gate("double_fault", 0, 0)>> /\ def_idts[16] = <<4, Gate("overflow", 0, 3)>>
      /\ Len(def_idts) = 16
  BY DEF def_idts, INTG, SYSG, X86_TRAP_DE, X86_TRAP_OF, X86_TRAP_UD, X86_TRAP_DF, X86_TRAP_NP, X86_TRAP_GP
<1>3. \A s \in Syms, d \in Int : /\ Gate(s, 0, d) \in GateType
                                 /\ Gate(s, 0, d).present = TRUE /\ Gate(s, 0, d).ist = 0
  BY DEF Gate, GateType
<1>4. /\ def_idts[1][1] = 0 /\ def_idts[2][1] = 5 /\ def_idts[3][1] = 6 /\ def_idts[4][1] = 7
      /\ def_idts[5][1] = 9 /\ def_idts[6][1] = 10 /\ def_idts[7][1] = 11 /\ def_idts[8][1] = 12
      /\ def_idts[9][1] = 13 /\ def_idts[10][1] = 14 /\ def_idts[11][1] = 15 /\ def_idts[12][1] = 16
      /\ def_idts[13][1] = 17 /\ def_idts[14][1] = 19 /\ def_idts[15][1] = 8 /\ def_idts[16][1] = 4
  BY <1>2
<1>5. /\ def_idts[1][2].addr = "divide_error" /\ def_idts[2][2].addr = "bounds"
      /\ def_idts[3][2].addr = "invalid_op" /\ def_idts[4][2].addr = "device_not_available"
      /\ def_idts[5][2].addr = "coprocessor_segment_overrun" /\ def_idts[6][2].addr = "invalid_TSS"
      /\ def_idts[7][2].addr = "segment_not_present" /\ def_idts[8][2].addr = "stack_segment"
      /\ def_idts[9][2].addr = "general_protection" /\ def_idts[10][2].addr = "page_fault"
      /\ def_idts[11][2].addr = "spurious_interrupt_bug" /\ def_idts[12][2].addr = "coprocessor_error"
      /\ def_idts[13][2].addr = "alignment_check" /\ def_idts[14][2].addr = "simd_coprocessor_error"
      /\ def_idts[15][2].addr = "double_fault" /\ def_idts[16][2].addr = "overflow"
  BY <1>2 DEF Gate
<1>7. ExceptionVectors = {0, 5, 6, 7, 9, 10, 11, 12, 13, 14, 15, 16, 17, 19, 8, 4}
  BY <1>1, <1>4 DEF ExceptionVectors
<1>8. ExceptionSyms = {"divide_error", "bounds", "invalid_op", "device_not_available",
       "coprocessor_segment_overrun", "invalid_TSS", "segment_not_present", "stack_segment",
       "general_protection", "page_fault", "spurious_interrupt_bug", "coprocessor_error",
       "alignment_check", "simd_coprocessor_error", "double_fault", "overflow"}
  BY <1>1, <1>5 DEF ExceptionSyms
<1>6. ASSUME NEW i \in 1 .. 16
      PROVE  def_idts[i][2] \in GateType /\ def_idts[i][2].present /\ def_idts[i][2].ist = 0
  <2>1. PICK d \in Int : def_idts[i][2] = Gate(def_idts[i][2].addr, 0, d)
    BY <1>1, <1>2, <1>5
  <2>2. def_idts[i][2].addr \in Syms
    BY Zenon DEF Syms, ExceptionSyms
  <2> QED BY <1>3, <2>1, <2>2
<1>9. \A i \in 1 .. 16 : has_error_code(def_idts[i][2].addr) <=> def_idts[i][1] \in PushesError
  BY <1>1, <1>4, <1>5 DEF has_error_code, PushesError
<1>10. \A i \in 1 .. 16 : /\ def_idts[i][2].addr = "double_fault" => def_idts[i][1] = X86_TRAP_DF
                          /\ def_idts[i][2].addr \in ExceptionSyms /\ def_idts[i][1] \in ExceptionVectors
  BY <1>1, <1>4, <1>5, <1>7, <1>8 DEF X86_TRAP_DF
<1> QED BY <1>2, <1>6, <1>7, <1>8, <1>9, <1>10

\* The kinds of entry points.
LEMMA SymFacts ==
  /\ "do_syscall_64" \notin ExceptionSyms \cup ApicSyms /\ "" \notin ExceptionSyms \cup ApicSyms
  /\ "double_fault" \in ExceptionSyms
  /\ \A s \in ExceptionSyms : ~apicinterrupt(s) /\ s \notin ApicSyms
  /\ \A s \in ApicSyms : apicinterrupt(s) /\ ~has_error_code(s) /\ s # "double_fault"
  /\ ~apicinterrupt("do_syscall_64") /\ ~has_error_code("do_syscall_64")
  /\ ~apicinterrupt("") /\ ~has_error_code("")
<1>1. \A s \in ExceptionSyms : ~apicinterrupt(s) /\ s \notin ApicSyms
  BY DefIdtsAre DEF ApicSyms, apicinterrupt
<1>2. \A s \in ApicSyms : apicinterrupt(s) /\ ~has_error_code(s) /\ s # "double_fault"
  BY DEF ApicSyms, apicinterrupt, has_error_code
<1>3. /\ "do_syscall_64" \notin ExceptionSyms \cup ApicSyms /\ "" \notin ExceptionSyms \cup ApicSyms
      /\ "double_fault" \in ExceptionSyms
  BY DefIdtsAre DEF ApicSyms
<1>4. /\ ~apicinterrupt("do_syscall_64") /\ ~has_error_code("do_syscall_64")
      /\ ~apicinterrupt("") /\ ~has_error_code("")
  BY DEF apicinterrupt, has_error_code
<1> QED BY <1>1, <1>2, <1>3, <1>4
-----------------------------------------------------------------------------
(***************************************************************************)
(* find_next_zero_bit                                                      *)
(***************************************************************************)
LEMMA LeastNatural ==
  ASSUME NEW T \in SUBSET Nat, T # {}
  PROVE  Min(T) \in T /\ \A y \in T : Min(T) <= y
<1> DEFINE less == {ss \in Nat \X Nat : ss[1] < ss[2]}
<1>1. IsWellFoundedOn(less, Nat)
  BY NatLessThanWellFounded, Zenon DEF OpToRel
<1> HIDE DEF less
<1>2. PICK x \in T : \A y \in T : ~(<<y, x>> \in less)
  BY <1>1, WFMin
<1>3. \A y \in T : ~(y < x)
  BY <1>2 DEF less
<1>4. \A y \in T : x <= y
  BY <1>3
<1> QED BY <1>4 DEF Min

LEMMA Division ==
  ASSUME NEW x \in Nat, NEW b \in Nat \ {0}
  PROVE  x \div b \in Nat /\ x % b \in 0 .. (b - 1) /\ x = (x \div b) * b + (x % b)
OBVIOUS

\* Numbers in base b are ordered as their pairs of digits.
LEMMA DigitsOrdered ==
  ASSUME NEW b \in Nat \ {0}, NEW p \in Nat, NEW q \in Nat, NEW k \in 0 .. (b - 1), NEW l \in 0 .. (b - 1)
  PROVE  /\ p < q => p * b + k < q * b + l
         /\ p = q => (p * b + k <= q * b + l <=> k <= l)
<1>1. ASSUME p < q PROVE p * b + k < q * b + l
  <2>1. PICK d \in Nat : q = p + 1 + d
    <3>1. q - p - 1 \in Nat /\ q = p + 1 + (q - p - 1)
      BY <1>1
    <3> QED BY <3>1
  <2>2. q * b = p * b + b + d * b
    BY <2>1
  <2>3. p * b \in Nat /\ q * b \in Nat /\ d * b \in Nat
    OBVIOUS
  <2>4. \A u, v, w \in Nat : v = u + b + w => u + k < v + l
    OBVIOUS
  <2> QED BY <2>2, <2>3, <2>4
<1>2. p * b \in Nat /\ \A u \in Nat : (u + k <= u + l <=> k <= l)
  OBVIOUS
<1> QED BY <1>1, <1>2

\* find_next_zero_bit returns the first clear bit from start on, or nbits.
LEMMA NextZeroBit ==
  ASSUME NEW addr, NEW nbits \in Nat, NEW start \in Nat, start <= nbits,
         NEW found, found = find_next_zero_bit(addr, nbits, start)
  PROVE  /\ found \in start .. nbits
         /\ \A v \in start .. (found - 1) : v \in addr
         /\ found < nbits => found \notin addr
<1> DEFINE B == BITS_PER_LONG
           first == start \div BITS_PER_LONG
           tmp(idx) == IF idx = first
                       THEN Fetched(addr, idx, TRUE) \cap BITMAP_FIRST_WORD_MASK(start)
                       ELSE Fetched(addr, idx, TRUE)
           hits == {idx \in first .. (nbits \div BITS_PER_LONG) : idx * BITS_PER_LONG < nbits /\ tmp(idx) # {}}
<1>1. found = IF start >= nbits \/ hits = {} THEN nbits
              ELSE Limited(Min(hits) * B + __ffs(tmp(Min(hits))), nbits)
  BY DEF find_next_zero_bit, _find_next_bit
<1>2. B \in Nat \ {0}
  BY LibBitsConstants
<1>3. first \in Nat /\ start % B \in 0 .. (B - 1) /\ start = first * B + (start % B)
  BY <1>2, Division
<1>4. \A idx : tmp(idx) \subseteq 0 .. (B - 1)
  BY DEF Fetched, AllOnes, Word
<1>5. ASSUME NEW idx \in Nat, idx >= first, NEW k \in 0 .. (B - 1)
      PROVE  k \in tmp(idx) <=> (idx * B + k \notin addr /\ idx * B + k >= start)
  <2>1. k \in Fetched(addr, idx, TRUE) <=> idx * B + k \notin addr
    BY DEF Fetched, AllOnes, Word
  <2>2. CASE idx = first
    <3>1. first * B + k >= start <=> k >= start % B
      <4>1. PICK s \in 0 .. (B - 1) : s = start % B
        BY <1>3
      <4>2. PICK f \in Nat : f = first * B
        BY <1>2, <1>3
      <4>3. start = f + s
        BY <1>3, <4>1, <4>2
      <4> QED BY <4>1, <4>2, <4>3
    <3>2. k \in BITMAP_FIRST_WORD_MASK(start) <=> k >= start % B
      BY DEF BITMAP_FIRST_WORD_MASK, AllOnes
    <3> QED BY <2>1, <2>2, <3>1, <3>2
  <2>3. CASE idx # first
    <3>1. idx * B + k > start
      <4>1. first < idx
        BY <1>3, <1>5, <2>3
      <4> HIDE DEF first
      <4>2. first * B + (start % B) < idx * B + k
        BY <1>2, <1>3, <4>1, DigitsOrdered
      <4>3. idx * B + k \in Nat
        BY <1>2
      <4> QED BY <1>3, <4>2, <4>3
    <3>2. k \in tmp(idx) <=> k \in Fetched(addr, idx, TRUE)
      BY <2>3
    <3>3. idx * B + k >= start
      <4>1. PICK u \in Nat : u = idx * B + k
        BY <1>2
      <4> QED BY <3>1, <4>1
    <3> HIDE DEF tmp
    <3> QED BY <2>1, <3>2, <3>3, Zenon
  <2> QED BY <2>2, <2>3
<1> HIDE DEF tmp
<1>6. ASSUME NEW v \in start .. (nbits - 1), v \notin addr
      PROVE  v \div B \in hits /\ v % B \in tmp(v \div B)
  <2>0. v \in Nat
    OBVIOUS
  <2>1. v \div B \in Nat /\ v % B \in 0 .. (B - 1) /\ v = (v \div B) * B + (v % B)
    BY <1>2, <2>0, Division
  <2>2. PICK q \in Nat, k \in 0 .. (B - 1) : q = v \div B /\ k = v % B /\ v = q * B + k
    BY <2>1
  <2>3. q >= first
    <3>1. CASE q < first
      <4> HIDE DEF first
      <4>1. q * B + k < first * B + (start % B)
        BY <1>2, <1>3, <3>1, DigitsOrdered
      <4> QED BY <1>3, <2>2, <4>1
    <3> QED BY <1>3, <3>1
  <2>4. k \in tmp(q)
    <3>1. q * B + k \notin addr /\ q * B + k >= start
      BY <1>6, <2>2
    <3> QED BY <1>5, <2>2, <2>3, <3>1
  <2>5. q * B < nbits
    <3>1. PICK u \in Nat : u = q * B
      BY <1>2
    <3> QED BY <2>2, <3>1
  <2>6. nbits \div B \in Nat /\ nbits % B \in 0 .. (B - 1) /\ nbits = (nbits \div B) * B + (nbits % B)
    BY <1>2, Division
  <2>7. q <= nbits \div B
    <3>1. PICK p \in Nat, j \in 0 .. (B - 1) : p = nbits \div B /\ nbits = p * B + j
      BY <2>6
    <3>2. CASE p < q
      <4>1. p * B + j < q * B + k
        BY <1>2, <3>2, DigitsOrdered
      <4> QED BY <2>2, <3>1, <4>1
    <3> QED BY <3>1, <3>2
  <2> QED BY <1>3, <2>2, <2>3, <2>4, <2>5, <2>6, <2>7
<1>7. CASE start >= nbits \/ hits = {}
  BY <1>1, <1>6, <1>7
<1>8. CASE ~(start >= nbits \/ hits = {})
  <2>1. hits \in SUBSET Nat /\ hits # {}
    <3>1. nbits \div B \in Nat
      BY <1>2
    <3> QED BY <1>3, <1>8, <3>1
  <2>a. Min(hits) \in hits /\ \A y \in hits : Min(hits) <= y
    BY <2>1, LeastNatural, Zenon
  <2>b. Min(hits) \in Nat /\ Min(hits) >= first /\ tmp(Min(hits)) # {}
    <3>1. PICK h \in hits : h = Min(hits)
      BY <2>a
    <3>2. h \in Nat /\ h >= first /\ tmp(h) # {}
      BY <1>3
    <3> QED BY <3>1, <3>2
  <2>2. PICK m \in Nat : m = Min(hits) /\ m \in hits /\ m >= first /\ tmp(m) # {} /\ \A y \in hits : m <= y
    BY <2>a, <2>b
  <2>3. tmp(m) \in SUBSET Nat
    BY <1>2, <1>4
  <2>4. PICK j \in 0 .. (B - 1) : j = Min(tmp(m)) /\ j \in tmp(m) /\ \A y \in tmp(m) : j <= y
    BY <1>4, <2>2, <2>3, LeastNatural
  <2>5. m * B + j \notin addr /\ m * B + j >= start /\ m * B + j \in Nat
    BY <1>2, <1>5, <2>2, <2>4
  <2>6. PICK f \in Nat : f = m * B + j
    BY <2>5
  <2>7. found = IF f < nbits THEN f ELSE nbits
    BY <1>1, <1>8, <2>2, <2>4, <2>6 DEF Limited, __ffs
  <2>8. ASSUME NEW v \in start .. (found - 1), v \notin addr
        PROVE  FALSE
    <3>1. v \in start .. (nbits - 1) /\ v < f
      BY <2>7, <2>8
    <3>2. v \div B \in hits /\ v % B \in tmp(v \div B)
      BY <1>6, <2>8, <3>1
    <3>0. v \in Nat
      OBVIOUS
    <3>3. v \div B \in Nat /\ v % B \in 0 .. (B - 1) /\ v = (v \div B) * B + (v % B)
      BY <1>2, <3>0, Division
    <3>4. PICK q \in Nat, k \in 0 .. (B - 1) : q = v \div B /\ k = v % B /\ v = q * B + k
      BY <3>3
    <3>5. q >= m
      BY <2>2, <3>2, <3>4
    <3>6. CASE q > m
      BY <1>2, <2>6, <3>1, <3>4, <3>6, DigitsOrdered
    <3>7. CASE q = m
      <4>1. j <= k
        BY <2>4, <3>2, <3>4, <3>7
      <4>2. m * B + j <= q * B + k
        BY <1>2, <3>7, <4>1, DigitsOrdered
      <4> QED BY <2>6, <3>1, <3>4, <4>2
    <3> QED BY <3>5, <3>6, <3>7
  <2> QED BY <2>5, <2>6, <2>7, <2>8
<1> QED BY <1>7, <1>8
-----------------------------------------------------------------------------
(***************************************************************************)
(* trap_init fills the table.                                              *)
(***************************************************************************)
LEMMA VectorFacts ==
  /\ NR_VECTORS \in Nat /\ FIRST_EXTERNAL_VECTOR \in Nat
  /\ FIRST_EXTERNAL_VECTOR >= 20 /\ FIRST_EXTERNAL_VECTOR < NR_VECTORS
  /\ LOCAL_TIMER_VECTOR \in FIRST_EXTERNAL_VECTOR .. (NR_VECTORS - 1)
  /\ ERROR_APIC_VECTOR \in FIRST_EXTERNAL_VECTOR .. (NR_VECTORS - 1)
  /\ SPURIOUS_APIC_VECTOR \in FIRST_EXTERNAL_VECTOR .. (NR_VECTORS - 1)
  /\ LOCAL_TIMER_VECTOR # ERROR_APIC_VECTOR /\ LOCAL_TIMER_VECTOR # SPURIOUS_APIC_VECTOR
  /\ ERROR_APIC_VECTOR # SPURIOUS_APIC_VECTOR
BY TrapConstants

LEMMA ExceptionsAreLow ==
  \A v \in ExceptionVectors : v \in AllVectors /\ v < FIRST_EXTERNAL_VECTOR
BY DefIdtsAre, VectorFacts DEF AllVectors

LEMMA ApicIdtsAre ==
  /\ Len(apic_idts) = 3
  /\ \A i \in 1 .. 3 : /\ apic_idts[i][1] \in AllVectors /\ apic_idts[i][1] >= FIRST_EXTERNAL_VECTOR
                       /\ apic_idts[i][2] \in GateType /\ apic_idts[i][2].present
                       /\ apic_idts[i][2].addr \in ApicSyms
                       /\ apic_idts[i][2].ist = 0 /\ apic_idts[i][2].dpl = 0
  /\ \A i, j \in 1 .. 3 : apic_idts[i][1] = apic_idts[j][1] => i = j
<1>1. /\ apic_idts[1] = <<LOCAL_TIMER_VECTOR, Gate("apic_timer_interrupt", 0, 0)>>
      /\ apic_idts[2] = <<SPURIOUS_APIC_VECTOR, Gate("spurious_interrupt", 0, 0)>>
      /\ apic_idts[3] = <<ERROR_APIC_VECTOR, Gate("error_interrupt", 0, 0)>>
      /\ Len(apic_idts) = 3
  BY DEF apic_idts, INTG
<1>2. \A i \in 1 .. 3 : i = 1 \/ i = 2 \/ i = 3
  OBVIOUS
<1>3. apic_idts[1][1] = LOCAL_TIMER_VECTOR /\ apic_idts[2][1] = SPURIOUS_APIC_VECTOR
      /\ apic_idts[3][1] = ERROR_APIC_VECTOR
  BY <1>1
<1>4. \A i, j \in 1 .. 3 : apic_idts[i][1] = apic_idts[j][1] => i = j
  BY <1>2, <1>3, VectorFacts
<1>5. \A i \in 1 .. 3 : apic_idts[i][1] \in AllVectors /\ apic_idts[i][1] >= FIRST_EXTERNAL_VECTOR
  BY <1>2, <1>3, VectorFacts DEF AllVectors
<1>6. \A s \in ApicSyms : /\ Gate(s, 0, 0) \in GateType /\ Gate(s, 0, 0).present = TRUE /\ Gate(s, 0, 0).addr = s
                          /\ Gate(s, 0, 0).ist = 0 /\ Gate(s, 0, 0).dpl = 0
  <2> SUFFICES ASSUME NEW s \in ApicSyms
               PROVE  /\ Gate(s, 0, 0) \in GateType /\ Gate(s, 0, 0).present = TRUE /\ Gate(s, 0, 0).addr = s
                      /\ Gate(s, 0, 0).ist = 0 /\ Gate(s, 0, 0).dpl = 0
    OBVIOUS
  <2>1. s \in Syms
    BY DEF Syms
  <2> QED BY <2>1 DEF Gate, GateType
<1>7. ASSUME NEW i \in 1 .. 3
      PROVE  \E s \in ApicSyms : apic_idts[i][2] = Gate(s, 0, 0)
  BY <1>1, <1>2 DEF ApicSyms
<1> QED BY <1>1, <1>4, <1>5, <1>6, <1>7

LEMMA IstIdtsAre ==
  /\ Len(ist_idts) = 1 /\ ist_idts[1][1] = X86_TRAP_DF
  /\ ist_idts[1][2] \in GateType /\ ist_idts[1][2].present
  /\ ist_idts[1][2].addr = "double_fault" /\ ist_idts[1][2].ist = 1
<1>1. Len(ist_idts) = 1 /\ ist_idts[1] = <<X86_TRAP_DF, Gate("double_fault", 1, 0)>>
  BY DEF ist_idts, ISTG
<1>2. "double_fault" \in Syms
  BY SymFacts DEF Syms
<1> QED BY <1>1, <1>2 DEF Gate, GateType

\* A gate is installed that leads where it should.
LEMMA InstallFacts ==
  ASSUME GateInv, NEW v \in AllVectors, NEW g \in GateType, g.present, GateFits(v, g),
         v < FIRST_EXTERNAL_VECTOR => v \in ExceptionVectors,
         idt_table' = [idt_table EXCEPT ![v] = g], system_vectors' = set_bit(v, system_vectors)
  PROVE  /\ idt_table' \in [AllVectors -> GateType]
         /\ idt_table'[v] = g
         /\ \A u \in AllVectors : u # v => idt_table'[u] = idt_table[u]
         /\ \A u \in AllVectors : idt_table[u].present => idt_table'[u].present
         /\ system_vectors' = {u \in AllVectors : idt_table'[u].present}
         /\ \A u \in AllVectors : idt_table'[u].present => GateFits(u, idt_table'[u])
         /\ \A u \in AllVectors : u < FIRST_EXTERNAL_VECTOR /\ idt_table'[u].present => u \in ExceptionVectors
<1>1. /\ idt_table \in [AllVectors -> GateType]
      /\ system_vectors = {u \in AllVectors : idt_table[u].present}
      /\ \A u \in AllVectors : idt_table[u].present => GateFits(u, idt_table[u])
      /\ \A u \in AllVectors : u < FIRST_EXTERNAL_VECTOR /\ idt_table[u].present => u \in ExceptionVectors
  BY DEF GateInv
<1>2. /\ idt_table' \in [AllVectors -> GateType] /\ idt_table'[v] = g
      /\ \A u \in AllVectors : u # v => idt_table'[u] = idt_table[u]
  BY <1>1
<1>3. \A u \in AllVectors : idt_table'[u].present <=> (u = v \/ idt_table[u].present)
  BY <1>1, <1>2
<1>4. system_vectors' = {u \in AllVectors : idt_table'[u].present}
  BY <1>1, <1>3 DEF set_bit
<1>5. ASSUME NEW u \in AllVectors, idt_table'[u].present
      PROVE  GateFits(u, idt_table'[u]) /\ (u < FIRST_EXTERNAL_VECTOR => u \in ExceptionVectors)
  <2>1. CASE u = v
    BY <1>2, <2>1
  <2>2. CASE u # v
    BY <1>1, <1>2, <1>3, <1>5, <2>2
  <2> QED BY <2>1, <2>2
<1> QED BY <1>2, <1>3, <1>4, <1>5

LEMMA TableStep ==
  ASSUME GateInv, NEW step \in {"traps", "ist", "apic"}, idt_setup_from_table(step)
  PROVE  GateInv'
<1>1. /\ boot = step /\ boot' = boot /\ entry \in Nat /\ entry' = entry + 1 /\ entry <= Len(Table(step))
      /\ msr' = msr
      /\ idt_table' = [idt_table EXCEPT ![Table(step)[entry][1]] = Table(step)[entry][2]]
      /\ system_vectors' = set_bit(Table(step)[entry][1], system_vectors)
  BY DEF idt_setup_from_table, Booting, GateInv
<1>2. CASE step = "traps"
  <2>1. Table(step) = def_idts
    BY <1>2 DEF Table
  <2>2. entry \in 1 .. 16
    BY <1>1, <1>2, <2>1, DefIdtsAre DEF GateInv
  <2>3. PICK v \in ExceptionVectors, g \in GateType : v = def_idts[entry][1] /\ g = def_idts[entry][2]
    BY <2>2, DefIdtsAre
  <2>4. v \in AllVectors /\ v < FIRST_EXTERNAL_VECTOR
    BY <2>3, ExceptionsAreLow
  <2>5. g.present /\ GateFits(v, g)
    BY <2>2, <2>3, <2>4, DefIdtsAre DEF GateFits
  <2>6. idt_table' = [idt_table EXCEPT ![v] = g] /\ system_vectors' = set_bit(v, system_vectors)
    BY <1>1, <2>1, <2>3
  <2>7. /\ idt_table' \in [AllVectors -> GateType] /\ idt_table'[v] = g
        /\ \A u \in AllVectors : idt_table[u].present => idt_table'[u].present
        /\ system_vectors' = {u \in AllVectors : idt_table'[u].present}
        /\ \A u \in AllVectors : idt_table'[u].present => GateFits(u, idt_table'[u])
        /\ \A u \in AllVectors : u < FIRST_EXTERNAL_VECTOR /\ idt_table'[u].present => u \in ExceptionVectors
    BY <2>3, <2>4, <2>5, <2>6, InstallFacts
  <2>8. \A i \in 1 .. (entry' - 1) : idt_table'[def_idts[i][1]].present
    <3>1. SUFFICES ASSUME NEW i \in 1 .. entry PROVE idt_table'[def_idts[i][1]].present
      BY <1>1
    <3>2. CASE i = entry
      BY <2>3, <2>5, <2>7, <3>2
    <3>3. CASE i # entry
      <4>1. i \in 1 .. (entry - 1) /\ i \in 1 .. 16
        BY <2>2, <3>3
      <4>2. idt_table[def_idts[i][1]].present
        BY <1>1, <1>2, <4>1 DEF GateInv
      <4>3. def_idts[i][1] \in AllVectors
        BY <4>1, DefIdtsAre, ExceptionsAreLow
      <4> QED BY <2>7, <4>2, <4>3
    <3> QED BY <3>2, <3>3
  <2> QED BY <1>1, <1>2, <2>2, <2>7, <2>8 DEF GateInv
<1>3. CASE step = "ist"
  <2>1. Table(step) = ist_idts
    BY <1>3 DEF Table
  <2>2. entry = 1
    BY <1>1, <1>3, <2>1, IstIdtsAre DEF GateInv
  <2>3. PICK v \in ExceptionVectors, g \in GateType : v = X86_TRAP_DF /\ v = ist_idts[1][1] /\ g = ist_idts[1][2]
    BY IstIdtsAre, DefIdtsAre DEF X86_TRAP_DF
  <2>4. v \in AllVectors /\ v < FIRST_EXTERNAL_VECTOR
    BY <2>3, ExceptionsAreLow
  <2>5. g.present /\ g.ist = 1 /\ GateFits(v, g)
    BY <2>3, IstIdtsAre, <2>4, SymFacts, Zenon DEF has_error_code, PushesError, X86_TRAP_DF,
       GateFits
  <2>6. idt_table' = [idt_table EXCEPT ![v] = g] /\ system_vectors' = set_bit(v, system_vectors)
    BY <1>1, <2>1, <2>2, <2>3
  <2>7. /\ idt_table' \in [AllVectors -> GateType] /\ idt_table'[v] = g
        /\ \A u \in AllVectors : idt_table[u].present => idt_table'[u].present
        /\ system_vectors' = {u \in AllVectors : idt_table'[u].present}
        /\ \A u \in AllVectors : idt_table'[u].present => GateFits(u, idt_table'[u])
        /\ \A u \in AllVectors : u < FIRST_EXTERNAL_VECTOR /\ idt_table'[u].present => u \in ExceptionVectors
    BY <2>3, <2>4, <2>5, <2>6, InstallFacts
  <2>8. \A u \in ExceptionVectors : idt_table'[u].present
    BY <1>1, <1>3, <2>7, ExceptionsAreLow DEF GateInv
  <2> QED BY <1>1, <1>3, <2>2, <2>3, <2>5, <2>7, <2>8 DEF GateInv
<1>4. CASE step = "apic"
  <2>1. Table(step) = apic_idts
    BY <1>4 DEF Table
  <2>2. entry \in 1 .. 3
    BY <1>1, <1>4, <2>1, ApicIdtsAre DEF GateInv
  <2>3. PICK v \in AllVectors, g \in GateType :
          /\ v = apic_idts[entry][1] /\ g = apic_idts[entry][2] /\ v >= FIRST_EXTERNAL_VECTOR
          /\ g.present /\ g.addr \in ApicSyms /\ g.ist = 0 /\ g.dpl = 0
    BY <2>2, ApicIdtsAre
  <2>4. ~(v < FIRST_EXTERNAL_VECTOR)
    BY <2>3, VectorFacts DEF AllVectors
  <2>5. GateFits(v, g)
    BY <2>3, <2>4 DEF GateFits
  <2>6. idt_table' = [idt_table EXCEPT ![v] = g] /\ system_vectors' = set_bit(v, system_vectors)
    BY <1>1, <2>1, <2>3
  <2>7. /\ idt_table' \in [AllVectors -> GateType] /\ idt_table'[v] = g
        /\ \A u \in AllVectors : u # v => idt_table'[u] = idt_table[u]
        /\ \A u \in AllVectors : idt_table[u].present => idt_table'[u].present
        /\ system_vectors' = {u \in AllVectors : idt_table'[u].present}
        /\ \A u \in AllVectors : idt_table'[u].present => GateFits(u, idt_table'[u])
        /\ \A u \in AllVectors : u < FIRST_EXTERNAL_VECTOR /\ idt_table'[u].present => u \in ExceptionVectors
    BY <2>3, <2>4, <2>5, <2>6, InstallFacts, ZenonT(60)
  <2>8. \A u \in ExceptionVectors : idt_table'[u] = idt_table[u]
    BY <2>4, <2>7, ExceptionsAreLow
  <2>9. (\A u \in ExceptionVectors : idt_table'[u].present) /\ idt_table'[X86_TRAP_DF].ist = 1
    BY <1>1, <1>4, <2>8, DefIdtsAre DEF GateInv, X86_TRAP_DF
  <2>10. \A i \in 1 .. (entry' - 1) : idt_table'[apic_idts[i][1]] = apic_idts[i][2]
    <3>1. SUFFICES ASSUME NEW i \in 1 .. entry PROVE idt_table'[apic_idts[i][1]] = apic_idts[i][2]
      BY <1>1
    <3>2. CASE i = entry
      BY <2>3, <2>7, <3>2
    <3>3. CASE i # entry
      <4>1. i \in 1 .. (entry - 1) /\ i \in 1 .. 3
        BY <2>2, <3>3
      <4>2. idt_table[apic_idts[i][1]] = apic_idts[i][2]
        BY <1>1, <1>4, <4>1 DEF GateInv, Installed
      <4>3. apic_idts[i][1] \in AllVectors /\ apic_idts[i][1] # v
        BY <2>2, <2>3, <3>3, <4>1, ApicIdtsAre
      <4> QED BY <2>7, <4>2, <4>3
    <3> QED BY <3>2, <3>3
  <2> QED BY <1>1, <1>4, <2>2, <2>7, <2>9, <2>10 DEF GateInv, Installed
<1> QED BY <1>2, <1>3, <1>4
\* A vector behind the exceptions gets the gate of the spurious interrupt.
LEMMA SpuriousGate ==
  ASSUME NEW v \in AllVectors, v >= FIRST_EXTERNAL_VECTOR
  PROVE  /\ Gate("spurious_interrupt", 0, 0) \in GateType /\ Gate("spurious_interrupt", 0, 0).present = TRUE
         /\ GateFits(v, Gate("spurious_interrupt", 0, 0))
<1>1. "spurious_interrupt" \in ApicSyms /\ "spurious_interrupt" \in Syms
  BY DEF ApicSyms, Syms
<1>2. PICK g : g = Gate("spurious_interrupt", 0, 0)
  OBVIOUS
<1>3. /\ g \in GateType /\ g.present = TRUE /\ g.addr = "spurious_interrupt"
      /\ g.ist = 0 /\ g.dpl = 0
  BY <1>1, <1>2 DEF Gate, GateType
<1>4. ~(v < FIRST_EXTERNAL_VECTOR)
  BY VectorFacts DEF AllVectors
<1>5. GateFits(v, g)
  BY <1>1, <1>3, <1>4 DEF GateFits
<1> QED BY <1>2, <1>3, <1>5

LEMMA IrqStep ==
  ASSUME GateInv, idt_setup_apic_and_irq_gates
  PROVE  GateInv'
<1>0. /\ boot \in Boots /\ entry \in Nat /\ idt_table \in [AllVectors -> GateType]
      /\ system_vectors = {v \in AllVectors : idt_table[v].present}
  BY DEF GateInv
<1>1. CASE TableDone("apic") /\ boot' = "irq"
           /\ entry' = find_next_zero_bit(system_vectors, NR_VECTORS, FIRST_EXTERNAL_VECTOR)
           /\ UNCHANGED <<idt_table, system_vectors>>
  <2>1. boot = "apic" /\ entry > 3 /\ entry \in 1 .. 4 /\ msr' = msr /\ idt_table' = idt_table
        /\ system_vectors' = system_vectors /\ boot' = "irq"
    BY <1>1, ApicIdtsAre DEF TableDone, Booting, Table, GateInv
  <2>2. entry = 4 /\ Installed(apic_idts, 3)
    BY <2>1 DEF GateInv, Installed
  <2>3. PICK e : e = entry'
    OBVIOUS
  <2>4. /\ e \in FIRST_EXTERNAL_VECTOR .. NR_VECTORS
        /\ \A v \in FIRST_EXTERNAL_VECTOR .. (e - 1) : v \in system_vectors
        /\ e < NR_VECTORS => e \notin system_vectors
    BY <1>1, <2>3, VectorFacts, NextZeroBit
  <2>5. /\ \A v \in FIRST_EXTERNAL_VECTOR .. (e - 1) : idt_table[v].present
        /\ e < NR_VECTORS => ~idt_table[e].present
    BY <1>0, <2>4, VectorFacts DEF AllVectors
  <2>6. e \in Nat
    BY <2>4, VectorFacts
  <2>7. Installed(apic_idts, 3)'
    BY <2>1, <2>2 DEF Installed
  <2> QED BY <1>0, <2>1, <2>3, <2>4, <2>5, <2>6, <2>7 DEF GateInv, Boots
<1>2. CASE /\ Booting("irq") /\ entry < NR_VECTORS
           /\ system_vectors' = set_bit(entry, system_vectors)
           /\ set_intr_gate(entry, "spurious_interrupt")
           /\ entry' = find_next_zero_bit(system_vectors', NR_VECTORS, entry + 1)
           /\ UNCHANGED <<boot, msr>>
  <2>1. /\ boot = "irq" /\ boot' = "irq" /\ msr' = msr
        /\ entry \in FIRST_EXTERNAL_VECTOR .. NR_VECTORS /\ entry < NR_VECTORS
        /\ \A v \in FIRST_EXTERNAL_VECTOR .. (entry - 1) : idt_table[v].present
        /\ ~idt_table[entry].present
        /\ Installed(apic_idts, 3) /\ idt_table[X86_TRAP_DF].ist = 1
        /\ \A v \in ExceptionVectors : idt_table[v].present
    BY <1>2 DEF Booting, GateInv
  <2>2. entry \in AllVectors /\ entry >= FIRST_EXTERNAL_VECTOR /\ ~(entry < FIRST_EXTERNAL_VECTOR)
    BY <2>1, VectorFacts DEF AllVectors
  <2>3. PICK g \in GateType : g = Gate("spurious_interrupt", 0, 0) /\ g.present /\ GateFits(entry, g)
    BY <2>2, SpuriousGate
  <2>4. idt_table' = [idt_table EXCEPT ![entry] = g]
    BY <1>2, <2>3 DEF set_intr_gate
  <2>5. /\ idt_table' \in [AllVectors -> GateType] /\ idt_table'[entry] = g
        /\ \A u \in AllVectors : u # entry => idt_table'[u] = idt_table[u]
        /\ \A u \in AllVectors : idt_table[u].present => idt_table'[u].present
        /\ system_vectors' = {u \in AllVectors : idt_table'[u].present}
        /\ \A u \in AllVectors : idt_table'[u].present => GateFits(u, idt_table'[u])
        /\ \A u \in AllVectors : u < FIRST_EXTERNAL_VECTOR /\ idt_table'[u].present => u \in ExceptionVectors
    BY <1>2, <2>2, <2>3, <2>4, InstallFacts
  <2>6. PICK e : e = entry'
    OBVIOUS
  <2>7. entry + 1 \in Nat /\ entry + 1 <= NR_VECTORS
    BY <2>1, VectorFacts
  <2>8. PICK sv : sv = system_vectors'
    OBVIOUS
  <2>9. /\ e \in (entry + 1) .. NR_VECTORS
        /\ \A v \in (entry + 1) .. (e - 1) : v \in sv
        /\ e < NR_VECTORS => e \notin sv
    BY <1>2, <2>6, <2>7, <2>8, VectorFacts, NextZeroBit
  <2>10. ASSUME NEW v \in FIRST_EXTERNAL_VECTOR .. (e - 1)
         PROVE  idt_table'[v].present
    <3>1. v \in AllVectors
      BY <2>9, VectorFacts DEF AllVectors
    <3>2. CASE v < entry
      <4>1. v \in FIRST_EXTERNAL_VECTOR .. (entry - 1)
        BY <2>1, <3>2, VectorFacts
      <4> QED BY <2>1, <2>5, <3>1, <4>1
    <3>3. CASE v = entry
      BY <2>3, <2>5, <3>3
    <3>4. CASE v > entry
      <4>1. v \in (entry + 1) .. (e - 1)
        BY <2>1, <3>4, VectorFacts
      <4> QED BY <2>5, <2>8, <2>9, <4>1
    <3> QED BY <2>1, <3>1, <3>2, <3>3, <3>4, VectorFacts DEF AllVectors
  <2>11. e \in FIRST_EXTERNAL_VECTOR .. NR_VECTORS /\ e \in Nat
    BY <2>1, <2>9, VectorFacts
  <2>12. e < NR_VECTORS => ~idt_table'[e].present
    BY <2>5, <2>8, <2>9, <2>11, VectorFacts DEF AllVectors
  <2>13. \A u \in ExceptionVectors : idt_table'[u] = idt_table[u]
    BY <2>2, <2>5, ExceptionsAreLow
  <2>14. (\A u \in ExceptionVectors : idt_table'[u].present) /\ idt_table'[X86_TRAP_DF].ist = 1
    BY <2>1, <2>13, DefIdtsAre DEF X86_TRAP_DF
  <2>15. Installed(apic_idts, 3)'
    <3>1. SUFFICES ASSUME NEW i \in 1 .. 3 PROVE idt_table'[apic_idts[i][1]] = apic_idts[i][2]
      BY DEF Installed
    <3>2. idt_table[apic_idts[i][1]] = apic_idts[i][2] /\ apic_idts[i][2].present
          /\ apic_idts[i][1] \in AllVectors
      BY <2>1, ApicIdtsAre DEF Installed
    <3>3. apic_idts[i][1] # entry
      BY <2>1, <3>2
    <3> QED BY <2>5, <3>2, <3>3
  <2> QED BY <2>1, <2>5, <2>6, <2>10, <2>11, <2>12, <2>14, <2>15 DEF GateInv, Boots
<1>3. CASE Booting("irq") /\ entry >= NR_VECTORS /\ boot' = "msrs"
           /\ UNCHANGED <<entry, idt_table, system_vectors, msr>>
  BY <1>3, VectorFacts DEF Booting, GateInv, Installed, Boots
<1> QED
  <2>1. idt_setup_apic_and_irq_gates
    OBVIOUS
  <2> QED BY <1>1, <1>2, <1>3, <2>1 DEF idt_setup_apic_and_irq_gates

\* The gates, when nothing of them changes.
LEMMA GatesStay == ASSUME GateInv, UNCHANGED bootVars PROVE GateInv'
BY DEF bootVars, GateInv, Installed

LEMMA GateStep ==
  ASSUME GateInv, [TrapNext]_trapVars
  PROVE  GateInv'
<1>1. ASSUME BootStep PROVE GateInv'
  <2>1. ASSUME NEW step \in {"traps", "ist", "apic"}, idt_setup_from_table(step) PROVE GateInv'
    BY <2>1, TableStep
  <2>2. CASE idt_setup_traps
    <3>1. /\ boot = "traps" /\ boot' = "ist" /\ entry' = 1 /\ entry > 16 /\ msr' = msr
          /\ idt_table' = idt_table /\ system_vectors' = system_vectors /\ entry \in 1 .. 17
      BY <2>2, DefIdtsAre DEF idt_setup_traps, TableDone, Booting, Table, GateInv
    <3>2. \A v \in ExceptionVectors : idt_table[v].present
      BY <3>1 DEF GateInv, ExceptionVectors
    <3> QED BY <3>1, <3>2 DEF GateInv, Boots
  <2>3. CASE idt_setup_ist_traps
    <3>1. /\ boot = "ist" /\ boot' = "apic" /\ entry' = 1 /\ entry > 1 /\ msr' = msr
          /\ idt_table' = idt_table /\ system_vectors' = system_vectors /\ entry \in 1 .. 2
      BY <2>3, IstIdtsAre DEF idt_setup_ist_traps, TableDone, Booting, Table, GateInv
    <3>2. idt_table[X86_TRAP_DF].ist = 1
      BY <3>1 DEF GateInv
    <3> QED BY <3>1, <3>2 DEF GateInv, Boots, Installed
  <2>4. CASE idt_setup_apic_and_irq_gates
    BY <2>4, IrqStep
  <2>5. CASE trap_init
    BY <2>5 DEF trap_init, Booting, GateInv, Boots, Installed
  <2>6. CASE syscall_init
    BY <2>6 DEF syscall_init, Booting, GateInv, Boots, Installed
  <2>7. CASE return_to_usermode
    BY <2>7, Zenon DEF return_to_usermode, Booting, GateInv, Boots, Installed
  <2> QED BY <1>1, <2>1, <2>2, <2>3, <2>4, <2>5, <2>6, <2>7 DEF BootStep
<1>2. ASSUME EntryStep PROVE UNCHANGED bootVars
  BY <1>2 DEF EntryStep, idtentry, error_entry, interrupt, do_syscall_64, SWITCH_TO_KERNEL, Call,
    HandlerReturns, HandlerDies, Handling, error_exit, syscall_exit, SWITCH_TO_USER, swapgs_out,
    retint_kernel, Iretq, syscall_restore, Sysretq, At
<1>3. ASSUME Event PROVE UNCHANGED bootVars
  BY <1>3 DEF Event, Exception, SoftwareInterrupt, Interrupt, Syscall, Deliver, At
<1>4. UNCHANGED trapVars => UNCHANGED bootVars
  BY DEF trapVars, bootVars
<1> QED BY <1>1, <1>2, <1>3, <1>4, GatesStay DEF TrapNext
-----------------------------------------------------------------------------
(***************************************************************************)
(* Words and stacks.                                                       *)
(***************************************************************************)
LEMMA WordTypes ==
  /\ \A n \in Int, m \in Maps : <<n, "rip", m>> \in Words
  /\ \A n \in Int : <<n, "cs", "">> \in Words /\ <<n, "ss", "">> \in Words /\ <<n, "error", "">> \in Words
                    /\ <<n, "gate", "">> \in Words /\ <<n, "result", "">> \in Words
                    /\ <<n, "ebx", "">> \in Words
  /\ \A n \in Int, b \in BOOLEAN : FlagsOf(n, b) \in Words
  /\ \A r \in RspType : RspWord(r) \in Words
  /\ Junk \in Words /\ MinusOne \in Words /\ <<1, "1f", "identity">> \in Words
  /\ <<1, "~vector", "">> \in Words /\ <<-1, "ENOSYS", "">> \in Words
  /\ <<2, "return", "identity">> \in Words /\ <<0, "zero", "">> \in Words
  /\ \A r \in Regs : <<0, r, "">> \in Words
<1>1. \A n \in Int, s \in Names, m \in Maps : <<n, s, m>> \in Words
  BY DEF Words
<1>2. /\ "rip" \in Names /\ "cs" \in Names /\ "ss" \in Names /\ "error" \in Names /\ "gate" \in Names
      /\ "result" \in Names /\ "ebx" \in Names /\ "flags" \in Names /\ "junk" \in Names /\ "-1" \in Names
      /\ "1f" \in Names /\ "~vector" \in Names /\ "ENOSYS" \in Names /\ "return" \in Names /\ "zero" \in Names
      /\ StackNames \subseteq Names /\ Regs \subseteq Names
  BY DEF Names
<1>3. "" \in Maps /\ "if" \in Maps /\ "identity" \in Maps
  BY DEF Maps
<1>4. \A n \in Int, b \in BOOLEAN : FlagsOf(n, b) \in Words
  BY <1>1, <1>2, <1>3 DEF FlagsOf
<1>5. \A r \in RspType : RspWord(r) \in Words
  BY <1>1, <1>2 DEF RspWord, RspType
<1>6. -1 \in Int /\ 0 \in Int /\ 1 \in Int /\ 2 \in Int
  OBVIOUS
<1>7. Junk \in Words /\ MinusOne \in Words
  BY <1>1, <1>2, <1>3, <1>6, Zenon DEF Junk, MinusOne
<1>8. /\ <<1, "1f", "identity">> \in Words /\ <<1, "~vector", "">> \in Words
      /\ <<-1, "ENOSYS", "">> \in Words /\ <<2, "return", "identity">> \in Words
      /\ <<0, "zero", "">> \in Words
  BY <1>1, <1>2, <1>3, <1>6, Zenon
<1>9. \A r \in Regs : <<0, r, "">> \in Words
  BY <1>1, <1>2, <1>3, <1>6, Zenon
<1>10. \A n \in Int : <<n, "cs", "">> \in Words /\ <<n, "ss", "">> \in Words /\ <<n, "error", "">> \in Words
                    /\ <<n, "gate", "">> \in Words /\ <<n, "result", "">> \in Words
                    /\ <<n, "ebx", "">> \in Words
  BY <1>1, <1>2, <1>3
<1>11. \A n \in Int, m \in Maps : <<n, "rip", m>> \in Words
  BY <1>1, <1>2
<1> QED BY <1>4, <1>5, <1>7, <1>8, <1>9, <1>10, <1>11

\* A stack pointer pushed is the one popped, and so are the flags.
LEMMA WordFields ==
  /\ \A r \in RspType : RspOf(RspWord(r)) = r
  /\ \A n \in Int, b \in BOOLEAN : (FlagsOf(n, b)[3] = "if") = b
<1>1. \A r \in RspType : RspOf(RspWord(r)) = r
  BY DEF RspOf, RspWord, RspType
<1>2. \A n \in Int : (FlagsOf(n, TRUE)[3] = "if") = TRUE /\ (FlagsOf(n, FALSE)[3] = "if") = FALSE
  BY DEF FlagsOf
<1> QED BY <1>1, <1>2

\* Processors are equal if they agree in all they have.
LEMMA CpuEqual ==
  ASSUME NEW a \in CpuType, NEW b \in CpuType, a.cpl = b.cpl, a.cr3 = b.cr3, a.gs = b.gs, a.kgs = b.kgs,
         a.rip = b.rip, a.rsp = b.rsp, a.if = b.if, a.regs = b.regs
  PROVE  a = b
BY DEF CpuType

LEMMA SlotIs ==
  ASSUME TrapTypeOK, OnKernelStack, cpu.rsp.at <= Len(stacks[cpu.rsp.stack]), NEW n \in Nat, n < cpu.rsp.at
  PROVE  Slot(n) = stacks[cpu.rsp.stack][cpu.rsp.at - n] /\ Slot(n) \in Words
<1>1. PICK S \in Seq(Words) : S = stacks[cpu.rsp.stack]
  BY DEF TrapTypeOK, OnKernelStack
<1>2. PICK at \in Nat : at = cpu.rsp.at
  BY DEF TrapTypeOK, CpuType, RspType
<1>3. Stack = SubSeq(S, 1, at) /\ at <= Len(S) /\ n < at
  BY <1>1, <1>2 DEF Stack
<1>4. Len(Stack) = at /\ \A x \in 1 .. at : Stack[x] = S[x]
  BY <1>3
<1>5. Slot(n) = Stack[at - n] /\ at - n \in 1 .. at
  BY <1>3, <1>4 DEF Slot
<1>6. Slot(n) = S[at - n] /\ S[at - n] \in Words
  BY <1>3, <1>4, <1>5
<1> QED BY <1>1, <1>2, <1>6

-----------------------------------------------------------------------------
(***************************************************************************)
(* What is written above a frame leaves it as it is.                       *)
(***************************************************************************)
Agree(S, S2, B) ==
  B \in Nat /\ Len(S2) \in Nat /\ B <= Len(S2) /\ \A x \in 1 .. B : S2[x] = S[x]

LEMMA HardwareFrameKept ==
  ASSUME NEW S, NEW S2, NEW B, Agree(S, S2, B), NEW T \in Int, T <= B,
         NEW stack, NEW was, NEW n, HardwareFrame(S, T, stack, was, n)
  PROVE  HardwareFrame(S2, T, stack, was, n)
<1>0. B \in Nat /\ Len(S2) \in Nat /\ B <= Len(S2) /\ \A x \in 1 .. B : S2[x] = S[x]
  BY DEF Agree
<1>1. T >= 5
  BY DEF HardwareFrame
<1>2. S2[T] = S[T] /\ S2[T - 1] = S[T - 1] /\ S2[T - 2] = S[T - 2] /\ S2[T - 3] = S[T - 3]
  BY <1>0, <1>1
<1>3. T <= Len(S2)
  BY <1>0
<1> QED BY <1>1, <1>2, <1>3 DEF HardwareFrame

LEMMA FrameKept ==
  ASSUME NEW S, NEW S2, NEW B, Agree(S, S2, B), NEW F \in Int, F <= B,
         NEW stack, NEW was, NEW n, Frame(S, F, stack, was, n)
  PROVE  Frame(S2, F, stack, was, n)
<1>0. B \in Nat /\ Len(S2) \in Nat /\ B <= Len(S2) /\ \A x \in 1 .. B : S2[x] = S[x]
  BY DEF Agree
<1>1. HardwareFrame(S, F - 16, stack, was, n) /\ F - 16 \in Int
  BY DEF Frame, RIP
<1>2. F - 16 >= 5
  BY <1>1 DEF HardwareFrame
<1>3. HardwareFrame(S2, F - 16, stack, was, n)
  <2>1. F - 16 <= B
    BY <1>0
  <2> QED BY <1>1, <2>1, HardwareFrameKept
<1>4. ASSUME NEW r \in Regs PROVE S2[F - OffsetOf(r)] = was.regs[r]
  <2>1. S[F - OffsetOf(r)] = was.regs[r]
    BY DEF Frame
  <2>2. PICK o \in 0 .. 14 : o = OffsetOf(r)
    BY OffsetFacts
  <2>3. S2[F - o] = S[F - o]
    BY <1>0, <1>2, SMTT(40)
  <2> QED BY <2>1, <2>2, <2>3
<1>5. F <= Len(S2)
  BY <1>0
<1> QED BY <1>3, <1>4, <1>5 DEF Frame, RIP

LEMMA FrameRegsAre == FrameRegs \subseteq Regs
BY GpRegsAre DEF FrameRegs

LEMMA SyscallFrameKept ==
  ASSUME NEW S, NEW S2, NEW B, Agree(S, S2, B), NEW F \in Int, F <= B,
         NEW was, NEW n, SyscallFrame(S, F, was, n)
  PROVE  SyscallFrame(S2, F, was, n)
<1>0. B \in Nat /\ Len(S2) \in Nat /\ B <= Len(S2) /\ \A x \in 1 .. B : S2[x] = S[x]
  BY DEF Agree
<1>1. F >= 21 /\ F <= Len(S2)
  BY <1>0 DEF SyscallFrame
<1>2. S2[F - 16] = S[F - 16] /\ S2[F - 18] = S[F - 18]
  BY <1>0, <1>1
<1>3. ASSUME NEW r \in FrameRegs PROVE S2[F - OffsetOf(r)] = was.regs[r]
  <2>1. S[F - OffsetOf(r)] = was.regs[r]
    BY DEF SyscallFrame
  <2>2. PICK o \in 0 .. 14 : o = OffsetOf(r)
    BY OffsetFacts, FrameRegsAre
  <2>3. S2[F - o] = S[F - o]
    BY <1>0, <1>1
  <2> QED BY <2>1, <2>2, <2>3
<1> QED BY <1>1, <1>2, <1>3 DEF SyscallFrame, RIP, RFLAGS

LEMMA HandlesKept ==
  ASSUME NEW S, NEW S2, NEW B, Agree(S, S2, B), NEW c, c.rsp.at \in Nat, c.rsp.at <= B, NEW s, NEW was, NEW event, NEW n, Handles(S, c, s, was, event, n)
  PROVE  Handles(S2, c, s, was, event, n)
<1>0. B \in Nat /\ Len(S2) \in Nat /\ B <= Len(S2) /\ \A x \in 1 .. B : S2[x] = S[x]
  BY DEF Agree
<1>1. PICK F \in Int : F = c.rsp.at - 8
  OBVIOUS
<1>2. c.rsp.at = F + 8 /\ F <= B /\ F + 8 <= B /\ F + 8 <= Len(S2)
  BY <1>0, <1>1
<1>3. /\ S[F + 1] = <<F, c.rsp.stack, c.rsp.map>> /\ S[F + 2] = <<2, "return", "identity">>
      /\ IF s = "do_syscall_64"
         THEN /\ SyscallFrame(S, F, was, n)
              /\ \A i \in 1 .. 6 : S[F + 2 + i] = was.regs[ExtraRegs[i]]
         ELSE /\ Frame(S, F, c.rsp.stack, was, n)
              /\ c.regs["rdi"] = <<F, c.rsp.stack, c.rsp.map>>
              /\ has_error_code(s) => c.regs["rsi"] = event.error
              /\ ~apicinterrupt(s) => S[F + 8] = EbxOf(was)
  BY <1>1 DEF Handles
<1>4. F >= 21
  <2>1. CASE s = "do_syscall_64"
    BY <1>3, <2>1 DEF SyscallFrame
  <2>2. CASE s # "do_syscall_64"
    <3>1. HardwareFrame(S, F - 16, c.rsp.stack, was, n)
      BY <1>3, <2>2 DEF Frame, RIP
    <3>2. F - 16 >= 5
      BY <3>1 DEF HardwareFrame
    <3> QED BY <3>2
  <2> QED BY <2>1, <2>2
<1>5. \A i \in 1 .. 8 : S2[F + i] = S[F + i]
  BY <1>0, <1>2, <1>4
<1>6. \A i \in 1 .. 6 : S2[F + 2 + i] = S[F + 2 + i]
  BY <1>0, <1>2, <1>4
<1>7. Frame(S, F, c.rsp.stack, was, n) => Frame(S2, F, c.rsp.stack, was, n)
  BY <1>2, FrameKept
<1>8. SyscallFrame(S, F, was, n) => SyscallFrame(S2, F, was, n)
  BY <1>2, SyscallFrameKept
<1>9. S2[F + 1] = S[F + 1] /\ S2[F + 2] = S[F + 2] /\ S2[F + 8] = S[F + 8]
  BY <1>5
<1>10. /\ S2[F + 1] = <<F, c.rsp.stack, c.rsp.map>> /\ S2[F + 2] = <<2, "return", "identity">>
       /\ IF s = "do_syscall_64"
          THEN /\ SyscallFrame(S2, F, was, n)
               /\ \A i \in 1 .. 6 : S2[F + 2 + i] = was.regs[ExtraRegs[i]]
          ELSE /\ Frame(S2, F, c.rsp.stack, was, n)
               /\ c.regs["rdi"] = <<F, c.rsp.stack, c.rsp.map>>
               /\ has_error_code(s) => c.regs["rsi"] = event.error
               /\ ~apicinterrupt(s) => S2[F + 8] = EbxOf(was)
  BY <1>3, <1>6, <1>7, <1>8, <1>9
<1> QED BY <1>1, <1>2, <1>10 DEF Handles
-----------------------------------------------------------------------------
(***************************************************************************)
(* The context to return to.                                               *)
(***************************************************************************)
LEMMA FirstUserType == FirstUser \in CpuType /\ UserContext(FirstUser)
<1>1. OwnRegs \in [Regs -> Words]
  BY WordTypes DEF OwnRegs
<1>2. UserRsp \in RspType
  BY DEF UserRsp, RspType, StackNames, Maps
<1>3. /\ "upml4" \in {"kpml4", "upml4"} /\ "user" \in Bases /\ "shared" \in Bases /\ "user" \in Maps
  BY DEF Bases, Maps
<1>4. FirstUser \in CpuType
  BY <1>1, <1>2, <1>3 DEF FirstUser, CpuType
<1> QED BY <1>4 DEF FirstUser, UserContext

LEMMA FrameTypes ==
  ASSUME TrapTypeOK
  PROVE  /\ Len(frames) \in Nat /\ \A n \in 1 .. Len(frames) : frames[n] \in FrameType
         /\ frames # <<>> => Len(frames) >= 1
         /\ \A n \in 1 .. Len(frames) : frames[n].cpu \in CpuType /\ frames[n].cpu.rsp.at \in Nat
<1>1. frames \in Seq(FrameType)
  BY DEF TrapTypeOK
<1>2. Len(frames) \in Nat /\ \A n \in 1 .. Len(frames) : frames[n] \in FrameType
  BY <1>1
<1>3. frames # <<>> => Len(frames) >= 1
  BY <1>1
<1>4. \A n \in 1 .. Len(frames) : frames[n].cpu \in CpuType
  BY <1>2 DEF FrameType
<1>5. \A c \in CpuType : c.rsp.at \in Nat
  BY DEF CpuType, RspType
<1> QED BY <1>2, <1>3, <1>4, <1>5

LEMMA WasTypes ==
  ASSUME TrapTypeOK
  PROVE  Was \in CpuType /\ Of \in EventType /\ Level \in Nat /\ Level = IF frames = <<>> THEN 0 ELSE Len(frames) - 1
<1>1. CASE frames = <<>>
  <2>0. Junk \in Words
    BY WordTypes, Zenon
  <2>1. [vector |-> 0, error |-> Junk] \in EventType
    BY <2>0 DEF EventType
  <2> QED BY <1>1, <2>1, FirstUserType DEF Was, Of, Level
<1>2. CASE frames # <<>>
  BY <1>2, FrameTypes DEF FrameType, Was, Of, Level
<1> QED BY <1>1, <1>2

\* User code is only interrupted at the bottom.
LEMMA WasUser ==
  ASSUME TrapTypeOK, ChainInv, Was.cpl = 3
  PROVE  UserContext(Was) /\ (frames # <<>> => Len(frames) = 1)
<1>1. CASE frames = <<>>
  BY <1>1, FirstUserType DEF Was
<1>2. CASE frames # <<>>
  <2>1. Len(frames) \in Nat /\ Len(frames) >= 1
    BY <1>2, FrameTypes
  <2>2. Was = frames[Len(frames)].cpu
    BY <1>2 DEF Was
  <2>3. CASE Len(frames) >= 2
    <3>1. \A n \in 2 .. Len(frames) : KernelContext(frames[n].cpu, boot)
      BY Zenon DEF ChainInv
    <3>2. Len(frames) \in 2 .. Len(frames)
      BY <2>1, <2>3
    <3>3. KernelContext(frames[Len(frames)].cpu, boot)
      BY <3>1, <3>2, Zenon
    <3> QED BY <2>2, <3>3 DEF KernelContext
  <2>4. CASE Len(frames) = 1
    <3>1. UserContext(frames[1].cpu) \/ BootContext(frames[1].cpu, boot)
      BY <1>2 DEF ChainInv
    <3> QED BY <2>2, <2>4, <3>1 DEF BootContext, KernelContext
  <2> QED BY <2>1, <2>3, <2>4, SMTT(40)
<1> QED BY <1>1, <1>2

LEMMA WasKernel ==
  ASSUME TrapTypeOK, ChainInv, frames # <<>>, Was.cpl # 3
  PROVE  KernelContext(Was, boot)
<1>1. Len(frames) \in Nat /\ Len(frames) >= 1
  BY FrameTypes
<1>2. Was = frames[Len(frames)].cpu
  BY DEF Was
<1>3. CASE Len(frames) >= 2
  <2>1. \A n \in 2 .. Len(frames) : KernelContext(frames[n].cpu, boot)
    BY Zenon DEF ChainInv
  <2>2. Len(frames) \in 2 .. Len(frames)
    BY <1>1, <1>3
  <2> QED BY <1>2, <2>1, <2>2, Zenon
<1>4. CASE Len(frames) = 1
  <2>1. UserContext(frames[1].cpu) \/ BootContext(frames[1].cpu, boot)
    BY DEF ChainInv
  <2>2. Was = frames[1].cpu
    BY <1>2, <1>4, Zenon
  <2>3. CASE UserContext(frames[1].cpu)
    BY <2>2, <2>3 DEF UserContext
  <2>4. CASE BootContext(frames[1].cpu, boot)
    BY <2>2, <2>4 DEF BootContext
  <2> QED BY <2>1, <2>3, <2>4
<1>5. Len(frames) >= 2 \/ Len(frames) = 1
  BY <1>1
<1> QED BY <1>3, <1>4, <1>5, Zenon

\* The contexts on the stack in use lie below the last one interrupted on it.
LEMMA ChainBelow ==
  ASSUME TrapTypeOK, ChainInv, OnKernelStack, frames # <<>>, Entered(sym, Was, cpu.rsp.stack, boot),
         NEW n \in 1 .. Len(frames), frames[n].cpu.rsp.stack = cpu.rsp.stack
  PROVE  Was.rsp.stack = cpu.rsp.stack /\ frames[n].cpu.rsp.at <= Was.rsp.at
<1>1. Len(frames) \in Nat /\ Len(frames) >= 1
  BY FrameTypes
<1>2. Was = frames[Len(frames)].cpu
  BY DEF Was
<1>3. PICK L \in Nat : L = Len(frames) /\ L >= 1
  BY <1>1
<1>4. /\ frames[n].cpu.rsp.stack = frames[L].cpu.rsp.stack => frames[n].cpu.rsp.at <= frames[L].cpu.rsp.at
      /\ frames[n].cpu.rsp.stack = "ist" => frames[L].cpu.rsp.stack = "ist"
  <2>1. \A m \in 1 .. Len(frames) : \A k \in 1 .. m :
         /\ frames[k].cpu.rsp.stack = frames[m].cpu.rsp.stack => frames[k].cpu.rsp.at <= frames[m].cpu.rsp.at
         /\ frames[k].cpu.rsp.stack = "ist" => frames[m].cpu.rsp.stack = "ist"
    BY Zenon DEF ChainInv
  <2>2. L \in 1 .. Len(frames) /\ n \in 1 .. L
    BY <1>3
  <2> QED BY <2>1, <2>2, Zenon
<1>5. CASE cpu.rsp.stack = "ist"
  BY <1>2, <1>3, <1>4, <1>5
<1>6. CASE cpu.rsp.stack = "cpu"
  <2>1. Was.rsp.stack # "ist"
    BY <1>6 DEF Entered
  <2>2. CASE Was.cpl = 3
    <3>0. Len(frames) = 1
      BY <2>2, WasUser
    <3>1. n = 1 /\ L = 1
      BY <1>3, <3>0
    <3> QED BY <1>2, <1>3, <1>4, <3>1
  <2>3. CASE Was.cpl # 3
    <3>1. Was.rsp.stack = "cpu"
      BY <2>1, <2>3, WasKernel DEF KernelContext
    <3> QED BY <1>2, <1>3, <1>4, <1>6, <3>1
  <2> QED BY <2>2, <2>3
<1> QED BY <1>5, <1>6 DEF OnKernelStack

\* A step that changes the stack only above the context it will return to.
LEMMA ChainKept ==
  ASSUME TrapTypeOK, ChainInv, OnKernelStack, frames # <<>>, Entered(sym, Was, cpu.rsp.stack, boot),
         frames' = frames, boot' = boot, cpu'.rsp.stack = cpu.rsp.stack,
         NEW S2 \in Seq(Words), S2 = stacks'[cpu.rsp.stack],
         Was.rsp.stack = cpu.rsp.stack => Agree(stacks[cpu.rsp.stack], S2, Was.rsp.at)
  PROVE  ChainInv'
<1>1. ASSUME NEW n \in 2 .. Len(frames), frames[n].cpu.rsp.stack = cpu.rsp.stack
      PROVE  Handles(S2, frames[n].cpu, frames[n].sym, frames[n - 1].cpu, frames[n - 1].event, n - 2)
  <2>1. n \in 1 .. Len(frames)
    BY FrameTypes
  <2>2. Was.rsp.stack = cpu.rsp.stack /\ frames[n].cpu.rsp.at <= Was.rsp.at
    BY <1>1, <2>1, ChainBelow
  <2>3. Handles(stacks[cpu.rsp.stack], frames[n].cpu, frames[n].sym, frames[n - 1].cpu, frames[n - 1].event, n - 2)
    BY <1>1 DEF ChainInv
  <2>4. frames[n].cpu.rsp.at \in Nat /\ Was.rsp.at \in Nat
    BY <2>1, FrameTypes, WasTypes DEF CpuType, RspType
  <2>7. PICK B \in Nat : B = Was.rsp.at
    BY <2>4
  <2>a. PICK c : c = frames[n].cpu
    OBVIOUS
  <2>b. Agree(stacks[cpu.rsp.stack], S2, B)
    BY <2>2, <2>7
  <2>8. /\ c.rsp.at \in Nat /\ c.rsp.at <= B
        /\ Handles(stacks[cpu.rsp.stack], c, frames[n].sym, frames[n - 1].cpu, frames[n - 1].event, n - 2)
    BY <2>2, <2>3, <2>4, <2>7, <2>a
  <2>9. Handles(S2, c, frames[n].sym, frames[n - 1].cpu, frames[n - 1].event, n - 2)
    BY <2>b, <2>8, HandlesKept
  <2> QED BY <2>a, <2>9
<1>2. ChainInv
  OBVIOUS
<1>3. \A n \in 2 .. Len(frames') :
       /\ KernelContext(frames'[n].cpu, boot')
       /\ Entered(frames'[n].sym, frames'[n - 1].cpu, frames'[n].cpu.rsp.stack, boot')
       /\ frames'[n].cpu.rsp.stack = cpu'.rsp.stack =>
            Handles(stacks'[cpu'.rsp.stack], frames'[n].cpu, frames'[n].sym, frames'[n - 1].cpu,
                    frames'[n - 1].event, n - 2)
  BY <1>1, <1>2 DEF ChainInv
<1> QED BY <1>2, <1>3 DEF ChainInv

\* A step that changes no stack.
LEMMA ChainStays ==
  ASSUME ChainInv, frames' = frames, boot' = boot, cpu'.rsp.stack = cpu.rsp.stack, stacks' = stacks
  PROVE  ChainInv'
BY DEF ChainInv

LEMMA NoChain == ASSUME frames' = <<>> PROVE ChainInv'
BY DEF ChainInv

LEMMA SameContext ==
  ASSUME frames' = frames
  PROVE  Was' = Was /\ Of' = Of /\ Level' = Level
BY DEF Was, Of, Level
-----------------------------------------------------------------------------
(***************************************************************************)
(* Steps that touch no stack.                                              *)
(***************************************************************************)
LEMMA CpuParts ==
  ASSUME NEW c \in CpuType
  PROVE  /\ c = [cpl |-> c.cpl, cr3 |-> c.cr3, gs |-> c.gs, kgs |-> c.kgs, rip |-> c.rip, rsp |-> c.rsp,
                 if |-> c.if, regs |-> c.regs]
         /\ c.cpl \in {0, 3} /\ c.cr3 \in {"kpml4", "upml4"} /\ c.gs \in Bases /\ c.kgs \in Bases
         /\ c.rip \in Maps /\ c.rsp \in RspType /\ c.if \in BOOLEAN /\ c.regs \in [Regs -> Words]
         /\ c.rsp = [stack |-> c.rsp.stack, at |-> c.rsp.at, map |-> c.rsp.map]
         /\ c.rsp.stack \in StackNames /\ c.rsp.at \in Nat /\ c.rsp.map \in Maps
BY DEF CpuType, RspType

LEMMA QuietStep ==
  ASSUME EntryInv, UNCHANGED <<bootVars, stacks, sym, frames>>,
         scratch' \in [cr3 : {"", "kpml4", "upml4"}, rsp : Words], scratch'.rsp = scratch.rsp,
         scratch'.cr3 \in {scratch.cr3, "upml4"},
         cpu' \in CpuType, cpu'.rsp.stack = cpu.rsp.stack, pc' \in Pcs, PlaceInv',
         inService' \in BOOLEAN, inService' => inService,
         inService' /\ Len(frames) = 1 => pc' \in BeforeEoi
  PROVE  EntryInv'
<1>1. TrapTypeOK'
  BY DEF EntryInv, TrapTypeOK
<1>2. ChainInv'
  BY ChainStays DEF EntryInv, bootVars
<1>3. ScratchInv'
  BY DEF EntryInv, ScratchInv, bootVars
<1>4. ServiceInv'
  BY DEF EntryInv, ServiceInv
<1> QED BY <1>1, <1>2, <1>3, <1>4 DEF EntryInv

LEMMA RegisterStep ==
  ASSUME EntryInv, UNCHANGED <<bootVars, stacks, sym, frames, inService>>,
         scratch' \in [cr3 : {"", "kpml4", "upml4"}, rsp : Words], scratch'.rsp = scratch.rsp,
         scratch'.cr3 \in {scratch.cr3, "upml4"},
         cpu' \in CpuType, cpu'.rsp.stack = cpu.rsp.stack, pc' \in Pcs, PlaceInv',
         inService /\ Len(frames) = 1 => pc' \in BeforeEoi
  PROVE  EntryInv'
<1>1. inService' = inService /\ inService \in BOOLEAN
  BY DEF EntryInv, TrapTypeOK
<1>2. UNCHANGED <<bootVars, stacks, sym, frames>>
  OBVIOUS
<1>3. inService' \in BOOLEAN
  BY <1>1
<1>4. (inService' => inService) /\ (inService' /\ Len(frames) = 1 => pc' \in BeforeEoi)
  <2>1. CASE inService = TRUE
    BY <1>1, <2>1
  <2>2. CASE inService = FALSE
    BY <1>1, <2>2
  <2> QED BY <1>1, <2>1, <2>2
<1> QED BY <1>2, <1>3, <1>4, QuietStep

\* The frame does not move if rsp does not.
LEMMA SamePtRegs ==
  ASSUME UNCHANGED <<stacks, sym, frames>>, cpu'.rsp.stack = cpu.rsp.stack
  PROVE  /\ \A F : PtRegs(F)' = PtRegs(F)
         /\ \A x : ErrorAt(x)' = ErrorAt(x)
         /\ cpu'.rsp.at = cpu.rsp.at => SwitchPtRegs' = SwitchPtRegs
<1>1. Was' = Was /\ Of' = Of /\ Level' = Level
  BY SameContext
<1>2. \A F : PtRegs(F)' = PtRegs(F)
  BY <1>1 DEF PtRegs
<1>3. \A x : ErrorAt(x)' = ErrorAt(x)
  BY <1>1 DEF ErrorAt
<1>4. cpu'.rsp.at = cpu.rsp.at => SwitchPtRegs' = SwitchPtRegs
  BY <1>2, <1>3 DEF SwitchPtRegs
<1> QED BY <1>2, <1>3, <1>4

LEMMA PtRegsRoom ==
  ASSUME NEW F \in Int, PtRegs(F)
  PROVE  /\ F >= 21 /\ F <= Len(stacks[cpu.rsp.stack])
<1>1. CASE sym = "do_syscall_64"
  BY <1>1 DEF PtRegs, SyscallFrame
<1>2. CASE sym # "do_syscall_64"
  <2>1. Frame(stacks[cpu.rsp.stack], F, cpu.rsp.stack, Was, Level)
    BY <1>2 DEF PtRegs
  <2>2. F - 16 >= 5 /\ F <= Len(stacks[cpu.rsp.stack])
    BY <2>1 DEF Frame, HardwareFrame, RIP
  <2> QED BY <2>2
<1> QED BY <1>1, <1>2

\* The scratch register is none of those the code still needs.
LEMMA ScratchedRegs ==
  ASSUME NEW regs \in [Regs -> Words], NEW r \in {"rcx", "rdi"}, NEW w \in Words
  PROVE  /\ [regs EXCEPT ![r] = w] \in [Regs -> Words]
         /\ \A was : KeepsExtra(regs, was) => KeepsExtra([regs EXCEPT ![r] = w], was)
         /\ [regs EXCEPT ![r] = w]["rbx"] = regs["rbx"]
<1>1. r \in Regs /\ "rbx" \in Regs /\ r # "rbx"
  BY GpRegsAre
<1>2. \A i \in 1 .. 6 : ExtraRegs[i] \in Regs /\ ExtraRegs[i] # r
  BY ExtraRegsAre
<1>3. \A i \in 1 .. 6 : [regs EXCEPT ![r] = w][ExtraRegs[i]] = regs[ExtraRegs[i]]
  BY <1>1, <1>2
<1> QED BY <1>1, <1>3 DEF KeepsExtra

LEMMA ScratchWrite ==
  ASSUME cpu \in CpuType, cpu'.regs = [cpu.regs EXCEPT ![Scratch] = Junk]
  PROVE  /\ cpu'.regs \in [Regs -> Words]
         /\ \A was : KeepsExtra(cpu.regs, was) => KeepsExtra(cpu'.regs, was)
         /\ cpu'.regs["rbx"] = cpu.regs["rbx"]
<1>1. cpu.regs \in [Regs -> Words] /\ Junk \in Words /\ Scratch \in {"rcx", "rdi"}
  BY CpuParts, WordTypes DEF Scratch
<1>2. PICK r \in {"rcx", "rdi"}, w \in Words, regs \in [Regs -> Words] :
        r = Scratch /\ w = Junk /\ regs = cpu.regs
  BY <1>1
<1>3. cpu'.regs = [regs EXCEPT ![r] = w]
  BY <1>2
<1> QED BY <1>2, <1>3, ScratchedRegs

LEMMA SwitchStep ==
  ASSUME EntryInv, SWITCH_TO_KERNEL
  PROVE  EntryInv'
<1>0. /\ cpu \in CpuType /\ cpu.regs \in [Regs -> Words] /\ cpu.rsp \in RspType
      /\ scratch \in [cr3 : {"", "kpml4", "upml4"}, rsp : Words]
  BY CpuParts DEF EntryInv, TrapTypeOK
<1>b. cpu.rsp.at \in Nat
  BY <1>0 DEF RspType
<1>a. Junk \in Words /\ Scratch \in Regs
  BY GpRegsAre, WordTypes DEF Scratch
<1>1. CASE pc = "switch_cr3" /\ SWITCH_TO_KERNEL
  <2>1. /\ scratch' = [scratch EXCEPT !.cr3 = IF PerCpu THEN cpu.cr3 ELSE @]
        /\ cpu' = [cpu EXCEPT !.cr3 = "kpml4", !.regs[Scratch] = Junk]
        /\ pc' = "switch_rip" /\ UNCHANGED <<bootVars, stacks, sym, frames, inService>>
    BY <1>1 DEF SWITCH_TO_KERNEL, At, KeepTrap
  <2>2. AtSwitch("upml4", "shared")
    BY <1>1 DEF EntryInv, PlaceInv
  <2>4. /\ cpu' \in CpuType /\ cpu'.cr3 = "kpml4" /\ cpu'.cpl = cpu.cpl /\ cpu'.gs = cpu.gs
        /\ cpu'.kgs = cpu.kgs /\ cpu'.rip = cpu.rip /\ cpu'.rsp = cpu.rsp /\ cpu'.if = cpu.if
        /\ cpu'.regs = [cpu.regs EXCEPT ![Scratch] = Junk]
    BY <1>0, <1>a, <2>1, CpuParts DEF CpuType
  <2>5. scratch' \in [cr3 : {"", "kpml4", "upml4"}, rsp : Words] /\ scratch'.rsp = scratch.rsp
        /\ scratch'.cr3 = "upml4"
    BY <1>0, <2>1, <2>2 DEF AtSwitch, Stands, PerCpu
  <2>6. LiveRegs'
    <3>1. LiveRegs
      BY <2>2 DEF AtSwitch
    <3>2. Was' = Was /\ sym' = sym
      BY <2>1, SameContext
    <3>3. /\ \A was : KeepsExtra(cpu.regs, was) => KeepsExtra(cpu'.regs, was)
          /\ cpu'.regs["rbx"] = cpu.regs["rbx"]
      BY <1>0, <2>4, ScratchWrite
    <3> QED BY <3>1, <3>2, <3>3 DEF LiveRegs, EbxOf
  <2>7. SwitchPtRegs' = SwitchPtRegs
    BY <2>1, <2>4, SamePtRegs
  <2>8. Was' = Was /\ boot' = boot
    BY <2>1, SameContext DEF bootVars
  <2>9. AtSwitch("kpml4", "shared")'
    BY <2>1, <2>2, <2>4, <2>6, <2>7, <2>8 DEF AtSwitch, Stands, InTrap, OnKernelStack
  <2>10. PlaceInv'
    BY <2>1, <2>9 DEF PlaceInv
  <2>11. pc' \in Pcs /\ pc' \in BeforeEoi
    BY <2>1 DEF Pcs, BeforeEoi
  <2> QED BY <2>1, <2>4, <2>5, <2>10, <2>11, RegisterStep
<1>2. CASE pc = "switch_rip" /\ SWITCH_TO_KERNEL
  <2>1. /\ cpu' = [cpu EXCEPT !.rip = "identity"]
        /\ pc' = "switch_rsp" /\ UNCHANGED <<bootVars, stacks, scratch, sym, frames, inService>>
    BY <1>2 DEF SWITCH_TO_KERNEL, At, KeepTrap
  <2>2. AtSwitch("kpml4", "shared")
    BY <1>2 DEF EntryInv, PlaceInv
  <2>4. /\ cpu' \in CpuType /\ cpu'.cr3 = cpu.cr3 /\ cpu'.cpl = cpu.cpl /\ cpu'.gs = cpu.gs
        /\ cpu'.kgs = cpu.kgs /\ cpu'.rip = "identity" /\ cpu'.rsp = cpu.rsp /\ cpu'.if = cpu.if
        /\ cpu'.regs = cpu.regs
    BY <1>0, <2>1, CpuParts DEF CpuType, Maps
  <2>6. LiveRegs' /\ SwitchPtRegs'
    BY <2>1, <2>2, <2>4, SameContext, SamePtRegs DEF LiveRegs, AtSwitch
  <2>8. Was' = Was /\ boot' = boot
    BY <2>1, SameContext DEF bootVars
  <2>9. AtSwitch("kpml4", "identity")'
    BY <2>1, <2>2, <2>4, <2>6, <2>8 DEF AtSwitch, Stands, InTrap, OnKernelStack
  <2>10. PlaceInv'
    BY <2>1, <2>9 DEF PlaceInv
  <2>11. pc' \in Pcs /\ pc' \in BeforeEoi
    BY <2>1 DEF Pcs, BeforeEoi
  <2> QED BY <1>0, <2>1, <2>4, <2>10, <2>11, RegisterStep
<1>3. CASE pc = "switch_rsp" /\ SWITCH_TO_KERNEL
  <2> DEFINE c == [cpu EXCEPT !.rsp.map = "identity"]
  <2>1. /\ cpu' = IF apicinterrupt(sym) \/ sym = "do_syscall_64" THEN c ELSE Ret(c)
        /\ pc' = "call" /\ UNCHANGED <<bootVars, stacks, scratch, sym, frames, inService>>
    BY <1>3 DEF SWITCH_TO_KERNEL, At, KeepTrap
  <2>2. AtSwitch("kpml4", "identity")
    BY <1>3 DEF EntryInv, PlaceInv
  <2>3. /\ c \in CpuType /\ c.cr3 = cpu.cr3 /\ c.cpl = cpu.cpl /\ c.gs = cpu.gs
        /\ c.kgs = cpu.kgs /\ c.rip = cpu.rip /\ c.if = cpu.if /\ c.regs = cpu.regs
        /\ c.rsp.stack = cpu.rsp.stack /\ c.rsp.at = cpu.rsp.at
    BY <1>0, CpuParts DEF CpuType, Maps, RspType
  <2>4. /\ cpu' \in CpuType /\ cpu'.cr3 = cpu.cr3 /\ cpu'.cpl = cpu.cpl /\ cpu'.gs = cpu.gs
        /\ cpu'.kgs = cpu.kgs /\ cpu'.rip = "identity" /\ cpu'.if = cpu.if
        /\ cpu'.regs = cpu.regs /\ cpu'.rsp.stack = cpu.rsp.stack
        /\ PtRegs(cpu'.rsp.at) /\ ErrorAt(cpu'.rsp.at - 15)
    <3>0. sym \in ExceptionSyms \cup ApicSyms \cup {"do_syscall_64"}
      BY <2>2 DEF AtSwitch, InTrap, Entered
    <3>1. CASE sym \notin ExceptionSyms
      <4>1. (apicinterrupt(sym) \/ sym = "do_syscall_64") /\ ~has_error_code(sym)
        BY <3>0, <3>1, SymFacts DEF ApicSyms, apicinterrupt, has_error_code
      <4>2. cpu' = c /\ cpu'.rip = "identity" /\ PtRegs(cpu.rsp.at)
        BY <2>1, <2>2, <2>3, <3>1, <4>1 DEF AtSwitch, SwitchPtRegs, Stands
      <4> QED BY <2>3, <4>1, <4>2 DEF ErrorAt
    <3>2. CASE sym \in ExceptionSyms
      <4>1. ~(apicinterrupt(sym) \/ sym = "do_syscall_64")
        BY <3>2, SymFacts DEF ApicSyms, apicinterrupt
      <4>2. /\ PtRegs(cpu.rsp.at - 1) /\ ErrorAt(cpu.rsp.at - 16)
            /\ cpu.rsp.at <= Len(stacks[cpu.rsp.stack])
            /\ stacks[cpu.rsp.stack][cpu.rsp.at] = <<1, "1f", "identity">> /\ OnKernelStack
        BY <2>2, <3>2 DEF AtSwitch, SwitchPtRegs
      <4>3. cpu.rsp.at \in Nat /\ cpu.rsp.at - 1 \in Int
        BY <1>b
      <4>4. cpu.rsp.at - 1 >= 21
        BY <4>2, <4>3, PtRegsRoom
      <4>5. Slot(0) = stacks[cpu.rsp.stack][cpu.rsp.at - 0]
        BY <4>2, <4>3, <4>4, SlotIs DEF EntryInv
      <4>6. Slot(0)[3] = "identity"
        BY <4>2, <4>3, <4>5
      <4>7. cpu' = Ret(c)
        BY <2>1, <4>1
      <4>8. /\ cpu' = [c EXCEPT !.rsp.at = @ - 1, !.rip = "identity"]
        BY <2>3, <4>6, <4>7 DEF Ret, Popped
      <4>9. c.rsp.at - 1 \in Nat
        BY <2>3, <4>3, <4>4
      <4> HIDE DEF c
      <4>10. /\ cpu' \in CpuType /\ cpu'.cr3 = c.cr3 /\ cpu'.cpl = c.cpl /\ cpu'.gs = c.gs
            /\ cpu'.kgs = c.kgs /\ cpu'.rip = "identity" /\ cpu'.if = c.if
            /\ cpu'.regs = c.regs /\ cpu'.rsp.stack = c.rsp.stack /\ cpu'.rsp.at = c.rsp.at - 1
        BY <2>3, <4>8, <4>9, CpuParts DEF CpuType, Maps, RspType
      <4>11. cpu'.rsp.at = cpu.rsp.at - 1 /\ cpu'.rsp.at - 15 = cpu.rsp.at - 16
        BY <2>3, <4>3, <4>10
      <4> QED BY <2>3, <4>2, <4>10, <4>11
    <3> QED BY <3>1, <3>2
  <2>5. PtRegs(cpu.rsp.at)' /\ ErrorAt(cpu.rsp.at - ORIG_RAX)'
    BY <2>1, <2>4, SamePtRegs DEF ORIG_RAX
  <2>6. LiveRegs'
    BY <2>1, <2>2, <2>4, SameContext DEF LiveRegs, AtSwitch
  <2>7. Was' = Was /\ boot' = boot
    BY <2>1, SameContext DEF bootVars
  <2>8. boot = "done" /\ KernelGs(boot) = "shared"
    BY <2>2 DEF AtSwitch, InTrap, Entered, KernelGs
  <2>9. AtCall'
    BY <2>1, <2>2, <2>4, <2>5, <2>6, <2>7, <2>8 DEF AtSwitch, AtCall, KernelContext, Stands, InTrap, OnKernelStack
  <2>10. PlaceInv'
    BY <2>1, <2>9 DEF PlaceInv
  <2>11. pc' \in Pcs /\ pc' \in BeforeEoi
    BY <2>1 DEF Pcs, BeforeEoi
  <2> QED BY <1>0, <2>1, <2>4, <2>10, <2>11, RegisterStep
<1> QED BY <1>1, <1>2, <1>3 DEF SWITCH_TO_KERNEL, At
\* An interrupt in service at the bottom is before its EOI.
LEMMA NotInService ==
  ASSUME EntryInv, pc \notin BeforeEoi \/ sym \notin ApicSyms
  PROVE  ~(inService /\ Len(frames) = 1)
BY DEF EntryInv, ServiceInv

LEMMA UserIsDone ==
  ASSUME Leaving, Was.cpl = 3
  PROVE  boot = "done" /\ KernelGs(boot) = "shared"
BY DEF Leaving, InTrap, Entered, KernelGs

LEMMA ErrorExitStep ==
  ASSUME EntryInv, error_exit
  PROVE  EntryInv'
<1>1. /\ pc' = IF cpu.regs["rbx"] # <<0, "ebx", "">> THEN "retint_kernel" ELSE "retint_user"
      /\ UNCHANGED <<bootVars, cpu, stacks, scratch, sym, frames, inService>>
      /\ pc = "error_exit"
  BY DEF error_exit, At, KeepTrap
<1>2. AtExit /\ sym \in ExceptionSyms /\ sym # "do_syscall_64"
  BY <1>1, SymFacts DEF EntryInv, PlaceInv
<1>3. /\ cpu' = cpu /\ Was' = Was /\ boot' = boot /\ sym' = sym /\ frames' = frames
  BY <1>1, SameContext DEF bootVars
<1>4. PtRegs(cpu.rsp.at)' /\ frames # <<>> /\ InTrap /\ Leaving /\ Leaving' /\ OnKernelStack /\ OnKernelStack'
  BY <1>1, <1>2, <1>3, SamePtRegs DEF AtExit, InTrap, Leaving, OnKernelStack, KernelContext
<1>5. cpu \in CpuType /\ scratch \in [cr3 : {"", "kpml4", "upml4"}, rsp : Words]
  BY DEF EntryInv, TrapTypeOK
<1>6. CASE Was.cpl = 3
  <2>1. pc' = "retint_user"
    BY <1>1, <1>2, <1>6 DEF AtExit, LiveRegs, EbxOf
  <2>2. KernelGs(boot) = "shared"
    BY <1>4, <1>6, UserIsDone
  <2>3. AtBack("kpml4", "identity")'
    BY <1>2, <1>3, <1>4, <1>6, <2>2 DEF AtBack, AtExit, Stands, KernelContext
  <2>4. PlaceInv'
    BY <2>1, <2>3 DEF PlaceInv
  <2>5. pc' \in Pcs /\ ~(inService /\ Len(frames) = 1)
    BY <1>1, <2>1, NotInService DEF Pcs, BeforeEoi
  <2> QED BY <1>1, <1>3, <1>5, <2>4, <2>5, RegisterStep
<1>7. CASE Was.cpl # 3
  <2>a. cpu.regs["rbx"] = <<1, "ebx", "">>
    BY <1>2, <1>7 DEF AtExit, LiveRegs, EbxOf
  <2>b. <<1, "ebx", "">> # <<0, "ebx", "">>
    OBVIOUS
  <2>1. pc' = "retint_kernel"
    BY <1>1, <2>a, <2>b
  <2>2. KernelContext(Was, boot)
    BY <1>4, <1>7, WasKernel DEF EntryInv
  <2>3. AtRetint'
    BY <1>2, <1>3, <1>4, <1>7, <2>2 DEF AtRetint, AtExit, Stands, KernelContext
  <2>4. PlaceInv'
    BY <1>4, <2>1, <2>3 DEF PlaceInv
  <2>5. pc' \in Pcs /\ ~(inService /\ Len(frames) = 1)
    BY <1>1, <2>1, NotInService DEF Pcs, BeforeEoi
  <2> QED BY <1>1, <1>3, <1>5, <2>4, <2>5, RegisterStep
<1> QED BY <1>6, <1>7

LEMMA HandlerDiesStep ==
  ASSUME EntryInv, HandlerDies
  PROVE  EntryInv'
<1>1. /\ pc = "c" /\ pc' = "dead"
      /\ UNCHANGED <<bootVars, cpu, stacks, scratch, sym, frames, inService>>
  BY DEF HandlerDies, Handling, At, KeepTrap
<1>2. cpu.cr3 = "kpml4" /\ cpu \in CpuType /\ scratch \in [cr3 : {"", "kpml4", "upml4"}, rsp : Words]
  BY <1>1 DEF EntryInv, PlaceInv, AtC, KernelContext, TrapTypeOK
<1>3. PlaceInv' /\ pc' \in Pcs /\ pc' \in BeforeEoi
  BY <1>1, <1>2 DEF PlaceInv, Pcs, BeforeEoi
<1> QED BY <1>1, <1>2, <1>3, RegisterStep

LEMMA BackStep ==
  ASSUME EntryInv, SWITCH_TO_USER
  PROVE  EntryInv'
<1>0. /\ cpu \in CpuType /\ cpu.regs \in [Regs -> Words] /\ cpu.rsp \in RspType
      /\ scratch \in [cr3 : {"", "kpml4", "upml4"}, rsp : Words]
  BY CpuParts DEF EntryInv, TrapTypeOK
<1>a. Junk \in Words /\ Scratch \in Regs
  BY GpRegsAre, WordTypes DEF Scratch
<1>1. CASE pc = "retint_user" /\ SWITCH_TO_USER
  <2>1. /\ cpu' = [cpu EXCEPT !.rsp.map = "shared", !.regs[Scratch] = Junk]
        /\ pc' = "back_rip" /\ UNCHANGED <<bootVars, stacks, scratch, sym, frames, inService>>
    BY <1>1 DEF SWITCH_TO_USER, At, KeepTrap
  <2>2. AtBack("kpml4", "identity")
    BY <1>1 DEF EntryInv, PlaceInv
  <2>3. /\ cpu' \in CpuType /\ cpu'.cr3 = cpu.cr3 /\ cpu'.cpl = cpu.cpl /\ cpu'.gs = cpu.gs
        /\ cpu'.kgs = cpu.kgs /\ cpu'.rip = cpu.rip /\ cpu'.if = cpu.if
        /\ cpu'.rsp.stack = cpu.rsp.stack /\ cpu'.rsp.at = cpu.rsp.at /\ cpu'.rsp.map = "shared"
        /\ cpu'.regs = [cpu.regs EXCEPT ![Scratch] = Junk]
    BY <1>0, <1>a, <2>1, CpuParts DEF CpuType, RspType, Maps
  <2>4. \A was : KeepsExtra(cpu.regs, was) => KeepsExtra(cpu'.regs, was)
    BY <1>0, <2>3, ScratchWrite
  <2>5. Was' = Was /\ boot' = boot /\ PtRegs(cpu.rsp.at)'
    BY <2>1, <2>2, <2>3, SameContext, SamePtRegs DEF bootVars, AtBack
  <2>6. AtBack("kpml4", "identity")'
    BY <2>1, <2>2, <2>3, <2>4, <2>5 DEF AtBack, Stands, Leaving, InTrap, OnKernelStack
  <2>7. PlaceInv' /\ pc' \in Pcs
    BY <2>1, <2>3, <2>6 DEF PlaceInv, Pcs
  <2>8. ~(inService /\ Len(frames) = 1)
    BY <1>1, NotInService DEF BeforeEoi
  <2> QED BY <1>0, <2>1, <2>3, <2>7, <2>8, RegisterStep
<1>2. CASE pc = "back_rip" /\ SWITCH_TO_USER
  <2>1. /\ cpu' = [cpu EXCEPT !.rip = "shared"]
        /\ pc' = "back_cr3" /\ UNCHANGED <<bootVars, stacks, scratch, sym, frames, inService>>
    BY <1>2 DEF SWITCH_TO_USER, At, KeepTrap
  <2>2. AtBack("kpml4", "identity") /\ cpu.rsp.map = "shared"
    BY <1>2 DEF EntryInv, PlaceInv
  <2>3. /\ cpu' \in CpuType /\ cpu'.cr3 = cpu.cr3 /\ cpu'.cpl = cpu.cpl /\ cpu'.gs = cpu.gs
        /\ cpu'.kgs = cpu.kgs /\ cpu'.rip = "shared" /\ cpu'.if = cpu.if
        /\ cpu'.rsp = cpu.rsp /\ cpu'.regs = cpu.regs
    BY <1>0, <2>1, CpuParts DEF CpuType, Maps
  <2>5. Was' = Was /\ boot' = boot /\ PtRegs(cpu.rsp.at)'
    BY <2>1, <2>2, <2>3, SameContext, SamePtRegs DEF bootVars, AtBack
  <2>6. AtBack("kpml4", "shared")'
    BY <2>1, <2>2, <2>3, <2>5 DEF AtBack, Stands, Leaving, InTrap, OnKernelStack
  <2>7. PlaceInv' /\ pc' \in Pcs
    BY <2>1, <2>2, <2>3, <2>6 DEF PlaceInv, Pcs
  <2>8. ~(inService /\ Len(frames) = 1)
    BY <1>2, NotInService DEF BeforeEoi
  <2> QED BY <1>0, <2>1, <2>3, <2>7, <2>8, RegisterStep
<1>3. CASE pc = "back_cr3" /\ SWITCH_TO_USER
  <2>1. /\ cpu' = [cpu EXCEPT !.cr3 = scratch.cr3]
        /\ pc' = IF sym = "do_syscall_64" THEN "syscall_restore" ELSE "swapgs_out"
        /\ UNCHANGED <<bootVars, stacks, scratch, sym, frames, inService>>
    BY <1>3 DEF SWITCH_TO_USER, At, KeepTrap
  <2>2. AtBack("kpml4", "shared") /\ cpu.rsp.map = "shared"
    BY <1>3 DEF EntryInv, PlaceInv
  <2>a. boot = "done"
    BY <2>2, UserIsDone DEF AtBack
  <2>b. scratch.cr3 = "upml4"
    BY <2>a DEF EntryInv, ScratchInv
  <2>3. /\ cpu' \in CpuType /\ cpu'.cr3 = "upml4" /\ cpu'.cpl = cpu.cpl /\ cpu'.gs = cpu.gs
        /\ cpu'.kgs = cpu.kgs /\ cpu'.rip = cpu.rip /\ cpu'.if = cpu.if
        /\ cpu'.rsp = cpu.rsp /\ cpu'.regs = cpu.regs
    BY <1>0, <2>1, <2>b, CpuParts DEF CpuType
  <2>5. Was' = Was /\ boot' = boot /\ PtRegs(cpu.rsp.at)'
    BY <2>1, <2>2, <2>3, SameContext, SamePtRegs DEF bootVars, AtBack
  <2>6. AtBack("upml4", "shared")'
    BY <2>1, <2>2, <2>3, <2>5 DEF AtBack, Stands, Leaving, InTrap, OnKernelStack
  <2>7. PlaceInv' /\ pc' \in Pcs
    BY <2>1, <2>2, <2>3, <2>6 DEF PlaceInv, Pcs
  <2>8. ~(inService /\ Len(frames) = 1)
    BY <1>3, NotInService DEF BeforeEoi
  <2> QED BY <1>0, <2>1, <2>3, <2>7, <2>8, RegisterStep
<1> QED BY <1>1, <1>2, <1>3 DEF SWITCH_TO_USER, At

LEMMA SwapgsOutStep ==
  ASSUME EntryInv, swapgs_out
  PROVE  EntryInv'
<1>0. /\ cpu \in CpuType /\ scratch \in [cr3 : {"", "kpml4", "upml4"}, rsp : Words]
  BY DEF EntryInv, TrapTypeOK
<1>1. /\ cpu' = [cpu EXCEPT !.gs = cpu.kgs, !.kgs = cpu.gs]
      /\ pc = "swapgs_out" /\ pc' = "retint_kernel"
      /\ UNCHANGED <<bootVars, stacks, scratch, sym, frames, inService>>
  BY DEF swapgs_out, At, KeepTrap, Swapgs
<1>2. AtBack("upml4", "shared") /\ cpu.rsp.map = "shared" /\ sym # "do_syscall_64"
  BY <1>1 DEF EntryInv, PlaceInv
<1>3. /\ cpu' \in CpuType /\ cpu'.cr3 = cpu.cr3 /\ cpu'.cpl = cpu.cpl /\ cpu'.gs = cpu.kgs
      /\ cpu'.kgs = cpu.gs /\ cpu'.rip = cpu.rip /\ cpu'.if = cpu.if
      /\ cpu'.rsp = cpu.rsp /\ cpu'.regs = cpu.regs
  BY <1>0, <1>1, CpuParts DEF CpuType
<1>4. UserContext(Was)
  BY <1>2, WasUser DEF EntryInv, AtBack
<1>5. Was' = Was /\ boot' = boot /\ PtRegs(cpu.rsp.at)'
  BY <1>1, <1>2, <1>3, SameContext, SamePtRegs DEF bootVars, AtBack
<1>6. AtRetint'
  BY <1>1, <1>2, <1>3, <1>4, <1>5 DEF AtBack, AtRetint, Stands, Leaving, InTrap, OnKernelStack, UserContext
<1>7. PlaceInv' /\ pc' \in Pcs
  BY <1>1, <1>5, <1>6 DEF PlaceInv, Pcs
<1>8. ~(inService /\ Len(frames) = 1)
  BY <1>1, NotInService DEF BeforeEoi
<1> QED BY <1>0, <1>1, <1>3, <1>7, <1>8, RegisterStep
LEMMA SyscallEntryStep ==
  ASSUME EntryInv, do_syscall_64, pc = "entry"
  PROVE  EntryInv'
<1>0. /\ cpu \in CpuType /\ scratch \in [cr3 : {"", "kpml4", "upml4"}, rsp : Words]
  BY DEF EntryInv, TrapTypeOK
<1>1. /\ cpu' = [cpu EXCEPT !.gs = cpu.kgs, !.kgs = cpu.gs]
      /\ sym = "do_syscall_64" /\ pc' = "syscall_stack"
      /\ UNCHANGED <<bootVars, stacks, scratch, sym, frames, inService>>
  BY DEF do_syscall_64, At, KeepTrap, Swapgs
<1>2. AtEntry /\ AtSyscall
  BY <1>1 DEF EntryInv, PlaceInv, AtEntry, AtGate
<1>3. /\ cpu' \in CpuType /\ cpu'.cr3 = cpu.cr3 /\ cpu'.cpl = cpu.cpl /\ cpu'.gs = cpu.kgs
      /\ cpu'.kgs = cpu.gs /\ cpu'.rip = cpu.rip /\ cpu'.if = cpu.if
      /\ cpu'.rsp = cpu.rsp /\ cpu'.regs = cpu.regs
  BY <1>0, <1>1, CpuParts DEF CpuType
<1>4. UserContext(Was)
  <2>1. Was.cpl = 3
    BY <1>1, <1>2 DEF AtEntry, InTrap, Entered
  <2> QED BY <2>1, WasUser DEF EntryInv
<1>5. Was' = Was /\ Level' = Level /\ boot' = boot
  BY <1>1, SameContext DEF bootVars
<1>6. SyscallRegs' = SyscallRegs
  BY <1>5 DEF SyscallRegs
<1>7. AtSyscallStack'
  BY <1>1, <1>2, <1>3, <1>4, <1>5, <1>6 DEF AtEntry, AtSyscall, AtSyscallStack, Stands, InTrap, UserContext
<1>8. PlaceInv' /\ pc' \in Pcs
  BY <1>1, <1>7 DEF PlaceInv, Pcs
<1>9. ~(inService /\ Len(frames) = 1)
  BY <1>1, NotInService, SymFacts
<1> QED BY <1>0, <1>1, <1>3, <1>8, <1>9, RegisterStep

LEMMA RetintKernelStep ==
  ASSUME EntryInv, retint_kernel
  PROVE  EntryInv'
<1>0. /\ cpu \in CpuType /\ cpu.rsp \in RspType /\ scratch \in [cr3 : {"", "kpml4", "upml4"}, rsp : Words]
      /\ Was \in CpuType
  BY CpuParts, WasTypes DEF EntryInv, TrapTypeOK
<1>a. PICK at \in Nat : at = cpu.rsp.at
  BY <1>0 DEF RspType
<1>1. /\ cpu' = [Popped(cpu, 16) EXCEPT !.regs = [r \in Regs |-> Slot(OffsetOf(r))]]
      /\ pc = "retint_kernel" /\ pc' = "iretq"
      /\ UNCHANGED <<bootVars, stacks, scratch, sym, frames, inService>>
  BY DEF retint_kernel, At, KeepTrap
<1>2. AtRetint /\ PtRegs(at)
  BY <1>1, <1>a DEF EntryInv, PlaceInv
<1>3. at >= 21 /\ at <= Len(stacks[cpu.rsp.stack]) /\ OnKernelStack
  BY <1>2, PtRegsRoom DEF AtRetint
<1>4. Frame(stacks[cpu.rsp.stack], at, cpu.rsp.stack, Was, Level)
  BY <1>2 DEF PtRegs, AtRetint
<1>5. ASSUME NEW r \in Regs PROVE Slot(OffsetOf(r)) = Was.regs[r]
  <2>1. PICK o \in 0 .. 14 : o = OffsetOf(r)
    BY OffsetFacts
  <2>2. o \in Nat /\ o < at
    BY <1>3
  <2>3. Slot(o) = stacks[cpu.rsp.stack][at - o]
    BY <1>a, <1>3, <2>2, SlotIs DEF EntryInv
  <2> QED BY <1>4, <2>1, <2>3 DEF Frame
<1>6. [r \in Regs |-> Slot(OffsetOf(r))] = Was.regs
  BY <1>0, <1>5, CpuParts
<1>7. at - 16 \in Nat
  BY <1>3
<1>8. cpu' = [cpu EXCEPT !.rsp.at = at - 16, !.regs = Was.regs]
  BY <1>0, <1>1, <1>6, <1>a DEF Popped
<1>9. /\ cpu' \in CpuType /\ cpu'.cr3 = cpu.cr3 /\ cpu'.cpl = cpu.cpl /\ cpu'.gs = cpu.gs
      /\ cpu'.kgs = cpu.kgs /\ cpu'.rip = cpu.rip /\ cpu'.if = cpu.if
      /\ cpu'.rsp.stack = cpu.rsp.stack /\ cpu'.rsp.map = cpu.rsp.map /\ cpu'.rsp.at = at - 16
      /\ cpu'.regs = Was.regs
  BY <1>0, <1>7, <1>8, CpuParts DEF CpuType, RspType
<1>10. Was' = Was /\ Level' = Level /\ boot' = boot
  BY <1>1, SameContext DEF bootVars
<1>11. AtRetint'
  BY <1>1, <1>2, <1>9, <1>10 DEF AtRetint, Stands, Leaving, InTrap, OnKernelStack
<1>12. HardwareFrame(stacks'[cpu'.rsp.stack], cpu'.rsp.at, cpu'.rsp.stack, Was', Level')
  BY <1>1, <1>4, <1>9, <1>10 DEF Frame, RIP
<1>13. PlaceInv' /\ pc' \in Pcs
  BY <1>1, <1>9, <1>10, <1>11, <1>12 DEF PlaceInv, Pcs
<1>14. ~(inService /\ Len(frames) = 1)
  BY <1>1, NotInService DEF BeforeEoi
<1> QED BY <1>0, <1>1, <1>9, <1>13, <1>14, RegisterStep
\* What the C handler finds on its stack when it returns.
LEMMA HandlerSlots ==
  ASSUME EntryInv, OnKernelStack, InTrap, NEW at \in Nat, at = cpu.rsp.at,
         Handles(stacks[cpu.rsp.stack], cpu, sym, Was, Of, Level)
  PROVE  /\ at - 8 >= 21 /\ PtRegs(at - 8)
         /\ \A n \in 0 .. 7 : Slot(n) = stacks[cpu.rsp.stack][at - n] /\ Slot(n) \in Words
         /\ Slot(7) = <<at - 8, cpu.rsp.stack, cpu.rsp.map>> /\ Slot(6) = <<2, "return", "identity">>
         /\ sym = "do_syscall_64" => \A i \in 1 .. 6 : Slot(6 - i) = Was.regs[ExtraRegs[i]]
         /\ sym \in ExceptionSyms => Slot(0) = EbxOf(Was)
<1>1. PICK F \in Int : F = at - 8
  OBVIOUS
<1>2. PICK S : S = stacks[cpu.rsp.stack]
  OBVIOUS
<1>3. /\ at <= Len(S)
      /\ S[F + 1] = <<F, cpu.rsp.stack, cpu.rsp.map>> /\ S[F + 2] = <<2, "return", "identity">>
      /\ IF sym = "do_syscall_64"
         THEN /\ SyscallFrame(S, F, Was, Level)
              /\ \A i \in 1 .. 6 : S[F + 2 + i] = Was.regs[ExtraRegs[i]]
         ELSE /\ Frame(S, F, cpu.rsp.stack, Was, Level)
              /\ ~apicinterrupt(sym) => S[F + 8] = EbxOf(Was)
  BY <1>1, <1>2 DEF Handles
<1>4. F >= 21
  <2>1. CASE sym = "do_syscall_64"
    BY <1>3, <2>1 DEF SyscallFrame
  <2>2. CASE sym # "do_syscall_64"
    <3>1. F - 16 >= 5
      BY <1>3, <2>2 DEF Frame, HardwareFrame, RIP
    <3> QED BY <3>1
  <2> QED BY <2>1, <2>2
<1>5. ASSUME NEW n \in 0 .. 7 PROVE Slot(n) = S[at - n] /\ Slot(n) \in Words
  <2>1. n \in Nat /\ n < at
    BY <1>1, <1>4
  <2> QED BY <1>2, <1>3, <2>1, SlotIs DEF EntryInv
<1>6. /\ at - 7 = F + 1 /\ at - 6 = F + 2 /\ at - 0 = F + 8
      /\ \A i \in 1 .. 6 : at - (6 - i) = F + 2 + i /\ 6 - i \in 0 .. 7
  BY <1>1
<1>7. Slot(7) = S[at - 7] /\ Slot(6) = S[at - 6] /\ Slot(0) = S[at - 0]
  BY <1>5
<1>8. ASSUME sym = "do_syscall_64", NEW i \in 1 .. 6 PROVE Slot(6 - i) = Was.regs[ExtraRegs[i]]
  BY <1>5, <1>6, <1>3, <1>8
<1>9. ASSUME sym \in ExceptionSyms PROVE Slot(0) = EbxOf(Was)
  <2>1. sym # "do_syscall_64" /\ ~apicinterrupt(sym)
    BY <1>9, SymFacts
  <2> QED BY <1>3, <1>6, <1>7, <2>1
<1>10. PtRegs(F)
  <2>1. sym = "do_syscall_64" => cpu.rsp.stack = "cpu"
    BY DEF OnKernelStack, InTrap, Entered
  <2> QED BY <1>2, <1>3, <2>1 DEF PtRegs
<1> QED BY <1>1, <1>2, <1>3, <1>4, <1>5, <1>6, <1>7, <1>8, <1>9, <1>10

LEMMA HandlerReturnsStep ==
  ASSUME EntryInv, HandlerReturns
  PROVE  EntryInv'
<1> DEFINE kept == [r \in Regs |-> IF \E i \in 1 .. 6 : ExtraRegs[i] = r
                                   THEN Slot(OffsetOf("rbx") - OffsetOf(r)) ELSE Junk]
           regs == [kept EXCEPT !["rax"] = <<Len(frames), "result", "">>]
<1>0. /\ cpu \in CpuType /\ cpu.rsp \in RspType /\ scratch \in [cr3 : {"", "kpml4", "upml4"}, rsp : Words]
      /\ inService \in BOOLEAN /\ Len(frames) \in Nat
  BY CpuParts, FrameTypes DEF EntryInv, TrapTypeOK
<1>a. PICK at \in Nat : at = cpu.rsp.at
  BY <1>0 DEF RspType
<1>1. /\ cpu' = [cpu EXCEPT !.rsp = RspOf(Slot(7)), !.rip = Slot(6)[3], !.regs = regs]
      /\ pc = "c" /\ frames # <<>> /\ sym \notin {"double_fault", "spurious_interrupt"}
      /\ inService' = Eoi
      /\ pc' = CASE sym = "do_syscall_64" -> "syscall_exit"
                 [] apicinterrupt(sym) -> "retint_user"
                 [] OTHER -> "error_exit"
      /\ UNCHANGED <<bootVars, stacks, scratch, sym, frames>>
  BY DEF HandlerReturns, Handling, At
<1> HIDE DEF regs
<1>2. AtC /\ KernelContext(cpu, boot) /\ InTrap /\ OnKernelStack
      /\ Handles(stacks[cpu.rsp.stack], cpu, sym, Was, Of, Level)
  BY <1>1 DEF EntryInv, PlaceInv, AtC, KernelContext, OnKernelStack
<1>3. /\ at - 8 >= 21 /\ PtRegs(at - 8)
      /\ \A n \in 0 .. 7 : Slot(n) = stacks[cpu.rsp.stack][at - n] /\ Slot(n) \in Words
      /\ Slot(7) = <<at - 8, cpu.rsp.stack, cpu.rsp.map>> /\ Slot(6) = <<2, "return", "identity">>
      /\ sym = "do_syscall_64" => \A i \in 1 .. 6 : Slot(6 - i) = Was.regs[ExtraRegs[i]]
      /\ sym \in ExceptionSyms => Slot(0) = EbxOf(Was)
  BY <1>2, <1>a, HandlerSlots
<1>4. regs \in [Regs -> Words] /\ \A i \in 1 .. 6 : regs[ExtraRegs[i]] = Slot(6 - i)
  <2>a. Len(frames) \in Int
    <3>1. \A n \in Nat : n \in Int
      OBVIOUS
    <3> QED BY <1>0, <3>1, Zenon
  <2>1. <<Len(frames), "result", "">> \in Words /\ Junk \in Words
    BY <2>a, WordTypes, Zenon
  <2>2. ASSUME NEW i \in 1 .. 6 PROVE OffsetOf("rbx") - OffsetOf(ExtraRegs[i]) = 6 - i /\ 6 - i \in 0 .. 7
    BY Offsets, ExtraRegsAre
  <2>3. ASSUME NEW r \in Regs PROVE kept[r] \in Words
    <3>1. CASE \E i \in 1 .. 6 : ExtraRegs[i] = r
      <4>1. PICK i \in 1 .. 6 : ExtraRegs[i] = r
        BY <3>1
      <4>2. kept[r] = Slot(OffsetOf("rbx") - OffsetOf(r))
        BY <3>1
      <4>3. OffsetOf("rbx") - OffsetOf(r) \in 0 .. 7
        BY <2>2, <4>1
      <4> QED BY <1>3, <4>2, <4>3
    <3>2. CASE ~ \E i \in 1 .. 6 : ExtraRegs[i] = r
      BY <2>1, <3>2
    <3> QED BY <3>1, <3>2
  <2>4. kept \in [Regs -> Words]
    BY <2>3
  <2>5. ASSUME NEW i \in 1 .. 6 PROVE regs[ExtraRegs[i]] = Slot(6 - i)
    BY ExtraRegsAre, <2>4, <2>2, Zenon DEF regs
  <2>6. regs \in [Regs -> Words]
    BY <2>1, <2>4 DEF regs
  <2> QED BY <2>5, <2>6
<1>5. PICK F \in Nat : F = at - 8
  BY <1>3
<1>6. /\ RspOf(Slot(7)) = [stack |-> cpu.rsp.stack, at |-> F, map |-> cpu.rsp.map] /\ Slot(6)[3] = "identity"
  BY <1>3, <1>5 DEF RspOf
<1>7. /\ cpu' \in CpuType /\ cpu'.cr3 = cpu.cr3 /\ cpu'.cpl = cpu.cpl /\ cpu'.gs = cpu.gs
      /\ cpu'.kgs = cpu.kgs /\ cpu'.rip = "identity" /\ cpu'.if = cpu.if
      /\ cpu'.rsp.stack = cpu.rsp.stack /\ cpu'.rsp.map = cpu.rsp.map /\ cpu'.rsp.at = F
      /\ cpu'.regs = regs
  <2>1. PICK rsp \in RspType : /\ rsp = RspOf(Slot(7)) /\ rsp.stack = cpu.rsp.stack /\ rsp.at = F
                                /\ rsp.map = cpu.rsp.map
    <3>1. [stack |-> cpu.rsp.stack, at |-> F, map |-> cpu.rsp.map] \in RspType
      BY <1>0 DEF RspType
    <3> QED BY <1>6, <3>1
  <2>2. cpu' = [cpu EXCEPT !.rsp = rsp, !.rip = "identity", !.regs = regs]
    BY <1>1, <1>6, <2>1
  <2> QED BY <1>0, <1>4, <2>1, <2>2, CpuParts DEF CpuType, Maps
<1>8. PtRegs(cpu.rsp.at)' /\ Was' = Was /\ boot' = boot
  BY <1>1, <1>3, <1>5, <1>7, SameContext, SamePtRegs DEF bootVars
<1>9. InTrap' /\ KernelContext(cpu, boot)' /\ OnKernelStack' /\ Leaving'
  BY <1>1, <1>2, <1>7, <1>8 DEF InTrap, KernelContext, OnKernelStack, Leaving
<1>10. inService' \in BOOLEAN /\ (inService' => inService)
  <2>1. CASE inService = TRUE
    BY <1>1, <2>1 DEF Eoi
  <2>2. CASE inService = FALSE
    BY <1>1, <2>2 DEF Eoi
  <2> QED BY <1>0, <2>1, <2>2
<1>11. ~(inService' /\ Len(frames) = 1)
  <2>1. SUFFICES ASSUME inService', Len(frames) = 1 PROVE FALSE
    OBVIOUS
  <2>2. sym \in ApicSyms
    BY <1>10, <2>1 DEF EntryInv, ServiceInv
  <2>3. sym \in {"apic_timer_interrupt", "error_interrupt"}
    BY <1>1, <2>2 DEF ApicSyms
  <2> QED BY <1>1, <2>1, <2>3 DEF Eoi
<1>12. sym \in ExceptionSyms \cup ApicSyms \cup {"do_syscall_64"}
  BY <1>2 DEF InTrap, Entered
<1>13. LiveRegs'
  <2>1. ASSUME sym = "do_syscall_64" PROVE KeepsExtra(cpu'.regs, Was)
    BY <1>3, <1>4, <1>7, <2>1 DEF KeepsExtra
  <2>2. ASSUME sym \in ExceptionSyms PROVE cpu'.regs["rbx"] = EbxOf(Was)
    <3>1. regs[ExtraRegs[6]] = Slot(6 - 6) /\ ExtraRegs[6] = "rbx"
      BY <1>4, ExtraRegsAre
    <3> QED BY <1>3, <1>7, <2>2, <3>1
  <2> QED BY <1>1, <1>8, <2>1, <2>2 DEF LiveRegs, EbxOf
<1>14. PlaceInv' /\ pc' \in Pcs
  <2>1. CASE sym = "do_syscall_64"
    <3>1. pc' = "syscall_exit"
      BY <1>1, <2>1, SymFacts
    <3>2. AtExit' /\ sym' = "do_syscall_64"
      BY <1>1, <1>8, <1>9, <1>13, <2>1 DEF AtExit
    <3> QED BY <3>1, <3>2 DEF PlaceInv, Pcs
  <2>2. CASE sym \in ApicSyms
    <3>1. sym # "do_syscall_64" /\ apicinterrupt(sym)
      BY <2>2, SymFacts
    <3>2. pc' = "retint_user"
      BY <1>1, <3>1
    <3>3. Was.cpl = 3
      BY <1>2, <2>2 DEF InTrap, Entered
    <3>4. Leaving
      BY <1>1, <1>2 DEF Leaving
    <3>5. KernelGs(boot) = "shared"
      BY <3>3, <3>4, UserIsDone
    <3>6. AtBack("kpml4", "identity")'
      BY <1>1, <1>8, <1>9, <3>1, <3>3, <3>5 DEF AtBack, KernelContext, Stands
    <3> QED BY <3>2, <3>6 DEF PlaceInv, Pcs
  <2>3. CASE sym \in ExceptionSyms
    <3>1. sym # "do_syscall_64" /\ ~apicinterrupt(sym)
      BY <2>3, SymFacts
    <3>2. pc' = "error_exit"
      BY <1>1, <3>1
    <3>3. AtExit' /\ sym' \in ExceptionSyms
      BY <1>1, <1>8, <1>9, <1>13, <2>3 DEF AtExit
    <3> QED BY <3>2, <3>3 DEF PlaceInv, Pcs
  <2> QED BY <1>12, <2>1, <2>2, <2>3
<1> QED BY <1>0, <1>1, <1>7, <1>10, <1>11, <1>14, QuietStep-----------------------------------------------------------------------------
(***************************************************************************)
(* System calls.                                                           *)
(***************************************************************************)
\* A system call is at the bottom: no context depends on the stack.
LEMMA ChainOne ==
  ASSUME ChainInv, frames' = frames, boot' = boot, Len(frames) = 1
  PROVE  ChainInv'
<1>1. \A n \in 2 .. Len(frames) : FALSE
  OBVIOUS
<1> QED BY <1>1 DEF ChainInv

LEMMA SyscallContext ==
  ASSUME EntryInv, InTrap, sym = "do_syscall_64"
  PROVE  /\ Was.cpl = 3 /\ UserContext(Was) /\ Len(frames) = 1 /\ boot = "done"
         /\ Was \in CpuType /\ Level \in Nat /\ ~(inService /\ Len(frames) = 1)
<1>1. Was.cpl = 3 /\ boot = "done" /\ frames # <<>>
  BY DEF InTrap, Entered
<1>2. UserContext(Was) /\ Len(frames) = 1 /\ Was \in CpuType /\ Level \in Nat
  BY <1>1, WasUser, WasTypes DEF EntryInv
<1> QED BY <1>1, <1>2, NotInService, SymFacts

LEMMA SyscallRestoreStep ==
  ASSUME EntryInv, syscall_restore
  PROVE  EntryInv'
<1> DEFINE regs == [r \in Regs |->
                  CASE r = "rcx" -> Slot(RIP) [] r = "r11" -> Slot(RFLAGS)
                    [] r \in ToSet(ExtraRegs) -> cpu.regs[r] [] OTHER -> Slot(OffsetOf(r))]
<1>0. /\ cpu \in CpuType /\ cpu.rsp \in RspType /\ scratch \in [cr3 : {"", "kpml4", "upml4"}, rsp : Words]
  BY CpuParts DEF EntryInv, TrapTypeOK
<1>a. PICK at \in Nat : at = cpu.rsp.at
  BY <1>0 DEF RspType
<1>1. /\ cpu' = [Swapgs(cpu) EXCEPT !.regs = regs, !.rsp = RspOf(scratch.rsp)]
      /\ pc = "syscall_restore" /\ pc' = "sysretq"
      /\ UNCHANGED <<bootVars, stacks, scratch, sym, frames, inService>>
  BY DEF syscall_restore, At, KeepTrap
<1> HIDE DEF regs
<1>2. AtBack("upml4", "shared") /\ sym = "do_syscall_64" /\ PtRegs(at)
  BY <1>1, <1>a DEF EntryInv, PlaceInv, AtBack
<1>3. InTrap /\ OnKernelStack
  BY <1>2 DEF AtBack, Leaving
<1>4. /\ Was.cpl = 3 /\ UserContext(Was) /\ Len(frames) = 1 /\ boot = "done"
      /\ Was \in CpuType /\ Level \in Nat /\ ~(inService /\ Len(frames) = 1)
  BY <1>2, <1>3, SyscallContext
<1>5. PICK S \in Seq(Words) : S = stacks[cpu.rsp.stack]
  BY <1>3 DEF EntryInv, TrapTypeOK, OnKernelStack
<1>6. cpu.rsp.stack = "cpu" /\ SyscallFrame(S, at, Was, Level)
  BY <1>2, <1>5 DEF PtRegs
<1>7. at >= 21 /\ at <= Len(S)
  BY <1>6 DEF SyscallFrame
<1>8. ASSUME NEW n \in 0 .. 20 PROVE Slot(n) = S[at - n] /\ Slot(n) \in Words
  <2>1. n \in Nat /\ n < at
    BY <1>7
  <2> QED BY <1>3, <1>5, <1>7, <1>a, <2>1, SlotIs DEF EntryInv
<1>9. /\ Slot(16) = <<Level, "rip", Was.rip>> /\ Slot(18) = FlagsOf(Level, Was.if)
      /\ Slot(16) \in Words /\ Slot(18) \in Words
  <2>1. S[at - 16] = <<Level, "rip", Was.rip>> /\ S[at - 18] = FlagsOf(Level, Was.if)
    BY <1>6 DEF SyscallFrame, RIP, RFLAGS
  <2>2. 16 \in 0 .. 20 /\ 18 \in 0 .. 20
    OBVIOUS
  <2> QED BY <1>8, <2>1, <2>2
<1>10. /\ regs["rcx"] = Slot(16) /\ regs["r11"] = Slot(18)
       /\ \A r \in ToSet(ExtraRegs) : regs[r] = cpu.regs[r]
       /\ \A r \in FrameRegs \cup {"rax"} : regs[r] = Slot(OffsetOf(r))
  BY GpRegsAre, ExtraRegsAre DEF regs, RIP, RFLAGS, FrameRegs
<1>11. \A r \in Regs : r \in ToSet(ExtraRegs) \/ r \in FrameRegs \cup {"rax"} \/ r = "rcx" \/ r = "r11"
  BY GpRegsAre, ExtraRegsAre DEF FrameRegs
<1>12. regs \in [Regs -> Words]
  <2>1. ASSUME NEW r \in Regs PROVE regs[r] \in Words
    <3>1. OffsetOf(r) \in 0 .. 20
      BY OffsetFacts
    <3>2. cpu.regs[r] \in Words
      BY <1>0, CpuParts
    <3> QED BY <1>8, <1>9, <1>10, <1>11, <3>1, <3>2
  <2> QED BY <2>1 DEF regs
<1>13. \A r \in Regs \ {"rax", "rcx", "r11"} : regs[r] = Was.regs[r]
  <2>1. ASSUME NEW r \in FrameRegs PROVE regs[r] = Was.regs[r]
    <3>1. OffsetOf(r) \in 0 .. 20
      BY <2>1, FrameRegsAre, OffsetFacts
    <3>2. S[at - OffsetOf(r)] = Was.regs[r]
      BY <1>6 DEF SyscallFrame
    <3> QED BY <1>8, <1>10, <3>1, <3>2
  <2>2. ASSUME NEW r \in ToSet(ExtraRegs) PROVE regs[r] = Was.regs[r]
    <3>1. KeepsExtra(cpu.regs, Was)
      BY <1>2 DEF AtBack
    <3>2. PICK i \in 1 .. 6 : ExtraRegs[i] = r
      BY ExtraRegsAre
    <3> QED BY <1>10, <3>1, <3>2 DEF KeepsExtra
  <2> QED BY <1>11, <2>1, <2>2
<1>14. scratch.rsp = RspWord(UserRsp)
  BY <1>2, <1>6 DEF EntryInv, ScratchInv
<1>15. UserRsp \in RspType /\ RspOf(scratch.rsp) = UserRsp /\ Was.rsp = UserRsp
  <2>1. UserRsp \in RspType
    BY DEF UserRsp, RspType, StackNames, Maps
  <2> QED BY <1>4, <1>14, <2>1, WordFields DEF UserContext
<1>16. cpu' = [cpu EXCEPT !.gs = cpu.kgs, !.kgs = cpu.gs, !.regs = regs, !.rsp = UserRsp]
  BY <1>1, <1>15 DEF Swapgs
<1>17. /\ cpu' \in CpuType /\ cpu'.cr3 = cpu.cr3 /\ cpu'.cpl = cpu.cpl /\ cpu'.gs = cpu.kgs
       /\ cpu'.kgs = cpu.gs /\ cpu'.rip = cpu.rip /\ cpu'.if = cpu.if
       /\ cpu'.rsp = UserRsp /\ cpu'.regs = regs
  BY <1>0, <1>12, <1>15, <1>16, CpuParts DEF CpuType
<1>18. Was' = Was /\ Level' = Level /\ boot' = boot
  BY <1>1, SameContext DEF bootVars
<1>19. InTrap'
  <2>1. cpu'.rsp.stack = "user"
    BY <1>17 DEF UserRsp
  <2> QED BY <1>1, <1>2, <1>3, <1>4, <1>18, <2>1 DEF InTrap, Entered, UserContext, UserRsp
<1>20. AtSysretq'
  BY <1>1, <1>2, <1>4, <1>9, <1>10, <1>13, <1>15, <1>17, <1>18, <1>19
  DEF AtSysretq, Stands, AtBack, UserContext
<1>21. PlaceInv' /\ pc' \in Pcs
  BY <1>1, <1>20 DEF PlaceInv, Pcs
<1>22. ChainInv'
  BY <1>1, <1>4, <1>18, ChainOne DEF EntryInv
<1>23. TrapTypeOK'
  BY <1>1, <1>17, <1>21 DEF EntryInv, TrapTypeOK
<1>24. ScratchInv' /\ ServiceInv'
  BY <1>1, <1>4, <1>14, <1>18 DEF EntryInv, ScratchInv, ServiceInv
<1> QED BY <1>21, <1>22, <1>23, <1>24 DEF EntryInv
\* Two groups of words pushed one after the other.
LEMMA Joined ==
  ASSUME NEW a \in Seq(Words), NEW b \in Seq(Words), NEW m \in Nat, m = Len(a), NEW n \in Nat, n = Len(b),
         NEW w, w = a \o b
  PROVE  /\ w \in Seq(Words) /\ Len(w) = m + n
         /\ \A i \in 1 .. m : w[i] = a[i]
         /\ \A i \in 1 .. n : w[m + i] = b[i]
<1>1. /\ a \o b \in Seq(Words) /\ Len(a \o b) = Len(a) + Len(b)
      /\ \A i \in 1 .. (Len(a) + Len(b)) : (a \o b)[i] = IF i <= Len(a) THEN a[i] ELSE b[i - Len(a)]
  BY ConcatProperties, Zenon
<1>2. /\ w \in Seq(Words) /\ Len(w) = m + n
      /\ \A i \in 1 .. (m + n) : w[i] = IF i <= m THEN a[i] ELSE b[i - m]
  BY <1>1
<1>3. ASSUME NEW i \in 1 .. n PROVE w[m + i] = b[i]
  <2>1. m + i \in 1 .. (m + n) /\ ~(m + i <= m) /\ (m + i) - m = i
    OBVIOUS
  <2> QED BY <1>2, <2>1
<1> QED BY <1>2, <1>3

\* k words of any value.
LEMMA JunkWords ==
  ASSUME NEW k \in Nat
  PROVE  [i \in 1 .. k |-> Junk] \in Seq(Words) /\ Len([i \in 1 .. k |-> Junk]) = k
<1>1. Junk \in Words
  BY WordTypes, Zenon
<1> QED BY <1>1

LEMMA FifteenWords ==
  ASSUME NEW x1 \in Words, NEW x2 \in Words, NEW x3 \in Words, NEW x4 \in Words, NEW x5 \in Words,
         NEW x6 \in Words, NEW x7 \in Words, NEW x8 \in Words, NEW x9 \in Words, NEW x10 \in Words,
         NEW x11 \in Words, NEW x12 \in Words, NEW x13 \in Words, NEW x14 \in Words, NEW x15 \in Words
  PROVE  /\ <<x1, x2, x3, x4, x5, x6, x7, x8, x9, x10, x11, x12, x13, x14, x15>> \in Seq(Words)
         /\ Len(<<x1, x2, x3, x4, x5, x6, x7, x8, x9, x10, x11, x12, x13, x14, x15>>) = 15
OBVIOUS

\* Words pushed on an empty stack.
LEMMA PushedFirst ==
  ASSUME NEW S \in Seq(Words), NEW w \in Seq(Words)
  PROVE  SubSeq(S, 1, 0) \o w = w
<1>1. SubSeq(S, 1, 0) = <<>>
  OBVIOUS
<1> QED BY <1>1

LEMMA SyscallStackStep ==
  ASSUME EntryInv, do_syscall_64, pc = "syscall_stack"
  PROVE  EntryInv'
<1> DEFINE R(r) == cpu.regs[r]
           c == [cpu EXCEPT !.rsp = [stack |-> "cpu", at |-> 0, map |-> "shared"]]
           a == <<<<3, "ss", "">>, scratch'.rsp, R("r11"), <<3, "cs", "">>, R("rcx"), R("rax"),
                  R("rdi"), R("rsi"), R("rdx"), R("rcx"), <<-1, "ENOSYS", "">>,
                  R("r8"), R("r9"), R("r10"), R("r11")>>
           b == [i \in 1 .. 6 |-> Junk]
           w == a \o b
<1>0. /\ cpu \in CpuType /\ cpu.rsp \in RspType /\ scratch \in [cr3 : {"", "kpml4", "upml4"}, rsp : Words]
      /\ cpu.regs \in [Regs -> Words]
  BY CpuParts DEF EntryInv, TrapTypeOK
<1>1. /\ scratch' = [scratch EXCEPT !.rsp = IF PerCpu THEN RspWord(cpu.rsp) ELSE @]
      /\ stacks' = [stacks EXCEPT ![c.rsp.stack] = SubSeq(@, 1, c.rsp.at) \o w]
      /\ cpu' = [c EXCEPT !.rsp.at = @ + Len(w)]
      /\ pc' \in {"switch_cr3", "syscall_restore"}
      /\ UNCHANGED <<bootVars, sym, frames, inService>>
  BY DEF do_syscall_64, At, KeepTrap, Push
<1>2. InTrap /\ Stands("upml4", "shared", "user", "shared") /\ AtSyscall /\ sym = "do_syscall_64"
  BY DEF EntryInv, PlaceInv, AtSyscallStack, AtSyscall
<1>4. /\ Was.cpl = 3 /\ UserContext(Was) /\ Len(frames) = 1 /\ boot = "done"
      /\ Was \in CpuType /\ Level \in Nat /\ ~(inService /\ Len(frames) = 1)
  BY <1>2, SyscallContext
<1>5. cpu.rsp = UserRsp
  BY <1>2, <1>4 DEF AtSyscall, UserContext
<1>6. scratch' = [scratch EXCEPT !.rsp = RspWord(UserRsp)]
  BY <1>1, <1>2, <1>5 DEF Stands, PerCpu
<1>7. scratch' \in [cr3 : {"", "kpml4", "upml4"}, rsp : Words] /\ scratch'.rsp = RspWord(UserRsp)
      /\ scratch'.cr3 = scratch.cr3
  <2>1. RspWord(UserRsp) \in Words
    BY <1>0, <1>5, WordTypes
  <2> QED BY <1>0, <1>6, <2>1
<1>8. a \in Seq(Words) /\ Len(a) = 15
  <2>1. \A r \in Regs : R(r) \in Words
    BY <1>0
  <2>2. /\ <<3, "ss", "">> \in Words /\ <<3, "cs", "">> \in Words /\ <<-1, "ENOSYS", "">> \in Words
        /\ scratch'.rsp \in Words
    <3>1. 3 \in Int
      OBVIOUS
    <3>2. scratch'.rsp \in Words
      BY <1>7
    <3> QED BY <3>1, <3>2, WordTypes, Zenon
  <2>3. /\ R("r11") \in Words /\ R("rcx") \in Words /\ R("rax") \in Words /\ R("rdi") \in Words
        /\ R("rsi") \in Words /\ R("rdx") \in Words /\ R("r8") \in Words /\ R("r9") \in Words
        /\ R("r10") \in Words
    BY <2>1, GpRegsAre
  <2> HIDE DEF R
  <2> QED BY <2>2, <2>3, FifteenWords, Zenon
<1>9. /\ a[3] = R("r11") /\ a[5] = R("rcx") /\ a[7] = R("rdi") /\ a[8] = R("rsi") /\ a[9] = R("rdx")
      /\ a[12] = R("r8") /\ a[13] = R("r9") /\ a[14] = R("r10")
  OBVIOUS
<1>b. w = a \o b
  OBVIOUS
<1> HIDE DEF a, b, w
<1>10. b \in Seq(Words) /\ Len(b) = 6
  BY JunkWords DEF b
<1>11. w \in Seq(Words) /\ Len(w) = 21 /\ \A i \in 1 .. 15 : w[i] = a[i]
  <2>1. PICK m \in Nat : m = 15 /\ m = Len(a)
    BY <1>8
  <2>2. PICK n \in Nat : n = 6 /\ n = Len(b)
    BY <1>10
  <2>3. m = Len(a) /\ n = Len(b) /\ a \in Seq(Words) /\ b \in Seq(Words)
    BY <1>8, <1>10, <2>1, <2>2
  <2>4. w \in Seq(Words) /\ Len(w) = m + n /\ \A i \in 1 .. m : w[i] = a[i]
    BY <1>b, <2>3, Joined
  <2>5. m = 15 /\ m + n = 21
    BY <2>1, <2>2
  <2> QED BY <2>4, <2>5, Zenon
<1>12. PICK S \in Seq(Words) : S = stacks["cpu"]
  BY DEF EntryInv, TrapTypeOK
<1>13. c.rsp.stack = "cpu" /\ c.rsp.at = 0 /\ c \in CpuType /\ c.rsp.map = "shared"
       /\ c.cr3 = cpu.cr3 /\ c.cpl = cpu.cpl /\ c.gs = cpu.gs /\ c.kgs = cpu.kgs /\ c.rip = cpu.rip /\ c.if = cpu.if
       /\ c.regs = cpu.regs
  BY <1>0, CpuParts DEF CpuType, RspType, StackNames, Maps
<1> HIDE DEF c
<1>14. PICK T : T = w
  OBVIOUS
<1>15. SubSeq(S, 1, 0) \o w = T
  BY <1>11, <1>14, PushedFirst
<1>16. T \in Seq(Words) /\ Len(T) = 21 /\ \A y \in 1 .. 15 : T[y] = a[y]
  BY <1>11, <1>14
<1>17. stacks' = [stacks EXCEPT !["cpu"] = T]
  BY <1>1, <1>12, <1>13, <1>15
<1>18. stacks' \in [{"cpu", "ist"} -> Seq(Words)] /\ stacks'["cpu"] = T
  BY <1>16, <1>17 DEF EntryInv, TrapTypeOK
<1>19. /\ cpu' \in CpuType /\ cpu'.cr3 = cpu.cr3 /\ cpu'.cpl = cpu.cpl /\ cpu'.gs = cpu.gs
       /\ cpu'.kgs = cpu.kgs /\ cpu'.rip = cpu.rip /\ cpu'.if = cpu.if /\ cpu'.regs = cpu.regs
       /\ cpu'.rsp.stack = "cpu" /\ cpu'.rsp.at = 21 /\ cpu'.rsp.map = "shared"
  <2>1. cpu' = [c EXCEPT !.rsp.at = 21]
    BY <1>1, <1>11, <1>13, CpuParts
  <2> QED BY <1>13, <2>1, CpuParts DEF CpuType, RspType
<1>20. Was' = Was /\ Level' = Level /\ boot' = boot /\ sym' = sym
  BY <1>1, SameContext DEF bootVars
<1>21. cpu.regs = SyscallRegs
  BY <1>2 DEF AtSyscall
<1>22. /\ R("rcx") = <<Level, "rip", Was.rip>> /\ R("r11") = FlagsOf(Level, Was.if)
       /\ \A r \in Regs \ {"rcx", "r11"} : R(r) = Was.regs[r]
  BY <1>4, <1>21, GpRegsAre, CpuParts DEF SyscallRegs
<1> HIDE DEF R
<1>23. SyscallFrame(T, 21, Was, Level)
  <2>1. T[3] = FlagsOf(Level, Was.if) /\ T[5] = <<Level, "rip", Was.rip>>
    BY <1>9, <1>16, <1>22
  <2>2. /\ T[7] = R("rdi") /\ T[8] = R("rsi") /\ T[9] = R("rdx")
        /\ T[12] = R("r8") /\ T[13] = R("r9") /\ T[14] = R("r10")
    BY <1>9, <1>16
  <2>3. /\ 21 - OffsetOf("rdi") = 7 /\ 21 - OffsetOf("rsi") = 8 /\ 21 - OffsetOf("rdx") = 9
        /\ 21 - OffsetOf("r8") = 12 /\ 21 - OffsetOf("r9") = 13 /\ 21 - OffsetOf("r10") = 14
    BY Offsets
  <2>4. \A r \in FrameRegs : R(r) = Was.regs[r]
    BY <1>22, GpRegsAre DEF FrameRegs
  <2>5. \A r \in FrameRegs : T[21 - OffsetOf(r)] = Was.regs[r]
    BY <2>2, <2>3, <2>4 DEF FrameRegs
  <2> QED BY <1>16, <2>1, <2>5 DEF SyscallFrame, RIP, RFLAGS
<1>24. PtRegs(cpu.rsp.at)'
  BY <1>2, <1>18, <1>19, <1>20, <1>23 DEF PtRegs
<1>25. KeepsExtra(cpu'.regs, Was')
  <2>1. \A i \in 1 .. 6 : ExtraRegs[i] \in Regs \ {"rcx", "r11"}
    BY ExtraRegsAre
  <2> QED BY <1>19, <1>20, <1>22, <2>1 DEF KeepsExtra, R
<1>26. LiveRegs' /\ SwitchPtRegs' /\ OnKernelStack'
  BY <1>2, <1>19, <1>20, <1>24, <1>25, SymFacts DEF LiveRegs, SwitchPtRegs, OnKernelStack
<1>27. InTrap' /\ Leaving'
  BY <1>1, <1>2, <1>4, <1>19, <1>20, SymFacts DEF InTrap, Leaving, Entered, UserContext, UserRsp
<1>28. Stands("upml4", "shared", "user", "shared")'
  BY <1>2, <1>19 DEF Stands
<1>29. PlaceInv' /\ pc' \in Pcs
  <2>1. AtSwitch("upml4", "shared")'
    BY <1>4, <1>19, <1>20, <1>26, <1>27, <1>28 DEF AtSwitch
  <2>2. AtBack("upml4", "shared")'
    BY <1>2, <1>4, <1>19, <1>20, <1>24, <1>25, <1>26, <1>27, <1>28 DEF AtBack
  <2> QED BY <1>1, <1>2, <1>19, <1>20, <2>1, <2>2 DEF PlaceInv, Pcs
<1>30. ChainInv'
  BY <1>1, <1>4, <1>20, ChainOne DEF EntryInv
<1>31. TrapTypeOK'
  BY <1>1, <1>7, <1>18, <1>19, <1>29 DEF EntryInv, TrapTypeOK
<1>32. ScratchInv' /\ ServiceInv'
  BY <1>1, <1>4, <1>7, <1>20 DEF EntryInv, ScratchInv, ServiceInv
<1> QED BY <1>29, <1>30, <1>31, <1>32 DEF EntryInv-----------------------------------------------------------------------------
(***************************************************************************)
(* Returns.                                                                *)
(***************************************************************************)
LEMMA ShortChain ==
  /\ \A n \in 2 .. 0 : FALSE
  /\ \A n \in 2 .. 1 : FALSE
  /\ \A L \in Nat : L <= 1 /\ L >= 1 => L = 1
OBVIOUS

LEMMA PrefixFacts ==
  ASSUME NEW D, NEW s \in Seq(D), NEW k \in Nat, k <= Len(s)
  PROVE  /\ SubSeq(s, 1, k) \in Seq(D) /\ Len(SubSeq(s, 1, k)) = k
         /\ \A i \in 1 .. k : SubSeq(s, 1, k)[i] = s[i]
OBVIOUS

LEMMA FrontFacts ==
  ASSUME TrapTypeOK, frames # <<>>
  PROVE  /\ Front(frames) \in Seq(FrameType) /\ Len(Front(frames)) = Len(frames) - 1
         /\ \A i \in 1 .. (Len(frames) - 1) : Front(frames)[i] = frames[i]
         /\ Last(frames) = frames[Len(frames)]
<1>1. PICK f \in Seq(FrameType) : f = frames
  BY DEF TrapTypeOK
<1>2. f # <<>>
  BY <1>1
<1>3. Len(f) \in Nat /\ Len(f) >= 1
  BY <1>2
<1>a. PICK k \in Nat : k = Len(f) - 1 /\ k <= Len(f)
  <2>1. Len(f) - 1 \in Nat /\ Len(f) - 1 <= Len(f)
    BY ONLY <1>3
  <2> QED  BY <2>1, Zenon
<1>b. /\ SubSeq(f, 1, k) \in Seq(FrameType) /\ Len(SubSeq(f, 1, k)) = k
      /\ \A i \in 1 .. k : SubSeq(f, 1, k)[i] = f[i]
  BY <1>a, PrefixFacts
<1>4. /\ SubSeq(f, 1, Len(f) - 1) \in Seq(FrameType) /\ Len(SubSeq(f, 1, Len(f) - 1)) = Len(f) - 1
      /\ \A i \in 1 .. (Len(f) - 1) : SubSeq(f, 1, Len(f) - 1)[i] = f[i]
  BY <1>a, <1>b
<1> QED BY <1>1, <1>4 DEF Front, Last

\* The only context interrupted.
LEMMA LastOne ==
  ASSUME TrapTypeOK, ChainInv, frames # <<>>, Len(frames) = 1
  PROVE  Front(frames) = <<>> /\ Last(frames).sym = "" /\ Was = frames[1].cpu
<1>1. PICK g \in Seq(FrameType) : g = Front(frames)
  BY FrontFacts
<1>2. Len(g) = 0
  BY <1>1, FrontFacts
<1>3. g = <<>>
  BY <1>2
<1> QED BY <1>1, <1>3, FrontFacts DEF Was, ChainInv

LEMMA Forgotten ==
  ASSUME TrapTypeOK, NEW c \in CpuType, Forget(c),
         c.rsp.stack \in {"cpu", "ist"} => c.rsp.at <= Len(stacks[c.rsp.stack])
  PROVE  /\ stacks' \in [{"cpu", "ist"} -> Seq(Words)]
         /\ c.rsp.stack \in {"cpu", "ist"} => Agree(stacks[c.rsp.stack], stacks'[c.rsp.stack], c.rsp.at)
<1>1. stacks \in [{"cpu", "ist"} -> Seq(Words)] /\ c.rsp.at \in Nat
  BY CpuParts DEF TrapTypeOK
<1>2. stacks' = [s \in {"cpu", "ist"} |-> IF s = c.rsp.stack THEN SubSeq(stacks[s], 1, c.rsp.at) ELSE <<>>]
  BY <1>1 DEF Forget
<1>3. ASSUME NEW S \in Seq(Words), NEW at \in Nat, at <= Len(S)
      PROVE  SubSeq(S, 1, at) \in Seq(Words) /\ Agree(S, SubSeq(S, 1, at), at)
  BY <1>3 DEF Agree
<1>4. <<>> \in Seq(Words)
  OBVIOUS
<1>5. ASSUME NEW s \in {"cpu", "ist"} PROVE stacks'[s] \in Seq(Words)
  <2>1. CASE s = c.rsp.stack
    <3>1. stacks'[s] = SubSeq(stacks[s], 1, c.rsp.at) /\ stacks[s] \in Seq(Words)
      BY <1>1, <1>2, <2>1
    <3> QED BY <1>1, <1>3, <2>1, <3>1
  <2>2. CASE s # c.rsp.stack
    BY <1>2, <1>4, <2>2
  <2> QED BY <2>1, <2>2
<1>6. ASSUME c.rsp.stack \in {"cpu", "ist"} PROVE Agree(stacks[c.rsp.stack], stacks'[c.rsp.stack], c.rsp.at)
  BY <1>1, <1>2, <1>6, <1>3
<1>7. stacks' \in [{"cpu", "ist"} -> Seq(Words)]
  BY <1>2, <1>5
<1> QED BY <1>6, <1>7

\* Back in user code.
LEMMA BackInUser ==
  ASSUME EntryInv, frames' = <<>>, sym' = "", boot = "done", boot' = boot, UserContext(cpu'), cpu' \in CpuType,
         pc' = "user", stacks' \in [{"cpu", "ist"} -> Seq(Words)], scratch' = scratch, inService' = inService,
         frames = <<>> \/ ~(inService /\ Len(frames) = 1), Len(frames) <= 1
  PROVE  EntryInv'
<1>1. PlaceInv'
  BY DEF PlaceInv, AtUser
<1>2. <<>> \in Seq(FrameType) /\ Len(<<>>) = 0
  BY EmptySeq, Zenon
<1>3. TrapTypeOK'
  BY <1>2 DEF EntryInv, TrapTypeOK, Pcs, Syms
<1>4. ChainInv'
  BY NoChain
<1>5. ScratchInv'
  <2>0. Len(frames') = 0
    BY <1>2
  <2>1. \A n \in 2 .. Len(frames') : FALSE
    BY <2>0, ShortChain, Zenon
  <2> QED BY <2>1 DEF EntryInv, ScratchInv
<1>6. ~inService
  <2>1. frames # <<>> => Len(frames) = 1
    BY FrameTypes, ShortChain, Zenon DEF EntryInv
  <2> QED BY <2>1 DEF EntryInv, ServiceInv
<1>7. ServiceInv'
  BY <1>6 DEF ServiceInv
<1> QED BY <1>1, <1>3, <1>4, <1>5, <1>7 DEF EntryInv
LEMMA WordElements == \A w, x, y, z : w = <<x, y, z>> => w[1] = x /\ w[3] = z
OBVIOUS

\* The end of a system call leads back to the user.
LEMMA SysretIsUser ==
  ASSUME EntryInv, AtSysretq
  PROVE  /\ SysretTo \in CpuType /\ UserContext(SysretTo)
         /\ SysretTo = [Was EXCEPT !.regs = [r \in Regs |->
                          IF r \in {"rax", "rcx", "r11"} THEN cpu.regs[r] ELSE @[r]]]
<1>0. cpu \in CpuType /\ cpu.regs \in [Regs -> Words]
  BY CpuParts DEF EntryInv, TrapTypeOK
<1>1. InTrap /\ sym = "do_syscall_64"
  BY DEF AtSysretq
<1>2. /\ Was.cpl = 3 /\ UserContext(Was) /\ Was \in CpuType /\ Level \in Nat
  BY <1>1, SyscallContext
<1>3. cpu.regs["rcx"] = <<Level, "rip", Was.rip>> /\ cpu.regs["r11"] = FlagsOf(Level, Was.if)
  BY DEF AtSysretq
<1>4. cpu.regs["rcx"][3] = Was.rip /\ (cpu.regs["r11"][3] = "if") = Was.if
  <2>1. Was.if = TRUE
    BY <1>2 DEF UserContext
  <2>2. FlagsOf(Level, TRUE)[3] = "if"
    BY DEF FlagsOf
  <2>3. cpu.regs["rcx"][3] = Was.rip
    BY <1>3, WordElements, Zenon
  <2>4. cpu.regs["r11"][3] = "if"
    BY <1>3, <2>1, <2>2, Zenon
  <2> QED BY <2>1, <2>3, <2>4
<1>5. SysretTo = [cpu EXCEPT !.cpl = 3, !.rip = Was.rip, !.if = Was.if]
  BY <1>4, Zenon DEF SysretTo
<1>6. /\ SysretTo \in CpuType /\ SysretTo.cpl = 3 /\ SysretTo.cr3 = cpu.cr3 /\ SysretTo.gs = cpu.gs
      /\ SysretTo.kgs = cpu.kgs /\ SysretTo.rip = Was.rip /\ SysretTo.rsp = cpu.rsp /\ SysretTo.if = Was.if
      /\ SysretTo.regs = cpu.regs
  BY <1>0, <1>2, <1>5, CpuParts DEF CpuType
<1>7. cpu.cr3 = Was.cr3 /\ cpu.gs = Was.gs /\ cpu.kgs = Was.kgs /\ cpu.rsp = Was.rsp
  BY DEF AtSysretq, Stands
<1>8. UserContext(SysretTo)
  BY <1>2, <1>6, <1>7 DEF UserContext
<1>9. PICK regs : regs = [r \in Regs |-> IF r \in {"rax", "rcx", "r11"} THEN cpu.regs[r] ELSE Was.regs[r]]
  OBVIOUS
<1>10. regs = cpu.regs
  BY <1>9, <1>0 DEF AtSysretq
<1>11. PICK c : c = [Was EXCEPT !.regs = regs]
  OBVIOUS
<1>12. /\ c \in CpuType /\ c.cpl = Was.cpl /\ c.cr3 = Was.cr3 /\ c.gs = Was.gs /\ c.kgs = Was.kgs
       /\ c.rip = Was.rip /\ c.rsp = Was.rsp /\ c.if = Was.if /\ c.regs = cpu.regs
  BY <1>0, <1>2, <1>10, <1>11, CpuParts DEF CpuType
<1>13. SysretTo = c
  BY <1>2, <1>6, <1>7, <1>12, CpuEqual
<1> QED BY <1>6, <1>8, <1>9, <1>11, <1>13

LEMMA SysretqStep ==
  ASSUME EntryInv, Sysretq
  PROVE  EntryInv'
<1>1. /\ cpu' = SysretTo /\ pc = "sysretq" /\ pc' = "user" /\ boot' = boot
      /\ sym' = Last(frames).sym /\ frames' = Front(frames) /\ Forget(cpu')
      /\ scratch' = scratch /\ inService' = inService
  BY DEF Sysretq, At, bootVars
<1>2. AtSysretq /\ InTrap /\ sym = "do_syscall_64" /\ frames # <<>>
  BY <1>1 DEF EntryInv, PlaceInv, AtSysretq, InTrap
<1>3. Len(frames) = 1 /\ boot = "done" /\ ~(inService /\ Len(frames) = 1)
  BY <1>2, SyscallContext
<1>4. cpu' \in CpuType /\ UserContext(cpu')
  BY <1>1, <1>2, SysretIsUser
<1>5. frames' = <<>> /\ sym' = ""
  BY <1>1, <1>2, <1>3, LastOne DEF EntryInv
<1>6. stacks' \in [{"cpu", "ist"} -> Seq(Words)]
  <2>1. PICK c \in CpuType : c = cpu'
    BY <1>4
  <2>2. c.rsp.stack = "user"
    BY <1>4, <2>1 DEF UserContext, UserRsp
  <2> QED BY <1>1, <2>1, <2>2, Forgotten DEF EntryInv
<1>7. Len(frames) <= 1
  BY <1>3
<1> QED BY <1>1, <1>3, <1>4, <1>5, <1>6, <1>7, BackInUser

\* IRETQ leads back to the context interrupted.
LEMMA ReturnedIsWas ==
  ASSUME EntryInv, pc = "iretq"
  PROVE  Returned = Was
<1>0. cpu \in CpuType /\ cpu.rsp \in RspType /\ Was \in CpuType /\ Level \in Nat
  BY CpuParts, WasTypes DEF EntryInv, TrapTypeOK
<1>1. /\ AtRetint /\ cpu.regs = Was.regs
      /\ HardwareFrame(stacks[cpu.rsp.stack], cpu.rsp.at, cpu.rsp.stack, Was, Level)
  BY DEF EntryInv, PlaceInv
<1>2. PICK at \in Nat : at = cpu.rsp.at
  BY <1>0 DEF RspType
<1>3. PICK S : S = stacks[cpu.rsp.stack]
  OBVIOUS
<1>4. at >= 5 /\ at <= Len(S)
  BY <1>1, <1>2, <1>3 DEF HardwareFrame
<1>a. /\ S[at] = <<Level, "rip", Was.rip>> /\ S[at - 1] = <<Was.cpl, "cs", "">>
      /\ S[at - 2] = FlagsOf(Level, Was.if) /\ S[at - 3] = RspWord(Was.rsp)
  BY <1>1, <1>2, <1>3, Zenon DEF HardwareFrame
<1>5. OnKernelStack
  BY <1>1 DEF AtRetint
<1>6. ASSUME NEW n \in 0 .. 3 PROVE Slot(n) = S[at - n]
  <2>1. n \in Nat /\ n < at
    BY <1>4
  <2> QED BY <1>2, <1>3, <1>4, <1>5, <2>1, SlotIs DEF EntryInv
<1>b. Slot(0) = S[at] /\ Slot(1) = S[at - 1] /\ Slot(2) = S[at - 2] /\ Slot(3) = S[at - 3]
  BY <1>6
<1>7. /\ Slot(0) = <<Level, "rip", Was.rip>> /\ Slot(1) = <<Was.cpl, "cs", "">>
      /\ Slot(2) = FlagsOf(Level, Was.if) /\ Slot(3) = RspWord(Was.rsp)
  BY <1>a, <1>b, Zenon
<1>8. Was.if \in BOOLEAN /\ Was.rsp \in RspType /\ Was.rip \in Maps /\ Was.cpl \in {0, 3}
  BY <1>0, CpuParts
<1>c. Level \in Int
  BY <1>0
<1>9. Slot(0)[3] = Was.rip /\ Slot(1)[1] = Was.cpl
  <2>1. Slot(0)[3] = Was.rip
    BY <1>7, WordElements, Zenon
  <2>2. Slot(1)[1] = Was.cpl
    <3>1. PICK w, x : w = Slot(1) /\ x = Was.cpl
      OBVIOUS
    <3>2. w = <<x, "cs", "">>
      BY <1>7, <3>1, Zenon
    <3>3. w[1] = x
      BY <3>2, WordElements, Zenon
    <3> QED BY <3>1, <3>3
  <2> QED BY <2>1, <2>2
<1>10. (Slot(2)[3] = "if") = Was.if
  BY <1>7, <1>8, <1>c, WordFields, Zenon
<1>11. RspOf(Slot(3)) = Was.rsp
  BY <1>7, <1>8, WordFields, Zenon
<1>12. Returned = [cpu EXCEPT !.cpl = Was.cpl, !.rip = Was.rip, !.if = Was.if, !.rsp = Was.rsp]
  BY <1>9, <1>10, <1>11, Zenon DEF Returned
<1>13. /\ Returned \in CpuType /\ Returned.cpl = Was.cpl /\ Returned.cr3 = cpu.cr3 /\ Returned.gs = cpu.gs
       /\ Returned.kgs = cpu.kgs /\ Returned.rip = Was.rip /\ Returned.rsp = Was.rsp /\ Returned.if = Was.if
       /\ Returned.regs = cpu.regs
  BY <1>0, <1>8, <1>12, CpuParts DEF CpuType
<1>14. cpu.cr3 = Was.cr3 /\ cpu.gs = Was.gs /\ cpu.kgs = Was.kgs
  BY <1>1 DEF AtRetint, Stands
<1> QED BY <1>0, <1>1, <1>13, <1>14, CpuEqual
\* The context below the last one, seen from its stack.
LEMMA ChainLast ==
  ASSUME TrapTypeOK, ChainInv, NEW L \in Nat, L = Len(frames), L >= 2
  PROVE  /\ KernelContext(frames[L].cpu, boot)
         /\ Entered(frames[L].sym, frames[L - 1].cpu, frames[L].cpu.rsp.stack, boot)
         /\ frames[L].cpu.rsp.stack = cpu.rsp.stack =>
              Handles(stacks[cpu.rsp.stack], frames[L].cpu, frames[L].sym, frames[L - 1].cpu,
                      frames[L - 1].event, L - 2)
<1>1. \A n \in 2 .. Len(frames) :
       /\ KernelContext(frames[n].cpu, boot)
       /\ Entered(frames[n].sym, frames[n - 1].cpu, frames[n].cpu.rsp.stack, boot)
       /\ frames[n].cpu.rsp.stack = cpu.rsp.stack =>
            Handles(stacks[cpu.rsp.stack], frames[n].cpu, frames[n].sym, frames[n - 1].cpu,
                    frames[n - 1].event, n - 2)
  BY Zenon DEF ChainInv
<1>2. L \in 2 .. Len(frames)
  OBVIOUS
<1> QED BY <1>1, <1>2, Zenon

\* The last context is taken off the chain.
LEMMA ChainPopped ==
  ASSUME TrapTypeOK, ChainInv, NEW L \in Nat, L = Len(frames), L >= 2, boot' = boot,
         frames[L].cpu.rsp.stack = cpu.rsp.stack, OnKernelStack,
         NEW f \in Seq(FrameType), f = frames', Len(f) = L - 1, \A i \in 1 .. (L - 1) : f[i] = frames[i],
         cpu'.rsp.stack = cpu.rsp.stack,
         Agree(stacks[cpu.rsp.stack], stacks'[cpu.rsp.stack], frames[L].cpu.rsp.at)
  PROVE  ChainInv'
<1>1. \A n \in 2 .. Len(frames) :
       /\ KernelContext(frames[n].cpu, boot)
       /\ Entered(frames[n].sym, frames[n - 1].cpu, frames[n].cpu.rsp.stack, boot)
       /\ frames[n].cpu.rsp.stack = cpu.rsp.stack =>
            Handles(stacks[cpu.rsp.stack], frames[n].cpu, frames[n].sym, frames[n - 1].cpu,
                    frames[n - 1].event, n - 2)
  BY Zenon DEF ChainInv
<1>2. \A m \in 1 .. Len(frames) : \A n \in 1 .. m :
       /\ frames[n].cpu.rsp.stack = frames[m].cpu.rsp.stack => frames[n].cpu.rsp.at <= frames[m].cpu.rsp.at
       /\ frames[n].cpu.rsp.stack = "ist" => frames[m].cpu.rsp.stack = "ist"
  BY Zenon DEF ChainInv
<1>3. frames # <<>> => /\ frames[1].sym = ""
                       /\ IF boot = "done" THEN UserContext(frames[1].cpu) ELSE BootContext(frames[1].cpu, boot)
  BY Zenon DEF ChainInv
<1>4. PICK B \in Nat : B = frames[L].cpu.rsp.at
  <2>1. L \in 1 .. Len(frames)
    OBVIOUS
  <2> QED BY <2>1, FrameTypes
<1>5. ASSUME NEW n \in 2 .. (L - 1)
      PROVE  /\ KernelContext(f[n].cpu, boot)
             /\ Entered(f[n].sym, f[n - 1].cpu, f[n].cpu.rsp.stack, boot)
             /\ f[n].cpu.rsp.stack = cpu.rsp.stack =>
                  Handles(stacks'[cpu.rsp.stack], f[n].cpu, f[n].sym, f[n - 1].cpu, f[n - 1].event, n - 2)
  <2>1. /\ n \in 2 .. Len(frames) /\ n \in 1 .. L /\ L \in 1 .. Len(frames)
        /\ n \in 1 .. (L - 1) /\ n - 1 \in 1 .. (L - 1) /\ n \in 1 .. Len(frames)
    OBVIOUS
  <2>2. f[n] = frames[n] /\ f[n - 1] = frames[n - 1]
    BY <2>1
  <2>3. ASSUME frames[n].cpu.rsp.stack = cpu.rsp.stack
        PROVE  Handles(stacks'[cpu.rsp.stack], frames[n].cpu, frames[n].sym, frames[n - 1].cpu, frames[n - 1].event, n - 2)
    <3>1. Handles(stacks[cpu.rsp.stack], frames[n].cpu, frames[n].sym, frames[n - 1].cpu, frames[n - 1].event, n - 2)
      BY <1>1, <2>1, <2>3, Zenon
    <3>2. frames[n].cpu.rsp.at <= frames[L].cpu.rsp.at
      BY <1>2, <2>1, <2>3, Zenon
    <3>3. PICK c : c = frames[n].cpu
      OBVIOUS
    <3>4. c.rsp.at \in Nat /\ c.rsp.at <= B
      BY <1>4, <2>1, <3>2, <3>3, FrameTypes
    <3>5. Agree(stacks[cpu.rsp.stack], stacks'[cpu.rsp.stack], B)
      BY <1>4
    <3>6. Handles(stacks[cpu.rsp.stack], c, frames[n].sym, frames[n - 1].cpu, frames[n - 1].event, n - 2)
      BY <3>1, <3>3
    <3>7. Handles(stacks'[cpu.rsp.stack], c, frames[n].sym, frames[n - 1].cpu, frames[n - 1].event, n - 2)
      BY <3>4, <3>5, <3>6, HandlesKept
    <3> QED BY <3>3, <3>7
  <2> QED BY <1>1, <2>1, <2>2, <2>3, Zenon
<1>6. ASSUME NEW m \in 1 .. (L - 1), NEW n \in 1 .. m
      PROVE  /\ f[n].cpu.rsp.stack = f[m].cpu.rsp.stack => f[n].cpu.rsp.at <= f[m].cpu.rsp.at
             /\ f[n].cpu.rsp.stack = "ist" => f[m].cpu.rsp.stack = "ist"
  <2>1. m \in 1 .. Len(frames) /\ n \in 1 .. (L - 1)
    OBVIOUS
  <2>2. f[n] = frames[n] /\ f[m] = frames[m]
    BY <2>1
  <2> QED BY <1>2, <2>1, <2>2, Zenon
<1>7. 1 \in 1 .. (L - 1) /\ frames # <<>>
  OBVIOUS
<1>8. f[1] = frames[1]
  BY <1>7
<1>9. /\ f[1].sym = ""
      /\ IF boot = "done" THEN UserContext(f[1].cpu) ELSE BootContext(f[1].cpu, boot)
  BY <1>3, <1>7, <1>8, Zenon
<1> QED BY <1>5, <1>6, <1>9, Zenon DEF ChainInv
LEMMA IretqStep ==
  ASSUME EntryInv, Iretq
  PROVE  EntryInv'
<1>1. /\ pc = "iretq" /\ cpu' = Returned
      /\ pc' = IF cpu'.cpl = 3 THEN "user" ELSE "c"
      /\ sym' = IF frames = <<>> THEN "" ELSE Last(frames).sym
      /\ frames' = IF frames = <<>> THEN <<>> ELSE Front(frames)
      /\ Forget(cpu') /\ boot' = boot /\ scratch' = scratch /\ inService' = inService
  BY DEF Iretq, At, bootVars
<1>2. cpu' = Was /\ cpu' \in CpuType /\ Was \in CpuType
  BY <1>1, ReturnedIsWas, WasTypes DEF EntryInv
<1>3. AtRetint /\ Leaving /\ OnKernelStack /\ sym # "double_fault"
  BY <1>1 DEF EntryInv, PlaceInv, AtRetint
<1>4. ~(inService /\ Len(frames) = 1)
  BY <1>1, NotInService DEF BeforeEoi
<1>5. PICK L \in Nat : L = Len(frames)
  BY FrameTypes DEF EntryInv
<1>6. CASE Was.cpl = 3
  <2>1. UserContext(Was) /\ (frames # <<>> => Len(frames) = 1)
    BY <1>6, WasUser DEF EntryInv
  <2>2. boot = "done"
    BY <1>3, <1>6, UserIsDone
  <2>3. frames' = <<>> /\ sym' = ""
    <3>1. CASE frames = <<>>
      BY <1>1, <3>1
    <3>2. CASE frames # <<>>
      BY <1>1, <2>1, <3>2, LastOne DEF EntryInv
    <3> QED BY <3>1, <3>2
  <2>4. Len(frames) <= 1
    BY <1>5, <2>1
  <2>5. stacks' \in [{"cpu", "ist"} -> Seq(Words)]
    <3>1. PICK c \in CpuType : c = cpu'
      BY <1>2
    <3>2. c.rsp.stack = "user"
      BY <1>2, <2>1, <3>1 DEF UserContext, UserRsp
    <3> QED BY <1>1, <3>1, <3>2, Forgotten DEF EntryInv
  <2>6. UserContext(cpu') /\ pc' = "user"
    BY <1>1, <1>2, <1>6, <2>1
  <2> QED BY <1>1, <1>2, <1>4, <2>2, <2>3, <2>4, <2>5, <2>6, BackInUser
<1>7. CASE Was.cpl # 3
  <2>1. frames # <<>>
    BY <1>7, FirstUserType DEF Was, UserContext
  <2>2. KernelContext(Was, boot) /\ pc' = "c"
    BY <1>1, <1>2, <1>7, <2>1, WasKernel DEF EntryInv
  <2>3. InTrap
    BY <1>3, <2>1 DEF Leaving
  <2>4. Was.rsp.stack = cpu.rsp.stack /\ cpu'.rsp.stack = cpu.rsp.stack
    BY <1>2, <1>3, <1>7, <2>3 DEF InTrap, Entered
  <2>5. frames' = Front(frames) /\ sym' = frames[L].sym /\ L >= 1 /\ Was = frames[L].cpu
    BY <1>1, <1>5, <2>1, FrontFacts, FrameTypes DEF EntryInv, Was
  <2>6. PICK f \in Seq(FrameType) : f = frames' /\ Len(f) = L - 1 /\ \A i \in 1 .. (L - 1) : f[i] = frames[i]
    BY <1>5, <2>1, <2>5, FrontFacts DEF EntryInv
  <2>7. Was.rsp.at <= Len(stacks[cpu.rsp.stack])
    <3>1. /\ HardwareFrame(stacks[cpu.rsp.stack], cpu.rsp.at, cpu.rsp.stack, Was, Level)
      BY <1>1 DEF EntryInv, PlaceInv
    <3>2. PICK at \in Nat, b \in Nat, k \in Nat : at = cpu.rsp.at /\ b = Was.rsp.at /\ k = Len(stacks[cpu.rsp.stack])
      <4>1. cpu.rsp.at \in Nat /\ Was.rsp.at \in Nat
        BY <1>2, CpuParts DEF EntryInv, TrapTypeOK
      <4>2. stacks[cpu.rsp.stack] \in Seq(Words)
        BY <1>3 DEF EntryInv, TrapTypeOK, OnKernelStack
      <4> QED BY <4>1, <4>2
    <3>3. b + 5 <= at /\ at <= k
      BY <2>4, <3>1, <3>2 DEF HardwareFrame
    <3> QED BY <3>2, <3>3
  <2>8. /\ stacks' \in [{"cpu", "ist"} -> Seq(Words)]
        /\ Agree(stacks[cpu.rsp.stack], stacks'[cpu.rsp.stack], Was.rsp.at)
    <3>1. PICK c \in CpuType : c = cpu' /\ c = Was
      BY <1>2
    <3>2. c.rsp.stack \in {"cpu", "ist"} /\ c.rsp.stack = cpu.rsp.stack /\ c.rsp.at <= Len(stacks[c.rsp.stack])
      BY <1>3, <2>4, <2>7, <3>1 DEF OnKernelStack
    <3>3. Forget(c)
      BY <1>1, <3>1
    <3> QED BY <3>1, <3>2, <3>3, Forgotten DEF EntryInv
  <2>9. CASE L = 1
    <3>1. frames' = <<>> /\ sym' = "" /\ Was = frames[1].cpu
      BY <1>1, <1>5, <2>1, <2>9, LastOne DEF EntryInv
    <3>2. BootContext(Was, boot)
      BY <2>1, <1>7, <3>1, Zenon DEF EntryInv, ChainInv, UserContext
    <3>3. AtC'
      BY <1>1, <1>2, <2>2, <3>1, <3>2 DEF AtC
    <3>4. PlaceInv' /\ pc' \in Pcs
      BY <2>2, <3>3 DEF PlaceInv, Pcs
    <3>5. <<>> \in Seq(FrameType) /\ Len(<<>>) = 0
      BY EmptySeq, Zenon
    <3>6. TrapTypeOK'
      BY <1>1, <1>2, <2>8, <3>1, <3>4, <3>5 DEF EntryInv, TrapTypeOK, Syms
    <3>7. ChainInv'
      BY <3>1, NoChain
    <3>8. ScratchInv'
      <4>1. \A n \in 2 .. Len(frames') : FALSE
        BY <3>1, <3>5, ShortChain, Zenon
      <4> QED BY <1>1, <3>1, <4>1 DEF EntryInv, ScratchInv
    <3>9. ~inService
      BY <1>4, <1>5, <2>9
    <3>10. ServiceInv'
      BY <1>1, <3>9 DEF ServiceInv
    <3> QED BY <3>4, <3>6, <3>7, <3>8, <3>10 DEF EntryInv
  <2>10. CASE L >= 2
    <3>1. /\ KernelContext(frames[L].cpu, boot)
          /\ Entered(frames[L].sym, frames[L - 1].cpu, frames[L].cpu.rsp.stack, boot)
          /\ frames[L].cpu.rsp.stack = cpu.rsp.stack =>
               Handles(stacks[cpu.rsp.stack], frames[L].cpu, frames[L].sym, frames[L - 1].cpu,
                       frames[L - 1].event, L - 2)
      BY <1>5, <2>10, ChainLast DEF EntryInv
    <3>2. ChainInv'
      BY <1>1, <1>3, <1>5, <2>4, <2>5, <2>6, <2>8, <2>10, ChainPopped DEF EntryInv
    <3>3. /\ frames' # <<>> /\ Was' = frames[L - 1].cpu /\ Of' = frames[L - 1].event /\ Level' = L - 2
      BY <2>6, <2>10 DEF Was, Of, Level
    <3>4. Handles(stacks'[cpu.rsp.stack], cpu', sym', frames[L - 1].cpu, frames[L - 1].event, L - 2)
      <4>1. PICK c \in CpuType : c = cpu' /\ c = frames[L].cpu /\ c = Was
        BY <1>2, <2>5
      <4>2. PICK B \in Nat : B = c.rsp.at
        BY CpuParts
      <4>3. c.rsp.at \in Nat /\ c.rsp.at <= B /\ Agree(stacks[cpu.rsp.stack], stacks'[cpu.rsp.stack], B)
        BY <2>8, <4>1, <4>2
      <4>4. Handles(stacks[cpu.rsp.stack], c, frames[L].sym, frames[L - 1].cpu, frames[L - 1].event, L - 2)
        BY <2>4, <3>1, <4>1
      <4>5. Handles(stacks'[cpu.rsp.stack], c, frames[L].sym, frames[L - 1].cpu, frames[L - 1].event, L - 2)
        BY <4>3, <4>4, HandlesKept
      <4> QED BY <2>5, <4>1, <4>5
    <3>5. AtC'
      <4>1. KernelContext(cpu', boot')
        BY <1>1, <1>2, <2>2
      <4>2. InTrap'
        BY <1>1, <1>2, <2>5, <3>1, <3>3 DEF InTrap
      <4>3. Handles(stacks[cpu.rsp.stack], cpu, sym, Was, Of, Level)'
        BY <2>4, <3>3, <3>4
      <4> QED BY <3>3, <4>1, <4>2, <4>3 DEF AtC
    <3>6. PlaceInv' /\ pc' \in Pcs /\ pc' \in BeforeEoi
      BY <2>2, <3>5 DEF PlaceInv, Pcs, BeforeEoi
    <3>7. TrapTypeOK'
      <4>1. sym' \in Syms
        BY <1>5, <2>10, FrameTypes, <2>5 DEF EntryInv, FrameType
      <4> QED BY <1>1, <1>2, <2>6, <2>8, <3>6, <4>1 DEF EntryInv, TrapTypeOK
    <3>8. ScratchInv'
      <4>1. \A n \in 2 .. Len(frames) : frames[n].sym = "do_syscall_64" => scratch.rsp = RspWord(UserRsp)
        BY Zenon DEF EntryInv, ScratchInv
      <4>2. sym' = "do_syscall_64" => scratch.rsp = RspWord(UserRsp)
        <5>1. L \in 2 .. Len(frames)
          BY <1>5, <2>10
        <5> QED BY <2>5, <4>1, <5>1, Zenon
      <4>3. ASSUME NEW n \in 2 .. Len(f), f[n].sym = "do_syscall_64" PROVE scratch.rsp = RspWord(UserRsp)
        <5>1. n \in 1 .. (L - 1) /\ n \in 2 .. Len(frames)
          BY <1>5, <2>6
        <5> QED BY <2>6, <4>1, <4>3, <5>1
      <4> QED BY <1>1, <2>6, <4>2, <4>3 DEF EntryInv, ScratchInv
    <3>9. ServiceInv'
      <4>1. inService => frames[2].sym \in ApicSyms
        BY <1>5, <2>10 DEF EntryInv, ServiceInv
      <4>2. CASE L = 2
        <5>1. Len(frames') = 1
          BY <2>6, <4>2
        <5>2. sym' = frames[2].sym
          BY <2>5, <4>2
        <5> QED BY <1>1, <3>3, <3>6, <4>1, <5>1, <5>2 DEF ServiceInv
      <4>3. CASE L > 2
        <5>1. 2 \in 1 .. (L - 1) /\ L - 1 # 1
          BY <4>3
        <5>2. Len(frames') # 1 /\ frames'[2] = frames[2]
          BY <2>6, <5>1
        <5> QED BY <1>1, <3>3, <4>1, <5>2 DEF ServiceInv
      <4> QED BY <2>10, <4>2, <4>3
    <3> QED BY <3>2, <3>6, <3>7, <3>8, <3>9 DEF EntryInv
  <2> QED BY <2>5, <2>9, <2>10
<1> QED BY <1>6, <1>7-----------------------------------------------------------------------------
(***************************************************************************)
(* Steps that write the stack in use.                                      *)
(***************************************************************************)
LEMMA StackStep ==
  ASSUME EntryInv, InTrap, OnKernelStack, UNCHANGED <<bootVars, scratch, sym, frames, inService>>,
         cpu' \in CpuType, cpu'.rsp.stack = cpu.rsp.stack,
         NEW T \in Seq(Words), stacks' = [stacks EXCEPT ![cpu.rsp.stack] = T],
         Was.rsp.stack = cpu.rsp.stack => Agree(stacks[cpu.rsp.stack], T, Was.rsp.at),
         pc' \in Pcs, PlaceInv', inService /\ Len(frames) = 1 => pc' \in BeforeEoi
  PROVE  EntryInv'
<1>1. stacks' \in [{"cpu", "ist"} -> Seq(Words)] /\ stacks'[cpu.rsp.stack] = T
  BY DEF EntryInv, TrapTypeOK, OnKernelStack
<1>2. TrapTypeOK'
  BY <1>1 DEF EntryInv, TrapTypeOK
<1>3. frames # <<>> /\ Entered(sym, Was, cpu.rsp.stack, boot) /\ boot' = boot
  BY DEF InTrap, bootVars
<1>4. ChainInv'
  BY <1>1, <1>3, ChainKept DEF EntryInv
<1>5. ScratchInv'
  BY <1>3 DEF EntryInv, ScratchInv
<1>6. ServiceInv'
  BY DEF EntryInv, ServiceInv
<1> QED BY <1>2, <1>4, <1>5, <1>6 DEF EntryInv

\* The stack in use.
LEMMA StackIs ==
  ASSUME EntryInv, OnKernelStack
  PROVE  /\ stacks[cpu.rsp.stack] \in Seq(Words) /\ cpu.rsp.at \in Nat /\ Len(stacks[cpu.rsp.stack]) \in Nat
         /\ stacks \in [{"cpu", "ist"} -> Seq(Words)] /\ cpu.rsp.stack \in {"cpu", "ist"}
         /\ Was \in CpuType /\ Level \in Nat /\ Was.rsp.at \in Nat
<1>1. stacks[cpu.rsp.stack] \in Seq(Words) /\ stacks \in [{"cpu", "ist"} -> Seq(Words)] /\ cpu.rsp.stack \in {"cpu", "ist"}
  BY DEF EntryInv, TrapTypeOK, OnKernelStack
<1>2. Len(stacks[cpu.rsp.stack]) \in Nat
  BY <1>1
<1>3. cpu.rsp.at \in Nat
  BY CpuParts DEF EntryInv, TrapTypeOK
<1>4. Was \in CpuType /\ Level \in Nat
  BY WasTypes DEF EntryInv
<1>5. Was.rsp.at \in Nat
  BY <1>4, CpuParts
<1> QED BY <1>1, <1>2, <1>3, <1>4, <1>5

\* Nothing of a frame's context is written above it.
LEMMA AgreeBelow ==
  ASSUME NEW S, NEW T, NEW B, Agree(S, T, B), NEW A \in Nat, A <= B
  PROVE  Agree(S, T, A)
BY DEF Agree

\* Words put on top of a stack.
OnTop(S, at, w) == SubSeq(S, 1, at) \o w

LEMMA Pushed ==
  ASSUME NEW S \in Seq(Words), NEW at \in Nat, at <= Len(S), NEW w \in Seq(Words), NEW m \in Nat, m = Len(w)
  PROVE  /\ OnTop(S, at, w) \in Seq(Words) /\ Len(OnTop(S, at, w)) = at + m /\ Agree(S, OnTop(S, at, w), at)
         /\ \A y \in 1 .. m : OnTop(S, at, w)[at + y] = w[y]
<1>1. PICK P \in Seq(Words) : P = SubSeq(S, 1, at) /\ Len(P) = at /\ \A x \in 1 .. at : P[x] = S[x]
  <2>1. SubSeq(S, 1, at) \in Seq(Words) /\ Len(SubSeq(S, 1, at)) = at
        /\ \A x \in 1 .. at : SubSeq(S, 1, at)[x] = S[x]
    OBVIOUS
  <2> QED BY <2>1
<1>2. /\ P \o w \in Seq(Words) /\ Len(P \o w) = Len(P) + Len(w)
      /\ \A i \in 1 .. (Len(P) + Len(w)) : (P \o w)[i] = IF i <= Len(P) THEN P[i] ELSE w[i - Len(P)]
  BY ConcatProperties, Zenon
<1>a. PICK T : T = OnTop(S, at, w)
  OBVIOUS
<1>b. T = P \o w
  BY <1>1, <1>a, Zenon DEF OnTop
<1>3. /\ T \in Seq(Words) /\ Len(T) = at + m
      /\ \A i \in 1 .. (at + m) : T[i] = IF i <= at THEN P[i] ELSE w[i - at]
  BY <1>1, <1>2, <1>b
<1>4. \A x \in 1 .. at : T[x] = S[x]
  BY <1>1, <1>3
<1>5. ASSUME NEW y \in 1 .. m PROVE T[at + y] = w[y]
  <2>1. at + y \in 1 .. (at + m) /\ ~(at + y <= at) /\ (at + y) - at = y
    OBVIOUS
  <2> QED BY <1>3, <2>1
<1>6. Agree(S, T, at)
  BY <1>3, <1>4 DEF Agree
<1> QED BY <1>a, <1>3, <1>5, <1>6, Zenon

LEMMA IdtentryStep ==
  ASSUME EntryInv, idtentry
  PROVE  EntryInv'
<1> DEFINE e == IF has_error_code(sym) THEN <<>> ELSE <<MinusOne>>
           j == [i \in 1 .. 15 |-> Junk]
           r == <<<<1, "1f", "identity">>>>
           w == e \o j \o r
<1>1. /\ pc = "entry" /\ ~apicinterrupt(sym) /\ sym # "do_syscall_64" /\ pc' = "error_entry"
      /\ stacks' = [stacks EXCEPT ![cpu.rsp.stack] = SubSeq(@, 1, cpu.rsp.at) \o w]
      /\ cpu' = [cpu EXCEPT !.rsp.at = @ + Len(w)]
      /\ UNCHANGED <<bootVars, scratch, sym, frames, inService>>
  BY DEF idtentry, At, KeepTrap, Push
<1>2. PICK E \in {0, 1} : E = IF has_error_code(sym) THEN 1 ELSE 0
  OBVIOUS
<1>3. e \in Seq(Words) /\ Len(e) = 1 - E
  <2>1. MinusOne \in Words
    BY WordTypes, Zenon
  <2> QED BY <1>2, <2>1
<1>4. j \in Seq(Words) /\ Len(j) = 15
  BY JunkWords
<1>5. r \in Seq(Words) /\ Len(r) = 1 /\ r[1] = <<1, "1f", "identity">>
  <2>1. <<1, "1f", "identity">> \in Words
    BY WordTypes, Zenon
  <2> QED BY <2>1
<1>6. PICK k : k = e \o j
  OBVIOUS
<1>7. w = k \o r
  BY <1>6
<1> HIDE DEF e, j, r, w
<1>8. k \in Seq(Words) /\ Len(k) = 16 - E
  <2>1. PICK m \in Nat : m = Len(e) /\ m = 1 - E
    BY <1>3
  <2>2. PICK n \in Nat : n = Len(j) /\ n = 15
    BY <1>4
  <2>3. m = Len(e) /\ n = Len(j) /\ e \in Seq(Words) /\ j \in Seq(Words)
    BY <1>3, <1>4, <2>1, <2>2
  <2>4. k \in Seq(Words) /\ Len(k) = m + n
    BY <1>6, <2>3, Joined
  <2>5. m + n = 16 - E
    BY <2>1, <2>2
  <2> QED BY <2>4, <2>5, Zenon
<1>9. w \in Seq(Words) /\ Len(w) = 17 - E /\ w[17 - E] = <<1, "1f", "identity">>
  <2>1. PICK m \in Nat : m = Len(k) /\ m = 16 - E
    BY <1>8
  <2>2. PICK n \in Nat : n = Len(r) /\ n = 1
    BY <1>5
  <2>3. m = Len(k) /\ n = Len(r) /\ k \in Seq(Words) /\ r \in Seq(Words)
    BY <1>5, <1>8, <2>1, <2>2
  <2>4. w \in Seq(Words) /\ Len(w) = m + n /\ \A i \in 1 .. n : w[m + i] = r[i]
    BY <1>7, <2>3, Joined
  <2>5. m + n = 17 - E /\ n \in 1 .. n /\ n = 1
    BY <2>1, <2>2
  <2> QED BY <1>5, <2>4, <2>5, Zenon
<1>10. AtEntry /\ AtGate /\ InTrap /\ OnKernelStack
  BY <1>1 DEF EntryInv, PlaceInv, AtEntry, AtSyscall, AtGate
<1>11. /\ stacks[cpu.rsp.stack] \in Seq(Words) /\ cpu.rsp.at \in Nat /\ Len(stacks[cpu.rsp.stack]) \in Nat
       /\ stacks \in [{"cpu", "ist"} -> Seq(Words)] /\ cpu.rsp.stack \in {"cpu", "ist"}
       /\ Was \in CpuType /\ Level \in Nat /\ Was.rsp.at \in Nat
  BY <1>10, StackIs
<1>12. PICK S \in Seq(Words), at \in Nat : S = stacks[cpu.rsp.stack] /\ at = cpu.rsp.at
  BY <1>11
<1>13. /\ HardwareFrame(S, at - E, cpu.rsp.stack, Was, Level) /\ at <= Len(S)
       /\ (has_error_code(sym) => S[at] = Of.error)
  BY <1>2, <1>10, <1>12 DEF AtGate, ErrorAt
<1>14. PICK T : T = OnTop(S, at, w)
  OBVIOUS
<1>15. PICK m \in Nat : m = Len(w) /\ m = 17 - E
  BY <1>9
<1>16. m = Len(w) /\ w \in Seq(Words) /\ at <= Len(S)
  BY <1>9, <1>13, <1>15
<1>17. /\ T \in Seq(Words) /\ Len(T) = at + m /\ Agree(S, T, at) /\ \A y \in 1 .. m : T[at + y] = w[y]
  BY <1>14, <1>16, Pushed
<1>18. T[at + m] = <<1, "1f", "identity">>
  BY <1>9, <1>15, <1>17
<1>19. stacks' = [stacks EXCEPT ![cpu.rsp.stack] = T] /\ cpu' = [cpu EXCEPT !.rsp.at = at + m]
  BY <1>1, <1>11, <1>12, <1>14, <1>15 DEF OnTop
<1>20. stacks'[cpu.rsp.stack] = T
  BY <1>11, <1>19
<1>21. cpu \in CpuType /\ at + m \in Nat
  <2>1. cpu \in CpuType
    BY DEF EntryInv, TrapTypeOK
  <2> QED BY <2>1
<1>22. /\ cpu' \in CpuType /\ cpu'.cr3 = cpu.cr3 /\ cpu'.cpl = cpu.cpl /\ cpu'.gs = cpu.gs
       /\ cpu'.kgs = cpu.kgs /\ cpu'.rip = cpu.rip /\ cpu'.if = cpu.if /\ cpu'.regs = cpu.regs
       /\ cpu'.rsp.stack = cpu.rsp.stack /\ cpu'.rsp.at = at + m /\ cpu'.rsp.map = cpu.rsp.map
  BY <1>19, <1>21, CpuParts DEF CpuType, RspType
<1>23. PICK x \in Int : x = at - E
  OBVIOUS
<1>24. x <= at /\ at + m - 17 = x /\ (E = 1 => at + m - 16 = at)
  BY <1>15, <1>23
<1>25. HardwareFrame(S, x, cpu.rsp.stack, Was, Level)
  BY <1>13, <1>23
<1>26. HardwareFrame(T, x, cpu.rsp.stack, Was, Level)
  BY <1>17, <1>24, <1>25, HardwareFrameKept
<1>27. Was.rsp.stack = cpu.rsp.stack => Agree(S, T, Was.rsp.at)
  <2>1. ASSUME Was.rsp.stack = cpu.rsp.stack PROVE Agree(S, T, Was.rsp.at)
    <3>1. Was.rsp.at + 5 <= x
      BY <1>25, <2>1 DEF HardwareFrame
    <3>2. Was.rsp.at <= at
      BY <1>11, <1>24, <3>1
    <3> QED BY <1>11, <1>17, <3>2, AgreeBelow
  <2> QED BY <2>1
<1>28. has_error_code(sym) => T[at + m - 16] = Of.error
  <2>1. ASSUME has_error_code(sym) PROVE T[at + m - 16] = Of.error
    <3>1. E = 1 /\ at + m - 16 = at
      BY <1>2, <1>24, <2>1
    <3>2. at \in 1 .. at
      <4>1. x >= 5
        BY <1>25 DEF HardwareFrame
      <4> QED BY <1>24, <4>1
    <3>3. T[at] = S[at]
      BY <1>17, <3>2 DEF Agree
    <3> QED BY <1>13, <2>1, <3>1, <3>3
  <2> QED BY <2>1
<1>29. Was' = Was /\ Of' = Of /\ Level' = Level /\ boot' = boot /\ sym' = sym /\ frames' = frames
  BY <1>1, SameContext DEF bootVars
<1>30. sym \in ExceptionSyms
  BY <1>1, <1>10, SymFacts DEF InTrap, Entered
<1>31. AtErrorEntry'
  <2>1. InTrap' /\ OnKernelStack'
    BY <1>10, <1>22, <1>29 DEF InTrap, OnKernelStack
  <2>2. Stands(Was.cr3, Was.gs, Was.kgs, "shared")'
    BY <1>10, <1>22, <1>29 DEF AtEntry, Stands
  <2>3. ErrorAt(cpu.rsp.at - 16)'
    BY <1>20, <1>22, <1>28, <1>29 DEF ErrorAt
  <2>4. cpu'.rsp.at - 17 = x /\ cpu'.rsp.at <= Len(T)
    BY <1>17, <1>22, <1>24
  <2>5. (cpu.regs = Was.regs /\ (Was.cpl = 3 => cpu.rsp.map = "shared"))'
    BY <1>10, <1>22, <1>29 DEF AtGate
  <2> QED BY <1>18, <1>20, <1>22, <1>26, <1>29, <1>30, <2>1, <2>2, <2>3, <2>4, <2>5 DEF AtErrorEntry
<1>32. PlaceInv' /\ pc' \in Pcs
  BY <1>1, <1>31 DEF PlaceInv, Pcs
<1>33. ~(inService /\ Len(frames) = 1)
  BY <1>30, NotInService, SymFacts
<1> QED BY <1>1, <1>10, <1>12, <1>17, <1>19, <1>22, <1>27, <1>32, <1>33, StackStep
\* The registers as they lie in a frame.
LEMMA SavedWords ==
  ASSUME NEW regs \in [Regs -> Words]
  PROVE  /\ Saved(regs) \in Seq(Words) /\ Len(Saved(regs)) = 15
         /\ \A r \in Regs : 15 - OffsetOf(r) \in 1 .. 15 /\ Saved(regs)[15 - OffsetOf(r)] = regs[r]
<1>1. \A i \in 1 .. 15 : GpRegs[16 - i] \in Regs
  BY GpRegsAre
<1>2. \A i \in 1 .. 15 : regs[GpRegs[16 - i]] \in Words
  BY <1>1
<1>3. Saved(regs) \in Seq(Words) /\ Len(Saved(regs)) = 15
  BY <1>2 DEF Saved
<1>4. \A i \in 1 .. 15 : Saved(regs)[i] = regs[GpRegs[16 - i]]
  BY DEF Saved
<1>5. ASSUME NEW r \in Regs PROVE 15 - OffsetOf(r) \in 1 .. 15 /\ Saved(regs)[15 - OffsetOf(r)] = regs[r]
  <2>1. PICK o \in 0 .. 14 : o = OffsetOf(r) /\ GpRegs[o + 1] = r
    BY OffsetFacts
  <2>2. 15 - o \in 1 .. 15 /\ 16 - (15 - o) = o + 1
    OBVIOUS
  <2>3. Saved(regs)[15 - o] = regs[GpRegs[o + 1]]
    BY <1>4, <2>2
  <2> QED BY <2>1, <2>2, <2>3
<1> QED BY <1>3, <1>5

\* A frame is complete when the registers are on top of what the processor pushed.
LEMMA SavedFrame ==
  ASSUME NEW T, NEW F \in Int, NEW stack, NEW was \in CpuType, NEW n, HardwareFrame(T, F - 16, stack, was, n),
         F <= Len(T), \A y \in 1 .. 15 : T[F - 15 + y] = Saved(was.regs)[y]
  PROVE  Frame(T, F, stack, was, n)
<1>1. was.regs \in [Regs -> Words]
  BY CpuParts
<1>2. ASSUME NEW r \in Regs PROVE T[F - OffsetOf(r)] = was.regs[r]
  <2>1. PICK o \in 0 .. 14 : o = OffsetOf(r)
    BY OffsetFacts
  <2>2. 15 - o \in 1 .. 15 /\ Saved(was.regs)[15 - o] = was.regs[r]
    BY <1>1, <2>1, SavedWords
  <2>3. F - 15 + (15 - o) = F - o
    OBVIOUS
  <2>4. T[F - o] = was.regs[r]
    BY <2>2, <2>3
  <2> QED BY <2>1, <2>4
<1> QED BY <1>2 DEF Frame, RIP

LEMMA ErrorEntryStep ==
  ASSUME EntryInv, error_entry
  PROVE  EntryInv'
<1>1. /\ pc = "error_entry"
      /\ stacks' = [stacks EXCEPT ![cpu.rsp.stack] =
                      SubSeq(@, 1, cpu.rsp.at - 16) \o Saved(cpu.regs) \o <<Slot(0)>>]
      /\ IF Slot(CS + 1)[1] # 3
         THEN cpu' = [Ret(cpu) EXCEPT !.regs["rbx"] = <<1, "ebx", "">>] /\ pc' = "call"
         ELSE cpu' = [Swapgs(cpu) EXCEPT !.regs["rbx"] = <<0, "ebx", "">>] /\ pc' = "switch_cr3"
      /\ UNCHANGED <<bootVars, scratch, sym, frames, inService>>
  BY DEF error_entry, At, KeepTrap
<1>2. AtErrorEntry /\ InTrap /\ OnKernelStack /\ sym \in ExceptionSyms
  BY <1>1 DEF EntryInv, PlaceInv, AtErrorEntry
<1>3. /\ stacks[cpu.rsp.stack] \in Seq(Words) /\ cpu.rsp.at \in Nat /\ Len(stacks[cpu.rsp.stack]) \in Nat
      /\ stacks \in [{"cpu", "ist"} -> Seq(Words)] /\ cpu.rsp.stack \in {"cpu", "ist"}
      /\ Was \in CpuType /\ Level \in Nat /\ Was.rsp.at \in Nat
  BY <1>2, StackIs
<1>4. PICK S \in Seq(Words), at \in Nat : S = stacks[cpu.rsp.stack] /\ at = cpu.rsp.at
  BY <1>3
<1>5. /\ HardwareFrame(S, at - 17, cpu.rsp.stack, Was, Level) /\ at <= Len(S)
      /\ (has_error_code(sym) => S[at - 16] = Of.error) /\ S[at] = <<1, "1f", "identity">>
      /\ cpu.regs = Was.regs /\ (Was.cpl = 3 => cpu.rsp.map = "shared")
      /\ Stands(Was.cr3, Was.gs, Was.kgs, "shared")
  BY <1>2, <1>4 DEF AtErrorEntry, ErrorAt
<1>6. at - 17 >= 5
  BY <1>5 DEF HardwareFrame
<1>7. PICK b \in Nat : b = at - 16 /\ b <= Len(S) /\ at = b + 16 /\ b >= 6
  BY <1>5, <1>6
<1>8. cpu \in CpuType /\ cpu.regs \in [Regs -> Words]
  BY CpuParts DEF EntryInv, TrapTypeOK
<1>9. PICK v : v = Saved(cpu.regs)
  OBVIOUS
<1>10. PICK m \in Nat : m = Len(v) /\ m = 15
  BY <1>8, <1>9, SavedWords
<1>11. v \in Seq(Words) /\ m = Len(v)
  BY <1>8, <1>9, <1>10, SavedWords
<1>12. PICK T1 : T1 = OnTop(S, b, v)
  OBVIOUS
<1>13. /\ T1 \in Seq(Words) /\ Len(T1) = b + m /\ Agree(S, T1, b) /\ \A y \in 1 .. m : T1[b + y] = v[y]
  <2>1. b \in Nat /\ b <= Len(S) /\ S \in Seq(Words)
    BY <1>7, <1>4
  <2>2. /\ OnTop(S, b, v) \in Seq(Words) /\ Len(OnTop(S, b, v)) = b + m /\ Agree(S, OnTop(S, b, v), b)
        /\ \A y \in 1 .. m : OnTop(S, b, v)[b + y] = v[y]
    BY <1>10, <1>11, <2>1, Pushed, ZenonT(60)
  <2> QED BY <1>12, <2>2, Zenon
<1>14. Slot(0) = S[at] /\ Slot(0) \in Words /\ Slot(18) = S[at - 18]
  <2>1. 0 \in Nat /\ 18 \in Nat /\ 0 < at /\ 18 < at
    BY <1>6
  <2>2. Slot(0) = S[at - 0] /\ Slot(0) \in Words /\ Slot(18) = S[at - 18]
    BY <1>2, <1>4, <1>5, <2>1, SlotIs DEF EntryInv
  <2> QED BY <2>2
<1>15. PICK r \in Seq(Words) : r = <<Slot(0)>> /\ Len(r) = 1 /\ r[1] = Slot(0)
  <2>1. PICK x \in Words : x = Slot(0)
    BY <1>14
  <2>2. <<x>> \in Seq(Words) /\ Len(<<x>>) = 1 /\ <<x>>[1] = x
    OBVIOUS
  <2> QED BY <2>1, <2>2, Zenon
<1>16. PICK T : T = T1 \o r
  OBVIOUS
<1>17. T \in Seq(Words) /\ Len(T) = at /\ T[at] = S[at] /\ \A i \in 1 .. (b + 15) : T[i] = T1[i]
  <2>1. PICK k \in Nat : k = Len(T1) /\ k = b + 15
    BY <1>10, <1>13
  <2>2. PICK n \in Nat : n = Len(r) /\ n = 1
    BY <1>15
  <2>3. k = Len(T1) /\ n = Len(r) /\ T1 \in Seq(Words) /\ r \in Seq(Words)
    BY <1>13, <2>1, <2>2
  <2>4. T \in Seq(Words) /\ Len(T) = k + n /\ (\A i \in 1 .. k : T[i] = T1[i]) /\ \A i \in 1 .. n : T[k + i] = r[i]
    BY <1>16, <2>3, Joined
  <2>5. k + n = at /\ n \in 1 .. n
    BY <1>7, <2>1, <2>2
  <2>6. T[at] = r[n]
    BY <2>4, <2>5
  <2>7. T[at] = S[at]
    BY <1>14, <1>15, <2>2, <2>6
  <2> QED BY <2>1, <2>4, <2>5, <2>7
<1>18. Agree(S, T, b)
  BY <1>7, <1>13, <1>17, SMTT(40) DEF Agree
<1>19. stacks' = [stacks EXCEPT ![cpu.rsp.stack] = T]
  BY <1>1, <1>3, <1>4, <1>7, <1>9, <1>12, <1>15, <1>16 DEF OnTop
<1>20. stacks'[cpu.rsp.stack] = T
  BY <1>3, <1>19
<1>21. Was.rsp.stack = cpu.rsp.stack => Agree(S, T, Was.rsp.at)
  <2>1. ASSUME Was.rsp.stack = cpu.rsp.stack PROVE Agree(S, T, Was.rsp.at)
    <3>1. Was.rsp.at + 5 <= at - 17
      BY <1>5, <2>1 DEF HardwareFrame
    <3>2. Was.rsp.at <= b
      BY <1>3, <1>7, <3>1
    <3> QED BY <1>3, <1>18, <3>2, AgreeBelow
  <2> QED BY <2>1
<1>22. Frame(T, at - 1, cpu.rsp.stack, Was, Level)
  <2>1. PICK x \in Int : x = at - 17
    OBVIOUS
  <2>2. x <= b /\ HardwareFrame(S, x, cpu.rsp.stack, Was, Level)
    BY <1>5, <1>7, <2>1
  <2>3. HardwareFrame(T, x, cpu.rsp.stack, Was, Level)
    BY <1>18, <2>2, HardwareFrameKept
  <2>4. PICK F \in Int : F = at - 1 /\ F - 16 = x /\ F - 15 = b /\ F <= at
    BY <1>7, <2>1
  <2>5. ASSUME NEW y \in 1 .. 15 PROVE T[F - 15 + y] = Saved(Was.regs)[y]
    <3>1. b + y \in 1 .. (b + 15) /\ y \in 1 .. m
      BY <1>10
    <3>2. T[b + y] = v[y]
      BY <1>13, <1>17, <3>1
    <3> QED BY <1>5, <1>9, <2>4, <3>2
  <2>6. F <= Len(T)
    BY <1>17, <2>4
  <2>7. Frame(T, F, cpu.rsp.stack, Was, Level)
    BY <1>3, <2>3, <2>4, <2>5, <2>6, SavedFrame
  <2> QED BY <2>4, <2>7
<1>23. has_error_code(sym) => T[at - 16] = Of.error
  <2>1. b \in 1 .. b /\ at - 16 = b
    BY <1>7
  <2>2. T[b] = S[b]
    BY <1>18, <2>1 DEF Agree
  <2> QED BY <1>5, <2>1, <2>2
<1>24. Was' = Was /\ Of' = Of /\ Level' = Level /\ boot' = boot /\ sym' = sym /\ frames' = frames
  BY <1>1, SameContext DEF bootVars
<1>25. ~(inService /\ Len(frames) = 1)
  BY <1>2, NotInService, SymFacts
<1>26. Slot(CS + 1)[1] = Was.cpl
  <2>1. PICK x : x = S[at - 18]
    OBVIOUS
  <2>2. S[at - 18] = <<Was.cpl, "cs", "">>
    <3>1. S[(at - 17) - 1] = <<Was.cpl, "cs", "">>
      BY <1>5, Zenon DEF HardwareFrame
    <3>2. (at - 17) - 1 = at - 18
      OBVIOUS
    <3> QED BY <3>1, <3>2, Zenon
  <2>3. PICK l : l = Was.cpl
    OBVIOUS
  <2>4. x = <<l, "cs", "">>
    BY <2>1, <2>2, <2>3
  <2>5. x[1] = l
    BY <2>4, WordElements, Zenon
  <2>6. Slot(CS + 1) = x
    BY <1>14, <2>1 DEF CS
  <2> QED BY <2>3, <2>5, <2>6
<1>27. <<0, "ebx", "">> \in Words /\ <<1, "ebx", "">> \in Words
  <2>1. 0 \in Int /\ 1 \in Int
    OBVIOUS
  <2> QED BY <2>1, WordTypes, Zenon
<1>28. "rbx" \in Regs /\ sym # "do_syscall_64"
  BY <1>2, GpRegsAre, SymFacts
<1>29. CASE Was.cpl = 3
  <2>1. cpu' = [cpu EXCEPT !.gs = cpu.kgs, !.kgs = cpu.gs, !.regs["rbx"] = <<0, "ebx", "">>]
        /\ pc' = "switch_cr3"
    BY <1>1, <1>8, <1>26, <1>29 DEF Swapgs
  <2>2. /\ cpu' \in CpuType /\ cpu'.cr3 = cpu.cr3 /\ cpu'.cpl = cpu.cpl /\ cpu'.gs = cpu.kgs
        /\ cpu'.kgs = cpu.gs /\ cpu'.rip = cpu.rip /\ cpu'.rsp = cpu.rsp /\ cpu'.if = cpu.if
        /\ cpu'.regs["rbx"] = <<0, "ebx", "">>
    BY <1>8, <1>27, <1>28, <2>1, CpuParts DEF CpuType
  <2>3. UserContext(Was)
    BY <1>29, WasUser DEF EntryInv
  <2>4. PtRegs(at - 1)'
    BY <1>20, <1>22, <1>24, <1>28, <2>2 DEF PtRegs
  <2>5. SwitchPtRegs'
    <3>1. ErrorAt(cpu.rsp.at - 16)'
      BY <1>4, <1>20, <1>23, <1>24, <2>2 DEF ErrorAt
    <3>a. cpu'.rsp.at = at /\ stacks'[cpu'.rsp.stack] = T
      BY <1>4, <1>20, <2>2
    <3>b. at <= Len(T)
      BY <1>17
    <3>2. cpu'.rsp.at <= Len(stacks'[cpu'.rsp.stack])
      BY <3>a, <3>b, Zenon
    <3>3. stacks'[cpu'.rsp.stack][cpu'.rsp.at] = <<1, "1f", "identity">>
      BY <1>4, <1>5, <1>17, <1>20, <2>2
    <3>4. PtRegs(cpu.rsp.at - 1)'
      BY <1>4, <2>2, <2>4
    <3> QED BY <1>2, <1>24, <3>1, <3>2, <3>3, <3>4 DEF SwitchPtRegs
  <2>6. LiveRegs'
    BY <1>24, <1>28, <1>29, <2>2 DEF LiveRegs, EbxOf
  <2>7. Stands("upml4", "shared", "user", "shared")' /\ cpu'.rsp.map = "shared"
    BY <1>5, <1>29, <2>2, <2>3 DEF Stands, UserContext
  <2>8. AtSwitch("upml4", "shared")'
    BY <1>2, <1>24, <1>29, <2>2, <2>5, <2>6, <2>7 DEF AtSwitch, InTrap, OnKernelStack
  <2>9. PlaceInv' /\ pc' \in Pcs
    BY <2>1, <2>8 DEF PlaceInv, Pcs
  <2> QED BY <1>1, <1>2, <1>4, <1>17, <1>19, <1>21, <1>25, <2>2, <2>9, StackStep
<1>30. CASE Was.cpl # 3
  <2>1. cpu' = [Ret(cpu) EXCEPT !.regs["rbx"] = <<1, "ebx", "">>] /\ pc' = "call"
    BY <1>1, <1>26, <1>30
  <2>2. Slot(0)[3] = "identity"
    BY <1>5, <1>14
  <2>3. at - 1 \in Nat
    BY <1>6
  <2>4. cpu' = [cpu EXCEPT !.rsp.at = at - 1, !.rip = "identity", !.regs["rbx"] = <<1, "ebx", "">>]
    BY <1>4, <1>8, <2>1, <2>2 DEF Ret, Popped
  <2>5. /\ cpu' \in CpuType /\ cpu'.cr3 = cpu.cr3 /\ cpu'.cpl = cpu.cpl /\ cpu'.gs = cpu.gs
        /\ cpu'.kgs = cpu.kgs /\ cpu'.rip = "identity" /\ cpu'.if = cpu.if
        /\ cpu'.rsp.stack = cpu.rsp.stack /\ cpu'.rsp.at = at - 1
        /\ cpu'.regs["rbx"] = <<1, "ebx", "">>
    BY <1>8, <1>27, <1>28, <2>3, <2>4, CpuParts DEF CpuType, RspType, Maps
  <2>6. KernelContext(Was, boot)
    BY <1>2, <1>30, WasKernel DEF EntryInv, InTrap
  <2>7. PtRegs(cpu.rsp.at)'
    BY <1>20, <1>22, <1>24, <1>28, <2>5 DEF PtRegs
  <2>8. ErrorAt(cpu.rsp.at - ORIG_RAX)'
    <3>a. (at - 1) - 15 = at - 16
      OBVIOUS
    <3>b. cpu'.rsp.at = at - 1
      BY <2>5
    <3>1. cpu'.rsp.at - 15 = at - 16
      BY <3>a, <3>b, Zenon
    <3> QED BY <1>20, <1>23, <1>24, <2>5, <3>1 DEF ErrorAt, ORIG_RAX
  <2>9. LiveRegs'
    BY <1>24, <1>28, <1>30, <2>5 DEF LiveRegs, EbxOf
  <2>10. KernelContext(cpu, boot)'
    BY <1>2, <1>5, <1>24, <2>5, <2>6 DEF KernelContext, Stands, OnKernelStack
  <2>11. AtCall'
    BY <1>2, <1>24, <2>5, <2>7, <2>8, <2>9, <2>10 DEF AtCall, InTrap
  <2>12. PlaceInv' /\ pc' \in Pcs
    BY <2>1, <2>11 DEF PlaceInv, Pcs
  <2> QED BY <1>1, <1>2, <1>4, <1>17, <1>19, <1>21, <1>25, <2>5, <2>12, StackStep
<1> QED BY <1>29, <1>30

LEMMA InterruptEntryStep ==
  ASSUME EntryInv, interrupt
  PROVE  EntryInv'
<1> DEFINE c == [cpu EXCEPT !.rsp.at = @ + 16]
<1>1. /\ pc = "entry" /\ apicinterrupt(sym)
      /\ stacks' = [stacks EXCEPT ![cpu.rsp.stack] =
                      SubSeq(@, 1, cpu.rsp.at) \o <<<<1, "~vector", "">>>> \o Saved(cpu.regs)]
      /\ IF Slot(1)[1] # 3 THEN cpu' = c /\ pc' = "spin"
         ELSE cpu' = Swapgs(c) /\ pc' = "switch_cr3"
      /\ UNCHANGED <<bootVars, scratch, sym, frames, inService>>
  BY DEF interrupt, At, KeepTrap
<1>a. sym \in ApicSyms /\ sym # "do_syscall_64" /\ sym \notin ExceptionSyms /\ ~has_error_code(sym)
  <2>1. sym \in ApicSyms
    BY <1>1 DEF apicinterrupt, ApicSyms
  <2> QED BY <2>1, SymFacts
<1>2. AtEntry /\ AtGate /\ InTrap /\ OnKernelStack /\ Was.cpl = 3
  BY <1>1, <1>a DEF EntryInv, PlaceInv, AtEntry, AtSyscall, AtGate, InTrap, Entered
<1>3. /\ stacks[cpu.rsp.stack] \in Seq(Words) /\ cpu.rsp.at \in Nat /\ Len(stacks[cpu.rsp.stack]) \in Nat
      /\ stacks \in [{"cpu", "ist"} -> Seq(Words)] /\ cpu.rsp.stack \in {"cpu", "ist"}
      /\ Was \in CpuType /\ Level \in Nat /\ Was.rsp.at \in Nat
  BY <1>2, StackIs
<1>4. PICK S \in Seq(Words), at \in Nat : S = stacks[cpu.rsp.stack] /\ at = cpu.rsp.at
  BY <1>3
<1>5. /\ HardwareFrame(S, at - 0, cpu.rsp.stack, Was, Level) /\ at <= Len(S)
      /\ cpu.regs = Was.regs /\ cpu.rsp.map = "shared"
      /\ Stands(Was.cr3, Was.gs, Was.kgs, "shared")
  BY <1>a, <1>2, <1>4 DEF AtGate, AtEntry
<1>6. HardwareFrame(S, at, cpu.rsp.stack, Was, Level) /\ at >= 5
  <2>1. at - 0 = at
    OBVIOUS
  <2>2. HardwareFrame(S, at, cpu.rsp.stack, Was, Level)
    BY <1>5, <2>1, Zenon
  <2> QED BY <2>2 DEF HardwareFrame
<1>8. cpu \in CpuType /\ cpu.regs \in [Regs -> Words]
  BY CpuParts DEF EntryInv, TrapTypeOK
<1>9. PICK v : v = Saved(cpu.regs)
  OBVIOUS
<1>10. PICK m \in Nat : m = Len(v) /\ m = 15
  BY <1>8, <1>9, SavedWords
<1>11. v \in Seq(Words) /\ m = Len(v)
  BY <1>8, <1>9, <1>10, SavedWords
<1>12. PICK r \in Seq(Words), k \in Nat : r = <<<<1, "~vector", "">>>> /\ k = Len(r) /\ k = 1
  <2>1. <<1, "~vector", "">> \in Words
    BY WordTypes, Zenon
  <2>2. PICK x \in Words : x = <<1, "~vector", "">>
    BY <2>1
  <2>3. <<x>> \in Seq(Words) /\ Len(<<x>>) = 1 /\ 1 \in Nat
    OBVIOUS
  <2> QED BY <2>2, <2>3, Zenon
<1>13. PICK T1 : T1 = OnTop(S, at, r)
  OBVIOUS
<1>14. T1 \in Seq(Words) /\ Len(T1) = at + k /\ Agree(S, T1, at)
  <2>1. at <= Len(S) /\ k = Len(r)
    BY <1>5, <1>12
  <2> QED BY <1>13, <2>1, Pushed
<1>15. PICK T : T = T1 \o v
  OBVIOUS
<1>16. /\ T \in Seq(Words) /\ Len(T) = at + 16 /\ (\A i \in 1 .. (at + 1) : T[i] = T1[i])
       /\ \A i \in 1 .. 15 : T[(at + 1) + i] = v[i]
  <2>a. k = 1
    BY <1>12
  <2>b. Len(T1) = at + k
    BY <1>14
  <2>c. Len(T1) = at + 1 /\ at + 1 \in Nat
    BY <2>a, <2>b
  <2>1. PICK l \in Nat : l = Len(T1) /\ l = at + 1
    BY <2>c
  <2>2. l = Len(T1) /\ m = Len(v) /\ T1 \in Seq(Words) /\ v \in Seq(Words)
    BY <1>11, <1>14, <2>1
  <2>3. /\ T \in Seq(Words) /\ Len(T) = l + m /\ (\A i \in 1 .. l : T[i] = T1[i])
        /\ \A i \in 1 .. m : T[l + i] = v[i]
    BY <1>15, <2>2, Joined
  <2>4. l + m = at + 16
    BY <1>10, <2>1
  <2> QED BY <1>10, <2>1, <2>3, <2>4
<1>17. Agree(S, T, at)
  <2>2. at <= Len(T) /\ \A i \in 1 .. at : T[i] = T1[i]
    BY <1>16
  <2>3. Agree(S, T1, at)
    BY <1>14
  <2> QED BY <2>2, <2>3 DEF Agree
<1>18. stacks' = [stacks EXCEPT ![cpu.rsp.stack] = T]
  BY <1>1, <1>3, <1>4, <1>9, <1>12, <1>13, <1>15 DEF OnTop
<1>19. stacks'[cpu.rsp.stack] = T
  BY <1>3, <1>18
<1>20. Slot(1)[1] = 3
  <2>1. 1 \in Nat /\ 1 < at
    BY <1>6
  <2>2. Slot(1) = S[at - 1]
    BY <1>2, <1>4, <1>5, <2>1, SlotIs DEF EntryInv
  <2>3. S[at - 1] = <<Was.cpl, "cs", "">>
    BY <1>6, Zenon DEF HardwareFrame
  <2>4. PICK x, y : x = Slot(1) /\ y = Was.cpl
    OBVIOUS
  <2>5. x = <<y, "cs", "">>
    BY <2>2, <2>3, <2>4, Zenon
  <2>6. x[1] = y
    BY <2>5, WordElements, Zenon
  <2> QED BY <1>2, <2>4, <2>6
<1>21. cpu' = Swapgs(c) /\ pc' = "switch_cr3"
  BY <1>1, <1>20
<1>22. at + 16 \in Nat
  OBVIOUS
<1>23. cpu' = [cpu EXCEPT !.rsp.at = at + 16, !.gs = cpu.kgs, !.kgs = cpu.gs]
  BY <1>4, <1>8, <1>21 DEF Swapgs
<1>24. /\ cpu' \in CpuType /\ cpu'.cr3 = cpu.cr3 /\ cpu'.cpl = cpu.cpl /\ cpu'.gs = cpu.kgs
       /\ cpu'.kgs = cpu.gs /\ cpu'.rip = cpu.rip /\ cpu'.if = cpu.if
       /\ cpu'.rsp.stack = cpu.rsp.stack /\ cpu'.rsp.at = at + 16 /\ cpu'.rsp.map = cpu.rsp.map
  BY <1>8, <1>22, <1>23, CpuParts DEF CpuType, RspType
<1>25. Was.rsp.stack = cpu.rsp.stack => Agree(S, T, Was.rsp.at)
  <2>1. Was.rsp.stack = "user"
    <3>1. UserContext(Was)
      BY <1>2, WasUser DEF EntryInv
    <3> QED BY <3>1 DEF UserContext, UserRsp
  <2> QED BY <1>3, <2>1
<1>26. Was' = Was /\ Of' = Of /\ Level' = Level /\ boot' = boot /\ sym' = sym /\ frames' = frames
  BY <1>1, SameContext DEF bootVars
<1>27. Frame(T, at + 16, cpu.rsp.stack, Was, Level)
  <2>1. HardwareFrame(T, at, cpu.rsp.stack, Was, Level)
    <3>1. at \in Int /\ at <= at
      OBVIOUS
    <3> QED BY <1>6, <1>17, <3>1, HardwareFrameKept
  <2>2. PICK F \in Int : F = at + 16 /\ F - 16 = at /\ F - 15 = at + 1
    OBVIOUS
  <2>3. HardwareFrame(T, F - 16, cpu.rsp.stack, Was, Level)
    BY <2>1, <2>2, Zenon
  <2>4. \A y \in 1 .. 15 : T[F - 15 + y] = Saved(Was.regs)[y]
    BY <1>5, <1>9, <1>16, <2>2
  <2>5. F <= Len(T)
    BY <1>16, <2>2
  <2>6. Frame(T, F, cpu.rsp.stack, Was, Level)
    BY <1>3, <2>3, <2>4, <2>5, SavedFrame
  <2> QED BY <2>2, <2>6, Zenon
<1>28. PtRegs(cpu.rsp.at)'
  BY <1>a, <1>19, <1>24, <1>26, <1>27 DEF PtRegs
<1>29. SwitchPtRegs' /\ LiveRegs'
  BY <1>a, <1>26, <1>28 DEF SwitchPtRegs, LiveRegs
<1>30. Stands("upml4", "shared", "user", "shared")'
  <2>1. UserContext(Was)
    BY <1>2, WasUser DEF EntryInv
  <2> QED BY <1>5, <1>24, <2>1 DEF Stands, UserContext
<1>31. AtSwitch("upml4", "shared")'
  BY <1>2, <1>5, <1>24, <1>26, <1>29, <1>30 DEF AtSwitch, InTrap, OnKernelStack
<1>32. PlaceInv' /\ pc' \in Pcs /\ pc' \in BeforeEoi
  BY <1>21, <1>31 DEF PlaceInv, Pcs, BeforeEoi
<1> QED BY <1>1, <1>2, <1>4, <1>16, <1>18, <1>24, <1>25, <1>32, StackStep

\* Only the word at x changes.
AgreeBut(S, S2, B, x) ==
  B \in Nat /\ Len(S2) \in Nat /\ B <= Len(S2) /\ \A y \in 1 .. B : y # x => S2[y] = S[y]

\* The word of orig_ax is not part of the context.
LEMMA FrameKeptBut ==
  ASSUME NEW S, NEW S2, NEW F \in Nat, AgreeBut(S, S2, F, F - 15),
         NEW stack, NEW was, NEW n, Frame(S, F, stack, was, n)
  PROVE  Frame(S2, F, stack, was, n)
<1>0. F <= Len(S2) /\ Len(S2) \in Nat /\ \A y \in 1 .. F : y # F - 15 => S2[y] = S[y]
  BY DEF AgreeBut
<1>1. HardwareFrame(S, F - 16, stack, was, n) /\ F - 16 \in Int
  BY DEF Frame, RIP
<1>2. F - 16 >= 5
  BY <1>1 DEF HardwareFrame
<1>3. HardwareFrame(S2, F - 16, stack, was, n)
  <2>1. Agree(S, S2, F - 16)
    BY <1>0, <1>2 DEF Agree
  <2>2. F - 16 <= F - 16
    BY <1>1
  <2> QED BY <1>1, <2>1, <2>2, HardwareFrameKept
<1>4. ASSUME NEW r \in Regs PROVE S2[F - OffsetOf(r)] = was.regs[r]
  <2>1. S[F - OffsetOf(r)] = was.regs[r]
    BY DEF Frame
  <2>2. PICK o \in 0 .. 14 : o = OffsetOf(r)
    BY OffsetFacts
  <2>3. S2[F - o] = S[F - o]
    BY <1>0, <1>2
  <2> QED BY <2>1, <2>2, <2>3
<1> QED BY <1>0, <1>3, <1>4 DEF Frame, RIP

\* The frame of a system call does not need its word of rax.
LEMMA SyscallFrameKeptBut ==
  ASSUME NEW S, NEW S2, NEW F \in Nat, AgreeBut(S, S2, F, F - 10),
         NEW was, NEW n, SyscallFrame(S, F, was, n)
  PROVE  SyscallFrame(S2, F, was, n)
<1>0. F <= Len(S2) /\ Len(S2) \in Nat /\ \A y \in 1 .. F : y # F - 10 => S2[y] = S[y]
  BY DEF AgreeBut
<1>1. F >= 21
  BY DEF SyscallFrame
<1>2. S2[F - 16] = S[F - 16] /\ S2[F - 18] = S[F - 18]
  BY <1>0, <1>1
<1>3. ASSUME NEW r \in FrameRegs PROVE S2[F - OffsetOf(r)] = was.regs[r]
  <2>1. S[F - OffsetOf(r)] = was.regs[r]
    BY DEF SyscallFrame
  <2>2. PICK o \in (0 .. 14) \ {10} : o = OffsetOf(r)
    BY Offsets DEF FrameRegs
  <2>3. S2[F - o] = S[F - o]
    BY <1>0, <1>1
  <2> QED BY <2>1, <2>2, <2>3
<1> QED BY <1>0, <1>1, <1>2, <1>3 DEF SyscallFrame, RIP, RFLAGS

LEMMA Rewritten ==
  ASSUME NEW S \in Seq(Words), NEW at \in Nat, at <= Len(S), NEW x \in 1 .. at, NEW w \in Words,
         NEW Q, Q = [SubSeq(S, 1, at) EXCEPT ![x] = w]
  PROVE  Q \in Seq(Words) /\ Len(Q) = at /\ \A y \in 1 .. at : y # x => Q[y] = S[y]
<1>1. PICK P : P = SubSeq(S, 1, at)
  OBVIOUS
<1>2. P \in Seq(Words) /\ Len(P) = at /\ \A y \in 1 .. at : P[y] = S[y]
  BY <1>1, PrefixFacts
<1>3. P \in [1 .. at -> Words]
  BY <1>2
<1>4. Q = [P EXCEPT ![x] = w]
  BY <1>1
<1>5. Q \in [1 .. at -> Words] /\ \A y \in 1 .. at : y # x => Q[y] = P[y]
  BY <1>3, <1>4
<1>6. Q \in Seq(Words) /\ Len(Q) = at
  BY <1>5
<1> QED BY <1>2, <1>5, <1>6

LEMMA SyscallExitStep ==
  ASSUME EntryInv, syscall_exit
  PROVE  EntryInv'
<1>1. /\ pc = "syscall_exit" /\ pc' = "retint_user" /\ cpu' = cpu
      /\ stacks' = [stacks EXCEPT !["cpu"] = [Stack EXCEPT ![Len(Stack) - OffsetOf("rax")] = cpu.regs["rax"]]]
      /\ UNCHANGED <<bootVars, scratch, sym, frames, inService>>
  BY DEF syscall_exit, At, KeepTrap
<1>2. AtExit /\ sym = "do_syscall_64" /\ InTrap /\ KernelContext(cpu, boot)
      /\ PtRegs(cpu.rsp.at) /\ LiveRegs
  BY <1>1 DEF EntryInv, PlaceInv, AtExit
<1>3. OnKernelStack /\ cpu.rsp.stack = "cpu" /\ SyscallFrame(stacks["cpu"], cpu.rsp.at, Was, Level)
  BY <1>2 DEF PtRegs, OnKernelStack
<1>4. /\ stacks[cpu.rsp.stack] \in Seq(Words) /\ cpu.rsp.at \in Nat /\ Len(stacks[cpu.rsp.stack]) \in Nat
      /\ stacks \in [{"cpu", "ist"} -> Seq(Words)]
      /\ Was \in CpuType /\ Level \in Nat /\ Was.rsp.at \in Nat
  BY <1>3, StackIs
<1>5. PICK S \in Seq(Words), at \in Nat : S = stacks[cpu.rsp.stack] /\ at = cpu.rsp.at
  BY <1>4
<1>6. SyscallFrame(S, at, Was, Level) /\ at >= 21 /\ at <= Len(S)
  BY <1>3, <1>5 DEF SyscallFrame
<1>7. PICK P : P = SubSeq(S, 1, at)
  OBVIOUS
<1>8. Stack = P /\ Len(P) = at
  BY <1>5, <1>6, <1>7, PrefixFacts DEF Stack
<1>9. PICK x \in 1 .. at : x = at - 10
  BY <1>6
<1>10. cpu \in CpuType /\ cpu.regs["rax"] \in Words
  <2>1. cpu \in CpuType /\ cpu.regs \in [Regs -> Words]
    BY CpuParts DEF EntryInv, TrapTypeOK
  <2> QED BY <2>1, GpRegsAre
<1>11. PICK w \in Words : w = cpu.regs["rax"]
  BY <1>10
<1>12. PICK Q : Q = [SubSeq(S, 1, at) EXCEPT ![x] = w]
  OBVIOUS
<1>13. Q \in Seq(Words) /\ Len(Q) = at /\ \A y \in 1 .. at : y # x => Q[y] = S[y]
  <2>1. at <= Len(S)
    BY <1>6
  <2> QED BY <1>12, <2>1, Rewritten
<1>14. stacks' = [stacks EXCEPT ![cpu.rsp.stack] = Q]
  BY <1>1, <1>3, <1>7, <1>8, <1>9, <1>11, <1>12, Offsets
<1>15. stacks'["cpu"] = Q
  BY <1>3, <1>4, <1>14
<1>16. AgreeBut(S, Q, at, at - 10)
  BY <1>9, <1>13 DEF AgreeBut
<1>17. SyscallFrame(Q, at, Was, Level)
  BY <1>6, <1>16, SyscallFrameKeptBut
<1>18. /\ Was.cpl = 3 /\ UserContext(Was) /\ Len(frames) = 1 /\ boot = "done"
       /\ ~(inService /\ Len(frames) = 1)
  BY <1>2, SyscallContext
<1>19. Was' = Was /\ Of' = Of /\ Level' = Level /\ boot' = boot /\ sym' = sym /\ frames' = frames
  BY <1>1, SameContext DEF bootVars
<1>20. PtRegs(cpu.rsp.at)'
  BY <1>1, <1>2, <1>3, <1>5, <1>15, <1>17, <1>19 DEF PtRegs
<1>21. AtBack("kpml4", "identity")'
  <2>1. Leaving' /\ OnKernelStack'
    BY <1>1, <1>2, <1>3, <1>19 DEF Leaving, InTrap, OnKernelStack
  <2>2. Stands("kpml4", "shared", "user", "identity")'
    BY <1>1, <1>2, <1>18 DEF Stands, KernelContext, KernelGs
  <2>3. KeepsExtra(cpu.regs, Was)'
    BY <1>1, <1>2, <1>19 DEF LiveRegs, KeepsExtra
  <2> QED BY <1>2, <1>18, <1>19, <1>20, <2>1, <2>2, <2>3 DEF AtBack
<1>22. PlaceInv' /\ pc' \in Pcs
  BY <1>1, <1>21 DEF PlaceInv, Pcs
<1>23. Was.rsp.stack # cpu.rsp.stack
  BY <1>3, <1>18 DEF UserContext, UserRsp
<1>24. cpu' \in CpuType /\ cpu'.rsp.stack = cpu.rsp.stack
  BY <1>1, <1>10
<1> QED BY <1>1, <1>2, <1>3, <1>13, <1>14, <1>18, <1>22, <1>23, <1>24, StackStep

\* What a call leaves on the stack, and the handler it starts.
LEMMA CalledHandles ==
  ASSUME NEW S, NEW T, NEW at \in Nat, AgreeBut(S, T, at, at - 15), at + 8 <= Len(T), NEW c, c.rsp.at = at + 8,
         NEW s, NEW was, NEW event, NEW n, Frame(S, at, c.rsp.stack, was, n), s # "do_syscall_64",
         T[at + 1] = <<at, c.rsp.stack, c.rsp.map>>, T[at + 2] = <<2, "return", "identity">>,
         c.regs["rdi"] = <<at, c.rsp.stack, c.rsp.map>>, has_error_code(s) => c.regs["rsi"] = event.error,
         ~apicinterrupt(s) => T[at + 8] = EbxOf(was)
  PROVE  Handles(T, c, s, was, event, n)
<1>1. Frame(T, at, c.rsp.stack, was, n)
  BY FrameKeptBut
<1>2. at + 8 - 8 = at
  OBVIOUS
<1>3. c.rsp.at - 8 = at /\ c.rsp.at <= Len(T)
  BY <1>2
<1>4. T[c.rsp.at - 8 + 1] = <<c.rsp.at - 8, c.rsp.stack, c.rsp.map>> /\ T[c.rsp.at - 8 + 2] = <<2, "return", "identity">>
  BY <1>3, Zenon
<1>5. /\ Frame(T, c.rsp.at - 8, c.rsp.stack, was, n) /\ c.regs["rdi"] = <<c.rsp.at - 8, c.rsp.stack, c.rsp.map>>
      /\ ~apicinterrupt(s) => T[c.rsp.at - 8 + 8] = EbxOf(was)
  BY <1>1, <1>3, Zenon
<1> QED BY <1>3, <1>4, <1>5, Zenon DEF Handles

LEMMA CalledHandlesSyscall ==
  ASSUME NEW S, NEW T, NEW at \in Nat, Agree(S, T, at), at + 8 <= Len(T), NEW c, c.rsp.at = at + 8,
         NEW s, s = "do_syscall_64", NEW was, NEW event, NEW n, SyscallFrame(S, at, was, n),
         T[at + 1] = <<at, c.rsp.stack, c.rsp.map>>, T[at + 2] = <<2, "return", "identity">>,
         \A i \in 1 .. 6 : T[at + 2 + i] = was.regs[ExtraRegs[i]]
  PROVE  Handles(T, c, s, was, event, n)
<1>1. SyscallFrame(T, at, was, n)
  <2>1. at \in Int /\ at <= at
    OBVIOUS
  <2> QED BY <2>1, SyscallFrameKept
<1>2. at + 8 - 8 = at
  OBVIOUS
<1>3. c.rsp.at - 8 = at /\ c.rsp.at <= Len(T)
  BY <1>2
<1>4. T[c.rsp.at - 8 + 1] = <<c.rsp.at - 8, c.rsp.stack, c.rsp.map>> /\ T[c.rsp.at - 8 + 2] = <<2, "return", "identity">>
  BY <1>3, Zenon
<1>5. SyscallFrame(T, c.rsp.at - 8, was, n) /\ \A i \in 1 .. 6 : T[c.rsp.at - 8 + 2 + i] = was.regs[ExtraRegs[i]]
  BY <1>1, <1>3, Zenon
<1> QED BY <1>3, <1>4, <1>5, Zenon DEF Handles

\* The stack after a call from a stack Q: two words, then the registers a C function keeps.
CallTop(Q, a, b, regs) == Q \o <<a, b>> \o [i \in 1 .. 6 |-> regs[ExtraRegs[i]]]

Called(T, Q, at, a, b, regs) ==
  /\ T \in Seq(Words) /\ Len(T) = at + 8 /\ T[at + 1] = a /\ T[at + 2] = b
  /\ \A y \in 1 .. at : T[y] = Q[y]
  /\ \A i \in 1 .. 6 : T[at + 2 + i] = regs[ExtraRegs[i]]

LEMMA CalledStack ==
  ASSUME NEW Q \in Seq(Words), NEW at \in Nat, at = Len(Q), NEW a \in Words, NEW b \in Words,
         NEW regs \in [Regs -> Words], NEW T, T = CallTop(Q, a, b, regs)
  PROVE  Called(T, Q, at, a, b, regs)
<1>1. PICK e \in Seq(Words), m \in Nat :
        /\ e = [i \in 1 .. 6 |-> regs[ExtraRegs[i]]] /\ m = Len(e) /\ m = 6
        /\ \A i \in 1 .. 6 : e[i] = regs[ExtraRegs[i]]
  <2>1. \A i \in 1 .. 6 : regs[ExtraRegs[i]] \in Words
    BY ExtraRegsAre
  <2>2. PICK e : e = [i \in 1 .. 6 |-> regs[ExtraRegs[i]]]
    OBVIOUS
  <2>3. e \in Seq(Words) /\ Len(e) = 6 /\ \A i \in 1 .. 6 : e[i] = regs[ExtraRegs[i]]
    BY <2>1, <2>2
  <2>4. 6 \in Nat
    OBVIOUS
  <2> QED BY <2>2, <2>3, <2>4, Zenon
<1>2. PICK r \in Seq(Words), k \in Nat : r = <<a, b>> /\ k = Len(r) /\ k = 2
  <2>1. <<a, b>> \in Seq(Words) /\ Len(<<a, b>>) = 2 /\ 2 \in Nat
    OBVIOUS
  <2> QED BY <2>1, Zenon
<1>3. r[1] = a /\ r[2] = b
  BY <1>2
<1>4. PICK T1 : T1 = Q \o r
  OBVIOUS
<1>5. /\ T1 \in Seq(Words) /\ Len(T1) = at + k
      /\ (\A i \in 1 .. at : T1[i] = Q[i]) /\ (\A i \in 1 .. k : T1[at + i] = r[i])
  <2>1. at = Len(Q) /\ k = Len(r)
    BY <1>2
  <2> QED BY <1>4, <2>1, Joined
<1>6. PICK l \in Nat : l = Len(T1) /\ l = at + 2
  BY <1>2, <1>5
<1>7. /\ T \in Seq(Words) /\ Len(T) = l + m /\ (\A i \in 1 .. l : T[i] = T1[i])
      /\ (\A i \in 1 .. m : T[l + i] = e[i])
  <2>1. l = Len(T1) /\ m = Len(e) /\ T1 \in Seq(Words)
    BY <1>1, <1>5, <1>6
  <2>2. T = T1 \o e
    BY <1>1, <1>2, <1>4 DEF CallTop
  <2> QED BY <2>1, <2>2, Joined
<1>8. m = 6 /\ k = 2 /\ l = at + 2
  BY <1>1, <1>2, <1>6
<1>9. l + m = at + 8 /\ 1 \in 1 .. k /\ 2 \in 1 .. k /\ at + 1 \in 1 .. l /\ at + 2 \in 1 .. l
  BY <1>8
<1>10. T[at + 1] = a /\ T[at + 2] = b
  BY <1>5, <1>9, <1>7, <1>3
<1>11. \A y \in 1 .. at : T[y] = Q[y]
  <2>1. \A y \in 1 .. at : y \in 1 .. l
    BY <1>8
  <2> QED BY <1>5, <1>7, <2>1, Zenon
<1>12. \A i \in 1 .. 6 : T[at + 2 + i] = regs[ExtraRegs[i]]
  BY <1>1, <1>7, <1>8
<1>13. Len(T) = at + 8
  BY <1>7, <1>9, Zenon
<1> QED BY <1>7, <1>10, <1>11, <1>12, <1>13, Zenon DEF Called

LEMMA CallStep ==
  ASSUME EntryInv, Call
  PROVE  EntryInv'
<1> DEFINE regs == IF sym = "do_syscall_64" THEN [cpu.regs EXCEPT !["rcx"] = cpu.regs["r10"]] ELSE CalledWith
           top == IF has_error_code(sym)
                  THEN [Stack EXCEPT ![Len(Stack) - ORIG_RAX] = MinusOne] ELSE Stack
<1>1. /\ pc = "call" /\ pc' = "c" /\ cpu' = [cpu EXCEPT !.rsp.at = @ + 8, !.regs = regs]
      /\ stacks' = [stacks EXCEPT ![cpu.rsp.stack] =
                      top \o <<RspWord(cpu.rsp), <<2, "return", cpu.rip>>>>
                          \o [i \in 1 .. 6 |-> cpu.regs[ExtraRegs[i]]]]
      /\ UNCHANGED <<bootVars, scratch, sym, frames, inService>>
  BY DEF Call, At, KeepTrap
<1> HIDE DEF regs, top
<1>2. /\ InTrap /\ KernelContext(cpu, boot) /\ PtRegs(cpu.rsp.at) /\ LiveRegs /\ ErrorAt(cpu.rsp.at - ORIG_RAX)
      /\ OnKernelStack /\ cpu.rip = "identity"
  BY <1>1 DEF EntryInv, PlaceInv, AtCall, KernelContext, OnKernelStack
<1>3. /\ stacks[cpu.rsp.stack] \in Seq(Words) /\ cpu.rsp.at \in Nat /\ Len(stacks[cpu.rsp.stack]) \in Nat
      /\ stacks \in [{"cpu", "ist"} -> Seq(Words)] /\ cpu.rsp.stack \in {"cpu", "ist"}
      /\ Was \in CpuType /\ Level \in Nat /\ Was.rsp.at \in Nat
  BY <1>2, StackIs
<1>4. PICK S \in Seq(Words), at \in Nat : S = stacks[cpu.rsp.stack] /\ at = cpu.rsp.at
  BY <1>3
<1>5. at >= 21 /\ at <= Len(S) /\ PtRegs(at)
  <2>1. at \in Int /\ PtRegs(at)
    BY <1>2, <1>4
  <2> QED BY <1>4, <2>1, PtRegsRoom
<1>6. cpu \in CpuType /\ cpu.regs \in [Regs -> Words] /\ cpu.rsp \in RspType
  BY CpuParts DEF EntryInv, TrapTypeOK
<1>7. PICK P : P = SubSeq(S, 1, at)
  OBVIOUS
<1>8. P \in Seq(Words) /\ Len(P) = at /\ (\A y \in 1 .. at : P[y] = S[y]) /\ Stack = P
  <2>1. at <= Len(S)
    BY <1>5
  <2> QED BY <1>4, <1>7, <2>1, PrefixFacts DEF Stack
<1>9. /\ top \in Seq(Words) /\ Len(top) = at /\ (\A y \in 1 .. at : y # at - 15 => top[y] = S[y])
      /\ ~has_error_code(sym) => \A y \in 1 .. at : top[y] = S[y]
  <2>1. CASE has_error_code(sym)
    <3>1. PICK x \in 1 .. at : x = at - 15
      BY <1>5
    <3>2. MinusOne \in Words
      BY WordTypes, Zenon
    <3>3. top = [SubSeq(S, 1, at) EXCEPT ![x] = MinusOne]
      BY <1>7, <1>8, <2>1, <3>1 DEF top, ORIG_RAX
    <3>4. at <= Len(S)
      BY <1>5
    <3>5. top \in Seq(Words) /\ Len(top) = at /\ \A y \in 1 .. at : y # x => top[y] = S[y]
      BY <3>2, <3>3, <3>4, Rewritten
    <3> QED BY <2>1, <3>1, <3>5
  <2>2. CASE ~has_error_code(sym)
    <3>1. top = P
      BY <1>8, <2>2 DEF top
    <3> QED BY <1>8, <3>1, Zenon
  <2> QED BY <2>1, <2>2
<1>10. PICK a \in Words, b \in Words : a = <<at, cpu.rsp.stack, cpu.rsp.map>> /\ a = RspWord(cpu.rsp)
                                       /\ b = <<2, "return", "identity">>
  BY <1>6, WordTypes, <1>4, Zenon DEF RspWord
<1>11. PICK T : T = CallTop(top, a, b, cpu.regs)
  OBVIOUS
<1>12. /\ T \in Seq(Words) /\ Len(T) = at + 8 /\ T[at + 1] = a /\ T[at + 2] = b
       /\ (\A y \in 1 .. at : T[y] = top[y])
       /\ \A i \in 1 .. 6 : T[at + 2 + i] = cpu.regs[ExtraRegs[i]]
  <2>1. top \in Seq(Words) /\ at = Len(top) /\ cpu.regs \in [Regs -> Words]
    BY <1>6, <1>9
  <2>2. PICK Q \in Seq(Words), g \in [Regs -> Words] : Q = top /\ at = Len(Q) /\ g = cpu.regs
    BY <2>1
  <2>3. T = CallTop(Q, a, b, g) /\ at = Len(Q)
    BY <1>11, <2>2, Zenon
  <2>3a. Called(T, Q, at, a, b, g)
    BY <2>3, CalledStack
  <2>4. /\ T \in Seq(Words) /\ Len(T) = at + 8 /\ T[at + 1] = a /\ T[at + 2] = b
        /\ (\A y \in 1 .. at : T[y] = Q[y])
        /\ \A i \in 1 .. 6 : T[at + 2 + i] = g[ExtraRegs[i]]
    BY <2>3a, Zenon DEF Called
  <2> QED BY <2>2, <2>4, Zenon
<1>13. stacks' = [stacks EXCEPT ![cpu.rsp.stack] = T]
  BY <1>1, <1>2, <1>10, <1>11, Zenon DEF CallTop
<1>14. stacks'[cpu.rsp.stack] = T
  BY <1>3, <1>13
<1>15. AgreeBut(S, T, at, at - 15) /\ (~has_error_code(sym) => Agree(S, T, at))
  <2>1. at <= Len(T) /\ Len(T) \in Nat
    BY <1>12
  <2> QED BY <1>9, <1>12, <2>1 DEF AgreeBut, Agree
<1>16. Slot(ORIG_RAX) = S[at - 15] /\ Slot(ORIG_RAX) \in Words
  <2>1. 15 \in Nat /\ 15 < at
    BY <1>5
  <2> QED BY <1>2, <1>4, <1>5, <2>1, SlotIs DEF EntryInv, ORIG_RAX
<1>17. /\ regs \in [Regs -> Words]
       /\ sym # "do_syscall_64" => /\ regs["rdi"] = a
                                   /\ has_error_code(sym) => regs["rsi"] = Of.error
  <2>1. CASE sym = "do_syscall_64"
    BY <1>6, <2>1, GpRegsAre DEF regs
  <2>2. CASE sym # "do_syscall_64"
    <3>1. PICK w \in Words : w = IF has_error_code(sym) THEN Slot(ORIG_RAX) ELSE <<0, "zero", "">>
      <4>1. <<0, "zero", "">> \in Words
        BY WordTypes, Zenon
      <4> QED BY <1>16, <4>1
    <3>2. has_error_code(sym) => w = Of.error
      BY <1>2, <1>4, <1>16, <3>1 DEF ErrorAt, ORIG_RAX
    <3>3. regs = [cpu.regs EXCEPT !["rdi"] = a, !["rsi"] = w]
      BY <1>10, <2>2, <3>1, Zenon DEF regs, CalledWith
    <3> QED BY <1>6, <3>2, <3>3, GpRegsAre
  <2> QED BY <2>1, <2>2
<1>18. /\ cpu' \in CpuType /\ cpu'.cr3 = cpu.cr3 /\ cpu'.cpl = cpu.cpl /\ cpu'.gs = cpu.gs
       /\ cpu'.kgs = cpu.kgs /\ cpu'.rip = cpu.rip /\ cpu'.if = cpu.if /\ cpu'.regs = regs
       /\ cpu'.rsp.stack = cpu.rsp.stack /\ cpu'.rsp.at = at + 8 /\ cpu'.rsp.map = cpu.rsp.map
  <2>1. at + 8 \in Nat
    OBVIOUS
  <2>2. cpu' = [cpu EXCEPT !.rsp.at = at + 8, !.regs = regs]
    BY <1>1, <1>4, <1>6
  <2> QED BY <1>6, <1>17, <2>1, <2>2, CpuParts DEF CpuType, RspType
<1>19. Was' = Was /\ Of' = Of /\ Level' = Level /\ boot' = boot /\ sym' = sym /\ frames' = frames
  BY <1>1, SameContext DEF bootVars
<1>20. Handles(T, cpu', sym, Was, Of, Level)
  <2>1. at + 8 <= Len(T)
    BY <1>12
  <2>2. T[at + 1] = <<at, cpu'.rsp.stack, cpu'.rsp.map>> /\ T[at + 2] = <<2, "return", "identity">>
    BY <1>10, <1>12, <1>18, Zenon
  <2>3. CASE sym = "do_syscall_64"
    <3>1. SyscallFrame(S, at, Was, Level)
      BY <1>4, <1>5, <2>3 DEF PtRegs
    <3>2. \A i \in 1 .. 6 : T[at + 2 + i] = Was.regs[ExtraRegs[i]]
      BY <1>2, <1>12, <2>3, Zenon DEF LiveRegs, KeepsExtra
    <3>3. Agree(S, T, at)
      BY <1>15, <2>3, SymFacts
    <3>4. cpu'.rsp.at = at + 8
      BY <1>18
    <3> QED BY <2>1, <2>2, <2>3, <3>1, <3>2, <3>3, <3>4, CalledHandlesSyscall
  <2>4. CASE sym # "do_syscall_64"
    <3>1. Frame(S, at, cpu'.rsp.stack, Was, Level)
      BY <1>4, <1>5, <1>18, <2>4 DEF PtRegs
    <3>2. cpu'.regs["rdi"] = <<at, cpu'.rsp.stack, cpu'.rsp.map>>
      BY <1>10, <1>17, <1>18, <2>4, Zenon
    <3>3. has_error_code(sym) => cpu'.regs["rsi"] = Of.error
      BY <1>17, <1>18, <2>4
    <3>4. ~apicinterrupt(sym) => T[at + 8] = EbxOf(Was)
      <4>1. SUFFICES ASSUME ~apicinterrupt(sym) PROVE T[at + 8] = EbxOf(Was)
        OBVIOUS
      <4>2. sym \in ExceptionSyms
        BY <1>2, <2>4, <4>1, SymFacts DEF InTrap, Entered
      <4>3. cpu.regs["rbx"] = EbxOf(Was)
        BY <1>2, <4>2 DEF LiveRegs
      <4>4. 6 \in 1 .. 6 /\ at + 2 + 6 = at + 8
        OBVIOUS
      <4>5. T[at + 8] = cpu.regs[ExtraRegs[6]]
        BY <1>12, <4>4, Zenon
      <4> QED BY <4>3, <4>5, ExtraRegsAre, Zenon
    <3>5. cpu'.rsp.at = at + 8 /\ AgreeBut(S, T, at, at - 15)
      BY <1>15, <1>18
    <3> QED BY <2>1, <2>2, <2>4, <3>1, <3>2, <3>3, <3>4, <3>5, CalledHandles
  <2> QED BY <2>3, <2>4
<1>21. AtC'
  BY <1>2, <1>18, <1>19, <1>14, <1>20, Zenon DEF KernelContext, InTrap, AtC
<1>22. PlaceInv' /\ pc' \in Pcs /\ pc' \in BeforeEoi
  BY <1>1, <1>21 DEF PlaceInv, Pcs, BeforeEoi
<1>23. Was.rsp.stack = cpu.rsp.stack => Agree(S, T, Was.rsp.at)
  <2>1. SUFFICES ASSUME Was.rsp.stack = cpu.rsp.stack PROVE Agree(S, T, Was.rsp.at)
    OBVIOUS
  <2>2. Was.cpl # 3
    <3>1. ASSUME Was.cpl = 3 PROVE FALSE
      <4>1. UserContext(Was)
        BY <3>1, WasUser DEF EntryInv
      <4> QED BY <1>3, <2>1, <4>1 DEF UserContext, UserRsp
    <3> QED BY <3>1
  <2>3. sym # "do_syscall_64"
    BY <1>2, <2>2 DEF InTrap, Entered
  <2>4. HardwareFrame(S, at - 16, cpu.rsp.stack, Was, Level)
    BY <1>4, <1>5, <2>3 DEF PtRegs, Frame, RIP
  <2>5. PICK B \in Nat : B = Was.rsp.at
    BY <1>3
  <2>6. B + 5 <= at - 16
    BY <2>1, <2>4, <2>5 DEF HardwareFrame
  <2>7. \A y \in 1 .. at : y # at - 15 => T[y] = S[y]
    BY <1>15 DEF AgreeBut
  <2>8. Len(T) \in Nat /\ B <= Len(T)
    BY <1>12, <2>6
  <2>9. \A y \in 1 .. B : y \in 1 .. at /\ y # at - 15
    BY <2>6
  <2>10. Agree(S, T, B)
    BY <2>7, <2>8, <2>9, Zenon DEF Agree
  <2> QED BY <2>5, <2>10
<1> QED BY <1>1, <1>2, <1>4, <1>12, <1>13, <1>18, <1>22, <1>23, StackStep

-----------------------------------------------------------------------------
(***************************************************************************)
(* A context is interrupted.                                               *)
(***************************************************************************)
GrownBy(g, f, L) ==
  /\ g \in Seq(FrameType) /\ Len(g) = L + 1 /\ g # <<>> /\ g[L + 1] = f
  /\ \A i \in 1 .. L : g[i] = frames[i]

LEMMA Grown ==
  ASSUME TrapTypeOK, NEW L \in Nat, L = Len(frames), NEW f \in FrameType, NEW g, g = Append(frames, f)
  PROVE  GrownBy(g, f, L)
<1>1. frames \in Seq(FrameType)
  BY DEF TrapTypeOK
<1>2. PICK h \in Seq(FrameType) : h = frames
  BY <1>1
<1>3. g = Append(h, f) /\ L = Len(h)
  BY <1>2
<1>4. g \in Seq(FrameType) /\ Len(g) = L + 1 /\ g[L + 1] = f /\ \A i \in 1 .. L : g[i] = h[i]
  BY <1>3
<1>5. g # <<>>
  <2>1. ASSUME g = <<>> PROVE FALSE
    <3>1. Len(g) = 0
      BY <2>1
    <3> QED BY <1>4, <3>1
  <2> QED BY <2>1
<1> QED BY <1>2, <1>4, <1>5, Zenon DEF GrownBy

\* The context it becomes.
LEMMA NewContext ==
  ASSUME TrapTypeOK, NEW e \in EventType, frames' = Interrupted(e)
  PROVE  /\ Was' = cpu /\ Of' = e /\ Level' = Len(frames) /\ frames' # <<>> /\ frames' \in Seq(FrameType)
         /\ Len(frames) \in Nat /\ Len(frames') = Len(frames) + 1
<1>1. PICK f : f = [cpu |-> cpu, sym |-> sym, event |-> e]
  OBVIOUS
<1>2. f \in FrameType /\ f.cpu = cpu /\ f.sym = sym /\ f.event = e
  BY <1>1 DEF TrapTypeOK, FrameType
<1>3. PICK L \in Nat : L = Len(frames)
  BY FrameTypes
<1>4. PICK g : g = Append(frames, f)
  OBVIOUS
<1>5. /\ g \in Seq(FrameType) /\ Len(g) = L + 1 /\ g # <<>> /\ g[L + 1] = f
      /\ \A i \in 1 .. L : g[i] = frames[i]
  <2>1. GrownBy(g, f, L)
    BY <1>2, <1>3, <1>4, Grown
  <2> QED BY <2>1, Zenon DEF GrownBy
<1>6. frames' = g
  BY <1>1, <1>4 DEF Interrupted
<1>7. L + 1 - 1 = L
  OBVIOUS
<1>a. /\ Was' = IF frames' = <<>> THEN FirstUser ELSE frames'[Len(frames')].cpu
      /\ Of' = IF frames' = <<>> THEN [vector |-> 0, error |-> Junk] ELSE frames'[Len(frames')].event
      /\ Level' = IF frames' = <<>> THEN 0 ELSE Len(frames') - 1
  BY Zenon DEF Was, Of, Level, FirstUser, UserRsp, OwnRegs, Junk
<1>8. Was' = g[L + 1].cpu /\ Of' = g[L + 1].event /\ Level' = L + 1 - 1
  BY <1>5, <1>6, <1>a
<1> QED BY <1>2, <1>3, <1>5, <1>6, <1>7, <1>8

LEMMA OneContext ==
  /\ \A L \in Nat : L = 0 => L + 1 = 1
  /\ \A m \in 1 .. 1 : \A n \in 1 .. m : n = 1 /\ m = 1
  /\ \A x \in Nat : x <= x
OBVIOUS

\* The first one of a chain.
LEMMA ChainFirst ==
  ASSUME TrapTypeOK, frames = <<>>, sym = "", NEW e \in EventType, frames' = Interrupted(e), boot' = boot,
         IF boot = "done" THEN UserContext(cpu) ELSE BootContext(cpu, boot)
  PROVE  ChainInv'
<1>1. PICK f : f = [cpu |-> cpu, sym |-> sym, event |-> e]
  OBVIOUS
<1>2. f \in FrameType /\ f.cpu = cpu /\ f.sym = ""
  BY <1>1 DEF TrapTypeOK, FrameType
<1>3. PICK L \in Nat : L = Len(frames) /\ L = 0
  OBVIOUS
<1>4. PICK g : g = Append(frames, f)
  OBVIOUS
<1>5. g \in Seq(FrameType) /\ Len(g) = L + 1 /\ g # <<>> /\ g[L + 1] = f
  <2>1. L = Len(frames)
    BY <1>3
  <2>2. GrownBy(g, f, L)
    BY <1>2, <1>4, <2>1, Grown, Zenon
  <2> QED BY <2>2, Zenon DEF GrownBy
<1>6. L + 1 = 1
  BY <1>3, OneContext, Zenon
<1>7. Len(g) = 1 /\ g[1] = f
  BY <1>5, <1>6
<1>8. frames' = g
  BY <1>1, <1>4 DEF Interrupted
<1>9. /\ frames'[1].sym = ""
      /\ IF boot' = "done" THEN UserContext(frames'[1].cpu) ELSE BootContext(frames'[1].cpu, boot')
  BY <1>2, <1>7, <1>8
<1>10. \A n \in 2 .. Len(frames') : FALSE
  BY <1>7, <1>8, ShortChain, Zenon
<1>11. \A m \in 1 .. Len(frames') : \A n \in 1 .. m :
         /\ frames'[n].cpu.rsp.stack = frames'[m].cpu.rsp.stack => frames'[n].cpu.rsp.at <= frames'[m].cpu.rsp.at
         /\ frames'[n].cpu.rsp.stack = "ist" => frames'[m].cpu.rsp.stack = "ist"
  BY <1>7, <1>8, OneContext, CpuParts, <1>2, Zenon DEF TrapTypeOK
<1> QED BY <1>9, <1>10, <1>11, Zenon DEF ChainInv

\* A further one: a C handler is interrupted, on its own stack or for a double fault.
LEMMA ChainGrown ==
  ASSUME EntryInv, pc = "c", frames # <<>>, NEW e \in EventType, frames' = Interrupted(e), boot' = boot,
         NEW stack \in {"cpu", "ist"}, cpu'.rsp.stack = stack, NEW T, stacks'[stack] = T,
         stack = cpu.rsp.stack => Agree(stacks[stack], T, cpu.rsp.at), cpu.rsp.stack = "ist" => stack = "ist"
  PROVE  ChainInv'
<1>1. /\ KernelContext(cpu, boot) /\ InTrap /\ Handles(stacks[cpu.rsp.stack], cpu, sym, Was, Of, Level)
      /\ OnKernelStack /\ Entered(sym, Was, cpu.rsp.stack, boot) /\ TrapTypeOK /\ ChainInv
  BY DEF EntryInv, PlaceInv, AtC, InTrap, KernelContext, OnKernelStack
<1>2. PICK f : f = [cpu |-> cpu, sym |-> sym, event |-> e]
  OBVIOUS
<1>3. f \in FrameType /\ f.cpu = cpu /\ f.sym = sym
  BY <1>2 DEF EntryInv, TrapTypeOK, FrameType
<1>4. PICK L \in Nat : L = Len(frames) /\ L >= 1
  BY <1>1, FrameTypes
<1>5. PICK g : g = Append(frames, f)
  OBVIOUS
<1>6. /\ g \in Seq(FrameType) /\ Len(g) = L + 1 /\ g # <<>> /\ g[L + 1] = f
      /\ \A i \in 1 .. L : g[i] = frames[i]
  <2>1. L = Len(frames)
    BY <1>4
  <2>2. GrownBy(g, f, L)
    BY <1>1, <1>3, <1>5, <2>1, Grown, Zenon
  <2> QED BY <2>2, Zenon DEF GrownBy
<1>7. frames' = g
  BY <1>2, <1>5 DEF Interrupted
<1>8. Was = frames[L].cpu /\ Of = frames[L].event /\ Level = L - 1
  BY <1>4 DEF Was, Of, Level
<1>9. PICK B \in Nat : B = cpu.rsp.at
  BY CpuParts DEF EntryInv, TrapTypeOK
<1>10. Was.rsp.at \in Nat /\ (Was.rsp.stack = cpu.rsp.stack => Was.rsp.at <= B)
  <2>1. Was \in CpuType /\ Was.rsp.at \in Nat
    BY <1>1, WasTypes, CpuParts
  <2>2. CASE Was.rsp.stack = cpu.rsp.stack
    <3>1. Was.cpl # 3
      <4>1. ASSUME Was.cpl = 3 PROVE FALSE
        <5>1. UserContext(Was)
          BY <1>1, <4>1, WasUser
        <5> QED BY <1>1, <2>2, <5>1 DEF UserContext, UserRsp, OnKernelStack
      <4> QED BY <4>1
    <3>2. sym # "do_syscall_64"
      BY <1>1, <3>1 DEF Entered
    <3>3. PICK F \in Int : F = B - 8
      OBVIOUS
    <3>4. HardwareFrame(stacks[cpu.rsp.stack], F - 16, cpu.rsp.stack, Was, Level)
      BY <1>1, <1>9, <3>2, <3>3 DEF Handles, Frame, RIP
    <3>5. Was.rsp.at + 5 <= F - 16
      BY <2>2, <3>4, Zenon DEF HardwareFrame
    <3> QED BY <2>1, <3>3, <3>5
  <2> QED BY <2>1, <2>2
<1>11. ASSUME NEW n \in 1 .. L, frames[n].cpu.rsp.stack = cpu.rsp.stack
       PROVE  frames[n].cpu.rsp.at <= B /\ frames[n].cpu.rsp.at \in Nat
  BY <1>4, <1>1, <1>11, ChainBelow, FrameTypes, <1>10
<1>12. ASSUME NEW n \in 1 .. L, frames[n].cpu.rsp.stack = "ist" PROVE cpu.rsp.stack = "ist"
  <2>1. \A m \in 1 .. Len(frames) : \A k \in 1 .. m :
          frames[k].cpu.rsp.stack = "ist" => frames[m].cpu.rsp.stack = "ist"
    BY <1>1, Zenon DEF ChainInv
  <2>2. L \in 1 .. Len(frames) /\ n \in 1 .. L
    BY <1>4
  <2>3. frames[L].cpu.rsp.stack = "ist"
    BY <1>12, <2>1, <2>2, Zenon
  <2> QED BY <1>1, <1>8, <2>3, Zenon DEF Entered
<1>13. stack = cpu.rsp.stack => Agree(stacks[stack], T, B)
  BY <1>9
<1>14. ASSUME NEW n \in 2 .. L
       PROVE  /\ KernelContext(g[n].cpu, boot)
              /\ Entered(g[n].sym, g[n - 1].cpu, g[n].cpu.rsp.stack, boot)
              /\ g[n].cpu.rsp.stack = stack =>
                   Handles(T, g[n].cpu, g[n].sym, g[n - 1].cpu, g[n - 1].event, n - 2)
  <2>1. n \in 2 .. Len(frames) /\ n \in 1 .. L /\ n - 1 \in 1 .. L
    BY <1>4
  <2>2. g[n] = frames[n] /\ g[n - 1] = frames[n - 1]
    BY <1>6, <2>1, Zenon
  <2>3. /\ KernelContext(frames[n].cpu, boot)
        /\ Entered(frames[n].sym, frames[n - 1].cpu, frames[n].cpu.rsp.stack, boot)
        /\ frames[n].cpu.rsp.stack = cpu.rsp.stack =>
             Handles(stacks[cpu.rsp.stack], frames[n].cpu, frames[n].sym, frames[n - 1].cpu,
                     frames[n - 1].event, n - 2)
    BY <1>1, <2>1, Zenon DEF ChainInv
  <2>4. ASSUME frames[n].cpu.rsp.stack = stack
        PROVE  Handles(T, frames[n].cpu, frames[n].sym, frames[n - 1].cpu, frames[n - 1].event, n - 2)
    <3>1. stack = cpu.rsp.stack
      <4>1. CASE stack = "ist"
        BY <1>12, <2>1, <2>4, <4>1
      <4>2. CASE stack = "cpu"
        BY <1>1, <4>2 DEF OnKernelStack
      <4> QED BY <4>1, <4>2
    <3>2. PICK c : c = frames[n].cpu
      OBVIOUS
    <3>3. c.rsp.at \in Nat /\ c.rsp.at <= B
      BY <1>11, <2>1, <2>4, <3>1, <3>2
    <3>4. Handles(stacks[stack], c, frames[n].sym, frames[n - 1].cpu, frames[n - 1].event, n - 2)
      BY <2>3, <2>4, <3>1, <3>2, Zenon
    <3>5. Agree(stacks[stack], T, B)
      BY <1>13, <3>1
    <3>6. Handles(T, c, frames[n].sym, frames[n - 1].cpu, frames[n - 1].event, n - 2)
      BY <3>3, <3>4, <3>5, HandlesKept
    <3> QED BY <3>2, <3>6
  <2> QED BY <2>2, <2>3, <2>4, Zenon
<1>15. /\ KernelContext(f.cpu, boot)
       /\ Entered(f.sym, frames[L].cpu, f.cpu.rsp.stack, boot)
       /\ f.cpu.rsp.stack = stack =>
            Handles(T, f.cpu, f.sym, frames[L].cpu, frames[L].event, L - 1)
  <2>1. KernelContext(f.cpu, boot) /\ Entered(f.sym, frames[L].cpu, f.cpu.rsp.stack, boot)
    BY <1>1, <1>3, <1>8, Zenon
  <2>2. ASSUME cpu.rsp.stack = stack PROVE Handles(T, cpu, sym, Was, Of, Level)
    BY <1>13, <2>2, <1>9, <1>1, HandlesKept
  <2> QED BY <1>3, <1>8, <2>1, <2>2, Zenon
<1>16. ASSUME NEW n \in 2 .. Len(g)
       PROVE  /\ KernelContext(g[n].cpu, boot)
              /\ Entered(g[n].sym, g[n - 1].cpu, g[n].cpu.rsp.stack, boot)
              /\ g[n].cpu.rsp.stack = stack =>
                   Handles(T, g[n].cpu, g[n].sym, g[n - 1].cpu, g[n - 1].event, n - 2)
  <2>1. n \in 2 .. L \/ n = L + 1
    <3>1. Len(g) = L + 1
      BY <1>6
    <3> QED BY <3>1
  <2>2. CASE n = L + 1
    BY <1>4, <2>2, <1>6, <1>15
  <2> QED BY <1>14, <2>1, <2>2, Zenon
<1>17. ASSUME NEW m \in 1 .. Len(g), NEW n \in 1 .. m
       PROVE  /\ g[n].cpu.rsp.stack = g[m].cpu.rsp.stack => g[n].cpu.rsp.at <= g[m].cpu.rsp.at
              /\ g[n].cpu.rsp.stack = "ist" => g[m].cpu.rsp.stack = "ist"
  <2>1. \/ m \in 1 .. L /\ n \in 1 .. L
        \/ m = L + 1 /\ n \in 1 .. L
        \/ m = L + 1 /\ n = L + 1
    <3>1. Len(g) = L + 1
      BY <1>6
    <3> QED BY <3>1
  <2>2. CASE m \in 1 .. L /\ n \in 1 .. L
    BY <1>6, <2>2, <1>4, <1>1, Zenon DEF ChainInv
  <2>3. CASE m = L + 1 /\ n \in 1 .. L
    <3>1. g[n] = frames[n] /\ g[m].cpu = cpu
      BY <1>3, <1>6, <2>3, Zenon
    <3> QED BY <1>9, <1>11, <1>12, <2>3, <3>1, Zenon
  <2>4. CASE m = L + 1 /\ n = L + 1
    <3>1. g[n].cpu = cpu /\ g[m].cpu = cpu
      BY <1>3, <1>6, <2>4, Zenon
    <3>2. B <= B
      OBVIOUS
    <3> QED BY <1>9, <3>1, <3>2, Zenon
  <2> QED BY <2>1, <2>2, <2>3, <2>4
<1>18. /\ g[1].sym = ""
       /\ IF boot = "done" THEN UserContext(g[1].cpu) ELSE BootContext(g[1].cpu, boot)
  <2>1. 1 \in 1 .. L
    BY <1>4
  <2>2. g[1] = frames[1]
    BY <1>6, <2>1, Zenon
  <2>3. /\ frames[1].sym = ""
        /\ IF boot = "done" THEN UserContext(frames[1].cpu) ELSE BootContext(frames[1].cpu, boot)
    BY <1>1, Zenon DEF ChainInv
  <2> QED BY <2>2, <2>3, Zenon
<1> QED BY <1>7, <1>16, <1>17, <1>18, Zenon DEF ChainInv

-----------------------------------------------------------------------------
(***************************************************************************)
(* The processor delivers an event.                                        *)
(***************************************************************************)
\* The gate an event goes through once load_idt is done.
LEMMA GateTaken ==
  ASSUME GateInv, boot # "traps", NEW v \in AllVectors, NEW vector,
         vector = IF idt_table[v].present THEN v ELSE X86_TRAP_NP, NEW gate, gate = idt_table[vector]
  PROVE  /\ vector \in AllVectors /\ gate.addr \in ExceptionSyms \cup ApicSyms
         /\ gate.addr \in ApicSyms => v >= FIRST_EXTERNAL_VECTOR
         /\ has_error_code(gate.addr) <=> vector \in PushesError
         /\ gate.ist # 0 => v = X86_TRAP_DF /\ gate.addr = "double_fault"
         /\ gate.addr = "double_fault" /\ boot # "ist" => gate.ist # 0
         /\ boot = "done" /\ v >= FIRST_EXTERNAL_VECTOR => gate.addr \in ApicSyms
<1>1. X86_TRAP_NP \in ExceptionVectors /\ X86_TRAP_NP \in AllVectors /\ X86_TRAP_NP < FIRST_EXTERNAL_VECTOR
  BY DefIdtsAre, ExceptionsAreLow DEF X86_TRAP_NP
<1>2. idt_table[X86_TRAP_NP].present
  BY <1>1 DEF GateInv
<1>3. vector \in AllVectors /\ gate.present
  BY <1>1, <1>2
<1>4. GateFits(vector, gate)
  BY <1>3 DEF GateInv
<1>5. FIRST_EXTERNAL_VECTOR \in Nat /\ FIRST_EXTERNAL_VECTOR >= 20 /\ vector \in Nat /\ v \in Nat
  BY <1>3, VectorFacts DEF AllVectors
<1>6. CASE vector < FIRST_EXTERNAL_VECTOR
  <2>1. /\ gate.addr \in ExceptionSyms /\ (has_error_code(gate.addr) <=> vector \in PushesError)
        /\ gate.addr = "double_fault" => vector = X86_TRAP_DF
        /\ gate.ist # 0 => vector = X86_TRAP_DF /\ gate.addr = "double_fault"
    BY <1>4, <1>6 DEF GateFits
  <2>2. gate.addr \notin ApicSyms
    BY <2>1, SymFacts
  <2>3. vector = X86_TRAP_DF => v = X86_TRAP_DF
    BY DEF X86_TRAP_DF, X86_TRAP_NP
  <2>4. ASSUME gate.addr = "double_fault", boot # "ist" PROVE gate.ist # 0
    <3>1. idt_table[X86_TRAP_DF].ist = 1
      BY <2>4 DEF GateInv
    <3> QED BY <2>1, <2>4, <3>1
  <2>5. ~(boot = "done" /\ v >= FIRST_EXTERNAL_VECTOR)
    <3>1. SUFFICES ASSUME boot = "done", v >= FIRST_EXTERNAL_VECTOR PROVE FALSE
      OBVIOUS
    <3>2. v \in FIRST_EXTERNAL_VECTOR .. (NR_VECTORS - 1)
      BY <3>1, VectorFacts DEF AllVectors
    <3>3. idt_table[v].present
      BY <3>1, <3>2 DEF GateInv
    <3>4. vector = v
      BY <3>3
    <3> QED BY <1>5, <1>6, <3>1, <3>4
  <2> QED BY <1>3, <2>1, <2>2, <2>3, <2>4, <2>5
<1>7. CASE ~(vector < FIRST_EXTERNAL_VECTOR)
  <2>1. vector = v
    BY <1>1, <1>7
  <2>2. gate.addr \in ApicSyms /\ gate.ist = 0
    BY <1>4, <1>7 DEF GateFits
  <2>3. ~has_error_code(gate.addr) /\ gate.addr # "double_fault"
    BY <2>2, SymFacts
  <2>4. vector \notin PushesError /\ v >= FIRST_EXTERNAL_VECTOR
    BY <1>5, <1>7, <2>1 DEF PushesError
  <2> QED BY <1>3, <2>2, <2>3, <2>4
<1> QED BY <1>6, <1>7

\* The words of a delivery on a stack: a pad, the five words, the error code.
Delivered(S, T, at, p, k, q, h, z, e) ==
  /\ T \in Seq(Words) /\ Len(T) = at + k + h + e /\ Agree(S, T, at)
  /\ \A i \in 1 .. h : T[at + k + i] = q[i]
  /\ \A i \in 1 .. e : T[at + k + h + i] = z[i]

ThreeParts(p, q, z) == p \o (q \o z)

LEMMA DeliveredWords ==
  ASSUME NEW S \in Seq(Words), NEW at \in Nat, at <= Len(S), NEW p \in Seq(Words), NEW k \in Nat, k = Len(p),
         NEW q \in Seq(Words), NEW h \in Nat, h = Len(q), NEW z \in Seq(Words), NEW e \in Nat, e = Len(z),
         NEW w, w = ThreeParts(p, q, z)
  PROVE  w \in Seq(Words) /\ Len(w) = k + h + e /\ Delivered(S, OnTop(S, at, w), at, p, k, q, h, z, e)
<1>1. PICK x : x = q \o z
  OBVIOUS
<1>2. /\ x \in Seq(Words) /\ Len(x) = h + e
      /\ (\A i \in 1 .. h : x[i] = q[i]) /\ \A i \in 1 .. e : x[h + i] = z[i]
  BY <1>1, Joined
<1>3. PICK l \in Nat : l = h + e
  OBVIOUS
<1>4. w = p \o x
  BY <1>1 DEF ThreeParts
<1>5. /\ w \in Seq(Words) /\ Len(w) = k + l
      /\ \A i \in 1 .. l : w[k + i] = x[i]
  <2>1. l = Len(x) /\ x \in Seq(Words)
    BY <1>2, <1>3
  <2> QED BY <1>4, <2>1, Joined
<1>6. PICK m \in Nat : m = k + l
  OBVIOUS
<1>7. PICK T : T = OnTop(S, at, w)
  OBVIOUS
<1>8. T \in Seq(Words) /\ Len(T) = at + m /\ Agree(S, T, at) /\ \A y \in 1 .. m : T[at + y] = w[y]
  <2>1. m = Len(w) /\ w \in Seq(Words)
    BY <1>5, <1>6
  <2> QED BY <1>7, <2>1, Pushed
<1>9. Len(T) = at + k + h + e /\ Len(w) = k + h + e
  BY <1>3, <1>5, <1>6, <1>8
<1>10. ASSUME NEW i \in 1 .. h PROVE T[at + k + i] = q[i]
  <2>1. k + i \in 1 .. m /\ i \in 1 .. l /\ at + (k + i) = at + k + i
    BY <1>3, <1>6
  <2>2. T[at + (k + i)] = w[k + i] /\ w[k + i] = x[i] /\ x[i] = q[i]
    BY <1>2, <1>5, <1>8, <2>1, Zenon
  <2> QED BY <2>1, <2>2, Zenon
<1>11. ASSUME NEW i \in 1 .. e PROVE T[at + k + h + i] = z[i]
  <2>1. k + (h + i) \in 1 .. m /\ h + i \in 1 .. l /\ at + (k + (h + i)) = at + k + h + i
    BY <1>3, <1>6
  <2>2. T[at + (k + (h + i))] = w[k + (h + i)] /\ w[k + (h + i)] = x[h + i] /\ x[h + i] = z[i]
    BY <1>2, <1>5, <1>8, <2>1, Zenon
  <2> QED BY <2>1, <2>2, Zenon
<1> QED BY <1>5, <1>7, <1>8, <1>9, <1>10, <1>11, Zenon DEF Delivered

\* RSP is aligned downwards before the words are pushed.
LEMMA EvenUp ==
  ASSUME NEW at \in Nat
  PROVE  2 * ((at + 1) \div 2) = at \/ 2 * ((at + 1) \div 2) = at + 1
OBVIOUS

\* Code that can be interrupted.
LEMMA InterruptedIs ==
  ASSUME EntryInv, pc \in {"user", "c"}
  PROVE  /\ cpu \in CpuType /\ cpu.rsp \in RspType /\ cpu.rsp.at \in Nat /\ TrapTypeOK
         /\ \/ /\ pc = "user" /\ frames = <<>> /\ sym = "" /\ boot = "done" /\ UserContext(cpu) /\ cpu.cpl = 3
               /\ cpu.rsp.stack = "user" /\ cpu.rsp.at = 0
            \/ /\ pc = "c" /\ KernelContext(cpu, boot) /\ cpu.cpl # 3 /\ OnKernelStack /\ cpu.if = FALSE
               /\ cpu.rsp.at <= Len(stacks[cpu.rsp.stack])
               /\ IF frames = <<>> THEN sym = "" /\ BootContext(cpu, boot) ELSE InTrap
<1>1. cpu \in CpuType /\ cpu.rsp \in RspType /\ cpu.rsp.at \in Nat /\ TrapTypeOK
  BY CpuParts DEF EntryInv, TrapTypeOK
<1>2. CASE pc = "user"
  <2>1. AtUser
    BY <1>2 DEF EntryInv, PlaceInv
  <2>2. frames = <<>> /\ sym = "" /\ boot = "done" /\ UserContext(cpu)
    BY <2>1, Zenon DEF AtUser
  <2>3. cpu.cpl = 3 /\ cpu.rsp = UserRsp
    BY <2>2, Zenon DEF UserContext
  <2>4. cpu.rsp.stack = "user" /\ cpu.rsp.at = 0
    BY <2>3 DEF UserRsp
  <2> QED BY <1>1, <1>2, <2>2, <2>3, <2>4, Zenon
<1>3. CASE pc = "c"
  <2>1. AtC
    BY <1>3 DEF EntryInv, PlaceInv
  <2>2. KernelContext(cpu, boot) /\ cpu.cpl # 3 /\ OnKernelStack /\ cpu.if = FALSE
    <3>1. KernelContext(cpu, boot)
      BY <2>1, Zenon DEF AtC
    <3>2. cpu.cpl = 0 /\ cpu.if = FALSE /\ cpu.rsp.stack \in {"cpu", "ist"}
      BY <3>1, Zenon DEF KernelContext
    <3>3. 0 # 3
      OBVIOUS
    <3> QED BY <3>1, <3>2, <3>3, Zenon DEF OnKernelStack
  <2>3. CASE frames = <<>>
    <3>1. sym = "" /\ BootContext(cpu, boot) /\ cpu.rsp.at = 0
      <4>1. sym = "" /\ BootContext(cpu, boot)
        BY <2>1, <2>3, Zenon DEF AtC
      <4>2. cpu.rsp = [stack |-> "cpu", at |-> 0, map |-> "identity"]
        BY <4>1, Zenon DEF BootContext
      <4>3. cpu.rsp.at = 0
        BY <4>2
      <4> QED BY <4>1, <4>3, Zenon
    <3>2. Len(stacks[cpu.rsp.stack]) \in Nat
      BY <2>2, StackIs
    <3>3. cpu.rsp.at <= Len(stacks[cpu.rsp.stack])
      <4>1. \A l \in Nat : 0 <= l
        OBVIOUS
      <4> QED BY <3>1, <3>2, <4>1, Zenon
    <3> QED BY <1>1, <1>3, <2>2, <2>3, <3>1, <3>3, Zenon
  <2>4. CASE frames # <<>>
    <3>1. InTrap /\ cpu.rsp.at <= Len(stacks[cpu.rsp.stack])
      BY <2>1, <2>4 DEF AtC, Handles
    <3> QED BY <1>1, <1>3, <2>2, <2>4, <3>1
  <2> QED BY <2>3, <2>4
<1> QED BY <1>2, <1>3

\* The stack, and the place on it, where the words of a delivery go.
BaseFits(base, ist) ==
  /\ base \in RspType /\ base.stack \in {"cpu", "ist"} /\ base.at \in Nat /\ base.at <= Len(stacks[base.stack])
  /\ base.stack = cpu.rsp.stack => base.at = cpu.rsp.at
  /\ base.stack # cpu.rsp.stack => cpu.cpl = 3 \/ ist # 0
  /\ cpu.rsp.stack = "ist" => base.stack = "ist"
  /\ cpu.cpl = 3 => base.map = "shared"
  /\ ist # 0 => base.stack = "ist"

LEMMA DeliveryBase ==
  ASSUME EntryInv, pc \in {"user", "c"}, NEW ist, ist # 0 => cpu.rsp.stack # "ist",
         NEW rsp, rsp = IF ist # 0 THEN [stack |-> "ist", at |-> 0, map |-> "shared"]
                        ELSE IF cpu.cpl = 3 THEN [stack |-> "cpu", at |-> 0, map |-> "shared"]
                        ELSE [cpu.rsp EXCEPT !.at = 2 * ((@ + 1) \div 2)],
         NEW pad, pad = IF rsp.at = cpu.rsp.at + 1 THEN <<Junk>> ELSE <<>>
  PROVE  BaseFits([rsp EXCEPT !.at = IF pad = <<>> THEN @ ELSE @ - 1], ist)
<1>1. PICK at \in Nat : at = cpu.rsp.at
  BY InterruptedIs
<1>2. pad = <<>> <=> rsp.at # at + 1
  BY <1>1
<1>3. stacks \in [{"cpu", "ist"} -> Seq(Words)]
  BY DEF EntryInv, TrapTypeOK
<1>4. 0 \in Nat /\ 0 <= Len(stacks["cpu"]) /\ 0 <= Len(stacks["ist"])
  BY <1>3
<1>5. PICK base : base = [rsp EXCEPT !.at = IF pad = <<>> THEN @ ELSE @ - 1]
  OBVIOUS
<1>6. CASE ist # 0
  <2>1. rsp = [stack |-> "ist", at |-> 0, map |-> "shared"]
    BY <1>6
  <2>2. pad = <<>>
    BY <1>2, <2>1
  <2>3. base = [stack |-> "ist", at |-> 0, map |-> "shared"]
    BY <1>5, <2>1, <2>2
  <2>4. base \in RspType /\ base.stack = "ist" /\ base.at = 0 /\ base.map = "shared"
    BY <2>3 DEF RspType, StackNames, Maps
  <2>5. BaseFits(base, ist)
    BY <1>4, <1>6, <2>4 DEF BaseFits
  <2> QED BY <1>5, <2>5
<1>7. CASE ist = 0 /\ cpu.cpl = 3
  <2>1. rsp = [stack |-> "cpu", at |-> 0, map |-> "shared"]
    BY <1>7
  <2>2. pad = <<>>
    BY <1>2, <2>1
  <2>3. base = [stack |-> "cpu", at |-> 0, map |-> "shared"]
    BY <1>5, <2>1, <2>2
  <2>4. base \in RspType /\ base.stack = "cpu" /\ base.at = 0 /\ base.map = "shared"
    BY <2>3 DEF RspType, StackNames, Maps
  <2>5. cpu.rsp.stack = "user"
    BY <1>7, InterruptedIs
  <2>6. BaseFits(base, ist)
    BY <1>4, <1>7, <2>4, <2>5 DEF BaseFits
  <2> QED BY <1>5, <2>6
<1>8. CASE ist = 0 /\ cpu.cpl # 3
  <2>1. rsp = [cpu.rsp EXCEPT !.at = 2 * ((at + 1) \div 2)] /\ cpu.rsp \in RspType
    BY <1>1, <1>8, InterruptedIs
  <2>2. PICK x \in Nat : x = 2 * ((at + 1) \div 2) /\ (x = at \/ x = at + 1)
    BY EvenUp
  <2>3. rsp = [cpu.rsp EXCEPT !.at = x] /\ rsp.at = x
    BY <2>1, <2>2 DEF RspType
  <2>4. (IF pad = <<>> THEN x ELSE x - 1) = at
    BY <1>2, <2>2, <2>3
  <2>5. base = [cpu.rsp EXCEPT !.at = at]
    BY <1>5, <2>1, <2>3, <2>4 DEF RspType
  <2>6. base = cpu.rsp
    BY <1>1, <2>1, <2>5 DEF RspType
  <2>7. OnKernelStack /\ cpu.rsp.at <= Len(stacks[cpu.rsp.stack])
    BY <1>8, InterruptedIs
  <2>8. BaseFits(base, ist)
    BY <1>1, <1>8, <2>1, <2>6, <2>7 DEF BaseFits, OnKernelStack
  <2> QED BY <1>5, <2>8
<1> QED BY <1>6, <1>7, <1>8

\* No word, or one.
LEMMA OptionalWord ==
  ASSUME NEW x \in Words, NEW b, NEW z, z = IF b THEN <<x>> ELSE <<>>
  PROVE  \E y \in Seq(Words), e \in Nat : /\ y = z /\ e = Len(y) /\ e = (IF b THEN 1 ELSE 0)
                                          /\ b => y[1] = x
<1>1. CASE b
  <2>1. <<x>> \in Seq(Words) /\ Len(<<x>>) = 1 /\ <<x>>[1] = x /\ 1 \in Nat
    OBVIOUS
  <2>2. z = <<x>> /\ (IF b THEN 1 ELSE 0) = 1
    BY <1>1
  <2> QED BY <2>1, <2>2, Zenon
<1>2. CASE ~b
  <2>1. <<>> \in Seq(Words) /\ Len(<<>>) = 0 /\ 0 \in Nat
    OBVIOUS
  <2>2. z = <<>> /\ (IF b THEN 1 ELSE 0) = 0
    BY <1>2
  <2> QED BY <1>2, <2>1, <2>2, Zenon
<1> QED BY <1>1, <1>2

ContextWords(q, was, n) ==
  /\ q[5] = <<n, "rip", was.rip>> /\ q[4] = <<was.cpl, "cs", "">> /\ q[3] = FlagsOf(n, was.if)
  /\ q[2] = RspWord(was.rsp)

\* The stack of a delivery holds the context.
LEMMA DeliveredFrame ==
  ASSUME NEW S, NEW T, NEW at \in Nat, NEW p, NEW k \in Nat, NEW q, NEW h \in Nat, h = 5, NEW z, NEW e \in Nat,
         Delivered(S, T, at, p, k, q, h, z, e), NEW stack, NEW was, NEW n,
         was.rsp.stack = stack => was.rsp.at = at,
         ContextWords(q, was, n)
  PROVE  HardwareFrame(T, at + k + h, stack, was, n)
<1>1. PICK t \in Nat : t = at + k + h
  OBVIOUS
<1>2. t >= 5 /\ at + 5 <= t
  BY <1>1
<1>3. \A i \in 1 .. h : T[at + k + i] = q[i]
  BY DEF Delivered
<1>4. /\ 5 \in 1 .. h /\ 4 \in 1 .. h /\ 3 \in 1 .. h /\ 2 \in 1 .. h /\ t = at + k + 5 /\ t - 1 = at + k + 4
      /\ t - 2 = at + k + 3 /\ t - 3 = at + k + 2
  BY <1>1
<1>5. T[t] = q[5] /\ T[t - 1] = q[4] /\ T[t - 2] = q[3] /\ T[t - 3] = q[2]
  BY <1>3, <1>4, Zenon
<1>6. t <= Len(T)
  <2>1. Len(T) = at + k + h + e
    BY DEF Delivered
  <2> QED BY <1>1, <2>1
<1>7. HardwareFrame(T, t, stack, was, n)
  BY <1>2, <1>5, <1>6, Zenon DEF HardwareFrame, ContextWords
<1> QED BY <1>1, <1>7, Zenon

LEMMA NoFrames == \A f : f = <<>> => Len(f) = 0
OBVIOUS

LEMMA DeliverStep ==
  ASSUME GateInv, EntryInv, pc \in {"user", "c"}, boot # "traps", NEW v \in AllVectors, NEW error \in Words,
         Deliver(v, error), v >= FIRST_EXTERNAL_VECTOR => pc = "user",
         v = X86_TRAP_DF => cpu.rsp.stack # "ist", inService' \in BOOLEAN,
         inService' => inService \/ (pc = "user" /\ v >= FIRST_EXTERNAL_VECTOR)
  PROVE  EntryInv'
<1> DEFINE vector == IF idt_table[v].present THEN v ELSE X86_TRAP_NP
           gate == idt_table[vector]
           code == IF vector # v THEN <<v, "gate", "">> ELSE error
           last == IF vector \in PushesError THEN <<code>> ELSE <<>>
           five == <<<<cpu.cpl, "ss", "">>, RspWord(cpu.rsp), FlagsOf(Len(frames), cpu.if),
                     <<cpu.cpl, "cs", "">>, <<Len(frames), "rip", cpu.rip>>>>
           rsp == IF gate.ist # 0 THEN [stack |-> "ist", at |-> 0, map |-> "shared"]
                  ELSE IF cpu.cpl = 3 THEN [stack |-> "cpu", at |-> 0, map |-> "shared"]
                  ELSE [cpu.rsp EXCEPT !.at = 2 * ((@ + 1) \div 2)]
           pad == IF rsp.at = cpu.rsp.at + 1 THEN <<Junk>> ELSE <<>>
           base == [rsp EXCEPT !.at = IF pad = <<>> THEN @ ELSE @ - 1]
           event == [vector |-> vector, error |-> code]
<1>1. /\ stacks' = [stacks EXCEPT ![base.stack] = SubSeq(@, 1, base.at) \o (pad \o (five \o last))]
      /\ cpu' = [[cpu EXCEPT !.cpl = 0, !.if = FALSE, !.rip = "shared", !.rsp = base]
                   EXCEPT !.rsp.at = @ + Len(pad \o (five \o last))]
      /\ frames' = Interrupted(event) /\ sym' = gate.addr /\ pc' = "entry"
      /\ UNCHANGED <<bootVars, scratch>>
  <2>1. [cpu EXCEPT !.cpl = 0, !.if = FALSE, !.rip = "shared", !.rsp = base].rsp = base
    <3>1. cpu \in CpuType
      BY DEF EntryInv, TrapTypeOK
    <3> HIDE DEF base
    <3> QED BY <3>1, CpuParts
  <2> QED BY <2>1, Zenon DEF Deliver, Push
<1>2. /\ vector \in AllVectors /\ gate.addr \in ExceptionSyms \cup ApicSyms
      /\ gate.addr \in ApicSyms => v >= FIRST_EXTERNAL_VECTOR
      /\ has_error_code(gate.addr) <=> vector \in PushesError
      /\ gate.ist # 0 => v = X86_TRAP_DF /\ gate.addr = "double_fault"
      /\ gate.addr = "double_fault" /\ boot # "ist" => gate.ist # 0
      /\ boot = "done" /\ v >= FIRST_EXTERNAL_VECTOR => gate.addr \in ApicSyms
  BY GateTaken, Zenon
<1> HIDE DEF vector, gate
<1>3. BaseFits(base, gate.ist)
  <2>1. gate.ist # 0 => cpu.rsp.stack # "ist"
    BY <1>2
  <2> QED BY <2>1, DeliveryBase, Zenon
<1>4. /\ v \in Int /\ vector \in Int /\ Len(frames) \in Nat /\ Len(frames) \in Int /\ cpu \in CpuType
      /\ cpu.cpl \in Int /\ cpu.rip \in Maps /\ cpu.rsp \in RspType /\ cpu.if \in BOOLEAN
      /\ cpu.regs \in [Regs -> Words] /\ TrapTypeOK
  <2>1. TrapTypeOK /\ cpu \in CpuType
    BY DEF EntryInv, TrapTypeOK
  <2>2. Len(frames) \in Nat /\ Len(frames) \in Int
    BY <2>1, FrameTypes
  <2>3. v \in Int /\ vector \in Int
    BY <1>2 DEF AllVectors
  <2>4. cpu.cpl \in Int
    <3>1. cpu.cpl \in {0, 3}
      BY <2>1, CpuParts, Zenon
    <3>2. 0 \in Int /\ 3 \in Int
      OBVIOUS
    <3> QED BY <3>1, <3>2, Zenon
  <2> QED BY <2>1, <2>2, <2>3, <2>4, CpuParts
<1>5. code \in Words /\ Junk \in Words
  <2>1. <<v, "gate", "">> \in Words /\ Junk \in Words
    BY <1>4, WordTypes, Zenon
  <2> QED BY <2>1
<1>6. PICK z \in Seq(Words), e \in Nat : /\ z = last /\ e = Len(z) /\ e = (IF vector \in PushesError THEN 1 ELSE 0)
                                         /\ vector \in PushesError => z[1] = code
  <2> HIDE DEF code
  <2> QED BY <1>5, OptionalWord, ZenonT(60)
<1>7. PICK p \in Seq(Words), k \in Nat : /\ p = pad /\ k = Len(p) 
  <2> HIDE DEF rsp
  <2>1. <<Junk>> \in Seq(Words) /\ <<>> \in Seq(Words)
    <3>1. PICK j \in Words : j = Junk
      BY <1>5
    <3>2. <<j>> \in Seq(Words)
      OBVIOUS
    <3>3. <<>> \in Seq(Words)
      BY EmptySeq, Zenon
    <3> QED BY <3>1, <3>2, <3>3, Zenon
  <2>2. pad \in Seq(Words)
    <3>1. CASE rsp.at = cpu.rsp.at + 1
      BY <2>1, <3>1, Zenon
    <3>2. CASE rsp.at # cpu.rsp.at + 1
      BY <2>1, <3>2, Zenon
    <3> QED BY <3>1, <3>2, Zenon
  <2> HIDE DEF pad
  <2>3. PICK p \in Seq(Words) : p = pad
    BY <2>2, Zenon
  <2>4. Len(p) \in Nat
    OBVIOUS
  <2> QED BY <2>3, <2>4, Zenon
<1>8. PICK q \in Seq(Words), h \in Nat : q = five /\ h = Len(q) /\ h = 5 /\ ContextWords(q, cpu, Len(frames))
  <2>1. /\ <<cpu.cpl, "ss", "">> \in Words /\ RspWord(cpu.rsp) \in Words /\ FlagsOf(Len(frames), cpu.if) \in Words
        /\ <<cpu.cpl, "cs", "">> \in Words /\ <<Len(frames), "rip", cpu.rip>> \in Words
    BY <1>4, WordTypes, Zenon
  <2>2. PICK q \in Seq(Words), h \in Nat :
           /\ q = five /\ h = Len(q) /\ h = 5
           /\ q[2] = RspWord(cpu.rsp) /\ q[3] = FlagsOf(Len(frames), cpu.if) /\ q[4] = <<cpu.cpl, "cs", "">>
           /\ q[5] = <<Len(frames), "rip", cpu.rip>>
    <3>1. PICK x1 \in Words, x2 \in Words, x3 \in Words, x4 \in Words, x5 \in Words :
            /\ x1 = <<cpu.cpl, "ss", "">> /\ x2 = RspWord(cpu.rsp) /\ x3 = FlagsOf(Len(frames), cpu.if)
            /\ x4 = <<cpu.cpl, "cs", "">> /\ x5 = <<Len(frames), "rip", cpu.rip>>
      BY <2>1, Zenon
    <3>2. PICK q : q = <<x1, x2, x3, x4, x5>>
      OBVIOUS
    <3>3. q \in Seq(Words) /\ Len(q) = 5 /\ q[2] = x2 /\ q[3] = x3 /\ q[4] = x4 /\ q[5] = x5
      BY <3>2
    <3>4. 5 \in Nat
      OBVIOUS
    <3> QED BY <3>1, <3>2, <3>3, <3>4, Zenon
  <2> QED BY <2>2, Zenon DEF ContextWords
<1> HIDE DEF five, last, pad, base, rsp, code
<1>9. /\ base \in RspType /\ base.stack \in {"cpu", "ist"} /\ base.at \in Nat
      /\ base.at <= Len(stacks[base.stack])
      /\ base.stack = cpu.rsp.stack => base.at = cpu.rsp.at
      /\ base.stack # cpu.rsp.stack => cpu.cpl = 3 \/ gate.ist # 0
      /\ cpu.rsp.stack = "ist" => base.stack = "ist"
      /\ cpu.cpl = 3 => base.map = "shared"
      /\ gate.ist # 0 => base.stack = "ist"
  BY <1>3, Zenon DEF BaseFits
<1>10. PICK stack \in {"cpu", "ist"}, at \in Nat : stack = base.stack /\ at = base.at
  BY <1>9, Zenon
<1>11. stacks \in [{"cpu", "ist"} -> Seq(Words)]
  BY DEF EntryInv, TrapTypeOK
<1>12. PICK S \in Seq(Words) : S = stacks[stack] /\ at <= Len(S)
  BY <1>9, <1>10, <1>11
<1>13. PICK w : w = ThreeParts(p, q, z)
  OBVIOUS
<1>14. w \in Seq(Words) /\ Len(w) = k + h + e /\ Delivered(S, OnTop(S, at, w), at, p, k, q, h, z, e)
  <2>1. k = Len(p) /\ h = Len(q) /\ e = Len(z) /\ at <= Len(S)
    BY <1>6, <1>7, <1>8, <1>12, Zenon
  <2> QED BY <1>13, <2>1, DeliveredWords
<1>15. PICK T : T = OnTop(S, at, w)
  OBVIOUS
<1>16. w = pad \o (five \o last)
  BY <1>6, <1>7, <1>8, <1>13, Zenon DEF ThreeParts
<1>17. stacks' = [stacks EXCEPT ![stack] = T]
  <2>1. stacks' = [stacks EXCEPT ![stack] = SubSeq(@, 1, at) \o w]
    BY <1>1, <1>10, <1>16, Zenon
  <2>2. T = SubSeq(stacks[stack], 1, at) \o w
    BY <1>12, <1>15, Zenon DEF OnTop
  <2> HIDE DEF OnTop
  <2> QED BY <2>1, <2>2
<1>18. /\ T \in Seq(Words) /\ Len(T) = at + k + h + e /\ Agree(S, T, at)
       /\ \A i \in 1 .. e : T[at + k + h + i] = z[i]
  BY <1>14, <1>15, Zenon DEF Delivered
<1>19. stacks' \in [{"cpu", "ist"} -> Seq(Words)] /\ stacks'[stack] = T
  BY <1>11, <1>17, <1>18
<1>20. PICK top \in Nat : top = at + k + h + e /\ top = at + Len(w)
  BY <1>14
<1>21. /\ cpu' \in CpuType /\ cpu'.cpl = 0 /\ cpu'.if = FALSE /\ cpu'.rip = "shared" /\ cpu'.cr3 = cpu.cr3
       /\ cpu'.gs = cpu.gs /\ cpu'.kgs = cpu.kgs /\ cpu'.regs = cpu.regs
       /\ cpu'.rsp.stack = stack /\ cpu'.rsp.at = top /\ cpu'.rsp.map = base.map
  <2>1. Len(pad \o (five \o last)) = Len(w)
    BY <1>16
  <2>2. PICK n : n = Len(w)
    OBVIOUS
  <2>3. cpu' = [[cpu EXCEPT !.cpl = 0, !.if = FALSE, !.rip = "shared", !.rsp = base] EXCEPT !.rsp.at = @ + n]
    BY <1>1, <2>1, <2>2, Zenon
  <2>4. top = at + n
    BY <1>20, <2>2
  <2>5. PICK b \in RspType : b = base /\ b.at = at /\ b.stack = stack /\ b.map = base.map
    BY <1>9, <1>10, Zenon
  <2>6. cpu' = [cpu EXCEPT !.cpl = 0, !.if = FALSE, !.rip = "shared", !.rsp = [b EXCEPT !.at = top]]
    BY <1>4, <2>3, <2>4, <2>5, CpuParts DEF CpuType
  <2>7. /\ [b EXCEPT !.at = top] \in RspType /\ [b EXCEPT !.at = top].at = top
        /\ [b EXCEPT !.at = top].stack = stack /\ [b EXCEPT !.at = top].map = base.map
    BY <2>5 DEF RspType
  <2> QED BY <1>4, <2>6, <2>7, CpuParts DEF CpuType, Maps
<1>22. boot' = boot /\ scratch' = scratch /\ sym' = gate.addr /\ pc' = "entry"
  BY <1>1 DEF bootVars
<1>23. event \in EventType /\ event.error = code
  <2>1. vector \in Int /\ code \in Words
    BY <1>4, <1>5
  <2> QED BY <2>1 DEF EventType
<1>24. /\ Was' = cpu /\ Of' = event /\ Level' = Len(frames) /\ frames' # <<>> /\ frames' \in Seq(FrameType)
       /\ Len(frames') = Len(frames) + 1
  BY <1>1, <1>4, <1>23, NewContext
<1> HIDE DEF event
<1>25. \/ /\ pc = "user" /\ frames = <<>> /\ sym = "" /\ boot = "done" /\ UserContext(cpu) /\ cpu.cpl = 3
          /\ cpu.rsp.stack = "user"
       \/ /\ pc = "c" /\ KernelContext(cpu, boot) /\ cpu.cpl # 3 /\ OnKernelStack
          /\ IF frames = <<>> THEN sym = "" /\ BootContext(cpu, boot) ELSE InTrap
  BY InterruptedIs, Zenon
<1>26. Syms = ExceptionSyms \cup ApicSyms \cup {"do_syscall_64", ""}
  BY Zenon DEF Syms
<1>27. TrapTypeOK'
  <2>1. /\ sym' \in Syms /\ pc' \in Pcs /\ inService' \in BOOLEAN
        /\ scratch' \in [cr3 : {"", "kpml4", "upml4"}, rsp : Words]
    BY <1>2, <1>4, <1>22, <1>26 DEF Pcs, TrapTypeOK
  <2> QED BY <1>19, <1>21, <1>24, <2>1, Zenon DEF TrapTypeOK
<1>28. ChainInv'
  <2>1. CASE frames = <<>>
    <3>1. sym = "" /\ IF boot = "done" THEN UserContext(cpu) ELSE BootContext(cpu, boot)
      BY <1>25, <2>1 DEF BootContext
    <3> QED BY <1>1, <1>4, <1>22, <1>23, <2>1, <3>1, ChainFirst
  <2>2. CASE frames # <<>>
    <3>1. pc = "c"
      BY <1>25, <2>2, Zenon
    <3>2. stack = cpu.rsp.stack => Agree(stacks[stack], T, cpu.rsp.at)
      BY <1>9, <1>10, <1>12, <1>18, Zenon
    <3>3. cpu.rsp.stack = "ist" => stack = "ist"
      BY <1>9, <1>10, Zenon
    <3>4. frames' = Interrupted(event) /\ cpu'.rsp.stack = stack /\ stacks'[stack] = T
      BY <1>1, <1>19, <1>21, Zenon
    <3> QED BY <1>22, <1>23, <2>2, <3>1, <3>2, <3>3, <3>4, ChainGrown
  <2> QED BY <2>1, <2>2
<1>29. sym' # "do_syscall_64" /\ (has_error_code(sym') <=> vector \in PushesError)
  BY <1>2, <1>22, SymFacts
<1>30. Entered(sym', cpu, stack, boot)
  BY <1>2, <1>22, <1>25, <1>9, <1>10, <1>29, Zenon DEF Entered
<1>31. HardwareFrame(T, at + k + h, stack, cpu, Len(frames))
  BY <1>9, <1>10, <1>8, <1>14, <1>15, DeliveredFrame
<1>32. e = IF has_error_code(sym') THEN 1 ELSE 0
  BY <1>6, <1>29
<1>33. top - e = at + k + h /\ top <= Len(T)
  <2>1. top = at + k + h + e /\ Len(T) = at + k + h + e
    BY <1>18, <1>20
  <2> QED BY <2>1
<1>34. has_error_code(sym') => T[top] = code
  <2>1. SUFFICES ASSUME has_error_code(sym') PROVE T[top] = code
    OBVIOUS
  <2>2. e = 1 /\ z[1] = code
    BY <1>6, <1>29, <1>32, <2>1
  <2>3. 1 \in 1 .. e /\ top = at + k + h + 1
    BY <1>20, <2>2
  <2> QED BY <1>18, <2>2, <2>3, Zenon
<1>35. AtGate'
  <2>1. sym' # "do_syscall_64" /\ OnKernelStack' /\ cpu'.regs = Was'.regs /\ (Was'.cpl = 3 => cpu'.rsp.map = "shared")
    BY <1>9, <1>21, <1>24, <1>29 DEF OnKernelStack
  <2>2. HardwareFrame(stacks'[cpu'.rsp.stack], cpu'.rsp.at - (IF has_error_code(sym') THEN 1 ELSE 0),
                      cpu'.rsp.stack, Was', Level')
    <3>1. HardwareFrame(T, top - e, stack, cpu, Len(frames))
      BY <1>31, <1>33, Zenon
    <3> QED BY <1>19, <1>21, <1>24, <1>32, <3>1, Zenon
  <2>3. cpu'.rsp.at <= Len(stacks'[cpu'.rsp.stack])
    BY <1>19, <1>21, <1>33, Zenon
  <2>4. ErrorAt(cpu.rsp.at)'
    BY <1>19, <1>21, <1>23, <1>24, <1>34, Zenon DEF ErrorAt, has_error_code
  <2> QED BY <2>1, <2>2, <2>3, <2>4, Zenon DEF AtGate, has_error_code
<1>36. PlaceInv'
  <2>1. InTrap'
    BY <1>21, <1>22, <1>24, <1>30, Zenon DEF InTrap
  <2>2. Stands(Was.cr3, Was.gs, Was.kgs, "shared")'
    BY <1>21, <1>24, Zenon DEF Stands
  <2>3. AtEntry'
    BY <1>35, <2>1, <2>2, Zenon DEF AtEntry
  <2> QED BY <1>22, <2>3 DEF PlaceInv
<1>37. ScratchInv'
  <2>1. boot = "done" => scratch.cr3 = "upml4"
    BY DEF EntryInv, ScratchInv
  <2>2. ASSUME NEW n \in 2 .. Len(frames'), frames'[n].sym = "do_syscall_64" PROVE scratch.rsp = RspWord(UserRsp)
    <3>1. PICK L \in Nat : L = Len(frames) /\ Len(frames') = L + 1
      BY <1>4, <1>24, Zenon
    <3>2. PICK f : f = [cpu |-> cpu, sym |-> sym, event |-> event]
      OBVIOUS
    <3>3. f \in FrameType /\ f.sym = sym
      BY <1>4, <1>23, <3>2 DEF TrapTypeOK, FrameType
    <3>4. GrownBy(frames', f, L)
      BY <1>1, <1>4, <3>1, <3>2, <3>3, Grown, Zenon DEF Interrupted
    <3>5. frames'[L + 1] = f /\ \A i \in 1 .. L : frames'[i] = frames[i]
      BY <3>4, Zenon DEF GrownBy
    <3>6. (n \in 1 .. L /\ n \in 2 .. Len(frames)) \/ n = L + 1
      BY <3>1
    <3>7. CASE n \in 1 .. L /\ n \in 2 .. Len(frames)
      <4>1. frames[n].sym = "do_syscall_64"
        BY <2>2, <3>5, <3>7, Zenon
      <4> QED BY <3>7, <4>1, Zenon DEF EntryInv, ScratchInv
    <3>8. CASE n = L + 1
      BY <2>2, <3>3, <3>5, <3>8, <1>25, Zenon DEF OnKernelStack, EntryInv, ScratchInv
    <3> QED BY <3>6, <3>7, <3>8
  <2> QED BY <1>22, <1>29, <2>1, <2>2, Zenon DEF ScratchInv, UserRsp, RspWord
<1>38. ServiceInv'
  <2>1. SUFFICES ASSUME inService'
                 PROVE  IF Len(frames') = 1 THEN sym' \in ApicSyms /\ pc' \in BeforeEoi ELSE frames'[2].sym \in ApicSyms
    BY <1>24, Zenon DEF ServiceInv, ApicSyms, BeforeEoi
  <2>2. PICK L \in Nat : L = Len(frames) /\ Len(frames') = L + 1
    BY <1>4, <1>24, Zenon
  <2>3. CASE frames = <<>>
    <3>1. ~inService
      BY <2>3, Zenon DEF EntryInv, ServiceInv
    <3>2. pc = "user" /\ v >= FIRST_EXTERNAL_VECTOR
      BY <2>1, <3>1, Zenon
    <3>3. boot = "done"
      BY <1>25, <3>2, Zenon
    <3>4. sym' \in ApicSyms /\ pc' \in BeforeEoi
      BY <1>2, <1>22, <3>2, <3>3 DEF BeforeEoi
    <3>5. Len(frames') = 1
      BY <2>2, <2>3, NoFrames, OneContext, Zenon
    <3> QED BY <3>4, <3>5, Zenon
  <2>4. CASE frames # <<>>
    <3>1. L >= 1
      BY <1>4, <2>2, <2>4, FrameTypes
    <3>2. inService
      BY <1>25, <2>1, <2>4, Zenon
    <3>3. IF L = 1 THEN sym \in ApicSyms ELSE frames[2].sym \in ApicSyms
      BY <2>2, <3>2, Zenon DEF EntryInv, ServiceInv
    <3>4. PICK f : f = [cpu |-> cpu, sym |-> sym, event |-> event]
      OBVIOUS
    <3>5. f \in FrameType /\ f.sym = sym
      BY <1>4, <1>23, <3>4 DEF TrapTypeOK, FrameType
    <3>6. GrownBy(frames', f, L)
      BY <1>1, <1>4, <2>2, <3>4, <3>5, Grown, Zenon DEF Interrupted
    <3>7. frames'[L + 1] = f /\ \A i \in 1 .. L : frames'[i] = frames[i]
      BY <3>6, Zenon DEF GrownBy
    <3>8. Len(frames') # 1 /\ (L = 1 => L + 1 = 2) /\ (L # 1 => 2 \in 1 .. L)
      <4>1. L + 1 # 1 /\ (L = 1 => L + 1 = 2) /\ (L # 1 => 2 \in 1 .. L)
        BY <3>1
      <4> QED BY <2>2, <4>1, Zenon
    <3>9. CASE L = 1
      <4>1. frames'[2] = f
        BY <3>7, <3>8, <3>9, Zenon
      <4> QED BY <3>3, <3>5, <3>8, <3>9, <4>1, Zenon
    <3>10. CASE L # 1
      <4>1. frames'[2] = frames[2]
        BY <3>7, <3>8, <3>10, Zenon
      <4> QED BY <3>3, <3>8, <3>10, <4>1, Zenon
    <3> QED BY <3>9, <3>10
  <2> QED BY <2>3, <2>4
<1> QED BY <1>27, <1>28, <1>36, <1>37, <1>38, Zenon DEF EntryInv

-----------------------------------------------------------------------------
(***************************************************************************)
(* Events.                                                                 *)
(***************************************************************************)
LEMMA EventVector ==
  ASSUME NEW v \in Vectors
  PROVE  /\ v \in AllVectors /\ v \in Int /\ X86_TRAP_GP \in AllVectors
         /\ ~(X86_TRAP_GP >= FIRST_EXTERNAL_VECTOR) /\ X86_TRAP_GP # X86_TRAP_DF
         /\ (v < FIRST_EXTERNAL_VECTOR => ~(v >= FIRST_EXTERNAL_VECTOR))
         /\ (v >= FIRST_EXTERNAL_VECTOR => v # X86_TRAP_DF)
<1>1. v \in AllVectors
  BY TrapConstants DEF AllVectors
<1>2. v \in Int
  BY <1>1, VectorFacts DEF AllVectors
<1> QED BY <1>1, <1>2, VectorFacts DEF AllVectors, X86_TRAP_GP, X86_TRAP_DF

LEMMA EventWords ==
  ASSUME NEW v \in Int
  PROVE  <<v, "error", "">> \in Words /\ <<v, "gate", "">> \in Words
BY WordTypes, Zenon

LEMMA ExceptionStep ==
  ASSUME GateInv, EntryInv, NEW v \in Vectors, Exception(v)
  PROVE  EntryInv'
<1>1. /\ pc \in {"user", "c"} /\ boot # "traps" /\ v < FIRST_EXTERNAL_VECTOR
      /\ (v = X86_TRAP_DF => cpu.rsp.stack # "ist") /\ Deliver(v, <<v, "error", "">>) /\ inService' = inService
  BY DEF Exception, Interruptible
<1>2. v \in AllVectors /\ ~(v >= FIRST_EXTERNAL_VECTOR) /\ <<v, "error", "">> \in Words
  BY <1>1, EventVector, EventWords, Zenon
<1>3. inService' \in BOOLEAN /\ (inService' => inService)
  BY <1>1 DEF EntryInv, TrapTypeOK
<1> QED BY <1>1, <1>2, <1>3, DeliverStep, Zenon

LEMMA SoftwareInterruptStep ==
  ASSUME GateInv, EntryInv, NEW v \in Vectors, SoftwareInterrupt(v)
  PROVE  EntryInv'
<1>1. /\ pc = "user" /\ inService' = inService
      /\ IF idt_table[v].dpl = 3 THEN Deliver(v, <<v, "error", "">>)
         ELSE Deliver(X86_TRAP_GP, <<v, "gate", "">>)
  BY Zenon DEF SoftwareInterrupt, Interruptible
<1>2. pc \in {"user", "c"}
  BY <1>1, Zenon
<1>3. boot # "traps" /\ cpu.rsp.stack # "ist"
  BY <1>1, <1>2, InterruptedIs
<1>4. inService' \in BOOLEAN /\ (inService' => inService)
  BY <1>1 DEF EntryInv, TrapTypeOK
<1>5. /\ v \in AllVectors /\ X86_TRAP_GP \in AllVectors
      /\ <<v, "error", "">> \in Words /\ <<v, "gate", "">> \in Words
  BY EventVector, EventWords, Zenon
<1>6. CASE idt_table[v].dpl = 3
  <2>1. Deliver(v, <<v, "error", "">>)
    BY <1>1, <1>6, Zenon
  <2> QED BY <1>1, <1>2, <1>3, <1>4, <1>5, <2>1, DeliverStep, Zenon
<1>7. CASE idt_table[v].dpl # 3
  <2>1. Deliver(X86_TRAP_GP, <<v, "gate", "">>)
    BY <1>1, <1>7, Zenon
  <2> QED BY <1>1, <1>2, <1>3, <1>4, <1>5, <2>1, DeliverStep, Zenon
<1> QED BY <1>6, <1>7

LEMMA InterruptStep ==
  ASSUME GateInv, EntryInv, NEW v \in Vectors, Interrupt(v)
  PROVE  EntryInv'
<1>1. /\ pc \in {"user", "c"} /\ cpu.if /\ v >= FIRST_EXTERNAL_VECTOR
      /\ Deliver(v, <<v, "error", "">>) /\ inService' = (v # SPURIOUS_APIC_VECTOR)
  BY Zenon DEF Interrupt, Interruptible
<1>2. pc = "user" /\ boot # "traps" /\ cpu.rsp.stack # "ist"
  <2>1. pc # "c"
    BY <1>1, InterruptedIs, Zenon
  <2>2. pc = "user"
    BY <1>1, <2>1
  <2> QED BY <2>2, InterruptedIs
<1>3. v \in AllVectors /\ <<v, "error", "">> \in Words
  BY EventVector, EventWords, Zenon
<1>4. inService' \in BOOLEAN
  BY <1>1, Zenon
<1> QED BY <1>1, <1>2, <1>3, <1>4, DeliverStep, Zenon

LEMMA SyscallStep ==
  ASSUME GateInv, EntryInv, Syscall
  PROVE  EntryInv'
<1> DEFINE event == [vector |-> -1, error |-> Junk]
<1>1. /\ pc = "user" /\ msr.LSTAR
      /\ cpu' = [cpu EXCEPT !.cpl = 0, !.rip = "shared", !.if = @ /\ "IF" \notin msr.clears,
                            !.regs["rcx"] = <<Len(frames), "rip", cpu.rip>>,
                            !.regs["r11"] = FlagsOf(Len(frames), cpu.if)]
      /\ frames' = Interrupted(event) /\ sym' = "do_syscall_64" /\ pc' = "entry"
      /\ UNCHANGED <<bootVars, stacks, scratch, inService>>
  BY Zenon DEF Syscall, At
<1>2. pc \in {"user", "c"} /\ pc # "c"
  BY <1>1
<1>3. /\ frames = <<>> /\ sym = "" /\ boot = "done" /\ UserContext(cpu) /\ cpu.cpl = 3
      /\ cpu.rsp.stack = "user" /\ cpu \in CpuType /\ TrapTypeOK
  BY <1>2, InterruptedIs, Zenon
<1>4. "IF" \in msr.clears
  BY <1>1, Zenon DEF GateInv
<1>5. event \in EventType
  <2>a. Junk \in Words
    BY WordTypes, Zenon
  <2>b. -1 \in Int
    OBVIOUS
  <2>1. Junk \in Words /\ -1 \in Int
    BY <2>a, <2>b, Zenon
  <2> HIDE DEF Junk
  <2> QED BY <2>1 DEF EventType
<1>6. /\ Was' = cpu /\ Level' = Len(frames) /\ frames' # <<>> /\ frames' \in Seq(FrameType)
      /\ Len(frames) \in Nat /\ Len(frames') = Len(frames) + 1
  BY <1>1, <1>3, <1>5, NewContext
<1>7. PICK x \in Words, y \in Words : x = <<Len(frames), "rip", cpu.rip>> /\ y = FlagsOf(Len(frames), cpu.if)
  <2>1. Len(frames) \in Int
    <3>1. \A n \in Nat : n \in Int
      OBVIOUS
    <3> QED BY <1>6, <3>1, Zenon
  <2>2. cpu.rip \in Maps /\ cpu.if \in BOOLEAN
    BY <1>3, CpuParts, Zenon
  <2> QED BY <2>1, <2>2, WordTypes, Zenon
<1>8. cpu' = [cpu EXCEPT !.cpl = 0, !.rip = "shared", !.if = FALSE, !.regs = [cpu.regs EXCEPT !["rcx"] = x, !["r11"] = y]]
  BY <1>4, <1>1, <1>7, <1>3, CpuParts, Zenon DEF CpuType
<1>9. PICK r \in [Regs -> Words] : r = [cpu.regs EXCEPT !["rcx"] = x, !["r11"] = y]
  <2>1. cpu.regs \in [Regs -> Words]
    BY <1>3, CpuParts
  <2> QED BY <2>1
<1>10. /\ cpu' \in CpuType /\ cpu'.cpl = 0 /\ cpu'.if = FALSE /\ cpu'.rip = "shared" /\ cpu'.cr3 = cpu.cr3
       /\ cpu'.gs = cpu.gs /\ cpu'.kgs = cpu.kgs /\ cpu'.regs = r /\ cpu'.rsp = cpu.rsp
  <2>1. cpu' = [cpu EXCEPT !.cpl = 0, !.rip = "shared", !.if = FALSE, !.regs = r]
    BY <1>8, <1>9, Zenon
  <2> QED BY <1>3, <2>1, CpuParts DEF CpuType, Maps
<1>11. boot' = boot /\ scratch' = scratch /\ stacks' = stacks /\ inService' = inService
  BY <1>1 DEF bootVars
<1>12. TrapTypeOK'
  <2>1. sym' \in Syms /\ pc' \in Pcs
    BY <1>1 DEF Syms, Pcs
  <2> QED BY <1>3, <1>6, <1>10, <1>11, <2>1, Zenon DEF TrapTypeOK
<1>13. ChainInv'
  BY <1>1, <1>3, <1>5, <1>11, ChainFirst
<1>14. AtEntry'
  <2>1. InTrap'
    BY <1>3, SymFacts, <1>10, <1>1, <1>6, <1>11, Zenon DEF Entered, InTrap
  <2>2. Stands(Was.cr3, Was.gs, Was.kgs, "shared")'
    BY <1>6, <1>10, Zenon DEF Stands
  <2>3. AtSyscall'
    <3>1. SyscallRegs' = [cpu.regs EXCEPT !["rcx"] = x, !["r11"] = y]
      BY <1>6, <1>7, Zenon DEF SyscallRegs, FlagsOf
    <3> QED BY <1>1, <1>6, <1>9, <1>10, <3>1, Zenon DEF AtSyscall
  <2> QED BY <2>1, <2>2, <2>3, Zenon DEF AtEntry
<1>15. PlaceInv'
  BY <1>1, <1>14 DEF PlaceInv
<1>16. Len(frames') = 1
  BY <1>3, <1>6, NoFrames, OneContext, Zenon
<1>17. ScratchInv'
  BY <1>3, <1>10, <1>16, ShortChain, <1>11, Zenon DEF EntryInv, ScratchInv
<1>18. ServiceInv'
  <2>1. ~inService
    BY <1>3, Zenon DEF EntryInv, ServiceInv
  <2> QED BY <1>11, <2>1, Zenon DEF ServiceInv
<1> QED BY <1>12, <1>13, <1>15, <1>17, <1>18, Zenon DEF EntryInv

-----------------------------------------------------------------------------
(***************************************************************************)
(* Boot code.                                                              *)
(***************************************************************************)
LEMMA BootPart ==
  ASSUME EntryInv, pc = "c", frames = <<>>, UNCHANGED <<stacks, scratch, pc, sym, frames, inService>>,
         cpu' \in CpuType, BootContext(cpu', boot')
  PROVE  EntryInv'
<1>1. AtC /\ sym = ""
  BY Zenon DEF EntryInv, PlaceInv, AtC
<1>2. TrapTypeOK'
  BY Zenon DEF EntryInv, TrapTypeOK
<1>3. ChainInv'
  BY NoChain
<1>4. AtC'
  BY <1>1, Zenon DEF AtC, BootContext
<1>5. PlaceInv'
  BY <1>4 DEF PlaceInv
<1>6. ScratchInv'
  <2>1. boot' # "done"
    BY Zenon DEF BootContext
  <2>2. \A n \in 2 .. Len(frames') : FALSE
    <3>1. Len(frames') = 0
      BY NoFrames, Zenon
    <3> QED BY <3>1, ShortChain, Zenon
  <2>3. sym' # "do_syscall_64"
    BY <1>1
  <2> QED BY <2>1, <2>2, <2>3, Zenon DEF ScratchInv
<1>7. ServiceInv'
  BY Zenon DEF EntryInv, ServiceInv
<1> QED BY <1>2, <1>3, <1>5, <1>6, <1>7, Zenon DEF EntryInv

LEMMA Booted ==
  ASSUME EntryInv, NEW step, Booting(step)
  PROVE  cpu \in CpuType /\ BootContext(cpu, boot) /\ boot = step /\ pc = "c" /\ frames = <<>> /\ sym = ""
<1>1. boot = step /\ pc = "c" /\ frames = <<>>
  BY DEF Booting
<1>2. sym = "" /\ BootContext(cpu, boot)
  BY <1>1, Zenon DEF EntryInv, PlaceInv, AtC
<1>3. cpu \in CpuType
  BY DEF EntryInv, TrapTypeOK
<1> QED BY <1>1, <1>2, <1>3, Zenon

\* A step of trap_init or syscall_init that only writes the table or an MSR.
LEMMA BootQuiet ==
  ASSUME EntryInv, NEW step, Booting(step), RestOfBoot, boot' # "done", KernelGs(boot') = KernelGs(step)
  PROVE  EntryInv'
<1>1. cpu \in CpuType /\ BootContext(cpu, boot) /\ boot = step /\ pc = "c" /\ frames = <<>>
  BY Booted, Zenon
<1>2. UNCHANGED <<cpu, stacks, scratch, pc, sym, frames, inService>>
  BY DEF RestOfBoot
<1>3. BootContext(cpu', boot')
  BY <1>1, <1>2 DEF BootContext, KernelContext
<1> QED BY <1>1, <1>2, <1>3, BootPart

LEMMA TableEntryStep ==
  ASSUME EntryInv, NEW step \in {"traps", "ist", "apic"}, idt_setup_from_table(step)
  PROVE  EntryInv'
<1>1. Booting(step) /\ RestOfBoot /\ boot' = boot
  BY DEF idt_setup_from_table
<1>2. boot = step /\ boot' # "done" /\ KernelGs(boot') = KernelGs(step)
  BY <1>1 DEF Booting
<1> QED BY <1>1, <1>2, BootQuiet

LEMMA SetupStep ==
  ASSUME EntryInv, idt_setup_traps \/ idt_setup_ist_traps \/ idt_setup_apic_and_irq_gates \/ syscall_init
  PROVE  EntryInv'
<1>1. \E step \in {"traps", "ist", "apic", "irq", "syscall"} :
        /\ Booting(step) /\ RestOfBoot /\ boot' # "done" /\ KernelGs(boot') = KernelGs(step)
  <2>1. CASE idt_setup_traps
    BY <2>1 DEF idt_setup_traps, TableDone, KernelGs
  <2>2. CASE idt_setup_ist_traps
    BY <2>2 DEF idt_setup_ist_traps, TableDone, KernelGs
  <2>3. CASE idt_setup_apic_and_irq_gates
    <3>1. CASE TableDone("apic") /\ boot' = "irq" /\ RestOfBoot
      BY <3>1 DEF TableDone, KernelGs
    <3>2. CASE Booting("irq") /\ boot' = boot /\ RestOfBoot
      BY <3>2 DEF Booting, KernelGs
    <3>3. CASE Booting("irq") /\ boot' = "msrs" /\ RestOfBoot
      BY <3>3 DEF KernelGs
    <3> QED BY <2>3, <3>1, <3>2, <3>3, Zenon DEF idt_setup_apic_and_irq_gates
  <2>4. CASE syscall_init
    BY <2>4 DEF syscall_init, KernelGs
  <2> QED BY <2>1, <2>2, <2>3, <2>4
<1> QED BY <1>1, BootQuiet

LEMMA TrapInitStep ==
  ASSUME EntryInv, trap_init
  PROVE  EntryInv'
<1>1. /\ Booting("msrs") /\ cpu' = [cpu EXCEPT !.kgs = "user", !.gs = "shared"] /\ boot' = "syscall"
      /\ UNCHANGED <<stacks, scratch, pc, sym, frames, inService>>
  BY DEF trap_init
<1>2. cpu \in CpuType /\ BootContext(cpu, boot) /\ pc = "c" /\ frames = <<>>
  BY <1>1, Booted, Zenon
<1>3. /\ cpu' \in CpuType /\ cpu'.cpl = cpu.cpl /\ cpu'.if = cpu.if /\ cpu'.rip = cpu.rip /\ cpu'.cr3 = cpu.cr3
      /\ cpu'.gs = "shared" /\ cpu'.kgs = "user" /\ cpu'.rsp = cpu.rsp
  BY <1>1, <1>2, CpuParts DEF CpuType, Bases
<1>4. BootContext(cpu', boot')
  BY <1>1, <1>2, <1>3 DEF BootContext, KernelContext, KernelGs
<1> QED BY <1>1, <1>2, <1>3, <1>4, BootPart

JoinedAs(w, a, m, b, n) ==
  /\ w \in Seq(Words) /\ Len(w) = m + n /\ (\A i \in 1 .. m : w[i] = a[i]) /\ (\A i \in 1 .. n : w[m + i] = b[i])

LEMMA JoinedIs ==
  ASSUME NEW a \in Seq(Words), NEW b \in Seq(Words), NEW m \in Nat, m = Len(a), NEW n \in Nat, n = Len(b),
         NEW w, w = a \o b
  PROVE  JoinedAs(w, a, m, b, n)
BY Joined DEF JoinedAs

\* user_init builds the frame of a user that never ran.
FirstStack ==
  <<<<3, "ss", "">>, <<0, "user", "user">>, FlagsOf(0, TRUE), <<3, "cs", "">>, <<0, "rip", "user">>,
    <<0, "zero", "">>>> \o Saved(OwnRegs)

LEMMA FirstFrame == FirstStack \in Seq(Words) /\ Frame(FirstStack, 21, "cpu", FirstUser, 0)
<1>1. FirstUser \in CpuType /\ FirstUser.regs = OwnRegs /\ OwnRegs \in [Regs -> Words]
  BY FirstUserType, CpuParts DEF FirstUser
<1>2. /\ FirstUser.rip = "user" /\ FirstUser.cpl = 3 /\ FirstUser.if = TRUE /\ FirstUser.rsp = UserRsp
      /\ UserRsp.stack = "user" /\ RspWord(UserRsp) = <<0, "user", "user">>
  BY DEF FirstUser, UserRsp, RspWord
<1>3. PICK x1 \in Words, x2 \in Words, x3 \in Words, x4 \in Words, x5 \in Words, x6 \in Words :
        /\ x1 = <<3, "ss", "">> /\ x2 = <<0, "user", "user">> /\ x3 = FlagsOf(0, TRUE)
        /\ x4 = <<3, "cs", "">> /\ x5 = <<0, "rip", "user">> /\ x6 = <<0, "zero", "">>
  <2>1. 0 \in Int /\ 3 \in Int
    OBVIOUS
  <2>2. "user" \in Maps /\ TRUE \in BOOLEAN /\ UserRsp \in RspType
    BY DEF Maps, UserRsp, RspType, StackNames
  <2>3. /\ <<3, "ss", "">> \in Words /\ RspWord(UserRsp) \in Words /\ FlagsOf(0, TRUE) \in Words
        /\ <<3, "cs", "">> \in Words /\ <<0, "rip", "user">> \in Words /\ <<0, "zero", "">> \in Words
    BY <2>1, <2>2, WordTypes, Zenon
  <2> QED BY <1>2, <2>3, Zenon
<1>4. PICK q : q = <<x1, x2, x3, x4, x5, x6>>
  OBVIOUS
<1>5. q \in Seq(Words) /\ Len(q) = 6 /\ q[2] = x2 /\ q[3] = x3 /\ q[4] = x4 /\ q[5] = x5
  BY <1>4
<1>6. PICK h \in Nat, m \in Nat : h = 6 /\ m = 15
  OBVIOUS
<1>7. PICK v : v = Saved(OwnRegs)
  OBVIOUS
<1>8. v \in Seq(Words) /\ m = Len(v)
  BY <1>1, <1>6, <1>7, SavedWords
<1>9. h = Len(q)
  BY <1>5, <1>6, Zenon
<1>10. PICK U : U = q \o v
  OBVIOUS
<1>11. /\ U \in Seq(Words) /\ Len(U) = h + m /\ (\A i \in 1 .. h : U[i] = q[i]) /\ (\A i \in 1 .. m : U[h + i] = v[i])
  <2>1. q \in Seq(Words) /\ v \in Seq(Words) /\ h = Len(q) /\ m = Len(v)
    BY <1>5, <1>8, <1>9, Zenon
  <2>2. JoinedAs(U, q, h, v, m)
    BY <1>10, <2>1, JoinedIs
  <2> QED BY <2>2, Zenon DEF JoinedAs
<1>12. PICK F \in Int : F = 21 /\ F - 16 = 5 /\ F - 15 = 6 /\ F = h + m
  BY <1>6
<1>13. U[5] = x5 /\ U[5 - 1] = x4 /\ U[5 - 2] = x3 /\ U[5 - 3] = x2
  BY <1>6, <1>5, <1>11
<1>14. 5 >= 5 /\ 5 <= Len(U) /\ F <= Len(U)
  <2>1. 5 >= 5 /\ 5 <= h + m /\ F <= h + m
    BY <1>6, <1>12
  <2> QED BY <1>11, <2>1, Zenon
<1>15. HardwareFrame(U, 5, "cpu", FirstUser, 0)
  <2>1. FirstUser.rsp.stack # "cpu"
    BY <1>2
  <2> QED BY <1>2, <1>3, <1>13, <1>14, <2>1, Zenon DEF HardwareFrame
<1>16. \A y \in 1 .. 15 : U[F - 15 + y] = Saved(FirstUser.regs)[y]
  <2>1. F - 15 = h /\ m = 15
    BY <1>6, <1>12
  <2> QED BY <1>1, <1>7, <1>11, <2>1, Zenon
<1>17. Frame(U, F, "cpu", FirstUser, 0)
  <2>1. HardwareFrame(U, F - 16, "cpu", FirstUser, 0) /\ F <= Len(U)
    BY <1>12, <1>14, <1>15, Zenon
  <2> QED BY <1>1, <1>16, <2>1, SavedFrame, Zenon
<1>18. FirstStack = U
  BY <1>3, <1>4, <1>7, <1>10, Zenon DEF FirstStack
<1> QED BY <1>11, <1>12, <1>17, <1>18, Zenon

LEMMA ReturnToUsermodeStep ==
  ASSUME EntryInv, return_to_usermode
  PROVE  EntryInv'
<1>1. /\ Booting("user") /\ boot' = "done" /\ stacks' = [stacks EXCEPT !["cpu"] = FirstStack]
      /\ cpu' = [cpu EXCEPT !.rsp.at = 21] /\ scratch' = [scratch EXCEPT !.cr3 = "upml4"] /\ pc' = "retint_user"
      /\ UNCHANGED <<sym, frames, inService>>
  BY Zenon DEF return_to_usermode, KeepTrap, FirstStack
<1>2. cpu \in CpuType /\ BootContext(cpu, boot) /\ boot = "user" /\ pc = "c" /\ frames = <<>> /\ sym = ""
  BY <1>1, Booted, Zenon
<1>3. KernelContext(cpu, "user") /\ cpu.rsp.stack = "cpu"
  <2>1. KernelContext(cpu, "user") /\ cpu.rsp = [stack |-> "cpu", at |-> 0, map |-> "identity"]
    BY <1>2, Zenon DEF BootContext
  <2>2. cpu.rsp.stack = "cpu"
    BY <2>1
  <2> QED BY <2>1, <2>2, Zenon
<1>4. /\ stacks \in [{"cpu", "ist"} -> Seq(Words)] /\ TrapTypeOK
      /\ scratch \in [cr3 : {"", "kpml4", "upml4"}, rsp : Words]
  BY DEF EntryInv, TrapTypeOK
<1>5. PICK T \in Seq(Words) : T = FirstStack
  BY FirstFrame
<1>6. stacks' \in [{"cpu", "ist"} -> Seq(Words)] /\ stacks'["cpu"] = T
  BY <1>1, <1>4, <1>5
<1>7. /\ cpu' \in CpuType /\ cpu'.cpl = cpu.cpl /\ cpu'.if = cpu.if /\ cpu'.rip = cpu.rip /\ cpu'.cr3 = cpu.cr3
      /\ cpu'.gs = cpu.gs /\ cpu'.kgs = cpu.kgs /\ cpu'.rsp.stack = "cpu" /\ cpu'.rsp.at = 21
  BY <1>1, <1>2, <1>3, CpuParts DEF CpuType, RspType
<1>8. scratch' \in [cr3 : {"", "kpml4", "upml4"}, rsp : Words] /\ scratch'.cr3 = "upml4"
  BY <1>1, <1>4
<1>9. frames' = <<>> /\ sym' = ""
  BY <1>1, <1>2, Zenon
<1>10. TrapTypeOK'
  BY <1>1, <1>4, <1>6, <1>7, <1>8, Zenon DEF TrapTypeOK, Pcs
<1>11. ChainInv'
  BY <1>9, NoChain
<1>12. Was' = FirstUser /\ Level' = 0
  BY <1>9, Zenon DEF Was, Level, FirstUser, UserRsp, OwnRegs
<1>13. PtRegs(cpu.rsp.at)'
  BY <1>5, <1>6, <1>7, <1>12, FirstFrame, <1>9, Zenon DEF PtRegs
<1>14. AtBack("kpml4", "identity")'
  <2>1. Leaving' /\ OnKernelStack' /\ sym' # "double_fault" /\ sym' # "do_syscall_64"
    BY <1>1, <1>7, <1>9 DEF Leaving, OnKernelStack
  <2>2. Was'.cpl = 3
    BY <1>12 DEF FirstUser
  <2>3. KernelGs("user") = "shared"
    BY DEF KernelGs
  <2>4. Stands("kpml4", "shared", "user", "identity")'
    BY <1>3, <1>7, <2>3, Zenon DEF Stands, KernelContext
  <2> QED BY <1>13, <2>1, <2>2, <2>4, Zenon DEF AtBack
<1>15. PlaceInv'
  BY <1>1, <1>14 DEF PlaceInv
<1>16. ScratchInv'
  <2>1. \A n \in 2 .. Len(frames') : FALSE
    <3>1. Len(frames') = 0
      BY <1>9, NoFrames, Zenon
    <3> QED BY <3>1, ShortChain, Zenon
  <2>2. sym' # "do_syscall_64"
    BY <1>9
  <2> QED BY <1>8, <2>1, <2>2, Zenon DEF ScratchInv
<1>17. ServiceInv'
  <2>1. ~inService
    BY <1>2, Zenon DEF EntryInv, ServiceInv
  <2> QED BY <1>1, <2>1, Zenon DEF ServiceInv
<1> QED BY <1>10, <1>11, <1>15, <1>16, <1>17, Zenon DEF EntryInv

-----------------------------------------------------------------------------
(***************************************************************************)
(* The invariant.                                                          *)
(***************************************************************************)
NoFramesYet == frames = <<>> /\ (\A n \in 2 .. Len(frames) : FALSE) /\ (\A n \in 1 .. Len(frames) : FALSE)

LEMMA TrapsStart == ASSUME TrapInit PROVE TrapInv
<1>1. /\ boot = "traps" /\ entry = 1 /\ idt_table = [v \in AllVectors |-> NoGate] /\ system_vectors = {}
      /\ msr.LSTAR = FALSE
  BY DEF TrapInit, AllVectors
<1>2. /\ scratch = [cr3 |-> "", rsp |-> Junk] /\ pc = "c" /\ sym = "" /\ frames = <<>> /\ inService = FALSE
      /\ stacks = [s \in {"cpu", "ist"} |-> <<>>]
      /\ cpu = [cpl |-> 0, cr3 |-> "kpml4", gs |-> "identity", kgs |-> "user", rip |-> "identity",
                rsp |-> [stack |-> "cpu", at |-> 0, map |-> "identity"], if |-> FALSE, regs |-> OwnRegs]
  BY DEF TrapInit
<1>3. GateInv
  <2>1. NoGate \in GateType /\ NoGate.present = FALSE
    BY DEF NoGate, GateType, Syms
  <2>2. idt_table \in [AllVectors -> GateType] /\ \A v \in AllVectors : idt_table[v].present = FALSE
    BY <1>1, <2>1
  <2>3. system_vectors = {v \in AllVectors : idt_table[v].present}
    BY <1>1, <2>2
  <2>4. entry \in 1 .. 17 /\ entry \in Nat /\ \A i \in 1 .. (entry - 1) : FALSE
    BY <1>1
  <2> QED BY <1>1, <2>2, <2>3, <2>4 DEF GateInv, Boots
<1>4. OwnRegs \in [Regs -> Words]
  BY FirstUserType, CpuParts DEF FirstUser
<1>5. cpu \in CpuType
  <2>1. 0 \in Nat
    OBVIOUS
  <2>2. PICK r \in RspType : r = [stack |-> "cpu", at |-> 0, map |-> "identity"]
    BY DEF RspType, StackNames, Maps
  <2>3. cpu = [cpl |-> 0, cr3 |-> "kpml4", gs |-> "identity", kgs |-> "user", rip |-> "identity",
               rsp |-> r, if |-> FALSE, regs |-> OwnRegs]
    BY <1>2, <2>2, Zenon
  <2> HIDE DEF OwnRegs
  <2> QED BY <1>4, <2>3 DEF CpuType, Bases, Maps
<1>6. TrapTypeOK
  <2>1. stacks \in [{"cpu", "ist"} -> Seq(Words)]
    <3>1. <<>> \in Seq(Words)
      BY EmptySeq, Zenon
    <3> QED BY <1>2, <3>1
  <2>2. scratch \in [cr3 : {"", "kpml4", "upml4"}, rsp : Words]
    <3>1. PICK j \in Words : j = Junk
      BY WordTypes, Zenon
    <3>2. scratch = [cr3 |-> "", rsp |-> j]
      BY <1>2, <3>1, Zenon
    <3> QED BY <3>2
  <2>3. frames \in Seq(FrameType)
    BY <1>2, EmptySeq, Zenon
  <2>4. sym \in Syms /\ pc \in Pcs /\ inService \in BOOLEAN
    BY <1>2 DEF Syms, Pcs
  <2> QED BY <1>5, <2>1, <2>2, <2>3, <2>4, Zenon DEF TrapTypeOK
<1>7. NoFramesYet
  <2>1. Len(frames) = 0
    BY <1>2, NoFrames, Zenon
  <2>2. \A n \in 1 .. 0 : FALSE
    OBVIOUS
  <2> QED BY <1>2, <2>1, <2>2, ShortChain, Zenon DEF NoFramesYet
<1>8. ChainInv
  BY <1>7, Zenon DEF NoFramesYet, ChainInv
<1>9. BootContext(cpu, boot)
  BY <1>2, <1>1, Zenon DEF KernelGs, BootContext, KernelContext
<1>10. PlaceInv
  <2>1. AtC
    BY <1>2, <1>9, Zenon DEF AtC, BootContext
  <2> QED BY <1>2, <2>1 DEF PlaceInv
<1>11. ScratchInv
  <2>1. sym # "do_syscall_64" /\ boot # "done"
    BY <1>1, <1>2
  <2> QED BY <1>7, <2>1, Zenon DEF ScratchInv, NoFramesYet
<1>12. ServiceInv
  BY <1>2, Zenon DEF ServiceInv
<1> QED BY <1>3, <1>6, <1>8, <1>10, <1>11, <1>12, Zenon DEF TrapInv, EntryInv

LEMMA EntryNext ==
  ASSUME GateInv, EntryInv, TrapNext
  PROVE  EntryInv'
<1>1. ASSUME BootStep PROVE EntryInv'
  BY <1>1, TableEntryStep, SetupStep, TrapInitStep, ReturnToUsermodeStep, Zenon DEF BootStep
<1>2. ASSUME do_syscall_64 PROVE EntryInv'
  <2>1. pc = "entry" \/ pc = "syscall_stack"
    BY <1>2, Zenon DEF do_syscall_64, At
  <2> QED BY <1>2, <2>1, SyscallEntryStep, SyscallStackStep, Zenon
<1>3. ASSUME EntryStep PROVE EntryInv'
  BY <1>2, <1>3, IdtentryStep, ErrorEntryStep, InterruptEntryStep, SwitchStep, CallStep, HandlerReturnsStep,
     HandlerDiesStep, ErrorExitStep, SyscallExitStep, BackStep, SwapgsOutStep, RetintKernelStep, IretqStep,
     SyscallRestoreStep, SysretqStep, Zenon DEF EntryStep
<1>4. ASSUME Event PROVE EntryInv'
  BY <1>4, ExceptionStep, SoftwareInterruptStep, InterruptStep, SyscallStep, Zenon DEF Event
<1> QED BY <1>1, <1>3, <1>4, Zenon DEF TrapNext

LEMMA EntryStutters ==
  ASSUME EntryInv, UNCHANGED trapVars
  PROVE  EntryInv'
<1>1. /\ boot' = boot /\ cpu' = cpu /\ stacks' = stacks /\ scratch' = scratch /\ pc' = pc /\ sym' = sym
      /\ frames' = frames /\ inService' = inService
  BY DEF trapVars
<1>2. Was' = Was /\ Of' = Of /\ Level' = Level
  BY <1>1, SameContext
<1>3. /\ \A F : PtRegs(F)' = PtRegs(F)
      /\ \A x : ErrorAt(x)' = ErrorAt(x)
      /\ SwitchPtRegs' = SwitchPtRegs
  BY <1>1, SamePtRegs
<1>4. InTrap' = InTrap /\ Leaving' = Leaving /\ OnKernelStack' = OnKernelStack /\ LiveRegs' = LiveRegs
  BY <1>1, <1>2, Zenon DEF InTrap, Leaving, OnKernelStack, LiveRegs
<1>5. /\ AtUser' = AtUser /\ AtSyscall' = AtSyscall /\ AtGate' = AtGate /\ AtErrorEntry' = AtErrorEntry
      /\ AtExit' = AtExit /\ AtC' = AtC /\ AtCall' = AtCall /\ AtRetint' = AtRetint /\ AtSysretq' = AtSysretq
  <2>1. AtUser' = AtUser /\ AtC' = AtC /\ AtCall' = AtCall /\ AtExit' = AtExit
    BY <1>1, <1>2, <1>3, <1>4, Zenon DEF AtUser, AtC, AtCall, AtExit
  <2>2. AtSyscall' = AtSyscall
    BY <1>1, <1>2, Zenon DEF AtSyscall, SyscallRegs
  <2>3. AtGate' = AtGate
    BY <1>1, <1>2, <1>3, <1>4, Zenon DEF AtGate
  <2>4. AtErrorEntry' = AtErrorEntry
    BY <1>1, <1>2, <1>3, <1>4, Zenon DEF AtErrorEntry, Stands
  <2>5. AtRetint' = AtRetint /\ AtSysretq' = AtSysretq
    BY <1>1, <1>2, <1>4, Zenon DEF AtRetint, AtSysretq, Stands
  <2> QED BY <2>1, <2>2, <2>3, <2>4, <2>5
<1>6. AtEntry' = AtEntry /\ AtSyscallStack' = AtSyscallStack
  BY <1>1, <1>2, <1>4, <1>5, Zenon DEF AtEntry, AtSyscallStack, Stands
<1>7. \A cr3, rip : AtSwitch(cr3, rip)' = AtSwitch(cr3, rip) /\ AtBack(cr3, rip)' = AtBack(cr3, rip)
  BY <1>1, <1>2, <1>3, <1>4, Zenon DEF AtSwitch, AtBack, Stands
<1>8. PlaceInv'
  <2>1. PlaceInv
    BY DEF EntryInv
  <2> QED BY <1>1, <1>2, <1>3, <1>5, <1>6, <1>7, <2>1 DEF PlaceInv
<1>9. ChainInv'
  BY <1>1, ChainStays DEF EntryInv
<1>10. TrapTypeOK' /\ ScratchInv' /\ ServiceInv'
  BY <1>1 DEF EntryInv, TrapTypeOK, ScratchInv, ServiceInv
<1> QED BY <1>8, <1>9, <1>10 DEF EntryInv

LEMMA TrapInvStep ==
  ASSUME TrapInv, [Next]_vars
  PROVE  TrapInv'
<1>1. CASE TrapNext
  <2>1. GateInv'
    BY <1>1, GateStep, Zenon DEF TrapInv
  <2>2. EntryInv'
    BY <1>1, EntryNext, Zenon DEF TrapInv
  <2> QED BY <2>1, <2>2, Zenon DEF TrapInv
<1>2. CASE UNCHANGED trapVars
  <2>1. GateInv'
    BY <1>2, GatesStay DEF TrapInv, trapVars, bootVars
  <2>2. EntryInv'
    BY <1>2, EntryStutters, Zenon DEF TrapInv
  <2> QED BY <2>1, <2>2, Zenon DEF TrapInv
<1>3. TrapNext \/ UNCHANGED trapVars
  BY DEF Next, Traps, Consoles, vars
<1> QED BY <1>1, <1>2, <1>3

\* The inductive invariant of the trap path: the gates are those of the tables
\* copied so far, and whatever place of entry.S is reached, cr3, the gs bases,
\* rip, rsp and the stack are what the context to return to and the entry
\* point taken demand, for the contexts below as well.
THEOREM TrapInvariant == Spec => []TrapInv
<1>1. Init => TrapInv
  BY TrapsStart, Zenon DEF Init
<1>2. TrapInv /\ [Next]_vars => TrapInv'
  BY TrapInvStep
<1> QED BY <1>1, <1>2, PTL DEF Spec

-----------------------------------------------------------------------------
(***************************************************************************)
(* What follows from it.                                                   *)
(***************************************************************************)
\* Under the user's page table the context to return to is the user's.
LEMMA UpmlIsUser ==
  ASSUME EntryInv, Was.cr3 = "upml4"
  PROVE  Was.cpl = 3
<1>1. CASE frames = <<>>
  BY <1>1, FirstUserType, Zenon DEF Was, UserContext
<1>2. CASE frames # <<>>
  BY <1>2, WasKernel DEF EntryInv, KernelContext
<1> QED BY <1>1, <1>2

LEMMA MappedThere ==
  ASSUME TrapInv
  PROVE  EntryStaysMapped
<1>0. EntryInv /\ pc \in Pcs /\ TrapTypeOK
  BY DEF TrapInv, EntryInv, TrapTypeOK
<1>1. ASSUME cpu.cpl = 0, cpu.cr3 = "upml4"
      PROVE  /\ cpu.rip = "shared"
             /\ \/ cpu.rsp.map = "shared"
                \/ pc \in {"syscall_stack", "sysretq"}
                \/ pc = "entry" /\ sym = "do_syscall_64"
  <2>1. CASE pc = "user"
    BY <1>0, <1>1, <2>1 DEF EntryInv, PlaceInv, AtUser, UserContext
  <2>2. CASE pc = "entry"
    <3>1. AtEntry
      BY <1>0, <2>2 DEF EntryInv, PlaceInv
    <3>2. cpu.rip = "shared" /\ Was.cr3 = "upml4" /\ (AtSyscall \/ AtGate)
      BY <1>1, <3>1 DEF AtEntry, Stands
    <3>3. Was.cpl = 3
      BY <1>0, <3>2, UpmlIsUser
    <3> QED BY <2>2, <3>2, <3>3 DEF AtSyscall, AtGate
  <2>3. CASE pc = "error_entry"
    BY <1>0, <2>3, <1>1, UpmlIsUser, Zenon DEF EntryInv, PlaceInv, AtErrorEntry, Stands
  <2>4. CASE pc \in {"syscall_stack", "sysretq"}
    BY <1>0, <2>4 DEF EntryInv, PlaceInv, AtSyscallStack, AtSysretq, Stands
  <2>5. CASE pc \in {"switch_cr3", "switch_rip", "switch_rsp"}
    BY <1>0, <1>1, <2>5 DEF EntryInv, PlaceInv, AtSwitch, Stands
  <2>6. CASE pc \in {"call", "c", "dead", "error_exit", "syscall_exit"}
    BY <1>0, <1>1, <2>6 DEF EntryInv, PlaceInv, AtCall, AtC, AtExit, KernelContext
  <2>7. CASE pc \in {"retint_user", "back_rip", "back_cr3", "swapgs_out", "syscall_restore"}
    BY <1>0, <1>1, <2>7 DEF EntryInv, PlaceInv, AtBack, Stands
  <2>8. CASE pc \in {"retint_kernel", "iretq"}
    BY <1>0, <2>8, <1>1, UpmlIsUser, Zenon DEF EntryInv, PlaceInv, AtRetint, Stands
  <2> QED BY <1>0, <2>1, <2>2, <2>3, <2>4, <2>5, <2>6, <2>7, <2>8 DEF Pcs
<1>2. ASSUME pc \in {"syscall_stack", "switch_cr3", "back_cr3", "syscall_restore"} PROVE PerCpu
  BY <1>0, <1>2 DEF EntryInv, PlaceInv, AtSyscallStack, AtSwitch, AtBack, Stands, PerCpu
<1> QED BY <1>1, <1>2 DEF EntryStaysMapped

\* entry.S stays mapped, for every depth of nesting: SWITCH_TO_KERNEL and
\* SWITCH_TO_USER leave no step at which the code, the stack or the per-CPU
\* variables it uses are missing from the page table in use.
THEOREM EntryAlwaysMapped == Spec => []EntryStaysMapped
BY TrapInvariant, MappedThere, PTL

LEMMA ContextSeen ==
  ASSUME TrapInv
  PROVE  HandlerSeesContext
<1> SUFFICES ASSUME pc = "c", frames # <<>>, sym # "do_syscall_64"
             PROVE  LET was == Last(frames).cpu
                        arg == RspOf(cpu.regs["rdi"])
                        frame(n) == stacks[arg.stack][arg.at - n]
                    IN  /\ cpu.cr3 = "kpml4" /\ cpu.rip = "identity" /\ ~cpu.if
                        /\ cpu.gs \in IF boot \in {"syscall", "user", "done"} THEN {"shared"} ELSE {"identity"}
                        /\ \A r \in Regs : frame(OffsetOf(r)) = was.regs[r]
                        /\ frame(RIP) = <<Len(frames) - 1, "rip", was.rip>>
                        /\ frame(CS)[1] = was.cpl /\ frame(RSP) = RspWord(was.rsp)
                        /\ has_error_code(sym) => cpu.regs["rsi"] = Last(frames).event.error
                        /\ sym = "double_fault" /\ boot \notin {"traps", "ist"} => cpu.rsp.stack = "ist"
  BY DEF HandlerSeesContext
<1>0. EntryInv /\ TrapTypeOK /\ PlaceInv
  BY DEF TrapInv, EntryInv
<1>1. KernelContext(cpu, boot) /\ InTrap /\ Handles(stacks[cpu.rsp.stack], cpu, sym, Was, Of, Level)
  BY <1>0 DEF PlaceInv, AtC
<1>2. Last(frames).cpu = Was /\ Last(frames).event = Of /\ Level = Len(frames) - 1
  BY <1>0, FrontFacts DEF Was, Of, Level
<1>3. cpu.cr3 = "kpml4" /\ cpu.rip = "identity" /\ ~cpu.if
  BY <1>1, Zenon DEF KernelContext
<1>4. cpu.gs \in IF boot \in {"syscall", "user", "done"} THEN {"shared"} ELSE {"identity"}
  BY <1>1 DEF KernelContext, KernelGs
<1>5. sym = "double_fault" /\ boot \notin {"traps", "ist"} => cpu.rsp.stack = "ist"
  BY <1>1, Zenon DEF InTrap, Entered
<1>6. PICK F : F = cpu.rsp.at - 8
  OBVIOUS
<1>7. /\ Frame(stacks[cpu.rsp.stack], F, cpu.rsp.stack, Was, Level)
      /\ cpu.regs["rdi"] = <<F, cpu.rsp.stack, cpu.rsp.map>>
      /\ has_error_code(sym) => cpu.regs["rsi"] = Of.error
  BY <1>1, <1>6, Zenon DEF Handles
<1>8. F \in Int
  <2>1. cpu.rsp.at \in Nat
    BY <1>0, CpuParts, Zenon DEF TrapTypeOK
  <2> QED BY <1>6, <2>1
<1>9. RspOf(cpu.regs["rdi"]).stack = cpu.rsp.stack /\ RspOf(cpu.regs["rdi"]).at = F
  BY <1>7 DEF RspOf
<1>10. \A r \in Regs : stacks[cpu.rsp.stack][F - OffsetOf(r)] = Was.regs[r]
  BY <1>7, Zenon DEF Frame
<1>11. HardwareFrame(stacks[cpu.rsp.stack], F - RIP, cpu.rsp.stack, Was, Level)
  BY <1>7, Zenon DEF Frame
<1>12. F - RIP = F - 16 /\ F - 16 - 1 = F - CS /\ F - 16 - 3 = F - RSP
  BY <1>8 DEF RIP, CS, RSP
<1>13. /\ stacks[cpu.rsp.stack][F - RIP] = <<Level, "rip", Was.rip>>
       /\ stacks[cpu.rsp.stack][F - CS] = <<Was.cpl, "cs", "">>
       /\ stacks[cpu.rsp.stack][F - RSP] = RspWord(Was.rsp)
  BY <1>11, <1>12, Zenon DEF HardwareFrame
<1>14. stacks[cpu.rsp.stack][F - CS][1] = Was.cpl
  BY <1>13, WordElements, ZenonT(60)
<1> QED BY <1>2, <1>3, <1>4, <1>5, <1>7, <1>9, <1>10, <1>13, <1>14, Zenon

\* Every C handler sees the context it was called for, at every depth of
\* nesting, and a double fault runs on its own stack once ist_idts is in.
THEOREM HandlersAlwaysSeeContext == Spec => []HandlerSeesContext
BY TrapInvariant, ContextSeen, PTL

LEMMA Resumed ==
  ASSUME TrapInv
  PROVE  ReturnsResume
<1>0. EntryInv /\ TrapTypeOK /\ PlaceInv
  BY DEF TrapInv, EntryInv
<1>1. ASSUME frames # <<>> PROVE Last(frames).cpu = Was
  BY <1>0, <1>1, FrontFacts DEF Was
<1>2. ReturnResumes
  BY <1>0, <1>1, ReturnedIsWas, Zenon DEF ReturnResumes
<1>3. SyscallResumes
  <2> SUFFICES ASSUME pc = "sysretq"
               PROVE  SysretTo = [Last(frames).cpu EXCEPT !.regs = [r \in Regs |->
                        IF r \in {"rax", "rcx", "r11"} THEN cpu.regs[r] ELSE @[r]]]
    BY DEF SyscallResumes
  <2>1. AtSysretq /\ frames # <<>>
    BY <1>0 DEF PlaceInv, AtSysretq, InTrap
  <2>2. SysretTo = [Was EXCEPT !.regs = [r \in Regs |->
          IF r \in {"rax", "rcx", "r11"} THEN cpu.regs[r] ELSE @[r]]]
    BY <1>0, <2>1, SysretIsUser, Zenon
  <2>3. Last(frames).cpu = Was
    BY <1>1, <2>1, Zenon
  <2> QED BY <2>2, <2>3
<1> QED BY <1>2, <1>3 DEF ReturnsResume

\* iretq and sysretq lead back to the code that was left with all it had,
\* although cr3_scratch and rsp_scratch have one slot per CPU: a trap inside a
\* handler uses neither.
THEOREM ReturnsAlwaysResume == Spec => []ReturnsResume
BY TrapInvariant, Resumed, PTL

LEMMA Served ==
  ASSUME TrapInv
  PROVE  InterruptsAreServed
<1>0. GateInv /\ EntryInv /\ pc \in Pcs /\ PlaceInv /\ ServiceInv
  BY DEF TrapInv, EntryInv, TrapTypeOK
<1>1. GatesAreComplete
  <2> SUFFICES ASSUME boot \in {"msrs", "syscall", "user", "done"}
               PROVE  /\ \A v \in FIRST_EXTERNAL_VECTOR .. (NR_VECTORS - 1) : idt_table[v].present
                      /\ \A i \in DOMAIN apic_idts : idt_table[apic_idts[i][1]] = apic_idts[i][2]
                      /\ \A v \in 0 .. (FIRST_EXTERNAL_VECTOR - 1) :
                           idt_table[v].present <=> \E i \in DOMAIN def_idts : def_idts[i][1] = v
    BY DEF GatesAreComplete
  <2>1. \A v \in FIRST_EXTERNAL_VECTOR .. (NR_VECTORS - 1) : idt_table[v].present
    BY <1>0 DEF GateInv
  <2>2. Installed(apic_idts, 3)
    BY <1>0 DEF GateInv
  <2>3. DOMAIN apic_idts = 1 .. 3 /\ DOMAIN def_idts = 1 .. 16
    BY DEF apic_idts, def_idts
  <2>4. \A i \in DOMAIN apic_idts : idt_table[apic_idts[i][1]] = apic_idts[i][2]
    BY <2>2, <2>3, Zenon DEF Installed
  <2>5. /\ \A v \in ExceptionVectors : idt_table[v].present
        /\ \A v \in AllVectors : v < FIRST_EXTERNAL_VECTOR /\ idt_table[v].present => v \in ExceptionVectors
    BY <1>0 DEF GateInv
  <2>6. ASSUME NEW v \in 0 .. (FIRST_EXTERNAL_VECTOR - 1)
        PROVE  idt_table[v].present <=> \E i \in DOMAIN def_idts : def_idts[i][1] = v
    BY VectorFacts, <2>5, <2>3 DEF AllVectors, ExceptionVectors
  <2> QED BY <2>1, <2>4, <2>6
<1>2. NeverSpins
  BY <1>0 DEF NeverSpins, Pcs
<1>3. EoiBeforeReturn
  BY <1>0 DEF EoiBeforeReturn, PlaceInv, AtUser, ServiceInv
<1> QED BY <1>1, <1>2, <1>3 DEF InterruptsAreServed

\* Every interrupt is served, for every number of vectors and every width of
\* the bitmap's words: it finds a gate, is not caught in the endless loop of
\* entry.S, and is acknowledged before user code runs again.
THEOREM InterruptsAreAlwaysServed == Spec => []InterruptsAreServed
BY TrapInvariant, Served, PTL

-----------------------------------------------------------------------------
(***************************************************************************)
(* The text of a console, line by line.                                    *)
(***************************************************************************)
\* f[k] is what the first k of the lines put on the console, k up to n.
IsText(f, con, lines, n) ==
  f = [k \in 0 .. n |-> IF k = 0 THEN <<>> ELSE f[k - 1] \o Put(con, lines[k])]

TextTo(con, lines, n) == CHOOSE f : IsText(f, con, lines, n)

\* Text by its steps.
LEMMA TextIs ==
  ASSUME NEW con, NEW lines
  PROVE  Text(con, lines) = TextTo(con, lines, Len(lines))[Len(lines)]
BY Zenon DEF Text, TextTo, IsText

\* Its steps.
TextSteps(f, con, lines, n) ==
  f[0] = <<>> /\ \A k \in 1 .. n : f[k] = f[k - 1] \o Put(con, lines[k])

LEMMA TextStep ==
  ASSUME NEW con, NEW lines, NEW n \in Nat, NEW f, IsText(f, con, lines, n)
  PROVE  TextSteps(f, con, lines, n)
<1>1. \A k \in 0 .. n : f[k] = IF k = 0 THEN <<>> ELSE f[k - 1] \o Put(con, lines[k])
  BY Zenon DEF IsText
<1>2. 0 \in 0 .. n /\ \A k \in 1 .. n : k \in 0 .. n /\ k # 0
  OBVIOUS
<1> QED  BY <1>1, <1>2, Zenon DEF TextSteps

\* There is such a function for every number of lines.
LEMMA TextExists ==
  ASSUME NEW con, NEW lines, NEW n \in Nat
  PROVE  \E f : IsText(f, con, lines, n)
<1> DEFINE T == {k \in Nat : ~ \E f : IsText(f, con, lines, k)}
<1> SUFFICES ASSUME T # {} PROVE FALSE
  OBVIOUS
<1>1. PICK m \in T : \A y \in T : m <= y
  BY LeastNatural
<1>2. m \in Nat /\ ~ \E f : IsText(f, con, lines, m)
  OBVIOUS
<1>3. CASE m = 0
  <2> DEFINE g == [k \in 0 .. m |-> <<>>]
  <2>1. g = [k \in 0 .. m |-> IF k = 0 THEN <<>> ELSE g[k - 1] \o Put(con, lines[k])]
    <3>1. \A k \in 0 .. m : k = 0
      BY <1>3
    <3> QED  BY <3>1
  <2> HIDE DEF g
  <2>2. IsText(g, con, lines, m)
    BY <2>1, Zenon DEF IsText
  <2> QED  BY <1>2, <2>2
<1>4. CASE m # 0
  <2>1. PICK p \in Nat : m = p + 1
    BY <1>2, <1>4, m - 1 \in Nat
  <2>2. p \notin T
    BY <1>1, <2>1
  <2>3. PICK f : IsText(f, con, lines, p)
    BY <2>2
  <2> DEFINE g == [k \in 0 .. m |-> IF k = m THEN f[p] \o Put(con, lines[m]) ELSE f[k]]
  <2>4. ASSUME NEW k \in 0 .. m
        PROVE  g[k] = IF k = 0 THEN <<>> ELSE g[k - 1] \o Put(con, lines[k])
    <3>1. CASE k = m
      <4>1. m # 0 /\ m - 1 = p /\ p \in 0 .. m /\ p # m
        BY <1>2, <2>1
      <4>2. g[p] = f[p] /\ g[m] = f[p] \o Put(con, lines[m])
        BY <3>1, <4>1, Zenon
      <4> HIDE DEF g
      <4> QED  BY <3>1, <4>1, <4>2
    <3>2. CASE k # m
      <4>1. k \in 0 .. p /\ (k # 0 => k - 1 \in 0 .. m /\ k - 1 # m)
        BY <1>2, <2>1, <3>2
      <4>2. f[k] = IF k = 0 THEN <<>> ELSE f[k - 1] \o Put(con, lines[k])
        BY <2>3, <4>1, Zenon DEF IsText
      <4>3. g[k] = f[k] /\ (k # 0 => g[k - 1] = f[k - 1])
        BY <3>2, <4>1, Zenon
      <4> HIDE DEF g
      <4> QED  BY <4>2, <4>3, Zenon
    <3> QED  BY <3>1, <3>2
  <2>5. g = [k \in 0 .. m |-> g[k]]
    OBVIOUS
  <2> HIDE DEF g
  <2>6. IsText(g, con, lines, m)
    BY <2>4, <2>5, Zenon DEF IsText
  <2> QED  BY <1>2, <2>6
<1> QED  BY <1>3, <1>4

SameLines(l1, l2, n) == \A k \in 1 .. n : l1[k] = l2[k]

\* Two of them agree on the lines they share.
LEMMA TextUnique ==
  ASSUME NEW con, NEW l1, NEW l2, NEW n1 \in Nat, NEW n2 \in Nat, NEW n \in Nat, n <= n1, n <= n2,
         SameLines(l1, l2, n),
         NEW f, NEW g, IsText(f, con, l1, n1), IsText(g, con, l2, n2)
  PROVE  f[n] = g[n]
<1> DEFINE T == {k \in 0 .. n : f[k] # g[k]}
<1> SUFFICES ASSUME T # {} PROVE FALSE
  OBVIOUS
<1>1. T \in SUBSET Nat
  OBVIOUS
<1>2. PICK m \in T : \A y \in T : m <= y
  BY <1>1, LeastNatural
<1>3. m \in 0 .. n /\ f[m] # g[m] /\ m \in 0 .. n1 /\ m \in 0 .. n2
  OBVIOUS
<1> HIDE DEF T
<1>4. f[0] = <<>> /\ \A k \in 1 .. n1 : f[k] = f[k - 1] \o Put(con, l1[k])
  <2>1. TextSteps(f, con, l1, n1)
    BY TextStep
  <2> QED  BY <2>1, Zenon DEF TextSteps
<1>5. g[0] = <<>> /\ \A k \in 1 .. n2 : g[k] = g[k - 1] \o Put(con, l2[k])
  <2>1. TextSteps(g, con, l2, n2)
    BY TextStep
  <2> QED  BY <2>1, Zenon DEF TextSteps
<1>6. m # 0
  BY <1>3, <1>4, <1>5, Zenon
<1>7. m - 1 \in 0 .. n /\ m \in 1 .. n /\ m \in 1 .. n1 /\ m \in 1 .. n2 /\ ~(m <= m - 1)
  BY <1>3, <1>6
<1>8. f[m - 1] = g[m - 1]
  BY <1>2, <1>7 DEF T
<1>9. l1[m] = l2[m]
  BY <1>7 DEF SameLines
<1> QED  BY <1>3, <1>4, <1>5, <1>7, <1>8, <1>9, Zenon

\* No line, no text.
LEMMA TextOfNone ==
  ASSUME NEW con
  PROVE  Text(con, <<>>) = <<>>
<1>1. Len(<<>>) = 0
  OBVIOUS
<1>2. IsText(TextTo(con, <<>>, 0), con, <<>>, 0)
  BY TextExists, Zenon DEF TextTo
<1>3. TextTo(con, <<>>, 0)[0] = <<>>
  <2>1. TextSteps(TextTo(con, <<>>, 0), con, <<>>, 0)
    BY <1>2, TextStep
  <2> QED  BY <2>1, Zenon DEF TextSteps
<1> QED  BY <1>1, <1>3, TextIs

\* A line more.
LEMMA TextOfMore ==
  ASSUME NEW con, NEW S, NEW lines \in Seq(S), NEW e \in S
  PROVE  Text(con, Append(lines, e)) = Text(con, lines) \o Put(con, e)
<1>1. PICK n \in Nat : n = Len(lines)
  OBVIOUS
<1> DEFINE more == Append(lines, e)
           f == TextTo(con, lines, n)
           g == TextTo(con, more, n + 1)
<1>2. more \in Seq(S) /\ Len(more) = n + 1 /\ more[n + 1] = e /\ \A k \in 1 .. n : more[k] = lines[k]
  BY <1>1
<1>3. Text(con, lines) = f[n] /\ Text(con, more) = g[n + 1]
  BY <1>1, <1>2, TextIs, Zenon
<1>4. IsText(f, con, lines, n) /\ IsText(g, con, more, n + 1)
  <2>1. n + 1 \in Nat
    OBVIOUS
  <2>2. (\E x : IsText(x, con, lines, n)) /\ (\E x : IsText(x, con, more, n + 1))
    BY <2>1, TextExists
  <2> QED  BY <2>2, Zenon DEF TextTo
<1> HIDE DEF more, f, g
<1>5. n + 1 \in 0 .. n + 1 /\ n + 1 # 0 /\ n + 1 - 1 = n /\ n + 1 \in Nat /\ n <= n + 1 /\ n <= n
  OBVIOUS
<1>6. g[n + 1] = g[n] \o Put(con, e)
  <2>1. PICK q \in Nat : q = n + 1 /\ q - 1 = n /\ q \in 1 .. q
    BY <1>5
  <2>2. TextSteps(g, con, more, q)
    BY <1>4, <2>1, TextStep
  <2>3. g[q] = g[q - 1] \o Put(con, more[q])
    BY <2>1, <2>2, Zenon DEF TextSteps
  <2> QED  BY <1>2, <2>1, <2>3
<1>7. g[n] = f[n]
  <2>1. SameLines(more, lines, n)
    BY <1>2 DEF SameLines
  <2> QED  BY <1>4, <1>5, <2>1, TextUnique
<1> QED  BY <1>3, <1>6, <1>7 DEF more

-----------------------------------------------------------------------------
(***************************************************************************)
(* Sequences of characters.                                                *)
(***************************************************************************)
\* Characters, and what stands for the colors of the debug port.
Chars == STRING \cup {Newline, "t", StartColor, EndColor}

\* What printk is given, and what the line buffer holds: no NUL in it.
Texts == {text \in Seq(Chars) : \A k \in DOMAIN text : text[k] # Blank}

\* Joining keeps the kind.
LEMMA TextsJoin ==
  ASSUME NEW s \in Seq(Chars), NEW t \in Seq(Chars)
  PROVE  /\ s \o t \in Seq(Chars) /\ Len(s \o t) = Len(s) + Len(t)
         /\ \A i \in 1 .. Len(s) + Len(t) : (s \o t)[i] = IF i <= Len(s) THEN s[i] ELSE t[i - Len(s)]
OBVIOUS

\* Joining is associative, and nothing is nothing.
LEMMA TextsAssociate ==
  ASSUME NEW s \in Seq(Chars), NEW t \in Seq(Chars), NEW u \in Seq(Chars)
  PROVE  (s \o t) \o u = s \o (t \o u)
OBVIOUS

LEMMA TextsNothing ==
  ASSUME NEW s \in Seq(Chars)
  PROVE  s \o <<>> = s /\ <<>> \o s = s /\ <<>> \in Seq(Chars)
OBVIOUS

LEMMA TextsSame ==
  ASSUME NEW s \in Seq(Chars), NEW t \in Seq(Chars), Len(s) = Len(t), \A i \in 1 .. Len(s) : s[i] = t[i]
  PROVE  s = t
OBVIOUS

\* A character is taken off the front of what is left.
LEMMA NextCharacter ==
  ASSUME NEW b \in Seq(Chars), NEW i \in 1 .. Len(b)
  PROVE  <<b[i]>> \o SubSeq(b, i + 1, Len(b)) = SubSeq(b, i, Len(b))
OBVIOUS

\* One is put behind.
LEMMA OneMore ==
  ASSUME NEW s \in Seq(Chars), NEW c \in Chars
  PROVE  Append(s, c) = s \o <<c>>
OBVIOUS

LEMMA LastCharacter ==
  ASSUME NEW b \in Seq(Chars)
  PROVE  SubSeq(b, Len(b) + 1, Len(b)) = <<>> /\ SubSeq(b, 1, Len(b)) = b
OBVIOUS

\* A sequence over a larger set.
LEMMA SeqLarger ==
  ASSUME NEW A, NEW B, A \subseteq B, NEW s \in Seq(A)
  PROVE  s \in Seq(B)
<1>1. PICK n \in Nat : n = Len(s)
  OBVIOUS
<1>2. s = [i \in 1 .. n |-> s[i]] /\ \A i \in 1 .. n : s[i] \in B
  BY <1>1
<1>3. [i \in 1 .. n |-> s[i]] \in Seq(B)
  BY <1>2
<1> QED  BY <1>2, <1>3, Zenon

\* What a trap's handler adds, and what the callers give.
LEMMA TextsGiven == Trace \in Texts /\ Prefix \in Texts /\ Messages \subseteq Texts
<1>1. Newline \in Chars /\ "t" \in Chars
  BY DEF Chars
<1>2. "t" # Blank /\ Newline # Blank
  BY Zenon DEF Newline, Blank
<1>3. Trace = <<"t", Newline>>
  BY DEF Trace
<1>4. Trace \in Texts
  BY <1>1, <1>2, <1>3 DEF Texts
<1>5. ASSUME NEW text \in Messages \cup {Prefix} PROVE text \in Texts
  BY PrintkConstants, SeqLarger, Zenon DEF Blank, Chars, Texts
<1> QED  BY <1>4, <1>5

-----------------------------------------------------------------------------
(***************************************************************************)
(* The invariant of vprintk.                                               *)
(***************************************************************************)
ConsoleNames == {"uart", "vga", "porte9"}
LogEntries == [line : Seq(Chars), on : SUBSET ConsoleNames]

OutTypes ==
  /\ DOMAIN sent = ConsoleNames /\ \A con \in ConsoleNames : sent[con] \in Seq(Chars)
  /\ log \in Seq(LogEntries)
  /\ buf \in Seq(Chars)

\* Every console has put out every line.
AllOut == \A con \in ConsoleNames : sent[con] = Text(con, log)

ActFields == {"level", "text", "rest", "place", "len", "con", "i", "cur"}
DeviceLines == {"consoles", "porte9", "uart", "lsr", "vga"}
Places == {"spin_lock", "level", "prefix", "cont", "done"} \cup DeviceLines
Dying == <<<<"die">>>>
Rests == {<<>>, <<Trace, <<"die">>>>, Dying}

\* An activation of vprintk.
ActOk(t) ==
  /\ DOMAIN t = ActFields
  /\ t.level \in Int /\ t.text \in Texts /\ t.rest \in Rests /\ t.place \in Places
  /\ t.len \in Nat /\ t.con \in Nat /\ t.i \in Nat
  /\ (t.place \in {"spin_lock", "level", "prefix"} => t.len = 0)
  /\ (t.place \in {"spin_lock", "level", "prefix", "cont"} => t.con = 1)
  /\ (t.place = "cont" /\ t.level = LOGLEVEL_CONT => t.len = 0)
  /\ (t.place = "prefix" => t.level # LOGLEVEL_CONT)

LastLine == log[Len(log)]

\* The consoles before con have the line, the ones behind it do not, and con has a part of it.
OwedOk(t) ==
  /\ \A name \in ConsoleNames :
       (\A j \in DOMAIN console_drivers : console_drivers[j] = name => j < t.con) =>
         sent[name] = Text(name, log)
  /\ \A j \in DOMAIN console_drivers :
       (j > t.con \/ (j = t.con /\ t.place \in {"consoles", "porte9"})) =>
         sent[console_drivers[j]] \o Put(console_drivers[j], LastLine) = Text(console_drivers[j], log)
  /\ (t.place \in {"uart", "vga"} =>
         sent[t.place] \o SubSeq(buf, t.i, Len(buf)) = Text(t.place, log))
  /\ (t.place = "lsr" =>
         (IF uart.thr = Blank THEN sent["uart"] ELSE Append(sent["uart"], uart.thr))
           \o SubSeq(buf, t.i + 1, Len(buf)) = Text("uart", log))

\* Where a line is on its way to the consoles.
LineOk(t) ==
  /\ buf \in Texts /\ t.len = Len(buf)
  /\ log # <<>> /\ LastLine.line = buf
  /\ \A name \in ConsoleNames : name \in LastLine.on <=> \E j \in DOMAIN console_drivers : console_drivers[j] = name
  /\ t.con >= 1
  /\ (t.place # "consoles" =>
        /\ t.con \in DOMAIN console_drivers
        /\ console_drivers[t.con] = IF t.place = "lsr" THEN "uart" ELSE t.place)
  /\ (t.place \in {"uart", "vga"} => t.i \in 1 .. Len(buf) + 1)
  /\ (t.place = "lsr" => t.i \in 1 .. Len(buf) /\ uart.thr \in {Blank, buf[t.i]})
  /\ (t.place # "lsr" => uart.thr = Blank)
  /\ OwedOk(t)

\* What the activation that may hold the lock finds.
HolderOk(t) ==
  /\ (t.place \notin DeviceLines => AllOut /\ uart.thr = Blank)
  /\ (t.place = "cont" /\ t.level # LOGLEVEL_CONT => buf = Prefix /\ t.len = Len(Prefix))
  /\ (t.place \in DeviceLines => LineOk(t))

Holds(t) == (t.place = "spin_lock" \/ console_lock) /\ HolderOk(t)

\* One activation may hold the lock; another one waits for it.
PrintingInv ==
  \/ printing = <<>> /\ AllOut /\ uart.thr = Blank
  \/ \E t : printing = <<t>> /\ ActOk(t) /\ Holds(t)
  \/ \E t, u : /\ printing = <<t, u>> /\ ActOk(t) /\ ActOk(u)
               /\ \/ t.place = "spin_lock" /\ Holds(u)
                  \/ u.place = "spin_lock" /\ t.place # "spin_lock" /\ Holds(t)

\* Of tuples of one and two.
LEMMA LastOfFew ==
  ASSUME NEW t, NEW u, NEW x
  PROVE  /\ Last(<<t>>) = t /\ Last(<<t, u>>) = u
         /\ Append(Front(<<t>>), x) = <<x>> /\ Append(Front(<<t, u>>), x) = <<t, x>>
         /\ Front(<<t>>) = <<>> /\ Front(<<t, u>>) = <<t>>
<1>1. Last(<<t>>) = t /\ Last(<<t, u>>) = u
  BY DEF Last
<1>2. Front(<<t>>) = <<>>
  BY DEF Front
<1> DEFINE S == {t, u, x}
           two == <<t, u>>
           one == <<t>>
<1>3. two \in Seq(S) /\ Len(two) = 2 /\ two[1] = t
  OBVIOUS
<1>4. one \in Seq(S) /\ Len(one) = 1 /\ one[1] = t
  OBVIOUS
<1>5. Front(two) = one
  <2> DEFINE f == SubSeq(two, 1, 1)
  <2> HIDE DEF two, one
  <2>1. f \in Seq(S) /\ Len(f) = 1 /\ f[1] = two[1]
    BY <1>3
  <2>2. Front(two) = f
    BY <1>3 DEF Front
  <2> HIDE DEF f
  <2>3. \A i \in 1 .. Len(f) : f[i] = one[i]
    BY <1>3, <1>4, <2>1
  <2> QED  BY <1>4, <2>1, <2>2, <2>3, SeqEqual
<1>6. Append(one, x) = <<t, x>> /\ Append(<<>>, x) = <<x>>
  <2> DEFINE f == Append(one, x)
             g == <<t, x>>
             h == Append(<<>>, x)
             k == <<x>>
  <2>1. g \in Seq(S) /\ Len(g) = 2 /\ g[1] = t /\ g[2] = x
    OBVIOUS
  <2>2. k \in Seq(S) /\ Len(k) = 1 /\ k[1] = x
    OBVIOUS
  <2>a. x \in S
    OBVIOUS
  <2>b. h \in Seq(S) /\ Len(h) = 1 /\ h[1] = x
    OBVIOUS
  <2> HIDE DEF one, S
  <2>3. f \in Seq(S) /\ Len(f) = 2 /\ f[1] = one[1] /\ f[2] = x
    <3>1. /\ f \in Seq(S) /\ Len(f) = Len(one) + 1 /\ \A i \in 1 .. Len(one) : f[i] = one[i]
          /\ f[Len(one) + 1] = x
      BY <1>4, <2>a, AppendProperties, ZenonT(60)
    <3> HIDE DEF f
    <3>2. Len(one) + 1 = 2 /\ 1 \in 1 .. Len(one)
      BY <1>4
    <3> QED  BY <3>1, <3>2
  <2> HIDE DEF f, g, h, k
  <2>5. \A i \in 1 .. Len(f) : f[i] = g[i]
    BY <1>4, <2>1, <2>3
  <2>6. \A i \in 1 .. Len(h) : h[i] = k[i]
    BY <2>2, <2>b
  <2>7. f = g /\ h = k
    BY <2>1, <2>2, <2>3, <2>b, <2>5, <2>6, SeqEqual
  <2> QED  BY <2>7 DEF f, g, h, k
<1> QED  BY <1>1, <1>2, <1>5, <1>6 DEF one, two

\* The activation that runs has the lock, or may take it.
LEMMA TopIsHolder ==
  ASSUME PrintingInv, printing # <<>>, Top.place # "spin_lock" \/ ~console_lock
  PROVE  ActOk(Top) /\ Holds(Top)
<1>1. CASE \E t : printing = <<t>> /\ ActOk(t) /\ Holds(t)
  BY <1>1, LastOfFew, Zenon DEF Top
<1>2. CASE \E t, u : /\ printing = <<t, u>> /\ ActOk(t) /\ ActOk(u)
               /\ \/ t.place = "spin_lock" /\ Holds(u)
                  \/ u.place = "spin_lock" /\ t.place # "spin_lock" /\ Holds(t)
  <2>1. PICK t, u : /\ printing = <<t, u>> /\ ActOk(t) /\ ActOk(u)
               /\ \/ t.place = "spin_lock" /\ Holds(u)
                  \/ u.place = "spin_lock" /\ t.place # "spin_lock" /\ Holds(t)
    BY <1>2, Zenon
  <2>2. Top = u
    BY <2>1, LastOfFew, Zenon DEF Top
  <2>3. CASE t.place = "spin_lock" /\ Holds(u)
    BY <2>1, <2>2, <2>3, Zenon
  <2>4. CASE u.place = "spin_lock" /\ t.place # "spin_lock" /\ Holds(t)
    <3>1. console_lock
      BY <2>4, Zenon DEF Holds
    <3> QED  BY <2>2, <2>4, <3>1, Zenon
  <2> QED  BY <2>1, <2>3, <2>4, Zenon
<1> QED  BY <1>1, <1>2, Zenon DEF PrintingInv

\* It is then the one that counts.
LEMMA GotoKeeps ==
  ASSUME PrintingInv, printing # <<>>, Top.place # "spin_lock" \/ ~console_lock,
         NEW x, printing' = Append(Front(printing), x), ActOk(x), Holds(x)'
  PROVE  PrintingInv'
<1>1. CASE \E t : printing = <<t>> /\ ActOk(t) /\ Holds(t)
  <2>1. printing' = <<x>>
    BY <1>1, LastOfFew, Zenon
  <2> QED  BY <2>1, Zenon DEF PrintingInv
<1>2. CASE \E t, u : /\ printing = <<t, u>> /\ ActOk(t) /\ ActOk(u)
               /\ \/ t.place = "spin_lock" /\ Holds(u)
                  \/ u.place = "spin_lock" /\ t.place # "spin_lock" /\ Holds(t)
  <2>1. PICK t, u : /\ printing = <<t, u>> /\ ActOk(t) /\ ActOk(u)
               /\ \/ t.place = "spin_lock" /\ Holds(u)
                  \/ u.place = "spin_lock" /\ t.place # "spin_lock" /\ Holds(t)
    BY <1>2, Zenon
  <2>2. Top = u /\ printing' = <<t, x>>
    <3>1. /\ Last(<<t>>) = t /\ Last(<<t, u>>) = u
          /\ Append(Front(<<t>>), x) = <<x>> /\ Append(Front(<<t, u>>), x) = <<t, x>>
          /\ Front(<<t>>) = <<>> /\ Front(<<t, u>>) = <<t>>
      BY ONLY LastOfFew
    <3> QED  BY <2>1, <3>1, Zenon DEF Top
  <2>3. t.place = "spin_lock"
    BY <2>1, <2>2, Zenon DEF Holds
  <2> QED  BY <2>1, <2>2, <2>3, Zenon DEF PrintingInv
<1> QED  BY <1>1, <1>2, Zenon DEF PrintingInv

\* The registered consoles: none twice.
DriverFacts ==
  /\ Len(console_drivers) \in Nat /\ DOMAIN console_drivers = 1 .. Len(console_drivers)
  /\ \A j \in DOMAIN console_drivers : console_drivers[j] \in ConsoleNames
  /\ \A j, k \in DOMAIN console_drivers : console_drivers[j] = console_drivers[k] => j = k

\* What no instruction of vprintk changes.
KeepsLog == sent' = sent /\ log' = log /\ uart' = uart /\ console_drivers' = console_drivers

\* A change of place outside of the consoles.
LEMMA QuietPlace ==
  ASSUME NEW t, NEW x, HolderOk(t), t.place \notin DeviceLines, x.place \notin DeviceLines,
         KeepsLog, x.place = "cont" /\ x.level # LOGLEVEL_CONT => buf' = Prefix /\ x.len = Len(Prefix)
  PROVE  HolderOk(x)'
<1>1. AllOut /\ uart.thr = Blank
  BY Zenon DEF HolderOk
<1>2. AllOut' /\ uart'.thr = Blank
  BY <1>1, Zenon DEF AllOut, KeepsLog
<1> QED  BY <1>2, Zenon DEF HolderOk

LEMMA SpinLockStep ==
  ASSUME PrintingInv, OutTypes, spin_lock
  PROVE  PrintingInv' /\ OutTypes'
<1>1. /\ printing # <<>> /\ Top.place = "spin_lock" /\ ~console_lock /\ console_lock'
      /\ KeepsLog /\ buf' = buf
  BY Zenon DEF spin_lock, In, KeepSetup, KeepDevices, KeepsLog
<1>2. PICK x : x = [Top EXCEPT !.place = "level"] /\ printing' = Append(Front(printing), x)
  BY Zenon DEF spin_lock, Goto
<1>3. ActOk(Top) /\ Holds(Top)
  BY <1>1, TopIsHolder
<1>4. DOMAIN Top = ActFields
  BY <1>3 DEF ActOk
<1>5. /\ DOMAIN x = ActFields /\ x.place = "level" /\ x.level = Top.level /\ x.text = Top.text
      /\ x.rest = Top.rest /\ x.len = Top.len /\ x.con = Top.con /\ x.i = Top.i
  BY <1>2, <1>4 DEF ActFields
<1>6. ActOk(x)
  BY <1>1, <1>3, <1>5 DEF ActOk, Places
<1>7. HolderOk(x)'
  BY <1>1, <1>3, <1>5, QuietPlace DEF Holds, DeviceLines
<1>8. Holds(x)'
  BY <1>1, <1>7, Zenon DEF Holds
<1>9. PrintingInv'
  BY <1>1, <1>2, <1>6, <1>8, GotoKeeps, Zenon
<1> QED  BY <1>1, <1>9, Zenon DEF OutTypes, KeepsLog

LEMMA CheckLevelStep ==
  ASSUME PrintingInv, OutTypes, CheckLevel
  PROVE  PrintingInv' /\ OutTypes'
<1>1. /\ printing # <<>> /\ Top.place = "level" /\ console_lock' = console_lock
      /\ KeepsLog /\ buf' = buf
  BY Zenon DEF CheckLevel, In, KeepSetup, KeepDevices, KeepsLog
<1>2. PICK x, p : /\ x = [Top EXCEPT !.place = p] /\ printing' = Append(Front(printing), x)
                  /\ p = (IF (IF Top.level = LOGLEVEL_CONT THEN curlevel ELSE Top.level) > loglevel
                          THEN "done" ELSE IF Top.level = LOGLEVEL_CONT THEN "cont" ELSE "prefix")
  BY Zenon DEF CheckLevel, Goto
<1>3. ActOk(Top) /\ Holds(Top)
  BY <1>1, TopIsHolder
<1>4. DOMAIN Top = ActFields
  BY <1>3 DEF ActOk
<1>5. /\ DOMAIN x = ActFields /\ x.place = p /\ x.level = Top.level /\ x.text = Top.text
      /\ x.rest = Top.rest /\ x.len = Top.len /\ x.con = Top.con /\ x.i = Top.i
  BY <1>2, <1>4 DEF ActFields
<1>6. /\ p \in {"done", "cont", "prefix"} /\ (p = "cont" => x.level = LOGLEVEL_CONT)
      /\ (p = "prefix" => x.level # LOGLEVEL_CONT)
  BY <1>2, <1>5
<1>7. ActOk(x)
  BY <1>1, <1>3, <1>5, <1>6 DEF ActOk, Places
<1>8. HolderOk(x)'
  BY <1>1, <1>3, <1>5, <1>6, QuietPlace DEF Holds, DeviceLines
<1>9. Holds(x)'
  BY <1>1, <1>3, <1>8 DEF Holds
<1>10. PrintingInv'
  <2>1. Top.place # "spin_lock"
    BY <1>1
  <2> QED  BY <1>1, <1>2, <1>7, <1>9, <2>1, GotoKeeps, Zenon
<1> QED  BY <1>1, <1>10, Zenon DEF OutTypes, KeepsLog

\* What fits into the buffer.
LEMMA ScnFacts ==
  ASSUME NEW t \in Texts, NEW n \in Nat \ {0}
  PROVE  /\ Scn(t, n) \in Texts
         /\ Len(Scn(t, n)) = IF Len(t) < n THEN Len(t) ELSE n - 1
         /\ \A i \in 1 .. Len(Scn(t, n)) : Scn(t, n)[i] = t[i]
<1>1. t \in Seq(Chars) /\ \A k \in 1 .. Len(t) : t[k] # Blank
  BY DEF Texts
<1>2. PICK m \in Nat : m = IF Len(t) < n THEN Len(t) ELSE n - 1
  BY <1>1
<1>3. m <= Len(t)
  BY <1>1, <1>2
<1> DEFINE r == SubSeq(t, 1, m)
<1>4. r \in Seq(Chars) /\ Len(r) = m /\ \A i \in 1 .. m : r[i] = t[i]
  BY <1>1, <1>3
<1>5. Scn(t, n) = r
  BY <1>2 DEF Scn
<1> HIDE DEF r
<1>6. \A i \in 1 .. m : r[i] # Blank
  BY <1>1, <1>3, <1>4
<1>7. r \in Texts
  BY <1>4, <1>6 DEF Texts
<1> QED  BY <1>2, <1>4, <1>5, <1>7

\* The rest of the buffer behind a prefix.
LEMMA ScnJoins ==
  ASSUME NEW p \in Texts, NEW t \in Texts, NEW n \in Nat, Len(p) < n
  PROVE  p \o Scn(t, n - Len(p)) = Scn(p \o t, n) /\ p \o t \in Texts
<1>1. /\ p \in Seq(Chars) /\ t \in Seq(Chars) /\ \A k \in 1 .. Len(p) : p[k] # Blank
      /\ \A k \in 1 .. Len(t) : t[k] # Blank
  BY DEF Texts
<1>2. PICK lp \in Nat, lt \in Nat : lp = Len(p) /\ lt = Len(t)
  BY <1>1
<1> DEFINE j == p \o t
<1>3. /\ j \in Seq(Chars) /\ Len(j) = lp + lt
      /\ \A i \in 1 .. lp + lt : j[i] = IF i <= lp THEN p[i] ELSE t[i - lp]
  BY <1>1, <1>2, TextsJoin
<1> HIDE DEF j
<1>4. j \in Texts
  <2>1. ASSUME NEW i \in 1 .. lp + lt PROVE j[i] # Blank
    <3>1. CASE i <= lp
      BY <1>1, <1>2, <1>3, <3>1
    <3>2. CASE ~(i <= lp)
      <4>1. i - lp \in 1 .. lt
        BY <3>2
      <4> QED  BY <1>1, <1>2, <1>3, <3>2, <4>1
    <3> QED  BY <3>1, <3>2
  <2> QED  BY <1>3, <2>1 DEF Texts
<1>5. PICK r \in Nat \ {0} : r = n - lp
  BY <1>2
<1> DEFINE a == Scn(t, r)
           b == Scn(j, n)
<1>6. a \in Texts /\ Len(a) = (IF lt < r THEN lt ELSE r - 1) /\ \A i \in 1 .. Len(a) : a[i] = t[i]
  BY <1>2, ScnFacts
<1>7. b \in Texts /\ Len(b) = (IF lp + lt < n THEN lp + lt ELSE n - 1) /\ \A i \in 1 .. Len(b) : b[i] = j[i]
  BY <1>2, <1>3, <1>4, ScnFacts
<1> HIDE DEF a, b
<1>8. a \in Seq(Chars) /\ b \in Seq(Chars)
  BY <1>6, <1>7 DEF Texts
<1> DEFINE c == p \o a
<1>9. /\ c \in Seq(Chars) /\ Len(c) = lp + Len(a)
      /\ \A i \in 1 .. lp + Len(a) : c[i] = IF i <= lp THEN p[i] ELSE a[i - lp]
  BY <1>1, <1>2, <1>8, TextsJoin
<1> HIDE DEF c
<1>10. Len(c) = Len(b)
  BY <1>2, <1>5, <1>6, <1>7, <1>9
<1>11. ASSUME NEW i \in 1 .. Len(c) PROVE c[i] = b[i]
  <2>1. i \in 1 .. lp + lt /\ i \in 1 .. Len(b) /\ i \in 1 .. lp + Len(a)
    BY <1>6, <1>7, <1>9, <1>10
  <2>2. b[i] = IF i <= lp THEN p[i] ELSE t[i - lp]
    BY <1>3, <1>7, <2>1
  <2>3. CASE i <= lp
    BY <1>9, <2>1, <2>2, <2>3
  <2>4. CASE ~(i <= lp)
    <3>1. i - lp \in 1 .. Len(a)
      BY <1>6, <2>1, <2>4
    <3> QED  BY <1>6, <1>9, <2>1, <2>2, <2>4, <3>1
  <2> QED  BY <2>3, <2>4
<1>12. c = b
  BY <1>8, <1>9, <1>10, <1>11, TextsSame
<1> QED  BY <1>2, <1>4, <1>5, <1>12 DEF a, b, c, j

LEMMA PrefixStep ==
  ASSUME PrintingInv, OutTypes, pr_prefix
  PROVE  PrintingInv' /\ OutTypes'
<1>1. /\ printing # <<>> /\ Top.place = "prefix" /\ console_lock' = console_lock
      /\ KeepsLog /\ buf' = Scn(Prefix, LOG_LINE_MAX)
  BY Zenon DEF pr_prefix, In, KeepSetup, KeepDevices, KeepsLog
<1>2. PICK x : /\ x = [Top EXCEPT !.place = "cont", !.len = Len(buf')] /\ printing' = Append(Front(printing), x)
  BY Zenon DEF pr_prefix, Goto
<1>3. ActOk(Top) /\ Holds(Top)
  BY <1>1, TopIsHolder
<1>4. DOMAIN Top = ActFields
  BY <1>3 DEF ActOk
<1>5. buf' = Prefix /\ buf' \in Texts /\ Len(buf') = Len(Prefix) /\ Len(Prefix) \in Nat /\ Prefix \in Seq(Chars)
  <2>1. LOG_LINE_MAX \in Nat \ {0} /\ Len(Prefix) < LOG_LINE_MAX
    BY PrintkConstants
  <2>2. Prefix \in Texts /\ Prefix \in Seq(Chars)
    BY TextsGiven DEF Texts
  <2>3. SubSeq(Prefix, 1, Len(Prefix)) = Prefix
    BY <2>2, LastCharacter
  <2>4. Scn(Prefix, LOG_LINE_MAX) = SubSeq(Prefix, 1, Len(Prefix))
    BY <2>1 DEF Scn
  <2>5. buf' = Prefix /\ Len(Prefix) \in Nat
    BY <1>1, <2>2, <2>3, <2>4
  <2> QED  BY <2>2, <2>5, Zenon
<1>6. /\ DOMAIN x = ActFields /\ x.place = "cont" /\ x.level = Top.level /\ x.text = Top.text
      /\ x.rest = Top.rest /\ x.len = Len(Prefix) /\ x.con = Top.con /\ x.i = Top.i
  BY <1>2, <1>4, <1>5 DEF ActFields
<1>7. ActOk(x)
  BY <1>1, <1>3, <1>5, <1>6 DEF ActOk, Places
<1>8. HolderOk(x)'
  BY <1>1, <1>3, <1>6, <1>5, QuietPlace DEF Holds, DeviceLines
<1>9. Holds(x)'
  BY <1>1, <1>3, <1>8 DEF Holds
<1>10. PrintingInv'
  <2>1. Top.place # "spin_lock"
    BY <1>1
  <2> QED  BY <1>1, <1>2, <1>7, <1>9, <2>1, GotoKeeps, Zenon
<1> QED  BY <1>1, <1>5, <1>10, Zenon DEF OutTypes, KeepsLog

\* A name among the consoles.
Registered(name) == \E j \in DOMAIN console_drivers : console_drivers[j] = name

LEMMA FormatStep ==
  ASSUME PrintingInv, OutTypes, DriverFacts, FormatLine
  PROVE  PrintingInv' /\ OutTypes'
<1>1. /\ printing # <<>> /\ Top.place = "cont" /\ console_lock' = console_lock
      /\ sent' = sent /\ uart' = uart /\ console_drivers' = console_drivers
      /\ buf' = SubSeq(buf, 1, Top.len) \o Scn(Top.text, LOG_LINE_MAX - Top.len)
  BY Zenon DEF FormatLine, In, KeepSetup, KeepDevices
<1>2. PICK x : /\ x = [Top EXCEPT !.place = "consoles", !.len = Len(buf')] /\ printing' = Append(Front(printing), x)
  BY Zenon DEF FormatLine, Goto
<1>3. PICK added : /\ log' = Append(log, added)
                   /\ added = [line |-> Scn((IF Top.level = LOGLEVEL_CONT THEN <<>> ELSE Prefix) \o Top.text,
                                            LOG_LINE_MAX),
                               on |-> Range(console_drivers)]
  BY Zenon DEF FormatLine
<1>4. ActOk(Top) /\ Holds(Top)
  BY <1>1, TopIsHolder
<1>5. /\ DOMAIN Top = ActFields /\ Top.text \in Texts /\ Top.con = 1
      /\ (Top.level = LOGLEVEL_CONT => Top.len = 0)
  BY <1>1, <1>4 DEF ActOk
<1>6. /\ AllOut /\ uart.thr = Blank
      /\ (Top.level # LOGLEVEL_CONT => buf = Prefix /\ Top.len = Len(Prefix))
  BY <1>1, <1>4 DEF Holds, HolderOk, DeviceLines
<1>7. LOG_LINE_MAX \in Nat \ {0} /\ Len(Prefix) < LOG_LINE_MAX /\ Prefix \in Texts
  <2>1. LOG_LINE_MAX \in Nat \ {0} /\ Len(Prefix) < LOG_LINE_MAX
    BY PrintkConstants
  <2> QED  BY <2>1, TextsGiven, Zenon
<1>8. buf' = added.line /\ buf' \in Texts
  <2>a. PICK p : p = IF Top.level = LOGLEVEL_CONT THEN <<>> ELSE Prefix
    OBVIOUS
  <2>1. p \in Texts /\ Len(p) = Top.len /\ Len(p) < LOG_LINE_MAX /\ SubSeq(buf, 1, Top.len) = p
    <3>1. CASE Top.level = LOGLEVEL_CONT
      BY <1>5, <2>a, <3>1, <1>7 DEF Texts, OutTypes
    <3>2. CASE Top.level # LOGLEVEL_CONT
      BY <1>6, <2>a, <3>2, <1>7, LastCharacter DEF Texts
    <3> QED  BY <3>1, <3>2
  <2>2. p \o Scn(Top.text, LOG_LINE_MAX - Len(p)) = Scn(p \o Top.text, LOG_LINE_MAX) /\ p \o Top.text \in Texts
    <3>1. Top.text \in Texts /\ LOG_LINE_MAX \in Nat
      BY <1>5, <1>7
    <3>2. p \in Texts /\ Len(p) < LOG_LINE_MAX
      BY <2>1
    <3> QED  BY ONLY <3>1, <3>2, ScnJoins, SMTT(60)
  <2>3. buf' = Scn(p \o Top.text, LOG_LINE_MAX)
    BY <1>1, <2>1, <2>2
  <2>4. added.line = Scn(p \o Top.text, LOG_LINE_MAX)
    BY <1>3, <2>a
  <2>5. Scn(p \o Top.text, LOG_LINE_MAX) \in Texts
    BY <1>7, <2>2, ScnFacts
  <2> QED  BY <2>3, <2>4, <2>5
<1>9. buf' \in Seq(Chars) /\ Len(buf') \in Nat
  BY <1>8 DEF Texts
<1>10. \A name : name \in added.on <=> Registered(name)
  <2>1. added.on = Range(console_drivers)
    BY <1>3
  <2> QED  BY <2>1, Zenon DEF Range, Registered
<1>11. added \in LogEntries
  BY <1>10, <1>3, <1>8, <1>9 DEF DriverFacts, Registered, LogEntries
<1>12. log \in Seq(LogEntries)
  BY DEF OutTypes
<1>13. log' \in Seq(LogEntries) /\ log' # <<>> /\ LastLine' = added
  BY <1>11, <1>12, <1>3 DEF LastLine
<1>14. ASSUME NEW name \in ConsoleNames
       PROVE  /\ Text(name, log') = sent[name] \o Put(name, added)
              /\ ~Registered(name) => Text(name, log') = sent[name]
  <2>1. Text(name, log') = Text(name, log) \o Put(name, added)
    BY <1>3, <1>11, <1>12, TextOfMore, Zenon
  <2>2. Text(name, log) = sent[name]
    BY <1>6, Zenon DEF AllOut
  <2>3. ~Registered(name) => Put(name, added) = <<>>
    BY <1>10, Zenon DEF Put
  <2>4. sent[name] \o <<>> = sent[name]
    BY TextsNothing DEF OutTypes
  <2> QED  BY <2>1, <2>2, <2>3, <2>4
<1>15. /\ DOMAIN x = ActFields /\ x.place = "consoles" /\ x.level = Top.level /\ x.text = Top.text
       /\ x.rest = Top.rest /\ x.len = Len(buf') /\ x.con = 1 /\ x.i = Top.i
  BY <1>2, <1>5 DEF ActFields
<1>16. ActOk(x)
  BY <1>4, <1>9, <1>15 DEF ActOk, Places, DeviceLines
<1>17. LineOk(x)'
  <2>1. OwedOk(x)'
    <3>1. ASSUME NEW name \in ConsoleNames, \A j \in DOMAIN console_drivers : console_drivers[j] = name => j < 1
          PROVE  sent'[name] = Text(name, log')
      <4>1. ~Registered(name)
        BY <3>1 DEF Registered, DriverFacts
      <4> QED  BY <1>1, <1>14, <4>1
    <3>2. ASSUME NEW j \in DOMAIN console_drivers
          PROVE  sent'[console_drivers[j]] \o Put(console_drivers[j], added) = Text(console_drivers[j], log')
      <4>1. console_drivers[j] \in ConsoleNames
        BY DEF DriverFacts
      <4> QED  BY <1>1, <1>14, <4>1
    <3> QED  BY <1>1, <1>13, <1>15, <3>1, <3>2 DEF OwedOk
  <2>2. \A name \in ConsoleNames : name \in LastLine'.on <=> \E j \in DOMAIN console_drivers' : console_drivers'[j] = name
    BY <1>1, <1>10, <1>13 DEF Registered
  <2>3. buf' \in Texts /\ x.len = Len(buf') /\ log' # <<>> /\ LastLine'.line = buf'
    BY <1>8, <1>13, <1>15
  <2>4. x.con >= 1 /\ x.place = "consoles" /\ uart'.thr = Blank
    BY <1>1, <1>6, <1>15
  <2>5. x.place \notin {"uart", "vga"} /\ x.place # "lsr"
    BY <2>4
  <2> QED  BY <2>1, <2>2, <2>3, <2>4, <2>5, Zenon DEF LineOk
<1>18. Holds(x)'
  BY <1>1, <1>4, <1>15, <1>17 DEF Holds, HolderOk, DeviceLines
<1>19. PrintingInv'
  <2>1. Top.place # "spin_lock"
    BY <1>1
  <2> QED  BY <1>1, <1>2, <1>16, <1>18, <2>1, GotoKeeps, Zenon
<1> QED  BY <1>1, <1>9, <1>13, <1>19, Zenon DEF OutTypes

\* What Top finds when its line is on the way.
LEMMA OnTheWay ==
  ASSUME PrintingInv, printing # <<>>, Top.place \in DeviceLines
  PROVE  ActOk(Top) /\ console_lock /\ LineOk(Top) /\ Top.place # "spin_lock"
<1>1. Top.place # "spin_lock"
  BY DEF DeviceLines
<1>2. ActOk(Top) /\ Holds(Top)
  BY <1>1, TopIsHolder
<1> QED  BY <1>1, <1>2, Zenon DEF Holds, HolderOk

LEMMA NextConsoleStep ==
  ASSUME PrintingInv, OutTypes, DriverFacts, NextConsole
  PROVE  PrintingInv' /\ OutTypes'
<1>1. /\ printing # <<>> /\ Top.place = "consoles" /\ console_lock' = console_lock
      /\ KeepsLog /\ buf' = buf
  BY Zenon DEF NextConsole, In, KeepSetup, KeepDevices, KeepsLog
<1>2. PICK x, p, c : /\ x = [Top EXCEPT !.place = p, !.i = 1, !.cur = c]
                     /\ printing' = Append(Front(printing), x)
                     /\ p = IF Top.con > Len(console_drivers) THEN "done" ELSE console_drivers[Top.con]
  BY Zenon DEF NextConsole, Goto
<1>3. ActOk(Top) /\ console_lock /\ LineOk(Top)
  <2>1. Top.place \in DeviceLines
    BY <1>1 DEF DeviceLines
  <2> QED  BY <1>1, <2>1, OnTheWay, Zenon
<1>4. /\ DOMAIN Top = ActFields /\ Top.con \in Nat /\ Top.con >= 1 /\ Top.len = Len(buf) /\ buf \in Texts
      /\ uart.thr = Blank /\ OwedOk(Top)
  BY <1>1, <1>3 DEF ActOk, LineOk
<1>5. /\ DOMAIN x = ActFields /\ x.place = p /\ x.level = Top.level /\ x.text = Top.text
      /\ x.rest = Top.rest /\ x.len = Top.len /\ x.con = Top.con /\ x.i = 1
  BY <1>2, <1>4 DEF ActFields
<1>6. /\ \A name \in ConsoleNames :
           (\A j \in DOMAIN console_drivers : console_drivers[j] = name => j < Top.con) =>
             sent[name] = Text(name, log)
      /\ \A j \in DOMAIN console_drivers :
           (j > Top.con \/ (j = Top.con /\ Top.place \in {"consoles", "porte9"})) =>
             sent[console_drivers[j]] \o Put(console_drivers[j], LastLine) = Text(console_drivers[j], log)
  BY <1>4, Zenon DEF OwedOk
<1>7. CASE Top.con > Len(console_drivers)
  <2>1. p = "done"
    BY <1>2, <1>7
  <2>2. \A j \in DOMAIN console_drivers : j < Top.con
    BY <1>4, <1>7 DEF DriverFacts
  <2>3. AllOut
    BY <1>6, <2>2, Zenon DEF AllOut
  <2>4. AllOut' /\ uart'.thr = Blank
    BY <1>1, <1>4, <2>3, Zenon DEF AllOut, KeepsLog
  <2>5. p \in Places /\ p \notin {"spin_lock", "level", "prefix", "cont"} /\ p \notin DeviceLines
    BY <2>1 DEF Places, DeviceLines
  <2>6. ActOk(x)
    BY <1>3, <1>5, <2>5 DEF ActOk
  <2>7. HolderOk(x)'
    BY <1>5, <2>4, <2>5 DEF HolderOk
  <2>8. Holds(x)'
    BY <1>1, <1>3, <2>7, Zenon DEF Holds
  <2>9. Top.place # "spin_lock"
    BY <1>1
  <2> QED  BY <1>1, <1>2, <2>6, <2>8, <2>9, GotoKeeps, Zenon DEF OutTypes, KeepsLog
<1>8. CASE ~(Top.con > Len(console_drivers))
  <2>1. p = console_drivers[Top.con] /\ Top.con \in DOMAIN console_drivers
    BY <1>2, <1>4, <1>8 DEF DriverFacts
  <2>2. p \in ConsoleNames
    BY <2>1 DEF DriverFacts
  <2>3. p \in Places /\ p \notin {"spin_lock", "level", "prefix", "cont"} /\ p \in DeviceLines /\ p # "lsr" /\ p # "consoles"
    BY <2>2 DEF Places, DeviceLines, ConsoleNames
  <2>4. ActOk(x)
    BY <1>3, <1>5, <2>3 DEF ActOk
  <2>5. sent[p] \o Put(p, LastLine) = Text(p, log)
    <3>1. Top.place \in {"consoles", "porte9"}
      BY <1>1
    <3> QED  BY <1>6, <2>1, <3>1, Zenon
  <2>6. p \in {"uart", "vga"} => sent[p] \o SubSeq(buf, 1, Len(buf)) = Text(p, log)
    <3>1. p \in LastLine.on /\ LastLine.line = buf
      BY <1>3, <2>1, <2>2, Zenon DEF LineOk
    <3>2. ASSUME p \in {"uart", "vga"} PROVE p # "porte9"
      BY <3>2
    <3>3. p \in {"uart", "vga"} => Put(p, LastLine) = buf
      BY <3>1, <3>2, Zenon DEF Put
    <3>4. SubSeq(buf, 1, Len(buf)) = buf
      BY LastCharacter DEF OutTypes
    <3> QED  BY <2>5, <3>3, <3>4, Zenon
  <2>7. OwedOk(x)
    BY <1>5, <1>6, <2>1, <2>5, <2>3, <2>6 DEF OwedOk
  <2>8. LineOk(x)
    BY <1>3, <1>4, <1>5, <2>1, <2>3, <2>7 DEF LineOk, OutTypes
  <2>9. LineOk(x)'
    BY <1>1, <2>8, Zenon DEF LineOk, OwedOk, KeepsLog, LastLine
  <2>10. Holds(x)'
    <3>1. HolderOk(x)'
      BY <1>5, <2>3, <2>9 DEF HolderOk, DeviceLines
    <3> QED  BY <1>1, <1>3, <3>1, Zenon DEF Holds
  <2>11. Top.place # "spin_lock"
    BY <1>1
  <2> QED  BY <1>1, <1>2, <2>4, <2>10, <2>11, GotoKeeps, Zenon DEF OutTypes, KeepsLog
<1> QED  BY <1>7, <1>8

\* An instruction that has the line on its way still.
LEMMA LineGoesOn ==
  ASSUME PrintingInv, printing # <<>>, Top.place \in DeviceLines, console_lock' = console_lock,
         NEW x, printing' = Append(Front(printing), x), ActOk(x), LineOk(x)', x.place \in DeviceLines
  PROVE  PrintingInv'
<1>1. console_lock /\ Top.place # "spin_lock"
  BY OnTheWay, Zenon
<1>2. x.place # "cont"
  BY DEF DeviceLines
<1>3. HolderOk(x)'
  BY <1>2, Zenon DEF HolderOk
<1>4. Holds(x)'
  BY <1>1, <1>3, Zenon DEF Holds
<1> QED  BY <1>1, <1>4, GotoKeeps, Zenon

\* A console's write has returned.
LEMMA ConsoleDone ==
  ASSUME PrintingInv, OutTypes, DriverFacts, printing # <<>>, Top.place \in ConsoleNames,
         WriteDone, KeepPrintk, uart' = uart,
         sent'[Top.place] = Text(Top.place, log),
         \A other \in ConsoleNames : other # Top.place => sent'[other] = sent[other]
  PROVE  PrintingInv'
<1>1. /\ console_lock' = console_lock /\ buf' = buf /\ log' = log /\ console_drivers' = console_drivers
  BY Zenon DEF KeepPrintk, KeepSetup
<1>2. PICK x : x = [Top EXCEPT !.place = "consoles", !.con = @ + 1] /\ printing' = Append(Front(printing), x)
  BY Zenon DEF WriteDone, Goto
<1>3. Top.place \in DeviceLines /\ Top.place # "lsr" /\ Top.place # "consoles"
  BY DEF ConsoleNames, DeviceLines
<1>4. ActOk(Top) /\ LineOk(Top)
  BY <1>3, OnTheWay, Zenon
<1>5. /\ DOMAIN Top = ActFields /\ Top.con \in Nat /\ Top.con >= 1 /\ Top.len = Len(buf) /\ buf \in Texts
      /\ uart.thr = Blank /\ OwedOk(Top) /\ Top.con \in DOMAIN console_drivers
      /\ console_drivers[Top.con] = Top.place
  BY <1>3, <1>4 DEF ActOk, LineOk
<1>6. /\ DOMAIN x = ActFields /\ x.place = "consoles" /\ x.level = Top.level /\ x.text = Top.text
      /\ x.rest = Top.rest /\ x.len = Top.len /\ x.con = Top.con + 1 /\ x.i = Top.i
  BY <1>2, <1>5 DEF ActFields
<1>7. ActOk(x)
  BY <1>4, <1>5, <1>6 DEF ActOk, Places, DeviceLines
<1>8. ASSUME NEW name \in ConsoleNames, \A j \in DOMAIN console_drivers : console_drivers[j] = name => j < x.con
      PROVE  sent'[name] = Text(name, log)
  <2>1. CASE name = Top.place
    BY <2>1, Zenon
  <2>2. CASE name # Top.place
    <3>1. ASSUME NEW j \in DOMAIN console_drivers, console_drivers[j] = name PROVE j < Top.con
      <4>1. j # Top.con /\ j < Top.con + 1 /\ j \in Nat
        BY <1>5, <1>6, <1>8, <2>2, <3>1 DEF DriverFacts
      <4> QED  BY <1>5, <4>1
    <3>2. sent[name] = Text(name, log)
      BY <1>5, <3>1, Zenon DEF OwedOk
    <3> QED  BY <2>2, <3>2, Zenon
  <2> QED  BY <2>1, <2>2
<1>9. ASSUME NEW j \in DOMAIN console_drivers, j > Top.con
      PROVE  sent'[console_drivers[j]] \o Put(console_drivers[j], LastLine) = Text(console_drivers[j], log)
  <2>1. console_drivers[j] # Top.place /\ console_drivers[j] \in ConsoleNames
    BY <1>5, <1>9 DEF DriverFacts
  <2>2. sent[console_drivers[j]] \o Put(console_drivers[j], LastLine) = Text(console_drivers[j], log)
    BY <1>5, <1>9, Zenon DEF OwedOk
  <2> QED  BY <2>1, <2>2, Zenon
<1>10. \A j \in DOMAIN console_drivers : j > x.con \/ j = x.con => j > Top.con
  BY <1>5, <1>6 DEF DriverFacts
<1>11. OwedOk(x)'
  BY <1>1, <1>6, <1>9, <1>10, <1>8 DEF LastLine, OwedOk
<1>12. LineOk(x)'
  BY <1>4, <1>5, <1>6, <1>1, <1>11 DEF LineOk, LastLine
<1>13. x.place \in DeviceLines
  BY <1>6 DEF DeviceLines
<1> QED  BY <1>1, <1>2, <1>3, <1>7, <1>12, <1>13, LineGoesOn, Zenon

\* What is put out keeps its type.
LEMMA OutKept ==
  ASSUME OutTypes, KeepPrintk, NEW name \in ConsoleNames, NEW s \in Seq(Chars),
         sent' = [sent EXCEPT ![name] = s]
  PROVE  /\ OutTypes' /\ sent'[name] = s
         /\ \A other \in ConsoleNames : other # name => sent'[other] = sent[other]
<1>1. buf' = buf /\ log' = log
  BY Zenon DEF KeepPrintk, KeepSetup
<1>2. DOMAIN sent = ConsoleNames /\ \A con \in ConsoleNames : sent[con] \in Seq(Chars)
  BY Zenon DEF OutTypes
<1>3. /\ DOMAIN sent' = ConsoleNames /\ sent'[name] = s
      /\ \A other \in ConsoleNames : other # name => sent'[other] = sent[other]
  BY <1>2, Zenon
<1> QED  BY <1>1, <1>2, <1>3, Zenon DEF OutTypes

LEMMA Porte9Step ==
  ASSUME PrintingInv, OutTypes, DriverFacts, porte9_write
  PROVE  PrintingInv' /\ OutTypes'
<1>1. printing # <<>> /\ Top.place = "porte9" /\ WriteDone /\ KeepPrintk /\ uart' = uart
  BY Zenon DEF porte9_write, In
<1>2. Top.place \in ConsoleNames /\ Top.place \in DeviceLines
  BY <1>1 DEF ConsoleNames, DeviceLines
<1>3. ActOk(Top) /\ LineOk(Top)
  BY <1>1, <1>2, OnTheWay, Zenon
<1>4. /\ Top.len = Len(buf) /\ buf \in Seq(Chars) /\ OwedOk(Top) /\ Top.con \in DOMAIN console_drivers
      /\ console_drivers[Top.con] = "porte9" /\ LastLine.line = buf
  BY <1>1, <1>3 DEF LineOk, OutTypes
<1> DEFINE a == sent["porte9"]
           l == <<StartColor>>
           r == <<EndColor>>
<1>5. /\ sent' = [sent EXCEPT !["porte9"] = ((a \o l) \o SubSeq(buf, 1, Len(buf))) \o r]
  BY <1>4, Zenon DEF porte9_write
<1>6. a \in Seq(Chars) /\ l \in Seq(Chars) /\ r \in Seq(Chars)
  BY <1>1, <1>2 DEF Chars, OutTypes
<1>7. "porte9" \in LastLine.on
  BY <1>1, <1>2, <1>3, <1>4, Zenon DEF LineOk
<1>8. Put("porte9", LastLine) = (l \o buf) \o r
  BY <1>4, <1>7, Zenon DEF Put
<1>9. a \o Put("porte9", LastLine) = Text("porte9", log)
  BY <1>1, <1>4, Zenon DEF OwedOk
<1>10. SubSeq(buf, 1, Len(buf)) = buf
  BY <1>4, LastCharacter
<1> HIDE DEF a, l, r
<1>11. l \o buf \in Seq(Chars) /\ a \o l \in Seq(Chars) /\ (a \o l) \o buf \in Seq(Chars)
       /\ ((a \o l) \o buf) \o r \in Seq(Chars)
  BY <1>4, <1>6, TextsJoin
<1>12. ((a \o l) \o buf) \o r = a \o ((l \o buf) \o r)
  <2>1. (a \o l) \o buf = a \o (l \o buf)
    BY <1>4, <1>6, TextsAssociate
  <2>2. (a \o (l \o buf)) \o r = a \o ((l \o buf) \o r)
    BY <1>6, <1>11, TextsAssociate, SMTT(40)
  <2> QED  BY <2>1, <2>2
<1>13. PICK s \in Seq(Chars) : s = ((a \o l) \o buf) \o r
  BY <1>11
<1>14. sent' = [sent EXCEPT !["porte9"] = s] /\ s = Text("porte9", log)
  BY <1>5, <1>8, <1>9, <1>10, <1>12, <1>13, Zenon
<1>15. /\ OutTypes' /\ sent'[Top.place] = s
       /\ \A other \in ConsoleNames : other # Top.place => sent'[other] = sent[other]
  BY <1>1, <1>2, <1>14, OutKept, Zenon
<1> QED  BY <1>1, <1>2, <1>14, <1>15, ConsoleDone, Zenon

\* A device that writes character by character has written the last.
LEMMA LastWritten ==
  ASSUME PrintingInv, OutTypes, DriverFacts, printing # <<>>, Top.place \in {"uart", "vga"},
         LineDone, WriteDone, KeepPrintk, uart' = uart, sent' = sent
  PROVE  PrintingInv' /\ OutTypes'
<1>1. Top.place \in ConsoleNames /\ Top.place \in DeviceLines
  BY DEF ConsoleNames, DeviceLines
<1>2. ActOk(Top) /\ LineOk(Top)
  BY <1>1, OnTheWay, Zenon
<1>3. Top.len = Len(buf) /\ buf \in Seq(Chars) /\ OwedOk(Top) /\ Top.i \in 1 .. Len(buf) + 1
  BY <1>2 DEF LineOk, OutTypes
<1>4. Top.i = Len(buf) + 1
  BY <1>3 DEF LineDone
<1>5. SubSeq(buf, Top.i, Len(buf)) = <<>>
  BY <1>3, <1>4, LastCharacter
<1>6. sent[Top.place] \o <<>> = Text(Top.place, log)
  BY <1>3, <1>5, Zenon DEF OwedOk
<1>7. sent[Top.place] \o <<>> = sent[Top.place]
  BY <1>1, TextsNothing DEF OutTypes
<1>8. PrintingInv'
  BY <1>1, <1>6, <1>7, ConsoleDone, Zenon
<1> QED  BY <1>8, Zenon DEF OutTypes, KeepPrintk, KeepSetup

-----------------------------------------------------------------------------
(***************************************************************************)
(* The devices, character by character.                                    *)
(***************************************************************************)
\* The console an activation writes to.
Device(t) == IF t.place = "lsr" THEN "uart" ELSE t.place

\* What holds for the line of x at its device.
DevicePart(x) ==
  /\ (x.place \in {"uart", "vga"} => x.i \in 1 .. Len(buf) + 1)
  /\ (x.place = "lsr" => x.i \in 1 .. Len(buf) /\ uart.thr \in {Blank, buf[x.i]})
  /\ (x.place # "lsr" => uart.thr = Blank)
  /\ (x.place \in {"uart", "vga"} =>
         sent[x.place] \o SubSeq(buf, x.i, Len(buf)) = Text(x.place, log))
  /\ (x.place = "lsr" =>
         (IF uart.thr = Blank THEN sent["uart"] ELSE Append(sent["uart"], uart.thr))
           \o SubSeq(buf, x.i + 1, Len(buf)) = Text("uart", log))

\* A step of the device that has the line: the other consoles are not concerned.
LEMMA DeviceGoesOn ==
  ASSUME DriverFacts, NEW t, NEW x, LineOk(t), t.place \in {"uart", "lsr", "vga"},
         x.place \in {"uart", "lsr", "vga"}, Device(x) = Device(t), x.con = t.con, x.len = t.len,
         t.con \in Nat,
         buf' = buf, log' = log, console_drivers' = console_drivers,
         \A other \in ConsoleNames : other # Device(t) => sent'[other] = sent[other],
         DevicePart(x)'
  PROVE  LineOk(x)'
<1>1. /\ buf \in Texts /\ t.len = Len(buf) /\ log # <<>> /\ LastLine.line = buf /\ t.con >= 1 /\ OwedOk(t)
      /\ \A name \in ConsoleNames : name \in LastLine.on <=> \E j \in DOMAIN console_drivers : console_drivers[j] = name
  BY Zenon DEF LineOk
<1>2. t.place # "consoles" /\ x.place # "consoles" /\ x.place \notin {"consoles", "porte9"}
  OBVIOUS
<1>3. t.con \in DOMAIN console_drivers /\ console_drivers[t.con] = Device(t)
  BY <1>2, Zenon DEF LineOk, Device
<1>4. LastLine' = LastLine
  BY Zenon DEF LastLine
<1>5. ASSUME NEW name \in ConsoleNames, \A j \in DOMAIN console_drivers : console_drivers[j] = name => j < x.con
      PROVE  sent'[name] = Text(name, log)
  <2>1. name # Device(t)
    <3>1. ~(t.con < t.con)
      OBVIOUS
    <3> QED  BY <1>3, <1>5, <3>1, Zenon
  <2>2. sent[name] = Text(name, log)
    BY <1>1, <1>5, Zenon DEF OwedOk
  <2> QED  BY <2>1, <2>2, Zenon
<1>6. ASSUME NEW j \in DOMAIN console_drivers, j > x.con
      PROVE  sent'[console_drivers[j]] \o Put(console_drivers[j], LastLine) = Text(console_drivers[j], log)
  <2>1. j # t.con
    BY <1>6
  <2>2. console_drivers[j] # Device(t) /\ console_drivers[j] \in ConsoleNames
    BY <1>3, <2>1, Zenon DEF DriverFacts
  <2>3. sent[console_drivers[j]] \o Put(console_drivers[j], LastLine) = Text(console_drivers[j], log)
    BY <1>1, <1>6, Zenon DEF OwedOk
  <2> QED  BY <2>2, <2>3, Zenon
<1>7. OwedOk(x)'
  BY <1>2, <1>4, <1>5, <1>6, Zenon DEF OwedOk, DevicePart
<1>8. x.con \in DOMAIN console_drivers /\ console_drivers[x.con] = IF x.place = "lsr" THEN "uart" ELSE x.place
  <2>1. x.con \in DOMAIN console_drivers /\ console_drivers[x.con] = Device(x)
    BY <1>3
  <2> QED  BY <2>1, Zenon DEF Device
<1> QED  BY <1>1, <1>4, <1>7, <1>8, Zenon DEF LineOk, DevicePart

UartFields == {"there", "lcr", "ier", "fcr", "mcr", "dll", "dlm", "thr", "step"}

\* Only the data register of the port changes.
PortKept ==
  /\ DOMAIN uart' = UartFields
  /\ \A field \in UartFields \ {"thr"} : uart'[field] = uart[field]

\* The port as its driver leaves it.
PortReady ==
  /\ uart.there /\ uart.lcr = {"8n1"} /\ uart.ier \subseteq {"UUE"} /\ uart.dll = 6 /\ uart.dlm = 0
  /\ uart.step = 8

UartDriver ==
  /\ DOMAIN uart = UartFields
  /\ \A j \in DOMAIN console_drivers : console_drivers[j] = "uart" => PortReady

\* A character is written to the data register.
LEMMA DataWritten ==
  ASSUME UartDriver, PortReady, NEW c
  PROVE  uart8250_out(uart, "TX", c) = [uart EXCEPT !.thr = c]
<1>1. uart.there /\ "DLAB" \notin uart.lcr
  BY DEF PortReady
<1> QED  BY <1>1 DEF uart8250_out

\* The first half of uart8250_putc.
LEMMA PutStep ==
  ASSUME PrintingInv, OutTypes, DriverFacts, UartDriver,
         In("uart"), ~LineDone, uart' = uart8250_out(uart, "TX", buf[Top.i]),
         Goto([Top EXCEPT !.place = "lsr"]), KeepPrintk, sent' = sent
  PROVE  PrintingInv' /\ OutTypes' /\ PortKept
<1>1. /\ printing # <<>> /\ Top.place = "uart"
      /\ console_lock' = console_lock /\ buf' = buf /\ log' = log /\ console_drivers' = console_drivers
  BY Zenon DEF In, KeepPrintk, KeepSetup
<1>2. PICK x : x = [Top EXCEPT !.place = "lsr"] /\ printing' = Append(Front(printing), x)
  BY Zenon DEF Goto
<1>3. Top.place \in DeviceLines /\ Top.place # "lsr" /\ Top.place # "consoles"
  BY <1>1 DEF DeviceLines
<1>4. ActOk(Top) /\ LineOk(Top)
  BY <1>1, <1>3, OnTheWay, Zenon
<1>5. /\ DOMAIN Top = ActFields /\ Top.con \in Nat /\ Top.len = Len(buf) /\ buf \in Seq(Chars)
      /\ (\A k \in DOMAIN buf : buf[k] # Blank)
      /\ OwedOk(Top) /\ Top.con \in DOMAIN console_drivers /\ Top.i \in 1 .. Len(buf) + 1 /\ Top.i \in Nat
      /\ console_drivers[Top.con] = "uart"
  BY <1>1, <1>4 DEF ActOk, LineOk, Texts
<1>6. Top.i \in 1 .. Len(buf) /\ Top.i \in DOMAIN buf /\ buf[Top.i] # Blank /\ buf[Top.i] \in Chars
  BY <1>5 DEF LineDone
<1>7. PortReady
  BY <1>5, Zenon DEF UartDriver
<1>8. uart' = [uart EXCEPT !.thr = buf[Top.i]]
  BY <1>7, DataWritten, Zenon
<1>9. PortKept /\ uart'.thr = buf[Top.i]
  BY <1>8 DEF UartDriver, UartFields, PortKept
<1>10. /\ DOMAIN x = ActFields /\ x.place = "lsr" /\ x.level = Top.level /\ x.text = Top.text
       /\ x.rest = Top.rest /\ x.len = Top.len /\ x.con = Top.con /\ x.i = Top.i
  BY <1>2, <1>5 DEF ActFields
<1>11. ActOk(x)
  BY <1>4, <1>10 DEF ActOk, Places, DeviceLines
<1>12. Append(sent["uart"], buf[Top.i]) \o SubSeq(buf, Top.i + 1, Len(buf)) = Text("uart", log)
  <2>1. sent["uart"] \o SubSeq(buf, Top.i, Len(buf)) = Text("uart", log)
    <3>1. Top.place \in {"uart", "vga"}
      BY <1>1
    <3> QED  BY <1>1, <1>5, <3>1, Zenon DEF OwedOk
  <2>2. sent["uart"] \in Seq(Chars)
    BY DEF OutTypes, ConsoleNames
  <2>3. <<buf[Top.i]>> \o SubSeq(buf, Top.i + 1, Len(buf)) = SubSeq(buf, Top.i, Len(buf))
    BY <1>5, <1>6, NextCharacter
  <2>4. Append(sent["uart"], buf[Top.i]) = sent["uart"] \o <<buf[Top.i]>>
    BY <1>6, <2>2, OneMore
  <2>5. <<buf[Top.i]>> \in Seq(Chars) /\ SubSeq(buf, Top.i + 1, Len(buf)) \in Seq(Chars)
    BY <1>5, <1>6
  <2>6. (sent["uart"] \o <<buf[Top.i]>>) \o SubSeq(buf, Top.i + 1, Len(buf))
          = sent["uart"] \o (<<buf[Top.i]>> \o SubSeq(buf, Top.i + 1, Len(buf)))
    BY <2>2, <2>5, TextsAssociate
  <2> QED  BY <2>1, <2>3, <2>4, <2>6
<1>13. DevicePart(x)'
  <2>1. x.place \notin {"uart", "vga"} /\ x.place = "lsr"
    BY <1>10
  <2> QED  BY <1>1, <1>6, <1>9, <1>10, <1>12, <2>1, Zenon DEF DevicePart
<1>14. LineOk(x)'
  BY <1>1, <1>10, <1>4, <1>5, <1>13, DeviceGoesOn DEF Device
<1>15. x.place \in DeviceLines
  BY <1>10 DEF DeviceLines
<1>16. PrintingInv'
  BY <1>1, <1>2, <1>3, <1>11, <1>14, <1>15, LineGoesOn, Zenon
<1> QED  BY <1>1, <1>9, <1>16, Zenon DEF OutTypes

\* The second half: the transmitter is empty again.
LEMMA WaitStep ==
  ASSUME PrintingInv, OutTypes, DriverFacts,
         In("lsr"), uart.thr = Blank, Goto([Top EXCEPT !.place = "uart", !.i = @ + 1]),
         KeepPrintk, KeepDevices
  PROVE  PrintingInv' /\ OutTypes'
<1>1. /\ printing # <<>> /\ Top.place = "lsr" /\ uart' = uart /\ sent' = sent
      /\ console_lock' = console_lock /\ buf' = buf /\ log' = log /\ console_drivers' = console_drivers
  BY Zenon DEF In, KeepPrintk, KeepSetup, KeepDevices
<1>2. PICK x : x = [Top EXCEPT !.place = "uart", !.i = @ + 1] /\ printing' = Append(Front(printing), x)
  BY Zenon DEF Goto
<1>3. Top.place \in DeviceLines
  BY <1>1 DEF DeviceLines
<1>4. ActOk(Top) /\ LineOk(Top)
  BY <1>1, <1>3, OnTheWay, Zenon
<1>5. /\ DOMAIN Top = ActFields /\ Top.con \in Nat /\ Top.len = Len(buf) /\ buf \in Seq(Chars)
      /\ OwedOk(Top) /\ Top.i \in 1 .. Len(buf) /\ Top.i \in Nat
  BY <1>1, <1>4 DEF ActOk, LineOk, OutTypes
<1>6. sent["uart"] \o SubSeq(buf, Top.i + 1, Len(buf)) = Text("uart", log)
  BY <1>1, <1>5, Zenon DEF OwedOk
<1>7. /\ DOMAIN x = ActFields /\ x.place = "uart" /\ x.level = Top.level /\ x.text = Top.text
      /\ x.rest = Top.rest /\ x.len = Top.len /\ x.con = Top.con /\ x.i = Top.i + 1
  BY <1>2, <1>5 DEF ActFields
<1>8. ActOk(x)
  BY <1>4, <1>7 DEF ActOk, Places, DeviceLines
<1>9. DevicePart(x)'
  <2>1. x.place \in {"uart", "vga"} /\ x.place # "lsr"
    BY <1>7
  <2>2. x.i \in 1 .. Len(buf) + 1
    BY <1>5, <1>7
  <2>3. sent[x.place] \o SubSeq(buf, x.i, Len(buf)) = Text(x.place, log)
    BY <1>6, <1>7, Zenon
  <2> QED  BY <1>1, <2>1, <2>2, <2>3, Zenon DEF DevicePart
<1>10. LineOk(x)'
  BY <1>1, <1>7, <1>4, <1>5, <1>9, DeviceGoesOn DEF Device
<1>11. x.place \in DeviceLines
  BY <1>7 DEF DeviceLines
<1>12. PrintingInv'
  BY <1>1, <1>2, <1>3, <1>8, <1>10, <1>11, LineGoesOn, Zenon
<1> QED  BY <1>1, <1>12, Zenon DEF OutTypes

\* A character on the screen.
LEMMA ScreenStep ==
  ASSUME PrintingInv, OutTypes, DriverFacts, In("vga"), ~LineDone, NEW c,
         Goto([Top EXCEPT !.i = @ + 1, !.cur = c]),
         sent' = [sent EXCEPT !["vga"] = Append(@, buf[Top.i])], KeepPrintk, uart' = uart
  PROVE  PrintingInv' /\ OutTypes'
<1>1. /\ printing # <<>> /\ Top.place = "vga"
      /\ console_lock' = console_lock /\ buf' = buf /\ log' = log /\ console_drivers' = console_drivers
  BY Zenon DEF In, KeepPrintk, KeepSetup
<1>2. PICK x : x = [Top EXCEPT !.i = @ + 1, !.cur = c] /\ printing' = Append(Front(printing), x)
  BY Zenon DEF Goto
<1>3. Top.place \in DeviceLines /\ Top.place # "lsr" /\ Top.place # "consoles"
  BY <1>1 DEF DeviceLines
<1>4. ActOk(Top) /\ LineOk(Top)
  BY <1>1, <1>3, OnTheWay, Zenon
<1>5. /\ DOMAIN Top = ActFields /\ Top.con \in Nat /\ Top.len = Len(buf) /\ buf \in Seq(Chars)
      /\ OwedOk(Top) /\ Top.i \in 1 .. Len(buf) + 1 /\ Top.i \in Nat /\ uart.thr = Blank
  BY <1>1, <1>4 DEF ActOk, LineOk, OutTypes
<1>6. Top.i \in 1 .. Len(buf) /\ buf[Top.i] \in Chars
  BY <1>5 DEF LineDone
<1>7. /\ DOMAIN x = ActFields /\ x.place = "vga" /\ x.level = Top.level /\ x.text = Top.text
      /\ x.rest = Top.rest /\ x.len = Top.len /\ x.con = Top.con /\ x.i = Top.i + 1
  BY <1>1, <1>2, <1>5 DEF ActFields
<1>8. ActOk(x)
  BY <1>4, <1>7 DEF ActOk, Places, DeviceLines
<1>9. sent["vga"] \in Seq(Chars) /\ "vga" \in ConsoleNames
  BY DEF OutTypes, ConsoleNames
<1>10. PICK s \in Seq(Chars) : s = Append(sent["vga"], buf[Top.i])
  <2>1. Append(sent["vga"], buf[Top.i]) \in Seq(Chars)
    BY <1>6, <1>9
  <2> QED  BY <2>1, Zenon
<1>11. s \o SubSeq(buf, Top.i + 1, Len(buf)) = Text("vga", log)
  <2>1. sent["vga"] \o SubSeq(buf, Top.i, Len(buf)) = Text("vga", log)
    <3>1. Top.place \in {"uart", "vga"}
      BY <1>1
    <3> QED  BY <1>1, <1>5, <3>1, Zenon DEF OwedOk
  <2>3. <<buf[Top.i]>> \o SubSeq(buf, Top.i + 1, Len(buf)) = SubSeq(buf, Top.i, Len(buf))
    BY <1>5, <1>6, NextCharacter
  <2>4. Append(sent["vga"], buf[Top.i]) = sent["vga"] \o <<buf[Top.i]>>
    BY <1>6, <1>9, OneMore
  <2>5. <<buf[Top.i]>> \in Seq(Chars) /\ SubSeq(buf, Top.i + 1, Len(buf)) \in Seq(Chars)
    BY <1>5, <1>6
  <2>6. (sent["vga"] \o <<buf[Top.i]>>) \o SubSeq(buf, Top.i + 1, Len(buf))
          = sent["vga"] \o (<<buf[Top.i]>> \o SubSeq(buf, Top.i + 1, Len(buf)))
    BY <1>9, <2>5, TextsAssociate
  <2> QED  BY <1>10, <2>1, <2>3, <2>4, <2>6
<1>12. /\ OutTypes' /\ sent'["vga"] = s
       /\ \A other \in ConsoleNames : other # "vga" => sent'[other] = sent[other]
  <2>1. sent' = [sent EXCEPT !["vga"] = s]
    BY <1>10, Zenon
  <2> QED  BY <1>9, <2>1, OutKept, Zenon
<1>13. DevicePart(x)'
  <2>1. x.place \in {"uart", "vga"} /\ x.place # "lsr"
    BY <1>7
  <2>2. x.i \in 1 .. Len(buf) + 1
    BY <1>5, <1>6, <1>7
  <2>3. sent'[x.place] \o SubSeq(buf, x.i, Len(buf)) = Text(x.place, log)
    BY <1>7, <1>11, <1>12, Zenon
  <2> QED  BY <1>1, <1>5, <2>1, <2>2, <2>3, Zenon DEF DevicePart
<1>14. LineOk(x)'
  <2>1. Device(Top) = "vga" /\ Device(x) = "vga" /\ Top.place \in {"uart", "lsr", "vga"} /\ x.place \in {"uart", "lsr", "vga"}
    BY <1>1, <1>7 DEF Device
  <2> QED  BY <1>1, <1>4, <1>5, <1>7, <1>12, <1>13, <2>1, DeviceGoesOn, Zenon
<1>15. x.place \in DeviceLines
  BY <1>7 DEF DeviceLines
<1>16. PrintingInv'
  BY <1>1, <1>2, <1>3, <1>8, <1>14, <1>15, LineGoesOn, Zenon
<1> QED  BY <1>12, <1>16

\* The transmitter works while the driver waits for it, and only then.
LEMMA TransmitStep ==
  ASSUME PrintingInv, OutTypes, DriverFacts, DOMAIN uart = UartFields, Transmit
  PROVE  PrintingInv' /\ OutTypes' /\ PortKept
<1>1. /\ uart.thr # Blank /\ printing' = printing /\ KeepPrintk
      /\ console_lock' = console_lock /\ buf' = buf /\ log' = log /\ console_drivers' = console_drivers
      /\ uart' = [uart EXCEPT !.thr = Blank]
      /\ sent' = [sent EXCEPT !["uart"] = Append(sent["uart"], uart.thr)]
  BY Zenon DEF Transmit, KeepPrintk, KeepSetup
<1>2. PortKept /\ uart'.thr = Blank
  BY <1>1 DEF UartFields, PortKept
<1>3. ~AllOut \/ uart.thr # Blank
  BY <1>1
<1>4. ASSUME NEW t, Holds(t), ActOk(t)
      PROVE  /\ Holds(t)' /\ OutTypes' /\ t.place # "spin_lock"
  <2>1. HolderOk(t)
    BY <1>4, Zenon DEF Holds
  <2>2. t.place = "lsr" /\ LineOk(t) /\ OwedOk(t)
    BY <1>1, <2>1, Zenon DEF HolderOk, LineOk
  <2>3. /\ buf \in Seq(Chars) /\ t.i \in 1 .. Len(buf) /\ uart.thr = buf[t.i] /\ t.con \in Nat
    BY <1>1, <1>4, <2>2 DEF LineOk, Texts, ActOk
  <2>4. sent["uart"] \in Seq(Chars) /\ uart.thr \in Chars /\ "uart" \in ConsoleNames
    BY <2>3 DEF OutTypes, ConsoleNames
  <2>5. PICK s \in Seq(Chars) : s = Append(sent["uart"], uart.thr)
    <3>1. Append(sent["uart"], uart.thr) \in Seq(Chars)
      BY <2>4
    <3> QED  BY <3>1, Zenon
  <2>6. s \o SubSeq(buf, t.i + 1, Len(buf)) = Text("uart", log)
    BY <1>1, <2>2, <2>5, Zenon DEF OwedOk
  <2>7. /\ OutTypes' /\ sent'["uart"] = s
        /\ \A other \in ConsoleNames : other # "uart" => sent'[other] = sent[other]
    <3>1. sent' = [sent EXCEPT !["uart"] = s]
      BY <1>1, <2>5, Zenon
    <3> QED  BY <1>1, <2>4, <3>1, OutKept, Zenon
  <2>8. DevicePart(t)'
    <3>1. t.place \notin {"uart", "vga"}
      BY <2>2
    <3> QED  BY <1>1, <1>2, <2>2, <2>3, <2>6, <2>7, <3>1, Zenon DEF DevicePart
  <2>9. LineOk(t)'
    <3>1. Device(t) = "uart" /\ t.place \in {"uart", "lsr", "vga"}
      BY <2>2 DEF Device
    <3> QED  BY <1>1, <2>2, <2>3, <2>7, <2>8, <3>1, DeviceGoesOn, Zenon
  <2>10. t.place \in DeviceLines /\ t.place # "cont" /\ t.place # "spin_lock"
    BY <2>2 DEF DeviceLines
  <2>11. HolderOk(t)'
    BY <2>9, <2>10, Zenon DEF HolderOk
  <2> QED  BY <1>1, <1>4, <2>7, <2>10, <2>11, Zenon DEF Holds
<1>5. CASE \E t : printing = <<t>> /\ ActOk(t) /\ Holds(t)
  BY <1>1, <1>2, <1>4, <1>5, Zenon DEF PrintingInv
<1>6. CASE \E t, u : /\ printing = <<t, u>> /\ ActOk(t) /\ ActOk(u)
               /\ \/ t.place = "spin_lock" /\ Holds(u)
                  \/ u.place = "spin_lock" /\ t.place # "spin_lock" /\ Holds(t)
  BY <1>1, <1>2, <1>4, <1>6, Zenon DEF PrintingInv
<1> QED  BY <1>1, <1>5, <1>6, Zenon DEF PrintingInv

-----------------------------------------------------------------------------
(***************************************************************************)
(* The callers.                                                            *)
(***************************************************************************)
\* A call that waits for the lock.
LEMMA NewCall ==
  ASSUME NEW level \in Int, NEW text \in Texts, NEW rest \in Rests
  PROVE  ActOk(Activation(level, text, rest)) /\ Activation(level, text, rest).place = "spin_lock"
<1>1. PICK t : t = Activation(level, text, rest)
  OBVIOUS
<1>2. /\ DOMAIN t = ActFields /\ t.level = level /\ t.text = text /\ t.rest = rest /\ t.place = "spin_lock"
      /\ t.len = 0 /\ t.con = 1 /\ t.i = 0
  BY <1>1 DEF Activation, ActFields
<1>3. ActOk(t)
  BY <1>2 DEF ActOk, Places
<1> QED  BY <1>1, <1>2, <1>3

LEMMA UnlockStep ==
  ASSUME PrintingInv, OutTypes, spin_unlock
  PROVE  PrintingInv' /\ OutTypes'
<1>1. printing # <<>> /\ Top.place = "done" /\ KeepsLog /\ buf' = buf
  BY Zenon DEF spin_unlock, In, KeepSetup, KeepDevices, KeepsLog
<1>2. Top.place # "spin_lock" /\ Top.place \notin DeviceLines
  BY <1>1 DEF DeviceLines
<1>3. ActOk(Top) /\ Holds(Top)
  BY <1>1, <1>2, TopIsHolder, Zenon
<1>4. AllOut /\ uart.thr = Blank
  BY <1>2, <1>3, Zenon DEF Holds, HolderOk
<1>5. AllOut' /\ uart'.thr = Blank
  BY <1>1, <1>4, Zenon DEF AllOut, KeepsLog
<1>6. OutTypes'
  BY <1>1, Zenon DEF OutTypes, KeepsLog
<1>7. Top.rest \in Rests
  BY <1>3, Zenon DEF ActOk
<1>8. CASE Top.rest = <<>> \/ Top.rest = <<<<"die">>>>
  <2>1. printing' = Front(printing)
    BY <1>8, Zenon DEF spin_unlock
  <2>2. CASE \E t : printing = <<t>> /\ ActOk(t) /\ Holds(t)
    <3>1. printing' = <<>>
      BY <2>1, <2>2, LastOfFew, Zenon
    <3> QED  BY <1>5, <1>6, <3>1, Zenon DEF PrintingInv
  <2>3. CASE \E t, u : /\ printing = <<t, u>> /\ ActOk(t) /\ ActOk(u)
               /\ \/ t.place = "spin_lock" /\ Holds(u)
                  \/ u.place = "spin_lock" /\ t.place # "spin_lock" /\ Holds(t)
    <3>1. PICK t, u : /\ printing = <<t, u>> /\ ActOk(t) /\ ActOk(u)
               /\ \/ t.place = "spin_lock" /\ Holds(u)
                  \/ u.place = "spin_lock" /\ t.place # "spin_lock" /\ Holds(t)
      BY <2>3, Zenon
    <3>2. Last(<<t, u>>) = u /\ Front(<<t, u>>) = <<t>>
      BY ONLY LastOfFew
    <3>3. Top = u /\ printing' = <<t>>
      BY <2>1, <3>1, <3>2, Zenon DEF Top
    <3>4. t.place = "spin_lock"
      BY <1>2, <3>1, <3>3, Zenon
    <3>5. Holds(t)'
      <4>1. t.place \notin DeviceLines /\ t.place # "cont"
        BY <3>4 DEF DeviceLines
      <4> QED  BY <1>5, <3>4, <4>1, Zenon DEF Holds, HolderOk
    <3> QED  BY <1>6, <3>1, <3>3, <3>5, Zenon DEF PrintingInv
  <2> QED  BY <1>1, <2>2, <2>3, Zenon DEF PrintingInv
<1>9. CASE ~(Top.rest = <<>> \/ Top.rest = <<<<"die">>>>)
  <2>1. Top.rest = <<Trace, <<"die">>>>
    BY <1>7, <1>9, Zenon DEF Rests, Dying
  <2>2. Head(Top.rest) = Trace /\ Tail(Top.rest) = Dying
    BY <2>1 DEF Dying
  <2>3. PICK x : x = Activation(LOGLEVEL_INFO, Trace, Dying)
    OBVIOUS
  <2>4. printing' = Append(Front(printing), x)
    BY <1>9, <2>2, <2>3, Zenon DEF spin_unlock
  <2>5. ActOk(x) /\ x.place = "spin_lock"
    <3>1. LOGLEVEL_INFO \in Int /\ Trace \in Texts /\ Dying \in Rests
      BY TextsGiven DEF LOGLEVEL_INFO, Rests
    <3> QED  BY <2>3, <3>1, NewCall
  <2>6. Holds(x)'
    <3>1. x.place \notin DeviceLines /\ x.place # "cont"
      BY <2>5 DEF DeviceLines
    <3> QED  BY <1>5, <2>5, <3>1, Zenon DEF Holds, HolderOk
  <2> QED  BY <1>1, <1>2, <1>6, <2>4, <2>5, <2>6, GotoKeeps, Zenon
<1> QED  BY <1>8, <1>9

\* A call where none was: printk and panic.
LEMMA FirstCall ==
  ASSUME PrintingInv, OutTypes, printing = <<>>, KeepsLog, buf' = buf,
         NEW x, printing' = <<x>>, ActOk(x), x.place = "spin_lock"
  PROVE  PrintingInv' /\ OutTypes'
<1>1. \A t, u : <<t>> # <<>> /\ <<t, u>> # <<>>
  OBVIOUS
<1>2. AllOut /\ uart.thr = Blank
  BY <1>1, Zenon DEF PrintingInv
<1>3. AllOut' /\ uart'.thr = Blank
  BY <1>2, Zenon DEF AllOut, KeepsLog
<1>4. Holds(x)'
  <2>1. x.place \notin DeviceLines /\ x.place # "cont"
    BY DEF DeviceLines
  <2> QED  BY <1>3, <2>1, Zenon DEF Holds, HolderOk
<1> QED  BY <1>4, Zenon DEF PrintingInv, OutTypes, KeepsLog

\* A call that interrupts another one: do_trap.
LEMMA SecondCall ==
  ASSUME PrintingInv, OutTypes, Len(printing) = 1, KeepsLog, buf' = buf, console_lock' = console_lock,
         NEW x, printing' = Append(printing, x), ActOk(x), x.place = "spin_lock"
  PROVE  PrintingInv' /\ OutTypes'
<1>1. \A t, u : Len(<<t, u>>) # 1
  OBVIOUS
<1>2. Len(<<>>) # 1
  OBVIOUS
<1>3. PICK t : printing = <<t>> /\ ActOk(t) /\ Holds(t)
  BY <1>1, <1>2, Zenon DEF PrintingInv
<1>4. printing' = <<t, x>>
  <2>1. PICK u : u = x
    OBVIOUS
  <2>2. /\ Last(<<t>>) = t /\ Last(<<t, u>>) = u
        /\ Append(Front(<<t>>), x) = <<x>> /\ Append(Front(<<t, u>>), x) = <<t, x>>
        /\ Front(<<t>>) = <<>> /\ Front(<<t, u>>) = <<t>>
    BY ONLY LastOfFew
  <2> QED  BY <1>3, <2>2, Zenon
<1>5. OutTypes'
  BY Zenon DEF OutTypes, KeepsLog
<1>6. CASE t.place = "spin_lock"
  <2>1. t.place \notin DeviceLines
    BY <1>6 DEF DeviceLines
  <2>2. AllOut /\ uart.thr = Blank
    BY <1>3, <2>1, Zenon DEF Holds, HolderOk
  <2>3. AllOut' /\ uart'.thr = Blank
    BY <2>2, Zenon DEF AllOut, KeepsLog
  <2>4. x.place \notin DeviceLines /\ x.place # "cont"
    BY DEF DeviceLines
  <2>5. Holds(x)'
    BY <2>3, <2>4, Zenon DEF Holds, HolderOk
  <2> QED  BY <1>3, <1>4, <1>5, <1>6, <2>5, Zenon DEF PrintingInv
<1>7. CASE t.place # "spin_lock"
  <2>1. Holds(t)'
    BY <1>3, Zenon DEF Holds, HolderOk, AllOut, LineOk, OwedOk, LastLine, KeepsLog
  <2> QED  BY <1>3, <1>4, <1>5, <1>7, <2>1, Zenon DEF PrintingInv
<1> QED  BY <1>6, <1>7

LEMMA CallersStep ==
  ASSUME PrintingInv, OutTypes, Callers
  PROVE  PrintingInv' /\ OutTypes' /\ KeepsLog /\ starting' = starting
<1>1. PICK text \in Messages :
         \/ \E level \in {LOGLEVEL_INFO, LOGLEVEL_DEBUG, LOGLEVEL_CONT} : printk(level, text)
         \/ panic(text)
         \/ do_trap(text)
  BY Zenon DEF Callers
<1>2. text \in Texts
  BY TextsGiven
<1>3. LOGLEVEL_EMERG \in Int /\ LOGLEVEL_ERR \in Int /\ {LOGLEVEL_INFO, LOGLEVEL_DEBUG, LOGLEVEL_CONT} \subseteq Int
  BY DEF LOGLEVEL_EMERG, LOGLEVEL_ERR, LOGLEVEL_INFO, LOGLEVEL_DEBUG, LOGLEVEL_CONT
<1>4. <<>> \in Rests /\ <<Trace, <<"die">>>> \in Rests
  BY DEF Rests
<1>5. ASSUME NEW level \in {LOGLEVEL_INFO, LOGLEVEL_DEBUG, LOGLEVEL_CONT}, printk(level, text)
      PROVE  PrintingInv' /\ OutTypes' /\ KeepsLog /\ starting' = starting
  <2>1. /\ printing = <<>> /\ printing' = <<Activation(level, text, <<>>)>> /\ KeepsLog /\ buf' = buf
        /\ starting' = starting
    BY <1>5, Zenon DEF printk, KeepDevices, KeepsLog
  <2>2. ActOk(Activation(level, text, <<>>)) /\ Activation(level, text, <<>>).place = "spin_lock"
    BY <1>2, <1>3, <1>4, NewCall
  <2> QED  BY <2>1, <2>2, FirstCall, Zenon
<1>6. CASE panic(text)
  <2>1. /\ printing = <<>> /\ printing' = <<Activation(LOGLEVEL_EMERG, text, <<Trace, <<"die">>>>)>>
        /\ KeepsLog /\ buf' = buf /\ starting' = starting
    BY <1>6, Zenon DEF panic, KeepDevices, KeepsLog
  <2>2. /\ ActOk(Activation(LOGLEVEL_EMERG, text, <<Trace, <<"die">>>>))
        /\ Activation(LOGLEVEL_EMERG, text, <<Trace, <<"die">>>>).place = "spin_lock"
    BY <1>2, <1>3, <1>4, NewCall
  <2> QED  BY <2>1, <2>2, FirstCall, Zenon
<1>7. CASE do_trap(text)
  <2>1. /\ Len(printing) = 1 /\ printing' = Append(printing, Activation(LOGLEVEL_ERR, text, <<Trace, <<"die">>>>))
        /\ KeepsLog /\ buf' = buf /\ console_lock' = console_lock /\ starting' = starting
    BY <1>7, Zenon DEF do_trap, KeepDevices, KeepsLog
  <2>2. /\ ActOk(Activation(LOGLEVEL_ERR, text, <<Trace, <<"die">>>>))
        /\ Activation(LOGLEVEL_ERR, text, <<Trace, <<"die">>>>).place = "spin_lock"
    BY <1>2, <1>3, <1>4, NewCall
  <2> QED  BY <2>1, <2>2, SecondCall, Zenon
<1> QED  BY <1>1, <1>5, <1>6, <1>7, Zenon

-----------------------------------------------------------------------------
(***************************************************************************)
(* The drivers.                                                            *)
(***************************************************************************)
\* The port on its way through init_port.
PortPhase(u) ==
  /\ DOMAIN u = UartFields /\ u.step \in 0 .. 8
  /\ u.there =>
       /\ (u.step \in 1 .. 4 \cup {8} => u.lcr = {"8n1"})
       /\ (u.step \in 5 .. 7 => u.lcr = {"8n1", "DLAB"})
       /\ (u.step >= 2 => u.ier \subseteq {"UUE"})
       /\ (u.step >= 6 => u.dll = 6)
       /\ (u.step >= 7 => u.dlm = 0)

\* How far main() has come: what it has to start, what it has registered.
Progress(s, d) ==
  \/ s = <<"porte9", "vga">> /\ d = <<>>
  \/ s = <<"uart", "vga">> /\ d = <<>>
  \/ s = <<"vga">> /\ d \in {<<>>, <<"porte9">>, <<"uart">>}
  \/ s = <<>> /\ d \in {<<"vga">>, <<"porte9", "vga">>, <<"uart", "vga">>}

SetupInv ==
  /\ DOMAIN uart = UartFields
  /\ (starting # <<>> => printing = <<>>)
  /\ Progress(starting, console_drivers)
  /\ (starting = <<"uart", "vga">> => PortPhase(uart))
  /\ (console_drivers \in {<<"uart">>, <<"uart", "vga">>} => PortReady)

\* Of tuples of one and two, again.
LEMMA TailOfFew ==
  ASSUME NEW t, NEW u, NEW x
  PROVE  /\ Head(<<t>>) = t /\ Head(<<t, u>>) = t /\ Tail(<<t>>) = <<>> /\ Tail(<<t, u>>) = <<u>>
         /\ Append(<<>>, x) = <<x>> /\ Append(<<t>>, x) = <<t, x>> /\ <<t>> # <<>> /\ <<t, u>> # <<>>
<1>1. Head(<<t>>) = t /\ Head(<<t, u>>) = t /\ <<t>> # <<>> /\ <<t, u>> # <<>>
  OBVIOUS
<1>2. Tail(<<t>>) = <<>>
  OBVIOUS
<1>3. Tail(<<t, u>>) = <<u>>
  OBVIOUS
<1>4. /\ Append(Front(<<t>>), x) = <<x>> /\ Append(Front(<<t, u>>), x) = <<t, x>>
      /\ Front(<<t>>) = <<>> /\ Front(<<t, u>>) = <<t>>
  BY ONLY LastOfFew
<1> QED  BY ONLY <1>1, <1>2, <1>3, <1>4, Zenon

\* No console is registered twice, and the serial port only when it is ready.
LEMMA SetupFacts ==
  ASSUME SetupInv
  PROVE  DriverFacts /\ UartDriver
<1>1. DOMAIN uart = UartFields
  BY Zenon DEF SetupInv
<1>2. Progress(starting, console_drivers)
  BY Zenon DEF SetupInv
<1>3. CASE console_drivers = <<>>
  BY <1>1, <1>3 DEF DriverFacts, UartDriver
<1>4. ASSUME NEW a \in ConsoleNames, console_drivers = <<a>>, a = "uart" => PortReady
      PROVE  DriverFacts /\ UartDriver
  BY <1>1, <1>4 DEF DriverFacts, UartDriver
<1>5. ASSUME NEW a \in ConsoleNames, console_drivers = <<a, "vga">>, a # "vga", a = "uart" => PortReady
      PROVE  DriverFacts /\ UartDriver
  BY <1>5, <1>1 DEF ConsoleNames, DriverFacts, UartDriver
<1>6. \/ console_drivers = <<>> \/ console_drivers = <<"vga">> \/ console_drivers = <<"porte9">>
      \/ console_drivers = <<"porte9", "vga">>
      \/ console_drivers = <<"uart">> /\ PortReady
      \/ console_drivers = <<"uart", "vga">> /\ PortReady
  BY <1>2, Zenon DEF Progress, SetupInv
<1>7. /\ "vga" \in ConsoleNames /\ "porte9" \in ConsoleNames /\ "uart" \in ConsoleNames
      /\ "vga" # "uart" /\ "porte9" # "uart" /\ "porte9" # "vga"
  BY DEF ConsoleNames
<1> QED  BY <1>3, <1>4, <1>5, <1>6, <1>7, Zenon

\* A step of init_port.
LEMMA PortStep ==
  ASSUME NEW u, NEW x, PortPhase(u), u.step < 8, x = [init_port(u) EXCEPT !.step = @ + 1]
  PROVE  PortPhase(x) /\ x.thr = u.thr
<1>1. DOMAIN u = UartFields /\ u.step \in 0 .. 7
  BY DEF PortPhase
<1>2. CASE ~u.there
  <2>1. init_port(u) = u
    BY <1>1, <1>2 DEF init_port, uart8250_out
  <2>2. /\ DOMAIN x = UartFields /\ x.step = u.step + 1 /\ x.there = u.there /\ x.thr = u.thr
    BY <1>1, <2>1 DEF UartFields
  <2> QED  BY <1>1, <1>2, <2>2 DEF PortPhase
<1>3. CASE u.there
  <2>1. /\ (u.step \in 1 .. 4 => u.lcr = {"8n1"})
        /\ (u.step \in 5 .. 7 => u.lcr = {"8n1", "DLAB"})
        /\ (u.step >= 2 => u.ier \subseteq {"UUE"})
        /\ (u.step >= 6 => u.dll = 6)
        /\ (u.step >= 7 => u.dlm = 0)
    BY <1>1, <1>3 DEF PortPhase
  <2>2. PICK y : y = init_port(u)
    OBVIOUS
  <2> DEFINE Stepped ==
        /\ DOMAIN y = UartFields /\ y.step = u.step /\ y.there = u.there /\ y.thr = u.thr
        /\ (u.step \in 0 .. 3 \cup {7} => y.lcr = {"8n1"})
        /\ (u.step \in 4 .. 6 => y.lcr = {"8n1", "DLAB"})
        /\ (u.step >= 1 => y.ier \subseteq {"UUE"})
        /\ (u.step >= 5 => y.dll = 6)
        /\ (u.step >= 6 => y.dlm = 0)
  <2>3. Stepped
    <3>1. CASE u.step = 0
      <4>1. y = [u EXCEPT !.lcr = {"8n1"}]
        BY <1>3, <2>2, <3>1 DEF init_port, uart8250_out
      <4> QED  BY <1>1, <2>1, <3>1, <4>1 DEF UartFields
    <3>2. CASE u.step = 1
      <4>1. y = [u EXCEPT !.ier = u.ier \cap {"UUE"}]
        BY <1>3, <2>1, <2>2, <3>2 DEF init_port, uart8250_out
      <4> QED  BY <1>1, <2>1, <3>2, <4>1 DEF UartFields
    <3>3. CASE u.step = 2
      <4>1. y = [u EXCEPT !.fcr = 0]
        BY <1>3, <2>2, <3>3 DEF init_port, uart8250_out
      <4> QED  BY <1>1, <2>1, <3>3, <4>1 DEF UartFields
    <3>4. CASE u.step = 3
      <4>1. y = [u EXCEPT !.mcr = 3]
        BY <1>3, <2>2, <3>4 DEF init_port, uart8250_out
      <4> QED  BY <1>1, <2>1, <3>4, <4>1 DEF UartFields
    <3>5. CASE u.step = 4
      <4>1. y = [u EXCEPT !.lcr = u.lcr \cup {"DLAB"}]
        BY <1>3, <2>2, <3>5 DEF init_port, uart8250_out
      <4>2. u.lcr \cup {"DLAB"} = {"8n1", "DLAB"}
        BY <2>1, <3>5
      <4> QED  BY <1>1, <2>1, <3>5, <4>1, <4>2 DEF UartFields
    <3>6. CASE u.step = 5
      <4>1. (UART_CLK \div UART_BAUD) % 256 = 6
        BY DEF UART_CLK, UART_BAUD
      <4>2. y = [u EXCEPT !.dll = 6]
        BY <1>3, <2>1, <2>2, <3>6, <4>1 DEF init_port, uart8250_out
      <4> QED  BY <1>1, <2>1, <3>6, <4>2 DEF UartFields
    <3>7. CASE u.step = 6
      <4>1. (UART_CLK \div UART_BAUD) \div 256 = 0
        BY DEF UART_CLK, UART_BAUD
      <4>2. y = [u EXCEPT !.dlm = 0]
        BY <1>3, <2>1, <2>2, <3>7, <4>1 DEF init_port, uart8250_out
      <4> QED  BY <1>1, <2>1, <3>7, <4>2 DEF UartFields
    <3>8. CASE u.step = 7
      <4>1. y = [u EXCEPT !.lcr = u.lcr \ {"DLAB"}]
        BY <1>3, <2>2, <3>8 DEF init_port, uart8250_out
      <4>2. u.lcr \ {"DLAB"} = {"8n1"}
        BY <2>1, <3>8
      <4> QED  BY <1>1, <2>1, <3>8, <4>1, <4>2 DEF UartFields
    <3> QED  BY <1>1, <3>1, <3>2, <3>3, <3>4, <3>5, <3>6, <3>7, <3>8
  <2>4. /\ DOMAIN x = UartFields /\ x.step = u.step + 1 /\ x.there = y.there /\ x.thr = y.thr /\ x.lcr = y.lcr
        /\ x.ier = y.ier /\ x.dll = y.dll /\ x.dlm = y.dlm
    BY <2>2, <2>3 DEF UartFields
  <2> QED  BY <1>1, <2>3, <2>4 DEF PortPhase
<1> QED  BY <1>2, <1>3

\* While drivers start nothing is printed.
LEMMA QuietSetup ==
  ASSUME PrintingInv, OutTypes, starting # <<>>, SetupInv, KeepLine, uart'.thr = uart.thr
  PROVE  PrintingInv' /\ OutTypes' /\ printing' = <<>>
<1>1. printing = <<>>
  BY Zenon DEF SetupInv
<1>2. \A t, u : <<t>> # <<>> /\ <<t, u>> # <<>>
  OBVIOUS
<1>3. AllOut /\ uart.thr = Blank
  BY <1>1, <1>2, Zenon DEF PrintingInv
<1>4. sent' = sent /\ log' = log /\ printing' = <<>> /\ buf' = buf
  BY <1>1, Zenon DEF KeepLine
<1> QED  BY <1>3, <1>4, Zenon DEF PrintingInv, OutTypes, AllOut

LEMMA DriversStep ==
  ASSUME PrintingInv, OutTypes, SetupInv, Drivers
  PROVE  PrintingInv' /\ OutTypes' /\ SetupInv'
<1>1. DOMAIN uart = UartFields /\ Progress(starting, console_drivers)
  BY Zenon DEF SetupInv
<1>2. \A t, u, x : /\ Head(<<t>>) = t /\ Head(<<t, u>>) = t /\ Tail(<<t>>) = <<>> /\ Tail(<<t, u>>) = <<u>>
                   /\ Append(<<>>, x) = <<x>> /\ Append(<<t>>, x) = <<t, x>> /\ <<t>> # <<>> /\ <<t, u>> # <<>>
  BY ONLY TailOfFew, Zenon
<1>3. /\ "vga" # "porte9" /\ "vga" # "uart" /\ "porte9" # "uart"
      /\ <<"vga">> # <<"uart">> /\ <<"vga">> # <<"uart", "vga">> /\ <<"porte9">> # <<"uart">>
      /\ <<"porte9">> # <<"uart", "vga">> /\ <<"porte9", "vga">> # <<"uart", "vga">>
      /\ <<"porte9", "vga">> # <<"uart">>
  OBVIOUS
<1>4. CASE vgacon_init
  <2>1. /\ starting # <<>> /\ Head(starting) = "vga" /\ KeepLine /\ uart' = uart
        /\ starting' = Tail(starting) /\ console_drivers' = Append(console_drivers, "vga")
    BY <1>4, Zenon DEF vgacon_init, Starting, register_console
  <2>2. starting = <<"vga">> /\ console_drivers \in {<<>>, <<"porte9">>, <<"uart">>}
    BY <1>1, <1>2, <1>3, <2>1, Zenon DEF Progress
  <2>3. /\ starting' = <<>>
        /\ \/ console_drivers' = <<"vga">> \/ console_drivers' = <<"porte9", "vga">>
           \/ console_drivers' = <<"uart", "vga">> /\ console_drivers = <<"uart">>
    <3>1. Tail(<<"vga">>) = <<>> /\ Append(<<>>, "vga") = <<"vga">>
      BY <1>2, Zenon
    <3>2. Append(<<"porte9">>, "vga") = <<"porte9", "vga">> /\ Append(<<"uart">>, "vga") = <<"uart", "vga">>
      BY <1>2, Zenon
    <3> QED  BY <2>1, <2>2, <3>1, <3>2, Zenon
  <2>4. PrintingInv' /\ OutTypes' /\ printing' = <<>>
    BY <2>1, QuietSetup, Zenon
  <2>5. Progress(starting, console_drivers)'
    BY <2>3, Zenon DEF Progress
  <2>6. console_drivers' \in {<<"uart">>, <<"uart", "vga">>} => PortReady'
    BY <1>3, <2>1, <2>3, Zenon DEF SetupInv, PortReady
  <2> QED  BY <1>1, <1>2, <2>1, <2>3, <2>4, <2>5, <2>6, Zenon DEF SetupInv
<1>5. CASE porte9_init
  <2>1. /\ starting # <<>> /\ Head(starting) = "porte9" /\ KeepLine /\ uart' = uart
        /\ starting' = Tail(starting) /\ console_drivers' = Append(console_drivers, "porte9")
    BY <1>5, Zenon DEF porte9_init, Starting, register_console
  <2>2. starting = <<"porte9", "vga">> /\ console_drivers = <<>>
    BY <1>1, <1>2, <1>3, <2>1, Zenon DEF Progress
  <2>3. starting' = <<"vga">> /\ console_drivers' = <<"porte9">>
    BY <1>2, <2>1, <2>2, Zenon
  <2>4. PrintingInv' /\ OutTypes' /\ printing' = <<>>
    BY <2>1, QuietSetup, Zenon
  <2>5. Progress(starting, console_drivers)'
    BY <2>3, Zenon DEF Progress
  <2> QED  BY <1>1, <1>3, <2>1, <2>3, <2>4, <2>5, Zenon DEF SetupInv
<1>6. CASE uart8250_init
  <2>1. starting # <<>> /\ Head(starting) = "uart" /\ KeepLine
    BY <1>6, Zenon DEF uart8250_init, Starting
  <2>2. starting = <<"uart", "vga">> /\ console_drivers = <<>>
    BY <1>1, <1>2, <1>3, <2>1, Zenon DEF Progress
  <2>3. PortPhase(uart)
    BY <2>2, Zenon DEF SetupInv
  <2>4. CASE uart.step < 8
    <3>1. uart.step # 8
      BY <2>4
    <3>2. uart' = [init_port(uart) EXCEPT !.step = @ + 1] /\ starting' = starting /\ console_drivers' = console_drivers
      BY <1>6, <3>1, Zenon DEF uart8250_init
    <3>3. PICK x : x = [init_port(uart) EXCEPT !.step = @ + 1]
      OBVIOUS
    <3>4. PortPhase(x) /\ x.thr = uart.thr /\ uart' = x
      BY <2>3, <2>4, <3>2, <3>3, PortStep
    <3>5. PrintingInv' /\ OutTypes' /\ printing' = <<>>
      BY <2>1, <3>4, QuietSetup, Zenon
    <3>6. \A a, b : <<>> # <<a>> /\ <<>> # <<a, b>>
      OBVIOUS
    <3>7. DOMAIN uart' = UartFields /\ PortPhase(uart')
      BY <3>4, Zenon DEF PortPhase
    <3>8. console_drivers' \notin {<<"uart">>, <<"uart", "vga">>}
      BY <2>2, <3>2, <3>6, Zenon
    <3>9. SetupInv'
      BY <1>1, <3>2, <3>5, <3>7, <3>8, Zenon DEF SetupInv
    <3> QED  BY <3>5, <3>9
  <2>5. CASE ~(uart.step < 8)
    <3>1. uart.step = 8
      BY <2>3, <2>5 DEF PortPhase
    <3>2. uart' = uart /\ starting' = Tail(starting)
      BY <1>6, <2>5, Zenon DEF uart8250_init, register_console
    <3>3. \/ uart.there /\ console_drivers' = Append(console_drivers, "uart")
          \/ console_drivers' = console_drivers
      BY <1>6, <2>5, Zenon DEF uart8250_init, register_console
    <3>4. starting' = <<"vga">>
      BY <1>2, <2>2, <3>2, Zenon
    <3>5. PrintingInv' /\ OutTypes' /\ printing' = <<>>
      BY <2>1, <3>2, QuietSetup, Zenon
    <3>6. \/ uart.there /\ console_drivers' = <<"uart">>
          \/ console_drivers' = <<>>
      BY <1>2, <2>2, <3>3, Zenon
    <3>7. uart.there => PortReady
      BY <2>3, <3>1 DEF PortPhase, PortReady
    <3>8. \A a, b : <<>> # <<a>> /\ <<>> # <<a, b>>
      OBVIOUS
    <3>9. console_drivers' \in {<<"uart">>, <<"uart", "vga">>} => PortReady'
      BY <3>2, <3>6, <3>7, <3>8, Zenon DEF PortReady
    <3>10. Progress(starting, console_drivers)'
      BY <3>4, <3>6, Zenon DEF Progress
    <3> QED  BY <1>1, <1>3, <3>2, <3>4, <3>5, <3>9, <3>10, Zenon DEF SetupInv
  <2> QED  BY <2>4, <2>5
<1> QED  BY <1>4, <1>5, <1>6, Zenon DEF Drivers

\* Outside of the drivers the set up stays.
LEMMA SetupKept ==
  ASSUME SetupInv, starting' = starting, console_drivers' = console_drivers,
         starting = <<>>, \/ uart' = uart
                          \/ PortKept
  PROVE  SetupInv'
<1>1. \A a, b : <<>> # <<a, b>>
  OBVIOUS
<1>2. DOMAIN uart' = UartFields
  BY Zenon DEF SetupInv, PortKept
<1>3. PortReady => PortReady'
  <2>1. CASE uart' = uart
    BY <2>1, Zenon DEF PortReady
  <2>2. CASE PortKept
    BY <2>2 DEF PortKept, PortReady, UartFields
  <2> QED  BY <2>1, <2>2
<1> QED  BY <1>1, <1>2, <1>3, Zenon DEF SetupInv

LEMMA VprintkStep ==
  ASSUME PrintingInv, OutTypes, SetupInv, vprintk
  PROVE  PrintingInv' /\ OutTypes' /\ SetupInv'
<1>1. DriverFacts /\ UartDriver
  BY SetupFacts
<1>2. starting' = starting /\ console_drivers' = console_drivers
  BY Zenon DEF vprintk, spin_lock, CheckLevel, pr_prefix, FormatLine, NextConsole, porte9_write, uart8250_putc,
       uart8250_write, vgacon_write, spin_unlock, KeepSetup, KeepPrintk
<1>3. printing # <<>>
  BY Zenon DEF vprintk, spin_lock, CheckLevel, pr_prefix, FormatLine, NextConsole, porte9_write, uart8250_putc,
       uart8250_write, vgacon_write, spin_unlock, In
<1>4. starting = <<>>
  BY <1>3, Zenon DEF SetupInv
<1>5. CASE spin_lock
  BY <1>2, <1>4, <1>5, SpinLockStep, SetupKept, Zenon DEF spin_lock, KeepDevices
<1>6. CASE CheckLevel
  BY <1>2, <1>4, <1>6, CheckLevelStep, SetupKept, Zenon DEF CheckLevel, KeepDevices
<1>7. CASE pr_prefix
  BY <1>2, <1>4, <1>7, PrefixStep, SetupKept, Zenon DEF pr_prefix, KeepDevices
<1>8. CASE FormatLine
  BY <1>1, <1>2, <1>4, <1>8, FormatStep, SetupKept, Zenon DEF FormatLine, KeepDevices
<1>9. CASE NextConsole
  BY <1>1, <1>2, <1>4, <1>9, NextConsoleStep, SetupKept, Zenon DEF NextConsole, KeepDevices
<1>10. CASE porte9_write
  BY <1>1, <1>2, <1>4, <1>10, Porte9Step, SetupKept, Zenon DEF porte9_write
<1>11. CASE uart8250_putc
  <2>1. CASE /\ In("uart") /\ ~LineDone
             /\ uart' = uart8250_out(uart, "TX", buf[Top.i])
             /\ Goto([Top EXCEPT !.place = "lsr"])
             /\ KeepPrintk /\ UNCHANGED <<vga, sent>>
    <3>1. PrintingInv' /\ OutTypes' /\ PortKept
      BY <1>1, <2>1, PutStep, Zenon
    <3> QED  BY <1>2, <1>4, <3>1, SetupKept, Zenon
  <2>2. CASE /\ In("lsr") /\ uart.thr = Blank
             /\ Goto([Top EXCEPT !.place = "uart", !.i = @ + 1])
             /\ KeepPrintk /\ KeepDevices
    BY <1>1, <1>2, <1>4, <2>2, WaitStep, SetupKept, Zenon DEF KeepDevices
  <2> QED  BY <1>11, <2>1, <2>2, Zenon DEF uart8250_putc
<1>12. CASE uart8250_write
  <2>1. /\ Top.place = "uart" /\ LineDone /\ WriteDone /\ KeepPrintk /\ uart' = uart /\ sent' = sent
    BY <1>12, Zenon DEF uart8250_write, In, KeepDevices
  <2>2. Top.place \in {"uart", "vga"}
    BY <2>1
  <2> QED  BY <1>1, <1>2, <1>3, <1>4, <2>1, <2>2, LastWritten, SetupKept, Zenon
<1>13. CASE vgacon_write
  <2>1. CASE In("vga") /\ ~LineDone
    <3>1. PICK c : Goto([Top EXCEPT !.i = @ + 1, !.cur = c])
      BY <1>13, <2>1, Zenon DEF vgacon_write
    <3>2. sent' = [sent EXCEPT !["vga"] = Append(@, buf[Top.i])] /\ KeepPrintk /\ uart' = uart
      BY <1>13, <2>1, Zenon DEF vgacon_write
    <3> QED  BY <1>1, <1>2, <1>4, <2>1, <3>1, <3>2, ScreenStep, SetupKept, Zenon
  <2>2. CASE ~(In("vga") /\ ~LineDone)
    <3>1. /\ Top.place = "vga" /\ LineDone /\ WriteDone /\ KeepPrintk /\ uart' = uart /\ sent' = sent
      BY <1>13, <2>2, Zenon DEF vgacon_write, In
    <3>2. Top.place \in {"uart", "vga"}
      BY <3>1
    <3> QED  BY <1>1, <1>2, <1>3, <1>4, <3>1, <3>2, LastWritten, SetupKept, Zenon
  <2> QED  BY <2>1, <2>2
<1>14. CASE spin_unlock
  BY <1>2, <1>4, <1>14, UnlockStep, SetupKept, Zenon DEF spin_unlock, KeepDevices
<1> QED  BY <1>5, <1>6, <1>7, <1>8, <1>9, <1>10, <1>11, <1>12, <1>13, <1>14, Zenon DEF vprintk

-----------------------------------------------------------------------------
(***************************************************************************)
(* The consoles.                                                           *)
(***************************************************************************)
\* A run that is about the traps prints nothing.
ConsolesOff == AllOut /\ DOMAIN sent = ConsoleNames /\ console_drivers = <<>>

\* The inductive invariant: what a line in flight still owes each console.
PrintkInv == IF part = "printk" THEN OutTypes /\ SetupInv /\ PrintingInv ELSE ConsolesOff

LEMMA PrintkInvInit ==
  ASSUME Init
  PROVE  PrintkInv
<1>1. part = "printk" => PrintkInit
  BY Zenon DEF Init
<1>2. part # "printk" => PrintkIdle
  BY Zenon DEF Init
<1>3. sent = [c \in ConsoleNames |-> <<>>] /\ log = <<>> /\ console_drivers = <<>>
  BY <1>1, <1>2, Zenon DEF PrintkInit, PrintkIdle, ConsoleNames
<1>4. AllOut /\ DOMAIN sent = ConsoleNames
  BY <1>3, TextOfNone, Zenon DEF AllOut
<1>5. CASE part # "printk"
  BY <1>3, <1>4, <1>5, Zenon DEF PrintkInv, ConsolesOff
<1>6. CASE part = "printk"
  <2>1. starting \in {<<"porte9", "vga">>, <<"uart", "vga">>} /\ printing = <<>> /\ buf = <<>>
    BY <1>1, <1>6, Zenon DEF PrintkInit
  <2>2. PICK there, left :
          uart = [there |-> there, lcr |-> left, ier |-> {"RDI", "UUE"}, fcr |-> 1, mcr |-> 0,
                  dll |-> 1, dlm |-> 1, thr |-> Blank, step |-> 0]
    BY <1>1, <1>6, Zenon DEF PrintkInit
  <2>3. DOMAIN uart = UartFields /\ uart.thr = Blank /\ uart.step = 0
    BY <2>2 DEF UartFields
  <2>4. OutTypes
    <3>1. <<>> \in Seq(Chars) /\ <<>> \in Seq(LogEntries)
      OBVIOUS
    <3> QED  BY <1>3, <1>4, <2>1, <3>1, Zenon DEF OutTypes
  <2>5. PortPhase(uart)
    BY <2>3 DEF PortPhase
  <2>6. \A a, b : <<>> # <<a>> /\ <<>> # <<a, b>>
    OBVIOUS
  <2>7. SetupInv
    BY <1>3, <2>1, <2>3, <2>5, <2>6, Zenon DEF SetupInv, Progress
  <2>8. PrintingInv
    BY <1>4, <2>1, <2>3, Zenon DEF PrintingInv
  <2> QED  BY <1>6, <2>4, <2>7, <2>8, Zenon DEF PrintkInv
<1> QED  BY <1>5, <1>6

LEMMA PrintkInvStep ==
  ASSUME PrintkInv, [Next]_vars
  PROVE  PrintkInv'
<1>1. CASE part = "printk" /\ PrintkNext /\ part' = part
  <2>1. OutTypes /\ SetupInv /\ PrintingInv
    BY <1>1, Zenon DEF PrintkInv
  <2>2. CASE Drivers
    BY <1>1, <2>1, <2>2, DriversStep, Zenon DEF PrintkInv
  <2>3. CASE vprintk
    BY <1>1, <2>1, <2>3, VprintkStep, Zenon DEF PrintkInv
  <2>4. CASE Callers
    <3>1. PrintingInv' /\ OutTypes' /\ KeepsLog /\ starting' = starting
      BY <2>1, <2>4, CallersStep, Zenon
    <3>2. starting = <<>>
      BY <2>4, <2>1 DEF Callers, printk, panic, do_trap, SetupInv
    <3>3. SetupInv'
      BY <2>1, <3>1, <3>2, SetupKept, Zenon DEF KeepsLog
    <3> QED  BY <1>1, <3>1, <3>3, Zenon DEF PrintkInv
  <2>5. CASE Transmit
    <3>1. DriverFacts /\ UartDriver
      BY <2>1, SetupFacts
    <3>2. PrintingInv' /\ OutTypes' /\ PortKept
      BY <2>1, <2>5, <3>1, TransmitStep, Zenon DEF UartDriver
    <3>3. starting' = starting /\ console_drivers' = console_drivers
      BY <2>5, Zenon DEF Transmit, KeepPrintk, KeepSetup
    <3>4. starting = <<>>
      <4>1. ASSUME printing = <<>> PROVE FALSE
        <5>1. \A t, u : <<t>> # <<>> /\ <<t, u>> # <<>>
          OBVIOUS
        <5> QED  BY <2>1, <2>5, <4>1, <5>1, Zenon DEF PrintingInv, Transmit
      <4> QED  BY <2>1, <4>1, Zenon DEF SetupInv
    <3>5. SetupInv'
      BY <2>1, <3>2, <3>3, <3>4, SetupKept, Zenon
    <3> QED  BY <1>1, <3>2, <3>5, Zenon DEF PrintkInv
  <2> QED  BY <1>1, <2>2, <2>3, <2>4, <2>5, Zenon DEF PrintkNext
<1>2. CASE UNCHANGED <<part, printkVars>>
  <2>1. /\ part' = part /\ starting' = starting /\ console_drivers' = console_drivers
        /\ (console_lock' <=> console_lock) /\ printing' = printing /\ buf' = buf /\ uart' = uart
        /\ sent' = sent /\ log' = log
    BY <1>2, Zenon DEF printkVars
  <2>2. (OutTypes => OutTypes') /\ (AllOut => AllOut')
    BY <2>1, Zenon DEF OutTypes, AllOut
  <2>3. ConsolesOff => ConsolesOff'
    BY <2>1, <2>2, Zenon DEF ConsolesOff
  <2>4. SetupInv => SetupInv'
    BY <2>1, Zenon DEF SetupInv, Progress, PortPhase, PortReady
  <2>5. \A t : LineOk(t) => LineOk(t)'
    BY <2>1, Zenon DEF LineOk, OwedOk, LastLine
  <2>6. \A t : Holds(t) => Holds(t)'
    BY <2>1, <2>2, <2>5, Zenon DEF Holds, HolderOk
  <2>7. PrintingInv => PrintingInv'
    BY <2>1, <2>2, <2>6, Zenon DEF PrintingInv
  <2> QED  BY <2>1, <2>2, <2>3, <2>4, <2>7, Zenon DEF PrintkInv
<1> QED  BY <1>1, <1>2, Zenon DEF Next, Traps, Consoles, vars

\* With the lock free no line is in flight.
LEMMA LinesWhole ==
  ASSUME PrintkInv
  PROVE  ConsolesAreWhole
<1>1. DOMAIN sent = ConsoleNames
  BY Zenon DEF PrintkInv, OutTypes, ConsolesOff
<1>2. LinesAreWhole
  <2> SUFFICES ASSUME ~console_lock PROVE AllOut
    BY <1>1, Zenon DEF LinesAreWhole, AllOut
  <2>1. CASE part # "printk"
    BY <2>1, Zenon DEF PrintkInv, ConsolesOff
  <2>2. CASE part = "printk"
    <3>1. PrintingInv
      BY <2>2, Zenon DEF PrintkInv
    <3>2. "spin_lock" \notin DeviceLines
      BY DEF DeviceLines
    <3>3. ASSUME NEW t, Holds(t) PROVE AllOut /\ t.place = "spin_lock"
      BY <3>2, <3>3, Zenon DEF Holds, HolderOk
    <3> QED  BY <3>1, <3>3, Zenon DEF PrintingInv
  <2> QED  BY <2>1, <2>2
<1>3. UartIsReady
  <2>1. CASE part # "printk"
    <3>1. console_drivers = <<>>
      BY <2>1, Zenon DEF PrintkInv, ConsolesOff
    <3> QED  BY <3>1 DEF UartIsReady
  <2>2. CASE part = "printk"
    <3>1. UartDriver
      BY <2>2, SetupFacts, Zenon DEF PrintkInv
    <3>2. ASSUME NEW k \in DOMAIN console_drivers, console_drivers[k] = "uart"
          PROVE  uart.lcr = {"8n1"} /\ uart.ier \subseteq {"UUE"} /\ uart.dll + 256 * uart.dlm = 6
      <4>1. PortReady
        BY <3>1, <3>2, Zenon DEF UartDriver
      <4> QED  BY <4>1 DEF PortReady
    <3> QED  BY <3>2, Zenon DEF UartIsReady
  <2> QED  BY <2>1, <2>2
<1> QED  BY <1>2, <1>3 DEF ConsolesAreWhole

\* Whatever is printed, wherever a trap interrupts it, and in whatever state
\* the serial port was left: every console puts out every line whole and in
\* order, for every message, prefix and size of the line buffer.
THEOREM ConsolesAlwaysWhole == Spec => []ConsolesAreWhole
<1>1. Init => PrintkInv
  BY PrintkInvInit
<1>2. PrintkInv /\ [Next]_vars => PrintkInv'
  BY PrintkInvStep
<1>3. PrintkInv => ConsolesAreWhole
  BY LinesWhole
<1> QED  BY <1>1, <1>2, <1>3, PTL DEF Spec

-----------------------------------------------------------------------------
(***************************************************************************)
(* Arithmetic of the screen.                                               *)
(***************************************************************************)
\* A number has one row and one column.
LEMMA RowAndColumn ==
  ASSUME NEW w \in Nat \ {0}, NEW row \in Nat, NEW col \in 0 .. (w - 1), NEW x, x = w * row + col
  PROVE  x \in Nat /\ x \div w = row /\ x % w = col
<1>1. x \in Nat
  OBVIOUS
<1>2. PICK q \in Nat, m \in 0 .. (w - 1) : q = x \div w /\ m = x % w /\ x = q * w + m
  BY <1>1, Division
<1>3. q = row
  <2>1. CASE q < row
    <3>1. PICK d \in Nat : row = q + d + 1
      BY <2>1, row - q - 1 \in Nat
    <3>2. w * row = w * q + w * d + w /\ w * d \in Nat /\ w * q = q * w
      BY <3>1
    <3>3. w * row \in Nat /\ w * q \in Nat
      OBVIOUS
    <3> QED  BY <1>2, <3>2, <3>3
  <2>2. CASE row < q
    <3>1. PICK d \in Nat : q = row + d + 1
      BY <2>2, q - row - 1 \in Nat
    <3>2. w * q = w * row + w * d + w /\ w * d \in Nat /\ w * q = q * w
      BY <3>1
    <3>3. w * row \in Nat /\ w * q \in Nat
      OBVIOUS
    <3> QED  BY <1>2, <3>2, <3>3
  <2> QED  BY <2>1, <2>2
<1>4. m = col
  <2>1. q * w = w * row /\ w * row \in Nat
    BY <1>3
  <2> QED  BY <1>2, <2>1
<1> QED  BY <1>1, <1>2, <1>3, <1>4

\* Rows in order.
LEMMA RowsInOrder ==
  ASSUME NEW w \in Nat \ {0}, NEW a \in Nat, NEW b \in Nat, a <= b
  PROVE  /\ w * a \in Nat /\ w * b \in Nat /\ w * a <= w * b
         /\ w * (a + 1) = w * a + w /\ (a < b => w * a + w <= w * b)
<1>1. PICK d \in Nat : b = a + d
  BY b - a \in Nat
<1>2. w * b = w * a + w * d /\ w * d \in Nat /\ w * a \in Nat
  BY <1>1
<1>3. w * (a + 1) = w * a + w
  OBVIOUS
<1>4. CASE d = 0
  BY <1>1, <1>2, <1>3, <1>4
<1>5. CASE d # 0
  <2>1. PICK e \in Nat : d = e + 1
    BY <1>5, d - 1 \in Nat
  <2>2. w * d = w * e + w /\ w * e \in Nat
    BY <2>1
  <2> QED  BY <1>2, <1>3, <2>2
<1> QED  BY <1>4, <1>5

\* The screen's line of a row, and how far it has scrolled.
ScrolledBy(row) == IF row < Lines THEN 0 ELSE row - Lines + 1

\* A cursor at the end of a text that is at row and col.
CursorAt(c, row, col) ==
  /\ row \in Nat /\ col \in 0 .. (Columns - 1)
  /\ c = Columns * (row - ScrolledBy(row)) + col

LEMMA ScreenConstants ==
  /\ Columns \in Nat \ {0} /\ Lines \in Nat \ {0} /\ CrtRadix \in Nat \ {0}
  /\ ScreenSize \in Nat /\ ScreenSize = Columns * Lines + Columns
  /\ Columns * Lines \in Nat /\ Columns * Lines = Columns * (Lines - 1) + Columns
  /\ Columns * (Lines - 1) \in Nat
<1>1. Columns \in Nat \ {0} /\ Lines \in Nat \ {0} /\ CrtRadix \in Nat \ {0}
  BY PrintkConstants
<1>2. PICK m \in Nat : Lines = m + 1 /\ Lines - 1 = m
  BY <1>1, Lines - 1 \in Nat
<1>3. /\ Columns * (Lines + 1) = Columns * Lines + Columns /\ Columns * (m + 1) = Columns * m + Columns
      /\ Columns * m \in Nat /\ Columns * Lines \in Nat
  BY <1>1, <1>2
<1> QED  BY <1>1, <1>2, <1>3 DEF ScreenSize

\* Where the cursor is on the screen.
LEMMA CursorRow ==
  ASSUME NEW c, NEW row, NEW col, CursorAt(c, row, col)
  PROVE  \E r \in 0 .. (Lines - 1) :
           /\ row = r + ScrolledBy(row) /\ ScrolledBy(row) \in Nat /\ c = Columns * r + col
           /\ (r < Lines - 1 => ScrolledBy(row) = 0)
           /\ c \in Nat /\ c < Columns * Lines
<1>1. Columns \in Nat \ {0} /\ Lines \in Nat \ {0} /\ row \in Nat /\ col \in 0 .. (Columns - 1)
  BY ScreenConstants DEF CursorAt
<1>2. PICK s : s = ScrolledBy(row)
  OBVIOUS
<1>3. s = IF row < Lines THEN 0 ELSE row - Lines + 1
  BY <1>2 DEF ScrolledBy
<1>4. PICK r : r = row - s
  OBVIOUS
<1>5. s \in Nat /\ r \in 0 .. (Lines - 1) /\ row = r + s /\ (r < Lines - 1 => s = 0)
  BY <1>1, <1>3, <1>4
<1>6. c = Columns * r + col
  BY <1>2, <1>4 DEF CursorAt
<1>7. Columns * r \in Nat /\ Columns * r + Columns <= Columns * Lines /\ Columns * Lines \in Nat
  <2>1. r \in Nat /\ r <= Lines /\ r < Lines
    BY <1>1, <1>5
  <2> QED  BY <1>1, <2>1, RowsInOrder
<1>8. c \in Nat /\ c < Columns * Lines
  BY <1>1, <1>6, <1>7
<1> QED  BY <1>2, <1>5, <1>6, <1>8

\* The cursor moves on in its line.
LEMMA CursorRight ==
  ASSUME NEW c, NEW row, NEW col, CursorAt(c, row, col), col + 1 < Columns
  PROVE  CursorAt(c + 1, row, col + 1) /\ c + 1 < Columns * Lines
<1>1. Columns \in Nat \ {0} /\ row \in Nat /\ col \in 0 .. (Columns - 1)
  BY ScreenConstants DEF CursorAt
<1>2. PICK r \in 0 .. (Lines - 1) : row = r + ScrolledBy(row) /\ ScrolledBy(row) \in Nat /\ c = Columns * r + col
  BY CursorRow
<1>3. row - ScrolledBy(row) = r
  BY <1>1, <1>2
<1>4. c + 1 = Columns * (row - ScrolledBy(row)) + (col + 1)
  BY <1>1, <1>2, <1>3
<1>5. CursorAt(c + 1, row, col + 1)
  BY <1>1, <1>4 DEF CursorAt
<1> QED  BY <1>5, CursorRow

\* It moves to the next line: down, or the screen moves up.
LEMMA CursorDown ==
  ASSUME NEW c, NEW row, NEW col, CursorAt(c, row, col), NEW d, d = c + (Columns - col),
         NEW q, q = row + 1
  PROVE  /\ d \in Nat
         /\ d < Columns * Lines => CursorAt(d, q, 0) /\ ScrolledBy(q) = ScrolledBy(row)
         /\ ~(d < Columns * Lines) => /\ d = Columns * Lines /\ CursorAt(d - Columns, q, 0)
                                      /\ ScrolledBy(q) = ScrolledBy(row) + 1
<1>1. Columns \in Nat \ {0} /\ Lines \in Nat \ {0} /\ row \in Nat /\ col \in 0 .. (Columns - 1) /\ q \in Nat
  BY ScreenConstants DEF CursorAt
<1>2. PICK r \in 0 .. (Lines - 1) :
        /\ row = r + ScrolledBy(row) /\ ScrolledBy(row) \in Nat /\ c = Columns * r + col
        /\ (r < Lines - 1 => ScrolledBy(row) = 0)
  BY CursorRow
<1>3. r \in Nat /\ r + 1 \in Nat /\ Columns * r \in Nat /\ Columns * (r + 1) = Columns * r + Columns
  BY <1>1, <1>2
<1>4. d = Columns * (r + 1) /\ d \in Nat
  BY <1>1, <1>2, <1>3
<1>5. CASE r < Lines - 1
  <2>1. ScrolledBy(row) = 0 /\ row = r
    BY <1>2, <1>5
  <2>2. ScrolledBy(q) = 0 /\ q - 0 = r + 1
    BY <1>1, <1>5, <2>1 DEF ScrolledBy
  <2>3. Columns * (r + 1) + Columns <= Columns * Lines
    <3>1. r + 1 < Lines /\ r + 1 <= Lines
      BY <1>1, <1>2, <1>5
    <3> QED  BY <1>1, <1>3, <3>1, RowsInOrder
  <2>4. d < Columns * Lines
    BY <1>1, <1>4, <2>3, ScreenConstants
  <2>6. CursorAt(d, q, 0)
    <3>1. PICK z, m : z = 0 /\ m = q - ScrolledBy(q) /\ z \in 0 .. (Columns - 1)
      BY <1>1, 0 \in 0 .. (Columns - 1)
    <3>2. m = r + 1
      BY <1>1, <2>2, <3>1
    <3>3. d = Columns * m + z
      BY <1>1, <1>3, <1>4, <3>1, <3>2
    <3>4. CursorAt(d, q, z)
      BY <1>1, <3>1, <3>3, Zenon DEF CursorAt
    <3> QED  BY <3>1, <3>4
  <2> QED  BY <1>4, <2>1, <2>2, <2>4, <2>6
<1>6. CASE ~(r < Lines - 1)
  <2>1. r + 1 = Lines
    BY <1>1, <1>2, <1>6
  <2>2. d = Columns * Lines
    BY <1>4, <2>1
  <2>3. ScrolledBy(q) = ScrolledBy(row) + 1
    BY <1>1, <1>2, <2>1 DEF ScrolledBy
  <2>4. PICK s \in Nat : s = ScrolledBy(row) /\ row = r + s
    BY <1>2
  <2>5. ScrolledBy(q) = s + 1 /\ q - (s + 1) = r
    BY <1>1, <1>3, <2>3, <2>4
  <2>6. CursorAt(d - Columns, q, 0)
    <3>1. PICK z, m : z = 0 /\ m = q - ScrolledBy(q) /\ z \in 0 .. (Columns - 1)
      BY <1>1, 0 \in 0 .. (Columns - 1)
    <3>2. m = r
      BY <2>5, <3>1
    <3>3. d - Columns = Columns * m + z
      BY <1>1, <1>3, <1>4, <3>1, <3>2
    <3>4. PICK e : e = d - Columns
      OBVIOUS
    <3>5. CursorAt(e, q, z)
      BY <1>1, <3>1, <3>3, <3>4, Zenon DEF CursorAt
    <3> QED  BY <3>1, <3>4, <3>5
  <2>7. ~(d < Columns * Lines)
    BY <2>2, ScreenConstants
  <2> QED  BY <1>4, <2>2, <2>3, <2>6, <2>7
<1> QED  BY <1>5, <1>6

-----------------------------------------------------------------------------
(***************************************************************************)
(* The text on the endless page.                                           *)
(***************************************************************************)
\* The position behind a character.
Behind(at, c) == at + (IF c = Newline THEN Columns - (at % Columns) ELSE 1)

IsPositions(f, from, text, n) ==
  f = [k \in 0 .. n |-> IF k = 0 THEN from ELSE Behind(f[k - 1], text[k])]

PositionsTo(from, text, n) == CHOOSE f : IsPositions(f, from, text, n)

LEMMA PositionsAre ==
  ASSUME NEW from, NEW text
  PROVE  Positions(from, text) = PositionsTo(from, text, Len(text))
BY Zenon DEF Positions, PositionsTo, IsPositions, Behind

\* Step by step.
PositionSteps(f, from, text, n) ==
  f[0] = from /\ \A k \in 1 .. n : f[k] = Behind(f[k - 1], text[k])

LEMMA PositionStep ==
  ASSUME NEW from, NEW text, NEW n \in Nat, NEW f, IsPositions(f, from, text, n)
  PROVE  PositionSteps(f, from, text, n)
<1>1. \A k \in 0 .. n : f[k] = IF k = 0 THEN from ELSE Behind(f[k - 1], text[k])
  BY Zenon DEF IsPositions
<1>2. 0 \in 0 .. n /\ \A k \in 1 .. n : k \in 0 .. n /\ k # 0
  OBVIOUS
<1> QED  BY <1>1, <1>2, Zenon DEF PositionSteps

\* There is such a function for every number of characters.
LEMMA PositionsExist ==
  ASSUME NEW from, NEW text, NEW n \in Nat
  PROVE  \E f : IsPositions(f, from, text, n)
<1> DEFINE T == {k \in Nat : ~ \E f : IsPositions(f, from, text, k)}
<1> SUFFICES ASSUME T # {} PROVE FALSE
  OBVIOUS
<1>1. PICK m \in T : \A y \in T : m <= y
  BY LeastNatural
<1>2. m \in Nat /\ ~ \E f : IsPositions(f, from, text, m)
  OBVIOUS
<1>3. CASE m = 0
  <2> DEFINE g == [k \in 0 .. m |-> from]
  <2>1. g = [k \in 0 .. m |-> IF k = 0 THEN from ELSE Behind(g[k - 1], text[k])]
    <3>1. \A k \in 0 .. m : k = 0
      BY <1>3
    <3> QED  BY <3>1
  <2> HIDE DEF g
  <2>2. IsPositions(g, from, text, m)
    BY <2>1, Zenon DEF IsPositions
  <2> QED  BY <1>2, <2>2
<1>4. CASE m # 0
  <2>1. PICK p \in Nat : m = p + 1
    BY <1>2, <1>4, m - 1 \in Nat
  <2>2. p \notin T
    BY <1>1, <2>1
  <2>3. PICK f : IsPositions(f, from, text, p)
    BY <2>2
  <2> DEFINE g == [k \in 0 .. m |-> IF k = m THEN Behind(f[p], text[m]) ELSE f[k]]
  <2>4. ASSUME NEW k \in 0 .. m
        PROVE  g[k] = IF k = 0 THEN from ELSE Behind(g[k - 1], text[k])
    <3>1. CASE k = m
      <4>1. m # 0 /\ m - 1 = p /\ p \in 0 .. m /\ p # m
        BY <1>2, <2>1
      <4>2. g[p] = f[p] /\ g[m] = Behind(f[p], text[m])
        BY <3>1, <4>1, Zenon
      <4> HIDE DEF g
      <4> QED  BY <3>1, <4>1, <4>2
    <3>2. CASE k # m
      <4>1. k \in 0 .. p /\ (k # 0 => k - 1 \in 0 .. m /\ k - 1 # m)
        BY <1>2, <2>1, <3>2
      <4>2. f[k] = IF k = 0 THEN from ELSE Behind(f[k - 1], text[k])
        BY <2>3, <4>1, Zenon DEF IsPositions
      <4>3. g[k] = f[k] /\ (k # 0 => g[k - 1] = f[k - 1])
        BY <3>2, <4>1, Zenon
      <4> HIDE DEF g
      <4> QED  BY <4>2, <4>3, Zenon
    <3> QED  BY <3>1, <3>2
  <2>5. g = [k \in 0 .. m |-> g[k]]
    OBVIOUS
  <2> HIDE DEF g
  <2>6. IsPositions(g, from, text, m)
    BY <2>4, <2>5, Zenon DEF IsPositions
  <2> QED  BY <1>2, <2>6
<1> QED  BY <1>3, <1>4

\* Two of them agree on the characters they share.
LEMMA PositionsAgree ==
  ASSUME NEW from, NEW t1, NEW t2, NEW n1 \in Nat, NEW n2 \in Nat, NEW n \in Nat, n <= n1, n <= n2,
         SameLines(t1, t2, n),
         NEW f, NEW g, IsPositions(f, from, t1, n1), IsPositions(g, from, t2, n2)
  PROVE  f[n] = g[n]
<1> DEFINE T == {k \in 0 .. n : f[k] # g[k]}
<1> SUFFICES ASSUME T # {} PROVE FALSE
  OBVIOUS
<1>1. T \in SUBSET Nat
  OBVIOUS
<1>2. PICK m \in T : \A y \in T : m <= y
  BY <1>1, LeastNatural
<1>3. m \in 0 .. n /\ f[m] # g[m] /\ m \in 0 .. n1 /\ m \in 0 .. n2
  OBVIOUS
<1> HIDE DEF T
<1>4. f[0] = from /\ \A k \in 1 .. n1 : f[k] = Behind(f[k - 1], t1[k])
  <2>1. PositionSteps(f, from, t1, n1)
    BY PositionStep
  <2> QED  BY <2>1, Zenon DEF PositionSteps
<1>5. g[0] = from /\ \A k \in 1 .. n2 : g[k] = Behind(g[k - 1], t2[k])
  <2>1. PositionSteps(g, from, t2, n2)
    BY PositionStep
  <2> QED  BY <2>1, Zenon DEF PositionSteps
<1>6. m # 0
  BY <1>3, <1>4, <1>5, Zenon
<1>7. m - 1 \in 0 .. n /\ m \in 1 .. n /\ m \in 1 .. n1 /\ m \in 1 .. n2 /\ ~(m <= m - 1)
  BY <1>3, <1>6
<1>8. f[m - 1] = g[m - 1]
  BY <1>2, <1>7 DEF T
<1>9. t1[m] = t2[m]
  BY <1>7 DEF SameLines
<1> QED  BY <1>3, <1>4, <1>5, <1>7, <1>8, <1>9, Zenon

\* The positions of one character more.
Extends(at, more, n, c) ==
  /\ \A k \in 0 .. n : more[k] = at[k]
  /\ more[n + 1] = Behind(at[n], c)

LEMMA PositionsOfMore ==
  ASSUME NEW from, NEW text \in Seq(Chars), NEW c \in Chars
  PROVE  Extends(Positions(from, text), Positions(from, Append(text, c)), Len(text), c)
<1>1. PICK n \in Nat : n = Len(text)
  OBVIOUS
<1> DEFINE more == Append(text, c)
           f == PositionsTo(from, text, n)
           g == PositionsTo(from, more, n + 1)
<1>2. more \in Seq(Chars) /\ Len(more) = n + 1 /\ more[n + 1] = c /\ \A k \in 1 .. n : more[k] = text[k]
  BY <1>1
<1>3. Positions(from, text) = f /\ Positions(from, more) = g
  BY <1>1, <1>2, PositionsAre, Zenon
<1>4. IsPositions(f, from, text, n) /\ IsPositions(g, from, more, n + 1)
  <2>1. n + 1 \in Nat
    OBVIOUS
  <2>2. (\E x : IsPositions(x, from, text, n)) /\ (\E x : IsPositions(x, from, more, n + 1))
    BY <2>1, PositionsExist
  <2> QED  BY <2>2, Zenon DEF PositionsTo
<1> HIDE DEF more, f, g
<1>5. PICK q \in Nat : q = n + 1 /\ q - 1 = n /\ q \in 1 .. q /\ n <= q
  BY n + 1 \in Nat
<1>6. ASSUME NEW k \in 0 .. n PROVE g[k] = f[k]
  <2>1. SameLines(more, text, k)
    BY <1>2 DEF SameLines
  <2>2. k \in Nat /\ k <= q /\ k <= n
    BY <1>5
  <2>3. IsPositions(g, from, more, q)
    BY <1>4, <1>5
  <2> QED  BY <1>4, <2>1, <2>2, <2>3, PositionsAgree
<1>7. g[q] = Behind(f[n], c)
  BY <1>4, <1>5, PositionStep, <1>6, <1>2 DEF PositionSteps
<1>8. Extends(f, g, n, c)
  BY <1>5, <1>6, <1>7 DEF Extends
<1> QED  BY <1>1, <1>3, <1>8 DEF more

\* No character, no position but the first.
LEMMA PositionsOfNone ==
  ASSUME NEW from
  PROVE  Positions(from, <<>>)[0] = from
<1>1. Positions(from, <<>>) = PositionsTo(from, <<>>, 0)
  <2>1. Len(<<>>) = 0
    OBVIOUS
  <2> QED  BY <2>1, PositionsAre
<1>2. IsPositions(PositionsTo(from, <<>>, 0), from, <<>>, 0)
  BY PositionsExist, Zenon DEF PositionsTo
<1>3. PositionSteps(PositionsTo(from, <<>>, 0), from, <<>>, 0)
  BY <1>2, PositionStep
<1> QED  BY <1>1, <1>3, Zenon DEF PositionSteps

-----------------------------------------------------------------------------
(***************************************************************************)
(* The page.                                                               *)
(***************************************************************************)
Hits(text, at, k) == {i \in DOMAIN text : at[i - 1] = k /\ text[i] # Newline}

\* Every character is before the end of the text.
InFront(text, at) ==
  /\ \A k \in 0 .. Len(text) : at[k] \in Nat
  /\ \A k \in 1 .. Len(text) : at[k - 1] < at[Len(text)]

\* Behind the end there is nothing.
LEMMA PageBehind ==
  ASSUME NEW text \in Seq(Chars), NEW at, InFront(text, at), NEW k \in Nat, at[Len(text)] <= k
  PROVE  Hits(text, at, k) = {} /\ Page(text, at, k) = Blank
<1>1. ASSUME NEW i \in DOMAIN text PROVE at[i - 1] # k
  <2>1. i \in 1 .. Len(text) /\ i - 1 \in 0 .. Len(text) /\ Len(text) \in 0 .. Len(text)
    OBVIOUS
  <2>2. at[i - 1] \in Nat /\ at[Len(text)] \in Nat /\ at[i - 1] < at[Len(text)]
    BY <2>1 DEF InFront
  <2> QED  BY <2>2
<1>2. Hits(text, at, k) = {}
  BY <1>1 DEF Hits
<1> QED  BY <1>2, Zenon DEF Page, Hits

\* A character more leaves what was on the page, and stands at its end.
LEMMA PageOfMore ==
  ASSUME NEW text \in Seq(Chars), NEW c \in Chars, NEW at, NEW more, Extends(at, more, Len(text), c),
         InFront(text, at), NEW k \in Nat
  PROVE  Page(Append(text, c), more, k) =
           IF k = at[Len(text)] /\ c # Newline THEN c ELSE Page(text, at, k)
<1>1. PICK n \in Nat : n = Len(text)
  OBVIOUS
<1>2. PICK t, q : t = Append(text, c) /\ q = n + 1
  OBVIOUS
<1>3. /\ DOMAIN t = 1 .. q /\ DOMAIN text = 1 .. n /\ t[q] = c
      /\ \A i \in 1 .. n : t[i] = text[i] /\ i \in 1 .. q
      /\ \A i \in 1 .. q : i = q \/ i \in 1 .. n
      /\ q \in 1 .. q /\ q \notin 1 .. n
  BY <1>1, <1>2
<1>4. more[q - 1] = at[n] /\ \A i \in 1 .. n : more[i - 1] = at[i - 1]
  <2>1. q - 1 = n /\ n \in 0 .. n /\ \A i \in 1 .. n : i - 1 \in 0 .. n
    BY <1>2
  <2> QED  BY <1>1, <2>1 DEF Extends
<1>5. CASE k = at[n] /\ c # Newline
  <2>1. Hits(text, at, k) = {}
    <3>1. at[n] \in Nat /\ at[n] <= k
      BY <1>1, <1>5
    <3> QED  BY <1>1, <3>1, PageBehind
  <2>2. Hits(t, more, k) = {q}
    <3>1. ASSUME NEW i \in 1 .. n PROVE i \notin Hits(t, more, k)
      <4>1. i \notin Hits(text, at, k)
        BY <2>1
      <4> QED  BY <1>3, <1>4, <3>1, <4>1, Zenon DEF Hits
    <3>2. q \in Hits(t, more, k)
      BY <1>3, <1>4, <1>5, Zenon DEF Hits
    <3>3. Hits(t, more, k) \subseteq 1 .. q
      BY <1>3, Zenon DEF Hits
    <3> QED  BY <1>3, <3>1, <3>2, <3>3, Zenon
  <2>3. (CHOOSE i \in {q} : TRUE) = q
    OBVIOUS
  <2>4. Hits(t, more, k) # {}
    BY <2>2
  <2>5. Page(t, more, k) = t[CHOOSE i \in Hits(t, more, k) : TRUE]
    BY <2>4, Zenon DEF Page, Hits
  <2>6. Page(t, more, k) = c
    BY <1>3, <2>2, <2>3, <2>5, Zenon
  <2> QED  BY <1>1, <1>2, <1>5, <2>6
<1>6. CASE ~(k = at[n] /\ c # Newline)
  <2>1. Hits(t, more, k) = Hits(text, at, k)
    BY <1>3, <1>4, <1>6 DEF Hits
  <2>2. CASE Hits(text, at, k) = {}
    <3>1. Page(t, more, k) = Blank /\ Page(text, at, k) = Blank
      BY <2>1, <2>2, Zenon DEF Page, Hits
    <3> QED  BY <1>1, <1>2, <1>6, <3>1
  <2>3. CASE Hits(text, at, k) # {}
    <3>1. PICK i : i = CHOOSE j \in Hits(text, at, k) : TRUE
      OBVIOUS
    <3>2. i \in Hits(text, at, k)
      BY <2>3, <3>1, Zenon
    <3>3. i \in 1 .. n
      BY <1>3, <3>2, Zenon DEF Hits
    <3>4. Page(text, at, k) = text[i]
      BY <2>3, <3>1, Zenon DEF Page, Hits
    <3>5. Page(t, more, k) = t[CHOOSE j \in Hits(t, more, k) : TRUE]
      BY <2>1, <2>3, Zenon DEF Page, Hits
    <3>6. Page(t, more, k) = t[i]
      BY <2>1, <3>1, <3>5, Zenon
    <3>7. t[i] = text[i]
      BY <1>3, <3>3, Zenon
    <3>8. Page(t, more, k) = Page(text, at, k)
      BY <3>4, <3>6, <3>7, Zenon
    <3> QED  BY <1>1, <1>2, <1>6, <3>8
  <2> QED  BY <2>2, <2>3
<1> QED  BY <1>5, <1>6

\* The text grows at its end.
LEMMA InFrontOfMore ==
  ASSUME NEW text \in Seq(Chars), NEW c \in Chars, NEW at, NEW more, Extends(at, more, Len(text), c),
         InFront(text, at), at[Len(text)] < more[Len(text) + 1], more[Len(text) + 1] \in Nat
  PROVE  InFront(Append(text, c), more)
<1>1. PICK n \in Nat : n = Len(text)
  OBVIOUS
<1>2. PICK t, q : t = Append(text, c) /\ q = n + 1
  OBVIOUS
<1>3. Len(t) = q
  BY <1>1, <1>2
<1>4. more[q] \in Nat /\ at[n] < more[q] /\ at[n] \in Nat
  BY <1>1, <1>2 DEF InFront
<1>5. ASSUME NEW k \in 0 .. q PROVE more[k] \in Nat
  <2>1. CASE k = q
    BY <1>4, <2>1
  <2>2. CASE k # q
    <3>1. k \in 0 .. n
      BY <1>2, <2>2
    <3> QED  BY <1>1, <3>1 DEF Extends, InFront
  <2> QED  BY <2>1, <2>2
<1>6. ASSUME NEW k \in 1 .. q PROVE more[k - 1] < more[q]
  <2>1. k - 1 \in 0 .. n /\ more[k - 1] = at[k - 1] /\ at[k - 1] \in Nat
    <3>1. k - 1 \in 0 .. n
      BY <1>2
    <3> QED  BY <1>1, <3>1 DEF Extends, InFront
  <2>2. CASE k = q
    BY <1>2, <1>4, <2>1, <2>2
  <2>3. CASE k # q
    <3>1. k \in 1 .. n
      BY <1>2, <2>3
    <3>2. at[k - 1] < at[n]
      BY <1>1, <3>1 DEF InFront
    <3> QED  BY <1>4, <2>1, <3>2
  <2> QED  BY <2>2, <2>3
<1>7. InFront(t, more)
  BY <1>3, <1>5, <1>6 DEF InFront
<1> QED  BY <1>2, <1>7

-----------------------------------------------------------------------------
(***************************************************************************)
(* The screen is a window on the page.                                     *)
(***************************************************************************)
Window(ram, text, at, s) ==
  \A k \in 0 .. (Columns * Lines - 1) : ram[k] = Page(text, at, k + Columns * s)

\* The screen with the cursor at c shows the end of the text.
Shown(ram, text, at, c) ==
  /\ DOMAIN ram = 0 .. (ScreenSize - 1) /\ InFront(text, at)
  /\ \E row, col : /\ CursorAt(c, row, col) /\ at[Len(text)] = Columns * row + col
                    /\ Window(ram, text, at, ScrolledBy(row))

\* The end of the text on the page, and the cursor.
LEMMA EndAndCursor ==
  ASSUME NEW c, NEW row, NEW col, CursorAt(c, row, col), NEW s, s = ScrolledBy(row)
  PROVE  /\ c \in Nat /\ c < Columns * Lines /\ s \in Nat /\ Columns * s \in Nat
         /\ Columns * row + col = c + Columns * s
         /\ c % Columns = col /\ (Columns * row + col) % Columns = col
         /\ Columns * row + col + (Columns - col) = Columns * (row + 1) + 0
<1>1. Columns \in Nat \ {0} /\ row \in Nat /\ col \in 0 .. (Columns - 1)
  BY ScreenConstants DEF CursorAt
<1>2. PICK r \in 0 .. (Lines - 1) : /\ row = r + s /\ s \in Nat /\ c = Columns * r + col
                                    /\ c \in Nat /\ c < Columns * Lines
  BY CursorRow
<1>3. r \in Nat /\ Columns * row = Columns * r + Columns * s /\ Columns * r \in Nat /\ Columns * s \in Nat
      /\ Columns * row \in Nat
  BY <1>1, <1>2, ScreenConstants
<1>4. Columns * row + col = c + Columns * s
  BY <1>1, <1>2, <1>3
<1>5. c % Columns = col /\ (Columns * row + col) % Columns = col
  <2>1. c % Columns = col
    <3>1. Columns \in Nat \ {0} /\ r \in Nat /\ col \in 0 .. (Columns - 1) /\ c = Columns * r + col
      BY <1>1, <1>2, <1>3, Zenon
    <3> QED  BY ONLY <3>1, RowAndColumn, Zenon
  <2>2. PICK e : e = Columns * row + col
    OBVIOUS
  <2>3. e % Columns = col
    BY <1>1, <2>2, RowAndColumn
  <2> QED  BY <2>1, <2>2, <2>3
<1>6. Columns * (row + 1) = Columns * row + Columns
  BY <1>1
<1>7. Columns * row + col + (Columns - col) = Columns * (row + 1) + 0
  BY <1>1, <1>3, <1>6
<1> QED  BY <1>2, <1>3, <1>4, <1>5, <1>7

\* The screen once the character is stored, before it moves.
Stored(ram, c, ch) == IF ch = Newline THEN ram ELSE [ram EXCEPT ![c] = ch]

LEMMA WindowStored ==
  ASSUME NEW ram, NEW text \in Seq(Chars), NEW at, NEW more, NEW ch \in Chars, NEW c \in Nat, NEW s \in Nat,
         DOMAIN ram = 0 .. (ScreenSize - 1), Extends(at, more, Len(text), ch), InFront(text, at),
         Window(ram, text, at, s), at[Len(text)] = c + Columns * s
  PROVE  Window(Stored(ram, c, ch), Append(text, ch), more, s)
<1>1. Columns * s \in Nat
  BY ScreenConstants
<1>2. ASSUME NEW k \in 0 .. (Columns * Lines - 1)
      PROVE  Stored(ram, c, ch)[k] = Page(Append(text, ch), more, k + Columns * s)
  <2>1. PICK p \in Nat : p = k + Columns * s
    BY <1>1, ScreenConstants, k + Columns * s \in Nat
  <2>2. Page(Append(text, ch), more, p) = IF p = at[Len(text)] /\ ch # Newline THEN ch ELSE Page(text, at, p)
    BY PageOfMore
  <2>3. ram[k] = Page(text, at, p)
    BY <2>1 DEF Window
  <2>4. k \in DOMAIN ram
    BY ScreenConstants
  <2>5. p = at[Len(text)] <=> k = c
    BY <1>1, <2>1, ScreenConstants
  <2>6. Stored(ram, c, ch)[k] = IF ch # Newline /\ k = c THEN ch ELSE ram[k]
    BY <2>4, Zenon DEF Stored
  <2> QED  BY <2>1, <2>2, <2>3, <2>5, <2>6, Zenon
<1> QED  BY <1>2 DEF Window

\* The screen scrolls: the window is one line further down.
LEMMA WindowScrolled ==
  ASSUME NEW ram, NEW text \in Seq(Chars), NEW at, NEW s \in Nat, NEW q, q = s + 1,
         DOMAIN ram = 0 .. (ScreenSize - 1), InFront(text, at), Window(ram, text, at, s),
         at[Len(text)] = Columns * Lines + Columns * s
  PROVE  Window(Scrolled(ram), text, at, q)
<1>1. Columns * s \in Nat /\ Columns * q = Columns * s + Columns /\ Columns * q \in Nat
  BY ScreenConstants
<1>2. ASSUME NEW k \in 0 .. (Columns * Lines - 1)
      PROVE  Scrolled(ram)[k] = Page(text, at, k + Columns * q)
  <2>1. PICK p \in Nat : p = k + Columns * q
    BY <1>1, ScreenConstants, k + Columns * q \in Nat
  <2>2. k \in DOMAIN ram
    BY ScreenConstants
  <2>3. Scrolled(ram)[k] = IF k < Columns * (Lines - 1) THEN ram[k + Columns]
                           ELSE IF k < Columns * Lines THEN Blank ELSE ram[k]
    BY <2>2, Zenon DEF Scrolled
  <2>4. CASE k < Columns * (Lines - 1)
    <3>1. PICK j : j = k + Columns
      OBVIOUS
    <3>2. j \in 0 .. (Columns * Lines - 1) /\ j + Columns * s = p
      BY <1>1, <2>1, <2>4, <3>1, ScreenConstants
    <3>3. ram[j] = Page(text, at, p)
      BY <3>2 DEF Window
    <3> QED  BY <2>1, <2>3, <2>4, <3>1, <3>3, Zenon
  <2>5. CASE ~(k < Columns * (Lines - 1))
    BY <1>1, <2>1, <2>5, ScreenConstants, PageBehind, <2>3
  <2> QED  BY <2>4, <2>5
<1> QED  BY <1>2 DEF Window

\* vgacon_putc: a character more is shown.
LEMMA CharacterShown ==
  ASSUME NEW ram, NEW text \in Seq(Chars), NEW at, NEW more, NEW ch \in Chars, NEW c,
         Extends(at, more, Len(text), ch), Shown(ram, text, at, c),
         NEW after, after = vgacon_putc(ram, c, ch)
  PROVE  Shown(after.ram, Append(text, ch), more, after.cur)
<1>1. DOMAIN ram = 0 .. (ScreenSize - 1) /\ InFront(text, at)
  BY DEF Shown
<1>2. PICK row, col : /\ CursorAt(c, row, col) /\ at[Len(text)] = Columns * row + col
                      /\ Window(ram, text, at, ScrolledBy(row))
  BY Zenon DEF Shown
<1>3. PICK s, e : s = ScrolledBy(row) /\ e = Columns * row + col
  OBVIOUS
<1>4. /\ c \in Nat /\ c < Columns * Lines /\ s \in Nat /\ Columns * s \in Nat /\ e = c + Columns * s
      /\ c % Columns = col /\ e % Columns = col /\ e + (Columns - col) = Columns * (row + 1) + 0
  BY <1>2, <1>3, EndAndCursor
<1>5. row \in Nat /\ col \in 0 .. (Columns - 1) /\ Columns \in Nat \ {0} /\ Columns * Lines \in Nat /\ at[Len(text)] = e
  BY <1>2, <1>3, ScreenConstants DEF CursorAt
<1>6. PICK r2, d, n, t : /\ r2 = Stored(ram, c, ch) /\ d = c + (IF ch = Newline THEN Columns - col ELSE 1)
                         /\ n = Len(text) /\ t = Append(text, ch)
  OBVIOUS
<1>7. after = Moved(r2, d)
  <2>1. CASE ch = Newline
    BY <1>4, <1>6, <2>1, Zenon DEF vgacon_putc, Stored
  <2>2. CASE ch # Newline
    BY <1>6, <2>2, Zenon DEF vgacon_putc, Stored
  <2> QED  BY <2>1, <2>2
<1>8. after = IF d >= Columns * Lines THEN [ram |-> Scrolled(r2), cur |-> d - Columns] ELSE [ram |-> r2, cur |-> d]
  BY <1>7, Zenon DEF Moved
<1>9. d \in Nat /\ c < d
  BY <1>4, <1>5, <1>6
<1>10. n \in Nat /\ t \in Seq(Chars) /\ Len(t) = n + 1
  BY <1>6
<1>11. more[n + 1] = d + Columns * s
  <2>1. more[n + 1] = Behind(e, ch)
    BY <1>5, <1>6 DEF Extends
  <2>2. Behind(e, ch) = e + (IF ch = Newline THEN Columns - col ELSE 1)
    BY <1>4, Zenon DEF Behind
  <2>3. CASE ch = Newline
    BY <1>4, <1>5, <1>6, <2>1, <2>2, <2>3
  <2>4. CASE ch # Newline
    BY <1>4, <1>5, <1>6, <2>1, <2>2, <2>4
  <2> QED  BY <2>3, <2>4
<1>12. InFront(t, more)
  <2>1. e < more[n + 1] /\ more[n + 1] \in Nat
    BY <1>4, <1>9, <1>11
  <2> QED  BY <1>1, <1>5, <1>6, <2>1, InFrontOfMore, Zenon
<1>13. Window(r2, t, more, s)
  <2>1. at[Len(text)] = c + Columns * s /\ Window(ram, text, at, s)
    BY <1>2, <1>3, <1>4, <1>5, Zenon
  <2> QED  BY <1>1, <1>4, <1>6, <2>1, WindowStored, Zenon
<1>14. DOMAIN r2 = 0 .. (ScreenSize - 1) /\ DOMAIN Scrolled(r2) = 0 .. (ScreenSize - 1)
  <2>1. DOMAIN r2 = 0 .. (ScreenSize - 1)
    BY <1>1, <1>6, Zenon DEF Stored
  <2> QED  BY <2>1, Zenon DEF Scrolled
<1>15. CASE ch # Newline /\ col + 1 < Columns
  <2>1. d = c + 1
    BY <1>6, <1>15
  <2>2. PICK k : k = col + 1
    OBVIOUS
  <2>3. CursorAt(d, row, k) /\ d < Columns * Lines
    BY <1>2, <1>15, <2>1, <2>2, CursorRight
  <2>4. after.ram = r2 /\ after.cur = d
    BY <1>5, <1>9, <2>3, <1>8
  <2>5. more[Len(t)] = Columns * row + k
    <3>1. more[Len(t)] = d + Columns * s
      BY <1>10, <1>11
    <3>2. PICK x \in Nat, y \in Nat : x = Columns * row /\ y = Columns * s
      BY <1>4, <1>5, Columns * row \in Nat
    <3>3. x + col = c + y
      BY <1>3, <1>4, <3>2
    <3>4. d + y = x + k
      BY <1>4, <1>5, <2>1, <2>2, <3>2, <3>3
    <3> QED  BY <3>1, <3>2, <3>4
  <2>6. Shown(r2, t, more, d)
    BY <1>3, <1>12, <1>13, <1>14, <2>3, <2>5, Zenon DEF Shown
  <2> QED  BY <1>6, <2>4, <2>6, Zenon
<1>16. CASE ~(ch # Newline /\ col + 1 < Columns)
  <2>1. d = c + (Columns - col)
    BY <1>4, <1>5, <1>6, <1>16
  <2>2. PICK q, z : q = row + 1 /\ z = 0
    OBVIOUS
  <2>3. /\ d < Columns * Lines => CursorAt(d, q, z) /\ ScrolledBy(q) = ScrolledBy(row)
        /\ ~(d < Columns * Lines) => /\ d = Columns * Lines /\ CursorAt(d - Columns, q, z)
                                     /\ ScrolledBy(q) = ScrolledBy(row) + 1
    BY <1>2, <2>1, <2>2, CursorDown
  <2>4. more[Len(t)] = Columns * q + z
    BY <1>4, <1>5, <1>10, <1>11, <2>1, <2>2
  <2>5. CASE d < Columns * Lines
    <3>1. after.ram = r2 /\ after.cur = d
      BY <1>5, <1>9, <2>5, <1>8
    <3>2. Window(r2, t, more, ScrolledBy(q))
      BY <1>3, <1>13, <2>3, <2>5, Zenon
    <3>3. Shown(r2, t, more, d)
      BY <1>12, <1>14, <2>3, <2>4, <2>5, <3>2, Zenon DEF Shown
    <3> QED  BY <1>6, <3>1, <3>3, Zenon
  <2>6. CASE ~(d < Columns * Lines)
    <3>1. after.ram = Scrolled(r2) /\ after.cur = d - Columns
      BY <1>5, <1>9, <2>6, <1>8
    <3>2. PICK s2 : s2 = s + 1
      OBVIOUS
    <3>3. ScrolledBy(q) = s2
      BY <1>3, <2>3, <2>6, <3>2, Zenon
    <3>4. more[Len(t)] = Columns * Lines + Columns * s
      <4>1. more[Len(t)] = more[n + 1]
        BY <1>10
      <4> QED  BY <1>11, <2>3, <2>6, <4>1, Zenon
    <3>5. Window(Scrolled(r2), t, more, s2)
      BY <1>4, <1>10, <1>12, <1>13, <1>14, <3>2, <3>4, WindowScrolled, Zenon
    <3>6. Shown(Scrolled(r2), t, more, d - Columns)
      BY <1>12, <1>14, <2>3, <2>4, <2>6, <3>3, <3>5, Zenon DEF Shown
    <3> QED  BY <1>6, <3>1, <3>6, Zenon
  <2> QED  BY <2>5, <2>6
<1> QED  BY <1>15, <1>16

\* On the line that is not used the cursor comes back to the screen.
LEMMA CursorStays ==
  ASSUME NEW ram, NEW c \in Nat, c < ScreenSize, DOMAIN ram = 0 .. (ScreenSize - 1), NEW ch,
         NEW after, after = vgacon_putc(ram, c, ch)
  PROVE  after.cur \in Nat /\ after.cur < ScreenSize /\ DOMAIN after.ram = 0 .. (ScreenSize - 1)
<1>1. Columns \in Nat \ {0} /\ Lines \in Nat \ {0}
  BY ScreenConstants
<1>2. PICK q \in Nat, m \in 0 .. (Columns - 1) : m = c % Columns /\ c = q * Columns + m
  BY <1>1, Division
<1>3. PICK r2, d : r2 = Stored(ram, c, ch) /\ d = c + (IF ch = Newline THEN Columns - m ELSE 1)
  OBVIOUS
<1>4. after = Moved(r2, d)
  <2>1. CASE ch = Newline
    BY <1>2, <1>3, <2>1, Zenon DEF vgacon_putc, Stored
  <2>2. CASE ch # Newline
    BY <1>3, <2>2, Zenon DEF vgacon_putc, Stored
  <2> QED  BY <2>1, <2>2
<1>5. after = IF d >= Columns * Lines THEN [ram |-> Scrolled(r2), cur |-> d - Columns] ELSE [ram |-> r2, cur |-> d]
  BY <1>4, Zenon DEF Moved
<1>6. DOMAIN r2 = 0 .. (ScreenSize - 1) /\ DOMAIN Scrolled(r2) = 0 .. (ScreenSize - 1)
  <2>1. DOMAIN r2 = 0 .. (ScreenSize - 1)
    BY <1>3, Zenon DEF Stored
  <2> QED  BY <2>1, Zenon DEF Scrolled
<1>7. d \in Nat /\ d > c
  <2>1. m \in Nat /\ m < Columns
    BY <1>1, <1>2
  <2>2. CASE ch # Newline
    BY <1>3, <2>2
  <2>3. CASE ch = Newline
    BY <1>1, <1>3, <2>1, <2>3, SMTT(40)
  <2> QED  BY <2>2, <2>3
<1>8. d <= ScreenSize
  <2>1. CASE ch # Newline
    BY <1>3, <2>1, ScreenConstants
  <2>2. CASE ch = Newline
    <3>1. q <= Lines
      <4>1. CASE Lines < q
        <5>1. PICK l : l = Lines + 1
          OBVIOUS
        <5>2. l \in Nat /\ l <= q
          BY <1>1, <4>1, <5>1
        <5>3. Columns * l <= Columns * q /\ Columns * l \in Nat /\ Columns * q \in Nat
          BY <1>1, <5>2, RowsInOrder
        <5>4. Columns * l = Columns * Lines + Columns /\ q * Columns = Columns * q
          BY <1>1, <5>1
        <5> QED  BY <1>2, <5>3, <5>4, ScreenConstants
      <4> QED  BY <1>1, <4>1
    <3>2. Columns * q + Columns <= Columns * Lines + Columns /\ Columns * q \in Nat
      BY <1>1, <3>1, RowsInOrder
    <3>3. d = Columns * q + Columns
      <4>1. PICK x \in Nat : x = q * Columns /\ x = Columns * q
        BY <1>1, <3>2
      <4>2. c = x + m /\ d = c + (Columns - m)
        BY <1>2, <1>3, <2>2, <4>1
      <4>3. d = x + Columns
        BY <1>1, <4>2
      <4> QED  BY <4>1, <4>3
    <3> QED  BY <3>2, <3>3, ScreenConstants
  <2> QED  BY <2>1, <2>2
<1>9. CASE d >= Columns * Lines
  BY <1>5, <1>9, <1>7, <1>8, ScreenConstants, <1>6
<1>10. CASE ~(d >= Columns * Lines)
  BY <1>5, <1>10, <1>7, ScreenConstants, <1>6
<1> QED  BY <1>9, <1>10

-----------------------------------------------------------------------------
(***************************************************************************)
(* The cursor is in the registers, or in the call that writes to the       *)
(* screen.                                                                 *)
(***************************************************************************)
One(t) == IF t.place = "vga" THEN {t.cur} ELSE {}

CursorsOf(active) == {active[k].cur : k \in {j \in DOMAIN active : active[j].place = "vga"}}

LEMMA CursorsOfFew ==
  /\ CursorsOf(<<>>) = {}
  /\ \A t : CursorsOf(<<t>>) = One(t)
  /\ \A t, u : CursorsOf(<<t, u>>) = One(t) \cup One(u)
<1>1. CursorsOf(<<>>) = {}
  BY DEF CursorsOf
<1>2. ASSUME NEW t PROVE CursorsOf(<<t>>) = One(t)
  <2>1. PICK a : a = <<t>> /\ DOMAIN a = {1} /\ a[1] = t
    <3>1. DOMAIN <<t>> = 1 .. 1 /\ <<t>>[1] = t
      OBVIOUS
    <3>2. 1 .. 1 = {1}
      OBVIOUS
    <3> QED  BY <3>1, <3>2, Zenon
  <2>2. CursorsOf(a) = One(t)
    BY <2>1, Zenon DEF CursorsOf, One
  <2> QED  BY <2>1, <2>2
<1>3. ASSUME NEW t, NEW u PROVE CursorsOf(<<t, u>>) = One(t) \cup One(u)
  <2>1. PICK a : a = <<t, u>> /\ DOMAIN a = {1, 2} /\ a[1] = t /\ a[2] = u
    <3>1. DOMAIN <<t, u>> = 1 .. 2 /\ <<t, u>>[1] = t /\ <<t, u>>[2] = u
      OBVIOUS
    <3>2. 1 .. 2 = {1, 2}
      OBVIOUS
    <3> QED  BY <3>1, <3>2, Zenon
  <2>2. CursorsOf(a) = One(t) \cup One(u)
    BY <2>1 DEF CursorsOf, One
  <2> QED  BY <2>1, <2>2
<1> QED  BY <1>1, <1>2, <1>3

\* Only the call that runs may be at the screen.
LEMMA CursorOfTop ==
  ASSUME PrintingInv, printing # <<>>, Top.place # "spin_lock" \/ ~console_lock
  PROVE  /\ CursorsOf(printing) = One(Top)
         /\ \A x : CursorsOf(Append(Front(printing), x)) = One(x)
         /\ CursorsOf(Front(printing)) = {}
<1>1. CASE \E t : printing = <<t>> /\ ActOk(t) /\ Holds(t)
  <2>1. PICK t : printing = <<t>>
    BY <1>1, Zenon
  <2>2. ASSUME NEW x
        PROVE  Last(<<t>>) = t /\ Append(Front(<<t>>), x) = <<x>> /\ Front(<<t>>) = <<>>
    <3>1. PICK u : u = x
      OBVIOUS
    <3>2. /\ Last(<<t>>) = t /\ Last(<<t, u>>) = u
          /\ Append(Front(<<t>>), x) = <<x>> /\ Append(Front(<<t, u>>), x) = <<t, x>>
          /\ Front(<<t>>) = <<>> /\ Front(<<t, u>>) = <<t>>
      BY ONLY LastOfFew
    <3> QED  BY <3>2
  <2>3. Top = t /\ Front(printing) = <<>> /\ \A x : Append(Front(printing), x) = <<x>>
    BY <2>1, <2>2, Zenon DEF Top
  <2> QED  BY <2>1, <2>3, CursorsOfFew, Zenon
<1>2. CASE \E t, u : /\ printing = <<t, u>> /\ ActOk(t) /\ ActOk(u)
               /\ \/ t.place = "spin_lock" /\ Holds(u)
                  \/ u.place = "spin_lock" /\ t.place # "spin_lock" /\ Holds(t)
  <2>1. PICK t, u : /\ printing = <<t, u>> /\ ActOk(t) /\ ActOk(u)
               /\ \/ t.place = "spin_lock" /\ Holds(u)
                  \/ u.place = "spin_lock" /\ t.place # "spin_lock" /\ Holds(t)
    BY <1>2, Zenon
  <2>2. ASSUME NEW x
        PROVE  Last(<<t, u>>) = u /\ Append(Front(<<t, u>>), x) = <<t, x>> /\ Front(<<t, u>>) = <<t>>
    <3>1. /\ Last(<<t>>) = t /\ Last(<<t, u>>) = u
          /\ Append(Front(<<t>>), x) = <<x>> /\ Append(Front(<<t, u>>), x) = <<t, x>>
          /\ Front(<<t>>) = <<>> /\ Front(<<t, u>>) = <<t>>
      BY ONLY LastOfFew
    <3> QED  BY <3>1
  <2>3. Top = u /\ Front(printing) = <<t>> /\ \A x : Append(Front(printing), x) = <<t, x>>
    BY <2>1, <2>2, Zenon DEF Top
  <2>4. t.place = "spin_lock"
    BY <2>1, <2>3, Zenon DEF Holds
  <2>5. One(t) = {}
    BY <2>4 DEF One
  <2>6. \A x : One(t) \cup One(x) = One(x)
    BY <2>5
  <2> QED  BY <2>1, <2>3, <2>5, <2>6, CursorsOfFew, Zenon
<1> QED  BY <1>1, <1>2, Zenon DEF PrintingInv

VgaFields == {"hi", "lo", "ram", "from"}
ScreenCursor == vga.hi * CrtRadix + vga.lo

\* The screen is right if its cursor is c.
CursorOk(c) ==
  /\ DOMAIN vga = VgaFields /\ DOMAIN vga.ram = 0 .. (ScreenSize - 1)
  /\ c \in Nat /\ c < ScreenSize
  /\ vga.from < Columns * Lines => Shown(vga.ram, sent["vga"], Positions(vga.from, sent["vga"]), c)

ScreenInv ==
  /\ ScreenCursor \in Nat /\ ScreenCursor < ScreenSize
  /\ (CursorsOf(printing) = {} => CursorOk(ScreenCursor))
  /\ \A c \in CursorsOf(printing) : CursorOk(c)

\* Whatever does not concern the screen.
LEMMA ScreenKept ==
  ASSUME ScreenInv, vga' = vga, sent'["vga"] = sent["vga"], CursorsOf(printing') = CursorsOf(printing)
  PROVE  ScreenInv'
<1>1. ScreenCursor' = ScreenCursor
  BY Zenon DEF ScreenCursor
<1>2. \A c : CursorOk(c) => CursorOk(c)'
  BY Zenon DEF CursorOk
<1> QED  BY <1>1, <1>2, Zenon DEF ScreenInv

\* A step of a call from a place that is not the screen to another one.
LEMMA OffScreen ==
  ASSUME PrintingInv, ScreenInv, printing # <<>>, Top.place # "vga", Top.place # "spin_lock" \/ ~console_lock,
         vga' = vga, sent'["vga"] = sent["vga"],
         NEW x, printing' = Append(Front(printing), x), x.place # "vga"
  PROVE  ScreenInv'
<1>1. One(Top) = {} /\ One(x) = {}
  BY DEF One
<1>2. CursorsOf(printing') = CursorsOf(printing)
  BY <1>1, CursorOfTop, Zenon
<1> QED  BY <1>2, ScreenKept, Zenon

\* The instructions that leave the screen alone.
LEMMA OffScreenStep ==
  ASSUME PrintingInv, OutTypes, ScreenInv,
         spin_lock \/ CheckLevel \/ pr_prefix \/ FormatLine \/ porte9_write \/ uart8250_putc \/ uart8250_write
  PROVE  ScreenInv'
<1>1. /\ printing # <<>> /\ vga' = vga
      /\ Top.place \in {"spin_lock", "level", "prefix", "cont", "porte9", "uart", "lsr"}
      /\ (Top.place = "spin_lock" => ~console_lock)
  BY DEF spin_lock, CheckLevel, pr_prefix, FormatLine, porte9_write, uart8250_putc, uart8250_write, In, KeepDevices
<1>2. Top.place # "vga" /\ (Top.place # "spin_lock" \/ ~console_lock)
  BY <1>1, Zenon
<1>3. DOMAIN Top = ActFields
  <2>1. ActOk(Top)
    BY <1>1, <1>2, TopIsHolder, Zenon
  <2> QED  BY <2>1, Zenon DEF ActOk
<1>4. sent'["vga"] = sent["vga"]
  <2>1. CASE sent' = sent
    BY <2>1, Zenon
  <2>2. CASE porte9_write
    <3>1. "vga" \in DOMAIN sent /\ "vga" # "porte9"
      BY DEF OutTypes, ConsoleNames
    <3>2. PICK s : sent' = [sent EXCEPT !["porte9"] = s]
      BY <2>2, Zenon DEF porte9_write
    <3> QED  BY <3>1, <3>2, Zenon
  <2>3. sent' = sent \/ porte9_write
    BY Zenon DEF spin_lock, CheckLevel, pr_prefix, FormatLine, uart8250_putc, uart8250_write, KeepDevices
  <2> QED  BY <2>1, <2>2, <2>3
<1>5. "place" \in ActFields /\ "i" \in ActFields /\ "len" \in ActFields /\ "con" \in ActFields
  BY DEF ActFields
<1>6. PICK x : printing' = Append(Front(printing), x) /\ x.place # "vga"
  <2>1. CASE spin_lock
    <3>1. PICK x : x = [Top EXCEPT !.place = "level"] /\ printing' = Append(Front(printing), x)
      BY <2>1, Zenon DEF spin_lock, Goto
    <3>2. x.place # "vga"
      BY <1>3, <1>5, <3>1
    <3> QED  BY <3>1, <3>2
  <2>2. CASE CheckLevel
    <3>1. PICK x, p : /\ x = [Top EXCEPT !.place = p] /\ printing' = Append(Front(printing), x)
                      /\ p = (IF (IF Top.level = LOGLEVEL_CONT THEN curlevel ELSE Top.level) > loglevel
                              THEN "done" ELSE IF Top.level = LOGLEVEL_CONT THEN "cont" ELSE "prefix")
      BY <2>2, Zenon DEF CheckLevel, Goto
    <3>2. x.place = p /\ p # "vga"
      BY <1>3, <1>5, <3>1
    <3> QED  BY <3>1, <3>2
  <2>3. CASE pr_prefix \/ FormatLine
    <3>1. PICK x, p, l : /\ x = [Top EXCEPT !.place = p, !.len = l] /\ printing' = Append(Front(printing), x)
                         /\ p \in {"cont", "consoles"}
      BY <2>3, Zenon DEF pr_prefix, FormatLine, Goto
    <3>2. x.place = p /\ p # "vga"
      BY <1>3, <1>5, <3>1
    <3> QED  BY <3>1, <3>2
  <2>4. CASE porte9_write \/ uart8250_write
    <3>1. PICK x : /\ x = [Top EXCEPT !.place = "consoles", !.con = @ + 1] /\ printing' = Append(Front(printing), x)
      BY <2>4, Zenon DEF porte9_write, uart8250_write, WriteDone, Goto
    <3>2. x.place = "consoles"
      BY <1>3, <1>5, <3>1
    <3> QED  BY <3>1, <3>2
  <2>5. CASE uart8250_putc
    <3>1. CASE Goto([Top EXCEPT !.place = "lsr"])
      <4>1. PICK x : x = [Top EXCEPT !.place = "lsr"] /\ printing' = Append(Front(printing), x)
        BY <3>1, Zenon DEF Goto
      <4>2. x.place = "lsr"
        BY <1>3, <1>5, <4>1
      <4> QED  BY <4>1, <4>2
    <3>2. CASE Goto([Top EXCEPT !.place = "uart", !.i = @ + 1])
      <4>1. PICK x : x = [Top EXCEPT !.place = "uart", !.i = @ + 1] /\ printing' = Append(Front(printing), x)
        BY <3>2, Zenon DEF Goto
      <4>2. x.place = "uart"
        BY <1>3, <1>5, <4>1
      <4> QED  BY <4>1, <4>2
    <3> QED  BY <2>5, <3>1, <3>2, Zenon DEF uart8250_putc
  <2> QED  BY <2>1, <2>2, <2>3, <2>4, <2>5, Zenon
<1> QED  BY <1>1, <1>2, <1>4, <1>6, OffScreen, Zenon

LEMMA UnlockScreen ==
  ASSUME PrintingInv, ScreenInv, spin_unlock
  PROVE  ScreenInv'
<1>1. printing # <<>> /\ Top.place = "done" /\ vga' = vga /\ sent' = sent
  BY Zenon DEF spin_unlock, In, KeepDevices
<1>2. Top.place # "spin_lock" /\ Top.place # "vga"
  BY <1>1
<1>3. CASE printing' = Front(printing)
  BY <1>2, <1>1, <1>3, CursorOfTop, ScreenKept DEF One
<1>4. CASE printing' = Append(Front(printing), Activation(LOGLEVEL_INFO, Head(Top.rest), Tail(Top.rest)))
  <2>1. PICK x : x = Activation(LOGLEVEL_INFO, Head(Top.rest), Tail(Top.rest))
    OBVIOUS
  <2>2. x.place = "spin_lock"
    BY <2>1 DEF Activation
  <2>3. x.place # "vga"
    BY <2>2
  <2> QED  BY <1>1, <1>2, <1>4, <2>1, <2>3, OffScreen, Zenon
<1> QED  BY <1>3, <1>4, Zenon DEF spin_unlock

\* The driver takes the cursor from the registers.
LEMMA CursorTaken ==
  ASSUME PrintingInv, ScreenInv, NextConsole
  PROVE  ScreenInv'
<1>1. printing # <<>> /\ Top.place = "consoles" /\ vga' = vga /\ sent' = sent
  BY Zenon DEF NextConsole, In, KeepDevices
<1>2. Top.place # "spin_lock" /\ Top.place # "vga"
  BY <1>1
<1>3. DOMAIN Top = ActFields
  <2>1. ActOk(Top)
    BY <1>1, <1>2, TopIsHolder, Zenon
  <2> QED  BY <2>1, Zenon DEF ActOk
<1>4. PICK x, p : /\ x = [Top EXCEPT !.place = p, !.i = 1, !.cur = vga.hi * CrtRadix + vga.lo]
                  /\ printing' = Append(Front(printing), x)
  BY Zenon DEF NextConsole, Goto
<1>5. x.cur = ScreenCursor
  <2>1. PICK c : c = vga.hi * CrtRadix + vga.lo
    OBVIOUS
  <2>2. x.cur = c
    BY <1>3, <1>4, <2>1 DEF ActFields
  <2> QED  BY <2>1, <2>2, Zenon DEF ScreenCursor
<1>6. CursorsOf(printing) = {} /\ CursorsOf(printing') = One(x)
  <2>1. One(Top) = {}
    BY <1>2, Zenon DEF One
  <2> QED  BY <1>1, <1>2, <1>4, <2>1, CursorOfTop, Zenon
<1>7. CursorOk(ScreenCursor) /\ ScreenCursor \in Nat /\ ScreenCursor < ScreenSize
  BY <1>6, Zenon DEF ScreenInv
<1>8. CursorOk(ScreenCursor)' /\ ScreenCursor' = ScreenCursor
  BY <1>1, <1>7, Zenon DEF CursorOk, ScreenCursor
<1>9. \A c \in One(x) : c = ScreenCursor'
  BY <1>5, <1>8, Zenon DEF One
<1> QED  BY <1>6, <1>7, <1>8, <1>9, Zenon DEF ScreenInv, CursorOk

\* A character is shown.
LEMMA CharacterStep ==
  ASSUME PrintingInv, OutTypes, ScreenInv, vgacon_write, In("vga"), ~LineDone
  PROVE  ScreenInv'
<1>1. printing # <<>> /\ Top.place = "vga"
  BY Zenon DEF In
<1>2. Top.place # "spin_lock" /\ Top.place \in DeviceLines
  BY <1>1 DEF DeviceLines
<1>3. ActOk(Top) /\ LineOk(Top)
  BY <1>1, <1>2, OnTheWay, Zenon
<1>4. DOMAIN Top = ActFields /\ buf \in Seq(Chars) /\ Top.i \in 1 .. Len(buf) + 1 /\ Top.len = Len(buf)
  BY <1>1, <1>3 DEF ActOk, LineOk, OutTypes
<1>5. buf[Top.i] \in Chars
  BY <1>4 DEF LineDone
<1>6. PICK after, x : /\ after = vgacon_putc(vga.ram, Top.cur, buf[Top.i])
                      /\ vga' = [vga EXCEPT !.ram = after.ram]
                      /\ x = [Top EXCEPT !.i = @ + 1, !.cur = after.cur]
                      /\ printing' = Append(Front(printing), x)
  BY Zenon DEF vgacon_write, Goto
<1>7. sent' = [sent EXCEPT !["vga"] = Append(@, buf[Top.i])]
  BY Zenon DEF vgacon_write
<1>8. x.place = "vga" /\ x.cur = after.cur
  BY <1>1, <1>4, <1>6 DEF ActFields
<1>9. CursorsOf(printing) = {Top.cur} /\ CursorsOf(printing') = {after.cur}
  <2>1. One(Top) = {Top.cur} /\ One(x) = {after.cur}
    BY <1>1, <1>8, Zenon DEF One
  <2> QED  BY <1>1, <1>2, <1>6, <2>1, CursorOfTop, Zenon
<1>10. CursorOk(Top.cur)
  BY <1>9, Zenon DEF ScreenInv
<1>11. PICK text, c : text = sent["vga"] /\ text \in Seq(Chars) /\ c = buf[Top.i] /\ c \in Chars
  BY <1>5 DEF OutTypes, ConsoleNames
<1>12. sent'["vga"] = Append(text, c)
  <2>1. "vga" \in DOMAIN sent
    BY DEF OutTypes, ConsoleNames
  <2> QED  BY <1>7, <1>11, <2>1, Zenon
<1>13. /\ DOMAIN vga' = VgaFields /\ vga'.ram = after.ram /\ vga'.from = vga.from /\ vga'.hi = vga.hi
       /\ vga'.lo = vga.lo
  <2>1. DOMAIN vga = VgaFields
    BY <1>10, Zenon DEF CursorOk
  <2> QED  BY <1>6, <2>1 DEF VgaFields
<1>14. after.cur \in Nat /\ after.cur < ScreenSize /\ DOMAIN after.ram = 0 .. (ScreenSize - 1)
  BY <1>10, <1>6, CursorStays DEF CursorOk
<1>15. ASSUME vga.from < Columns * Lines
       PROVE  Shown(after.ram, Append(text, c), Positions(vga.from, Append(text, c)), after.cur)
  BY <1>10, <1>11, <1>15, PositionsOfMore, <1>6, CharacterShown DEF CursorOk
<1>16. CursorOk(after.cur)'
  BY <1>12, <1>13, <1>14, <1>15, Zenon DEF CursorOk
<1>17. ScreenCursor' = ScreenCursor
  BY <1>13, Zenon DEF ScreenCursor
<1> QED  BY <1>9, <1>16, <1>17, Zenon DEF ScreenInv

\* The driver gives the cursor back.
LEMMA CursorGiven ==
  ASSUME PrintingInv, ScreenInv, vgacon_write, ~(In("vga") /\ ~LineDone)
  PROVE  ScreenInv'
<1>1. /\ printing # <<>> /\ Top.place = "vga" /\ sent' = sent /\ WriteDone
      /\ vga' = [vga EXCEPT !.hi = Top.cur \div CrtRadix, !.lo = Top.cur % CrtRadix]
  BY Zenon DEF vgacon_write, In
<1>2. Top.place # "spin_lock"
  BY <1>1
<1>3. ActOk(Top)
  BY <1>1, <1>2, TopIsHolder, Zenon
<1>4. PICK x : x = [Top EXCEPT !.place = "consoles", !.con = @ + 1] /\ printing' = Append(Front(printing), x)
  BY <1>1, Zenon DEF WriteDone, Goto
<1>5. x.place = "consoles"
  BY <1>3, <1>4 DEF ActOk, ActFields
<1>6. CursorsOf(printing) = {Top.cur} /\ CursorsOf(printing') = {}
  <2>1. One(Top) = {Top.cur} /\ One(x) = {}
    BY <1>1, <1>5 DEF One
  <2> QED  BY <1>1, <1>2, <1>4, <2>1, CursorOfTop, Zenon
<1>7. PICK c : c = Top.cur /\ CursorOk(c)
  BY <1>6, Zenon DEF ScreenInv
<1>8. c \in Nat /\ c < ScreenSize /\ DOMAIN vga = VgaFields
  BY <1>7, Zenon DEF CursorOk
<1>9. PICK h, l : h = c \div CrtRadix /\ l = c % CrtRadix
  OBVIOUS
<1>10. c = h * CrtRadix + l
  BY <1>8, <1>9, ScreenConstants, Division
<1>11. DOMAIN vga' = VgaFields /\ vga'.ram = vga.ram /\ vga'.from = vga.from /\ vga'.hi = h /\ vga'.lo = l
  BY <1>1, <1>7, <1>8, <1>9 DEF VgaFields
<1>12. ScreenCursor' = c
  BY <1>10, <1>11, Zenon DEF ScreenCursor
<1>13. CursorOk(c)'
  BY <1>1, <1>7, <1>11, Zenon DEF CursorOk
<1>14. CursorOk(ScreenCursor)'
  BY <1>12, <1>13, Zenon DEF CursorOk
<1> QED  BY <1>6, <1>8, <1>12, <1>14, Zenon DEF ScreenInv

LEMMA CallersScreen ==
  ASSUME PrintingInv, ScreenInv, Callers
  PROVE  ScreenInv'
<1>1. vga' = vga /\ sent' = sent
  BY Zenon DEF Callers, printk, panic, do_trap, KeepDevices
<1>2. \A level, text, rest : One(Activation(level, text, rest)) = {}
  BY DEF One, Activation
<1>3. CASE \E level, text, rest : printing = <<>> /\ printing' = <<Activation(level, text, rest)>>
  <2>1. CursorsOf(printing') = CursorsOf(printing)
    BY <1>2, <1>3, CursorsOfFew, Zenon
  <2> QED  BY <1>1, <2>1, ScreenKept, Zenon
<1>4. CASE \E level, text, rest : Len(printing) = 1 /\ printing' = Append(printing, Activation(level, text, rest))
  <2>1. PICK x : Len(printing) = 1 /\ printing' = Append(printing, x) /\ One(x) = {}
    BY <1>2, <1>4, Zenon
  <2>2. \A t, u : Len(<<t, u>>) # 1
    OBVIOUS
  <2>3. Len(<<>>) # 1
    OBVIOUS
  <2>4. PICK t : printing = <<t>>
    BY <2>1, <2>2, <2>3, Zenon DEF PrintingInv
  <2>5. printing' = <<t, x>>
    <3>1. PICK u : u = x
      OBVIOUS
    <3>2. /\ Head(<<t>>) = t /\ Head(<<t, u>>) = t /\ Tail(<<t>>) = <<>> /\ Tail(<<t, u>>) = <<u>>
          /\ Append(<<>>, x) = <<x>> /\ Append(<<t>>, x) = <<t, x>> /\ <<t>> # <<>> /\ <<t, u>> # <<>>
      BY ONLY TailOfFew
    <3> QED  BY <2>1, <2>4, <3>2, Zenon
  <2>6. One(t) \cup One(x) = One(t)
    BY <2>1
  <2>7. CursorsOf(printing') = CursorsOf(printing)
    BY <2>4, <2>5, <2>6, CursorsOfFew, Zenon
  <2> QED  BY <1>1, <2>7, ScreenKept, Zenon
<1> QED  BY <1>3, <1>4, Zenon DEF Callers, printk, panic, do_trap

LEMMA TransmitScreen ==
  ASSUME OutTypes, ScreenInv, Transmit
  PROVE  ScreenInv'
<1>1. vga' = vga /\ printing' = printing /\ sent' = [sent EXCEPT !["uart"] = Append(sent["uart"], uart.thr)]
  BY Zenon DEF Transmit
<1>2. "vga" \in DOMAIN sent /\ "vga" # "uart"
  BY DEF OutTypes, ConsoleNames
<1>3. sent'["vga"] = sent["vga"]
  BY <1>1, <1>2, Zenon
<1>4. CursorsOf(printing') = CursorsOf(printing)
  BY <1>1, Zenon
<1> QED  BY <1>1, <1>3, <1>4, ScreenKept, Zenon

\* The screen as main() finds it.
LEMMA ScreenTaken ==
  ASSUME PrintkInit
  PROVE  ScreenInv
<1>1. PICK cursor \in {0, Columns * Lines - 1, ScreenSize - 1} :
        vga = [hi |-> cursor \div CrtRadix, lo |-> cursor % CrtRadix,
               ram |-> [k \in 0 .. (ScreenSize - 1) |-> Blank], from |-> cursor]
  BY Zenon DEF PrintkInit
<1>2. cursor \in Nat /\ cursor < ScreenSize
  <2>1. /\ Columns \in Nat \ {0} /\ ScreenSize \in Nat /\ ScreenSize = Columns * Lines + Columns
        /\ Columns * Lines = Columns * (Lines - 1) + Columns /\ Columns * (Lines - 1) \in Nat
    BY ScreenConstants
  <2>2. PICK m \in Nat : m = Columns * (Lines - 1)
    BY <2>1
  <2>3. Columns * Lines = m + Columns /\ ScreenSize = m + Columns + Columns
    BY <2>1, <2>2
  <2> QED  BY <2>1, <2>3
<1>3. PICK h, l : h = cursor \div CrtRadix /\ l = cursor % CrtRadix
  OBVIOUS
<1>4. cursor = h * CrtRadix + l
  BY <1>2, <1>3, ScreenConstants, Division
<1>5. PICK ram : ram = [k \in 0 .. (ScreenSize - 1) |-> Blank]
  OBVIOUS
<1>6. DOMAIN vga = VgaFields /\ vga.hi = h /\ vga.lo = l /\ vga.ram = ram /\ vga.from = cursor
  BY <1>1, <1>3, <1>5 DEF VgaFields
<1>7. ScreenCursor = cursor
  BY <1>4, <1>6, Zenon DEF ScreenCursor
<1>8. printing = <<>> /\ sent["vga"] = <<>>
  <2>1. printing = <<>> /\ sent = [c \in {"uart", "vga", "porte9"} |-> <<>>]
    BY Zenon DEF PrintkInit
  <2> QED  BY <2>1
<1>9. DOMAIN ram = 0 .. (ScreenSize - 1) /\ \A k \in 0 .. (ScreenSize - 1) : ram[k] = Blank
  BY <1>5, Zenon
<1>10. ASSUME cursor < Columns * Lines
       PROVE  Shown(ram, <<>>, Positions(cursor, <<>>), cursor)
  <2>1. PICK at : at = Positions(cursor, <<>>) /\ at[0] = cursor
    BY PositionsOfNone
  <2>2. PICK row \in Nat, col \in 0 .. (Columns - 1) : cursor = row * Columns + col
    <3>1. /\ cursor \div Columns \in Nat /\ cursor % Columns \in 0 .. (Columns - 1)
          /\ cursor = (cursor \div Columns) * Columns + (cursor % Columns)
      BY <1>2, ScreenConstants, Division
    <3> QED  BY <3>1, Zenon
  <2>3. cursor = Columns * row + col
    BY <2>2, ScreenConstants
  <2>4. row < Lines
    <3>1. CASE Lines <= row
      BY <3>1, ScreenConstants, RowsInOrder, <1>2, <1>10, <2>3
    <3> QED  BY <3>1, ScreenConstants
  <2>5. ScrolledBy(row) = 0
    BY <2>4, Zenon DEF ScrolledBy
  <2>6. CursorAt(cursor, row, col)
    <3>1. row - 0 = row
      OBVIOUS
    <3> QED  BY <2>3, <2>5, <3>1, Zenon DEF CursorAt
  <2>7. Len(<<>>) = 0 /\ <<>> \in Seq(Chars)
    OBVIOUS
  <2>8. InFront(<<>>, at)
    BY <1>2, <2>1 DEF InFront
  <2>9. Window(ram, <<>>, at, 0)
    <3>1. ASSUME NEW k \in 0 .. (Columns * Lines - 1) PROVE ram[k] = Page(<<>>, at, k + Columns * 0)
      <4>1. k \in 0 .. (ScreenSize - 1)
        BY ScreenConstants
      <4>2. PICK p : p = k + Columns * 0
        OBVIOUS
      <4>3. DOMAIN <<>> = {}
        OBVIOUS
      <4>4. Hits(<<>>, at, p) = {}
        BY <4>3, Zenon DEF Hits
      <4>5. Page(<<>>, at, p) = Blank
        BY <4>4, Zenon DEF Page, Hits
      <4> QED  BY <1>9, <4>1, <4>2, <4>5, Zenon
    <3> QED  BY <3>1, Zenon DEF Window
  <2>10. at[Len(<<>>)] = Columns * row + col
    BY <2>1, <2>3, <2>7
  <2> QED  BY <1>9, <2>1, <2>5, <2>6, <2>8, <2>9, <2>10, Zenon DEF Shown
<1>11. CursorOk(cursor)
  BY <1>2, <1>6, <1>8, <1>9, <1>10, Zenon DEF CursorOk
<1>12. CursorsOf(printing) = {}
  BY <1>8, CursorsOfFew, Zenon
<1>13. CursorOk(ScreenCursor)
  BY <1>7, <1>11, Zenon
<1> QED  BY <1>2, <1>7, <1>12, <1>13, Zenon DEF ScreenInv

-----------------------------------------------------------------------------
(***************************************************************************)
(* The screen.                                                             *)
(***************************************************************************)
\* A run that is about the traps leaves the screen alone.
ScreenOff == vga.from = ScreenSize /\ ScreenCursor = 0 /\ printing = <<>>

\* The inductive invariant: at every character of a line the screen is the
\* window, with the cursor of the call that writes it.
VgaInv == PrintkInv /\ IF part = "printk" THEN ScreenInv ELSE ScreenOff

LEMMA VgaInvInit ==
  ASSUME Init
  PROVE  VgaInv
<1>1. PrintkInv
  BY PrintkInvInit
<1>2. CASE part = "printk"
  <2>1. PrintkInit
    BY <1>2, Zenon DEF Init
  <2> QED  BY <1>1, <1>2, <2>1, ScreenTaken, Zenon DEF VgaInv
<1>3. CASE part # "printk"
  <2>1. vga = [hi |-> 0, lo |-> 0, from |-> ScreenSize] /\ printing = <<>>
    BY <1>3, Zenon DEF Init, PrintkIdle
  <2>2. vga.hi = 0 /\ vga.lo = 0 /\ vga.from = ScreenSize
    BY <2>1
  <2>3. ScreenCursor = 0
    <3>1. 0 * CrtRadix + 0 = 0
      BY ScreenConstants
    <3> QED  BY <2>2, <3>1, Zenon DEF ScreenCursor
  <2> QED  BY <1>1, <1>3, <2>1, <2>2, <2>3, Zenon DEF VgaInv, ScreenOff
<1> QED  BY <1>2, <1>3

LEMMA VgaInvStep ==
  ASSUME VgaInv, [Next]_vars
  PROVE  VgaInv'
<1>1. PrintkInv /\ PrintkInv'
  BY PrintkInvStep, Zenon DEF VgaInv
<1>2. CASE part = "printk" /\ PrintkNext /\ part' = part
  <2>1. OutTypes /\ PrintingInv /\ ScreenInv
    BY <1>1, <1>2, Zenon DEF PrintkInv, VgaInv
  <2>2. CASE Drivers
    <3>1. vga' = vga /\ sent' = sent /\ printing' = printing
      BY <2>2, Zenon DEF Drivers, vgacon_init, porte9_init, uart8250_init, KeepLine
    <3>2. ScreenInv'
      BY <2>1, <3>1, ScreenKept, Zenon
    <3> QED  BY <1>1, <1>2, <3>2, Zenon DEF VgaInv
  <2>3. CASE vprintk
    <3>1. CASE spin_lock \/ CheckLevel \/ pr_prefix \/ FormatLine \/ porte9_write \/ uart8250_putc \/ uart8250_write
      <4>1. ScreenInv'
        BY <2>1, <3>1, OffScreenStep, Zenon
      <4> QED  BY <1>1, <1>2, <4>1, Zenon DEF VgaInv
    <3>2. CASE NextConsole
      BY <1>1, <1>2, <2>1, <3>2, CursorTaken, Zenon DEF VgaInv
    <3>3. CASE vgacon_write
      BY <1>1, <1>2, <2>1, <3>3, CharacterStep, CursorGiven, Zenon DEF VgaInv
    <3>4. CASE spin_unlock
      BY <1>1, <1>2, <2>1, <3>4, UnlockScreen, Zenon DEF VgaInv
    <3> QED  BY <2>3, <3>1, <3>2, <3>3, <3>4, Zenon DEF vprintk
  <2>4. CASE Callers
    BY <1>1, <1>2, <2>1, <2>4, CallersScreen, Zenon DEF VgaInv
  <2>5. CASE Transmit
    BY <1>1, <1>2, <2>1, <2>5, TransmitScreen, Zenon DEF VgaInv
  <2> QED  BY <1>2, <2>2, <2>3, <2>4, <2>5, Zenon DEF PrintkNext
<1>3. CASE UNCHANGED <<part, printkVars>>
  <2>1. part' = part /\ vga' = vga /\ sent' = sent /\ printing' = printing
    BY <1>3, Zenon DEF printkVars
  <2>2. ScreenInv => ScreenInv'
    BY <2>1, ScreenKept
  <2>3. ScreenOff => ScreenOff'
    BY <2>1, Zenon DEF ScreenOff, ScreenCursor
  <2> QED  BY <1>1, <2>1, <2>2, <2>3, Zenon DEF VgaInv
<1> QED  BY <1>2, <1>3, Zenon DEF Next, Traps, Consoles, vars

\* With the lock free the cursor is in the registers.
LEMMA ScreenShown ==
  ASSUME VgaInv
  PROVE  ScreenIsRight
<1>1. CASE part # "printk"
  <2>1. vga.from = ScreenSize /\ ScreenCursor = 0 /\ printing = <<>>
    BY <1>1, Zenon DEF VgaInv, ScreenOff
  <2>2. ~(ScreenSize < Columns * Lines) /\ 0 < ScreenSize
    BY ScreenConstants
  <2>3. ScreenIsTail
    BY <2>1, <2>2, Zenon DEF ScreenIsTail
  <2>4. CursorOnScreen
    BY <2>1, <2>2, Zenon DEF CursorOnScreen, ScreenCursor, In
  <2> QED  BY <2>3, <2>4, Zenon DEF ScreenIsRight
<1>2. CASE part = "printk"
  <2>1. OutTypes /\ PrintingInv /\ ScreenInv
    BY <1>2, Zenon DEF VgaInv, PrintkInv
  <2>2. CursorOnScreen
    <3>1. ScreenCursor < ScreenSize
      BY <2>1, Zenon DEF ScreenInv
    <3>2. ASSUME In("vga") PROVE Top.cur < ScreenSize
      BY <3>2, <2>1, CursorOfTop DEF In, One, ScreenInv, CursorOk
    <3> QED  BY <3>1, <3>2, Zenon DEF CursorOnScreen, ScreenCursor
  <2>3. ASSUME ~console_lock PROVE CursorsOf(printing) = {}
    <3>1. CASE printing = <<>>
      BY <3>1, CursorsOfFew, Zenon
    <3>2. CASE printing # <<>>
      BY <2>1, <2>3, <3>2, TopIsHolder, CursorOfTop DEF Holds, One
    <3> QED  BY <3>1, <3>2
  <2>4. ScreenIsTail
    <3> DEFINE text == sent["vga"]
               at == Positions(vga.from, text)
               cursor == at[Len(text)]
               row == cursor \div Columns
               scroll == Columns * (IF row < Lines THEN 0 ELSE row - Lines + 1)
               tail == /\ vga.hi * CrtRadix + vga.lo = cursor - scroll
                       /\ \A k \in 0 .. (Columns * Lines - 1) : vga.ram[k] = Page(text, at, k + scroll)
    <3>1. ASSUME ~console_lock, vga.from < Columns * Lines PROVE tail
      <4>1. scroll = Columns * ScrolledBy(row)
        BY Zenon DEF ScrolledBy
      <4> HIDE DEF scroll
      <4>2. scroll = Columns * ScrolledBy(cursor \div Columns)
        BY <4>1
      <4> HIDE DEF text, at, cursor
      <4>3. text = sent["vga"] /\ at = Positions(vga.from, text) /\ cursor = at[Len(text)]
        BY DEF text, at, cursor
      <4>4. /\ ScreenCursor = cursor - scroll
            /\ \A k \in 0 .. (Columns * Lines - 1) : vga.ram[k] = Page(text, at, k + scroll)
        <5>1. CursorOk(ScreenCursor)
          BY <2>1, <2>3, <3>1, Zenon DEF ScreenInv
        <5>2. Shown(vga.ram, text, at, ScreenCursor)
          BY <3>1, <4>3, <5>1, Zenon DEF CursorOk
        <5>3. PICK line, col : /\ CursorAt(ScreenCursor, line, col) /\ cursor = Columns * line + col
                              /\ Window(vga.ram, text, at, ScrolledBy(line))
          BY <4>3, <5>2, Zenon DEF Shown
        <5>4. line \in Nat /\ col \in 0 .. (Columns - 1)
          BY <5>3, Zenon DEF CursorAt
        <5>5. cursor \div Columns = line
          BY <5>3, <5>4, ScreenConstants, RowAndColumn
        <5>6. PICK s, c : s = ScrolledBy(line) /\ c = ScreenCursor
          OBVIOUS
        <5>7. c \in Nat /\ Columns * s \in Nat /\ cursor = c + Columns * s
          BY <5>3, <5>6, EndAndCursor
        <5>8. scroll = Columns * s
          BY <4>2, <5>5, <5>6, Zenon
        <5>9. c = cursor - scroll
          BY <5>7, <5>8
        <5>10. \A k \in 0 .. (Columns * Lines - 1) : vga.ram[k] = Page(text, at, k + scroll)
          BY <5>3, <5>6, <5>8, Zenon DEF Window
        <5> QED  BY <5>6, <5>9, <5>10
      <4> QED  BY <4>4, Zenon DEF ScreenCursor
    <3> HIDE DEF tail
    <3>2. (~console_lock /\ vga.from < Columns * Lines) => tail
      BY <3>1
    <3> QED  BY <3>2 DEF ScreenIsTail, tail
  <2> QED  BY <2>2, <2>4, Zenon DEF ScreenIsRight
<1> QED  BY <1>1, <1>2

\* For every size of the screen, every text and every cursor the screen was
\* taken over with: it shows the end of the text with the cursor behind it,
\* and nothing is stored outside of the screen.
THEOREM ScreenIsAlwaysRight == Spec => []ScreenIsRight
<1>1. Init => VgaInv
  BY VgaInvInit
<1>2. VgaInv /\ [Next]_vars => VgaInv'
  BY VgaInvStep
<1>3. VgaInv => ScreenIsRight
  BY ScreenShown
<1> QED  BY <1>1, <1>2, <1>3, PTL DEF Spec
====
