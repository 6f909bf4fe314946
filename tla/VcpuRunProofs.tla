--------------------------- MODULE VcpuRunProofs ---------------------------
(***************************************************************************)
(* Proofs about VcpuRun, for every guest program, word size, instruction   *)
(* length and initial launch state of the VMCS.                            *)
(***************************************************************************)
EXTENDS VcpuRun, TLAPS

\* The boot state satisfies LaunchInv: no handler accepts the zeroed exit
\* information of a fresh VMCS.
LEMMA LaunchInvInit == Init => LaunchInv
  BY DEF Init, LaunchInv, NothingToHandle

\* A handler that returns to kvm_loop found an event it accepts, and leaves
\* launch state, launched and fail alone.
LEMMA ReturningHandler ==
  ASSUME vmx_handle_exit, mode' = "run"
  PROVE  /\ mode = "exit"
         /\ ~NothingToHandle
         /\ UNCHANGED <<vmcsState, launched, fail>>
  <1>1. ~handle_wrmsr_panics /\ ~handle_exception_panics /\ ~handle_exit_panics
    BY DEF handle_wrmsr_panics, handle_exception_panics, handle_exit_panics, Panic
  <1>2. CASE kvm_emulate_cpuid
    BY <1>2 DEF kvm_emulate_cpuid, Dispatched, BackToLoop, hostVars, NothingToHandle
  <1>3. CASE handle_rdtsc
    BY <1>3 DEF handle_rdtsc, Dispatched, BackToLoop, hostVars, NothingToHandle
  <1>4. CASE handle_cr
    BY <1>4 DEF handle_cr, Dispatched, BackToLoop, hostVars, NothingToHandle
  <1>5. CASE handle_wrmsr
    BY <1>5 DEF handle_wrmsr, Dispatched, BackToLoop, hostVars, NothingToHandle
  <1>6. CASE handle_ept_violation
    BY <1>6 DEF handle_ept_violation, Dispatched, BackToLoop, hostVars, NothingToHandle
  <1>7. CASE handle_syscall
    BY <1>7 DEF handle_syscall, IsUd, Dispatched, BackToLoop, hostVars, NothingToHandle
  <1>8. CASE handle_sysret
    BY <1>8 DEF handle_sysret, IsUd, Dispatched, BackToLoop, hostVars, NothingToHandle
  <1> QED
    BY <1>1, <1>2, <1>3, <1>4, <1>5, <1>6, <1>7, <1>8 DEF vmx_handle_exit

\* A handler returns to kvm_loop or panics.
LEMMA HandlerOutcome ==
  ASSUME vmx_handle_exit
  PROVE  mode' \in {"run", "dead"}
  BY DEF vmx_handle_exit, kvm_emulate_cpuid, handle_rdtsc, handle_cr, handle_wrmsr,
         handle_wrmsr_panics, handle_ept_violation, handle_syscall, handle_sysret,
         handle_exception_panics, handle_exit_panics, BackToLoop, Panic

\* Every step of the processor and of kvm_loop preserves LaunchInv.
LEMMA LaunchInvStep == LaunchInv /\ [Next]_vars => LaunchInv'
  <1> SUFFICES ASSUME LaunchInv, [Next]_vars PROVE LaunchInv'
    OBVIOUS
  <1> USE DEF LaunchInv
  <1>1. CASE GuestFetch
    BY <1>1 DEF GuestFetch, cpuVars, hostVars, NothingToHandle
  <1>2. CASE GuestExecutes
    BY <1>2 DEF GuestExecutes, hostVars, NothingToHandle
  <1>3. CASE GuestMeetsEptViolation
    BY <1>3 DEF GuestMeetsEptViolation, VmExit, SetLaunched
  <1>4. CASE GuestTraps
    BY <1>4 DEF GuestTraps, VmExit, SetLaunched
  <1>5. CASE GuestFaults
    <2>1. PICK len \in UdLengths :
            VmExit([reason |-> "exception_nmi",
                    vector |-> IF cur.kind = "pagefault" THEN 14 ELSE 6,
                    len |-> len], TRUE)
      BY <1>5 DEF GuestFaults
    <2>2. /\ mode' = "exit"
          /\ launched' = TRUE
          /\ fail' = FALSE
          /\ vmcsState' = vmcsState
      BY <2>1 DEF VmExit, SetLaunched
    <2> QED
      BY <1>5, <2>2 DEF GuestFaults
  <1>6. CASE EnterGuest
    BY <1>6 DEF EnterGuest
  <1>7. CASE EntryFails
    BY <1>7 DEF EntryFails, EntryInstructionOK, SetLaunched, cpuVars, NothingToHandle
  <1>8. CASE EntryRejected
    BY <1>8 DEF EntryRejected, SetLaunched, NothingToHandle
  <1>9. CASE vmx_handle_exit
    <2>1. CASE mode' = "run"
      BY <1>9, <2>1, ReturningHandler
    <2>2. CASE mode' = "dead"
      BY <2>2
    <2> QED
      BY <1>9, <2>1, <2>2, HandlerOutcome
  <1>10. CASE UNCHANGED vars
    BY <1>10 DEF vars, cpuVars, hostVars, NothingToHandle
  <1> QED
    BY <1>1, <1>2, <1>3, <1>4, <1>5, <1>6, <1>7, <1>8, <1>9, <1>10
    DEF Next, GuestStep, vmx_vcpu_run

\* vmx->launched always agrees with the launch state the processor keeps,
\* except before the first entry of vmx_vcpu_run.
THEOREM LaunchInvariant == Spec => []LaunchInv
  BY LaunchInvInit, LaunchInvStep, PTL DEF Spec

\* Although vmx_vcpu_run never reports a failed entry, no handler of
\* vmx_handle_exit that returns to kvm_loop ever works on the information of
\* an exit that was handled before.
THEOREM ExitsAreHandledOnce == Spec => NoStaleDispatch
  <1>1. LaunchInv /\ [Next]_vars => [mode = "exit" /\ mode' = "run" => ~fail]_vars
    <2> SUFFICES ASSUME LaunchInv, Next, mode = "exit", mode' = "run"
                 PROVE  ~fail
      OBVIOUS
    <2>1. vmx_handle_exit
      BY DEF Next, GuestFetch, GuestStep, GuestExecutes, GuestMeetsEptViolation,
             GuestTraps, GuestFaults, vmx_vcpu_run, EnterGuest, EntryFails, EntryRejected
    <2> QED
      BY <2>1, ReturningHandler DEF LaunchInv
  <1> QED
    BY <1>1, LaunchInvariant, PTL DEF Spec, NoStaleDispatch

-----------------------------------------------------------------------------
(***************************************************************************)
(* VcpuRun implements GuestCpu.  RunInv says what the refinement rests on: *)
(* between an exit and the return of its handler the exit information      *)
(* describes the instruction the guest was executing, an entry can only    *)
(* fail before the first instruction, and the guest state is accepted      *)
(* while an instruction is under way.                                      *)
(***************************************************************************)

\* The guest's state as the monitor keeps it while the guest does not run.
Saved == [gpr |-> regs, rip |-> vmcs.rip, rflags |-> vmcs.rflags,
          shadow |-> vmcs.shadow, cpl |-> vmcs.cpl, cr3 |-> vmcs.cr3,
          msr |-> guestMsrs]

VmcsTypes ==
  [rip : Words, rflags : SUBSET Flags, shadow : BOOLEAN, cpl : {0, 3}, cr3 : Words]

\* The exit reasons an instruction of the guest leads to.
Reasons == {"cpuid", "rdtsc", "cr_access", "wrmsr", "rdmsr", "other",
            "exception_nmi", "ept_violation"}

InfoTypes == [reason : Reasons \cup {"invalid_state"}, vector : Nat, len : Words]

RunTypeOK ==
  /\ hw \in Contexts
  /\ vmcs \in VmcsTypes
  /\ regs \in [Regs -> Words]
  /\ guestMsrs \in [lstar : Words, fmask : Words]
  /\ cur \in Instrs \cup {NoInstr}
  /\ info \in InfoTypes
  /\ count \in Nat
  /\ dev \in [icr : Words, apicbase : Words]
  /\ fail \in BOOLEAN /\ launched \in BOOLEAN

Unbroken(s) == s.shadow => "IF" \in s.rflags

\* The kinds of instruction that lead to an exit, by its reason.
Causes(reason) ==
  CASE reason = "cpuid" -> {"cpuid"}
    [] reason = "rdtsc" -> {"rdtsc"}
    [] reason = "cr_access" -> {"movcr3"}
    [] reason = "wrmsr" -> {"wrmsr"}
    [] reason = "rdmsr" -> {"rdmsr_vmx"}
    [] reason = "other" -> {"nohandler"}
    [] reason = "exception_nmi" -> {"syscall", "sysret", "badop", "pagefault"}
    [] OTHER -> {"mov"} \cup AllKinds

\* The exit at hand was caused by the current instruction.
ExitMatches ==
  /\ info.reason \in Reasons
  /\ cur \in Instrs
  /\ cur.kind \in Causes(info.reason)
  /\ info.reason \in {"cpuid", "rdtsc", "cr_access", "wrmsr"} => info.len = InstrLen(cur)
  /\ info.reason = "wrmsr" => ~RunsNatively(cur, Saved)
  /\ info.reason = "exception_nmi" =>
       /\ info.vector = (IF cur.kind = "pagefault" THEN 14 ELSE 6)
       /\ info.len \in UdLengths

ExitInv ==
  mode = "exit" /\ ~fail =>
    \/ info.reason = "invalid_state" /\ cur = NoInstr /\ ~Unbroken(Saved)
    \/ ExitMatches /\ Unbroken(Saved)

StartInv ==
  /\ mode = "run" /\ ~launched => cur = NoInstr /\ count = 0
  /\ mode = "exit" /\ fail => cur = NoInstr /\ count = 0

ShadowInv ==
  /\ mode = "guest" => Unbroken(hw)
  /\ mode = "run" /\ cur # NoInstr => Unbroken(Saved)

RunInv == RunTypeOK /\ LaunchInv /\ ExitInv /\ StartInv /\ ShadowInv

-----------------------------------------------------------------------------
\* Arithmetic on words.
LEMMA WordFacts ==
  /\ W \in Nat /\ W >= 25
  /\ \A x, y \in Words : (x + y) % W \in Words
  /\ 0 \in Words /\ 1 \in Words /\ 2 \in Words /\ 3 \in Words
  /\ \A x \in Nat : x <= H + 2 => x \in Words
<1>1. H \in Nat /\ H >= 5
  BY HalfHasRoom
<1>2. H * H \in Nat /\ H * H >= 25 /\ H * H > H + 2
  BY <1>1
<1>3. W \in Nat /\ W >= 25 /\ W > H + 2
  BY <1>2 DEF W
<1>4. \A x, y \in Words : (x + y) % W \in Words
  BY <1>3 DEF Words
<1> QED
  BY <1>1, <1>3, <1>4 DEF Words

\* Splitting a word into halves and joining two halves.
LEMMA HalfFacts ==
  /\ \A w \in Words : Lo(w) \in Halves /\ Hi(w) \in Halves
  /\ Halves \subseteq Words
  /\ \A v, w \in Words : Join(v, w) \in Words
<1>1. H \in Nat /\ H >= 5 /\ W = H * H
  BY HalfHasRoom DEF W
<1>2. ASSUME NEW w \in Words PROVE Lo(w) \in Halves
  BY <1>1, WordFacts DEF Words, Lo, Halves
<1>3. ASSUME NEW w \in Words PROVE Hi(w) \in Halves
  <2>1. w \in Nat /\ w < H * H
    BY <1>1, WordFacts DEF Words
  <2>2. w \div H \in Nat /\ H * (w \div H) <= w
    BY <1>1, <2>1
  <2>3. w \div H < H
    <3> SUFFICES ASSUME w \div H >= H PROVE FALSE
      BY <1>1, <2>2
    <3>1. H * (w \div H) >= H * H
      BY <1>1, <2>2
    <3> QED
      BY <1>1, <2>1, <2>2, <3>1
  <2> QED
    BY <2>2, <2>3, <1>1 DEF Hi, Halves
<1>4. Halves \subseteq Words
  BY <1>1, WordFacts DEF Halves
<1>5. ASSUME NEW v \in Words, NEW w \in Words PROVE Join(v, w) \in Words
  <2>1. Lo(v) \in Nat /\ Lo(v) <= H - 1 /\ Lo(w) \in Nat /\ Lo(w) <= H - 1
    BY <1>1, <1>2 DEF Halves
  <2>2. Lo(v) * H \in Nat /\ Lo(v) * H <= (H - 1) * H
    BY <1>1, <2>1
  <2>3. (H - 1) * H = H * H - H
    BY <1>1
  <2> QED
    BY <1>1, <2>1, <2>2, <2>3 DEF Join, Words
<1> QED
  BY <1>2, <1>3, <1>4, <1>5

\* RFLAGS and its word, as SYSCALL and SYSRET convert them.
LEMMA FlagFacts ==
  /\ \A f \in SUBSET Flags : WordOf(f) \in Words
  /\ \A w : FlagsOf(w) \in SUBSET Flags
  BY WordFacts DEF WordOf, FlagsOf, Flags

\* What the guest may fetch.
LEMMA InstrFacts ==
  /\ NoInstr \notin Instrs
  /\ \A c \in Instrs : /\ c.kind \in {"mov"} \cup AllKinds
                       /\ c.kind = "mov" => c.reg \in Regs /\ c.val \in Words
                       /\ InstrLen(c) \in Words /\ InstrLen(c) \in 1 .. 3
                       /\ c.kind # "none"
<1>1. ASSUME NEW c \in Instrs
      PROVE  /\ c.kind \in {"mov"} \cup AllKinds
             /\ c.kind = "mov" => c.reg \in Regs /\ c.val \in Words
  <2>1. CASE c \in {[kind |-> "mov", reg |-> m[1], val |-> m[2]] : m \in Movs}
    <3>1. PICK m \in Movs : c = [kind |-> "mov", reg |-> m[1], val |-> m[2]]
      BY <2>1
    <3>2. m[1] \in Regs /\ m[2] \in Words
      BY GuestProgramOK
    <3> QED
      BY <3>1, <3>2
  <2>2. CASE c \in {[kind |-> k, reg |-> "rax", val |-> 0] : k \in Kinds}
    <3>1. PICK k \in Kinds : c = [kind |-> k, reg |-> "rax", val |-> 0]
      BY <2>2
    <3>2. c.kind \in AllKinds /\ c.kind # "mov"
      BY <3>1, GuestProgramOK DEF AllKinds
    <3> QED
      BY <3>2
  <2> QED
    BY <1>1, <2>1, <2>2 DEF Instrs
<1>2. \A c \in Instrs : c.kind # "none"
  BY <1>1 DEF AllKinds
<1>3. \A c \in Instrs : InstrLen(c) \in 1 .. 3
  BY DEF InstrLen
<1>4. \A c \in Instrs : InstrLen(c) \in Words
  BY <1>3, WordFacts
<1>5. NoInstr \notin Instrs
  BY <1>2 DEF NoInstr
<1> QED
  BY <1>1, <1>2, <1>3, <1>4, <1>5

-----------------------------------------------------------------------------
(***************************************************************************)
(* Contexts, field by field: two contexts with the same fields are equal,  *)
(* so a step is compared with its abstract effect one field at a time.     *)
(***************************************************************************)
HasFields(t, gpr, rip, rflags, shadow, cpl, cr3, msr) ==
  /\ t \in Contexts
  /\ t.gpr = gpr
  /\ t.rip = rip
  /\ t.rflags = rflags
  /\ t.shadow = shadow
  /\ t.cpl = cpl
  /\ t.cr3 = cr3
  /\ t.msr = msr

\* The state of the abstract processor: RF is not part of it.
Strip(s) == [s EXCEPT !.rflags = @ \ {"RF"}]

\* The types of the fields of a context.
LEMMA ContextFields ==
  ASSUME NEW s \in Contexts
  PROVE  /\ s.gpr \in [Regs -> Words] /\ s.rip \in Words /\ s.rflags \in SUBSET Flags
         /\ s.shadow \in BOOLEAN /\ s.cpl \in {0, 3} /\ s.cr3 \in Words
         /\ s.msr \in [lstar : Words, fmask : Words]
  BY DEF Contexts

\* A context is determined by its fields.
LEMMA SameFields ==
  ASSUME NEW s \in Contexts, NEW t,
         HasFields(t, s.gpr, s.rip, s.rflags, s.shadow, s.cpl, s.cr3, s.msr)
  PROVE  t = s
  BY DEF Contexts, HasFields

\* Leaving RF out changes no other field.
LEMMA StripFields ==
  ASSUME NEW s \in Contexts, NEW t, t = Strip(s)
  PROVE  HasFields(t, s.gpr, s.rip, s.rflags \ {"RF"}, s.shadow, s.cpl, s.cr3, s.msr)
  BY DEF Strip, Contexts, HasFields

\* Completing an instruction moves RIP, clears RF and ends the STI shadow.
LEMMA AdvanceFields ==
  ASSUME NEW s \in Contexts, NEW c \in Instrs, NEW t, t = Advance(c, s)
  PROVE  HasFields(t, s.gpr, (s.rip + InstrLen(c)) % W, s.rflags \ {"RF"}, FALSE,
                   s.cpl, s.cr3, s.msr)
  BY WordFacts, InstrFacts DEF Advance, Contexts, HasFields

\* The effect of a register load.
LEMMA MovFields ==
  ASSUME NEW s \in Contexts, NEW r \in Regs, NEW v \in Words,
         NEW t, t = [s EXCEPT !.gpr[r] = v]
  PROVE  HasFields(t, [s.gpr EXCEPT ![r] = v], s.rip, s.rflags, s.shadow, s.cpl, s.cr3, s.msr)
  BY DEF Contexts, HasFields

\* A change of the general registers alone.
LEMMA GprFields ==
  ASSUME NEW s \in Contexts, NEW v \in [Regs -> Words], NEW t, t = [s EXCEPT !.gpr = v]
  PROVE  HasFields(t, v, s.rip, s.rflags, s.shadow, s.cpl, s.cr3, s.msr)
  BY DEF Contexts, HasFields

\* The effect of STI.
LEMMA StiFields ==
  ASSUME NEW s \in Contexts, NEW b \in BOOLEAN,
         NEW t, t = [s EXCEPT !.rflags = @ \cup {"IF"}, !.shadow = b]
  PROVE  HasFields(t, s.gpr, s.rip, s.rflags \cup {"IF"}, b, s.cpl, s.cr3, s.msr)
  BY DEF Contexts, Flags, HasFields

\* The effect of CLI.
LEMMA CliFields ==
  ASSUME NEW s \in Contexts, NEW t, t = [s EXCEPT !.rflags = @ \ {"IF"}]
  PROVE  HasFields(t, s.gpr, s.rip, s.rflags \ {"IF"}, s.shadow, s.cpl, s.cr3, s.msr)
  BY DEF Contexts, HasFields

\* The effect of writing MSR_LSTAR.
LEMMA LstarFields ==
  ASSUME NEW s \in Contexts, NEW v \in Words, NEW t, t = [s EXCEPT !.msr.lstar = v]
  PROVE  HasFields(t, s.gpr, s.rip, s.rflags, s.shadow, s.cpl, s.cr3,
                   [s.msr EXCEPT !.lstar = v])
  BY DEF Contexts, HasFields

\* The effect of writing MSR_SYSCALL_MASK.
LEMMA FmaskFields ==
  ASSUME NEW s \in Contexts, NEW v \in Words, NEW t, t = [s EXCEPT !.msr.fmask = v]
  PROVE  HasFields(t, s.gpr, s.rip, s.rflags, s.shadow, s.cpl, s.cr3,
                   [s.msr EXCEPT !.fmask = v])
  BY DEF Contexts, HasFields

\* The effect of a CR3 write.
LEMMA Cr3Fields ==
  ASSUME NEW s \in Contexts, NEW v \in Words, NEW t, t = [s EXCEPT !.cr3 = v]
  PROVE  HasFields(t, s.gpr, s.rip, s.rflags, s.shadow, s.cpl, v, s.msr)
  BY DEF Contexts, HasFields

\* The effect of SYSCALL.
LEMMA SyscallFields ==
  ASSUME NEW s \in Contexts, NEW a \in Words, NEW b \in Words,
         NEW ip \in Words, NEW fl \in SUBSET Flags, NEW t,
         t = [s EXCEPT !.gpr["rcx"] = a, !.gpr["r11"] = b, !.rip = ip, !.cpl = 0,
                       !.rflags = fl]
  PROVE  HasFields(t, [s.gpr EXCEPT !["rcx"] = a, !["r11"] = b], ip, fl, s.shadow, 0,
                   s.cr3, s.msr)
  BY DEF Contexts, Regs, HasFields

\* The effect of SYSRET.
LEMMA SysretFields ==
  ASSUME NEW s \in Contexts, NEW b \in BOOLEAN, NEW ip \in Words, NEW fl \in SUBSET Flags,
         NEW t, t = [s EXCEPT !.rip = ip, !.cpl = 3, !.shadow = b, !.rflags = fl]
  PROVE  HasFields(t, s.gpr, ip, fl, b, 3, s.cr3, s.msr)
  BY DEF Contexts, HasFields

\* Nothing the processor decides depends on RF.
LEMMA StripFacts ==
  ASSUME NEW s \in Contexts, NEW t, t = Strip(s)
  PROVE  /\ MsrIndex(t) = MsrIndex(s)
         /\ EdxEax(t) = EdxEax(s)
         /\ \A c : RunsNatively(c, t) <=> RunsNatively(c, s)
         /\ \A c \in Instrs : Advance(c, t) = Advance(c, s)
<1>1. HasFields(t, s.gpr, s.rip, s.rflags \ {"RF"}, s.shadow, s.cpl, s.cr3, s.msr)
  BY StripFields
<1>2. t.gpr = s.gpr
  BY <1>1 DEF HasFields
<1>3. ASSUME NEW c \in Instrs PROVE Advance(c, t) = Advance(c, s)
  <2> DEFINE a == Advance(c, s)
             b == Advance(c, t)
  <2>1. HasFields(a, s.gpr, (s.rip + InstrLen(c)) % W, s.rflags \ {"RF"}, FALSE,
                  s.cpl, s.cr3, s.msr)
    BY AdvanceFields
  <2>2. HasFields(b, t.gpr, (t.rip + InstrLen(c)) % W, t.rflags \ {"RF"}, FALSE,
                  t.cpl, t.cr3, t.msr)
    <3>1. t \in Contexts
      BY <1>1 DEF HasFields
    <3> QED
      BY <3>1, AdvanceFields
  <2> HIDE DEF a, b
  <2>3. a \in Contexts /\ HasFields(b, a.gpr, a.rip, a.rflags, a.shadow, a.cpl, a.cr3, a.msr)
    BY <1>1, <2>1, <2>2 DEF HasFields
  <2>4. b = a
    BY <2>3, SameFields
  <2> QED
    BY <2>4 DEF a, b
<1> QED
  BY <1>2, <1>3 DEF MsrIndex, EdxEax, RunsNatively

\* Executing an instruction natively gives a context the processor accepts,
\* without RF, and does not depend on RF.
LEMMA NativeFacts ==
  ASSUME NEW s \in Contexts, NEW c \in Instrs, RunsNatively(c, s),
         NEW n, n = NativeEffect(c, s)
  PROVE  /\ n \in Contexts
         /\ Unbroken(n)
         /\ "RF" \notin n.rflags
         /\ NativeEffect(c, Strip(s)) = n
<1> DEFINE t == Advance(c, s)
           z == Strip(s)
<1>1. HasFields(t, s.gpr, (s.rip + InstrLen(c)) % W, s.rflags \ {"RF"}, FALSE,
                s.cpl, s.cr3, s.msr)
  BY AdvanceFields
<1>2. /\ MsrIndex(z) = MsrIndex(s) /\ EdxEax(z) = EdxEax(s) /\ Advance(c, z) = t
      /\ "IF" \in z.rflags <=> "IF" \in s.rflags
  BY StripFacts, StripFields DEF HasFields
<1>3. EdxEax(s) \in Words
  BY ContextFields, HalfFacts DEF EdxEax, Regs
<1>4. NativeEffect(c, z) = n /\ t \in Contexts
  BY <1>1, <1>2 DEF NativeEffect, HasFields
<1>5. CASE c.kind = "mov"
  <2>1. c.reg \in Regs /\ c.val \in Words
    BY <1>5, InstrFacts
  <2>2. n = [t EXCEPT !.gpr[c.reg] = c.val]
    BY <1>5 DEF NativeEffect
  <2> HIDE DEF t, z
  <2>3. HasFields(n, [t.gpr EXCEPT ![c.reg] = c.val], t.rip, t.rflags, t.shadow, t.cpl, t.cr3, t.msr)
    BY <2>1, <2>2, <1>4, MovFields
  <2> QED
    BY <2>3, <1>1, <1>4 DEF HasFields, Unbroken, z
<1>6. CASE c.kind = "sti"
  <2>1. n = [t EXCEPT !.rflags = @ \cup {"IF"}, !.shadow = "IF" \notin s.rflags]
    BY <1>6 DEF NativeEffect
  <2> HIDE DEF t, z
  <2>2. HasFields(n, t.gpr, t.rip, t.rflags \cup {"IF"}, "IF" \notin s.rflags, t.cpl, t.cr3, t.msr)
    BY <2>1, <1>4, StiFields
  <2> QED
    BY <2>2, <1>1, <1>4 DEF HasFields, Unbroken, z
<1>7. CASE c.kind = "cli"
  <2>1. n = [t EXCEPT !.rflags = @ \ {"IF"}]
    BY <1>7 DEF NativeEffect
  <2> HIDE DEF t, z
  <2>2. HasFields(n, t.gpr, t.rip, t.rflags \ {"IF"}, t.shadow, t.cpl, t.cr3, t.msr)
    BY <2>1, <1>4, CliFields
  <2> QED
    BY <2>2, <1>1, <1>4 DEF HasFields, Unbroken, z
<1>8. CASE c.kind = "wrmsr" /\ MsrIndex(s) = MSR_LSTAR
  <2>1. n = [t EXCEPT !.msr.lstar = EdxEax(s)]
    BY <1>8 DEF NativeEffect, MSR_LSTAR, MSR_SYSCALL_MASK
  <2> HIDE DEF t, z
  <2>2. HasFields(n, t.gpr, t.rip, t.rflags, t.shadow, t.cpl, t.cr3, [t.msr EXCEPT !.lstar = EdxEax(s)])
    BY <2>1, <1>3, <1>4, LstarFields
  <2> QED
    BY <2>2, <1>1, <1>4 DEF HasFields, Unbroken, z
<1>9. CASE c.kind = "wrmsr" /\ MsrIndex(s) = MSR_SYSCALL_MASK
  <2>1. n = [t EXCEPT !.msr.fmask = EdxEax(s)]
    BY <1>9 DEF NativeEffect, MSR_LSTAR, MSR_SYSCALL_MASK
  <2> HIDE DEF t, z
  <2>2. HasFields(n, t.gpr, t.rip, t.rflags, t.shadow, t.cpl, t.cr3, [t.msr EXCEPT !.fmask = EdxEax(s)])
    BY <2>1, <1>3, <1>4, FmaskFields
  <2> QED
    BY <2>2, <1>1, <1>4 DEF HasFields, Unbroken, z
<1> QED
  BY <1>5, <1>6, <1>7, <1>8, <1>9 DEF RunsNatively

-----------------------------------------------------------------------------
(***************************************************************************)
(* RunInv is an invariant.                                                 *)
(***************************************************************************)
\* A context put together from the VMCS, vcpu->regs and the MSR list.
LEMMA SavedFields ==
  ASSUME NEW v \in VmcsTypes, NEW r \in [Regs -> Words], NEW m \in [lstar : Words, fmask : Words],
         NEW t, t = [gpr |-> r, rip |-> v.rip, rflags |-> v.rflags, shadow |-> v.shadow,
                     cpl |-> v.cpl, cr3 |-> v.cr3, msr |-> m]
  PROVE  HasFields(t, r, v.rip, v.rflags, v.shadow, v.cpl, v.cr3, m)
  BY DEF VmcsTypes, Contexts, HasFields

\* What a VM exit leaves in the places the monitor reads.
LEMMA ExitSaves ==
  ASSUME RunTypeOK, NEW i, NEW faultLike \in BOOLEAN, VmExit(i, faultLike)
  PROVE  /\ vmcs' \in VmcsTypes
         /\ vmcs'.rip = hw.rip /\ vmcs'.shadow = hw.shadow /\ vmcs'.cpl = hw.cpl
         /\ vmcs'.cr3 = hw.cr3
         /\ vmcs'.rflags \ {"RF"} = hw.rflags \ {"RF"}
         /\ regs' = hw.gpr /\ regs' \in [Regs -> Words]
         /\ guestMsrs' = hw.msr /\ guestMsrs' \in [lstar : Words, fmask : Words]
         /\ hw' \in Contexts /\ info' = i
         /\ mode' = "exit" /\ fail' = FALSE /\ launched' = TRUE
         /\ cur' = cur /\ count' = count /\ dev' = dev
<1> DEFINE f == IF faultLike THEN hw.rflags \cup {"RF"} ELSE hw.rflags
           u == VmcsFields(hw)
           v == [u EXCEPT !.rflags = f]
<1>1. hw \in Contexts
  BY DEF RunTypeOK
<1>2. /\ hw.gpr \in [Regs -> Words] /\ hw.rip \in Words /\ hw.rflags \in SUBSET Flags
      /\ hw.shadow \in BOOLEAN /\ hw.cpl \in {0, 3} /\ hw.cr3 \in Words
      /\ hw.msr \in [lstar : Words, fmask : Words]
  BY <1>1, ContextFields
<1>3. f \in SUBSET Flags /\ f \ {"RF"} = hw.rflags \ {"RF"}
  BY <1>2 DEF Flags
<1>4. vmcs' = v
  BY DEF VmExit, VmcsFields
<1> HIDE DEF f
<1>5. /\ v \in VmcsTypes /\ v.rip = hw.rip /\ v.shadow = hw.shadow /\ v.cpl = hw.cpl
      /\ v.cr3 = hw.cr3 /\ v.rflags = f
  BY <1>2, <1>3 DEF VmcsFields, VmcsTypes
<1> HIDE DEF v
<1> QED
  BY <1>2, <1>3, <1>4, <1>5, VcpuRunConstants DEF VmExit, SaveGuestRegisters, SetLaunched

\* RunInv holds when an exit has saved the state of a guest that had a
\* current instruction, and the exit information is about it.
LEMMA ExitInvHolds ==
  ASSUME RunInv, NEW i, NEW faultLike \in BOOLEAN, VmExit(i, faultLike), LaunchInv', mode = "guest",
         cur \in Instrs, i \in InfoTypes,
         i.reason \in Reasons,
         cur.kind \in Causes(i.reason),
         i.reason \in {"cpuid", "rdtsc", "cr_access", "wrmsr"} => i.len = InstrLen(cur),
         i.reason = "wrmsr" => ~RunsNatively(cur, hw),
         i.reason = "exception_nmi" => /\ i.vector = (IF cur.kind = "pagefault" THEN 14 ELSE 6)
                                       /\ i.len \in UdLengths
  PROVE  RunInv'
<1> DEFINE t == Saved'
<1>1. /\ vmcs' \in VmcsTypes
      /\ vmcs'.rip = hw.rip /\ vmcs'.shadow = hw.shadow /\ vmcs'.cpl = hw.cpl
      /\ vmcs'.cr3 = hw.cr3
      /\ vmcs'.rflags \ {"RF"} = hw.rflags \ {"RF"}
      /\ regs' = hw.gpr /\ regs' \in [Regs -> Words]
      /\ guestMsrs' = hw.msr /\ guestMsrs' \in [lstar : Words, fmask : Words]
      /\ hw' \in Contexts /\ info' = i
      /\ mode' = "exit" /\ fail' = FALSE /\ launched' = TRUE
      /\ cur' = cur /\ count' = count /\ dev' = dev
  BY ExitSaves DEF RunInv
<1>2. HasFields(t, regs', vmcs'.rip, vmcs'.rflags, vmcs'.shadow, vmcs'.cpl, vmcs'.cr3, guestMsrs')
  BY <1>1, SavedFields DEF Saved
<1>3. RunTypeOK'
  BY <1>1 DEF RunInv, RunTypeOK
<1>4. Unbroken(t)
  <2>1. Unbroken(hw)
    BY DEF RunInv, ShadowInv
  <2> QED
    BY <1>1, <1>2, <2>1 DEF Unbroken, HasFields
<1>5. RunsNatively(cur, t) <=> RunsNatively(cur, hw)
  BY <1>1, <1>2 DEF HasFields, RunsNatively, MsrIndex
<1> HIDE DEF t
<1>6. ExitMatches'
  <2>1. ~RunsNatively(cur', Saved') <=> ~RunsNatively(cur, hw)
    BY <1>1, <1>5 DEF t
  <2> QED
    BY <1>1, <2>1 DEF ExitMatches
<1>7. ExitInv'
  BY <1>1, <1>4, <1>6 DEF ExitInv, t
<1> QED
  BY <1>1, <1>3, <1>7 DEF RunInv, StartInv, ShadowInv

\* RunInv holds when create_vcpu and vmx_vcpu_setup are done.
LEMMA RunInvInit == Init => RunInv
<1> SUFFICES ASSUME Init PROVE RunInv
  OBVIOUS
<1>1. vmcs \in VmcsTypes /\ regs \in [Regs -> Words] /\ guestMsrs \in [lstar : Words, fmask : Words]
  BY WordFacts DEF Init, VmcsTypes, VmcsFields, BootContext
<1>2. info \in InfoTypes /\ dev \in [icr : Words, apicbase : Words]
  BY WordFacts DEF Init, InfoTypes, Reasons, BootDevices
<1>3. hw \in Contexts /\ cur = NoInstr /\ count \in Nat /\ fail \in BOOLEAN /\ launched \in BOOLEAN
  BY VcpuRunConstants DEF Init
<1>4. RunTypeOK
  BY <1>1, <1>2, <1>3 DEF RunTypeOK
<1> QED
  BY <1>4, LaunchInvInit DEF RunInv, Init, ExitInv, StartInv, ShadowInv

\* A handler that returns to kvm_loop works on an exit of the current
\* instruction.
LEMMA HandlerContext ==
  ASSUME RunInv, vmx_handle_exit, mode' = "run"
  PROVE  /\ mode = "exit" /\ fail = FALSE /\ launched = TRUE
         /\ ExitMatches /\ Unbroken(Saved)
         /\ launched' = TRUE
<1>1. mode = "exit" /\ ~NothingToHandle /\ UNCHANGED <<vmcsState, launched, fail>>
  BY ReturningHandler
<1>2. fail = FALSE /\ launched = TRUE
  BY <1>1 DEF RunInv, LaunchInv
<1> QED
  BY <1>1, <1>2 DEF RunInv, ExitInv, NothingToHandle

\* RunInv holds when a handler has emulated the instruction, if what it
\* stores is of the right type.
LEMMA EmulatedInv ==
  ASSUME RunInv, vmx_handle_exit, LaunchInv', Emulated, BackToLoop,
         vmcs' \in VmcsTypes, regs' \in [Regs -> Words], dev' \in [icr : Words, apicbase : Words]
  PROVE  RunInv'
<1>1. /\ mode' = "run" /\ hw' = hw /\ info' = info /\ guestMsrs' = guestMsrs
      /\ launched' = launched /\ fail' = fail /\ cur' = NoInstr /\ count' = count + 1
  BY DEF Emulated, BackToLoop, hostVars
<1>2. launched' = TRUE
  BY <1>1, HandlerContext
<1>3. RunTypeOK'
  BY <1>1 DEF RunInv, RunTypeOK
<1> QED
  BY <1>1, <1>2, <1>3 DEF RunInv, ExitInv, StartInv, ShadowInv

\* A panic leaves everything but the mode alone.
LEMMA PanicInv ==
  ASSUME RunInv, LaunchInv', Panic
  PROVE  RunInv'
<1>1. mode' = "dead" /\ UNCHANGED <<cpuVars, hostVars, dev, cur, count>>
  BY DEF Panic
<1>2. RunTypeOK'
  BY <1>1 DEF RunInv, RunTypeOK, cpuVars, hostVars
<1> QED
  BY <1>1, <1>2 DEF RunInv, ExitInv, StartInv, ShadowInv

\* skip_emulated_instruction moves RIP and ends the shadow of STI.
LEMMA SkipFields ==
  ASSUME RunTypeOK, NEW v \in VmcsTypes, NEW t, t = skip_emulated_instruction(v)
  PROVE  /\ t \in VmcsTypes
         /\ t.rip = (v.rip + info.len) % W /\ t.rflags = v.rflags /\ t.shadow = FALSE
         /\ t.cpl = v.cpl /\ t.cr3 = v.cr3
<1>1. info.len \in Words
  BY DEF RunTypeOK, InfoTypes
<1> QED
  BY <1>1, WordFacts DEF VmcsTypes, skip_emulated_instruction

\* The CPUID emulation gives the guest what GuestCpu specifies.
LEMMA CpuidResultFacts ==
  ASSUME NEW leaf \in Halves, NEW out, out = CpuidResult(leaf, NativeCpuid[leaf])
  PROVE  out \in [{"rax", "rbx", "rcx", "rdx"} -> Words]
<1> DEFINE native == NativeCpuid[leaf]
<1>1. native \in [{"rax", "rbx", "rcx", "rdx"} -> Halves]
  BY GuestProgramOK
<1>2. \A x \in Halves : x \in Nat /\ x <= H + 2 /\ x \in Words
  BY HalfHasRoom, WordFacts DEF Halves
<1> HIDE DEF native
<1>3. CASE leaf = 1
  <2> DEFINE c == native["rcx"]
             noVmx == c - (c % 2)
             v == IF (noVmx \div 2) % 2 = 1 THEN noVmx ELSE noVmx + 2
  <2>1. c \in Nat /\ c <= H - 1
    BY <1>1, HalfHasRoom DEF Halves
  <2>2. v \in Nat /\ v <= H + 2
    BY <2>1, HalfHasRoom
  <2>3. v \in Words
    BY <2>2, WordFacts
  <2>4. out = [native EXCEPT !["rcx"] = v]
    BY <1>3 DEF CpuidResult, native
  <2> HIDE DEF v
  <2> QED
    BY <1>1, <1>2, <2>3, <2>4
<1>4. CASE leaf \in {2, 3, 4}
  BY <1>1, <1>4, WordFacts, HalfHasRoom DEF CpuidResult, native
<1>5. CASE leaf \notin {1, 2, 3, 4}
  BY <1>1, <1>2, <1>5 DEF CpuidResult, native
<1> QED
  BY <1>3, <1>4, <1>5

\* kvm_emulate_cpuid keeps vcpu->regs well typed.
LEMMA CpuidType ==
  ASSUME regs \in [Regs -> Words], kvm_emulate_cpuid
  PROVE  regs' \in [Regs -> Words]
<1> DEFINE leaf == Lo(regs["rax"])
           out == CpuidResult(leaf, NativeCpuid[leaf])
<1>1. leaf \in Halves
  BY HalfFacts DEF Regs
<1>2. out \in [{"rax", "rbx", "rcx", "rdx"} -> Words]
  BY <1>1, CpuidResultFacts
<1>3. regs' = [r \in Regs |-> IF r \in DOMAIN out THEN out[r] ELSE regs[r]]
  BY DEF kvm_emulate_cpuid
<1> HIDE DEF out
<1> QED
  BY <1>2, <1>3

\* Every step of the processor and of kvm_loop preserves RunInv.
LEMMA RunInvStep == RunInv /\ [Next]_vars => RunInv'
<1> SUFFICES ASSUME RunInv, [Next]_vars PROVE RunInv'
  OBVIOUS
<1>0. LaunchInv'
  BY LaunchInvStep DEF RunInv
<1>1. RunTypeOK /\ hw \in Contexts /\ vmcs \in VmcsTypes /\ regs \in [Regs -> Words]
      /\ dev \in [icr : Words, apicbase : Words]
  BY DEF RunInv, RunTypeOK
<1>2. CASE GuestFetch
  <2>1. RunTypeOK'
    BY <1>2 DEF GuestFetch, RunInv, RunTypeOK, cpuVars, hostVars
  <2> QED
    BY <1>0, <1>2, <2>1 DEF GuestFetch, RunInv, ExitInv, StartInv, ShadowInv, cpuVars, hostVars
<1>3. CASE GuestExecutes
  <2>1. cur \in Instrs
    BY <1>3 DEF GuestExecutes, RunInv, RunTypeOK
  <2>2. hw' \in Contexts /\ Unbroken(hw')
    BY <1>1, <1>3, <2>1, NativeFacts DEF GuestExecutes
  <2>3. RunTypeOK'
    BY <1>3, <2>2 DEF GuestExecutes, RunInv, RunTypeOK, hostVars
  <2> QED
    BY <1>0, <1>3, <2>2, <2>3 DEF GuestExecutes, RunInv, ExitInv, StartInv, ShadowInv, hostVars
<1>4. CASE GuestMeetsEptViolation
  <2> DEFINE i == [reason |-> "ept_violation", vector |-> 0, len |-> 0]
  <2>1. mode = "guest" /\ cur \in Instrs /\ VmExit(i, TRUE)
    BY <1>4 DEF GuestMeetsEptViolation, RunInv, RunTypeOK
  <2>2. i \in InfoTypes /\ i.reason = "ept_violation" /\ i.reason \in Reasons
    BY WordFacts DEF InfoTypes, Reasons
  <2>3. cur.kind \in Causes(i.reason)
    BY <2>1, <2>2, InstrFacts DEF Causes
  <2> HIDE DEF i
  <2> QED
    BY <1>0, <2>1, <2>2, <2>3, ExitInvHolds
<1>5. CASE GuestTraps
  <2> DEFINE i == [reason |-> ExitReason(cur), vector |-> 0, len |-> InstrLen(cur)]
  <2>1. /\ mode = "guest" /\ cur \in Instrs /\ VmExit(i, FALSE) /\ ~RunsNatively(cur, hw)
        /\ cur.kind \notin {"syscall", "sysret", "badop", "pagefault"}
    BY <1>5 DEF GuestTraps, RunInv, RunTypeOK
  <2>2. cur.kind \in {"wrmsr", "cpuid", "rdtsc", "movcr3", "rdmsr_vmx", "nohandler"}
    BY <2>1, InstrFacts DEF RunsNatively, AllKinds
  <2>3. /\ ExitReason(cur) \in Reasons \ {"exception_nmi"}
        /\ cur.kind \in Causes(ExitReason(cur))
    BY <2>2 DEF ExitReason, Reasons, Causes
  <2>4. /\ i \in InfoTypes /\ i.reason = ExitReason(cur) /\ i.len = InstrLen(cur)
    BY <2>1, <2>3, WordFacts, InstrFacts DEF InfoTypes
  <2> HIDE DEF i
  <2> QED
    BY <1>0, <2>1, <2>3, <2>4, ExitInvHolds
<1>6. CASE GuestFaults
  <2>1. PICK len \in UdLengths :
          VmExit([reason |-> "exception_nmi",
                  vector |-> IF cur.kind = "pagefault" THEN 14 ELSE 6,
                  len |-> len], TRUE)
    BY <1>6 DEF GuestFaults
  <2> DEFINE i == [reason |-> "exception_nmi",
                   vector |-> IF cur.kind = "pagefault" THEN 14 ELSE 6,
                   len |-> len]
  <2>2. mode = "guest" /\ cur.kind \in {"syscall", "sysret", "badop", "pagefault"}
    BY <1>6 DEF GuestFaults
  <2>3. cur \in Instrs
    BY <2>2 DEF RunInv, RunTypeOK, NoInstr
  <2>4. /\ i \in InfoTypes /\ i.reason = "exception_nmi" /\ i.reason \in Reasons
        /\ i.len \in UdLengths /\ i.vector = (IF cur.kind = "pagefault" THEN 14 ELSE 6)
    BY VcpuRunConstants DEF InfoTypes, Reasons
  <2>5. cur.kind \in Causes(i.reason)
    BY <2>2, <2>4 DEF Causes
  <2>6. VmExit(i, TRUE)
    BY <2>1
  <2> HIDE DEF i
  <2> QED
    BY <1>0, <2>2, <2>3, <2>4, <2>5, <2>6, ExitInvHolds
<1>7. CASE EnterGuest
  <2>1. hw' = Saved
    BY <1>7 DEF EnterGuest, Saved
  <2>2. HasFields(hw', regs, vmcs.rip, vmcs.rflags, vmcs.shadow, vmcs.cpl, vmcs.cr3, guestMsrs)
    BY <1>1, <2>1, SavedFields DEF Saved, RunTypeOK
  <2>3. hw' \in Contexts /\ Unbroken(hw')
    BY <1>7, <2>2 DEF EnterGuest, GuestStateOK, Unbroken, HasFields
  <2>4. RunTypeOK'
    BY <1>7, <2>3 DEF EnterGuest, RunInv, RunTypeOK, hostVars
  <2> QED
    BY <1>0, <1>7, <2>3, <2>4 DEF EnterGuest, RunInv, ExitInv, StartInv, ShadowInv
<1>8. CASE EntryFails
  <2>1. cur = NoInstr /\ count = 0
    BY <1>8 DEF EntryFails, EntryInstructionOK, RunInv, LaunchInv, StartInv, RunTypeOK
  <2>2. RunTypeOK'
    BY <1>8 DEF EntryFails, RunInv, RunTypeOK, cpuVars, SetLaunched
  <2> QED
    BY <1>0, <1>8, <2>1, <2>2 DEF EntryFails, RunInv, ExitInv, StartInv, ShadowInv
<1>9. CASE EntryRejected
  <2>1. HasFields(Saved, regs, vmcs.rip, vmcs.rflags, vmcs.shadow, vmcs.cpl, vmcs.cr3, guestMsrs)
    BY <1>1, SavedFields DEF Saved, RunTypeOK
  <2>2. ~Unbroken(Saved) /\ cur = NoInstr
    BY <1>9, <2>1 DEF EntryRejected, GuestStateOK, Unbroken, HasFields, RunInv, ShadowInv
  <2>3. Saved' = Saved
    BY <1>9 DEF EntryRejected, Saved
  <2>4. info' \in InfoTypes /\ info'.reason = "invalid_state"
    BY <1>9, WordFacts DEF EntryRejected, InfoTypes
  <2>5. RunTypeOK'
    BY <1>9, <2>4 DEF EntryRejected, RunInv, RunTypeOK, SetLaunched
  <2> QED
    BY <1>0, <1>9, <2>2, <2>3, <2>4, <2>5
    DEF EntryRejected, RunInv, ExitInv, StartInv, ShadowInv
<1>10. CASE vmx_handle_exit
  <2>1. CASE kvm_emulate_cpuid
    <3>1. regs' \in [Regs -> Words]
      BY <1>1, <2>1, CpuidType DEF kvm_emulate_cpuid
    <3>2. vmcs' \in VmcsTypes /\ dev' = dev /\ Emulated /\ BackToLoop
      BY <1>1, <2>1, SkipFields DEF kvm_emulate_cpuid
    <3> QED
      BY <1>0, <1>1, <1>10, <3>1, <3>2, EmulatedInv
  <2>2. CASE handle_rdtsc
    <3>1. PICK val \in TscValues : regs' = kvm_write_edx_eax(val)
      BY <2>2 DEF handle_rdtsc
    <3>2. Lo(val) \in Words /\ Hi(val) \in Words
      BY GuestProgramOK, HalfFacts
    <3>3. regs' \in [Regs -> Words]
      BY <1>1, <3>1, <3>2 DEF kvm_write_edx_eax
    <3>4. vmcs' \in VmcsTypes /\ dev' = dev /\ Emulated /\ BackToLoop
      BY <1>1, <2>2, SkipFields DEF handle_rdtsc
    <3> QED
      BY <1>0, <1>1, <1>10, <3>3, <3>4, EmulatedInv
  <2>3. CASE handle_cr
    <3>1. [vmcs EXCEPT !.cr3 = regs["rax"]] \in VmcsTypes
      BY <1>1 DEF VmcsTypes, Regs
    <3>2. vmcs' \in VmcsTypes /\ dev' = dev /\ regs' = regs /\ Emulated /\ BackToLoop
      BY <1>1, <2>3, <3>1, SkipFields DEF handle_cr
    <3> QED
      BY <1>0, <1>1, <1>10, <3>2, EmulatedInv
  <2>4. CASE handle_wrmsr
    <3>1. kvm_read_edx_eax \in Words
      BY <1>1, HalfFacts DEF kvm_read_edx_eax, Regs
    <3>2. dev' \in [icr : Words, apicbase : Words]
      BY <1>1, <2>4, <3>1 DEF handle_wrmsr, WrmsrDevice
    <3>3. vmcs' \in VmcsTypes /\ regs' = regs /\ Emulated /\ BackToLoop
      BY <1>1, <2>4, SkipFields DEF handle_wrmsr
    <3> QED
      BY <1>0, <1>1, <1>10, <3>2, <3>3, EmulatedInv
  <2>5. CASE handle_ept_violation
    <3>1. mode' = "run" /\ Saved' = Saved /\ cur' = cur
      BY <2>5 DEF handle_ept_violation, BackToLoop, Saved
    <3>2. Unbroken(Saved) /\ launched' = TRUE
      BY <1>10, <3>1, HandlerContext
    <3>3. RunTypeOK'
      BY <2>5 DEF handle_ept_violation, BackToLoop, RunInv, RunTypeOK, hostVars
    <3> QED
      BY <1>0, <3>1, <3>2, <3>3 DEF RunInv, ExitInv, StartInv, ShadowInv
  <2>6. CASE handle_syscall
    <3> DEFINE next == skip_emulated_instruction(vmcs)
    <3>1. next \in VmcsTypes
      BY <1>1, SkipFields
    <3>2. /\ regs' = [regs EXCEPT !["rcx"] = next.rip, !["r11"] = WordOf(next.rflags)]
          /\ vmcs' = [next EXCEPT !.rip = guestMsrs.lstar,
                                  !.rflags = @ \ FlagsOf(guestMsrs.fmask), !.cpl = 0]
          /\ dev' = dev /\ Emulated /\ BackToLoop
      BY <2>6 DEF handle_syscall
    <3> HIDE DEF next
    <3>3. next.rip \in Words /\ next.rflags \in SUBSET Flags /\ guestMsrs.lstar \in Words
      BY <1>1, <3>1 DEF VmcsTypes, RunTypeOK
    <3>4. regs' \in [Regs -> Words]
      BY <1>1, <3>2, <3>3, FlagFacts
    <3>5. vmcs' \in VmcsTypes
      BY <3>1, <3>2, <3>3 DEF VmcsTypes
    <3> QED
      BY <1>0, <1>1, <1>10, <3>2, <3>4, <3>5, EmulatedInv
  <2>7. CASE handle_sysret
    <3>1. vmcs' \in VmcsTypes
      <4>1. regs["rcx"] \in Words /\ FlagsOf(regs["r11"]) \ {"RF"} \in SUBSET Flags
        BY <1>1, FlagFacts DEF Regs
      <4> QED
        BY <1>1, <2>7, <4>1 DEF handle_sysret, VmcsTypes
    <3> QED
      BY <1>0, <1>1, <1>10, <2>7, <3>1, EmulatedInv DEF handle_sysret
  <2>8. CASE handle_wrmsr_panics \/ handle_exception_panics \/ handle_exit_panics
    BY <1>0, <2>8, PanicInv DEF handle_wrmsr_panics, handle_exception_panics, handle_exit_panics
  <2> QED
    BY <1>10, <2>1, <2>2, <2>3, <2>4, <2>5, <2>6, <2>7, <2>8 DEF vmx_handle_exit
<1>11. CASE UNCHANGED vars
  <2>1. /\ UNCHANGED <<mode, hw, vmcs, info, regs, guestMsrs, launched, fail, dev, cur, count>>
    BY <1>11 DEF vars, cpuVars, hostVars
  <2>2. RunTypeOK'
    BY <1>1, <2>1 DEF RunTypeOK
  <2>3. ExitInv' /\ StartInv' /\ ShadowInv'
    <3>1. Saved' = Saved
      BY <2>1 DEF Saved
    <3>2. ExitMatches' <=> ExitMatches
      BY <2>1, <3>1 DEF ExitMatches
    <3> QED
      BY <2>1, <3>1, <3>2 DEF RunInv, ExitInv, StartInv, ShadowInv
  <2> QED
    BY <1>0, <2>2, <2>3 DEF RunInv
<1> QED
  BY <1>2, <1>3, <1>4, <1>5, <1>6, <1>7, <1>8, <1>9, <1>10, <1>11
  DEF Next, GuestStep, vmx_vcpu_run

\* Between two VM entries the exit information always describes the instruction
\* the guest is executing, an entry that fails is the first one, and the guest
\* state is accepted while an instruction is under way (kvm_loop).
THEOREM RunInvariant == Spec => []RunInv
  BY RunInvInit, RunInvStep, PTL DEF Spec

-----------------------------------------------------------------------------
(***************************************************************************)
(* Every step of VcpuRun is a step of GuestCpu or leaves its state alone.  *)
(***************************************************************************)

\* The instance's copies of the operators of GuestIsa are the same operators.
LEMMA SameIsa ==
  /\ GC!Instrs = Instrs
  /\ GC!NoInstr = NoInstr
  /\ \A s : GC!MsrIndex(s) = MsrIndex(s) /\ GC!EdxEax(s) = EdxEax(s)
  /\ \A w : GC!Lo(w) = Lo(w) /\ GC!Hi(w) = Hi(w) /\ GC!FlagsOf(w) = FlagsOf(w)
  /\ \A f : GC!WordOf(f) = WordOf(f)
  /\ \A c, s : GC!RunsNatively(c, s) <=> RunsNatively(c, s)
<1>1. GC!Instrs = Instrs /\ GC!NoInstr = NoInstr
  BY DEF GC!Instrs, Instrs, GC!NoInstr, NoInstr
<1>2. \A w : GC!Lo(w) = Lo(w) /\ GC!Hi(w) = Hi(w)
  BY DEF GC!Lo, Lo, GC!Hi, Hi
<1>3. \A w : GC!FlagsOf(w) = FlagsOf(w)
  BY DEF GC!FlagsOf, FlagsOf, GC!Flags, Flags
<1>4. \A f : GC!WordOf(f) = WordOf(f)
  BY DEF GC!WordOf, WordOf
<1>5. \A s : GC!MsrIndex(s) = MsrIndex(s)
  BY <1>2 DEF GC!MsrIndex, MsrIndex
<1>6. \A s : GC!EdxEax(s) = EdxEax(s)
  BY <1>2 DEF GC!EdxEax, EdxEax, GC!Join, Join
<1>7. \A c, s : GC!RunsNatively(c, s) <=> RunsNatively(c, s)
  BY <1>5 DEF GC!RunsNatively, RunsNatively, GC!MSR_LSTAR, MSR_LSTAR, GC!MSR_SYSCALL_MASK,
              MSR_SYSCALL_MASK
<1> QED
  BY <1>1, <1>2, <1>3, <1>4, <1>5, <1>6, <1>7

\* The same for the completion of an instruction.
LEMMA SameAdvance ==
  ASSUME NEW c, NEW s
  PROVE  GC!Advance(c, s) = Advance(c, s)
<1>1. GC!InstrLen(c) = InstrLen(c) /\ GC!W = W
  BY DEF GC!InstrLen, InstrLen, GC!W, W
<1> QED
  BY <1>1 DEF GC!Advance, Advance

\* The same for the instructions that run without an exit.
LEMMA SameNative ==
  ASSUME NEW c, NEW s
  PROVE  GC!NativeEffect(c, s) = NativeEffect(c, s)
  BY SameAdvance, SameIsa
  DEF GC!NativeEffect, NativeEffect, GC!MSR_LSTAR, MSR_LSTAR, GC!MSR_SYSCALL_MASK, MSR_SYSCALL_MASK

\* The guest sees the CPUID leaf that kvm_emulate_cpuid computes.
LEMMA SameCpuid ==
  ASSUME NEW leaf \in Halves
  PROVE  GC!GuestCpuid(leaf) = CpuidResult(leaf, NativeCpuid[leaf])
<1> DEFINE native == NativeCpuid[leaf]
<1>1. native \in [{"rax", "rbx", "rcx", "rdx"} -> Halves]
  BY GuestProgramOK
<1> HIDE DEF native
<1>2. CASE leaf = 1
  <2> DEFINE c == native["rcx"]
             noVmx == c - (c % 2)
             v == IF (noVmx \div 2) % 2 = 1 THEN noVmx ELSE noVmx + 2
  <2>1. c \in Nat
    BY <1>1, HalfHasRoom DEF Halves
  <2> HIDE DEF c
  <2>2. v = 4 * (c \div 4) + 2
    BY <2>1
  <2>3. CpuidResult(leaf, native) = [native EXCEPT !["rcx"] = v]
    BY <1>2 DEF CpuidResult, c
  <2>4. GC!GuestCpuid(leaf) = [native EXCEPT !["rcx"] = 4 * (c \div 4) + 2]
    BY <1>2 DEF GC!GuestCpuid, native, c
  <2> HIDE DEF v, noVmx
  <2> QED
    BY <2>2, <2>3, <2>4 DEF native
<1>3. CASE leaf \in {2, 3, 4}
  BY <1>1, <1>3 DEF CpuidResult, GC!GuestCpuid, native
<1>4. CASE leaf \notin {1, 2, 3, 4}
  BY <1>4 DEF CpuidResult, GC!GuestCpuid
<1> QED
  BY <1>2, <1>3, <1>4

\* What the abstract processor sees while the guest runs, and otherwise.
LEMMA AbstractState ==
  ASSUME RunTypeOK
  PROVE  /\ mode = "guest" => Now = hw
         /\ mode # "guest" => Now = Saved
         /\ HasFields(Saved, regs, vmcs.rip, vmcs.rflags, vmcs.shadow, vmcs.cpl, vmcs.cr3, guestMsrs)
         /\ HasFields(Strip(Saved), regs, vmcs.rip, vmcs.rflags \ {"RF"}, vmcs.shadow,
                      vmcs.cpl, vmcs.cr3, guestMsrs)
<1>1. HasFields(Saved, regs, vmcs.rip, vmcs.rflags, vmcs.shadow, vmcs.cpl, vmcs.cr3, guestMsrs)
  BY SavedFields DEF Saved, RunTypeOK
<1>2. Saved \in Contexts
  BY <1>1 DEF HasFields
<1>3. HasFields(Strip(Saved), Saved.gpr, Saved.rip, Saved.rflags \ {"RF"}, Saved.shadow,
                Saved.cpl, Saved.cr3, Saved.msr)
  BY <1>2, StripFields
<1> QED
  BY <1>1, <1>3 DEF Now, Saved, HasFields

\* The same after a step.
LEMMA AbstractStateNext ==
  ASSUME RunTypeOK'
  PROVE  /\ mode' = "guest" => Now' = hw'
         /\ mode' # "guest" => Now' = Saved'
         /\ HasFields(Saved', regs', vmcs'.rip, vmcs'.rflags, vmcs'.shadow, vmcs'.cpl,
                      vmcs'.cr3, guestMsrs')
         /\ HasFields(Strip(Saved'), regs', vmcs'.rip, vmcs'.rflags \ {"RF"}, vmcs'.shadow,
                      vmcs'.cpl, vmcs'.cr3, guestMsrs')
<1> DEFINE t == Saved'
<1>1. HasFields(t, regs', vmcs'.rip, vmcs'.rflags, vmcs'.shadow, vmcs'.cpl, vmcs'.cr3, guestMsrs')
  BY SavedFields DEF Saved, RunTypeOK
<1>2. /\ mode' = "guest" => Now' = hw'
      /\ mode' # "guest" => Now' = t
  BY DEF Now, Saved
<1> HIDE DEF t
<1>3. t \in Contexts
  BY <1>1 DEF HasFields
<1>4. HasFields(Strip(t), t.gpr, t.rip, t.rflags \ {"RF"}, t.shadow, t.cpl, t.cr3, t.msr)
  BY <1>3, StripFields
<1>5. HasFields(Strip(t), regs', vmcs'.rip, vmcs'.rflags \ {"RF"}, vmcs'.shadow,
                vmcs'.cpl, vmcs'.cr3, guestMsrs')
  BY <1>1, <1>4 DEF HasFields
<1> QED
  BY <1>1, <1>2, <1>5 DEF t

\* A step that leaves the mapped state alone.
LEMMA Stutter ==
  ASSUME Strip(Now') = Strip(Now), UNCHANGED <<dev, cur, count>>,
         mode # "dead", mode' # "dead"
  PROVE  UNCHANGED GC!vars
  BY DEF GC!vars, Strip

\* A step that completes the current instruction.
LEMMA Completes ==
  ASSUME mode # "dead", mode' # "dead", cur # NoInstr,
         ~GC!Unsupported(cur, Strip(Now)),
         Strip(Now') \in GC!Effects(cur, Strip(Now)),
         dev' = GC!DeviceEffect(cur, Strip(Now), dev),
         cur' = NoInstr, count' = count + 1
  PROVE  GC!Next
<1>1. GC!Retire
  BY SameIsa DEF GC!Retire, Strip
<1> QED
  BY <1>1 DEF GC!Next

\* A VM exit moves the guest's state without changing it.
LEMMA ExitStutters ==
  ASSUME RunInv, RunTypeOK', mode = "guest", NEW i, NEW faultLike \in BOOLEAN,
         VmExit(i, faultLike)
  PROVE  UNCHANGED GC!vars
<1> DEFINE a == Strip(Saved')
           b == Strip(hw)
<1>1. /\ vmcs'.rip = hw.rip /\ vmcs'.shadow = hw.shadow /\ vmcs'.cpl = hw.cpl
      /\ vmcs'.cr3 = hw.cr3
      /\ vmcs'.rflags \ {"RF"} = hw.rflags \ {"RF"}
      /\ regs' = hw.gpr
      /\ guestMsrs' = hw.msr
      /\ mode' = "exit"
      /\ cur' = cur /\ count' = count /\ dev' = dev
  BY ExitSaves DEF RunInv
<1>2. HasFields(a, regs', vmcs'.rip, vmcs'.rflags \ {"RF"}, vmcs'.shadow,
                vmcs'.cpl, vmcs'.cr3, guestMsrs')
  BY AbstractStateNext
<1>3. HasFields(b, hw.gpr, hw.rip, hw.rflags \ {"RF"}, hw.shadow, hw.cpl, hw.cr3, hw.msr)
  BY StripFields DEF RunInv, RunTypeOK
<1>4. Now = hw /\ Now' = Saved'
  BY <1>1, AbstractStateNext DEF Now
<1> HIDE DEF a, b
<1>5. b \in Contexts /\ HasFields(a, b.gpr, b.rip, b.rflags, b.shadow, b.cpl, b.cr3, b.msr)
  BY <1>1, <1>2, <1>3 DEF HasFields
<1>6. a = b
  BY <1>5, SameFields
<1>7. Strip(Now') = Strip(Now)
  BY <1>4, <1>6 DEF a, b
<1> QED
  BY <1>1, <1>7, Stutter

\* The abstract state before and after a handler that has emulated the
\* instruction, and what is left to show about it.
LEMMA EmulationRefines ==
  ASSUME RunInv, RunTypeOK', vmx_handle_exit, Emulated, BackToLoop,
         ~GC!Unsupported(cur, Strip(Saved)),
         NEW e \in GC!Effects(cur, Strip(Saved)), e \in Contexts,
         e.gpr = regs', e.rip = vmcs'.rip, e.rflags = vmcs'.rflags \ {"RF"},
         e.shadow = vmcs'.shadow, e.cpl = vmcs'.cpl, e.cr3 = vmcs'.cr3, e.msr = guestMsrs',
         dev' = GC!DeviceEffect(cur, Strip(Saved), dev)
  PROVE  GC!Next
<1> DEFINE a == Strip(Saved')
<1>1. mode' = "run" /\ cur' = NoInstr /\ count' = count + 1
  BY DEF Emulated, BackToLoop
<1>2. mode = "exit" /\ cur \in Instrs
  BY <1>1, HandlerContext DEF ExitMatches
<1>3. Now = Saved /\ Now' = Saved'
  BY <1>1, <1>2, AbstractStateNext, AbstractState DEF RunInv
<1>4. HasFields(a, regs', vmcs'.rip, vmcs'.rflags \ {"RF"}, vmcs'.shadow,
                vmcs'.cpl, vmcs'.cr3, guestMsrs')
  BY AbstractStateNext
<1> HIDE DEF a
<1>5. HasFields(a, e.gpr, e.rip, e.rflags, e.shadow, e.cpl, e.cr3, e.msr)
  BY <1>4 DEF HasFields
<1>6. a = e
  BY <1>5, SameFields
<1>7. cur # NoInstr
  BY <1>2, InstrFacts
<1> QED
  BY <1>1, <1>2, <1>3, <1>6, <1>7, Completes DEF a

\* The abstract processor's state when a handler runs, and the context after
\* the instruction has been skipped.
LEMMA HandlerState ==
  ASSUME RunInv, NEW s, s = Strip(Saved), NEW t, t = GC!Advance(cur, s), cur \in Instrs
  PROVE  /\ HasFields(s, regs, vmcs.rip, vmcs.rflags \ {"RF"}, vmcs.shadow,
                      vmcs.cpl, vmcs.cr3, guestMsrs)
         /\ HasFields(t, regs, (vmcs.rip + InstrLen(cur)) % W, vmcs.rflags \ {"RF"}, FALSE,
                      vmcs.cpl, vmcs.cr3, guestMsrs)
<1>1. HasFields(s, regs, vmcs.rip, vmcs.rflags \ {"RF"}, vmcs.shadow,
                vmcs.cpl, vmcs.cr3, guestMsrs)
  BY AbstractState DEF RunInv
<1>2. s \in Contexts /\ t = Advance(cur, s)
  BY <1>1, SameAdvance DEF HasFields
<1>3. HasFields(t, s.gpr, (s.rip + InstrLen(cur)) % W, s.rflags \ {"RF"}, FALSE,
                s.cpl, s.cr3, s.msr)
  BY <1>2, AdvanceFields
<1>4. (s.rflags \ {"RF"}) = vmcs.rflags \ {"RF"}
  BY <1>1 DEF HasFields
<1> QED
  BY <1>1, <1>3, <1>4 DEF HasFields

\* kvm_emulate_cpuid completes CPUID.
LEMMA CpuidRefines ==
  ASSUME RunInv, RunTypeOK', kvm_emulate_cpuid
  PROVE  GC!Next
<1> DEFINE s == Strip(Saved)
           t == GC!Advance(cur, s)
           leaf == Lo(regs["rax"])
           out == CpuidResult(leaf, NativeCpuid[leaf])
           new == [r \in Regs |-> IF r \in DOMAIN out THEN out[r] ELSE regs[r]]
           e == [t EXCEPT !.gpr = new]
<1>1. vmx_handle_exit /\ info.reason = "cpuid" /\ Emulated /\ BackToLoop /\ dev' = dev
  BY DEF vmx_handle_exit, kvm_emulate_cpuid, Dispatched
<1>2. ExitMatches
  BY <1>1, HandlerContext DEF BackToLoop
<1>3. cur \in Instrs /\ cur.kind = "cpuid" /\ info.len = InstrLen(cur)
  BY <1>1, <1>2 DEF ExitMatches, Causes
<1>4. /\ HasFields(s, regs, vmcs.rip, vmcs.rflags \ {"RF"}, vmcs.shadow, vmcs.cpl, vmcs.cr3,
                   guestMsrs)
      /\ HasFields(t, regs, (vmcs.rip + InstrLen(cur)) % W, vmcs.rflags \ {"RF"}, FALSE,
                   vmcs.cpl, vmcs.cr3, guestMsrs)
  BY <1>3, HandlerState
<1>5. regs \in [Regs -> Words] /\ vmcs \in VmcsTypes /\ RunTypeOK
  BY DEF RunInv, RunTypeOK
<1>6. leaf \in Halves /\ GC!Lo(s.gpr["rax"]) = leaf
  BY <1>4, <1>5, SameIsa, HalfFacts DEF HasFields, Regs
<1>7. GC!GuestCpuid(GC!Lo(s.gpr["rax"])) = out
  BY <1>6, SameCpuid
<1>8. regs' = new
  BY DEF kvm_emulate_cpuid
<1>9. new \in [Regs -> Words]
  BY <1>8 DEF RunTypeOK
<1>10. vmcs' = skip_emulated_instruction(vmcs)
  BY DEF kvm_emulate_cpuid
<1>11. e \in GC!Effects(cur, s)
  <2>1. [t EXCEPT !.gpr = [r \in Regs |-> IF r \in DOMAIN out THEN out[r] ELSE @[r]]] = e
    BY <1>4 DEF HasFields
  <2> HIDE DEF out, s
  <2> QED
    BY <1>3, <1>7, <2>1 DEF GC!Effects, GC!Regs, Regs
<1>12. ~GC!Unsupported(cur, s) /\ GC!DeviceEffect(cur, s, dev) = dev
  BY <1>3 DEF GC!Unsupported, GC!DeviceEffect
<1>13. t \in Contexts
  BY <1>4 DEF HasFields
<1> HIDE DEF new, t
<1>14. HasFields(e, new, t.rip, t.rflags, t.shadow, t.cpl, t.cr3, t.msr)
  BY <1>9, <1>13, GprFields
<1>15. /\ vmcs'.rip = (vmcs.rip + info.len) % W /\ vmcs'.rflags = vmcs.rflags
       /\ vmcs'.shadow = FALSE /\ vmcs'.cpl = vmcs.cpl /\ vmcs'.cr3 = vmcs.cr3
       /\ guestMsrs' = guestMsrs
  BY <1>1, <1>5, <1>10, SkipFields DEF BackToLoop
<1> HIDE DEF e, s
<1>16. /\ e \in Contexts /\ e.gpr = regs' /\ e.rip = vmcs'.rip /\ e.rflags = vmcs'.rflags \ {"RF"}
       /\ e.shadow = vmcs'.shadow /\ e.cpl = vmcs'.cpl /\ e.cr3 = vmcs'.cr3 /\ e.msr = guestMsrs'
  BY <1>3, <1>4, <1>8, <1>14, <1>15 DEF HasFields
<1> QED
  BY <1>1, <1>11, <1>12, <1>16, EmulationRefines DEF s

\* handle_rdtsc completes RDTSC.
LEMMA RdtscRefines ==
  ASSUME RunInv, RunTypeOK', handle_rdtsc
  PROVE  GC!Next
<1> DEFINE s == Strip(Saved)
           t == GC!Advance(cur, s)
<1>1. vmx_handle_exit /\ info.reason = "rdtsc" /\ Emulated /\ BackToLoop /\ dev' = dev
  BY DEF vmx_handle_exit, handle_rdtsc, Dispatched
<1>2. ExitMatches
  BY <1>1, HandlerContext DEF BackToLoop
<1>3. cur \in Instrs /\ cur.kind = "rdtsc" /\ info.len = InstrLen(cur)
  BY <1>1, <1>2 DEF ExitMatches, Causes
<1>4. HasFields(t, regs, (vmcs.rip + InstrLen(cur)) % W, vmcs.rflags \ {"RF"}, FALSE,
                vmcs.cpl, vmcs.cr3, guestMsrs)
  BY <1>3, HandlerState
<1>5. regs \in [Regs -> Words] /\ vmcs \in VmcsTypes /\ RunTypeOK
  BY DEF RunInv, RunTypeOK
<1>6. PICK val \in TscValues : regs' = kvm_write_edx_eax(val)
  BY DEF handle_rdtsc
<1> DEFINE new == [regs EXCEPT !["rax"] = Lo(val), !["rdx"] = Hi(val)]
           e == [t EXCEPT !.gpr = new]
<1>7. regs' = new /\ new \in [Regs -> Words]
  BY <1>6 DEF kvm_write_edx_eax, RunTypeOK
<1>8. e \in GC!Effects(cur, s)
  <2>1. e = [t EXCEPT !.gpr = [t.gpr EXCEPT !["rax"] = GC!Lo(val), !["rdx"] = GC!Hi(val)]]
    BY <1>4, SameIsa DEF HasFields
  <2> HIDE DEF e, s
  <2> QED
    BY <1>3, <2>1 DEF GC!Effects
<1>9. ~GC!Unsupported(cur, s) /\ GC!DeviceEffect(cur, s, dev) = dev
  BY <1>3 DEF GC!Unsupported, GC!DeviceEffect
<1>10. t \in Contexts
  BY <1>4 DEF HasFields
<1> HIDE DEF new, t
<1>11. HasFields(e, new, t.rip, t.rflags, t.shadow, t.cpl, t.cr3, t.msr)
  BY <1>7, <1>10, GprFields
<1>12. vmcs' = skip_emulated_instruction(vmcs)
  BY DEF handle_rdtsc
<1>13. /\ vmcs'.rip = (vmcs.rip + info.len) % W /\ vmcs'.rflags = vmcs.rflags
       /\ vmcs'.shadow = FALSE /\ vmcs'.cpl = vmcs.cpl /\ vmcs'.cr3 = vmcs.cr3
       /\ guestMsrs' = guestMsrs
  BY <1>1, <1>5, <1>12, SkipFields DEF BackToLoop
<1> HIDE DEF e, s
<1>14. /\ e \in Contexts /\ e.gpr = regs' /\ e.rip = vmcs'.rip /\ e.rflags = vmcs'.rflags \ {"RF"}
       /\ e.shadow = vmcs'.shadow /\ e.cpl = vmcs'.cpl /\ e.cr3 = vmcs'.cr3 /\ e.msr = guestMsrs'
  BY <1>3, <1>4, <1>7, <1>11, <1>13 DEF HasFields
<1> QED
  BY <1>1, <1>8, <1>9, <1>14, EmulationRefines DEF s

\* handle_cr completes a CR3 write.
LEMMA Cr3Refines ==
  ASSUME RunInv, RunTypeOK', handle_cr
  PROVE  GC!Next
<1> DEFINE s == Strip(Saved)
           t == GC!Advance(cur, s)
           v == [vmcs EXCEPT !.cr3 = regs["rax"]]
           e == [t EXCEPT !.cr3 = regs["rax"]]
<1>1. /\ vmx_handle_exit /\ info.reason = "cr_access" /\ Emulated /\ BackToLoop
      /\ dev' = dev /\ regs' = regs /\ guestMsrs' = guestMsrs
  BY DEF vmx_handle_exit, handle_cr, Dispatched, BackToLoop
<1>2. ExitMatches
  BY <1>1, HandlerContext DEF BackToLoop
<1>3. cur \in Instrs /\ cur.kind = "movcr3" /\ info.len = InstrLen(cur)
  BY <1>1, <1>2 DEF ExitMatches, Causes
<1>4. /\ s.gpr = regs
      /\ HasFields(t, regs, (vmcs.rip + InstrLen(cur)) % W, vmcs.rflags \ {"RF"}, FALSE,
                   vmcs.cpl, vmcs.cr3, guestMsrs)
  BY <1>3, HandlerState DEF HasFields
<1>5. regs["rax"] \in Words /\ vmcs \in VmcsTypes /\ RunTypeOK
  BY DEF RunInv, RunTypeOK, Regs
<1>6. /\ v \in VmcsTypes /\ v.rip = vmcs.rip /\ v.rflags = vmcs.rflags
      /\ v.cpl = vmcs.cpl /\ v.cr3 = regs["rax"]
  BY <1>5 DEF VmcsTypes
<1>7. vmcs' = skip_emulated_instruction(v)
  BY DEF handle_cr
<1>8. e \in GC!Effects(cur, s)
  <2> HIDE DEF s
  <2> QED
    BY <1>3, <1>4 DEF GC!Effects
<1>9. ~GC!Unsupported(cur, s) /\ GC!DeviceEffect(cur, s, dev) = dev
  BY <1>3 DEF GC!Unsupported, GC!DeviceEffect
<1>10. t \in Contexts
  BY <1>4 DEF HasFields
<1> HIDE DEF t, v
<1>11. HasFields(e, t.gpr, t.rip, t.rflags, t.shadow, t.cpl, regs["rax"], t.msr)
  BY <1>5, <1>10, Cr3Fields
<1>12. /\ vmcs'.rip = (v.rip + info.len) % W /\ vmcs'.rflags = v.rflags
       /\ vmcs'.shadow = FALSE /\ vmcs'.cpl = v.cpl /\ vmcs'.cr3 = v.cr3
  BY <1>5, <1>6, <1>7, SkipFields
<1> HIDE DEF e, s
<1>13. /\ e \in Contexts /\ e.gpr = regs' /\ e.rip = vmcs'.rip /\ e.rflags = vmcs'.rflags \ {"RF"}
       /\ e.shadow = vmcs'.shadow /\ e.cpl = vmcs'.cpl /\ e.cr3 = vmcs'.cr3 /\ e.msr = guestMsrs'
  BY <1>1, <1>3, <1>4, <1>6, <1>11, <1>12 DEF HasFields
<1> QED
  BY <1>1, <1>8, <1>9, <1>13, EmulationRefines DEF s

\* handle_wrmsr completes a WRMSR that is not passed through.
LEMMA WrmsrRefines ==
  ASSUME RunInv, RunTypeOK', handle_wrmsr
  PROVE  GC!Next
<1> DEFINE s == Strip(Saved)
           t == GC!Advance(cur, s)
<1>1. /\ vmx_handle_exit /\ info.reason = "wrmsr" /\ Emulated /\ BackToLoop
      /\ regs' = regs /\ guestMsrs' = guestMsrs
  BY DEF vmx_handle_exit, handle_wrmsr, Dispatched, BackToLoop
<1>2. ExitMatches
  BY <1>1, HandlerContext DEF BackToLoop
<1>3. /\ cur \in Instrs /\ cur.kind = "wrmsr" /\ info.len = InstrLen(cur)
      /\ ~RunsNatively(cur, Saved)
  BY <1>1, <1>2 DEF ExitMatches, Causes
<1>4. /\ HasFields(s, regs, vmcs.rip, vmcs.rflags \ {"RF"}, vmcs.shadow, vmcs.cpl, vmcs.cr3,
                   guestMsrs)
      /\ HasFields(t, regs, (vmcs.rip + InstrLen(cur)) % W, vmcs.rflags \ {"RF"}, FALSE,
                   vmcs.cpl, vmcs.cr3, guestMsrs)
  BY <1>3, HandlerState
<1>5. vmcs \in VmcsTypes /\ RunTypeOK /\ Saved \in Contexts
  BY AbstractState DEF RunInv, RunTypeOK, HasFields
<1>6. ~RunsNatively(cur, s)
  BY <1>3, <1>5, StripFacts
<1>7. MsrIndex(s) = Lo(regs["rcx"]) /\ EdxEax(s) = kvm_read_edx_eax
  BY <1>4 DEF HasFields, MsrIndex, EdxEax, kvm_read_edx_eax
<1> HIDE DEF s
<1>8. t \in GC!Effects(cur, s)
  BY <1>3, <1>6, SameIsa DEF GC!Effects
<1>9. ~GC!Unsupported(cur, s)
  BY <1>3, <1>6, <1>7, SameIsa
  DEF GC!Unsupported, GC!MSR_LSTAR, GC!MSR_SYSCALL_MASK, GC!APIC_ICR, GC!MSR_IA32_APICBASE,
      handle_wrmsr, WrmsrPanics, MSR_IA32_APICBASE, APIC_ICR
<1>10. dev' = GC!DeviceEffect(cur, s, dev)
  BY <1>3, <1>7, SameIsa
  DEF GC!DeviceEffect, GC!APIC_ICR, GC!MSR_IA32_APICBASE, GC!APIC_DM_INIT, GC!APIC_DM_STARTUP,
      handle_wrmsr, WrmsrPanics, WrmsrDevice, MSR_IA32_APICBASE, APIC_ICR, APIC_DM_INIT,
      APIC_DM_STARTUP
<1>11. /\ vmcs'.rip = (vmcs.rip + info.len) % W /\ vmcs'.rflags = vmcs.rflags
       /\ vmcs'.shadow = FALSE /\ vmcs'.cpl = vmcs.cpl /\ vmcs'.cr3 = vmcs.cr3
  BY <1>5, SkipFields DEF handle_wrmsr
<1> HIDE DEF t
<1>12. /\ t \in Contexts /\ t.gpr = regs' /\ t.rip = vmcs'.rip /\ t.rflags = vmcs'.rflags \ {"RF"}
       /\ t.shadow = vmcs'.shadow /\ t.cpl = vmcs'.cpl /\ t.cr3 = vmcs'.cr3 /\ t.msr = guestMsrs'
  BY <1>1, <1>3, <1>4, <1>11 DEF HasFields
<1> QED
  BY <1>1, <1>8, <1>9, <1>10, <1>12, EmulationRefines DEF s

\* SYSCALL is two bytes long: the handler is right when the length field of
\* a #UD exit says so.
LEMMA SyscallRefines ==
  ASSUME RunInv, RunTypeOK', handle_syscall, UdLengths \subseteq {2}
  PROVE  GC!Next
<1> DEFINE s == Strip(Saved)
           t == GC!Advance(cur, s)
           next == skip_emulated_instruction(vmcs)
           rf == vmcs.rflags \cap {"RF"}
           fl == s.rflags \ GC!FlagsOf(s.msr.fmask)
           r11 == GC!WordOf(s.rflags \cup rf)
           e == [t EXCEPT !.gpr["rcx"] = t.rip, !.gpr["r11"] = r11, !.rip = s.msr.lstar,
                          !.cpl = 0, !.rflags = fl]
<1>1. /\ vmx_handle_exit /\ info.reason = "exception_nmi" /\ Emulated /\ BackToLoop
      /\ cur.kind = "syscall" /\ dev' = dev /\ guestMsrs' = guestMsrs
  BY DEF vmx_handle_exit, handle_syscall, Dispatched, IsUd, BackToLoop
<1>2. ExitMatches
  BY <1>1, HandlerContext DEF BackToLoop
<1>3. cur \in Instrs /\ info.len = 2 /\ InstrLen(cur) = 2
  BY <1>1, <1>2 DEF ExitMatches, InstrLen
<1>4. /\ HasFields(s, regs, vmcs.rip, vmcs.rflags \ {"RF"}, vmcs.shadow, vmcs.cpl, vmcs.cr3,
                   guestMsrs)
      /\ HasFields(t, regs, (vmcs.rip + InstrLen(cur)) % W, vmcs.rflags \ {"RF"}, FALSE,
                   vmcs.cpl, vmcs.cr3, guestMsrs)
  BY <1>3, HandlerState
<1>5. /\ regs \in [Regs -> Words] /\ vmcs \in VmcsTypes /\ RunTypeOK
      /\ guestMsrs \in [lstar : Words, fmask : Words] /\ vmcs.rflags \in SUBSET Flags
  BY DEF RunInv, RunTypeOK, VmcsTypes
<1>6. /\ next \in VmcsTypes
      /\ next.rip = (vmcs.rip + info.len) % W /\ next.rflags = vmcs.rflags
      /\ next.shadow = FALSE /\ next.cpl = vmcs.cpl /\ next.cr3 = vmcs.cr3
  BY <1>5, SkipFields
<1>7. /\ regs' = [regs EXCEPT !["rcx"] = next.rip, !["r11"] = WordOf(next.rflags)]
      /\ vmcs' = [next EXCEPT !.rip = guestMsrs.lstar,
                              !.rflags = @ \ FlagsOf(guestMsrs.fmask), !.cpl = 0]
  BY DEF handle_syscall
<1>8. e \in GC!Effects(cur, s)
  <2>1. rf \in {{}, {"RF"}}
    OBVIOUS
  <2> DEFINE After(x) == [t EXCEPT !.gpr["rcx"] = t.rip,
                                   !.gpr["r11"] = GC!WordOf(s.rflags \cup x),
                                   !.rip = s.msr.lstar, !.cpl = 0, !.rflags = fl]
  <2> HIDE DEF s, rf
  <2>2. GC!Effects(cur, s) = {After(x) : x \in {{}, {"RF"}}}
    BY <1>1 DEF GC!Effects
  <2>3. e = After(rf)
    OBVIOUS
  <2> HIDE DEF After, e
  <2> QED
    BY <2>1, <2>2, <2>3
<1>9. ~GC!Unsupported(cur, s) /\ GC!DeviceEffect(cur, s, dev) = dev
  BY <1>1 DEF GC!Unsupported, GC!DeviceEffect
<1> HIDE DEF s, t, next
<1>10. /\ r11 = WordOf(vmcs.rflags)
       /\ fl = (vmcs.rflags \ {"RF"}) \ FlagsOf(guestMsrs.fmask)
       /\ s.msr.lstar = guestMsrs.lstar
  <2>1. s.rflags \cup rf = vmcs.rflags
    BY <1>4 DEF HasFields
  <2> QED
    BY <2>1, <1>4, SameIsa DEF HasFields
<1> HIDE DEF fl, r11, rf
<1>11. r11 \in Words /\ fl \in SUBSET Flags /\ s.msr.lstar \in Words /\ t.rip \in Words
  <2>1. guestMsrs.lstar \in Words
    BY <1>5
  <2>2. t.rip \in Words
    BY <1>4, ContextFields DEF HasFields
  <2>3. WordOf(vmcs.rflags) \in Words
    BY <1>5, FlagFacts
  <2>4. fl \in SUBSET Flags
    BY <1>5, <1>10
  <2> QED
    BY <1>10, <2>1, <2>2, <2>3, <2>4
<1>12. t \in Contexts
  BY <1>4 DEF HasFields
<1>13. HasFields(e, [t.gpr EXCEPT !["rcx"] = t.rip, !["r11"] = r11], s.msr.lstar, fl, t.shadow, 0,
                 t.cr3, t.msr)
  BY <1>11, <1>12, SyscallFields
<1>14. /\ vmcs'.rip = guestMsrs.lstar /\ vmcs'.shadow = FALSE /\ vmcs'.cpl = 0
       /\ vmcs'.rflags = vmcs.rflags \ FlagsOf(guestMsrs.fmask) /\ vmcs'.cr3 = vmcs.cr3
  BY <1>6, <1>7 DEF VmcsTypes
<1>15. regs' = [t.gpr EXCEPT !["rcx"] = t.rip, !["r11"] = r11]
  BY <1>3, <1>4, <1>6, <1>7, <1>10 DEF HasFields
<1>16. fl = vmcs'.rflags \ {"RF"}
  BY <1>10, <1>14
<1> HIDE DEF e
<1>17. /\ e \in Contexts /\ e.gpr = regs' /\ e.rip = vmcs'.rip /\ e.rflags = vmcs'.rflags \ {"RF"}
       /\ e.shadow = vmcs'.shadow /\ e.cpl = vmcs'.cpl /\ e.cr3 = vmcs'.cr3 /\ e.msr = guestMsrs'
  BY <1>1, <1>4, <1>10, <1>13, <1>14, <1>15, <1>16 DEF HasFields
<1> QED
  BY <1>1, <1>8, <1>9, <1>17, EmulationRefines DEF s

\* handle_sysret completes SYSRET, whatever the length field says.
LEMMA SysretRefines ==
  ASSUME RunInv, RunTypeOK', handle_sysret
  PROVE  GC!Next
<1> DEFINE s == Strip(Saved)
           t == GC!Advance(cur, s)
           fl == GC!FlagsOf(s.gpr["r11"]) \ {"RF"}
           e == [t EXCEPT !.rip = s.gpr["rcx"], !.cpl = 3, !.shadow = s.shadow, !.rflags = fl]
<1>1. /\ vmx_handle_exit /\ info.reason = "exception_nmi" /\ Emulated /\ BackToLoop
      /\ cur.kind = "sysret" /\ dev' = dev /\ regs' = regs /\ guestMsrs' = guestMsrs
      /\ vmcs' = [vmcs EXCEPT !.rip = regs["rcx"], !.rflags = FlagsOf(regs["r11"]) \ {"RF"},
                              !.cpl = 3]
  BY DEF vmx_handle_exit, handle_sysret, Dispatched, IsUd, BackToLoop
<1>2. ExitMatches
  BY <1>1, HandlerContext DEF BackToLoop
<1>3. cur \in Instrs
  BY <1>2 DEF ExitMatches
<1>4. /\ HasFields(s, regs, vmcs.rip, vmcs.rflags \ {"RF"}, vmcs.shadow, vmcs.cpl, vmcs.cr3,
                   guestMsrs)
      /\ HasFields(t, regs, (vmcs.rip + InstrLen(cur)) % W, vmcs.rflags \ {"RF"}, FALSE,
                   vmcs.cpl, vmcs.cr3, guestMsrs)
  BY <1>3, HandlerState
<1>5. regs["rcx"] \in Words /\ vmcs \in VmcsTypes /\ vmcs.shadow \in BOOLEAN
  BY DEF RunInv, RunTypeOK, VmcsTypes, Regs
<1>6. e \in GC!Effects(cur, s)
  <2> HIDE DEF s
  <2> QED
    BY <1>1 DEF GC!Effects
<1>7. ~GC!Unsupported(cur, s) /\ GC!DeviceEffect(cur, s, dev) = dev
  BY <1>1 DEF GC!Unsupported, GC!DeviceEffect
<1> HIDE DEF s, t
<1>8. /\ fl = FlagsOf(regs["r11"]) \ {"RF"} /\ fl \in SUBSET Flags
      /\ s.gpr["rcx"] = regs["rcx"] /\ s.shadow = vmcs.shadow /\ t \in Contexts
  BY <1>4, SameIsa, FlagFacts DEF HasFields
<1> HIDE DEF fl
<1>9. HasFields(e, t.gpr, s.gpr["rcx"], fl, s.shadow, 3, t.cr3, t.msr)
  BY <1>5, <1>8, SysretFields
<1>10. /\ vmcs'.rip = regs["rcx"] /\ vmcs'.shadow = vmcs.shadow /\ vmcs'.cpl = 3
       /\ vmcs'.rflags = FlagsOf(regs["r11"]) \ {"RF"} /\ vmcs'.cr3 = vmcs.cr3
  BY <1>1, <1>5 DEF VmcsTypes
<1>11. fl = vmcs'.rflags \ {"RF"}
  BY <1>8, <1>10
<1> HIDE DEF e
<1>12. /\ e \in Contexts /\ e.gpr = regs' /\ e.rip = vmcs'.rip /\ e.rflags = vmcs'.rflags \ {"RF"}
       /\ e.shadow = vmcs'.shadow /\ e.cpl = vmcs'.cpl /\ e.cr3 = vmcs'.cr3 /\ e.msr = guestMsrs'
  BY <1>1, <1>4, <1>8, <1>9, <1>10, <1>11 DEF HasFields
<1> QED
  BY <1>1, <1>6, <1>7, <1>12, EmulationRefines DEF s

\* The monitor panics at an instruction it does not support, in a state the
\* processor does not accept, or because the first entry failed.
LEMMA PanicRefines ==
  ASSUME RunInv, handle_wrmsr_panics \/ handle_exception_panics \/ handle_exit_panics
  PROVE  GC!Next
<1> DEFINE s == Strip(Saved)
<1>1. mode = "exit" /\ Panic
  BY DEF handle_wrmsr_panics, handle_exception_panics, handle_exit_panics, Dispatched
<1>2. mode' = "dead" /\ Saved' = Saved /\ UNCHANGED <<dev, cur, count>>
  BY <1>1 DEF Panic, cpuVars, Saved
<1>3. Now = Saved /\ Now' = Saved'
  BY <1>1, <1>2 DEF Now, Saved
<1>4. HasFields(s, regs, vmcs.rip, vmcs.rflags \ {"RF"}, vmcs.shadow, vmcs.cpl, vmcs.cr3,
                guestMsrs)
  BY AbstractState DEF RunInv
<1>5. HasFields(Saved, regs, vmcs.rip, vmcs.rflags, vmcs.shadow, vmcs.cpl, vmcs.cr3, guestMsrs)
  BY AbstractState DEF RunInv
<1>6. Strip(Now') = Strip(Now)
  BY <1>2, <1>3
<1>7. CASE fail
  <2>1. cur = NoInstr /\ count = 0
    BY <1>1, <1>7 DEF RunInv, StartInv
  <2>2. GC!NeverStarts
    BY <1>1, <1>2, <1>6, <2>1, SameIsa DEF GC!NeverStarts, Strip
  <2> QED
    BY <2>2 DEF GC!Next
<1>8. CASE ~fail /\ info.reason = "invalid_state" /\ cur = NoInstr /\ ~Unbroken(Saved)
  <2>1. GC!Broken(s)
    BY <1>4, <1>5, <1>8 DEF GC!Broken, Unbroken, HasFields
  <2>2. GC!Stop
    BY <1>1, <1>2, <1>3, <1>6, <1>8, <2>1, SameIsa DEF GC!Stop, Strip
  <2> QED
    BY <2>2 DEF GC!Next
<1>9. CASE ~fail /\ ExitMatches
  <2>1. cur # NoInstr
    BY <1>9, InstrFacts DEF ExitMatches
  <2>2. GC!Unsupported(cur, s)
    <3>1. CASE handle_wrmsr_panics
      <4>1. cur.kind = "wrmsr"
        BY <1>9, <3>1 DEF handle_wrmsr_panics, Dispatched, ExitMatches, Causes
      <4>2. MsrIndex(s) = Lo(regs["rcx"]) /\ EdxEax(s) = kvm_read_edx_eax
        BY <1>4 DEF HasFields, MsrIndex, EdxEax, kvm_read_edx_eax
      <4>3. ~RunsNatively(cur, s)
        <5>1. ~RunsNatively(cur, Saved) /\ Saved \in Contexts
          BY <1>5, <1>9, <3>1 DEF handle_wrmsr_panics, Dispatched, ExitMatches, HasFields
        <5> QED
          BY <5>1, StripFacts
      <4>4. MsrIndex(s) \notin {MSR_LSTAR, MSR_SYSCALL_MASK}
        BY <4>1, <4>3 DEF RunsNatively
      <4> HIDE DEF s
      <4> QED
        BY <3>1, <4>1, <4>2, <4>4, SameIsa
        DEF GC!Unsupported, GC!MSR_LSTAR, GC!MSR_SYSCALL_MASK, GC!APIC_ICR,
            GC!MSR_IA32_APICBASE, handle_wrmsr_panics, WrmsrPanics, MSR_IA32_APICBASE, APIC_ICR,
            MSR_LSTAR, MSR_SYSCALL_MASK
    <3>2. CASE handle_exception_panics
      <4>1. /\ cur.kind \in {"syscall", "sysret", "badop", "pagefault"}
            /\ info.vector = (IF cur.kind = "pagefault" THEN 14 ELSE 6)
            /\ ~IsUd("syscall") /\ ~IsUd("sysret")
        BY <1>9, <3>2 DEF handle_exception_panics, Dispatched, ExitMatches, Causes
      <4>2. cur.kind \in {"badop", "pagefault"}
        BY <4>1 DEF IsUd
      <4> QED
        BY <4>2 DEF GC!Unsupported
    <3>3. CASE handle_exit_panics
      <4>1. cur.kind \in {"rdmsr_vmx", "nohandler"}
        BY <1>9, <3>3 DEF handle_exit_panics, ExitMatches, Causes, Reasons
      <4> QED
        BY <4>1 DEF GC!Unsupported
    <3> QED
      BY <3>1, <3>2, <3>3
  <2>3. GC!Stop
    BY <1>1, <1>2, <1>3, <1>6, <2>1, <2>2, SameIsa DEF GC!Stop, Strip
  <2> QED
    BY <2>3 DEF GC!Next
<1> QED
  BY <1>1, <1>7, <1>8, <1>9 DEF RunInv, ExitInv

\* An instruction the guest executes without an exit.
LEMMA NativeRefines ==
  ASSUME RunInv, GuestExecutes
  PROVE  GC!Next
<1> DEFINE s == Strip(hw)
<1>1. /\ mode = "guest" /\ mode' = "guest" /\ cur \in Instrs /\ cur # NoInstr /\ hw \in Contexts
      /\ RunsNatively(cur, hw) /\ hw' = NativeEffect(cur, hw) /\ cur' = NoInstr
      /\ count' = count + 1 /\ dev' = dev
  BY DEF GuestExecutes, RunInv, RunTypeOK
<1>2. Now = hw /\ Now' = hw'
  BY <1>1 DEF Now
<1>3. hw' \in Contexts /\ "RF" \notin hw'.rflags /\ NativeEffect(cur, s) = hw'
  BY <1>1, NativeFacts
<1>4. Strip(hw') = hw'
  <2> DEFINE n == hw'
             z == Strip(n)
  <2>1. HasFields(z, n.gpr, n.rip, n.rflags \ {"RF"}, n.shadow, n.cpl, n.cr3, n.msr)
    BY <1>3, StripFields
  <2>2. n.rflags \ {"RF"} = n.rflags
    BY <1>3
  <2> HIDE DEF n, z
  <2>3. HasFields(z, n.gpr, n.rip, n.rflags, n.shadow, n.cpl, n.cr3, n.msr)
    BY <2>1, <2>2
  <2>4. n \in Contexts
    BY <1>3 DEF n
  <2>5. z = n
    BY <2>3, <2>4, SameFields
  <2> QED
    BY <2>5 DEF n, z
<1>5. RunsNatively(cur, s)
  BY <1>1, StripFacts
<1>6. MsrIndex(s) = MsrIndex(hw)
  BY <1>1, StripFacts
<1> HIDE DEF s
<1>7. cur.kind \in {"mov", "sti", "cli", "wrmsr"}
  BY <1>1 DEF RunsNatively
<1>8. GC!NativeEffect(cur, s) \in GC!Effects(cur, s)
  BY <1>5, <1>7, SameIsa DEF GC!Effects
<1>9. /\ ~GC!Unsupported(cur, s)
      /\ GC!DeviceEffect(cur, s, dev) = dev
  BY <1>5, <1>7, SameIsa
  DEF GC!Unsupported, GC!DeviceEffect, RunsNatively, GC!MSR_LSTAR, GC!MSR_SYSCALL_MASK,
      GC!APIC_ICR, GC!MSR_IA32_APICBASE, MSR_LSTAR, MSR_SYSCALL_MASK
<1>10. Strip(Now') \in GC!Effects(cur, Strip(Now))
  BY <1>2, <1>3, <1>4, <1>8, SameNative DEF s
<1> QED
  BY <1>1, <1>2, <1>9, <1>10, Completes DEF s

\* One step of VcpuRun, mapped.
LEMMA StepRefines ==
  ASSUME UdLengths \subseteq {2}, RunInv, [Next]_vars
  PROVE  [GC!Next]_(GC!vars)
<1>0. RunInv' /\ RunTypeOK'
  BY RunInvStep DEF RunInv
<1>1. CASE GuestFetch
  <2>1. mode = "guest" /\ UNCHANGED <<mode, hw, dev, count>>
    BY <1>1 DEF GuestFetch, cpuVars
  <2>2. Now' = Now
    BY <2>1 DEF Now
  <2>3. GC!Fetch
    BY <1>1, <2>1, <2>2, SameIsa DEF GuestFetch, GC!Fetch
  <2> QED
    BY <2>3 DEF GC!Next
<1>2. CASE GuestExecutes
  BY <1>2, NativeRefines
<1>3. CASE GuestMeetsEptViolation \/ GuestTraps \/ GuestFaults
  BY <1>0, <1>3, ExitStutters DEF GuestMeetsEptViolation, GuestTraps, GuestFaults
<1>4. CASE EnterGuest
  <2>1. mode # "dead" /\ mode' # "dead" /\ UNCHANGED <<dev, cur, count>>
    BY <1>4 DEF EnterGuest
  <2>2. Now' = Now
    BY <1>4 DEF EnterGuest, Now
  <2> QED
    BY <2>1, <2>2, Stutter
<1>5. CASE EntryFails \/ EntryRejected \/ handle_ept_violation
  <2>1. /\ mode \notin {"guest", "dead"} /\ mode' \notin {"guest", "dead"}
        /\ UNCHANGED <<dev, cur, count, regs, vmcs, guestMsrs>>
    BY <1>5 DEF EntryFails, EntryRejected, handle_ept_violation, Dispatched, BackToLoop, cpuVars
  <2>2. Now' = Now
    BY <2>1 DEF Now
  <2> QED
    BY <2>1, <2>2, Stutter
<1>6. CASE vmx_handle_exit /\ ~handle_ept_violation
  BY <1>0, <1>6, CpuidRefines, RdtscRefines, Cr3Refines, WrmsrRefines, SyscallRefines,
     SysretRefines, PanicRefines DEF vmx_handle_exit
<1>7. CASE UNCHANGED vars
  <2>1. UNCHANGED <<mode, hw, vmcs, regs, guestMsrs, dev, cur, count>>
    BY <1>7 DEF vars, cpuVars
  <2>2. Now' = Now
    BY <2>1 DEF Now
  <2> QED
    BY <2>1, <2>2 DEF GC!vars
<1> QED
  BY <1>1, <1>2, <1>3, <1>4, <1>5, <1>6, <1>7 DEF Next, GuestStep, vmx_vcpu_run

\* The boot state, mapped.
LEMMA InitRefines == Init => GC!Init
<1> SUFFICES ASSUME Init PROVE GC!Init
  OBVIOUS
<1>1. Now = BootContext
  BY DEF Now, Init, BootContext, VmcsFields
<1>2. Strip(BootContext) = BootContext
  <2>1. HasFields(Strip(BootContext), BootContext.gpr, BootContext.rip, BootContext.rflags,
                  BootContext.shadow, BootContext.cpl, BootContext.cr3, BootContext.msr)
        /\ BootContext \in Contexts
    <3>1. BootContext \in Contexts
      BY WordFacts DEF BootContext, Contexts, Flags, Regs
    <3>2. BootContext.rflags = {} /\ BootContext.rflags \ {"RF"} = {}
      BY DEF BootContext
    <3> QED
      BY <3>1, <3>2, StripFields
  <2> QED
    BY <2>1, SameFields
<1> QED
  BY <1>1, <1>2, SameIsa DEF GC!Init, Init, Strip, BootDevices

\* Whatever the guest executes, wherever EPT violations, faults and exits
\* fall, and whether or not the first entry succeeds, vmx_vcpu_run and the
\* handlers of vmx_handle_exit give the guest a processor: the safety part
\* of ImplementsGuestCpu, for every guest program and word size.
THEOREM RunImplementsGuestCpu ==
  ASSUME UdLengths \subseteq {2}
  PROVE  Spec => GC!Spec
<1>1. RunInv /\ [Next]_vars => [GC!Next]_(GC!vars)
  BY StepRefines
<1> QED
  BY <1>1, InitRefines, RunInvariant, PTL DEF Spec, GC!Spec
=============================================================================
