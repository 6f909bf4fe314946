--------------------------- MODULE VcpuModeProofs ---------------------------
(***************************************************************************)
(* Proofs about VcpuMode.                                                  *)
(***************************************************************************)
EXTENDS VcpuMode, TLAPS

-----------------------------------------------------------------------------
(***************************************************************************)
(* What the handlers leave of a coherent VMCS.  Each lemma is about the    *)
(* pair State(r, c) a handler receives and the pair it leaves.             *)
(***************************************************************************)
\* What vmx_set_cr0 leaves, register by register.
SetCr0Effect(r, c, val, s) ==
  LET enter == "LME" \in r.efer /\ "PG" \notin r.cr0 /\ "PG" \in val
      leave == "LME" \in r.efer /\ "PG" \in r.cr0 /\ "PG" \notin val
  IN  /\ s.regs \in GuestRegs
      /\ s.regs.cr0 = val \cup KVM_GUEST_CR0_ALWAYS_ON
      /\ s.regs.cr4 = r.cr4
      /\ s.regs.tr = IF enter THEN "tss" ELSE r.tr
      /\ s.regs.efer = IF enter THEN r.efer \cup {"LMA"}
                       ELSE IF leave THEN r.efer \ {"LMA"} ELSE r.efer
      /\ s.ia32e = IF enter THEN TRUE ELSE IF leave THEN FALSE ELSE c

\* enter_lmode and exit_lmode run exactly on the edges of CR0.PG.
LEMMA SetCr0Value ==
  ASSUME NEW r \in GuestRegs, NEW c \in BOOLEAN, NEW val \in SUBSET Cr0Bits
  PROVE  SetCr0Effect(r, c, val, vmx_set_cr0(State(r, c), val))
<1>1. val \cup KVM_GUEST_CR0_ALWAYS_ON \in SUBSET Cr0Bits
  BY DEF KVM_GUEST_CR0_ALWAYS_ON, Cr0Bits
<1>2. r.efer \cup {"LMA"} \in SUBSET EferBits /\ r.efer \ {"LMA"} \in SUBSET EferBits
  BY DEF GuestRegs, EferBits
<1>3. "tss" \in TrTypes
  BY DEF TrTypes
<1> QED
  BY <1>1, <1>2, <1>3 DEF SetCr0Effect, vmx_set_cr0, enter_lmode, exit_lmode, State, GuestRegs

\* What a handler leaves can be entered: the rules of VM entry on a pair.
Enterable(s) ==
  /\ "NE" \in s.regs.cr0
  /\ "VMXE" \in s.regs.cr4
  /\ "PG" \in s.regs.cr0 => "PE" \in s.regs.cr0
  /\ s.ia32e => "PG" \in s.regs.cr0 /\ "PAE" \in s.regs.cr4 /\ s.regs.tr # "tss16"
  /\ "LMA" \in s.regs.efer <=> s.ia32e
  /\ "PG" \in s.regs.cr0 => ("LMA" \in s.regs.efer <=> "LME" \in s.regs.efer)

\* The registers that LongMode is about after a write it accepts.
LongModeWrite(s) ==
  \/ /\ "LME" \in hw.efer /\ "PG" \notin hw.cr0 /\ "PG" \in s.regs.cr0
          => "PAE" \in hw.cr4
     /\ "LMA" \in s.regs.efer <=> "LME" \in hw.efer /\ "PG" \in s.regs.cr0
     /\ "PAE" \in s.regs.cr4 <=> "PAE" \in hw.cr4
     /\ "LME" \in s.regs.efer <=> "LME" \in hw.efer
  \/ /\ "LMA" \in hw.efer => "PAE" \in s.regs.cr4
     /\ "PG" \in s.regs.cr0 <=> "PG" \in hw.cr0
     /\ s.regs.efer = hw.efer
  \/ /\ ~("LME" \in s.regs.efer <=> "LME" \in hw.efer) => "PG" \notin hw.cr0
     /\ "PG" \in s.regs.cr0 <=> "PG" \in hw.cr0
     /\ "PAE" \in s.regs.cr4 <=> "PAE" \in hw.cr4
     /\ "LMA" \in s.regs.efer <=> "LMA" \in hw.efer

\* The handlers turn a coherent guest and any write into a VMCS without
\* EFER.SCE that, if it can be entered, is what LongMode allows; and it can
\* be entered when the write is one the architecture accepts.
LEMMA HandledWrite ==
  ASSUME TypeOK, Coherent(hw)
  PROVE  LET s == Handled(State(hw, "LMA" \in hw.efer), exit)
         IN  /\ s.regs \in GuestRegs /\ s.ia32e \in BOOLEAN
             /\ "SCE" \notin s.regs.efer
             /\ LegalWrite(exit) /\ KeepsLma(exit) => Enterable(s) /\ LongModeWrite(s)
             /\ Enterable(s) => LongModeWrite(s)
<1> DEFINE c == "LMA" \in hw.efer
           s == Handled(State(hw, c), exit)
<1>1. hw \in GuestRegs /\ c \in BOOLEAN
  BY DEF TypeOK
<1>2. CASE exit.reason = "cr0"
  <2>1. exit.val \in SUBSET Cr0Bits
    BY <1>2 DEF TypeOK, Exits
  <2>2. s = vmx_set_cr0(State(hw, c), exit.val)
    BY <1>2 DEF Handled
  <2>3. SetCr0Effect(hw, c, exit.val, s)
    BY <1>1, <2>1, <2>2, SetCr0Value
  <2> HIDE DEF s
  <2>4. s.regs \in GuestRegs /\ "SCE" \notin s.regs.efer
    BY <1>1, <2>3 DEF SetCr0Effect, Coherent
  <2>7. s.ia32e \in BOOLEAN
    BY <1>1, <2>3, Zenon DEF SetCr0Effect
  <2>5. LegalCr0(exit.val) => Enterable(s)
    BY <2>3 DEF SetCr0Effect, Coherent, LegalCr0, Enterable, KVM_GUEST_CR0_ALWAYS_ON
  <2>6. Enterable(s) => LongModeWrite(s)
    BY <2>3 DEF SetCr0Effect, Coherent, LongModeWrite, Enterable, KVM_GUEST_CR0_ALWAYS_ON
  <2> QED
    BY <1>2, <2>4, <2>5, <2>6, <2>7 DEF LegalWrite, s
<1>3. CASE exit.reason = "cr4"
  <2>1. exit.val \in SUBSET Cr4Bits
    BY <1>3 DEF TypeOK, Exits
  <2>2. /\ s.regs = [hw EXCEPT !.cr4 = exit.val \cup KVM_GUEST_CR4_ALWAYS_ON]
        /\ s.ia32e = c
    BY <1>3 DEF Handled, vmx_set_cr4, State
  <2>3. exit.val \cup KVM_GUEST_CR4_ALWAYS_ON \in SUBSET Cr4Bits
    BY <2>1 DEF KVM_GUEST_CR4_ALWAYS_ON, Cr4Bits
  <2>4. /\ s.regs \in GuestRegs /\ s.regs.cr0 = hw.cr0
        /\ s.regs.cr4 = exit.val \cup KVM_GUEST_CR4_ALWAYS_ON
        /\ s.regs.efer = hw.efer /\ s.regs.tr = hw.tr
    BY <1>1, <2>2, <2>3 DEF GuestRegs
  <2> HIDE DEF s
  <2>5. s.ia32e \in BOOLEAN /\ "SCE" \notin s.regs.efer
    BY <1>1, <2>2, <2>4 DEF Coherent
  <2>6. LegalCr4(exit.val) => Enterable(s)
    BY <2>2, <2>4 DEF Coherent, LegalCr4, Enterable, KVM_GUEST_CR4_ALWAYS_ON
  <2>7. Enterable(s) => LongModeWrite(s)
    BY <2>2, <2>4 DEF Coherent, LongModeWrite, Enterable
  <2> QED
    BY <1>3, <2>4, <2>5, <2>6, <2>7 DEF LegalWrite, s
<1>4. CASE exit.reason = "efer"
  <2>1. exit.val \in SUBSET EferBits
    BY <1>4 DEF TypeOK, Exits
  <2>2. s.regs = [hw EXCEPT !.efer = exit.val \ {"SCE"}] /\ s.ia32e = c
    BY <1>4 DEF Handled, wrmsr_efer, State
  <2>3. exit.val \ {"SCE"} \in SUBSET EferBits
    BY <2>1
  <2>4. /\ s.regs \in GuestRegs /\ s.regs.efer = exit.val \ {"SCE"}
        /\ s.regs.cr0 = hw.cr0 /\ s.regs.cr4 = hw.cr4 /\ s.regs.tr = hw.tr
    BY <1>1, <2>2, <2>3 DEF GuestRegs
  <2> HIDE DEF s
  <2>5. s.ia32e \in BOOLEAN /\ "SCE" \notin s.regs.efer
    BY <1>1, <2>2, <2>4
  <2>6. LegalEfer(exit.val) /\ ("LMA" \in exit.val <=> "LMA" \in hw.efer) => Enterable(s)
    BY <2>2, <2>4 DEF Coherent, LegalEfer, Enterable
  <2>7. Enterable(s) => LongModeWrite(s)
    BY <2>2, <2>4 DEF Coherent, LongModeWrite, Enterable
  <2> QED
    BY <1>4, <2>4, <2>5, <2>6, <2>7 DEF LegalWrite, KeepsLma, s
<1>5. CASE exit.reason \notin {"cr0", "cr4", "efer"}
  <2>1. s.regs = hw /\ s.ia32e = c
    BY <1>5 DEF Handled, State
  <2> HIDE DEF s
  <2>2. Enterable(s) /\ LongModeWrite(s)
    BY <2>1 DEF Coherent, Enterable, LongModeWrite
  <2> QED
    BY <1>1, <2>1, <2>2 DEF Coherent, s
<1> QED
  BY <1>2, <1>3, <1>4, <1>5

\* The rules of VM entry judge the pair the VMCS holds.
LEMMA EntryIsEnterable == EntryChecks <=> Enterable(State(vmcs, ia32e))
  BY DEF EntryChecks, Enterable, State

\* The same about the VMCS on the way to a VM entry.
LEMMA ReadyVmcs ==
  ASSUME ModeInv, mode = "ready"
  PROVE  /\ "SCE" \notin vmcs.efer
         /\ LegalWrite(exit) /\ KeepsLma(exit)
              => EntryChecks /\ LongModeWrite(State(vmcs, ia32e))
         /\ EntryChecks => LongModeWrite(State(vmcs, ia32e))
<1>1. /\ TypeOK /\ Coherent(hw)
      /\ State(vmcs, ia32e) = Handled(State(hw, "LMA" \in hw.efer), exit)
  BY DEF ModeInv
<1>2. State(vmcs, ia32e).regs = vmcs
  BY DEF State
<1> QED
  BY <1>1, <1>2, HandledWrite, EntryIsEnterable

-----------------------------------------------------------------------------
(***************************************************************************)
(* The inductive invariant.                                                *)
(***************************************************************************)

\* The state vmx_vcpu_setup leaves satisfies the invariant.
LEMMA ModeInvInit == Init => ModeInv
<1> SUFFICES ASSUME Init PROVE ModeInv
  OBVIOUS
<1>1. ResetRegs \in GuestRegs /\ Coherent(ResetRegs) /\ "LMA" \notin ResetRegs.efer
  BY DEF ResetRegs, GuestRegs, Coherent, KVM_GUEST_CR0_ALWAYS_ON,
         KVM_GUEST_CR4_ALWAYS_ON, Cr0Bits, Cr4Bits, EferBits, TrTypes
<1>2. NoExit \in Exits /\ NoExit.reason = "none"
  BY DEF NoExit, Exits
<1>3. TypeOK
  BY <1>1, <1>2 DEF Init, TypeOK
<1>4. State(vmcs, ia32e) = Handled(State(hw, "LMA" \in hw.efer), exit)
  <2>1. hw = vmcs /\ exit.reason = "none" /\ ia32e = FALSE /\ "LMA" \notin hw.efer
    BY <1>1, <1>2 DEF Init
  <2>2. ("LMA" \in hw.efer) = FALSE
    BY <2>1
  <2>3. Handled(State(hw, "LMA" \in hw.efer), exit) = State(hw, "LMA" \in hw.efer)
    BY <2>1 DEF Handled
  <2> QED
    BY <2>1, <2>2, <2>3, Zenon
<1> QED
  BY <1>1, <1>3, <1>4 DEF Init, ModeInv, OnlyBadWritesKill

\* A VM exit of a coherent guest hands the monitor a coherent VMCS.
LEMMA ExitIsCoherent ==
  ASSUME ModeInv, mode = "guest", NEW reason, NEW val,
         VmExit(reason, val),
         [reason |-> reason, val |-> val] \in Exits
  PROVE  ModeInv'
<1>1. hw \in GuestRegs /\ Coherent(hw)
  BY DEF ModeInv, TypeOK
<1>2. /\ mode' = "exit" /\ vmcs' = hw /\ hw' = hw
      /\ ia32e' = ("LMA" \in hw.efer)
      /\ exit' \in Exits
  BY DEF VmExit
<1>3. TypeOK'
  BY <1>1, <1>2 DEF TypeOK
<1> QED
  BY <1>1, <1>2, <1>3 DEF ModeInv, OnlyBadWritesKill

\* A handler leaves what Handled says.
LEMMA HandlerReturns ==
  ASSUME ModeInv, mode = "exit",
         Return(Handled(State(vmcs, ia32e), exit))
  PROVE  ModeInv'
<1> DEFINE s == Handled(State(hw, "LMA" \in hw.efer), exit)
<1>1. TypeOK /\ Coherent(hw) /\ State(vmcs, ia32e) = State(hw, "LMA" \in hw.efer)
  BY DEF ModeInv, TypeOK, State
<1>2. vmcs' = s.regs /\ ia32e' = s.ia32e /\ mode' = "ready" /\ UNCHANGED <<hw, exit>>
  BY <1>1 DEF Return
<1>3. s.regs \in GuestRegs /\ s.ia32e \in BOOLEAN
  BY <1>1, HandledWrite
<1>4. s = State(s.regs, s.ia32e)
  BY <1>1 DEF Handled, vmx_set_cr0, enter_lmode, exit_lmode, vmx_set_cr4, wrmsr_efer, State
<1>5. (State(vmcs, ia32e) = Handled(State(hw, "LMA" \in hw.efer), exit))'
  BY <1>2, <1>4
<1> HIDE DEF s
<1>6. TypeOK'
  BY <1>1, <1>2, <1>3 DEF TypeOK
<1> QED
  BY <1>1, <1>2, <1>5, <1>6 DEF ModeInv, OnlyBadWritesKill

\* Every native and every emulated write keeps the invariant.
LEMMA ModeInvStep == ModeInv /\ [Next]_vars => ModeInv'
<1> SUFFICES ASSUME ModeInv, [Next]_vars PROVE ModeInv'
  OBVIOUS
<1>0. TypeOK
  BY DEF ModeInv
<1>1. ASSUME NEW val \in SUBSET Cr0Bits, GuestMovCr0(val) PROVE ModeInv'
  <2>1. CASE Cr0Exits(val)
    <3>1. VmExit("cr0", val) /\ mode = "guest"
      BY <1>1, <2>1 DEF GuestMovCr0
    <3>2. [reason |-> "cr0", val |-> val] \in Exits
      BY DEF Exits
    <3> QED
      BY <3>1, <3>2, ExitIsCoherent
  <2>2. CASE ~Cr0Exits(val)
    <3> DEFINE efer == IF "PG" \in val /\ "LME" \in hw.efer
                       THEN hw.efer \cup {"LMA"} ELSE hw.efer \ {"LMA"}
    <3>1. /\ mode = "guest" /\ mode' = "guest"
          /\ hw' = [hw EXCEPT !.cr0 = val, !.efer = efer]
          /\ UNCHANGED <<vmcs, ia32e, exit>>
          /\ LegalCr0(val) /\ KVM_GUEST_CR0_ALWAYS_ON \subseteq val
      BY <1>1, <2>2 DEF GuestMovCr0, Cr0Exits
    <3>2. hw \in GuestRegs /\ Coherent(hw)
      BY <1>0, <3>1 DEF TypeOK, ModeInv
    <3>3. efer \in SUBSET EferBits
      BY <3>2 DEF GuestRegs, EferBits
    <3>4. /\ hw' \in GuestRegs /\ hw'.cr0 = val /\ hw'.efer = efer
          /\ hw'.cr4 = hw.cr4 /\ hw'.tr = hw.tr
      BY <3>1, <3>2, <3>3 DEF GuestRegs
    <3>5. Coherent(hw')
      BY <3>1, <3>2, <3>4 DEF Coherent, LegalCr0, KVM_GUEST_CR0_ALWAYS_ON
    <3>6. TypeOK'
      BY <1>0, <3>1, <3>4 DEF TypeOK
    <3> QED
      BY <3>1, <3>5, <3>6 DEF ModeInv, OnlyBadWritesKill
  <2> QED
    BY <2>1, <2>2
<1>2. ASSUME NEW val \in SUBSET Cr4Bits, GuestMovCr4(val) PROVE ModeInv'
  <2>1. CASE Cr4Exits(val)
    <3>1. VmExit("cr4", val) /\ mode = "guest"
      BY <1>2, <2>1 DEF GuestMovCr4
    <3>2. [reason |-> "cr4", val |-> val] \in Exits
      BY DEF Exits
    <3> QED
      BY <3>1, <3>2, ExitIsCoherent
  <2>2. CASE ~Cr4Exits(val)
    <3>1. /\ mode = "guest" /\ mode' = "guest"
          /\ hw' = [hw EXCEPT !.cr4 = val]
          /\ UNCHANGED <<vmcs, ia32e, exit>>
          /\ LegalCr4(val) /\ KVM_GUEST_CR4_ALWAYS_ON \subseteq val
      BY <1>2, <2>2 DEF GuestMovCr4, Cr4Exits
    <3>2. hw \in GuestRegs /\ Coherent(hw)
      BY <1>0, <3>1 DEF TypeOK, ModeInv
    <3>3. /\ hw' \in GuestRegs /\ hw'.cr4 = val /\ hw'.efer = hw.efer
          /\ hw'.cr0 = hw.cr0 /\ hw'.tr = hw.tr
      BY <3>1, <3>2 DEF GuestRegs
    <3>4. Coherent(hw')
      BY <3>1, <3>2, <3>3 DEF Coherent, LegalCr4, KVM_GUEST_CR4_ALWAYS_ON
    <3>5. TypeOK'
      BY <1>0, <3>1, <3>3 DEF TypeOK
    <3> QED
      BY <3>1, <3>4, <3>5 DEF ModeInv, OnlyBadWritesKill
  <2> QED
    BY <2>1, <2>2
<1>3. ASSUME NEW val \in SUBSET EferBits, GuestWrmsrEfer(val) PROVE ModeInv'
  <2>1. VmExit("efer", val) /\ mode = "guest"
    BY <1>3 DEF GuestWrmsrEfer
  <2>2. [reason |-> "efer", val |-> val] \in Exits
    BY DEF Exits
  <2> QED
    BY <2>1, <2>2, ExitIsCoherent
<1>4. ASSUME NEW tr \in TrTypes, GuestLtr(tr) PROVE ModeInv'
  <2>1. /\ mode = "guest" /\ mode' = "guest"
        /\ hw' = [hw EXCEPT !.tr = tr]
        /\ UNCHANGED <<vmcs, ia32e, exit>>
        /\ "LMA" \in hw.efer => tr = "tss"
    BY <1>4 DEF GuestLtr
  <2>2. hw \in GuestRegs /\ Coherent(hw)
    BY <1>0, <2>1 DEF TypeOK, ModeInv
  <2>3. /\ hw' \in GuestRegs /\ hw'.tr = tr /\ hw'.efer = hw.efer
        /\ hw'.cr0 = hw.cr0 /\ hw'.cr4 = hw.cr4
    BY <2>1, <2>2 DEF GuestRegs
  <2>4. Coherent(hw')
    BY <2>1, <2>2, <2>3 DEF Coherent
  <2>5. TypeOK'
    BY <1>0, <2>1, <2>3 DEF TypeOK
  <2> QED
    BY <2>1, <2>4, <2>5 DEF ModeInv, OnlyBadWritesKill
<1>5. CASE GuestOtherExit
  <2>1. VmExit("other", {}) /\ mode = "guest"
    BY <1>5 DEF GuestOtherExit
  <2>2. [reason |-> "other", val |-> {}] \in Exits
    BY DEF Exits
  <2> QED
    BY <2>1, <2>2, ExitIsCoherent
<1>6. CASE handle_cr \/ handle_wrmsr \/ handle_other
  <2>1. mode = "exit" /\ Return(Handled(State(vmcs, ia32e), exit))
    BY <1>6 DEF handle_cr, handle_wrmsr, handle_other, Handled
  <2> QED
    BY <2>1, HandlerReturns
<1>7. CASE VmEntry
  <2>1. mode = "ready" /\ EntryChecks /\ mode' = "guest" /\ hw' = vmcs
        /\ UNCHANGED <<vmcs, ia32e, exit>>
    BY <1>7 DEF VmEntry
  <2>2. "SCE" \notin vmcs.efer
    BY <2>1, ReadyVmcs
  <2>3. TypeOK'
    BY <1>0, <2>1 DEF TypeOK
  <2>4. Coherent(hw')
    BY <2>1, <2>2 DEF EntryChecks, Coherent
  <2> QED
    BY <2>1, <2>3, <2>4 DEF ModeInv, OnlyBadWritesKill
<1>8. CASE VmEntryFails
  <2>1. mode = "ready" /\ ~EntryChecks /\ mode' = "dead"
        /\ UNCHANGED <<hw, vmcs, ia32e, exit>>
    BY <1>8 DEF VmEntryFails
  <2>2. ~(LegalWrite(exit) /\ KeepsLma(exit))
    BY <2>1, ReadyVmcs
  <2>3. ~(LegalWrite(exit) /\ KeepsLma(exit))'
    BY <2>1, <2>2 DEF LegalWrite, KeepsLma, LegalCr0, LegalCr4, LegalEfer
  <2>4. TypeOK'
    BY <1>0, <2>1 DEF TypeOK
  <2> QED
    BY <2>1, <2>3, <2>4 DEF ModeInv, OnlyBadWritesKill
<1>9. CASE UNCHANGED vars
  BY <1>9 DEF vars, ModeInv, TypeOK, OnlyBadWritesKill, LegalWrite, KeepsLma,
              LegalCr0, LegalCr4, LegalEfer
<1> QED
  BY <1>1, <1>2, <1>3, <1>4, <1>5, <1>6, <1>7, <1>8, <1>9 DEF Next

\* ModeInv is an invariant: whatever the guest writes to CR0, CR4 and EFER,
\* it runs with coherent registers, and between an exit and the next entry
\* the VMCS is what the handlers make of them.
THEOREM ModeInvariant == Spec => []ModeInv
<1>1. Init => ModeInv
  BY ModeInvInit
<1>2. ModeInv /\ [Next]_vars => ModeInv'
  BY ModeInvStep
<1> QED
  BY <1>1, <1>2, PTL DEF Spec

-----------------------------------------------------------------------------
(***************************************************************************)
(* What the invariant gives.                                               *)
(***************************************************************************)

\* Type correctness.
THEOREM ModeTypeCorrect == Spec => []TypeOK
<1>1. ModeInv => TypeOK
  BY DEF ModeInv
<1> QED
  BY <1>1, ModeInvariant, PTL

\* Every SYSCALL of every guest traps to the monitor.
THEOREM SyscallsAlwaysTrap == Spec => []SyscallsTrap
<1>1. ModeInv => SyscallsTrap
  BY DEF ModeInv, SyscallsTrap, Coherent
<1> QED
  BY <1>1, ModeInvariant, PTL

\* For every guest: handle_cr and handle_wrmsr prepare a VM entry that fails
\* only from a write the architecture refuses or from a foreign EFER.LMA.
THEOREM GoodWritesAreSafe == Spec => []OnlyBadWritesKill
<1>1. ModeInv => OnlyBadWritesKill
  BY DEF ModeInv
<1> QED
  BY <1>1, ModeInvariant, PTL

-----------------------------------------------------------------------------
(***************************************************************************)
(* VcpuMode implements LongMode.                                           *)
(***************************************************************************)

\* Reset leaves long mode off.
LEMMA LongModeInit == Init => LM!Init
  BY DEF Init, LM!Init, Now, ResetRegs, KVM_GUEST_CR0_ALWAYS_ON,
         KVM_GUEST_CR4_ALWAYS_ON

\* Steps that leave the guest's registers as they were are invisible.
LEMMA SameRegsStutter ==
  ASSUME Now' = Now
  PROVE  UNCHANGED LM!vars
  BY DEF LM!vars

\* The observed registers go from hw to those of a pair the handlers left.
LEMMA WriteIsLongMode ==
  ASSUME NEW s, LongModeWrite(s), Now = hw, Now' = s.regs, Coherent(hw)
  PROVE  [LM!Next]_(LM!vars)
<1>1. CASE /\ "LME" \in hw.efer /\ "PG" \notin hw.cr0 /\ "PG" \in s.regs.cr0
                => "PAE" \in hw.cr4
           /\ "LMA" \in s.regs.efer <=> "LME" \in hw.efer /\ "PG" \in s.regs.cr0
           /\ "PAE" \in s.regs.cr4 <=> "PAE" \in hw.cr4
           /\ "LME" \in s.regs.efer <=> "LME" \in hw.efer
  <2>1. LM!WriteCr0
    BY <1>1 DEF LM!WriteCr0
  <2> QED
    BY <2>1 DEF LM!Next
<1>2. CASE /\ "LMA" \in hw.efer => "PAE" \in s.regs.cr4
           /\ "PG" \in s.regs.cr0 <=> "PG" \in hw.cr0
           /\ s.regs.efer = hw.efer
  <2>1. LM!WriteCr4
    BY <1>2 DEF LM!WriteCr4
  <2> QED
    BY <2>1 DEF LM!Next
<1>3. CASE /\ ~("LME" \in s.regs.efer <=> "LME" \in hw.efer) => "PG" \notin hw.cr0
           /\ "PG" \in s.regs.cr0 <=> "PG" \in hw.cr0
           /\ "PAE" \in s.regs.cr4 <=> "PAE" \in hw.cr4
           /\ "LMA" \in s.regs.efer <=> "LMA" \in hw.efer
  <2>1. LM!WriteEfer
    BY <1>3 DEF LM!WriteEfer
  <2> QED
    BY <2>1 DEF LM!Next
<1> QED
  BY <1>1, <1>2, <1>3 DEF LongModeWrite

\* What ReadyVmcs says of an accepted write, and the same after a step.
LEMMA ReadyWrite ==
  ModeInv /\ mode = "ready" /\ LegalWrite(exit) /\ KeepsLma(exit)
    => LongModeWrite(State(vmcs, ia32e))
  BY ReadyVmcs

\* The registers the handlers just left after an accepted write.
LEMMA ReadyVmcsNext ==
  (ModeInv /\ mode = "ready" /\ LegalWrite(exit) /\ KeepsLma(exit))'
    => LongModeWrite(State(vmcs, ia32e))'
  BY ReadyWrite, PTL

\* Each step is one architectural write or invisible.
LEMMA LongModeStep ==
  ASSUME ModeInv, ModeInv', [Next]_vars
  PROVE  [LM!Next]_(LM!vars)
<1>1. ASSUME NEW val \in SUBSET Cr0Bits, GuestMovCr0(val) PROVE [LM!Next]_(LM!vars)
  <2>1. CASE Cr0Exits(val)
    <3>1. Now' = Now
      BY <1>1, <2>1 DEF GuestMovCr0, VmExit, Now
    <3> QED
      BY <3>1, SameRegsStutter
  <2>2. CASE ~Cr0Exits(val)
    <3>1. /\ mode = "guest" /\ mode' = "guest" /\ LegalCr0(val)
          /\ hw' = [hw EXCEPT !.cr0 = val,
                      !.efer = IF "PG" \in val /\ "LME" \in hw.efer
                               THEN hw.efer \cup {"LMA"} ELSE hw.efer \ {"LMA"}]
      BY <1>1, <2>2 DEF GuestMovCr0
    <3>2. hw \in GuestRegs /\ Now = hw /\ Now' = hw'
      BY <3>1 DEF ModeInv, TypeOK, Now
    <3>3. /\ hw'.cr0 = val /\ hw'.cr4 = hw.cr4
          /\ hw'.efer = IF "PG" \in val /\ "LME" \in hw.efer
                        THEN hw.efer \cup {"LMA"} ELSE hw.efer \ {"LMA"}
      BY <3>1, <3>2 DEF GuestRegs
    <3>4. LM!WriteCr0
      BY <3>1, <3>2, <3>3 DEF LM!WriteCr0, LegalCr0
    <3> QED
      BY <3>4 DEF LM!Next
  <2> QED
    BY <2>1, <2>2
<1>2. ASSUME NEW val \in SUBSET Cr4Bits, GuestMovCr4(val) PROVE [LM!Next]_(LM!vars)
  <2>1. CASE Cr4Exits(val)
    <3>1. Now' = Now
      BY <1>2, <2>1 DEF GuestMovCr4, VmExit, Now
    <3> QED
      BY <3>1, SameRegsStutter
  <2>2. CASE ~Cr4Exits(val)
    <3>1. /\ mode = "guest" /\ mode' = "guest" /\ LegalCr4(val)
          /\ hw' = [hw EXCEPT !.cr4 = val]
      BY <1>2, <2>2 DEF GuestMovCr4
    <3>2. hw \in GuestRegs /\ Now = hw /\ Now' = hw'
      BY <3>1 DEF ModeInv, TypeOK, Now
    <3>3. hw'.cr0 = hw.cr0 /\ hw'.cr4 = val /\ hw'.efer = hw.efer
      BY <3>1, <3>2 DEF GuestRegs
    <3>4. LM!WriteCr4
      BY <3>1, <3>2, <3>3 DEF LM!WriteCr4, LegalCr4
    <3> QED
      BY <3>4 DEF LM!Next
  <2> QED
    BY <2>1, <2>2
<1>3. ASSUME NEW val \in SUBSET EferBits, GuestWrmsrEfer(val) PROVE [LM!Next]_(LM!vars)
  <2>1. Now' = Now
    BY <1>3 DEF GuestWrmsrEfer, VmExit, Now
  <2> QED
    BY <2>1, SameRegsStutter
<1>4. ASSUME NEW tr \in TrTypes, GuestLtr(tr) PROVE [LM!Next]_(LM!vars)
  <2>1. mode = "guest" /\ mode' = "guest" /\ hw' = [hw EXCEPT !.tr = tr] /\ hw \in GuestRegs
    BY <1>4 DEF GuestLtr, ModeInv, TypeOK
  <2>2. hw'.cr0 = hw.cr0 /\ hw'.cr4 = hw.cr4 /\ hw'.efer = hw.efer
    BY <2>1 DEF GuestRegs
  <2> QED
    BY <2>1, <2>2 DEF LM!vars, Now
<1>5. CASE GuestOtherExit
  <2>1. Now' = Now
    BY <1>5 DEF GuestOtherExit, VmExit, Now
  <2> QED
    BY <2>1, SameRegsStutter
<1>6. CASE handle_cr \/ handle_wrmsr \/ handle_other
  <2>1. mode = "exit" /\ mode' = "ready" /\ UNCHANGED <<hw, exit>>
    BY <1>6 DEF handle_cr, handle_wrmsr, handle_other, Return
  <2>2. Now = hw /\ hw = vmcs /\ Coherent(hw)
    BY <2>1 DEF ModeInv, Now
  <2>3. CASE (LegalWrite(exit) /\ KeepsLma(exit))'
    <3>1. LongModeWrite(State(vmcs, ia32e))'
      BY <2>1, <2>3, ReadyVmcsNext
    <3>2. LongModeWrite(State(vmcs', ia32e'))
      BY <2>1, <3>1 DEF LongModeWrite, State
    <3>3. Now' = State(vmcs', ia32e').regs
      BY <2>1, <2>3 DEF Now, State
    <3> QED
      BY <2>2, <3>2, <3>3, WriteIsLongMode
  <2>4. CASE ~(LegalWrite(exit) /\ KeepsLma(exit))'
    <3>1. Now' = hw
      BY <2>1, <2>4 DEF Now
    <3> QED
      BY <2>2, <3>1, SameRegsStutter
  <2> QED
    BY <2>3, <2>4
<1>7. CASE VmEntry
  <2>1. mode = "ready" /\ EntryChecks /\ mode' = "guest" /\ hw' = vmcs
    BY <1>7 DEF VmEntry
  <2>2. Now' = vmcs /\ Coherent(hw)
    BY <2>1 DEF Now, ModeInv
  <2>3. CASE LegalWrite(exit) /\ KeepsLma(exit)
    <3>1. Now = vmcs
      BY <2>1, <2>3 DEF Now
    <3> QED
      BY <2>2, <3>1, SameRegsStutter
  <2>4. CASE ~(LegalWrite(exit) /\ KeepsLma(exit))
    <3>1. Now = hw
      BY <2>4 DEF Now
    <3>2. LongModeWrite(State(vmcs, ia32e))
      BY <2>1, ReadyVmcs
    <3>3. Now' = State(vmcs, ia32e).regs
      BY <2>2 DEF State
    <3> QED
      BY <2>2, <3>1, <3>2, <3>3, WriteIsLongMode
  <2> QED
    BY <2>3, <2>4
<1>8. CASE VmEntryFails \/ UNCHANGED vars
  <2>1. UNCHANGED <<hw, vmcs, exit>> /\ (mode = "guest" <=> mode' = "guest")
    BY <1>8 DEF VmEntryFails, vars
  <2>2. (LegalWrite(exit) /\ KeepsLma(exit))' <=> (LegalWrite(exit) /\ KeepsLma(exit))
    BY <2>1 DEF LegalWrite, KeepsLma, LegalCr0, LegalCr4, LegalEfer
  <2>3. Now' = Now
    BY <2>1, <2>2 DEF Now
  <2> QED
    BY <2>3, SameRegsStutter
<1> QED
  BY <1>1, <1>2, <1>3, <1>4, <1>5, <1>6, <1>7, <1>8 DEF Next

\* For every guest, whatever it writes: native and emulated mode switches
\* together are those of the architecture.
THEOREM VcpuImplementsLongMode == Spec => ImplementsLongMode
<1>1. Init => LM!Init
  BY LongModeInit
<1>2. ModeInv /\ ModeInv' /\ [Next]_vars => [LM!Next]_(LM!vars)
  BY LongModeStep
<1> QED
  BY <1>1, <1>2, ModeInvariant, PTL DEF Spec, ImplementsLongMode, LM!Spec
=============================================================================
