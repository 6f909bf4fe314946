------------------------------ MODULE VmxSetup ------------------------------
(***************************************************************************)
(* vmm/vmx.c and vmm/kvm.c: from the first look at the processor's VMX     *)
(* capabilities to the first VM entry.  A control word is the set of its   *)
(* bits, a VMCS a record of the fields the entry checks look at.           *)
(***************************************************************************)
EXTENDS Integers, Sequences, FiniteSets

CONSTANTS
  MaxLacking,     \* bound: controls a processor lacks
  ForcedControls, \* bound: controls a processor may force to 1
  StartIps,       \* bound: start_ip of run_vcpu
  GuestRights,    \* bound: access rights the processor may save for a guest segment
  Regions         \* bound: what the VMCS region may hold that no VMCLEAR initialised

VARIABLES
  processor,      \* VMX support, capability MSRs, revision
  feature_control,\* MSR_IA32_FEATURE_CONTROL
  hostRegs,       \* the processor's registers outside VMX non-root operation
  vmcs_config, vmx_capability,
  vmcs,
  setup           \* place: pc, the words adjusted, the host registers at entry, start_ip

vmxVars == <<processor, feature_control, hostRegs, vmcs_config, vmx_capability, vmcs, setup>>

Controls ==
  [CPU   |-> {"USE_MSR_BITMAPS", "ACTIVATE_SECONDARY", "RDTSC_EXITING", "CR3_LOAD_EXITING",
              "CR3_STORE_EXITING", "INVLPG_EXITING", "HLT_EXITING"},
   CPU2  |-> {"ENABLE_EPT", "ENABLE_VPID", "UNRESTRICTED_GUEST", "RDTSCP", "ENABLE_INVPCID", "XSAVES"},
   EXIT  |-> {"SAVE_DEBUG", "HOST_ADDR_SPACE_SIZE", "SAVE_EFER", "LOAD_EFER", "SAVE_PAT", "LOAD_PAT",
              "CLEAR_BNDCFGS", "ACK_INTR"},
   PIN   |-> {"EXT_INTR_MASK", "NMI_EXITING"},
   ENTRY |-> {"LOAD_DEBUG", "LOAD_EFER", "LOAD_PAT", "LOAD_BNDCFGS", "IA32E_MODE"}]

\* Fields that a VM entry checks, or an exit loads, and that no code writes.
UnwrittenFields == {"GUEST_IA32_PAT", "GUEST_BNDCFGS", "GUEST_DR7", "HOST_IA32_SYSENTER_ESP"}

\* The launch state, the fields vmx_set_cr0 reads before it writes them, and
\* the unwritten fields with a value that an entry refuses.
RegionStates == [launched : BOOLEAN, efer : SUBSET {"LME", "LMA", "RESERVED"}, pg : BOOLEAN,
                 bad : SUBSET UnwrittenFields]

\* The order setup_vmcs_config adjusts them in.
WordOrder == <<"CPU", "CPU2", "EXIT", "PIN", "ENTRY">>

Minimum ==
  [CPU   |-> {"USE_MSR_BITMAPS", "ACTIVATE_SECONDARY", "RDTSC_EXITING", "CR3_LOAD_EXITING"},
   CPU2  |-> {"ENABLE_EPT", "ENABLE_VPID", "UNRESTRICTED_GUEST"},
   EXIT  |-> {"SAVE_DEBUG", "HOST_ADDR_SPACE_SIZE", "SAVE_EFER", "LOAD_EFER"},
   PIN   |-> {},
   ENTRY |-> {"LOAD_DEBUG", "LOAD_EFER"}]

Optional ==
  [CPU |-> {}, CPU2 |-> {"RDTSCP", "ENABLE_INVPCID"}, EXIT |-> {"SAVE_PAT", "LOAD_PAT", "CLEAR_BNDCFGS"},
   PIN |-> {}, ENTRY |-> {"LOAD_PAT", "LOAD_BNDCFGS"}]

\* Bits the capability MSRs without TRUE report as 1 although they may be 0.
Default1 == [CPU |-> {"CR3_LOAD_EXITING", "CR3_STORE_EXITING"}, CPU2 |-> {}, EXIT |-> {"SAVE_DEBUG"},
             PIN |-> {}, ENTRY |-> {"LOAD_DEBUG"}]

FeatureBits == {"LOCKED", "VMXON_ENABLED_OUTSIDE_SMX", "VMXON_ENABLED_INSIDE_SMX"}
TssAddress == <<17, 34, 51, 68, 85, 102, 119, 136>>   \* eight bytes, the lowest first

\* set_tssldt_descriptor: the base in four fields.
TssDescriptor(addr) == [base0 |-> SubSeq(addr, 1, 2), base1 |-> addr[3], base2 |-> addr[4],
                        base3 |-> SubSeq(addr, 5, 8), p |-> 1]

VmxInit ==
  /\ \E vmx \in BOOLEAN, rev \in {1, 2}, w \in DOMAIN Controls, forced \in SUBSET ForcedControls,
        bad \in {"nothing", "2MB_PAGE", "PAGE_WALK_4", "size", "memtype"} :
       \E lacking \in {c \in SUBSET Controls[w] : Cardinality(c) <= MaxLacking} :
         /\ lacking \cap forced = {} /\ (bad # "nothing" => lacking = {} /\ forced = {})
         /\ processor =
              [vmx |-> vmx, rev |-> rev, size |-> IF bad = "size" THEN 4097 ELSE 1024,
               memtype |-> IF bad = "memtype" THEN 0 ELSE 6,
               ept |-> {"2MB_PAGE", "PAGE_WALK_4"} \ {bad},
               must |-> [c \in DOMAIN Controls |-> Controls[c] \cap forced],
               low  |-> [c \in DOMAIN Controls |-> (Default1[c] \cup (Controls[c] \cap forced)) \ lacking],
               high |-> [c \in DOMAIN Controls |-> Controls[c] \ (IF c = w THEN lacking ELSE {})]]
  /\ feature_control \in SUBSET FeatureBits
  /\ \E on \in BOOLEAN :
       hostRegs = [cr0 |-> {"PE", "PG", "WP", "NE"}, cr3 |-> "kpml4",
                   cr4 |-> {"PAE"} \cup (IF on THEN {"VMXE"} ELSE {}),
                   efer |-> {"LME", "LMA", "SCE"}, fs_base |-> 0, gs_base |-> "percpu",
                   cs |-> 16, ds |-> 24, es |-> 24, ss |-> 24, fs |-> 0, gs |-> 0, tr |-> 64,
                   gdtr |-> "gdt", gdt_limit |-> 127, idtr |-> "idt", idt_limit |-> 4095,
                   sysenter_cs |-> 0, sysenter_esp |-> "null", sysenter_eip |-> "null",
                   tr_base |-> TssAddress, tss |-> TssDescriptor(TssAddress),
                   pat |-> "host", msrs |-> "host", vmxon |-> FALSE]
  /\ vmcs_config = [CPU |-> {}, CPU2 |-> {}, EXIT |-> {}, PIN |-> {}, ENTRY |-> {}, size |-> 0, revision_id |-> 0]
  /\ vmx_capability = {}
  /\ vmcs = [revision_id |-> 0]
  /\ setup = [pc |-> "support", word |-> 1, entered |-> <<>>, start_ip |-> 0]

At(pc) == setup.pc = pc
Goto(pc) == setup' = [setup EXCEPT !.pc = pc]
Panic == Goto("panic")

cpu_has_kvm_support ==
  /\ At("support")
  /\ IF processor.vmx THEN Goto("bios") ELSE Panic
  /\ UNCHANGED <<processor, feature_control, hostRegs, vmcs_config, vmx_capability, vmcs>>

DisabledByBios(msr) ==
  /\ "LOCKED" \in msr
  /\ \/ "VMXON_ENABLED_OUTSIDE_SMX" \notin msr /\ "VMXON_ENABLED_INSIDE_SMX" \in msr
     \/ "VMXON_ENABLED_OUTSIDE_SMX" \notin msr

vmx_disabled_by_bios ==
  /\ At("bios")
  /\ IF DisabledByBios(feature_control) THEN Panic ELSE Goto("adjust")
  /\ UNCHANGED <<processor, feature_control, hostRegs, vmcs_config, vmx_capability, vmcs>>

\* Mutant of Adjusted: bits the processor cannot set are kept.
Adjusted_NoHigh(min, opt, low, high) == (min \cup opt) \cup low

Adjusted(min, opt, low, high) == ((min \cup opt) \cap high) \cup low

\* What is left of the primary word once EPT is known to be there.
WithoutEptExits(ctl) == ctl \ {"CR3_STORE_EXITING", "INVLPG_EXITING"}

\* One call of adjust_vmx_controls in setup_vmcs_config.
adjust_vmx_controls ==
  /\ At("adjust")
  /\ LET w == WordOrder[setup.word]
         ctl == Adjusted(Minimum[w], Optional[w], processor.low[w], processor.high[w])
     IN  IF Minimum[w] \subseteq ctl
         THEN /\ vmcs_config' =
                   IF w = "CPU2" THEN [vmcs_config EXCEPT ![w] = ctl, !["CPU"] = WithoutEptExits(@)]
                   ELSE [vmcs_config EXCEPT ![w] = ctl]
              /\ vmx_capability' = IF w = "CPU2" THEN processor.ept ELSE vmx_capability
              /\ setup' = IF setup.word = Len(WordOrder) THEN [setup EXCEPT !.pc = "basic"]
                          ELSE [setup EXCEPT !.word = @ + 1]
         ELSE Panic /\ UNCHANGED <<vmcs_config, vmx_capability>>
  /\ UNCHANGED <<processor, feature_control, hostRegs, vmcs>>

\* The end of setup_vmcs_config: MSR_IA32_VMX_BASIC.
BasicCapabilities ==
  /\ At("basic")
  /\ IF processor.size > 4096 \/ processor.memtype # 6
     THEN Panic /\ UNCHANGED vmcs_config
     ELSE /\ vmcs_config' = [vmcs_config EXCEPT !.size = processor.size, !.revision_id = processor.rev]
          /\ Goto("ept")
  /\ UNCHANGED <<processor, feature_control, hostRegs, vmx_capability, vmcs>>

cpu_has_vmx_ept_2m_page == "2MB_PAGE" \in vmx_capability
cpu_has_vmx_ept_4levels == "PAGE_WALK_4" \in vmx_capability

\* Its MSR bitmap is in VcpuRun.
vmx_hardware_setup ==
  /\ At("ept")
  /\ IF cpu_has_vmx_ept_2m_page /\ cpu_has_vmx_ept_4levels THEN Goto("enable") ELSE Panic
  /\ UNCHANGED <<processor, feature_control, hostRegs, vmcs_config, vmx_capability, vmcs>>

-----------------------------------------------------------------------------
TestBits == {"LOCKED", "VMXON_ENABLED_OUTSIDE_SMX"}

\* vmxon, as far as the processor refuses it.
VmxonFaults(fc, cr4, revision_id) ==
  ~(TestBits \subseteq fc /\ "VMXE" \in cr4 /\ revision_id = processor.rev)

\* A write to a locked FEATURE_CONTROL faults.  vmcs_load makes the region
\* current without a VMCLEAR before it: what it holds is left open.
vmx_vcpu_enable ==
  /\ At("enable")
  /\ IF "VMXE" \in hostRegs.cr4
     THEN Panic /\ UNCHANGED <<feature_control, hostRegs, vmcs>>
     ELSE LET writes == ~(TestBits \subseteq feature_control)
              fc == IF writes THEN feature_control \cup TestBits ELSE feature_control
              cr4 == hostRegs.cr4 \cup {"VMXE"}
          IN  IF (writes /\ "LOCKED" \in feature_control) \/ VmxonFaults(fc, cr4, vmcs_config.revision_id)
              THEN Goto("fault") /\ UNCHANGED <<feature_control, hostRegs, vmcs>>
              ELSE /\ feature_control' = fc
                   /\ hostRegs' = [hostRegs EXCEPT !.cr4 = cr4, !.vmxon = TRUE]
                   /\ \E region \in Regions :
                        vmcs' = [revision_id |-> vmcs_config.revision_id, region |-> region]
                   /\ Goto("setup")
  /\ UNCHANGED <<processor, vmcs_config, vmx_capability>>

\* Mutant of get_tr_base: the third byte of the base is read twice.
get_tr_base_Base1Twice == hostRegs.tss.base0 \o <<hostRegs.tss.base1, hostRegs.tss.base1>> \o hostRegs.tss.base3

get_tr_base == hostRegs.tss.base0 \o <<hostRegs.tss.base1, hostRegs.tss.base2>> \o hostRegs.tss.base3

\* A base is counted in units of 16 bytes, as a selector is in real mode.
GuestSeg(selector, base, ar) == [selector |-> selector, base |-> base, limit |-> 65535, ar |-> ar]

\* The host area: HOST_IA32_SYSENTER_ESP is not written.
HostArea ==
  [cr0 |-> hostRegs.cr0, cr3 |-> hostRegs.cr3, cr4 |-> hostRegs.cr4, efer |-> hostRegs.efer,
   fs_base |-> hostRegs.fs_base, gs_base |-> hostRegs.gs_base,
   cs |-> 16, ds |-> 24, es |-> 24, ss |-> 24, fs |-> 0, gs |-> 0, tr |-> hostRegs.tr,
   gdtr |-> hostRegs.gdtr, idtr |-> hostRegs.idtr, tr_base |-> get_tr_base,
   sysenter_cs |-> hostRegs.sysenter_cs, sysenter_esp |-> "unwritten", sysenter_eip |-> hostRegs.sysenter_eip,
   pat |-> IF "LOAD_PAT" \in vmcs_config.EXIT THEN hostRegs.pat ELSE "unwritten"]

\* EPT_POINTER before vmx_set_tdp.
NoEptp == [root |-> "unwritten", memtype |-> 0, walk |-> 0]

\* vmx_set_cr0 with paging off calls exit_lmode if the region happens to
\* hold the EFER and the CR0 of a guest with long mode on.
LeavesLongMode == "LME" \in vmcs.region.efer /\ vmcs.region.pg

vmx_vcpu_setup ==
  /\ At("setup")
  /\ vmcs' =
       [revision_id |-> vmcs.revision_id, region |-> vmcs.region, eptp |-> NoEptp,
        controls |-> [w \in DOMAIN Controls |->
                        IF LeavesLongMode THEN vmcs_config[w] \ {"IA32E_MODE"} ELSE vmcs_config[w]],
        efer |-> IF LeavesLongMode THEN vmcs.region.efer \ {"LMA"} ELSE vmcs.region.efer,
        link_pointer |-> -1, vpid |-> 1,
        exception_bitmap |-> {6, 14}, cr3_targets |-> 0, msr_lists |-> 4, host |-> HostArea, hostMsrs |-> hostRegs.msrs,
        seg |-> [CS |-> GuestSeg(61440, 65535 * 4096, 155), DS |-> GuestSeg(0, 0, 147), ES |-> GuestSeg(0, 0, 147),
                 SS |-> GuestSeg(0, 0, 147), FS |-> GuestSeg(0, 0, 147), GS |-> GuestSeg(0, 0, 147),
                 TR |-> GuestSeg(0, 0, 139), LDTR |-> GuestSeg(0, 0, 130)],
        rflags |-> {"ONE"}, rip |-> 65520, activity |-> "active", interruptibility |-> {},
        cr0 |-> {"WP", "NE", "NW", "CD", "ET"}, cr3g |-> 0, cr4 |-> {"VMXE"}]
  /\ Goto("tdp")
  /\ UNCHANGED <<processor, feature_control, hostRegs, vmcs_config, vmx_capability>>

\* EPT_POINTER: memory type 6, a walk of 3 + 1 levels.
vmx_set_tdp ==
  /\ At("tdp")
  /\ vmcs' = [vmcs EXCEPT !.eptp = [root |-> "ept_pml4", memtype |-> 6, walk |-> 3]]
  /\ Goto("run_vcpu")
  /\ UNCHANGED <<processor, feature_control, hostRegs, vmcs_config, vmx_capability>>

-----------------------------------------------------------------------------
Bit(ar, n) == (ar \div 2^n) % 2

\* A processor with EPT lets CR3 stores and INVLPG go without an exit, and no
\* processor forces IA-32e mode on a guest.  The rights it saves for a usable
\* segment are those of a present one.
ASSUME VmxConstants ==
  /\ ForcedControls \cap {"CR3_STORE_EXITING", "INVLPG_EXITING", "IA32E_MODE"} = {}
  /\ Regions \subseteq RegionStates
  /\ StartIps \subseteq Nat /\ GuestRights \subseteq 0 .. (2^17 - 1)
  /\ \A ar \in GuestRights : Bit(ar, 16) = 0 => Bit(ar, 7) = 1 /\ (ar \div 2^8) % 16 = 0

vmx_segment_access_rights(var) ==
  IF var.unusable = 1 \/ var.present = 0 THEN 2^16
  ELSE (var.type % 16) + 2^4 * var.s + 2^5 * var.dpl + 2^7 * var.present + 2^12 * var.avl + 2^13 * var.l
       + 2^14 * var.db + 2^15 * var.g

vmx_get_segment(seg) ==
  LET ar == vmcs.seg[seg].ar
  IN  [base |-> vmcs.seg[seg].base, limit |-> vmcs.seg[seg].limit, selector |-> vmcs.seg[seg].selector,
       unusable |-> Bit(ar, 16), type |-> ar % 16, s |-> Bit(ar, 4), dpl |-> (ar \div 2^5) % 4,
       present |-> 1 - Bit(ar, 16), avl |-> Bit(ar, 12), l |-> Bit(ar, 13), db |-> Bit(ar, 14), g |-> Bit(ar, 15)]

\* The fields of a segment in the VMCS after vmx_set_segment.
vmx_set_segment(var) ==
  [base |-> var.base, limit |-> var.limit, selector |-> var.selector, ar |-> vmx_segment_access_rights(var)]

is_real_mode == "PE" \notin vmcs.cr0

\* cs of run_vcpu; the selector has 16 bits.
StartSegment(start_ip) ==
  LET base == (start_ip \div 2^16) * 2^12
  IN  [limit |-> 65535, type |-> 11, s |-> 1, present |-> 1, unusable |-> 0, dpl |-> 0, avl |-> 0, l |-> 0,
       db |-> 0, g |-> 0, base |-> base, selector |-> base % 2^16]

run_vcpu ==
  /\ At("run_vcpu")
  /\ \E start_ip \in StartIps :
       /\ vmcs' = [vmcs EXCEPT !.seg.CS = vmx_set_segment(StartSegment(start_ip)), !.rip = start_ip % 2^16]
       /\ setup' = [setup EXCEPT !.pc = "enter", !.start_ip = start_ip]
  /\ UNCHANGED <<processor, feature_control, hostRegs, vmcs_config, vmx_capability>>

-----------------------------------------------------------------------------
(* The processor (external): the checks of the first VM entry and what an  *)
(* exit loads.                                                             *)

SegmentAccepted(name, seg) ==
  LET type == seg.ar % 16  s == Bit(seg.ar, 4)  p == Bit(seg.ar, 7)  dpl == (seg.ar \div 2^5) % 4
  IN  /\ (seg.ar \div 2^8) % 16 = 0 /\ p = 1
      /\ CASE name = "CS"   -> s = 1 /\ type \in {3, 9, 11}
                              /\ dpl = IF type = 3 THEN 0 ELSE (vmcs.seg.SS.ar \div 2^5) % 4
           [] name = "SS"   -> s = 1 /\ type \in {3, 7}
           [] name = "TR"   -> s = 0 /\ type \in {3, 11}
           [] name = "LDTR" -> s = 0 /\ type = 2
           [] OTHER         -> s = 1 /\ type % 2 = 1 /\ (type >= 8 => (type \div 2) % 2 = 1)
      /\ Bit(seg.ar, 15) = 0     \* the limit has less than 20 bits

\* The checks on GUEST_IA32_EFER, which vmx_vcpu_setup leaves to the region,
\* and on the fields nobody writes.
UnwrittenAccepted ==
  /\ "LOAD_EFER" \in vmcs.controls.ENTRY =>
       "RESERVED" \notin vmcs.efer /\ ("LMA" \in vmcs.efer <=> "IA32E_MODE" \in vmcs.controls.ENTRY)
  /\ "GUEST_IA32_PAT" \in vmcs.region.bad => "LOAD_PAT" \notin vmcs.controls.ENTRY
  /\ "GUEST_BNDCFGS" \in vmcs.region.bad => "LOAD_BNDCFGS" \notin vmcs.controls.ENTRY
  /\ "GUEST_DR7" \in vmcs.region.bad => "LOAD_DEBUG" \notin vmcs.controls.ENTRY
  /\ "HOST_IA32_SYSENTER_ESP" \notin vmcs.region.bad

EntryAccepted ==
  /\ \A w \in DOMAIN Controls : processor.must[w] \subseteq vmcs.controls[w]
                               /\ vmcs.controls[w] \subseteq processor.high[w]
  /\ ~vmcs.region.launched /\ vmcs.revision_id = processor.rev      \* VMLAUNCH
  /\ vmcs.link_pointer = -1 /\ vmcs.vpid # 0 /\ vmcs.eptp.memtype = 6 /\ vmcs.eptp.walk = 3
  /\ \A name \in DOMAIN vmcs.seg : SegmentAccepted(name, vmcs.seg[name])
  /\ "NE" \in vmcs.cr0 /\ "VMXE" \in vmcs.cr4 /\ "ONE" \in vmcs.rflags
  /\ is_real_mode => "UNRESTRICTED_GUEST" \in vmcs.controls.CPU2
  /\ vmcs.host.cs # 0 /\ vmcs.host.tr # 0 /\ "VMXE" \in vmcs.host.cr4
  /\ "HOST_ADDR_SPACE_SIZE" \in vmcs.controls.EXIT
  /\ {"LME", "LMA"} \subseteq vmcs.host.efer /\ "PAE" \in vmcs.host.cr4
  /\ UnwrittenAccepted

VmEntry ==
  /\ At("enter")
  /\ setup' = [setup EXCEPT !.pc = IF EntryAccepted THEN "guest" ELSE "rejected", !.entered = hostRegs]
  /\ UNCHANGED <<processor, feature_control, hostRegs, vmcs_config, vmx_capability, vmcs>>

\* The guest loads a segment register, and exits; the host area is loaded,
\* and the limits of GDTR and IDTR become 0xffff.
VmExit ==
  /\ At("guest")
  /\ \E seg \in {"CS", "SS", "DS"}, ar \in GuestRights : vmcs' = [vmcs EXCEPT !.seg[seg].ar = ar]
  /\ hostRegs' = [r \in DOMAIN hostRegs |->
        CASE r = "pat" -> IF "LOAD_PAT" \in vmcs.controls.EXIT THEN vmcs.host.pat ELSE "guest"
          [] r = "msrs" -> vmcs.hostMsrs
          [] r \in {"gdt_limit", "idt_limit"} -> 65535
          [] r \in {"tss", "vmxon"} -> hostRegs[r]
          [] OTHER -> vmcs.host[r]]
  /\ Goto("exited")
  /\ UNCHANGED <<processor, feature_control, vmcs_config, vmx_capability>>

VmxNext ==
  \/ cpu_has_kvm_support \/ vmx_disabled_by_bios \/ adjust_vmx_controls \/ BasicCapabilities
  \/ vmx_hardware_setup \/ vmx_vcpu_enable \/ vmx_vcpu_setup \/ vmx_set_tdp \/ run_vcpu
  \/ VmEntry \/ VmExit

-----------------------------------------------------------------------------
\* As a VMCLEAR would leave the region, as far as an entry looks at it.
AsCleared(region) ==
  ~region.launched /\ region.efer \cap {"LMA", "RESERVED"} = {} /\ region.bad = {}

\* On every processor the checks let pass, the first VM entry is refused for
\* nothing but what the missing VMCLEAR leaves to chance (vmx.c:509-511):
\* each control word is one the processor allows, although two bits are
\* cleared after it was adjusted (vmx.c:284-387), and what the code writes of
\* guest and host area is consistent (vmx.c:595-745, kvm.c:128-143).
FirstEntryIsAccepted == setup.pc = "rejected" => ~AsCleared(vmcs.region)

\* Enabling VMX never faults: a FEATURE_CONTROL that the firmware locked is
\* not written, and VMXON finds it locked and allowing VMX, CR4.VMXE set and
\* the revision of this processor in its region (vmx.c:235-250, 487-514).
VmxonNeverFaults == setup.pc # "fault"

\* After an exit the monitor has its segments, tables, control registers and
\* MSRs as they were at the entry (vmx.c:640-670).  Only these differ: the PAT
\* if the processor cannot load it; the limits of GDTR and IDTR, which grow;
\* and SYSENTER_ESP, which vmx.c:665-666 forgets, but no SYSENTER can use
\* since SYSENTER_CS is back at the null segment.
HostIsRestored ==
  setup.pc = "exited" =>
    \A r \in DOMAIN hostRegs :
      \/ hostRegs[r] = setup.entered[r]
      \/ r = "pat" /\ "LOAD_PAT" \notin processor.high.EXIT
      \/ r \in {"gdt_limit", "idt_limit"} /\ hostRegs[r] >= setup.entered[r]
      \/ r = "sysenter_esp" /\ hostRegs.sysenter_cs = 0

\* The first instruction of the guest is at start_ip, and the segment is one
\* that real mode could have loaded itself (kvm.c:128-143).
StartsAtStartIp ==
  setup.pc \in {"enter", "guest"} =>
    /\ 16 * vmcs.seg.CS.base + vmcs.rip = setup.start_ip
    /\ setup.start_ip < 2^20 => vmcs.seg.CS.selector = vmcs.seg.CS.base

\* Writing back a segment that was read changes nothing, whatever the guest
\* has loaded; an unusable one stays unusable (vmx.c:768-815).
SegmentsReadBack ==
  setup.pc = "exited" =>
    \A seg \in DOMAIN vmcs.seg :
      LET again == vmx_set_segment(vmx_get_segment(seg))
      IN  IF Bit(vmcs.seg[seg].ar, 16) = 1 THEN Bit(again.ar, 16) = 1 ELSE again = vmcs.seg[seg]

\* From kvm_init to the guest's first instruction nothing is refused for what
\* the code does: VMXON never, the first VM entry only for what the region
\* held before; and an accepted entry starts the guest at start_ip.
GuestIsEntered == VmxonNeverFaults /\ FirstEntryIsAccepted /\ StartsAtStartIp

\* An exit gives the monitor its own state back, as far as HostIsRestored
\* says, and it can write the guest's segments as it read them.
StateSurvivesExit == HostIsRestored /\ SegmentsReadBack
=============================================================================
