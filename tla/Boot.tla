-------------------------------- MODULE Boot --------------------------------
(***************************************************************************)
(* From the loader to the guest's first instructions, in the order of main *)
(* of vmm/main.c: the mode switches, CPUID, the TSC, the interrupt         *)
(* controllers, VMX, and the guest's kernel.  The steps hand each other    *)
(* next to nothing: a run is about one of them, drawn by Init, and the     *)
(* others stay as they are.                                                *)
(***************************************************************************)
EXTENDS BootMode, CpuInit, Tsc, PicInit, VmxSetup, GuestBoot

VARIABLE part

vars == <<part, modeVars, cpuVars, tscVars, picVars, vmxVars, bootVars>>

Parts == {"mode", "cpu", "tsc", "pic", "vmx", "guest"}

ModeIdle == core = <<>> /\ program = "" /\ ip = -1
CpuIdle == cpuid = <<>> /\ cpu_info = <<>> /\ detecting = ""
TscIdle == /\ calibrating = "done" /\ tsc_khz = [by |-> "earlier", khz |-> 1] /\ machine = <<>> /\ now = 0
           /\ away = 0 /\ pit = 0 /\ loop = <<>> /\ verified = <<>>
PicIdle == tscNow = 0 /\ picStep = 0 /\ waitFrom = -1 /\ wrote = 0 /\ chips = <<>>
VmxIdle == /\ processor = <<>> /\ feature_control = {} /\ hostRegs = <<>> /\ vmcs_config = <<>>
           /\ vmx_capability = {} /\ vmcs = <<>> /\ setup = [pc |-> ""]
GuestIdle == /\ mods = <<>> /\ firmware = 0 /\ guest_params = <<>> /\ mem = <<>> /\ booting = ""
             /\ phdr = <<>> /\ multiboot_info = <<>>

Init ==
  /\ part \in Parts
  /\ IF part = "mode" THEN ModeInit ELSE ModeIdle
  /\ IF part = "cpu" THEN CpuDetectInit ELSE CpuIdle
  /\ IF part = "tsc" THEN TscInit ELSE TscIdle
  /\ IF part = "pic" THEN PicStart ELSE PicIdle
  /\ IF part = "vmx" THEN VmxInit ELSE VmxIdle
  /\ IF part = "guest" THEN GuestBootInit ELSE GuestIdle

Mode  == part = "mode"  /\ ModeNext  /\ UNCHANGED <<part, cpuVars, tscVars, picVars, vmxVars, bootVars>>
Cpu   == part = "cpu"   /\ cpu_init  /\ UNCHANGED <<part, modeVars, tscVars, picVars, vmxVars, bootVars>>
Clock == part = "tsc"   /\ tsc_init  /\ UNCHANGED <<part, modeVars, cpuVars, picVars, vmxVars, bootVars>>
Pic   == part = "pic"   /\ i8259_init /\ UNCHANGED <<part, modeVars, cpuVars, tscVars, vmxVars, bootVars>>
Vmx   == part = "vmx"   /\ VmxNext   /\ UNCHANGED <<part, modeVars, cpuVars, tscVars, picVars, bootVars>>
Guest == part = "guest" /\ GuestBootNext /\ UNCHANGED <<part, modeVars, cpuVars, tscVars, picVars, vmxVars>>

Next == Mode \/ Cpu \/ Clock \/ Pic \/ Vmx \/ Guest

\* Nothing but an absence, which ends, keeps the processor from calibrating on.
Fairness == WF_vars(Clock)

Spec == Init /\ [][Next]_vars /\ Fairness
=============================================================================
