------------------------------ MODULE BootMode ------------------------------
(***************************************************************************)
(* firmware/head.S and vmm/head.S: the three mode switches, instruction by *)
(* instruction, on a processor that faults where the real one does, and    *)
(* the page tables they turn on.                                           *)
(***************************************************************************)
EXTENDS Integers, Sequences

CONSTANTS
  PTRS,          \* bound: entries of a page table (512)
  LowTables,     \* bound: gigabytes mapped (4)
  EntryIndex     \* bound: pml4_index(__ENTRY_OFFSET) (256)

ASSUME BootModeConstants == PTRS \in Nat /\ LowTables \in 1 .. PTRS /\ EntryIndex \in 1 .. PTRS - 1

VARIABLES
  core,       \* cr0, cr3, cr4, efer, the GDT, the descriptors cached for CS, data and TR, bsp
  program,    \* the code that runs
  ip          \* its next instruction; 0 after a fault

modeVars == <<core, program, ip>>

\* The descriptors behind the null entry, which holds the pseudo-descriptor; the selector of
\* the k-th is 8 * k.
Gdts == [gdt    |-> <<"code32", "code64", "data", "tss">>,
         gdt32  |-> <<"code32", "data">>,
         vgdt   |-> <<"none", "code64", "data">>,
         loader |-> <<"code32", "data">>]
BOOT_CS == 16
BOOT_DS == 24
BOOT_TSS == 32
BOOT32_CS == 8
BOOT32_DS == 16

Set(reg, bits) == <<"set", reg, bits>>
Clear(reg, bits) == <<"clear", reg, bits>>
Far(sel) == <<"ljmp", "cs", sel>>
Data(sel) == <<"mov", "data", sel>>       \* %ds, %es and %ss

\* _start to main of the firmware: each instruction with the .code it is assembled for.
start16 == <<
  <<16, <<"bsp", "bsp", 0>>>>, <<16, <<"lgdt", "gdtr", "gdt">>>>, <<16, Set("cr0", {"PE"})>>, <<16, Data(BOOT_DS)>>,
  <<16, Far(BOOT32_CS)>>, <<32, Set("cr4", {"PAE", "PSE"})>>, <<32, <<"mov", "cr3", "pml4">>>>,
  <<32, Set("efer", {"LME"})>>, <<32, <<"ltr", "tr", BOOT_TSS>>>>, <<32, Set("cr0", {"PG"})>>,
  <<32, Far(BOOT_CS)>>, <<64, <<"call", "ip", "main">>>>>>

\* Mutant of start_multiboot: LME is cleared before PG.
start_multiboot_LmeFirst == <<
  <<64, Far(BOOT32_CS)>>, <<32, <<"lgdt", "gdtr", "gdt32">>>>, <<32, Far(BOOT32_CS)>>, <<32, Data(BOOT32_DS)>>,
  <<32, Clear("efer", {"LME"})>>, <<32, Clear("cr0", {"PG"})>>, <<32, Clear("cr4", {"PAE", "PSE"})>>,
  <<32, <<"call", "ip", "kernel">>>>>>

\* start_multiboot of the firmware, with its lretq.
start_multiboot == <<
  <<64, Far(BOOT32_CS)>>, <<32, <<"lgdt", "gdtr", "gdt32">>>>, <<32, Far(BOOT32_CS)>>, <<32, Data(BOOT32_DS)>>,
  <<32, Clear("cr0", {"PG"})>>, <<32, Clear("efer", {"LME"})>>, <<32, Clear("cr4", {"PAE", "PSE"})>>,
  <<32, <<"call", "ip", "kernel">>>>>>

\* start_multiboot to main of the monitor.
vmm_start == <<
  <<32, Set("cr4", {"PAE", "PSE"})>>, <<32, <<"mov", "cr3", "kpml4">>>>, <<32, <<"lgdt", "gdtr", "vgdt">>>>,
  <<32, Set("efer", {"LME"})>>, <<32, Set("cr0", {"PG", "WP", "NE"})>>, <<32, Data(BOOT_DS)>>,
  <<32, Far(BOOT_CS)>>, <<64, <<"call", "ip", "vmm_main">>>>>>

Programs == [start16 |-> start16, start_multiboot |-> start_multiboot, vmm_start |-> vmm_start]

\* The monitor starts the firmware in real mode; a multiboot loader starts the monitor.
ModeInit ==
  /\ program \in {"start16", "vmm_start"}
  /\ ip = 1
  /\ \E bsp \in BOOLEAN, cr4 \in SUBSET {"PAE", "PSE"}, cr0 \in SUBSET {"WP", "NE"} :
       core = IF program = "start16"
              THEN [cr0 |-> {"NE"}, cr3 |-> "none", cr4 |-> {}, efer |-> {}, gdt |-> "none", cs |-> "real",
                    csSel |-> 0, data |-> "real", dataSel |-> 0, tr |-> "none", bsp |-> bsp]
              ELSE [cr0 |-> cr0 \cup {"PE"}, cr3 |-> "none", cr4 |-> cr4, efer |-> {}, gdt |-> "loader",
                    cs |-> "code32", csSel |-> 8, data |-> "data", dataSel |-> 16, tr |-> "none", bsp |-> TRUE]

-----------------------------------------------------------------------------
(* The processor (external).                                               *)
LMA(c) == {"PG"} \subseteq c.cr0 /\ "LME" \in c.efer
Bits(c) == CASE c.cs = "real" -> 16 [] c.cs = "code32" -> 32 [] OTHER -> IF LMA(c) THEN 64 ELSE 16

NotPresent == ""
Entry(table, i) == IF i \in 1 .. Len(table) THEN table[i] ELSE NotPresent
Zeros(n) == [i \in 1 .. n |-> NotPresent]

\* The boot page tables; each name stands for the address of the table.  A large page is its number.
pml4 == <<"pdpt0">> \o Zeros(PTRS - 1)

kpml4 == <<"pdpt0">> \o Zeros(EntryIndex - 1) \o <<"pdpt0">> \o Zeros(PTRS - EntryIndex - 1)

pdpt0 == [i \in 1 .. LowTables |-> i - 1] \o [i \in 1 .. PTRS - LowTables |-> -1]
pd == [i \in 1 .. PTRS * LowTables |-> i - 1]

\* The large page at PML4 index a, PDPT index b, PD index c; -1 if there is none.
Walk(root, a, b, c) ==
  LET top == IF root = "pml4" THEN pml4 ELSE IF root = "kpml4" THEN kpml4 ELSE <<>>
  IN  IF Entry(top, a + 1) # "pdpt0" \/ pdpt0[b + 1] = -1 THEN -1
      ELSE pd[PTRS * pdpt0[b + 1] + c + 1]

\* May the processor go from c to d with the next instruction at the same low address?
Legal(c, d) ==
  /\ ("PG" \in d.cr0 => "PE" \in d.cr0)
  /\ ("PG" \in c.cr0 /\ d.efer # c.efer => FALSE)
  /\ (LMA(c) /\ "PAE" \notin d.cr4 => FALSE)
  /\ (LMA(d) /\ ~LMA(c) => "PAE" \in d.cr4 /\ c.cs # "code64")
  /\ (LMA(c) /\ ~LMA(d) => Bits(c) # 64)
  /\ ("PG" \in d.cr0 => Walk(d.cr3, 0, 0, 0) = 0)

Selected(c, sel) ==
  IF c.gdt \in DOMAIN Gdts /\ sel \div 8 \in DOMAIN Gdts[c.gdt] THEN Gdts[c.gdt][sel \div 8] ELSE "none"

\* The core after an instruction, and whether it is one the processor takes.
After(c, op, reg, val) ==
  CASE op = "set"   -> [c EXCEPT ![reg] = @ \cup val]
    [] op = "clear" -> [c EXCEPT ![reg] = @ \ val]
    [] op = "lgdt"  -> [c EXCEPT !.gdt = val]
    [] op = "mov" /\ reg = "cr3"  -> [c EXCEPT !.cr3 = val]
    [] op = "mov" /\ reg = "data" -> [c EXCEPT !.data = Selected(c, val), !.dataSel = val]
    [] op = "ltr"   -> [c EXCEPT !.tr = Selected(c, val)]
    [] op = "ljmp"  -> [c EXCEPT !.cs = Selected(c, val), !.csSel = val]
    [] OTHER -> c

Takes(c, op, reg, val) ==
  /\ op = "ljmp" => Selected(c, val) \in {"code32", "code64"}
  /\ op = "mov" /\ reg = "data" => Selected(c, val) = "data" /\ "PE" \in c.cr0
  /\ op = "ltr" => Selected(c, val) = "tss" /\ ~LMA(c)     \* an 8-byte descriptor
  /\ Legal(c, After(c, op, reg, val))

-----------------------------------------------------------------------------
Running == ip \in 1 .. Len(Programs[program])
Instruction == Programs[program][ip]

\* An application processor waits in the firmware for ever.
Spin == Running /\ Instruction[2][1] = "bsp" /\ ~core.bsp /\ UNCHANGED modeVars

Execute ==
  /\ Running
  /\ LET i == Instruction[2]
     IN  /\ i[1] = "bsp" => core.bsp
         /\ IF Bits(core) = Instruction[1] /\ Takes(core, i[1], i[2], i[3])
            THEN core' = After(core, i[1], i[2], i[3]) /\ ip' = ip + 1
            ELSE ip' = 0 /\ UNCHANGED core
  /\ UNCHANGED program

\* main of the firmware has loaded a kernel and calls start_multiboot.
CallStartMultiboot ==
  /\ program = "start16" /\ ip > Len(start16)
  /\ program' = "start_multiboot" /\ ip' = 1
  /\ UNCHANGED core

ModeNext == Execute \/ Spin \/ CallStartMultiboot

-----------------------------------------------------------------------------
\* No mode switch faults: no register is written in an order the processor
\* refuses, no selector is loaded that the table lacks, and no code runs in a
\* mode it was not assembled for (firmware/head.S:33-141, vmm/head.S:32-83).
SwitchNeverFaults == ip # 0

\* A kernel is entered the way multiboot promises, and may reload the segment
\* registers it was given without a table of its own: firmware/head.S:159-164
\* "this avoids #GP when running xv6 as a guest".
KernelEntryState ==
  (program = "start_multiboot" /\ ip = Len(start_multiboot)) =>
    /\ "PE" \in core.cr0 /\ "PG" \notin core.cr0 /\ Bits(core) = 32 /\ core.efer = {} /\ "PAE" \notin core.cr4
    /\ Selected(core, core.csSel) = core.cs /\ Selected(core, core.dataSel) = core.data

\* The monitor's C code runs with a map of the low memory onto itself, and
\* with the alias of it that traps from user mode rely on
\* (vmm/head.S:101-128, asm/setup.h:14-15).
BootTablesMap ==
  (program = "vmm_start" /\ ip > 2) =>
    \A a \in 0 .. PTRS - 1, b \in 0 .. PTRS - 1, c \in 0 .. PTRS - 1 :
      Walk(core.cr3, a, b, c) = IF a \in {0, EntryIndex} /\ b < LowTables THEN b * PTRS + c ELSE -1

\* The mode switches of both head.S get where they are meant to: without a
\* fault, to a kernel that finds what it was promised, with the tables mapped.
ModeSwitchesSucceed == SwitchNeverFaults /\ KernelEntryState /\ BootTablesMap
=============================================================================
