------------------------------ MODULE AcpiBoot ------------------------------
(***************************************************************************)
(* acpi_table_init (kernel/acpi.c, kernel/acpica) and apic_init            *)
(* (kernel/apic.c, xapic.c, x2apic.c), in the order of vmm/main.c:         *)
(*                                                                         *)
(*   low, hi   scan two windows of low memory for the RSDP;                *)
(*   root      choose the RSDT or the XSDT and validate it;                *)
(*   tables    collect the valid tables it lists;                          *)
(*   verify    choose the APIC driver;                                     *)
(*   madt      find the MADT, learn the APIC's address and the boot CPU;   *)
(*   walk      register the CPUs the MADT lists;                           *)
(*   lapic     bring the local APIC into a known state.                    *)
(*                                                                         *)
(* Each loop iteration and each register access is a step.  Nothing here   *)
(* writes the firmware's memory, so rom holds the part of it that the      *)
(* current phase reads and is chosen when the phase begins; likewise the   *)
(* registers the firmware left in the local APIC.  Sizes are scaled.       *)
(***************************************************************************)
EXTENDS Integers, Sequences, FiniteSets

CONSTANTS
  Paragraphs,     \* what 16 bytes of low memory may hold
  WindowSize,     \* paragraphs in a window
  Listed,         \* tables an RSDT or XSDT may list: [sig, sum]
  MaxListed,      \* bound: how many of them
  MaxTables,      \* ACPI_MAX_TABLES
  Addresses,      \* where a MADT may place the local APIC
  MadtEntries,    \* entries of a MADT: [type, id, enabled, length]
  MaxMadtEntries, \* bound: how many of them
  NR_CPUS,
  MaxLocalApic,   \* MAX_LOCAL_APIC
  ApicIds,        \* APIC IDs a MADT may list
  BootApicId,     \* the boot processor's
  BAD_APICID,
  DefaultAddr,    \* APIC_DEFAULT_PHYS_BASE
  Leftovers       \* LVT registers as the firmware may leave them

\* sizeof, in units of the subtable header.
HeaderSize == 1
SizeOf(type) == CASE type = "lapic" -> 2 [] type = "x2apic" -> 3

\* The offset behind each of the first k entries.
OffsetsOf(es) ==
  LET f[k \in 0 .. Len(es)] == IF k = 0 THEN 0 ELSE f[k - 1] + es[k].length
  IN  f

LvtRegs == {"LVTT", "LVT0", "LVT1", "LVTPC", "LVTERR"}
Lvt == [vector : {0, 1}, masked : BOOLEAN]

ASSUME AcpiConstants ==
  /\ WindowSize \in Nat \ {0}
  /\ Listed \subseteq [sig : STRING, sum : BOOLEAN]
  /\ MaxListed \in Nat
  /\ MaxTables \in Nat \ {0}
  /\ MaxMadtEntries \in Nat
  /\ MadtEntries \subseteq
       [type : {"lapic", "x2apic", "other"}, id : ApicIds, enabled : BOOLEAN, length : Nat]
  /\ NR_CPUS \in Nat \ {0}
  /\ MaxLocalApic \in Nat \ {0}
  /\ BootApicId \in ApicIds
  /\ BAD_APICID \notin ApicIds
  /\ Leftovers \subseteq [LvtRegs -> Lvt]

VARIABLES
  pc,
  rom,
  pos,                       \* loop index; in "walk", the entry's offset
  initial_tables,            \* the used part of the array; the rest is NULL
  apicbase,                  \* MSR_IA32_APICBASE: the mode the firmware chose
  apic,                      \* the driver in use
  acpi_lapic_addr,
  boot_cpu_physical_apicid,
  cpuid_to_apicid,
  nr_logical_cpuids,
  count,                     \* MADT entries handled
  lvt, spiv, tpr, ldr,       \* local APIC registers
  esr, errors,               \* errors latched for reading, and noticed since
  errorIrq                   \* an error interrupt has been raised

cpuVars == <<boot_cpu_physical_apicid, cpuid_to_apicid, nr_logical_cpuids, count>>
driverVars == <<apicbase, apic, acpi_lapic_addr>>
lapicVars == <<lvt, spiv, tpr, ldr, esr, errors, errorIrq>>
vars == <<pc, rom, pos, initial_tables, driverVars, cpuVars, lapicVars>>

CpuIds == 0 .. (NR_CPUS - 1)

Windows == [{"low", "ebda", "hi"} -> [1 .. WindowSize -> Paragraphs]]

\* The phase reads nothing of the firmware's memory.
Unread == [entries |-> <<>>]

Masked == [r \in LvtRegs |-> [vector |-> 0, masked |-> TRUE]]

Init ==
  /\ pc = "low"
  /\ rom \in Windows
  /\ pos = 1
  /\ initial_tables = <<>>
  /\ apicbase \in {"disabled", "xapic", "x2apic"}
  /\ apic = "NULL"
  /\ acpi_lapic_addr = DefaultAddr
  /\ boot_cpu_physical_apicid = BAD_APICID
  /\ cpuid_to_apicid = [i \in CpuIds |-> BAD_APICID]
  /\ nr_logical_cpuids = 1
  /\ count = 0
  /\ lvt = Masked
  /\ spiv = FALSE /\ tpr = 0 /\ ldr = 0
  /\ esr = FALSE /\ errors = FALSE /\ errorIrq = FALSE

-----------------------------------------------------------------------------
(***************************************************************************)
(* acpi_table_init: acpi_find_root_pointer, acpi_tb_parse_root_table.      *)
(*                                                                         *)
(* The first window is at ACPI_EBDA_PTR_LOCATION << 4, which is "low" and  *)
(* not "ebda", the place that the word at ACPI_EBDA_PTR_LOCATION names.    *)
(***************************************************************************)
acpi_tb_validate_rsdp(p) ==
  p.sig /\ p.sum /\ (p.revision >= 2 => p.xsum)

ScanFinds ==
  /\ pc \in {"low", "hi"}
  /\ acpi_tb_validate_rsdp(rom[pc][pos])
  /\ pc' = "root"
  /\ rom' = rom[pc][pos]
  /\ pos' = 1
  /\ UNCHANGED <<initial_tables, driverVars, cpuVars, lapicVars>>

ScanNext ==
  /\ pc \in {"low", "hi"}
  /\ ~acpi_tb_validate_rsdp(rom[pc][pos])
  /\ pos < WindowSize
  /\ pos' = pos + 1
  /\ UNCHANGED <<pc, rom, initial_tables, driverVars, cpuVars, lapicVars>>

ScanEnds ==
  /\ pc \in {"low", "hi"}
  /\ ~acpi_tb_validate_rsdp(rom[pc][pos])
  /\ pos = WindowSize
  /\ pc' = IF pc = "low" THEN "hi" ELSE "panic_rsdp"
  /\ pos' = 1
  /\ UNCHANGED <<rom, initial_tables, driverVars, cpuVars, lapicVars>>

acpi_tb_verify_checksum(t) == t.sig \in {"FACS", "S3PT"} \/ t.sum

\* A root table of valid length has room for an entry.
ValidRoot(root) == root.entries # <<>> /\ acpi_tb_verify_checksum(root)

acpi_tb_parse_root_table ==
  /\ pc = "root"
  /\ \E n \in 0 .. MaxListed, sum \in BOOLEAN : \E listed \in [1 .. n -> Listed] :
       rom' = [sig |-> IF rom.revision > 1 /\ rom.xsdt THEN "XSDT" ELSE "RSDT",
               sum |-> sum, entries |-> listed]
  /\ pc' = IF ValidRoot(rom') THEN "tables" ELSE "panic_root"
  /\ UNCHANGED <<pos, initial_tables, driverVars, cpuVars, lapicVars>>

Wanted(t) == t.sig # "NULL" /\ acpi_tb_verify_checksum(t)

\* Mutant of LoadTable: a bad table ends the list.
LoadTable_StopsAtBad(t) ==
  /\ initial_tables' = IF Wanted(t) THEN Append(initial_tables, t.sig) ELSE initial_tables
  /\ pc' = IF pos = Len(rom.entries) \/ Len(initial_tables') = MaxTables \/ ~Wanted(t)
           THEN "verify" ELSE "tables"

\* One entry of the root table; the loop ends behind the last entry or when
\* initial_tables is full.
LoadTable(t) ==
  /\ initial_tables' = IF Wanted(t) THEN Append(initial_tables, t.sig) ELSE initial_tables
  /\ pc' = IF pos = Len(rom.entries) \/ Len(initial_tables') = MaxTables
           THEN "verify" ELSE "tables"

NextTable ==
  /\ pc = "tables"
  /\ LoadTable(rom.entries[pos])
  /\ pos' = pos + 1
  /\ UNCHANGED <<rom, driverVars, cpuVars, lapicVars>>

-----------------------------------------------------------------------------
(***************************************************************************)
(* apic_init up to the registration of the boot processor.                 *)
(***************************************************************************)
verify_apic ==
  /\ pc = "verify"
  /\ pc' = IF apicbase = "disabled" THEN "panic_apic" ELSE "madt"
  /\ apic' = IF apicbase = "disabled" THEN apic ELSE apicbase
  /\ rom' = Unread
  /\ UNCHANGED <<pos, initial_tables, apicbase, acpi_lapic_addr, cpuVars, lapicVars>>

\* acpi_find_table also compares the name at address 0 for every unused slot.
\* Unused slots come last and a match there returns NULL as well.
acpi_find_table(sig) == \E k \in DOMAIN initial_tables : initial_tables[k] = sig

\* What an access to the ID register at addr reads if the APIC is at base.
read_apic_id(addr, base) ==
  IF apic = "x2apic" \/ addr = base THEN {BootApicId} ELSE ApicIds

\* Mutant of ParseMadt: the ID is read before the address is known.
ParseMadt_ReadsFirst(m) ==
  /\ boot_cpu_physical_apicid' \in read_apic_id(acpi_lapic_addr, m.address)
  /\ acpi_lapic_addr' = m.address

ParseMadt(m) ==
  /\ acpi_lapic_addr' = m.address
  /\ boot_cpu_physical_apicid' \in read_apic_id(acpi_lapic_addr', m.address)

\* The MADT: where it says the local APIC is, the entries in it, and where
\* it ends according to its length, which may cut the last entry short or
\* leave a rest smaller than an entry.
acpi_parse_madt ==
  /\ pc = "madt"
  /\ acpi_find_table("APIC")
  /\ \E n \in 0 .. MaxMadtEntries, address \in Addresses :
       \E es \in [1 .. n -> MadtEntries] :
         \E end \in (OffsetsOf(es)[n] - HeaderSize) .. (OffsetsOf(es)[n] + HeaderSize) :
           rom' = [address |-> address, entries |-> es, end |-> end]
  /\ ParseMadt(rom')
  /\ pc' = "walk"
  /\ pos' = 0
  /\ UNCHANGED <<initial_tables, apicbase, apic, cpuid_to_apicid, nr_logical_cpuids, count,
                 lapicVars>>

MadtMissing ==
  /\ pc = "madt"
  /\ ~acpi_find_table("APIC")
  /\ pc' = "panic_madt"
  /\ UNCHANGED <<rom, pos, initial_tables, driverVars, cpuVars, lapicVars>>

-----------------------------------------------------------------------------
(***************************************************************************)
(* acpi_table_parse_entries_array with the handlers acpi_parse_lapic and   *)
(* acpi_parse_x2apic.                                                      *)
(***************************************************************************)
Handled(e) == e.type \in {"lapic", "x2apic"}

\* The k-th entry of the MADT is the one at offset pos.
IsCurrent(k) ==
  LET start == OffsetsOf(rom.entries)
  IN  start[k - 1] = pos /\ \A j \in 1 .. (k - 1) : start[j - 1] # pos

MoreEntries == pos + HeaderSize < rom.end /\ count < MaxLocalApic

BAD_MADT_ENTRY(e) == pos + SizeOf(e.type) > rom.end \/ e.length < SizeOf(e.type)

Known(id) == \E i \in 0 .. (nr_logical_cpuids - 1) : cpuid_to_apicid[i] = id

CpuLimit(id) ==
  id # boot_cpu_physical_apicid /\ ~Known(id) /\ nr_logical_cpuids >= NR_CPUS

\* Mutant of EntryPanics: an entry of length zero is taken.
EntryPanics_NoLengthCheck(e) ==
  Handled(e) /\ (BAD_MADT_ENTRY(e) \/ ~e.enabled \/ CpuLimit(e.id))

EntryPanics(e) ==
  \/ Handled(e) /\ (BAD_MADT_ENTRY(e) \/ ~e.enabled \/ CpuLimit(e.id))
  \/ e.length = 0

acpi_register_lapic(apicid) ==
  \/ /\ apicid = boot_cpu_physical_apicid
     /\ cpuid_to_apicid' = [cpuid_to_apicid EXCEPT ![0] = apicid]
     /\ UNCHANGED nr_logical_cpuids
  \/ /\ apicid # boot_cpu_physical_apicid
     /\ Known(apicid)
     /\ UNCHANGED <<cpuid_to_apicid, nr_logical_cpuids>>
  \/ /\ apicid # boot_cpu_physical_apicid
     /\ ~Known(apicid)
     /\ cpuid_to_apicid' = [cpuid_to_apicid EXCEPT ![nr_logical_cpuids] = apicid]
     /\ nr_logical_cpuids' = nr_logical_cpuids + 1

HandleEntry ==
  /\ pc = "walk" /\ MoreEntries
  /\ \E k \in DOMAIN rom.entries :
       LET e == rom.entries[k]
       IN  /\ IsCurrent(k)
           /\ Handled(e) /\ ~EntryPanics(e)
           /\ acpi_register_lapic(e.id)
           /\ pos' = pos + e.length
  /\ count' = count + 1
  /\ UNCHANGED <<pc, rom, initial_tables, driverVars, boot_cpu_physical_apicid, lapicVars>>

SkipEntry ==
  /\ pc = "walk" /\ MoreEntries
  /\ \E k \in DOMAIN rom.entries :
       LET e == rom.entries[k]
       IN  /\ IsCurrent(k)
           /\ ~Handled(e) /\ ~EntryPanics(e)
           /\ pos' = pos + e.length
  /\ UNCHANGED <<pc, rom, initial_tables, driverVars, cpuVars, lapicVars>>

WalkPanics ==
  /\ pc = "walk" /\ MoreEntries
  /\ \E k \in DOMAIN rom.entries : IsCurrent(k) /\ EntryPanics(rom.entries[k])
  /\ pc' = "panic_cpus"
  /\ UNCHANGED <<rom, pos, initial_tables, driverVars, cpuVars, lapicVars>>

\* The walk is over; the boot processor must have been among the entries.
BootCpuMissing ==
  /\ pc = "walk" /\ ~MoreEntries
  /\ cpuid_to_apicid[0] # boot_cpu_physical_apicid
  /\ pc' = "panic_cpus"
  /\ UNCHANGED <<rom, pos, initial_tables, driverVars, cpuVars, lapicVars>>

\* From here on the registers left by the firmware matter.  A local APIC
\* that is disabled by software has all its LVT entries masked.
WalkEnds ==
  /\ pc = "walk" /\ ~MoreEntries
  /\ cpuid_to_apicid[0] = boot_cpu_physical_apicid
  /\ pc' = "lapic"
  /\ pos' = 1
  /\ lvt' \in Leftovers
  /\ spiv' \in BOOLEAN
  /\ ~spiv' => \A r \in LvtRegs : lvt'[r].masked
  /\ tpr' \in {0, 1}
  /\ UNCHANGED <<rom, initial_tables, driverVars, cpuVars, ldr, esr, errors, errorIrq>>

-----------------------------------------------------------------------------
(***************************************************************************)
(* The rest of apic_init, as the register writes it makes.                 *)
(***************************************************************************)
Write(reg, how) == [reg |-> reg, how |-> how]

\* Mutant of clear_local_apic: LVTERR is masked in its turn.
clear_local_apic_MasksInOrder ==
  << Write("LVTT", "mask"), Write("LVT0", "mask"), Write("LVT1", "mask"),
     Write("LVTPC", "mask"), Write("LVTERR", "vector_masked"),
     Write("LVTT", "clean"), Write("LVT0", "clean"), Write("LVT1", "clean"),
     Write("LVTERR", "clean"), Write("LVTPC", "clean"), Write("ESR", "zero") >>

clear_local_apic ==
  << Write("LVTERR", "vector_masked"),
     Write("LVTT", "mask"), Write("LVT0", "mask"), Write("LVT1", "mask"),
     Write("LVTPC", "mask"),
     Write("LVTT", "clean"), Write("LVT0", "clean"), Write("LVT1", "clean"),
     Write("LVTERR", "clean"), Write("LVTPC", "clean"), Write("ESR", "zero") >>

\* x2apic_init_apic_ldr does nothing.
init_apic_ldr == IF apic = "xapic" THEN << Write("LDR", "cpu0") >> ELSE << >>

setup_local_apic ==
  init_apic_ldr \o << Write("TASKPRI", "accept_all"), Write("SPIV", "enable") >>

lapic_setup_esr ==
  << Write("ESR", "zero"), Write("LVTERR", "vector"), Write("ESR", "zero") >>

LapicProgram == clear_local_apic \o setup_local_apic \o lapic_setup_esr

\* The value written to LVT register r: v | APIC_LVT_MASKED of the value read,
\* APIC_LVT_MASKED alone, or ERROR_APIC_VECTOR.
LvtValue(r, how) ==
  CASE how = "mask"          -> [lvt[r] EXCEPT !.masked = TRUE]
    [] how = "clean"         -> [vector |-> 0, masked |-> TRUE]
    [] how = "vector_masked" -> [vector |-> 1, masked |-> TRUE]
    [] how = "vector"        -> [vector |-> 1, masked |-> FALSE]

\* The local APIC's side of a write to an LVT entry: masks stay on while it
\* is disabled, and a vector of zero may be noticed as an error, which
\* raises an interrupt unless LVTERR is masked.
LvtWrite(r, v) ==
  /\ lvt' = [lvt EXCEPT ![r] = IF spiv THEN v ELSE [vector |-> v.vector, masked |-> TRUE]]
  /\ \/ UNCHANGED <<errors, errorIrq>>
     \/ /\ v.vector = 0
        /\ errors' = TRUE
        /\ errorIrq' = IF lvt'["LVTERR"].masked THEN errorIrq ELSE TRUE
  /\ UNCHANGED <<spiv, tpr, ldr, esr>>

\* Writing ESR latches the errors noticed since the last write.
EsrWrite ==
  /\ esr' = errors
  /\ errors' = FALSE
  /\ UNCHANGED <<lvt, spiv, tpr, ldr, errorIrq>>

OtherWrite(r) ==
  /\ ldr' = IF r = "LDR" THEN 1 ELSE ldr
  /\ tpr' = IF r = "TASKPRI" THEN 0 ELSE tpr
  /\ spiv' = (spiv \/ r = "SPIV")
  /\ UNCHANGED <<lvt, esr, errors, errorIrq>>

LapicStep ==
  LET w == LapicProgram[pos]
  IN  /\ pc = "lapic"
      /\ \/ w.reg \in LvtRegs /\ LvtWrite(w.reg, LvtValue(w.reg, w.how))
         \/ w.reg = "ESR" /\ EsrWrite
         \/ w.reg \in {"LDR", "TASKPRI", "SPIV"} /\ OtherWrite(w.reg)
      /\ pc' = IF pos = Len(LapicProgram) THEN "done" ELSE "lapic"
      /\ pos' = pos + 1
      /\ rom' = Unread
      /\ UNCHANGED <<initial_tables, driverVars, cpuVars>>

-----------------------------------------------------------------------------
FindTables == ScanFinds \/ ScanNext \/ ScanEnds \/ acpi_tb_parse_root_table \/ NextTable

FindCpus ==
  \/ verify_apic \/ acpi_parse_madt \/ MadtMissing
  \/ HandleEntry \/ SkipEntry \/ WalkPanics \/ BootCpuMissing \/ WalkEnds

Next == FindTables \/ FindCpus \/ LapicStep

Spec == Init /\ [][Next]_vars

\* One thread that never waits.
FairSpec == Spec /\ WF_vars(Next)

-----------------------------------------------------------------------------
(***************************************************************************)
(* Properties.                                                             *)
(***************************************************************************)
Ended == {"done", "panic_rsdp", "panic_root", "panic_apic", "panic_madt", "panic_cpus"}

\* The type invariant; initial_tables never outgrows its array.
TypeOK ==
  /\ pc \in Ended \cup {"low", "hi", "root", "tables", "verify", "madt", "walk", "lapic"}
  /\ pos \in Nat
  /\ initial_tables \in Seq(STRING) /\ Len(initial_tables) <= MaxTables
  /\ apicbase \in {"disabled", "xapic", "x2apic"}
  /\ apic \in {"NULL", "xapic", "x2apic"}
  /\ count \in 0 .. MaxLocalApic
  /\ lvt \in [LvtRegs -> Lvt]
  /\ {spiv, esr, errors, errorIrq} \subseteq BOOLEAN
  /\ {tpr, ldr} \subseteq {0, 1}

\* The tables kept are the first valid ones of entries: the k-th is the one
\* at at[k], and a valid one is kept unless it is behind the one that filled
\* the array.
FirstValid(kept, entries) ==
  \E at \in [1 .. Len(kept) -> DOMAIN entries] :
    /\ \A j, k \in DOMAIN at : j < k => at[j] < at[k]
    /\ \A k \in DOMAIN at : Wanted(entries[at[k]]) /\ kept[k] = entries[at[k]].sig
    /\ \A i \in DOMAIN entries :
         Wanted(entries[i]) =>
           \/ \E k \in DOMAIN at : at[k] = i
           \/ Len(kept) = MaxTables /\ at[MaxTables] < i

\* acpi_tb_parse_root_table keeps the valid tables in the order of the root
\* table, without a gap, and gives up none while there is room.
TablesAreFirstValid == pc = "verify" => FirstValid(initial_tables, rom.entries)

\* "All allocated CPU IDs should be in the [0, nr_logical_cpuids) range",
\* "Reserve 0 for BSP": at every moment of the walk the used slots hold
\* different APIC IDs, slot 0 is the boot processor's or still empty, and
\* the slots above nr_logical_cpuids are empty.
CpuMapInv ==
  /\ boot_cpu_physical_apicid \in ApicIds \cup {BAD_APICID}
  /\ cpuid_to_apicid \in [CpuIds -> ApicIds \cup {BAD_APICID}]
  /\ nr_logical_cpuids \in 1 .. NR_CPUS
  /\ cpuid_to_apicid[0] \in {BAD_APICID, boot_cpu_physical_apicid}
  /\ \A i \in CpuIds \ {0} :
       IF i < nr_logical_cpuids
         THEN cpuid_to_apicid[i] \notin {BAD_APICID, boot_cpu_physical_apicid}
         ELSE cpuid_to_apicid[i] = BAD_APICID
  /\ \A i, j \in 0 .. (nr_logical_cpuids - 1) :
       cpuid_to_apicid[i] = cpuid_to_apicid[j] => i = j
  /\ pc \in {"low", "hi", "root", "tables", "verify", "madt"} =>
       /\ boot_cpu_physical_apicid = BAD_APICID
       /\ cpuid_to_apicid[0] = BAD_APICID
       /\ nr_logical_cpuids = 1

\* The entries that lie in the MADT, up to the first of length zero and the
\* first MaxLocalApic processors, and the processors in them.
Met ==
  {k \in DOMAIN rom.entries :
     /\ OffsetsOf(rom.entries)[k - 1] + HeaderSize < rom.end
     /\ \A j \in 1 .. (k - 1) : rom.entries[j].length > 0
     /\ Cardinality({j \in 1 .. (k - 1) : Handled(rom.entries[j])}) < MaxLocalApic}

Cpus(S) == {rom.entries[k].id : k \in {j \in S : Handled(rom.entries[j])}}

\* The monitor boots with the map of exactly the processors in the MADT, in
\* whatever order and however often they are listed, the boot processor
\* first; and it refuses a MADT only for a reason: an entry that is disabled
\* or malformed, more processors than NR_CPUS, or no boot processor.
CpuMapIsExact ==
  LET Malformed(k) ==
        LET e == rom.entries[k]
        IN  \/ e.length = 0
            \/ /\ Handled(e)
               /\ \/ ~e.enabled
                  \/ e.length < SizeOf(e.type)
                  \/ OffsetsOf(rom.entries)[k - 1] + SizeOf(e.type) > rom.end
  IN  /\ pc = "lapic" /\ pos = 1 =>
           /\ cpuid_to_apicid[0] = BootApicId
           /\ Cpus(Met) = {cpuid_to_apicid[i] : i \in 0 .. (nr_logical_cpuids - 1)}
      /\ pc = "panic_cpus" =>
           \/ \E k \in Met : Malformed(k)
           \/ Cardinality(Cpus(Met) \cup {BootApicId}) > NR_CPUS
           \/ BootApicId \notin Cpus(Met)

\* "Masking an LVT entry can trigger a local APIC error if the vector is
\* zero. Mask LVTERR first to prevent this": whatever the firmware left in
\* the registers, setting up the local APIC raises no error interrupt.
NoErrorInterrupt == ~errorIrq

\* At the end the local APIC is enabled, accepts every priority, reports
\* errors, holds none from before, and has every other source masked.
ApicReady ==
  pc = "done" =>
    /\ spiv /\ tpr = 0
    /\ ~esr /\ ~errors
    /\ lvt["LVTERR"] = [vector |-> 1, masked |-> FALSE]
    /\ \A r \in LvtRegs \ {"LVTERR"} : lvt[r] = [vector |-> 0, masked |-> TRUE]

\* "1a) Get the location of the Extended BIOS Data Area (EBDA)", "The RSDP
\* must be either in the first 1K of the Extended BIOS Data Area or between
\* E0000 and FFFFF": an RSDP in the EBDA is found.
EbdaIsSearched ==
  pc = "panic_rsdp" =>
    \A k \in 1 .. WindowSize : ~acpi_tb_validate_rsdp(rom["ebda"][k])

\* Every loop over firmware tables ends, and with it acpi_table_init and
\* apic_init.
InitTerminates == <>(pc \in Ended)

\* What acpi_find_table relies on: the tables kept are the first valid ones,
\* and no array or register left its range on the way.
TablesAreSound == TypeOK /\ TablesAreFirstValid

\* What apic_init leaves: a processor map that is sound during the walk and
\* exact after it, and a local APIC that is ready.
ApicInitIsExact == CpuMapInv /\ CpuMapIsExact /\ ApicReady
=============================================================================
