--------------------------- MODULE AcpiBootProofs ---------------------------
(***************************************************************************)
(* The tables acpi_init keeps are the first valid ones of every root       *)
(* table.  The processor map that apic_init builds is sound at every       *)
(* moment and in the end exactly what the MADT says, for every NR_CPUS,    *)
(* every set of APIC IDs and every MADT.  Setting up the local APIC raises *)
(* no error interrupt, whatever the firmware left in it, and leaves the    *)
(* APIC ready.                                                             *)
(***************************************************************************)
EXTENDS AcpiBoot, FiniteSetTheorems, NaturalsInduction, WellFoundedInduction, TLAPS

\* During the walk the boot processor is known, and the entries that the
\* walk reads are entries of a MADT.
WalkOK ==
  pc = "walk" =>
    /\ boot_cpu_physical_apicid \in ApicIds
    /\ \A k \in DOMAIN rom.entries : rom.entries[k] \in MadtEntries

Inv == CpuMapInv /\ WalkOK

\* An APIC ID of a MADT entry is an APIC ID, and never the empty mark.
LEMMA EntryIds == \A e \in MadtEntries : e.id \in ApicIds /\ e.id # BAD_APICID
  BY AcpiConstants DEF AcpiConstants

\* acpi_register_lapic keeps the map sound: it gives the boot processor slot
\* 0, ignores an APIC ID it has, and appends any other one.
LEMMA RegisterKeepsMap ==
  ASSUME CpuMapInv, pc = "walk", pc' = "walk",
         UNCHANGED boot_cpu_physical_apicid,
         boot_cpu_physical_apicid # BAD_APICID,
         NEW id \in ApicIds, ~CpuLimit(id), acpi_register_lapic(id)
  PROVE  CpuMapInv'
<1> USE AcpiConstants DEF AcpiConstants, CpuIds
<1>1. CASE id = boot_cpu_physical_apicid
  BY <1>1 DEF CpuMapInv, acpi_register_lapic
<1>2. CASE id # boot_cpu_physical_apicid /\ Known(id)
  BY <1>2 DEF CpuMapInv, acpi_register_lapic
<1>3. CASE id # boot_cpu_physical_apicid /\ ~Known(id)
  <2>1. nr_logical_cpuids < NR_CPUS
    BY <1>3 DEF CpuLimit, CpuMapInv
  <2>2. /\ cpuid_to_apicid' = [cpuid_to_apicid EXCEPT ![nr_logical_cpuids] = id]
        /\ nr_logical_cpuids' = nr_logical_cpuids + 1
    BY <1>3 DEF acpi_register_lapic
  <2>3. \A i \in 0 .. (nr_logical_cpuids - 1) : cpuid_to_apicid[i] # id
    BY <1>3 DEF Known
  <2> QED  BY <1>3, <2>1, <2>2, <2>3 DEF CpuMapInv
<1> QED  BY <1>1, <1>2, <1>3

\* Inv is inductive.
LEMMA InvStep ==
  ASSUME Inv, [Next]_vars
  PROVE  Inv'
<1> USE AcpiConstants DEF AcpiConstants
<1> USE DEF Inv
<1>1. CASE FindTables
  BY <1>1 DEF FindTables, ScanFinds, ScanNext, ScanEnds, acpi_tb_parse_root_table,
              NextTable, LoadTable, CpuMapInv, WalkOK, cpuVars
<1>2. CASE verify_apic \/ MadtMissing \/ BootCpuMissing \/ WalkEnds \/ WalkPanics
  BY <1>2 DEF verify_apic, MadtMissing, BootCpuMissing, WalkEnds, WalkPanics,
              CpuMapInv, WalkOK, cpuVars
<1>3. CASE acpi_parse_madt
  <2>1. boot_cpu_physical_apicid' \in ApicIds
    BY <1>3 DEF acpi_parse_madt, ParseMadt, read_apic_id
  <2>2. CpuMapInv'
    BY <1>3, <2>1 DEF acpi_parse_madt, CpuMapInv, CpuIds
  <2>3. WalkOK'
    BY <1>3, <2>1 DEF acpi_parse_madt, WalkOK
  <2> QED  BY <2>2, <2>3
<1>4. CASE HandleEntry
  <2>1. PICK k \in DOMAIN rom.entries :
          /\ ~EntryPanics(rom.entries[k])
          /\ Handled(rom.entries[k])
          /\ acpi_register_lapic(rom.entries[k].id)
    BY <1>4 DEF HandleEntry
  <2>2. pc = "walk" /\ pc' = "walk"
        /\ UNCHANGED <<rom, boot_cpu_physical_apicid>>
    BY <1>4 DEF HandleEntry
  <2>3. rom.entries[k].id \in ApicIds
    BY <2>2, EntryIds DEF WalkOK
  <2>4. ~CpuLimit(rom.entries[k].id)
    BY <2>1 DEF EntryPanics
  <2>5. boot_cpu_physical_apicid # BAD_APICID
    BY <2>2 DEF WalkOK
  <2>6. CpuMapInv'
    BY <2>1, <2>2, <2>3, <2>4, <2>5, RegisterKeepsMap
  <2>7. WalkOK'
    BY <2>2 DEF WalkOK
  <2> QED  BY <2>6, <2>7
<1>5. CASE SkipEntry
  BY <1>5 DEF SkipEntry, CpuMapInv, WalkOK, cpuVars
<1>6. CASE LapicStep
  BY <1>6 DEF LapicStep, CpuMapInv, WalkOK, cpuVars
<1>7. CASE UNCHANGED vars
  BY <1>7 DEF vars, CpuMapInv, WalkOK, cpuVars
<1> QED  BY <1>1, <1>2, <1>3, <1>4, <1>5, <1>6, <1>7 DEF Next, FindCpus

\* Inv holds at the start.
LEMMA InvInit == Init => Inv
  BY AcpiConstants DEF AcpiConstants, Init, Inv, CpuMapInv, WalkOK, CpuIds

\* The map is sound at every moment of boot.
THEOREM CpuMapIsSound == Spec => []CpuMapInv
<1>1. Inv /\ [Next]_vars => Inv'
  BY InvStep
<1>2. Inv => CpuMapInv
  BY DEF Inv
<1> QED  BY InvInit, <1>1, <1>2, PTL DEF Spec

-----------------------------------------------------------------------------
(***************************************************************************)
(* No error interrupt.  LVTERR is masked from the first write on, until    *)
(* the write that enables it, which is the last but one of the program.    *)
(***************************************************************************)
ErrInv ==
  /\ errorIrq = FALSE
  /\ lvt \in [LvtRegs -> Lvt]
  /\ pc = "lapic" =>
       /\ pos \in 1 .. Len(LapicProgram)
       /\ pos \in 2 .. (Len(LapicProgram) - 1) => lvt["LVTERR"].masked

\* The writes of LVT registers in the program: LVTERR is masked first and
\* enabled last.
LEMMA ProgramShape ==
  /\ Len(LapicProgram) \in Nat /\ Len(LapicProgram) > 2
  /\ \A p \in 1 .. Len(LapicProgram) :
       /\ LapicProgram[p].reg = "LVTERR" =>
            LapicProgram[p].how = IF p = 1 THEN "vector_masked"
                                  ELSE IF p = Len(LapicProgram) - 1 THEN "vector"
                                  ELSE "clean"
       /\ LapicProgram[p].reg \in LvtRegs \ {"LVTERR"} =>
            /\ LapicProgram[p].how \in {"mask", "clean"}
            /\ p \in 2 .. (Len(LapicProgram) - 2)
<1>1. CASE apic = "xapic"
  BY <1>1 DEF LapicProgram, clear_local_apic, setup_local_apic, init_apic_ldr,
              lapic_setup_esr, Write, LvtRegs
<1>2. CASE apic # "xapic"
  BY <1>2 DEF LapicProgram, clear_local_apic, setup_local_apic, init_apic_ldr,
              lapic_setup_esr, Write, LvtRegs
<1> QED  BY <1>1, <1>2

\* A write of the program neither raises an error interrupt nor leaves
\* LVTERR unmasked too early.
LEMMA LapicStepKeepsErrInv ==
  ASSUME ErrInv, LapicStep
  PROVE  ErrInv'
<1> DEFINE n == Len(LapicProgram)
           w == LapicProgram[pos]
<1>1. pos \in 1 .. n /\ n \in Nat /\ n > 2
  BY ProgramShape DEF ErrInv, LapicStep
<1>2. Len(LapicProgram)' = n
  BY DEF LapicStep, driverVars, LapicProgram, clear_local_apic, setup_local_apic,
         init_apic_ldr, lapic_setup_esr, Write
<1>3. pc' = "lapic" => pos' \in 1 .. n
  BY <1>1 DEF LapicStep
<1>4. CASE w.reg = "LVTERR"
  <2>1. LvtWrite("LVTERR", LvtValue("LVTERR", w.how))
    BY <1>4 DEF LapicStep, LvtRegs
  <2>2. CASE pos = 1
    <3>1. w.how = "vector_masked"
      BY <1>1, <1>4, <2>2, ProgramShape
    <3> QED
      BY <1>1, <1>2, <1>3, <2>1, <2>2, <3>1 DEF ErrInv, LvtWrite, LvtValue, LvtRegs, Lvt
  <2>3. CASE pos = n - 1
    <3>1. w.how = "vector"
      BY <1>1, <1>4, <2>3, ProgramShape
    <3>2. pos' = n
      BY <1>1, <2>3 DEF LapicStep
    <3>3. LvtValue("LVTERR", w.how) = [vector |-> 1, masked |-> FALSE]
      BY <3>1 DEF LvtValue
    <3>4. LvtWrite("LVTERR", [vector |-> 1, masked |-> FALSE])
      BY <2>1, <3>3
    <3>5. lvt' \in [LvtRegs -> Lvt]
      <4>1. lvt' = [lvt EXCEPT !["LVTERR"] = IF spiv THEN [vector |-> 1, masked |-> FALSE]
                                             ELSE [vector |-> 1, masked |-> TRUE]]
        BY <3>4 DEF LvtWrite
      <4> QED  BY <4>1 DEF ErrInv, Lvt
    <3>6. errorIrq' = errorIrq
      BY <3>4 DEF LvtWrite
    <3> QED  BY <1>1, <1>2, <1>3, <3>2, <3>5, <3>6 DEF ErrInv
  <2>4. CASE pos # 1 /\ pos # n - 1
    <3>1. w.how = "clean"
      BY <1>1, <1>4, <2>4, ProgramShape
    <3> QED
      BY <1>1, <1>2, <1>3, <2>1, <3>1 DEF ErrInv, LvtWrite, LvtValue, LvtRegs, Lvt
  <2> QED  BY <2>2, <2>3, <2>4
<1>5. CASE w.reg \in LvtRegs \ {"LVTERR"}
  <2>1. PICK r \in LvtRegs \ {"LVTERR"} : r = w.reg
    BY <1>5
  <2>2. LvtWrite(r, LvtValue(r, w.how))
    BY <1>5, <2>1 DEF LapicStep, LvtRegs
  <2>3. w.how \in {"mask", "clean"} /\ pos \in 2 .. (n - 2)
    BY <1>1, <1>5, ProgramShape
  <2>4. lvt["LVTERR"].masked
    BY <1>1, <2>3 DEF ErrInv, LapicStep
  <2>5. LvtValue(r, w.how) \in Lvt
    BY <2>1, <2>3 DEF LvtValue, ErrInv, Lvt
  <2>6. lvt' \in [LvtRegs -> Lvt] /\ lvt'["LVTERR"] = lvt["LVTERR"]
    BY <2>1, <2>2, <2>5 DEF LvtWrite, ErrInv, LvtRegs, Lvt
  <2>7. errorIrq' = FALSE
    BY <2>2, <2>4, <2>6 DEF LvtWrite, ErrInv
  <2> QED  BY <1>1, <1>2, <1>3, <2>4, <2>6, <2>7 DEF ErrInv
<1>6. CASE w.reg \notin LvtRegs
  <2>1. UNCHANGED <<lvt, errorIrq>>
    BY <1>6 DEF LapicStep, EsrWrite, OtherWrite
  <2>2. pos \in 2 .. (n - 1) => lvt["LVTERR"].masked
    BY DEF ErrInv, LapicStep
  <2>3. pos # 1
    BY <1>6, <1>1 DEF LapicProgram, clear_local_apic, setup_local_apic,
           init_apic_ldr, lapic_setup_esr, Write, LvtRegs
  <2>4. pos' = pos + 1
    BY DEF LapicStep
  <2> QED  BY <1>1, <1>2, <1>3, <2>1, <2>2, <2>3, <2>4 DEF ErrInv
<1> QED  BY <1>4, <1>5, <1>6

\* ErrInv is inductive: only WalkEnds, which lets the firmware's registers
\* in, and the writes of the program touch what it is about.
LEMMA ErrInvStep ==
  ASSUME ErrInv, [Next]_vars
  PROVE  ErrInv'
<1> USE AcpiConstants DEF AcpiConstants
<1>1. CASE FindTables
  BY <1>1 DEF FindTables, ScanFinds, ScanNext, ScanEnds, acpi_tb_parse_root_table,
              NextTable, LoadTable, ErrInv, lapicVars
<1>2. CASE verify_apic \/ acpi_parse_madt \/ MadtMissing
  BY <1>2 DEF verify_apic, acpi_parse_madt, MadtMissing, ErrInv, lapicVars
<1>3. CASE HandleEntry \/ SkipEntry \/ WalkPanics \/ BootCpuMissing
  BY <1>3 DEF HandleEntry, SkipEntry, WalkPanics, BootCpuMissing, ErrInv, lapicVars
<1>4. CASE WalkEnds
  <2>1. /\ pos' = 1 /\ errorIrq' = errorIrq
        /\ lvt' \in [LvtRegs -> Lvt]
    BY <1>4 DEF WalkEnds
  <2>2. Len(LapicProgram)' \in Nat /\ Len(LapicProgram)' > 2
    BY <1>4, ProgramShape DEF WalkEnds, driverVars, LapicProgram, clear_local_apic,
       setup_local_apic, init_apic_ldr, lapic_setup_esr, Write
  <2> QED  BY <2>1, <2>2 DEF ErrInv
<1>5. CASE LapicStep
  BY <1>5, LapicStepKeepsErrInv
<1>6. CASE UNCHANGED vars
  <2>1. UNCHANGED <<pc, pos, lvt, errorIrq, apic>>
    BY <1>6 DEF vars, driverVars, lapicVars
  <2> QED
    BY <2>1 DEF ErrInv, LapicProgram, setup_local_apic, init_apic_ldr,
                clear_local_apic, lapic_setup_esr, Write
<1> QED  BY <1>1, <1>2, <1>3, <1>4, <1>5, <1>6 DEF Next, FindCpus

\* Whatever the firmware left in the local APIC, apic_init raises no error
\* interrupt.
THEOREM NoErrorInterrupts == Spec => []NoErrorInterrupt
<1>1. Init => ErrInv
  BY AcpiConstants DEF Init, ErrInv, Masked, LvtRegs, Lvt, AcpiConstants
<1>2. ErrInv /\ [Next]_vars => ErrInv'
  BY ErrInvStep
<1>3. ErrInv => NoErrorInterrupt
  BY DEF ErrInv, NoErrorInterrupt
<1> QED  BY <1>1, <1>2, <1>3, PTL DEF Spec

-----------------------------------------------------------------------------
(***************************************************************************)
(* The tables kept.  Kept(kept, es, p) says that they are the valid ones   *)
(* among the entries es before p, in their order.                          *)
(***************************************************************************)
Kept(kept, es, p) ==
  \E at \in [1 .. Len(kept) -> 1 .. (p - 1)] :
    /\ \A j, k \in 1 .. Len(kept) : j < k => at[j] < at[k]
    /\ \A k \in 1 .. Len(kept) : Wanted(es[at[k]]) /\ kept[k] = es[at[k]].sig
    /\ \A i \in 1 .. (p - 1) : Wanted(es[i]) => \E k \in 1 .. Len(kept) : at[k] = i

\* The loop over the root table: it has met the entries before pos and the
\* array has room for another one.
TablesInv ==
  /\ initial_tables \in Seq(STRING)
  /\ Len(initial_tables) <= MaxTables
  /\ pc \in {"low", "hi", "root"} => initial_tables = <<>>
  /\ pc = "root" => pos = 1
  /\ pc = "tables" =>
       /\ rom.entries \in Seq(Listed)
       /\ pos \in 1 .. Len(rom.entries)
       /\ Len(initial_tables) < MaxTables
       /\ Kept(initial_tables, rom.entries, pos)
  /\ TablesAreFirstValid

\* An entry is taken: either it is not wanted, or it is appended.
LEMMA NextTableKeeps ==
  ASSUME TablesInv, NextTable
  PROVE  Kept(initial_tables, rom.entries, pos)' /\ initial_tables' \in Seq(STRING)
         /\ Len(initial_tables') <= MaxTables
<1> USE AcpiConstants DEF AcpiConstants
<1> DEFINE es == rom.entries
           n == Len(initial_tables)
           t == es[pos]
<1>1. /\ es \in Seq(Listed) /\ pos \in 1 .. Len(es) /\ n < MaxTables /\ n \in Nat
      /\ initial_tables \in Seq(STRING) /\ Len(es) \in Nat /\ t \in Listed
  BY DEF TablesInv, NextTable
<1>2. PICK at \in [1 .. n -> 1 .. (pos - 1)] :
        /\ \A j, k \in 1 .. n : j < k => at[j] < at[k]
        /\ \A k \in 1 .. n : Wanted(es[at[k]]) /\ initial_tables[k] = es[at[k]].sig
        /\ \A i \in 1 .. (pos - 1) : Wanted(es[i]) => \E k \in 1 .. n : at[k] = i
  BY DEF TablesInv, NextTable, Kept
<1>3. rom' = rom
  BY DEF NextTable
<1>4. CASE ~Wanted(t)
  <2>1. initial_tables' = initial_tables
    BY <1>4 DEF NextTable, LoadTable
  <2>2. at \in [1 .. n -> 1 .. pos]
    BY <1>1, <1>2
  <2>3. \A i \in 1 .. pos : Wanted(es[i]) => \E k \in 1 .. n : at[k] = i
    BY <1>1, <1>2, <1>4
  <2>4. Kept(initial_tables, rom.entries, pos)'
    <3>1. pos' = pos + 1 /\ pos' - 1 = pos
      BY <1>1 DEF NextTable
    <3> QED  BY <1>2, <1>3, <2>1, <2>2, <2>3, <3>1, SMTT(40) DEF Kept
  <2> QED  BY <1>1, <2>1, <2>4
<1>5. CASE Wanted(t)
  <2>1. initial_tables' = Append(initial_tables, t.sig)
    BY <1>5 DEF NextTable, LoadTable
  <2>2. /\ initial_tables' \in Seq(STRING) /\ Len(initial_tables') = n + 1
        /\ \A k \in 1 .. n : initial_tables'[k] = initial_tables[k]
        /\ initial_tables'[n + 1] = t.sig
    BY <1>1, <2>1
  <2> DEFINE to == [k \in 1 .. (n + 1) |-> IF k = n + 1 THEN pos ELSE at[k]]
  <2>3. /\ to \in [1 .. (n + 1) -> 1 .. pos]
        /\ \A k \in 1 .. n : to[k] = at[k] /\ at[k] \in 1 .. (pos - 1)
        /\ to[n + 1] = pos
    BY <1>1, <1>2, SMTT(40)
  <2> HIDE DEF to
  <2>4. \A j, k \in 1 .. (n + 1) : j < k => to[j] < to[k]
    <3> SUFFICES ASSUME NEW j \in 1 .. (n + 1), NEW k \in 1 .. (n + 1), j < k
                 PROVE  to[j] < to[k]
      OBVIOUS
    <3>1. j \in 1 .. n /\ to[j] = at[j] /\ at[j] \in 1 .. (pos - 1)
      BY <1>1, <2>3
    <3>2. CASE k = n + 1
      BY <1>1, <2>3, <3>1, <3>2
    <3>3. CASE k # n + 1
      <4>1. k \in 1 .. n /\ to[k] = at[k]
        BY <1>1, <2>3, <3>3, SMTT(40)
      <4> QED  BY <1>2, <3>1, <4>1
    <3> QED  BY <3>2, <3>3
  <2>5. \A k \in 1 .. (n + 1) : Wanted(es[to[k]]) /\ initial_tables'[k] = es[to[k]].sig
    BY <1>1, <1>2, <1>5, <2>2, <2>3
  <2>6. \A i \in 1 .. pos : Wanted(es[i]) => \E k \in 1 .. (n + 1) : to[k] = i
    <3> SUFFICES ASSUME NEW i \in 1 .. pos, Wanted(es[i])
                 PROVE  \E k \in 1 .. (n + 1) : to[k] = i
      OBVIOUS
    <3>1. CASE i = pos
      BY <1>1, <2>3, <3>1
    <3>2. CASE i # pos
      <4>0. i \in 1 .. (pos - 1)
        BY <1>1, <3>2
      <4>1. PICK k \in 1 .. n : at[k] = i
        BY <1>2, <4>0, Zenon
      <4>2. k \in 1 .. (n + 1) /\ to[k] = i
        BY <1>1, <2>3, <4>1
      <4> QED  BY <4>2
    <3> QED  BY <3>1, <3>2
  <2>7. Kept(initial_tables, rom.entries, pos)'
    <3>1. pos' = pos + 1 /\ pos' - 1 = pos
      BY <1>1 DEF NextTable
    <3>2. to \in [1 .. Len(initial_tables') -> 1 .. (pos' - 1)]
      BY <2>2, <2>3, <3>1
    <3>3. /\ \A j, k \in 1 .. Len(initial_tables') : j < k => to[j] < to[k]
          /\ \A k \in 1 .. Len(initial_tables') :
               Wanted(rom'.entries[to[k]]) /\ initial_tables'[k] = rom'.entries[to[k]].sig
          /\ \A i \in 1 .. (pos' - 1) :
               Wanted(rom'.entries[i]) => \E k \in 1 .. Len(initial_tables') : to[k] = i
      BY <1>3, <2>2, <2>4, <2>5, <2>6, <3>1
    <3> QED  BY <3>2, <3>3, Zenon DEF Kept
  <2> QED  BY <1>1, <2>2, <2>7
<1> QED  BY <1>4, <1>5

\* The loop over the root table ends behind its last entry or with a full
\* array; either way what it kept is what there was to keep.
LEMMA NextTableEnds ==
  ASSUME TablesInv, NextTable, pc' = "verify"
  PROVE  TablesAreFirstValid'
<1> USE AcpiConstants DEF AcpiConstants
<1> DEFINE es == rom.entries
           n == Len(initial_tables')
<1>1. /\ es \in Seq(Listed) /\ DOMAIN es = 1 .. Len(es) /\ Len(es) \in Nat
      /\ pos \in 1 .. Len(es) /\ pos' = pos + 1 /\ rom' = rom
  BY DEF TablesInv, NextTable
<1>2. Kept(initial_tables, rom.entries, pos)' /\ initial_tables' \in Seq(STRING) /\ n \in Nat
  BY NextTableKeeps
<1>3. pos' - 1 = pos
  BY <1>1
<1>4. PICK at \in [1 .. n -> 1 .. pos] :
        /\ \A j, k \in 1 .. n : j < k => at[j] < at[k]
        /\ \A k \in 1 .. n : Wanted(es[at[k]]) /\ initial_tables'[k] = es[at[k]].sig
        /\ \A i \in 1 .. pos : Wanted(es[i]) => \E k \in 1 .. n : at[k] = i
  BY <1>1, <1>2, <1>3, SMTT(40) DEF Kept
<1>5. pos = Len(es) \/ n = MaxTables
  BY DEF NextTable, LoadTable
<1>6. at \in [1 .. n -> DOMAIN es] /\ DOMAIN at = 1 .. n
  BY <1>1, <1>4
<1>7. \A i \in DOMAIN es :
        Wanted(es[i]) => \/ \E k \in DOMAIN at : at[k] = i
                         \/ n = MaxTables /\ at[MaxTables] < i
  <2> SUFFICES ASSUME NEW i \in DOMAIN es, Wanted(es[i]), i \notin 1 .. pos
               PROVE  n = MaxTables /\ at[MaxTables] < i
    BY <1>4, <1>6
  <2>1. i > pos /\ i \in Nat
    BY <1>1
  <2>2. n = MaxTables
    BY <1>1, <1>5, <2>1
  <2>3. at[MaxTables] \in 1 .. pos
    BY <1>4, <2>2
  <2> QED  BY <1>1, <2>1, <2>2, <2>3
<1> QED
  BY <1>1, <1>4, <1>6, <1>7 DEF TablesAreFirstValid, FirstValid

\* What the loop over the root table relies on is inductive.
LEMMA TablesInvStep ==
  ASSUME TablesInv, [Next]_vars
  PROVE  TablesInv'
<1> USE AcpiConstants DEF AcpiConstants
<1>1. CASE ScanFinds \/ ScanNext \/ ScanEnds
  BY <1>1 DEF ScanFinds, ScanNext, ScanEnds, TablesInv, TablesAreFirstValid
<1>2. CASE acpi_tb_parse_root_table
  <2>1. /\ initial_tables = <<>> /\ initial_tables' = <<>> /\ pos' = 1
        /\ pc' = IF ValidRoot(rom') THEN "tables" ELSE "panic_root"
    BY <1>2 DEF acpi_tb_parse_root_table, TablesInv
  <2>2. rom'.entries \in Seq(Listed)
    <3>1. PICK n \in 0 .. MaxListed, sum \in BOOLEAN : \E listed \in [1 .. n -> Listed] :
            rom' = [sig |-> IF rom.revision > 1 /\ rom.xsdt THEN "XSDT" ELSE "RSDT",
                    sum |-> sum, entries |-> listed]
      BY <1>2 DEF acpi_tb_parse_root_table
    <3>2. PICK listed \in [1 .. n -> Listed] : rom'.entries = listed
      BY <3>1
    <3> QED  BY <3>2
  <2>3. pc' = "tables" => pos' \in 1 .. Len(rom'.entries)
    <3> SUFFICES ASSUME pc' = "tables" PROVE pos' \in 1 .. Len(rom'.entries)
      OBVIOUS
    <3>1. rom'.entries # <<>>
      BY <2>1 DEF ValidRoot
    <3> QED  BY <2>1, <2>2, <3>1
  <2>4. Kept(initial_tables, rom.entries, pos)'
    <3>1. Len(initial_tables') = 0 /\ pos' - 1 = 0
      BY <2>1
    <3> DEFINE at == [k \in 1 .. 0 |-> 1]
    <3>2. at \in [1 .. 0 -> 1 .. 0]
      OBVIOUS
    <3>3. \A k \in 1 .. 0 : FALSE
      OBVIOUS
    <3> HIDE DEF at
    <3> QED  BY <3>1, <3>2, <3>3 DEF Kept
  <2> QED  BY <2>1, <2>2, <2>3, <2>4 DEF TablesInv, TablesAreFirstValid
<1>3. CASE NextTable
  <2>1. Kept(initial_tables, rom.entries, pos)' /\ initial_tables' \in Seq(STRING) /\ Len(initial_tables') <= MaxTables
    BY <1>3, NextTableKeeps
  <2>2. pc' = IF pos = Len(rom.entries) \/ Len(initial_tables') = MaxTables
              THEN "verify" ELSE "tables"
    BY <1>3 DEF NextTable, LoadTable
  <2>3. TablesAreFirstValid'
    BY <1>3, <2>2, NextTableEnds DEF TablesAreFirstValid
  <2>4. pc' = "tables" =>
          /\ rom'.entries \in Seq(Listed)
          /\ pos' \in 1 .. Len(rom'.entries)
          /\ Len(initial_tables') < MaxTables
    BY <1>3, <2>1, <2>2 DEF NextTable, TablesInv
  <2> QED  BY <2>1, <2>2, <2>3, <2>4 DEF TablesInv
<1>4. CASE FindCpus
  BY <1>4 DEF FindCpus, verify_apic, acpi_parse_madt, MadtMissing, HandleEntry, SkipEntry,
              WalkPanics, BootCpuMissing, WalkEnds, TablesInv, TablesAreFirstValid
<1>5. CASE LapicStep
  BY <1>5 DEF LapicStep, TablesInv, TablesAreFirstValid
<1>6. CASE UNCHANGED vars
  <2>1. UNCHANGED <<pc, rom, pos, initial_tables>>
    BY <1>6 DEF vars
  <2>2. Kept(initial_tables, rom.entries, pos) => Kept(initial_tables, rom.entries, pos)'
    BY <2>1, Zenon
  <2>3. TablesAreFirstValid'
    BY <2>1, Zenon DEF TablesInv, TablesAreFirstValid
  <2> QED  BY <2>1, <2>2, <2>3 DEF TablesInv
<1> QED  BY <1>1, <1>2, <1>3, <1>4, <1>5, <1>6 DEF Next, FindTables

\* No register and no index leaves its range.
LEMMA TypeStep ==
  ASSUME TypeOK, WalkOK, TablesInv', ErrInv, ErrInv', [Next]_vars
  PROVE  TypeOK'
<1> USE AcpiConstants DEF AcpiConstants
<1>1. initial_tables' \in Seq(STRING) /\ Len(initial_tables') <= MaxTables
  BY DEF TablesInv
<1>2. lvt' \in [LvtRegs -> Lvt]
  BY DEF ErrInv
<1>3. CASE FindTables
  BY <1>1, <1>2, <1>3 DEF FindTables, ScanFinds, ScanNext, ScanEnds,
     acpi_tb_parse_root_table, NextTable, LoadTable, TypeOK, Ended,
     driverVars, cpuVars, lapicVars
<1>4. CASE verify_apic \/ acpi_parse_madt \/ MadtMissing
  BY <1>1, <1>2, <1>4 DEF verify_apic, acpi_parse_madt, MadtMissing, TypeOK, Ended,
     driverVars, cpuVars, lapicVars
<1>5. CASE HandleEntry \/ SkipEntry
  <2>1. PICK k \in DOMAIN rom.entries : pos' = pos + rom.entries[k].length
    BY <1>5 DEF HandleEntry, SkipEntry
  <2>2. pc = "walk" /\ pc' = "walk" /\ UNCHANGED <<rom, driverVars, lapicVars>>
    BY <1>5 DEF HandleEntry, SkipEntry
  <2>3. pos' \in Nat
    <3>1. rom.entries[k].length \in Nat
      BY <2>2 DEF WalkOK
    <3> QED  BY <2>1, <3>1 DEF TypeOK
  <2>4. count' \in 0 .. MaxLocalApic
    BY <1>5 DEF HandleEntry, SkipEntry, MoreEntries, TypeOK, cpuVars
  <2> QED
    BY <1>1, <1>2, <2>2, <2>3, <2>4 DEF TypeOK, Ended, driverVars, lapicVars
<1>6. CASE WalkPanics \/ BootCpuMissing \/ WalkEnds
  BY <1>1, <1>2, <1>6 DEF WalkPanics, BootCpuMissing, WalkEnds, TypeOK, Ended,
     driverVars, cpuVars, lapicVars
<1>7. CASE LapicStep
  <2>1. /\ pc' \in {"done", "lapic"} /\ pos' = pos + 1
        /\ UNCHANGED <<apicbase, apic, count>>
    BY <1>7 DEF LapicStep, driverVars, cpuVars
  <2>2. PICK r, v :
          \/ r \in LvtRegs /\ LvtWrite(r, v)
          \/ r = "ESR" /\ EsrWrite
          \/ r \in {"LDR", "TASKPRI", "SPIV"} /\ OtherWrite(r)
    BY <1>7, Zenon DEF LapicStep
  <2>3. {tpr', ldr'} \subseteq {0, 1}
    BY <2>2 DEF LvtWrite, EsrWrite, OtherWrite, TypeOK
  <2>4. {spiv', esr', errors', errorIrq'} \subseteq BOOLEAN
    <3>1. spiv' \in BOOLEAN
      BY <2>2, Zenon DEF LvtWrite, EsrWrite, OtherWrite, TypeOK
    <3>2. esr' \in BOOLEAN
      BY <2>2, Zenon DEF LvtWrite, EsrWrite, OtherWrite, TypeOK
    <3>3. errors' \in BOOLEAN
      BY <2>2, Zenon DEF LvtWrite, EsrWrite, OtherWrite, TypeOK
    <3>4. errorIrq' \in BOOLEAN
      BY Zenon DEF ErrInv
    <3> QED  BY <3>1, <3>2, <3>3, <3>4, Zenon
  <2> QED  BY <1>1, <1>2, <2>1, <2>3, <2>4 DEF TypeOK, Ended
<1>8. CASE UNCHANGED vars
  <2>1. UNCHANGED <<pc, pos, apicbase, apic, count>>
    BY <1>8 DEF vars, driverVars, cpuVars
  <2>2. UNCHANGED <<spiv, esr, errors, errorIrq, tpr, ldr>>
    BY <1>8 DEF vars, lapicVars
  <2>3. pos' \in Nat /\ count' \in 0 .. MaxLocalApic /\ {tpr', ldr'} \subseteq {0, 1}
    BY <2>1, <2>2 DEF TypeOK
  <2>4. {spiv', esr', errors', errorIrq'} \subseteq BOOLEAN
    BY <2>2, Zenon DEF TypeOK
  <2>5. /\ pc' \in Ended \cup {"low", "hi", "root", "tables", "verify", "madt", "walk",
                            "lapic"}
        /\ apicbase' \in {"disabled", "xapic", "x2apic"}
        /\ apic' \in {"NULL", "xapic", "x2apic"}
    BY <2>1, Zenon DEF TypeOK
  <2> QED  BY <1>1, <1>2, <2>3, <2>4, <2>5, Zenon DEF TypeOK
<1> QED  BY <1>3, <1>4, <1>5, <1>6, <1>7, <1>8 DEF Next, FindCpus

\* acpi_tb_parse_root_table keeps the first valid tables of every root table,
\* and no array or register leaves its range.
THEOREM TablesAreAlwaysSound == Spec => []TablesAreSound
<1> DEFINE I == TypeOK /\ Inv /\ TablesInv /\ ErrInv
<1>1. Init => I
  <2> USE AcpiConstants DEF AcpiConstants
  <2> SUFFICES ASSUME Init PROVE I
    OBVIOUS
  <2>1. ErrInv
    BY DEF Init, ErrInv, Masked, LvtRegs, Lvt
  <2>2. TablesInv
    BY DEF Init, TablesInv, TablesAreFirstValid
  <2>3. TypeOK
    <3>1. {spiv, esr, errors, errorIrq} \subseteq BOOLEAN
      BY Zenon DEF Init
    <3>2. pos \in Nat /\ count \in 0 .. MaxLocalApic /\ {tpr, ldr} \subseteq {0, 1}
      BY DEF Init
    <3>3. /\ pc \in Ended \cup {"low", "hi", "root", "tables", "verify", "madt", "walk",
                              "lapic"}
          /\ apicbase \in {"disabled", "xapic", "x2apic"}
          /\ apic \in {"NULL", "xapic", "x2apic"}
      BY Zenon DEF Init
    <3> QED
      BY <2>1, <2>2, <3>1, <3>2, <3>3, Zenon DEF TypeOK, ErrInv, TablesInv
  <2> QED  BY <2>1, <2>2, <2>3, InvInit
<1>2. I /\ [Next]_vars => I'
  BY InvStep, ErrInvStep, TablesInvStep, TypeStep DEF Inv
<1>3. I => TablesAreSound
  BY DEF TablesInv, TablesAreSound
<1> QED  BY <1>1, <1>2, <1>3, PTL DEF Spec

-----------------------------------------------------------------------------
(***************************************************************************)
(* The local APIC at the end.  Each register is as ApicReady asks from the *)
(* last write that concerns it on: the position of that write is counted   *)
(* from the front for the sources that are cleared, and from the end for   *)
(* what does not depend on whether init_apic_ldr writes.                   *)
(***************************************************************************)
Clean == [vector |-> 0, masked |-> TRUE]
Reporting == [vector |-> 1, masked |-> FALSE]
Sources == LvtRegs \ {"LVTERR"}

\* The write that clears a source.
ClearedAt == [LVTT |-> 6, LVT0 |-> 7, LVT1 |-> 8, LVTPC |-> 10]

ReadyInv ==
  /\ pc = "lapic" =>
       /\ \A r \in Sources : pos > ClearedAt[r] => lvt[r] = Clean
       /\ pos > Len(LapicProgram) - 4 => tpr = 0
       /\ pos > Len(LapicProgram) - 3 => spiv = TRUE
       /\ pos > Len(LapicProgram) - 2 => errors = FALSE
       /\ pos > Len(LapicProgram) - 1 => lvt["LVTERR"] = Reporting
  /\ ApicReady

\* Where the program clears the sources, and how it ends.
LEMMA ProgramOrder ==
  LET P == LapicProgram
      n == Len(LapicProgram)
  IN  /\ n \in Nat /\ n > 15
      /\ \A r \in Sources : ClearedAt[r] \in 1 .. 10 /\ P[ClearedAt[r]] = Write(r, "clean")
      /\ \A p \in 1 .. n : P[p].reg \in Sources => p <= ClearedAt[P[p].reg]
      /\ P[n - 4].reg = "TASKPRI"
      /\ P[n - 3].reg = "SPIV"
      /\ P[n - 2].reg = "ESR"
      /\ P[n - 1] = Write("LVTERR", "vector")
      /\ P[n].reg = "ESR"
<1>1. CASE apic = "xapic"
  BY <1>1 DEF LapicProgram, clear_local_apic, setup_local_apic, init_apic_ldr,
              lapic_setup_esr, Write, LvtRegs, Sources, ClearedAt
<1>2. CASE apic # "xapic"
  BY <1>2 DEF LapicProgram, clear_local_apic, setup_local_apic, init_apic_ldr,
              lapic_setup_esr, Write, LvtRegs, Sources, ClearedAt
<1> QED  BY <1>1, <1>2

\* A write of the program leaves the local APIC as far on as its position
\* says, and the last one leaves it ready.
LEMMA LapicStepKeepsReady ==
  ASSUME ErrInv, ReadyInv, LapicStep
  PROVE  ReadyInv'
<1> DEFINE P == LapicProgram
           n == Len(LapicProgram)
           w == LapicProgram[pos]
<1>1. pc = "lapic" /\ pos \in 1 .. n /\ n \in Nat /\ n > 15 /\ pos' = pos + 1
  BY ProgramOrder DEF ErrInv, LapicStep
<1>2. Len(LapicProgram)' = n
  BY DEF LapicStep, driverVars, LapicProgram, clear_local_apic, setup_local_apic,
         init_apic_ldr, lapic_setup_esr, Write
<1>3. pc' = IF pos = n THEN "done" ELSE "lapic"
  BY DEF LapicStep
<1>4. \/ w.reg \in LvtRegs /\ LvtWrite(w.reg, LvtValue(w.reg, w.how))
      \/ w.reg = "ESR" /\ EsrWrite
      \/ w.reg \in {"LDR", "TASKPRI", "SPIV"} /\ OtherWrite(w.reg)
  BY DEF LapicStep
<1>5. lvt \in [LvtRegs -> Lvt]
  BY DEF ErrInv
<1>6. \A r \in LvtRegs : w.reg # r => lvt'[r] = lvt[r]
  BY <1>4, <1>5 DEF LvtWrite, EsrWrite, OtherWrite
<1>7. ASSUME NEW r \in Sources, pos' > ClearedAt[r]
      PROVE  lvt'[r] = Clean
  <2>1. ClearedAt[r] \in 1 .. 10 /\ P[ClearedAt[r]] = Write(r, "clean") /\ r \in LvtRegs
    BY ProgramOrder DEF Sources
  <2>2. CASE pos = ClearedAt[r]
    <3>1. w.reg = r /\ w.how = "clean"
      BY <2>1, <2>2 DEF Write
    <3>2. LvtValue(r, "clean") = Clean
      BY DEF LvtValue, Clean
    <3>3. LvtWrite(r, Clean)
      BY <1>4, <2>1, <3>1, <3>2 DEF LvtRegs
    <3>4. lvt' = [lvt EXCEPT ![r] = IF spiv THEN Clean
                                   ELSE [vector |-> Clean.vector, masked |-> TRUE]]
      BY <3>3 DEF LvtWrite
    <3>5. [vector |-> Clean.vector, masked |-> TRUE] = Clean
      BY DEF Clean
    <3> QED  BY <1>5, <2>1, <3>4, <3>5
  <2>3. CASE pos # ClearedAt[r]
    <3>1. pos > ClearedAt[r]
      BY <1>1, <2>1, <2>3, <1>7
    <3>2. w.reg # r
      BY <1>1, <2>1, <3>1, ProgramOrder, SMTT(40)
    <3> QED  BY <1>1, <1>6, <2>1, <3>1, <3>2 DEF ReadyInv
  <2> QED  BY <2>2, <2>3
<1>8. pos' > n - 4 => tpr' = 0
  <2>1. CASE pos = n - 4
    <3>1. w.reg = "TASKPRI"
      BY <2>1, ProgramOrder
    <3> QED  BY <1>4, <3>1 DEF OtherWrite, LvtRegs
  <2>2. CASE pos > n - 4
    <3>1. tpr = 0
      BY <1>1, <2>2 DEF ReadyInv
    <3> QED  BY <1>4, <3>1 DEF OtherWrite, LvtWrite, EsrWrite
  <2> QED  BY <1>1, <2>1, <2>2
<1>9. pos' > n - 3 => spiv' = TRUE
  <2>1. CASE pos = n - 3
    <3>1. w.reg = "SPIV"
      BY <2>1, ProgramOrder
    <3>2. OtherWrite("SPIV")
      BY <1>4, <3>1 DEF LvtRegs
    <3>3. spiv' = (spiv \/ "SPIV" = "SPIV")
      BY <3>2, Zenon DEF OtherWrite
    <3> QED  BY <3>3, Zenon
  <2>2. CASE pos > n - 3
    <3>1. spiv = TRUE
      BY <1>1, <2>2 DEF ReadyInv
    <3>2. spiv' = spiv \/ \E r : spiv' = (spiv \/ r = "SPIV")
      BY <1>4, Zenon DEF OtherWrite, LvtWrite, EsrWrite
    <3> QED  BY <3>1, <3>2, Zenon
  <2>3. pos' > n - 3 => pos = n - 3 \/ pos > n - 3
    BY <1>1
  <2> QED  BY <2>1, <2>2, <2>3, Zenon
<1>10. CASE pos = n - 1
  <2>1. w = Write("LVTERR", "vector")
    BY <1>10, ProgramOrder
  <2>2. w.reg = "LVTERR" /\ w.how = "vector"
    BY <2>1 DEF Write
  <2>3. LvtValue("LVTERR", "vector") = Reporting
    BY DEF LvtValue, Reporting
  <2>4. LvtWrite("LVTERR", Reporting)
    BY <1>4, <2>2, <2>3 DEF LvtRegs
  <2>5. spiv = TRUE /\ errors = FALSE
    BY <1>1, <1>10 DEF ReadyInv
  <2>6. lvt' = [lvt EXCEPT !["LVTERR"] = IF spiv THEN Reporting
                                 ELSE [vector |-> Reporting.vector, masked |-> TRUE]]
    BY <2>4, Zenon DEF LvtWrite
  <2>7. lvt' = [lvt EXCEPT !["LVTERR"] = Reporting]
    BY <2>5, <2>6, Zenon
  <2>8. lvt'["LVTERR"] = Reporting
    BY <1>5, <2>7 DEF LvtRegs
  <2>9. errors' = FALSE
    <3>1. Reporting.vector # 0
      BY DEF Reporting
    <3> QED  BY <2>4, <2>5, <3>1, Zenon DEF LvtWrite
  <2>10. pos' = n /\ pc' = "lapic"
    BY <1>1, <1>3, <1>10
  <2> QED
    BY <1>1, <1>2, <1>7, <1>8, <1>9, <2>8, <2>9, <2>10 DEF ReadyInv, ApicReady
<1>11. CASE pos = n
  <2>1. w.reg = "ESR"
    BY <1>11, ProgramOrder
  <2>2. EsrWrite
    BY <1>4, <2>1 DEF LvtRegs
  <2>3. errors = FALSE /\ lvt["LVTERR"] = Reporting
    BY <1>1, <1>11 DEF ReadyInv
  <2>4. esr' = FALSE /\ errors' = FALSE /\ lvt' = lvt
    BY <2>2, <2>3, Zenon DEF EsrWrite
  <2>5. tpr' = 0 /\ spiv' = TRUE
    BY <1>1, <1>8, <1>9, <1>11
  <2>6. \A r \in Sources : ClearedAt[r] < pos'
    BY <1>1, <1>11, ProgramOrder
  <2>7. \A r \in LvtRegs \ {"LVTERR"} : lvt'[r] = [vector |-> 0, masked |-> TRUE]
    BY <1>7, <2>6 DEF Sources, Clean
  <2>8. lvt'["LVTERR"] = [vector |-> 1, masked |-> FALSE]
    BY <2>3, <2>4, Zenon DEF Reporting
  <2>9. ApicReady'
    BY <2>4, <2>5, <2>7, <2>8, Zenon DEF ApicReady
  <2>10. pc' = "done"
    BY <1>3, <1>11
  <2> QED  BY <2>9, <2>10 DEF ReadyInv
<1>12. CASE pos < n - 1
  <2>1. pc' = "lapic" /\ pos' < n
    BY <1>1, <1>3, <1>12
  <2>2. pos' > n - 2 => errors' = FALSE
    <3>0. pos' > n - 2 => pos = n - 2
      BY <1>1, <2>1
    <3> SUFFICES ASSUME pos = n - 2 PROVE errors' = FALSE
      BY <3>0, Zenon
    <3>1. w.reg = "ESR"
      BY ProgramOrder
    <3>2. EsrWrite
      BY <1>4, <3>1 DEF LvtRegs
    <3> QED  BY <3>2, Zenon DEF EsrWrite
  <2> QED
    BY <1>1, <1>2, <1>7, <1>8, <1>9, <2>1, <2>2 DEF ReadyInv, ApicReady
<1> QED  BY <1>1, <1>10, <1>11, <1>12

\* ReadyInv is inductive: only WalkEnds enters the program, at its start.
LEMMA ReadyStep ==
  ASSUME ErrInv, ReadyInv, [Next]_vars
  PROVE  ReadyInv'
<1>1. CASE FindTables
  <2>1. pc' \notin {"lapic", "done"}
    BY <1>1 DEF FindTables, ScanFinds, ScanNext, ScanEnds, acpi_tb_parse_root_table,
                NextTable, LoadTable
  <2> QED  BY <2>1 DEF ReadyInv, ApicReady
<1>2. CASE verify_apic \/ acpi_parse_madt \/ MadtMissing \/ HandleEntry \/ SkipEntry
           \/ WalkPanics \/ BootCpuMissing
  <2>1. pc' \notin {"lapic", "done"}
    BY <1>2 DEF verify_apic, acpi_parse_madt, MadtMissing, HandleEntry, SkipEntry,
                WalkPanics, BootCpuMissing
  <2> QED  BY <2>1 DEF ReadyInv, ApicReady
<1>3. CASE WalkEnds
  <2>1. pos' = 1 /\ pc' = "lapic" /\ apic' = apic
    BY <1>3 DEF WalkEnds, driverVars
  <2>2. Len(LapicProgram)' = Len(LapicProgram)
    BY <2>1 DEF LapicProgram, clear_local_apic, setup_local_apic,
                init_apic_ldr, lapic_setup_esr, Write
  <2>3. /\ Len(LapicProgram) \in Nat /\ Len(LapicProgram) > 15
        /\ \A r \in Sources : ClearedAt[r] \in 1 .. 10
    BY ProgramOrder
  <2> QED  BY <2>1, <2>2, <2>3 DEF ReadyInv, ApicReady
<1>4. CASE LapicStep
  BY <1>4, LapicStepKeepsReady
<1>5. CASE UNCHANGED vars
  <2>1. UNCHANGED <<pc, pos, apic, lvt, tpr, spiv, errors, esr>>
    BY <1>5 DEF vars, driverVars, lapicVars
  <2>2. Len(LapicProgram)' = Len(LapicProgram)
    BY <2>1 DEF LapicProgram, clear_local_apic, setup_local_apic,
                init_apic_ldr, lapic_setup_esr, Write
  <2> QED  BY <2>1, <2>2 DEF ReadyInv, ApicReady
<1> QED  BY <1>1, <1>2, <1>3, <1>4, <1>5 DEF Next, FindCpus

-----------------------------------------------------------------------------
(***************************************************************************)
(* The offsets of the entries of a MADT.                                   *)
(***************************************************************************)
\* A set of natural numbers that is not empty has a least element.  (The
\* form in which induction is used below.)
LEMMA LeastNatural ==
  ASSUME NEW T \in SUBSET Nat, T # {}
  PROVE  \E x \in T : \A y \in T : x <= y
<1> DEFINE less == {ss \in Nat \X Nat : ss[1] < ss[2]}
<1>1. IsWellFoundedOn(less, Nat)
  BY NatLessThanWellFounded, Zenon DEF OpToRel
<1> HIDE DEF less
<1>2. PICK x \in T : \A y \in T : ~ (<<y, x>> \in less)
  BY <1>1, WFMin
<1>3. \A y \in T : ~ (y < x)
  BY <1>2 DEF less
<1> QED
  BY <1>3

\* There is a function that adds up the lengths.
LEMMA OffsetsExist ==
  ASSUME NEW es, NEW n \in Nat, \A k \in 1 .. n : es[k].length \in Nat
  PROVE  \E g \in [0 .. n -> Nat] :
           g = [k \in 0 .. n |-> IF k = 0 THEN 0 ELSE g[k - 1] + es[k].length]
<1> DEFINE L(k) == es[k].length
           P(m) == \E g \in [0 .. m -> Nat] :
                     g[0] = 0 /\ \A k \in 1 .. m : g[k] = g[k - 1] + L(k)
           T == {m \in 0 .. n : ~P(m)}
<1>1. T = {}
  <2> SUFFICES ASSUME T # {} PROVE FALSE
    OBVIOUS
  <2>1. PICK m \in T : \A y \in T : m <= y
    <3>1. T \in SUBSET Nat
      OBVIOUS
    <3> QED  BY <3>1, LeastNatural
  <2>2. CASE m = 0
    <3> DEFINE g == [k \in 0 .. 0 |-> 0]
    <3>1. g \in [0 .. 0 -> Nat] /\ g[0] = 0 /\ \A k \in 1 .. 0 : g[k] = g[k - 1] + L(k)
      OBVIOUS
    <3>2. P(0)
      BY <3>1
    <3> QED  BY <2>1, <2>2, <3>2
  <2>3. CASE m # 0
    <3>1. m - 1 \in 0 .. n /\ P(m - 1) /\ m \in 1 .. n
      <4>1. m \in 1 .. n /\ m - 1 \in 0 .. n /\ ~(m <= m - 1)
        BY <2>3
      <4>2. m - 1 \notin T
        BY <2>1, <4>1
      <4> QED  BY <4>1, <4>2
    <3>2. PICK g \in [0 .. (m - 1) -> Nat] :
             g[0] = 0 /\ \A k \in 1 .. (m - 1) : g[k] = g[k - 1] + L(k)
      BY <3>1
    <3>3. PICK l \in Nat : l = L(m)
      BY <3>1
    <3> DEFINE h == [k \in 0 .. m |-> IF k = m THEN g[m - 1] + l ELSE g[k]]
    <3>4. h \in [0 .. m -> Nat]
      BY <3>1, <3>2
    <3>5. h[0] = 0
      BY <3>1, <3>2
    <3>6. \A k \in 1 .. m : h[k] = h[k - 1] + L(k)
      <4> TAKE k \in 1 .. m
      <4>1. k - 1 \in 0 .. (m - 1)
        BY <3>1
      <4>2. h[k - 1] = g[k - 1]
        BY <4>1, <3>1
      <4> HIDE DEF L
      <4> QED  BY <3>1, <3>2, <3>3, <4>1, <4>2
    <3>7. P(m)
      <4> HIDE DEF h
      <4> QED  BY <3>4, <3>5, <3>6
    <3> QED  BY <2>1, <3>7
  <2> QED  BY <2>2, <2>3
<1>2. PICK g \in [0 .. n -> Nat] : g[0] = 0 /\ \A k \in 1 .. n : g[k] = g[k - 1] + L(k)
  <2>1. n \in 0 .. n
    OBVIOUS
  <2> QED  BY <1>1, <2>1
<1>3. g = [k \in 0 .. n |-> IF k = 0 THEN 0 ELSE g[k - 1] + es[k].length]
  <2>1. \A k \in 0 .. n : g[k] = IF k = 0 THEN 0 ELSE g[k - 1] + es[k].length
    BY <1>2
  <2> QED  BY <1>2, <2>1
<1> QED  BY <1>3

\* The offset behind an entry is the one before it plus its length.
LEMMA OffsetsFacts ==
  ASSUME NEW es \in Seq(MadtEntries)
  PROVE  /\ OffsetsOf(es) \in [0 .. Len(es) -> Nat]
         /\ OffsetsOf(es)[0] = 0
         /\ \A k \in 1 .. Len(es) :
              es[k].length \in Nat /\ OffsetsOf(es)[k] = OffsetsOf(es)[k - 1] + es[k].length
<1>1. Len(es) \in Nat /\ \A k \in 1 .. Len(es) : es[k].length \in Nat
  BY AcpiConstants DEF AcpiConstants
<1>2. PICK g \in [0 .. Len(es) -> Nat] :
        g = [k \in 0 .. Len(es) |-> IF k = 0 THEN 0 ELSE g[k - 1] + es[k].length]
  BY <1>1, OffsetsExist
<1> DEFINE f == OffsetsOf(es)
<1>3. f = [k \in 0 .. Len(es) |-> IF k = 0 THEN 0 ELSE f[k - 1] + es[k].length]
  BY <1>2, Zenon DEF OffsetsOf
<1> HIDE DEF f
<1>4. f[0] = 0 /\ \A k \in 1 .. Len(es) : f[k] = f[k - 1] + es[k].length
  BY <1>1, <1>3
<1>5. \A k \in 0 .. Len(es) : f[k] \in Nat
  <2> DEFINE T == {k \in 0 .. Len(es) : f[k] \notin Nat}
  <2> SUFFICES ASSUME T # {} PROVE FALSE
    OBVIOUS
  <2>1. PICK k \in T : \A y \in T : k <= y
    <3>1. T \in SUBSET Nat
      BY <1>1
    <3> QED  BY <3>1, LeastNatural
  <2>2. k \in 1 .. Len(es) /\ k - 1 \in 0 .. Len(es) /\ ~(k <= k - 1)
    BY <1>1, <1>4, <2>1
  <2>3. f[k - 1] \in Nat
    BY <2>1, <2>2
  <2>4. f[k] = f[k - 1] + es[k].length /\ es[k].length \in Nat
    BY <1>1, <1>4, <2>2
  <2>5. f[k] \in Nat
    BY <2>3, <2>4
  <2> QED  BY <2>1, <2>5
<1>6. f \in [0 .. Len(es) -> Nat]
  BY <1>3, <1>5
<1> QED  BY <1>1, <1>4, <1>6 DEF f

\* Offsets never fall, and they rise over entries that have a length.
LEMMA OffsetsRise ==
  ASSUME NEW es \in Seq(MadtEntries),
         NEW i \in 0 .. Len(es), NEW j \in 0 .. Len(es), i <= j
  PROVE  /\ OffsetsOf(es)[i] <= OffsetsOf(es)[j]
         /\ (i < j /\ es[j].length > 0) => OffsetsOf(es)[i] < OffsetsOf(es)[j]
<1> DEFINE f == OffsetsOf(es)
           L(k) == es[k].length
<1>1. /\ Len(es) \in Nat /\ f \in [0 .. Len(es) -> Nat]
      /\ \A k \in 1 .. Len(es) : L(k) \in Nat /\ f[k] = f[k - 1] + L(k)
  BY OffsetsFacts
<1> HIDE DEF f, L
<1>2. \A k \in 0 .. Len(es) : i <= k => f[i] <= f[k]
  <2> DEFINE T == {k \in 0 .. Len(es) : i <= k /\ ~(f[i] <= f[k])}
  <2> SUFFICES ASSUME T # {} PROVE FALSE
    OBVIOUS
  <2>1. PICK k \in T : \A y \in T : k <= y
    <3>1. T \in SUBSET Nat
      BY <1>1
    <3> QED  BY <3>1, LeastNatural
  <2>2. k # i /\ i <= k - 1 /\ k \in 1 .. Len(es) /\ k - 1 \in 0 .. Len(es) /\ ~(k <= k - 1)
    BY <1>1, <2>1, SMTT(40)
  <2>3. f[i] <= f[k - 1]
    BY <2>1, <2>2
  <2>4. L(k) \in Nat /\ f[k] = f[k - 1] + L(k) /\ f[k - 1] \in Nat /\ f[i] \in Nat
    BY <1>1, <2>2
  <2> QED  BY <2>1, <2>3, <2>4
<1>3. f[i] <= f[j]
  BY <1>2
<1>4. ASSUME i < j, L(j) > 0 PROVE f[i] < f[j]
  <2>1. j \in 1 .. Len(es) /\ j - 1 \in 0 .. Len(es) /\ i <= j - 1
    BY <1>1, <1>4
  <2>2. f[i] <= f[j - 1] /\ f[j] = f[j - 1] + L(j) /\ f[i] \in Nat /\ f[j - 1] \in Nat
        /\ L(j) \in Nat
    BY <1>1, <1>2, <2>1
  <2> QED  BY <1>4, <2>2
<1> QED  BY <1>3, <1>4 DEF f, L

-----------------------------------------------------------------------------
(***************************************************************************)
(* The walk.  AtEntry(c): it has met the entries before the c-th, all of   *)
(* them are to be met, and the processors in them are those of the map.    *)
(***************************************************************************)
HandledIn(S) == {j \in S : Handled(rom.entries[j])}

Slots == {cpuid_to_apicid[i] : i \in 0 .. (nr_logical_cpuids - 1)}

AtEntry(c) ==
  /\ pos = OffsetsOf(rom.entries)[c - 1]
  /\ 1 .. (c - 1) \subseteq Met
  /\ \A j \in 1 .. (c - 1) : rom.entries[j].length > 0
  /\ count = Cardinality(HandledIn(1 .. (c - 1)))
  /\ Cpus(1 .. (c - 1)) = Slots \ {BAD_APICID}

\* The MADT and where the walk is in it.
WalkInv ==
  pc = "walk" =>
    /\ boot_cpu_physical_apicid = BootApicId
    /\ rom.entries \in Seq(MadtEntries)
    /\ rom.end \in Int
    /\ rom.end <= OffsetsOf(rom.entries)[Len(rom.entries)] + HeaderSize
    /\ \E c \in 1 .. (Len(rom.entries) + 1) : AtEntry(c)

\* How many processors are listed before an entry.
LEMMA HandledCount ==
  ASSUME rom.entries \in Seq(MadtEntries), NEW c \in 1 .. Len(rom.entries)
  PROVE  /\ IsFiniteSet(HandledIn(1 .. (c - 1)))
         /\ IsFiniteSet(HandledIn(1 .. c))
         /\ Cardinality(HandledIn(1 .. (c - 1))) \in Nat
         /\ Cardinality(HandledIn(1 .. c)) =
              Cardinality(HandledIn(1 .. (c - 1))) + (IF Handled(rom.entries[c]) THEN 1 ELSE 0)
<1>1. c \in Nat /\ c >= 1
  OBVIOUS
<1>2. IsFiniteSet(1 .. (c - 1))
  BY <1>1, FS_Interval
<1>3. HandledIn(1 .. (c - 1)) \in SUBSET (1 .. (c - 1))
  BY DEF HandledIn
<1>4. IsFiniteSet(HandledIn(1 .. (c - 1)))
  BY <1>2, <1>3, FS_Subset
<1>5. Cardinality(HandledIn(1 .. (c - 1))) \in Nat
  BY <1>4, FS_CardinalityType
<1>6. CASE Handled(rom.entries[c])
  <2>1. HandledIn(1 .. c) = HandledIn(1 .. (c - 1)) \cup {c} /\ c \notin HandledIn(1 .. (c - 1))
    BY <1>1, <1>6 DEF HandledIn
  <2>2. /\ IsFiniteSet(HandledIn(1 .. c))
        /\ Cardinality(HandledIn(1 .. c)) = Cardinality(HandledIn(1 .. (c - 1))) + 1
    BY <1>4, <2>1, FS_AddElement
  <2> QED  BY <1>4, <1>5, <1>6, <2>2
<1>7. CASE ~Handled(rom.entries[c])
  <2>1. HandledIn(1 .. c) = HandledIn(1 .. (c - 1))
    BY <1>1, <1>7 DEF HandledIn
  <2> QED  BY <1>4, <1>5, <1>7, <2>1
<1> QED  BY <1>6, <1>7

\* The processors listed up to an entry.
LEMMA CpusGrow ==
  ASSUME NEW c \in Nat, c >= 1
  PROVE  Cpus(1 .. c) = Cpus(1 .. (c - 1)) \cup
           (IF Handled(rom.entries[c]) THEN {rom.entries[c].id} ELSE {})
<1>1. CASE Handled(rom.entries[c])
  <2>1. {j \in 1 .. c : Handled(rom.entries[j])} =
          {j \in 1 .. (c - 1) : Handled(rom.entries[j])} \cup {c}
    BY <1>1
  <2> QED  BY <1>1, <2>1 DEF Cpus
<1>2. CASE ~Handled(rom.entries[c])
  <2>1. {j \in 1 .. c : Handled(rom.entries[j])} =
          {j \in 1 .. (c - 1) : Handled(rom.entries[j])}
    BY <1>2
  <2> QED  BY <1>2, <2>1 DEF Cpus
<1> QED  BY <1>1, <1>2

\* While the walk goes on, there is an entry, it is to be met, and it is the
\* only one at the walk's offset.
LEMMA CurrentEntry ==
  ASSUME WalkInv, pc = "walk", MoreEntries,
         NEW c \in 1 .. (Len(rom.entries) + 1), AtEntry(c)
  PROVE  /\ c \in 1 .. Len(rom.entries)
         /\ c \in Met
         /\ \A k \in DOMAIN rom.entries : IsCurrent(k) => k = c
<1> USE AcpiConstants DEF AcpiConstants
<1> DEFINE es == rom.entries
           f == OffsetsOf(es)
           L(k) == es[k].length
<1>1. /\ es \in Seq(MadtEntries) /\ Len(es) \in Nat /\ DOMAIN es = 1 .. Len(es)
      /\ rom.end \in Int /\ rom.end <= f[Len(es)] + 1
  BY DEF WalkInv, HeaderSize
<1>2. f \in [0 .. Len(es) -> Nat]
  BY <1>1, OffsetsFacts
<1>3. pos = f[c - 1] /\ f[c - 1] + 1 < rom.end /\ count < MaxLocalApic
  BY DEF AtEntry, MoreEntries, HeaderSize
<1>4. \A j \in 1 .. (c - 1) : L(j) > 0
  BY DEF AtEntry
<1>5. c \in 1 .. Len(es)
  <2> SUFFICES ASSUME c = Len(es) + 1 PROVE FALSE
    BY <1>1
  <2>1. c - 1 = Len(es)
    BY <1>1
  <2>2. f[c - 1] = f[Len(es)] /\ f[Len(es)] \in Nat
    BY <1>1, <1>2, <2>1
  <2> HIDE DEF f
  <2> QED  BY <1>1, <1>3, <2>2
<1>6. c \in Met
  <2>1. Cardinality({j \in 1 .. (c - 1) : Handled(es[j])}) < MaxLocalApic
    BY <1>3 DEF AtEntry, HandledIn
  <2> QED  BY <1>1, <1>3, <1>4, <1>5, <2>1 DEF Met, HeaderSize
<1>7. ASSUME NEW k \in DOMAIN es, IsCurrent(k) PROVE k = c
  <2>1. k \in 1 .. Len(es) /\ k - 1 \in 0 .. Len(es) /\ c - 1 \in 0 .. Len(es)
    BY <1>1, <1>5
  <2>2. f[k - 1] = pos /\ \A j \in 1 .. (k - 1) : f[j - 1] # pos
    BY <1>7 DEF IsCurrent
  <2>3. ~(c < k)
    <3> HIDE DEF f
    <3> QED  BY <1>3, <1>5, <2>1, <2>2
  <2>4. ~(k < c)
    <3> SUFFICES ASSUME k < c PROVE FALSE
      OBVIOUS
    <3>1. k - 1 < c - 1 /\ c - 1 \in 1 .. (c - 1)
      BY <1>5, <2>1
    <3>2. L(c - 1) > 0
      BY <1>4, <3>1
    <3>3. k - 1 <= c - 1
      BY <3>1, <2>1, <1>5
    <3>4. f[k - 1] < f[c - 1]
      BY <1>1, <2>1, <3>1, <3>2, <3>3, OffsetsRise
    <3>5. f[k - 1] \in Nat /\ f[k - 1] = f[c - 1]
      BY <1>2, <1>3, <2>1, <2>2
    <3> HIDE DEF f
    <3> QED  BY <3>4, <3>5
  <2> QED  BY <1>5, <2>1, <2>3, <2>4
<1> QED  BY <1>5, <1>6, <1>7

\* acpi_register_lapic adds the entry's processor to the map, and nothing
\* else.
LEMMA RegisterAdds ==
  ASSUME CpuMapInv, boot_cpu_physical_apicid \in ApicIds, NEW id \in ApicIds,
         ~CpuLimit(id), acpi_register_lapic(id)
  PROVE  Slots' \ {BAD_APICID} = (Slots \ {BAD_APICID}) \cup {id}
<1> USE AcpiConstants DEF AcpiConstants
<1> DEFINE m == cpuid_to_apicid
           n == nr_logical_cpuids
<1>1. n \in 1 .. NR_CPUS /\ m \in [CpuIds -> ApicIds \cup {BAD_APICID}] /\ id # BAD_APICID
      /\ 0 \in CpuIds /\ m[0] \in {BAD_APICID, boot_cpu_physical_apicid}
      /\ CpuIds = 0 .. (NR_CPUS - 1)
  BY DEF CpuMapInv, CpuIds
<1>2. CASE id = boot_cpu_physical_apicid
  <2>1. m' = [m EXCEPT ![0] = id] /\ n' = n
    BY <1>2 DEF acpi_register_lapic
  <2>2. m'[0] = id /\ \A i \in 1 .. (n - 1) : m'[i] = m[i]
    BY <1>1, <2>1
  <2>3. 0 .. (n - 1) = {0} \cup 1 .. (n - 1)
    BY <1>1
  <2>4. Slots' = {id} \cup {m[i] : i \in 1 .. (n - 1)}
    BY <2>1, <2>2, <2>3 DEF Slots
  <2>5. Slots = {m[0]} \cup {m[i] : i \in 1 .. (n - 1)}
    BY <2>3 DEF Slots
  <2> QED  BY <1>1, <1>2, <2>4, <2>5
<1>3. CASE id # boot_cpu_physical_apicid /\ Known(id)
  <2>1. m' = m /\ n' = n
    BY <1>3 DEF acpi_register_lapic
  <2>2. Slots' = Slots
    BY <2>1 DEF Slots
  <2>3. id \in Slots
    BY <1>3 DEF Known, Slots
  <2> QED  BY <1>1, <2>2, <2>3
<1>4. CASE id # boot_cpu_physical_apicid /\ ~Known(id)
  <2>1. n < NR_CPUS
    BY <1>1, <1>4 DEF CpuLimit
  <2>2. m' = [m EXCEPT ![n] = id] /\ n' = n + 1
    BY <1>4 DEF acpi_register_lapic
  <2>3. m'[n] = id /\ \A i \in 0 .. (n - 1) : m'[i] = m[i]
    BY <1>1, <2>1, <2>2
  <2>4. 0 .. (n' - 1) = (0 .. (n - 1)) \cup {n}
    BY <1>1, <2>2
  <2>5. Slots' = Slots \cup {id}
    BY <2>3, <2>4 DEF Slots
  <2> QED  BY <1>1, <2>5
<1> QED  BY <1>2, <1>3, <1>4

\* An entry that is taken moves the walk to the next one.
LEMMA WalkAdvances ==
  ASSUME Inv, WalkInv, HandleEntry \/ SkipEntry
  PROVE  WalkInv'
<1> USE AcpiConstants DEF AcpiConstants
<1> DEFINE es == rom.entries
<1>1. pc = "walk" /\ MoreEntries /\ UNCHANGED <<pc, rom, boot_cpu_physical_apicid>>
  BY DEF HandleEntry, SkipEntry, cpuVars
<1>2. /\ es \in Seq(MadtEntries) /\ Len(es) \in Nat /\ DOMAIN es = 1 .. Len(es)
      /\ boot_cpu_physical_apicid = BootApicId
  BY <1>1 DEF WalkInv
<1>3. PICK c \in 1 .. (Len(es) + 1) : AtEntry(c)
  BY <1>1 DEF WalkInv
<1>4. c \in 1 .. Len(es) /\ c \in Met /\ \A k \in DOMAIN es : IsCurrent(k) => k = c
  BY <1>1, <1>3, CurrentEntry
<1>5. /\ ~EntryPanics(es[c])
      /\ pos' = pos + es[c].length
      /\ \/ Handled(es[c]) /\ acpi_register_lapic(es[c].id) /\ count' = count + 1
         \/ ~Handled(es[c]) /\ UNCHANGED cpuVars
  <2>1. CASE HandleEntry
    BY <1>4, <2>1 DEF HandleEntry
  <2>2. CASE SkipEntry
    BY <1>4, <2>2 DEF SkipEntry
  <2> QED  BY <2>1, <2>2
<1>6. es[c] \in MadtEntries /\ es[c].length \in Nat /\ es[c].id \in ApicIds
  BY <1>2, <1>4
<1>7. es[c].length > 0
  BY <1>5, <1>6 DEF EntryPanics
<1>8. pos' = OffsetsOf(es)[c]
  <2>1. OffsetsOf(es)[c] = OffsetsOf(es)[c - 1] + es[c].length
    BY <1>2, <1>4, OffsetsFacts
  <2> QED  BY <1>3, <1>5, <2>1 DEF AtEntry
<1>9. 1 .. c \subseteq Met /\ \A j \in 1 .. c : es[j].length > 0
  <2>1. 1 .. c = (1 .. (c - 1)) \cup {c}
    BY <1>4
  <2> QED  BY <1>3, <1>4, <1>7, <2>1 DEF AtEntry
<1>10. count' = Cardinality(HandledIn(1 .. c))
  BY <1>2, <1>3, <1>4, <1>5, HandledCount DEF AtEntry, cpuVars
<1>11. Cpus(1 .. c) = Slots' \ {BAD_APICID}
  <2>1. c \in Nat /\ c >= 1
    BY <1>4
  <2>2. Cpus(1 .. (c - 1)) = Slots \ {BAD_APICID}
    BY <1>3 DEF AtEntry
  <2>3. CASE Handled(es[c])
    <3>1. ~CpuLimit(es[c].id)
      BY <1>5, <2>3 DEF EntryPanics
    <3>2. Slots' \ {BAD_APICID} = (Slots \ {BAD_APICID}) \cup {es[c].id}
      BY <1>2, <1>5, <1>6, <2>3, <3>1, RegisterAdds DEF Inv
    <3> QED  BY <2>1, <2>2, <2>3, <3>2, CpusGrow
  <2>4. CASE ~Handled(es[c])
    <3>1. Slots' = Slots
      BY <1>5, <2>4 DEF Slots, cpuVars
    <3> QED  BY <2>1, <2>2, <2>4, <3>1, CpusGrow
  <2> QED  BY <2>3, <2>4
<1>12. AtEntry(c + 1)'
  <2>1. (c + 1) - 1 = c
    BY <1>4
  <2>2. Met' = Met /\ HandledIn(1 .. c)' = HandledIn(1 .. c) /\ Cpus(1 .. c)' = Cpus(1 .. c)
    BY <1>1 DEF Met, HandledIn, Cpus
  <2> QED  BY <1>1, <1>8, <1>9, <1>10, <1>11, <2>1, <2>2 DEF AtEntry
<1>13. c + 1 \in 1 .. (Len(es) + 1)
  BY <1>2, <1>4
<1> QED  BY <1>1, <1>2, <1>12, <1>13 DEF WalkInv

\* Before the walk no entry has been handled.
CountInv == pc \in {"low", "hi", "root", "tables", "verify", "madt"} => count = 0

\* acpi_parse_madt reads the boot processor's ID at the address it has just
\* learnt, and puts the walk at the first entry.
LEMMA WalkBegins ==
  ASSUME Inv, CountInv, acpi_parse_madt
  PROVE  WalkInv'
<1> USE AcpiConstants DEF AcpiConstants
<1>1. /\ pc = "madt" /\ pc' = "walk" /\ pos' = 0 /\ count' = 0
      /\ ParseMadt(rom') /\ UNCHANGED <<cpuid_to_apicid, nr_logical_cpuids>>
  BY DEF acpi_parse_madt, CountInv
<1>2. boot_cpu_physical_apicid' = BootApicId
  BY <1>1 DEF ParseMadt, read_apic_id
<1>3. PICK n \in 0 .. MaxMadtEntries, address \in Addresses :
        \E es \in [1 .. n -> MadtEntries] :
          \E end \in (OffsetsOf(es)[n] - HeaderSize) .. (OffsetsOf(es)[n] + HeaderSize) :
            rom' = [address |-> address, entries |-> es, end |-> end]
  BY DEF acpi_parse_madt
<1>4. PICK es \in [1 .. n -> MadtEntries] :
        \E end \in (OffsetsOf(es)[n] - HeaderSize) .. (OffsetsOf(es)[n] + HeaderSize) :
          rom' = [address |-> address, entries |-> es, end |-> end]
  BY <1>3
<1>5. PICK end \in (OffsetsOf(es)[n] - HeaderSize) .. (OffsetsOf(es)[n] + HeaderSize) :
        rom' = [address |-> address, entries |-> es, end |-> end]
  BY <1>4
<1>6. es \in Seq(MadtEntries) /\ Len(es) = n /\ rom'.entries = es /\ rom'.end = end
  BY <1>4, <1>5
<1>7. OffsetsOf(es)[0] = 0 /\ OffsetsOf(es)[n] \in Nat
  BY <1>6, OffsetsFacts
<1>8. end \in Int /\ end <= OffsetsOf(es)[n] + HeaderSize
  BY <1>5, <1>7 DEF HeaderSize
<1>9. AtEntry(1)'
  <2>1. 1 - 1 = 0 /\ 1 .. 0 = {}
    OBVIOUS
  <2>2. HandledIn({})' = {} /\ Cpus({})' = {}
    BY DEF HandledIn, Cpus
  <2>3. Cardinality({}) = 0
    BY FS_EmptySet
  <2>4. Slots' \ {BAD_APICID} = {}
    BY <1>1 DEF Slots, Inv, CpuMapInv
  <2> QED  BY <1>1, <1>6, <1>7, <2>1, <2>2, <2>3, <2>4 DEF AtEntry
<1>10. 1 \in 1 .. (Len(es) + 1)
  BY <1>6
<1> QED  BY <1>1, <1>2, <1>6, <1>8, <1>9, <1>10 DEF WalkInv

\* When the walk is over, it has met every entry that is to be met.
LEMMA MetAtEnd ==
  ASSUME WalkInv, pc = "walk", ~MoreEntries,
         NEW c \in 1 .. (Len(rom.entries) + 1), AtEntry(c)
  PROVE  Met = 1 .. (c - 1)
<1> USE AcpiConstants DEF AcpiConstants
<1> DEFINE es == rom.entries
           f == OffsetsOf(es)
<1>1. /\ es \in Seq(MadtEntries) /\ Len(es) \in Nat /\ DOMAIN es = 1 .. Len(es)
      /\ rom.end \in Int
  BY DEF WalkInv
<1>2. f \in [0 .. Len(es) -> Nat]
  BY <1>1, OffsetsFacts
<1>3. pos = f[c - 1] /\ count = Cardinality(HandledIn(1 .. (c - 1)))
  BY DEF AtEntry
<1>4. ~(f[c - 1] + 1 < rom.end /\ count < MaxLocalApic)
  BY <1>3 DEF MoreEntries, HeaderSize
<1>5. ASSUME NEW k \in Met, ~(k < c) PROVE FALSE
  <2>1. /\ k \in 1 .. Len(es) /\ f[k - 1] + 1 < rom.end
        /\ Cardinality(HandledIn(1 .. (k - 1))) < MaxLocalApic
    BY <1>1 DEF Met, HeaderSize, HandledIn
  <2>2. c - 1 \in 0 .. Len(es) /\ k - 1 \in 0 .. Len(es) /\ c - 1 <= k - 1
    BY <1>1, <1>5, <2>1
  <2>3. f[c - 1] <= f[k - 1]
    BY <1>1, <2>2, OffsetsRise
  <2>4. f[c - 1] \in Nat /\ f[k - 1] \in Nat
    BY <1>2, <2>2
  <2>5. ~(count < MaxLocalApic)
    <3> HIDE DEF f
    <3> QED  BY <1>1, <1>4, <2>1, <2>3, <2>4
  <2>6. HandledIn(1 .. (c - 1)) \in SUBSET HandledIn(1 .. (k - 1))
    BY <1>1, <2>1, <2>2 DEF HandledIn
  <2>7. IsFiniteSet(HandledIn(1 .. (k - 1)))
    BY <1>1, <2>1, HandledCount
  <2>8. /\ Cardinality(HandledIn(1 .. (c - 1))) <= Cardinality(HandledIn(1 .. (k - 1)))
        /\ Cardinality(HandledIn(1 .. (c - 1))) \in Nat
        /\ Cardinality(HandledIn(1 .. (k - 1))) \in Nat
    BY <2>6, <2>7, FS_Subset, FS_CardinalityType
  <2> QED  BY <1>3, <2>1, <2>5, <2>8
<1>6. Met \subseteq 1 .. (c - 1)
  <2>1. Met \subseteq 1 .. Len(es)
    BY <1>1 DEF Met
  <2> QED  BY <1>5, <2>1
<1> QED  BY <1>6 DEF AtEntry

\* The map holds the boot processor in slot 0 if the walk has met it, and
\* has no empty slot then.
LEMMA SlotsHoldCpus ==
  ASSUME Inv, pc = "walk"
  PROVE  /\ cpuid_to_apicid[0] = boot_cpu_physical_apicid => BAD_APICID \notin Slots
         /\ cpuid_to_apicid[0] # boot_cpu_physical_apicid =>
              boot_cpu_physical_apicid \notin Slots
<1> USE AcpiConstants DEF AcpiConstants
<1>1. boot_cpu_physical_apicid \in ApicIds /\ nr_logical_cpuids \in 1 .. NR_CPUS
  BY DEF Inv, WalkOK, CpuMapInv
<1>2. \A i \in 1 .. (nr_logical_cpuids - 1) :
        cpuid_to_apicid[i] \notin {BAD_APICID, boot_cpu_physical_apicid}
  BY <1>1 DEF Inv, CpuMapInv, CpuIds
<1>3. 0 .. (nr_logical_cpuids - 1) = {0} \cup (1 .. (nr_logical_cpuids - 1))
  BY <1>1
<1> QED  BY <1>1, <1>2, <1>3 DEF Slots

\* The processors of a MADT are finitely many.
LEMMA CpusFinite ==
  ASSUME rom.entries \in Seq(MadtEntries)
  PROVE  IsFiniteSet(Cpus(Met) \cup {BootApicId})
         /\ Cardinality(Cpus(Met) \cup {BootApicId}) \in Nat
<1> DEFINE S == HandledIn(Met)
           f == [k \in S |-> rom.entries[k].id]
<1>1. IsFiniteSet(1 .. Len(rom.entries))
  BY FS_Interval
<1>2. S \in SUBSET (1 .. Len(rom.entries))
  BY DEF HandledIn, Met
<1>3. IsFiniteSet(S)
  BY <1>1, <1>2, FS_Subset
<1>4. f \in Surjection(S, Cpus(Met))
  BY DEF Surjection, Cpus, HandledIn
<1>5. IsFiniteSet(Cpus(Met))
  BY <1>3, <1>4, FS_Surjection
<1> QED  BY <1>5, FS_AddElement, FS_CardinalityType

\* "NR_CPUS/possible_cpus limit reached": an entry is refused for the limit
\* only when the MADT lists more processors than NR_CPUS.
LEMMA LimitMeansTooMany ==
  ASSUME Inv, WalkInv, pc = "walk",
         NEW c \in 1 .. Len(rom.entries), AtEntry(c), c \in Met,
         Handled(rom.entries[c]), CpuLimit(rom.entries[c].id)
  PROVE  Cardinality(Cpus(Met) \cup {BootApicId}) > NR_CPUS
<1> USE AcpiConstants DEF AcpiConstants
<1> DEFINE m == cpuid_to_apicid
           n == nr_logical_cpuids
           id == rom.entries[c].id
           T == Cpus(Met) \cup {BootApicId}
           g == [i \in 0 .. n |-> IF i = 0 THEN BootApicId ELSE IF i = n THEN id ELSE m[i]]
<1>1. /\ rom.entries \in Seq(MadtEntries) /\ boot_cpu_physical_apicid = BootApicId
      /\ n = NR_CPUS /\ n \in Nat /\ n >= 1
      /\ id # BootApicId /\ ~Known(id)
  BY DEF WalkInv, Inv, CpuMapInv, CpuLimit
<1>2. \A i \in 1 .. (n - 1) : m[i] \notin {BAD_APICID, BootApicId} /\ m[i] # id
  <2>1. \A i \in 1 .. (n - 1) : m[i] \notin {BAD_APICID, BootApicId}
    BY <1>1 DEF Inv, CpuMapInv, CpuIds
  <2>2. \A i \in 1 .. (n - 1) : i \in 0 .. (n - 1) /\ m[i] # id
    BY <1>1 DEF Known
  <2> QED  BY <2>1, <2>2
<1>3. \A i, j \in 1 .. (n - 1) : m[i] = m[j] => i = j
  BY <1>1 DEF Inv, CpuMapInv
<1>4. \A i \in 1 .. (n - 1) : m[i] \in T
  <2> SUFFICES ASSUME NEW i \in 1 .. (n - 1) PROVE m[i] \in Cpus(Met)
    OBVIOUS
  <2>1. m[i] \in Slots \ {BAD_APICID}
    BY <1>1, <1>2 DEF Slots
  <2>2. m[i] \in Cpus(1 .. (c - 1)) /\ 1 .. (c - 1) \subseteq Met
    BY <2>1 DEF AtEntry
  <2> QED  BY <2>2 DEF Cpus
<1>5. id \in T
  BY DEF Cpus
<1>6. g \in [0 .. n -> T]
  BY <1>1, <1>4, <1>5
<1>7. \A i, j \in 0 .. n : g[i] = g[j] => i = j
  <2> SUFFICES ASSUME NEW i \in 0 .. n, NEW j \in 0 .. n, g[i] = g[j], i < j PROVE FALSE
    <3>1. \A i, j \in 0 .. n : i = j \/ i < j \/ j < i
      BY <1>1
    <3> HIDE DEF g
    <3> QED  BY <3>1
  <2>1. CASE i = 0 /\ j = n
    BY <1>1, <2>1
  <2>2. CASE i = 0 /\ j # n
    BY <1>1, <1>2, <2>2
  <2>3. CASE i # 0 /\ j = n
    BY <1>1, <1>2, <2>3
  <2>4. CASE i # 0 /\ j # n
    BY <1>1, <1>3, <2>4
  <2> QED  BY <2>1, <2>2, <2>3, <2>4
<1>8. g \in Injection(0 .. n, T)
  BY <1>6, <1>7 DEF Injection, IsInjective
<1>9. IsFiniteSet(T) /\ Cardinality(T) \in Nat
  BY <1>1, CpusFinite
<1>10. Cardinality(0 .. n) <= Cardinality(T)
  BY <1>8, <1>9, FS_Injection
<1>11. Cardinality(0 .. n) = n + 1
  <2>1. PICK k \in Nat : k = n
    BY <1>1
  <2>2. 0 \in Int /\ k \in Int
    OBVIOUS
  <2>4. Cardinality(0 .. k) = IF 0 > k THEN 0 ELSE k - 0 + 1
    BY <2>2, FS_Interval, Zenon
  <2>3. Cardinality(0 .. k) = k + 1
    BY <2>4
  <2> QED  BY <2>1, <2>3
<1> HIDE DEF T
<1>12. Cardinality(T) > NR_CPUS
  BY <1>1, <1>9, <1>10, <1>11
<1> QED  BY <1>12 DEF T

\* The walk ends with the exact map or with a reason.
LEMMA WalkIsExact ==
  ASSUME Inv, WalkInv, WalkPanics \/ BootCpuMissing \/ WalkEnds
  PROVE  CpuMapIsExact'
<1> USE AcpiConstants DEF AcpiConstants
<1> DEFINE es == rom.entries
<1>1. pc = "walk" /\ UNCHANGED <<rom, cpuid_to_apicid, nr_logical_cpuids>>
  BY DEF WalkPanics, BootCpuMissing, WalkEnds, cpuVars
<1>2. /\ es \in Seq(MadtEntries) /\ DOMAIN es = 1 .. Len(es)
      /\ boot_cpu_physical_apicid = BootApicId /\ BootApicId # BAD_APICID
  BY <1>1 DEF WalkInv
<1>3. PICK c \in 1 .. (Len(es) + 1) : AtEntry(c)
  BY <1>1 DEF WalkInv
<1>4. Met' = Met /\ Cpus(Met)' = Cpus(Met) /\ Slots' = Slots
  BY <1>1 DEF Met, Cpus, Slots
<1>5. CASE WalkPanics
  <2>1. MoreEntries /\ pc' = "panic_cpus"
    BY <1>5 DEF WalkPanics
  <2>2. c \in 1 .. Len(es) /\ c \in Met /\ EntryPanics(es[c])
    BY <1>1, <1>2, <1>3, <1>5, <2>1, CurrentEntry DEF WalkPanics
  <2>3. pos = OffsetsOf(es)[c - 1]
    BY <1>3 DEF AtEntry
  <2>4. CASE es[c].length = 0
    BY <1>1, <1>4, <2>1, <2>2, <2>4 DEF CpuMapIsExact
  <2>5. CASE Handled(es[c]) /\ BAD_MADT_ENTRY(es[c])
    BY <1>1, <1>4, <2>1, <2>2, <2>3, <2>5 DEF CpuMapIsExact, BAD_MADT_ENTRY
  <2>6. CASE Handled(es[c]) /\ ~es[c].enabled
    BY <1>1, <1>4, <2>1, <2>2, <2>6 DEF CpuMapIsExact
  <2>7. CASE Handled(es[c]) /\ CpuLimit(es[c].id)
    <3>1. Cardinality(Cpus(Met) \cup {BootApicId}) > NR_CPUS
      BY <1>1, <1>3, <2>2, <2>7, LimitMeansTooMany
    <3> QED  BY <1>4, <2>1, <3>1 DEF CpuMapIsExact
  <2> QED  BY <2>2, <2>4, <2>5, <2>6, <2>7 DEF EntryPanics
<1>6. CASE BootCpuMissing
  <2>1. /\ ~MoreEntries /\ pc' = "panic_cpus"
        /\ cpuid_to_apicid[0] # boot_cpu_physical_apicid
    BY <1>6 DEF BootCpuMissing
  <2>2. Met = 1 .. (c - 1)
    BY <1>1, <1>3, <2>1, MetAtEnd
  <2>3. BootApicId \notin Slots
    BY <1>1, <1>2, <2>1, SlotsHoldCpus
  <2>4. BootApicId \notin Cpus(Met)
    BY <1>3, <2>2, <2>3 DEF AtEntry
  <2> QED  BY <1>4, <2>1, <2>4 DEF CpuMapIsExact
<1>7. CASE WalkEnds
  <2>1. /\ ~MoreEntries /\ pc' = "lapic"
        /\ cpuid_to_apicid[0] = boot_cpu_physical_apicid
    BY <1>7 DEF WalkEnds
  <2>2. Met = 1 .. (c - 1)
    BY <1>1, <1>3, <2>1, MetAtEnd
  <2>3. BAD_APICID \notin Slots
    BY <1>1, <2>1, SlotsHoldCpus
  <2>4. Cpus(Met) = Slots
    BY <1>3, <2>2, <2>3 DEF AtEntry
  <2>5. cpuid_to_apicid'[0] = BootApicId
    BY <1>1, <1>2, <2>1
  <2> QED  BY <1>4, <2>1, <2>4, <2>5 DEF CpuMapIsExact, Slots
<1> QED  BY <1>5, <1>6, <1>7

\* The map stays exact, and the walk's invariant is inductive.
LEMMA ExactStep ==
  ASSUME Inv, CountInv, ErrInv, WalkInv, CpuMapIsExact, [Next]_vars
  PROVE  CountInv' /\ WalkInv' /\ CpuMapIsExact'
<1>1. CASE FindTables
  <2>1. /\ pc \in {"low", "hi", "root", "tables"}
        /\ pc' \notin {"walk", "lapic", "panic_cpus"} /\ count' = count
    BY <1>1 DEF FindTables, ScanFinds, ScanNext, ScanEnds, acpi_tb_parse_root_table,
                NextTable, LoadTable, cpuVars
  <2> QED  BY <2>1 DEF CountInv, WalkInv, CpuMapIsExact
<1>2. CASE verify_apic \/ MadtMissing
  <2>1. /\ pc \in {"verify", "madt"}
        /\ pc' \notin {"walk", "lapic", "panic_cpus"} /\ count' = count
    BY <1>2 DEF verify_apic, MadtMissing, cpuVars
  <2> QED  BY <2>1 DEF CountInv, WalkInv, CpuMapIsExact
<1>3. CASE acpi_parse_madt
  <2>1. pc' = "walk"
    BY <1>3 DEF acpi_parse_madt
  <2> QED  BY <1>3, <2>1, WalkBegins DEF CountInv, CpuMapIsExact
<1>4. CASE HandleEntry \/ SkipEntry
  <2>1. pc' = "walk"
    BY <1>4 DEF HandleEntry, SkipEntry
  <2> QED  BY <1>4, <2>1, WalkAdvances DEF CountInv, CpuMapIsExact
<1>5. CASE WalkPanics \/ BootCpuMissing \/ WalkEnds
  <2>1. pc' \in {"panic_cpus", "lapic"}
    BY <1>5 DEF WalkPanics, BootCpuMissing, WalkEnds
  <2> QED  BY <1>5, <2>1, WalkIsExact DEF CountInv, WalkInv
<1>6. CASE LapicStep
  <2>1. pc' \in {"done", "lapic"} /\ pos' = pos + 1 /\ pos \in Nat /\ pos >= 1
    BY <1>6, ProgramShape DEF LapicStep, ErrInv
  <2>2. pos' # 1
    BY <2>1
  <2> QED  BY <2>1, <2>2 DEF CountInv, WalkInv, CpuMapIsExact
<1>7. CASE UNCHANGED vars
  <2>1. UNCHANGED <<pc, rom, pos, count, boot_cpu_physical_apicid, cpuid_to_apicid,
                    nr_logical_cpuids>>
    BY <1>7 DEF vars, cpuVars
  <2>2. Met' = Met /\ Slots' = Slots
    BY <2>1 DEF Met, Slots
  <2>3. \A c : AtEntry(c) => AtEntry(c)'
    BY <2>1, <2>2, Zenon DEF AtEntry, HandledIn, Cpus
  <2>4. WalkInv'
    BY <2>1, <2>3, Zenon DEF WalkInv
  <2>5. CpuMapIsExact'
    BY <2>1, <2>2, Zenon DEF CpuMapIsExact, Cpus
  <2> QED  BY <2>1, <2>4, <2>5 DEF CountInv
<1> QED  BY <1>1, <1>2, <1>3, <1>4, <1>5, <1>6, <1>7 DEF Next, FindCpus

\* apic_init registers exactly the processors of the MADT or refuses it for
\* a reason, and leaves the local APIC ready, for every MADT, every NR_CPUS
\* and whatever the firmware left in the registers.
THEOREM ApicInitIsAlwaysExact == Spec => []ApicInitIsExact
<1> DEFINE I == Inv /\ CountInv /\ ErrInv /\ WalkInv /\ CpuMapIsExact /\ ReadyInv
<1>1. Init => I
  <2> SUFFICES ASSUME Init PROVE I
    OBVIOUS
  <2>1. ErrInv
    BY DEF Init, ErrInv, Masked, LvtRegs, Lvt
  <2>2. CountInv /\ WalkInv /\ CpuMapIsExact /\ ReadyInv
    BY DEF Init, CountInv, WalkInv, CpuMapIsExact, ReadyInv, ApicReady
  <2> QED  BY <2>1, <2>2, InvInit
<1>2. I /\ [Next]_vars => I'
  BY InvStep, ErrInvStep, ReadyStep, ExactStep
<1>3. I => ApicInitIsExact
  BY DEF Inv, ReadyInv, ApicInitIsExact
<1> QED  BY <1>1, <1>2, <1>3, PTL DEF Spec
=============================================================================
