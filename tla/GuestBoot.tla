----------------------------- MODULE GuestBoot -----------------------------
(***************************************************************************)
(* How the guest's kernel comes to run: vmm/multiboot.c takes it from the  *)
(* loader, kvm_init puts the firmware and its parameters into memory, and  *)
(* the firmware loads the kernel and passes on what it was told.  Memory   *)
(* is a row of cells, each of which says what was last put there.          *)
(***************************************************************************)
EXTENDS Integers, Sequences, SequencesExt

CONSTANTS
  MemSize,         \* bound: cells of memory
  FIRMWARE_START,
  ParamsSize,      \* bound: sizeof(struct guest_params)
  ParamsLayout,    \* bound: the cells of guest_params a field of it takes
  FirmwareSize,    \* bound: cells of the firmware, guest_params, .bss and stack included
  ByteValues,      \* bound: values of a byte (256)
  FirmwareJumps,   \* bound: displacement of the jump the firmware was linked with
  CMDLINE_SIZE, E820_MAX_ENTRIES_GUEST,
  SearchCells,     \* bound: where the multiboot header may begin
  EntryWrap,       \* bound: 2^32
  Loaders          \* bound: what the loader may have put into memory and told the monitor

\* Where in the file of an a.out what goes to load_addr begins: header_addr is where its header
\* is to be (multiboot.h:84-87).
FileOffset(k) == k.header - (k.header_addr - k.load_addr)

\* A kernel as multiboot and ELF define it, in memory that has room for it: its parts lie in
\* the file, and the file has no more of a segment than memory has.  The loader checks none of it.
WellFormed(k) ==
  /\ {k.start, k.len, k.entry} \subseteq Nat /\ k.aout \in BOOLEAN
  /\ k.start >= FIRMWARE_START + FirmwareSize /\ k.start + k.len <= MemSize
  /\ k.aout => /\ {k.header, k.header_addr, k.load_addr} \subseteq Nat /\ k.header < k.len
               /\ FileOffset(k) \in Nat
               /\ k.load_end_addr \in k.load_addr .. k.load_addr + (k.len - FileOffset(k))
               /\ k.bss_end_addr \in k.load_end_addr .. MemSize
  /\ ~k.aout => /\ k.phdrs \in Seq(Range(k.phdrs))
                /\ k.phoff \in Nat /\ k.phoff + Len(k.phdrs) <= k.len
                /\ \A p \in Range(k.phdrs) :
                     p.type = "PT_LOAD" =>
                       /\ {p.offset, p.filesz, p.memsz, p.vaddr, p.paddr} \subseteq Nat
                       /\ p.filesz <= p.memsz
                       /\ p.offset + p.filesz <= k.len
                       /\ p.paddr + p.memsz <= MemSize

ParamFields == {"cmdline", "initrd", "e820"}

\* The displacement over guest_params fits the two bytes of the jump; memory ends below 4 GB.
ASSUME GuestBootConstants ==
  /\ {MemSize, ParamsSize, FirmwareSize, ByteValues, CMDLINE_SIZE, SearchCells, EntryWrap} \subseteq Nat \ {0}
  /\ FIRMWARE_START \in Nat /\ FirmwareJumps \subseteq Nat
  /\ ParamsSize < FirmwareSize /\ FIRMWARE_START + FirmwareSize <= MemSize /\ MemSize <= EntryWrap
  /\ ParamsLayout \in [ParamFields -> SUBSET (0 .. ParamsSize - 1)]
  /\ ParamsSize >= 3 /\ ParamsSize - 3 < ByteValues * ByteValues
  /\ \A m \in Loaders : WellFormed(m.kernel)

VARIABLES
  mods,           \* the loader's modules: count, kernel, cmdline, initrd; its memory map as e820 has it
  firmware,       \* the displacement in the binary
  guest_params,
  mem,
  booting,        \* place in the boot
  phdr,           \* load_elf: the program header that is next, and the entry point so far
  multiboot_info

bootVars == <<mods, firmware, guest_params, mem, booting, phdr, multiboot_info>>

NONE == [start |-> 0, end |-> 0]

GuestBootInit ==
  /\ mods \in Loaders
  /\ firmware \in FirmwareJumps
  /\ guest_params = [kernel |-> NONE, cmdline |-> <<>>, initrd |-> NONE, e820 |-> <<>>, jump |-> 0]
  /\ mem = [a \in 0 .. MemSize - 1 |->
              IF a \in mods.kernel.start .. mods.kernel.start + mods.kernel.len - 1
              THEN <<"image", a - mods.kernel.start>> ELSE <<"free", 0>>]
  /\ booting = "multiboot_init"
  /\ phdr = [i |-> 0, entry |-> 0]
  /\ multiboot_info = [cmdline |-> <<>>, mods |-> <<>>, mmap |-> <<>>]

\* Copy n cells from src to dest, the lowest first; fill n cells.
Copied(m, dest, src, n) ==
  LET after[k \in 0 .. n] ==
        IF k = 0 THEN m ELSE [after[k - 1] EXCEPT ![dest + k - 1] = after[k - 1][src + k - 1]]
  IN  after[n]
Filled(m, dest, n) == [a \in DOMAIN m |-> IF a \in dest .. dest + n - 1 THEN <<"zero", 0>> ELSE m[a]]

\* Its e820 calls are in E820.
multiboot_init ==
  /\ booting = "multiboot_init"
  /\ IF mods.count = 0 \/ Len(mods.cmdline) >= CMDLINE_SIZE
     THEN booting' = "panic" /\ UNCHANGED guest_params
     ELSE /\ guest_params' =
               [guest_params EXCEPT
                  !.kernel = [start |-> mods.kernel.start, end |-> mods.kernel.start + mods.kernel.len],
                  !.cmdline = mods.cmdline,
                  !.initrd = IF mods.count > 1 THEN mods.initrd ELSE NONE]
          /\ booting' = "kvm_init"
  /\ UNCHANGED <<mods, firmware, mem, phdr, multiboot_info>>

\* magic[1] and magic[2]: sizeof(guest_params) - 3 in two bytes.
JumpBytes(size) == <<(size - 3) % ByteValues, ((size - 3) \div ByteValues) % ByteValues>>

\* memcmp of the header built here with the one the firmware was linked with.
MagicDiffers(jump) == jump # <<firmware % ByteValues, firmware \div ByteValues>>

\* The end of kvm_init; the hardware setup it begins with is in VmxSetup.
kvm_init ==
  /\ booting = "kvm_init"
  /\ LET jump == JumpBytes(ParamsSize)
         copied == [a \in DOMAIN mem |->
                      IF a \in FIRMWARE_START .. FIRMWARE_START + FirmwareSize - 1
                      THEN <<"firmware", a - FIRMWARE_START>> ELSE mem[a]]
     IN  IF Len(mods.e820) > E820_MAX_ENTRIES_GUEST \/ MagicDiffers(jump)
         THEN booting' = "panic" /\ mem' = copied /\ UNCHANGED guest_params
         ELSE /\ guest_params' = [guest_params EXCEPT !.e820 = mods.e820, !.jump = jump[1] + ByteValues * jump[2]]
              /\ mem' = [a \in DOMAIN mem |->
                           IF a \in FIRMWARE_START .. FIRMWARE_START + ParamsSize - 1
                           THEN <<"params", a - FIRMWARE_START>> ELSE copied[a]]
              /\ booting' = "jump"
  /\ UNCHANGED <<mods, firmware, phdr, multiboot_info>>

\* The first instruction of the firmware is the jump in guest_params.  The code begins where
\* the binary's own jump leads to; anywhere else the processor meets something that is not it.
jump_start16 ==
  /\ booting = "jump"
  /\ booting' = IF guest_params.jump = firmware /\ mem[FIRMWARE_START + 3 + firmware][1] = "firmware"
                THEN "load_multiboot" ELSE "lost"
  /\ UNCHANGED <<mods, firmware, guest_params, mem, phdr, multiboot_info>>

-----------------------------------------------------------------------------
Image == mods.kernel
Cell(k) == guest_params.kernel.start + k
Intact(k) == mem[Cell(k)] = <<"image", k>>

\* The first word that is the magic; -1 if there is none where it is looked for.
find_multiboot_header == IF Image.header \in 0 .. SearchCells - 1 THEN Image.header ELSE -1

\* load_linux returns at once, so a kernel load_multiboot returns from is not started.
NotMultiboot ==
  /\ booting = "load_multiboot"
  /\ \/ find_multiboot_header = -1
     \/ ~Image.aout /\ Image.class \notin {"ELFCLASS32", "ELFCLASS64"}
  /\ booting' = "die"
  /\ UNCHANGED <<mods, firmware, guest_params, mem, phdr, multiboot_info>>

\* What the firmware runs on, behind its parameters.
FirmwareCode == FIRMWARE_START + ParamsSize .. FIRMWARE_START + FirmwareSize - 1

\* After a segment is loaded: the header it was loaded from, which is read on, and the firmware.
Survives(m, k) == m[Cell(k)] = mem[Cell(k)] /\ \A a \in FirmwareCode : m[a] = mem[a]

\* The file is taken from its beginning, whatever header_addr says.
LoadAout ==
  /\ booting = "load_multiboot" /\ find_multiboot_header # -1 /\ Image.aout
  /\ mem' = Filled(Copied(mem, Image.load_addr, Cell(0), Image.load_end_addr - Image.load_addr),
                   Image.load_end_addr, Image.bss_end_addr - Image.load_end_addr)
  /\ IF ~Survives(mem', Image.header) THEN booting' = "garbage" /\ UNCHANGED phdr
     ELSE phdr' = [phdr EXCEPT !.entry = Image.entry] /\ booting' = "info"
  /\ UNCHANGED <<mods, firmware, guest_params, multiboot_info>>

\* load_elf32 or load_elf64: the entry point is cut to 32 bits.
load_elf ==
  /\ booting = "load_multiboot" /\ find_multiboot_header # -1
  /\ ~Image.aout /\ Image.class \in {"ELFCLASS32", "ELFCLASS64"}
  /\ phdr' = [i |-> 1, entry |-> Image.entry % EntryWrap]
  /\ booting' = "segment"
  /\ UNCHANGED <<mods, firmware, guest_params, mem, multiboot_info>>

\* Mutant of LoadSegment: only what the file has is written.
LoadSegment_NoZeros(m, p) == Copied(m, p.paddr, Cell(p.offset), p.filesz)

LoadSegment(m, p) == Filled(Copied(m, p.paddr, Cell(p.offset), p.filesz), p.paddr + p.filesz, p.memsz - p.filesz)

InSegment(entry, p) == entry >= p.vaddr /\ entry - p.vaddr < p.memsz

\* entry = p_paddr + (entry - p_vaddr), if it is in the segment; p_paddr is cut with the sum.
Translated(entry, p) == IF InSegment(entry, p) THEN (p.paddr + (entry - p.vaddr)) % EntryWrap ELSE entry

\* A turn of load_elf's loop.  The header is in the image, where a segment may overwrite it.
load_segment ==
  /\ booting = "segment" /\ phdr.i <= Len(Image.phdrs)
  /\ LET k == Image.phoff + phdr.i - 1
         p == Image.phdrs[phdr.i]
     IN  IF ~Intact(k) THEN booting' = "garbage" /\ UNCHANGED <<mem, phdr>>
         ELSE IF p.type # "PT_LOAD"
         THEN phdr' = [phdr EXCEPT !.i = @ + 1] /\ UNCHANGED <<booting, mem>>
         ELSE /\ mem' = LoadSegment(mem, p)
              /\ IF ~Survives(mem', k) THEN booting' = "garbage" /\ UNCHANGED phdr
                 ELSE phdr' = [i |-> phdr.i + 1, entry |-> Translated(phdr.entry, p)] /\ UNCHANGED booting
  /\ UNCHANGED <<mods, firmware, guest_params, multiboot_info>>

segments_done ==
  /\ booting = "segment" /\ phdr.i > Len(Image.phdrs)
  /\ booting' = "info"
  /\ UNCHANGED <<mods, firmware, guest_params, mem, phdr, multiboot_info>>

InfoMods(initrd) == IF initrd.start < initrd.end THEN <<initrd>> ELSE <<>>

\* guest_params is read where the segments may have gone.
ParamHolds(f) == \A a \in ParamsLayout[f] : mem[FIRMWARE_START + a] = <<"params", a>>
Garbage == <<"garbage">>

\* The rest of load_multiboot, and start_multiboot (BootMode).
StartKernel ==
  /\ booting = "info"
  /\ multiboot_info' =
       [cmdline |-> IF ParamHolds("cmdline") THEN guest_params.cmdline ELSE Garbage,
        mods |-> IF ParamHolds("initrd") THEN InfoMods(guest_params.initrd) ELSE Garbage,
        mmap |-> IF ParamHolds("e820") THEN guest_params.e820 ELSE Garbage]
  /\ booting' = "kernel"
  /\ UNCHANGED <<mods, firmware, guest_params, mem, phdr>>

GuestBootNext ==
  \/ multiboot_init \/ kvm_init \/ jump_start16 \/ NotMultiboot \/ LoadAout \/ load_elf \/ load_segment
  \/ segments_done \/ StartKernel

-----------------------------------------------------------------------------
Span(start, n) == start .. start + n - 1

\* The segments of the kernel; an a.out has one.
Segments ==
  IF Image.aout
  THEN <<[type |-> "PT_LOAD", offset |-> FileOffset(Image), filesz |-> Image.load_end_addr - Image.load_addr,
          memsz |-> Image.bss_end_addr - Image.load_addr, vaddr |-> Image.load_addr, paddr |-> Image.load_addr]>>
  ELSE Image.phdrs
Loads == {i \in DOMAIN Segments : Segments[i].type = "PT_LOAD"}
Target(i) == Span(Segments[i].paddr, Segments[i].memsz)
Source(i) == Span(Image.start + Segments[i].offset, Segments[i].filesz)
Headers(i) == IF Image.aout THEN {Image.start + Image.header}
              ELSE {Image.start + Image.phoff + j - 1 : j \in i .. Len(Image.phdrs)}

\* What a loader that reads the image in place cannot do without: a segment spares the firmware's
\* code, the headers and the segments still to be read, and its own cells that are copied later.
Spares(i) ==
  /\ Target(i) \cap FirmwareCode = {} /\ Target(i) \cap Headers(i) = {}
  /\ \A j \in Loads : j > i => Target(i) \cap Source(j) = {}
  /\ Segments[i].paddr \notin Source(i) \ {Image.start + Segments[i].offset}

Loadable ==
  /\ Image.aout => FileOffset(Image) = 0
  /\ \A i \in Loads : Spares(i)

\* The first segment the entry point is in, and where that puts it.
HasEntry(i) == /\ InSegment(Image.entry, Segments[i])
               /\ \A j \in Loads : j < i => ~InSegment(Image.entry, Segments[j])
Physical(i) == Segments[i].paddr + (Image.entry - Segments[i].vaddr)

\* The entry point has 32 bits, and no later segment takes its physical address for a virtual one.
EntryIsClear ==
  /\ Image.entry < EntryWrap
  /\ \A i, j \in Loads : HasEntry(i) /\ i < j => ~InSegment(Physical(i), Segments[j])

\* The kernel starts with its segments where its headers say, the later one
\* where two overlap, zeros behind what the file has, and at the physical
\* address of its entry point, even if the entry point is a virtual one
\* (elfload.h:8-29): of every kernel that can be loaded from where it lies,
\* even over itself.
KernelIsLoaded ==
  (booting \in {"kernel", "garbage"} /\ Loadable) =>
    /\ booting = "kernel"
    /\ \A i \in Loads : \A k \in 0 .. Segments[i].memsz - 1 :
         LET p == Segments[i]
         IN  (\A j \in Loads : j > i => p.paddr + k \notin Target(j)) =>
               mem[p.paddr + k] = IF k < p.filesz THEN <<"image", p.offset + k>> ELSE <<"zero", 0>>
    /\ EntryIsClear =>
         /\ \A i \in Loads : HasEntry(i) => phdr.entry = Physical(i)
         /\ (\A i \in Loads : ~InSegment(Image.entry, Segments[i])) => phdr.entry = Image.entry

\* The firmware that runs is the one that was linked for these parameters: its
\* first jump leads to its code and not into the parameters (kvm.c:73-83).
FirmwareFindsItsCode == booting # "lost"

\* What the guest's kernel is told is what the loader told the monitor: the
\* whole command line, the initrd only if there is one, the memory map as
\* e820 left it (vmm/multiboot.c:16-27, firmware/multiboot.c:66-92), each
\* unless a segment of the kernel was loaded over it.
GuestIsToldTheTruth ==
  booting = "kernel" =>
    LET spared(f) == \A i \in Loads, a \in ParamsLayout[f] : FIRMWARE_START + a \notin Target(i)
    IN  /\ spared("cmdline") => multiboot_info.cmdline = mods.cmdline
        /\ spared("e820") => multiboot_info.mmap = mods.e820
        /\ spared("initrd") =>
             multiboot_info.mods = IF mods.count > 1 /\ mods.initrd.start < mods.initrd.end THEN <<mods.initrd>> ELSE <<>>

\* The guest's kernel is started as its loader promised: by the firmware that
\* belongs to the monitor, whole, and with what the monitor was told.
KernelIsStarted == FirmwareFindsItsCode /\ KernelIsLoaded /\ GuestIsToldTheTruth
=============================================================================
