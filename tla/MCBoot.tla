------------------------------- MODULE MCBoot -------------------------------
(***************************************************************************)
(* Boot for TLC.  The PIT's high byte has 4 values of 16 cycles; a table   *)
(* has 8 entries; memory has 28 cells with the firmware at 1 and the       *)
(* kernel's image at 12, so that segments go onto both and above them.      *)
(***************************************************************************)
EXTENDS Boot

MCSignatures ==
  {<<1, m, f, 0, xm, xf, 0, 0>> : m \in {5, 14}, f \in {5, 6, 7, 15}, xm \in {0, 5}, xf \in {0, 1, 15}}
MCNames == {<<>>, <<" ">>, <<" ", " ">>, <<"a">>, <<" ", "a">>, <<"a", " ">>, <<" ", " ", "a", " ", "b", " ">>}
MCCrystalLeaves ==
  {[den |-> 0, num |-> 0, hz |-> 0], [den |-> 2, num |-> 0, hz |-> 0],
   [den |-> 2, num |-> 168, hz |-> 0], [den |-> 2, num |-> 168, hz |-> 24000000],
   [den |-> 2, num |-> 250, hz |-> 24000000]}  \* the product wraps to 0

MCForced == {"XSAVES", "HLT_EXITING", "NMI_EXITING"}

\* One defect at a time, and every EFER and CR0.
MCRegions ==
  [launched : {FALSE}, efer : SUBSET {"LME", "LMA", "RESERVED"}, pg : BOOLEAN, bad : {{}}]
  \cup [launched : {FALSE}, efer : {{}}, pg : {FALSE}, bad : {{f} : f \in UnwrittenFields}]
  \cup [launched : {TRUE}, efer : {{}}, pg : {FALSE}, bad : {{}}]

Phdr(type, offset, filesz, memsz, vaddr, paddr) ==
  [type |-> type, offset |-> offset, filesz |-> filesz, memsz |-> memsz, vaddr |-> vaddr, paddr |-> paddr]
MCPhdrs ==
  {Phdr("PT_NOTE", 1, 1, 1, 20, 20)} \cup
  {Phdr("PT_LOAD", 3, n, n + z, v, a) : n \in {0, 2}, z \in {0, 1}, v \in {20, 40}, a \in {20, 23, 13, 16, 8}}
MCElf == [start : {12}, len : {6}, header : {0, 2, 5}, aout : {FALSE}, class : {"ELFCLASS32", "ELFCLASS64", "other"},
          phoff : {1}, phdrs : UNION {[1 .. n -> MCPhdrs] : n \in 1 .. 2}, entry : {20, 22, 41, 72, 105}]
Aout(h, ha, a, n, z) ==
  [start |-> 12, len |-> 6, header |-> h, aout |-> TRUE, header_addr |-> ha, load_addr |-> a,
   load_end_addr |-> a + n, bss_end_addr |-> a + n + z, entry |-> a]
MCAout == {k \in {Aout(h, a + d, a, n, z) : h \in {0, 2, 5}, d \in {0, 2}, a \in {20, 13, 8, 4}, n \in {2, 4}, z \in {0, 1}} :
             WellFormed(k)}
MCPlain == Aout(0, 20, 20, 2, 2)
MCLayout == [f \in ParamFields |-> CASE f = "initrd" -> {4} [] f = "cmdline" -> {5} [] f = "e820" -> {6, 7}]
MCKernels ==
  MCAout \cup {k \in MCElf : (k.class = "ELFCLASS64" /\ k.header = 0) \/ (k.entry = 20 /\ Len(k.phdrs) = 1)}
MCLoaders ==
  [count : {1}, kernel : MCKernels, cmdline : {<<>>}, initrd : {NONE}, e820 : {<<"r1">>}]
  \cup [count : 0 .. 2, kernel : {MCPlain}, cmdline : {<<>>, <<"a">>, <<"a", "b">>},
        initrd : {NONE, [start |-> 26, end |-> 27]},
        e820 : {<<"r1">>, <<"r1", "r2">>, <<"r1", "r2", "r3">>}]
=============================================================================
