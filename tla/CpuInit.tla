------------------------------ MODULE CpuInit ------------------------------
(***************************************************************************)
(* kernel/cpu.c: what cpu_init keeps of CPUID.  Numbers keep their digits  *)
(* as a list of hexadecimal ones where the code takes them apart; leaf     *)
(* 0x80000000 + k is <<8, k>>, leaf k is <<0, k>>.                         *)
(***************************************************************************)
EXTENDS Integers, Sequences, SequencesExt

CONSTANTS
  CpuLevels,      \* bound: highest basic leaves
  ExtLevels,      \* bound: highest extended leaves, above 0x80000000
  Signatures,     \* bound: leaf 1 EAX, as hexadecimal digits, the lowest first
  ModelNames      \* bound: brand strings, as sequences of characters without NUL

ASSUME CpuConstants ==
  /\ CpuLevels \subseteq Nat /\ ExtLevels \subseteq Nat
  /\ Signatures \subseteq [1 .. 8 -> 0 .. 15]
  /\ ModelNames \subseteq Seq(STRING)

VARIABLES
  cpuid,          \* the processor: level, vendor, ext, sig, name, cqm
  cpu_info,       \* struct cpuinfo_x86
  detecting       \* the call of cpu_init that is next

cpuVars == <<cpuid, cpu_info, detecting>>

X86_VENDOR_INTEL == "Intel"
X86_VENDOR_AMD == "AMD"
X86_VENDOR_UNKNOWN == "unknown"

\* CPUID_x_y of x86_capability -> the leaf it is read from.
CapabilityLeaf ==
  [CPUID_1_ECX |-> <<0, 1>>, CPUID_1_EDX |-> <<0, 1>>, CPUID_6_EAX |-> <<0, 6>>,
   CPUID_7_0_EBX |-> <<0, 7>>, CPUID_7_ECX |-> <<0, 7>>, CPUID_D_1_EAX |-> <<0, 13>>,
   CPUID_F_0_EDX |-> <<0, 15>>, CPUID_F_1_EDX |-> <<0, 15>>,
   CPUID_8000_0001_ECX |-> <<8, 1>>, CPUID_8000_0001_EDX |-> <<8, 1>>,
   CPUID_8000_0007_EBX |-> <<8, 7>>, CPUID_8000_0008_EBX |-> <<8, 8>>,
   CPUID_8000_000A_EDX |-> <<8, 10>>]

CpuDetectInit ==
  /\ \E level \in CpuLevels, vendor \in {"GenuineIntel", "AuthenticAMD", "other"}, ext \in ExtLevels,
        sig \in Signatures, name \in ModelNames, cqm \in BOOLEAN :
       cpuid = [level |-> level, vendor |-> vendor, ext |-> ext, sig |-> sig, name |-> name, cqm |-> cqm]
  /\ cpu_info = [x86 |-> 0, x86_vendor |-> "", x86_model |-> 0, x86_mask |-> 0,
                 extended_cpuid_level |-> 0, cpuid_level |-> 0, x86_capability |-> {},
                 x86_model_id |-> <<>>]
  /\ detecting = "cpu_detect"

x86_family(sig) == sig[3] + IF sig[3] = 15 THEN sig[6] + 16 * sig[7] ELSE 0

\* Mutant of x86_model: the extended model counts from family 15 on only.
x86_model_F(sig) == sig[2] + IF x86_family(sig) >= 15 THEN 16 * sig[5] ELSE 0

x86_model(sig) == sig[2] + IF x86_family(sig) >= 6 THEN 16 * sig[5] ELSE 0

x86_stepping(sig) == sig[1]

\* The fields x86, x86_model and x86_mask have eight bits.
cpu_detect ==
  /\ detecting = "cpu_detect"
  /\ cpu_info' = IF cpuid.level >= 1
                 THEN [cpu_info EXCEPT !.cpuid_level = cpuid.level,
                         !.x86 = x86_family(cpuid.sig) % 256,
                         !.x86_model = x86_model(cpuid.sig) % 256,
                         !.x86_mask = x86_stepping(cpuid.sig)]
                 ELSE [cpu_info EXCEPT !.cpuid_level = cpuid.level, !.x86 = 4]
  /\ detecting' = "get_cpu_vendor"
  /\ UNCHANGED cpuid

cpu_devs == [GenuineIntel |-> X86_VENDOR_INTEL, AuthenticAMD |-> X86_VENDOR_AMD]

get_cpu_vendor ==
  /\ detecting = "get_cpu_vendor"
  /\ cpu_info' = [cpu_info EXCEPT !.x86_vendor =
                    IF cpuid.vendor \in DOMAIN cpu_devs THEN cpu_devs[cpuid.vendor]
                    ELSE X86_VENDOR_UNKNOWN]
  /\ detecting' = "get_cpu_cap"
  /\ UNCHANGED cpuid

get_cpu_cap ==
  /\ detecting = "get_cpu_cap"
  /\ LET Level(leaf) == IF leaf[1] = 8 THEN cpuid.ext ELSE cpu_info.cpuid_level
     IN  cpu_info' = [cpu_info EXCEPT
           !.extended_cpuid_level = cpuid.ext,
           !.x86_capability = {w \in DOMAIN CapabilityLeaf :
              /\ Level(CapabilityLeaf[w]) >= CapabilityLeaf[w][2]
              /\ w = "CPUID_F_1_EDX" => cpuid.cqm}]
  /\ detecting' = "get_model_name"
  /\ UNCHANGED cpuid

Blank == " "

\* while (*p == ' ') p++, which the NUL ends at the latest.
Leading(str) == Min({i \in 1 .. Len(str) + 1 : i = Len(str) + 1 \/ str[i] # Blank}) - 1

\* The copy within the string: q behind the characters copied, s on the last one that is no
\* space; where nothing is copied, s is still the first character.
Trim(str) ==
  LET copied == SubSeq(str, Leading(str) + 1, Len(str))
      after == copied \o SubSeq(str, Len(copied) + 1, Len(str))
      s == Max({1} \cup {i \in DOMAIN copied : copied[i] # Blank})
  IN  SubSeq(after, 1, IF Len(after) < s THEN Len(after) ELSE s)

get_model_name ==
  /\ detecting = "get_model_name"
  /\ cpu_info' = IF cpu_info.extended_cpuid_level < 4 THEN cpu_info
                 ELSE [cpu_info EXCEPT !.x86_model_id = Trim(cpuid.name)]
  /\ detecting' = "done"
  /\ UNCHANGED cpuid

cpu_init == cpu_detect \/ get_cpu_vendor \/ get_cpu_cap \/ get_model_name

-----------------------------------------------------------------------------
\* Family and model are the ones the processor's vendor documents, for every
\* signature whose family fits the eight bits the record has, and they are
\* what tells the crystal frequency in tsc.c (cpu.c:43-92).
Family(sig) == IF sig[3] # 15 THEN sig[3] ELSE 15 + sig[6] + 16 * sig[7]
ModelIsDocumented ==
  (detecting = "done" /\ cpuid.level >= 1) =>
    /\ Family(cpuid.sig) <= 255 => cpu_info.x86 = Family(cpuid.sig)
    /\ cpu_info.x86_model =
         IF Family(cpuid.sig) \in {6} \cup 15 .. 270 THEN 16 * cpuid.sig[5] + cpuid.sig[2]
         ELSE IF Family(cpuid.sig) < 6 THEN cpuid.sig[2]
         ELSE cpu_info.x86_model   \* no such family

\* The brand string is kept without the spaces at its ends and whole between
\* them, although it is moved within its own buffer (cpu.c:193-207).
NameIsTrimmed ==
  (detecting = "done" /\ cpu_info.extended_cpuid_level >= 4 /\ \E c \in ToSet(cpuid.name) : c # Blank) =>
    LET kept == {i \in DOMAIN cpuid.name : cpuid.name[i] # Blank}
        lo == CHOOSE i \in kept : \A j \in kept : i <= j
        hi == CHOOSE i \in kept : \A j \in kept : i >= j
    IN  cpu_info.x86_model_id = SubSeq(cpuid.name, lo, hi)

\* cpu_init knows the processor: its family and model, and its name.
CpuIsIdentified == ModelIsDocumented /\ NameIsTrimmed
=============================================================================
