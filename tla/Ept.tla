-------------------------------- MODULE Ept --------------------------------
(***************************************************************************)
(* The extended page tables of vmm/kvm.c and their lazy population.        *)
(*                                                                         *)
(* lvisor starts its guest with empty tables (ept_pml4, ept_pdpt_0_512g    *)
(* and ept_pd_0_4g are in .bss).  Every guest access whose EPT walk meets  *)
(* an entry that is not present exits to handle_ept_violation, which       *)
(* identity-maps the 2M page around the faulting address, or panics when   *)
(* the address lies in the monitor's own image [_start, _end) or at or     *)
(* above 4G.  The guest then re-executes the access.                       *)
(*                                                                         *)
(* Addresses are numbers; PageSize stands for SZ_2M, PdEntries for the 512 *)
(* entries of a page directory, PdTables for the 4 directories laid out in *)
(* ept_pd_0_4g, PdptEntries for the 512 entries of the PDPT.               *)
(***************************************************************************)
EXTENDS Integers

CONSTANTS
  PageSize,     \* SZ_2M
  PdEntries,    \* entries of one page directory (512)
  PdTables,     \* page directories in ept_pd_0_4g (4)
  PdptEntries,  \* entries of ept_pdpt_0_512g (512)
  VmmStart,     \* _start
  VmmEnd,       \* _end
  MaxPhys,      \* bound: guest-physical addresses are 0 .. MaxPhys - 1
  Values,       \* contents of a memory cell
  BootMem,      \* host memory when the guest starts (firmware copied in)
  NoAccess      \* no guest access is outstanding

Limit == PageSize * (PdTables * PdEntries)   \* SZ_4G

ASSUME SizesAreNat ==
  /\ PageSize \in Nat \ {0}
  /\ PdEntries \in Nat \ {0}
  /\ PdTables \in Nat \ {0}
  /\ PdptEntries \in Nat
  /\ PdTables <= PdptEntries
  /\ MaxPhys \in Nat

\* vmm.lds.S starts the image at VMM_START, a multiple of 2M, and aligns
\* _end to 2M; construct_tdp asserts both.
ASSUME VmmIsPageAligned ==
  /\ VmmStart \in Nat
  /\ VmmEnd \in Nat
  /\ VmmStart <= VmmEnd
  /\ VmmStart % PageSize = 0
  /\ VmmEnd % PageSize = 0

Addrs == 0 .. (MaxPhys - 1)

Access == [op : {"read", "write"}, addr : Addrs, val : Values]

ASSUME NoAccessIsNotAnAccess == NoAccess \notin Access

ASSUME BootMemIsMemory == BootMem \in [Addrs -> Values]

Vmm == {a \in Addrs : VmmStart <= a /\ a < VmmEnd}

\* The memory the guest may use.
Allowed == {a \in Addrs : a < Limit} \ Vmm

-----------------------------------------------------------------------------
(***************************************************************************)
(* Table entries.  rwx is always granted as a whole, so an entry is        *)
(* present or not; pse marks a leaf; addr is the page frame of a leaf and  *)
(* the number of the next table otherwise.                                 *)
(***************************************************************************)
Entry == [present : BOOLEAN, pse : BOOLEAN, addr : Nat]

Zero == [present |-> FALSE, pse |-> FALSE, addr |-> 0]

TableEntry(t) == [present |-> TRUE, pse |-> FALSE, addr |-> t]

PageOf(gpa) == gpa \div PageSize

PageBase(gpa) == PageOf(gpa) * PageSize

\* Mutant of LeafEntry: the offset in the page is not masked off.
LeafEntry_Unmasked(gpa) == [present |-> TRUE, pse |-> TRUE, addr |-> gpa]

\* (guest_phys & ~(SZ_2M - 1)) | rwx | EPTE_PSE
LeafEntry(gpa) == [present |-> TRUE, pse |-> TRUE, addr |-> PageBase(gpa)]

\* Bits 39.., 30..38 and 21..29 of a guest-physical address.
Pml4Index(gpa) == PageOf(gpa) \div (PdEntries * PdptEntries)

PdptIndex(gpa) == (PageOf(gpa) \div PdEntries) % PdptEntries

PdIndex(gpa) == PageOf(gpa) % PdEntries

VARIABLES
  pml4_0,       \* ept_pml4[0]; no other entry is ever written
  pdpt,         \* ept_pdpt_0_512g
  pd,           \* ept_pd_0_4g, PdTables directories one after the other
  initialized,  \* pml4_0_512g_initialized
  mem,          \* host physical memory
  access,       \* the access the guest is executing, or NoAccess
  seen,         \* what the guest's last read returned
  exited,       \* a VM exit for an EPT violation awaits its handler
  panicked      \* the monitor called panic()

eptVars == <<pml4_0, pdpt, pd, initialized>>

vars == <<eptVars, mem, access, seen, exited, panicked>>

-----------------------------------------------------------------------------
(***************************************************************************)
(* Translation.                                                            *)
(***************************************************************************)
Unmapped == -1

\* The processor's walk (external): a not-present entry at any level is an
\* EPT violation; a present leaf in a page directory is a 2M page.
HardwareWalk(gpa) ==
  LET dir  == pdpt[PdptIndex(gpa)]
      leaf == pd[dir.addr * PdEntries + PdIndex(gpa)]
  IN  IF /\ Pml4Index(gpa) = 0
         /\ pml4_0.present
         /\ dir.present
         /\ leaf.present
         /\ leaf.pse
      THEN leaf.addr + (gpa % PageSize)
      ELSE Unmapped

\* The same walk in software, as gva2hva applies it to guest page tables:
\* the host-physical address, or AssertFails when an assertion trips.
AssertFails == Unmapped

\* Mutant of gpa2hpa: always the first page directory.
gpa2hpa_FirstDirectory(gpa) ==
  LET leaf == pd[PdIndex(gpa)]
  IN  IF Pml4Index(gpa) = 0 /\ pml4_0.present /\ pdpt[PdptIndex(gpa)].present
         /\ leaf.present /\ leaf.pse
      THEN leaf.addr + (gpa % PageSize)
      ELSE AssertFails

gpa2hpa(gpa) ==
  LET e1 == IF Pml4Index(gpa) = 0 THEN pml4_0 ELSE Zero
      e2 == pdpt[PdptIndex(gpa)]
      e3 == pd[e2.addr * PdEntries + PdIndex(gpa)]
  IN  IF ~e1.present \/ e1.pse \/ ~e2.present
      THEN AssertFails             \* not readable, or a large page at i == 0
      ELSE IF e2.pse
      THEN e2.addr + (gpa % (PageSize * PdEntries))
      ELSE IF e3.present /\ e3.pse
      THEN e3.addr + (gpa % PageSize)
      ELSE AssertFails             \* no table exists below a page directory

-----------------------------------------------------------------------------
\* construct_tdp, the eager mapping that handle_ept_violation replaced:
\* every page of [0, 4G) except those of [_start, _end).
construct_tdp ==
  [i \in 0 .. (PdTables * PdEntries - 1) |->
     IF i < VmmStart \div PageSize \/ i >= VmmEnd \div PageSize
     THEN LeafEntry(i * PageSize)
     ELSE Zero]

-----------------------------------------------------------------------------
(***************************************************************************)
(* Initial state: the tables are zero-filled, the guest has not run.       *)
(***************************************************************************)
Init ==
  /\ pml4_0 = Zero
  /\ pdpt = [i \in 0 .. (PdptEntries - 1) |-> Zero]
  /\ pd = [i \in 0 .. (PdTables * PdEntries - 1) |-> Zero]
  /\ initialized = FALSE
  /\ mem = BootMem
  /\ access = NoAccess
  /\ seen \in Values
  /\ exited = FALSE
  /\ panicked = FALSE

(***************************************************************************)
(* The guest begins to execute an instruction that touches memory          *)
(* (external: the processor in VMX non-root operation).                    *)
(***************************************************************************)
GuestIssue ==
  /\ ~panicked
  /\ access = NoAccess
  /\ access' \in Access
  /\ UNCHANGED <<eptVars, mem, seen, exited, panicked>>

\* The walk succeeds and the access reaches host memory.
GuestAccess ==
  /\ ~panicked
  /\ ~exited
  /\ access # NoAccess
  /\ LET hpa == HardwareWalk(access.addr)
     IN  /\ hpa # Unmapped
         /\ IF access.op = "write"
            THEN /\ mem' = [mem EXCEPT ![hpa] = access.val]
                 /\ seen' = seen
            ELSE /\ seen' = mem[hpa]
                 /\ mem' = mem
  /\ access' = NoAccess
  /\ UNCHANGED <<eptVars, exited, panicked>>

\* The walk fails: VM exit with GUEST_PHYSICAL_ADDRESS = access.addr.
EptViolationExit ==
  /\ ~panicked
  /\ ~exited
  /\ access # NoAccess
  /\ HardwareWalk(access.addr) = Unmapped
  /\ exited' = TRUE
  /\ UNCHANGED <<eptVars, mem, access, seen, panicked>>

\* Mutants of PanicsOn: one of the two tests is missing.
PanicsOn_AllowsVmm(gpa) == gpa >= Limit
PanicsOn_AllowsHigh(gpa) == VmmStart <= gpa /\ gpa < VmmEnd

(***************************************************************************)
(* handle_ept_violation of vmm/kvm.c, called from vmm/vmx.c, and the VM    *)
(* entry that follows it.  RIP is not advanced: the guest retries.         *)
(***************************************************************************)
PanicsOn(gpa) ==
  \/ VmmStart <= gpa /\ gpa < VmmEnd
  \/ gpa >= Limit

PopulateUpperLevels ==
  IF ~initialized
  THEN /\ pml4_0' = TableEntry(0)
       /\ pdpt' = [i \in 0 .. (PdptEntries - 1) |->
                     IF i < PdTables THEN TableEntry(i) ELSE pdpt[i]]
       /\ initialized' = TRUE
  ELSE UNCHANGED <<pml4_0, pdpt, initialized>>

HandleEptViolation ==
  /\ exited
  /\ ~panicked
  /\ ~PanicsOn(access.addr)
  /\ PopulateUpperLevels
  /\ pd' = [pd EXCEPT ![PageOf(access.addr)] = LeafEntry(access.addr)]
  /\ exited' = FALSE
  /\ UNCHANGED <<mem, access, seen, panicked>>

EptViolationPanic ==
  /\ exited
  /\ ~panicked
  /\ PanicsOn(access.addr)
  /\ panicked' = TRUE
  /\ UNCHANGED <<eptVars, mem, access, seen, exited>>

Next ==
  \/ GuestIssue
  \/ GuestAccess
  \/ EptViolationExit
  \/ HandleEptViolation
  \/ EptViolationPanic

Spec == Init /\ [][Next]_vars

\* The processor retires the access it is executing or exits, and kvm_loop
\* calls the exit handler without condition: both are weakly fair.  The
\* guest itself may stop issuing accesses.
Fairness ==
  /\ WF_vars(GuestAccess \/ EptViolationExit)
  /\ WF_vars(HandleEptViolation \/ EptViolationPanic)

FairSpec == Spec /\ Fairness

-----------------------------------------------------------------------------
(***************************************************************************)
(* Properties.                                                             *)
(***************************************************************************)

\* The type invariant.
TypeOK ==
  /\ pml4_0 \in Entry
  /\ pdpt \in [0 .. (PdptEntries - 1) -> Entry]
  /\ pd \in [0 .. (PdTables * PdEntries - 1) -> Entry]
  /\ initialized \in BOOLEAN
  /\ mem \in [Addrs -> Values]
  /\ access \in Access \cup {NoAccess}
  /\ seen \in Values
  /\ exited \in BOOLEAN
  /\ panicked \in BOOLEAN

\* Whatever the guest has touched so far, each address the processor can
\* translate is translated to itself and belongs to the guest: no sequence
\* of EPT violations makes a page of [_start, _end), or memory above 4G,
\* reachable (handle_ept_violation; the question "Is this safe?" of
\* construct_tdp).
IdentityMap ==
  \A a \in Addrs :
    HardwareWalk(a) # Unmapped => HardwareWalk(a) = a /\ a \in Allowed

\* The lazily filled directory never holds an entry that the eager
\* construct_tdp would not have put there.
LazyWithinEager ==
  \A i \in DOMAIN pd : pd[i] # Zero => pd[i] = construct_tdp[i]

\* The monitor's software walk gpa2hpa, which reads guest page tables and
\* guest code, agrees with the processor on every address the processor can
\* translate (none of its assertions trips there) and asserts on all others.
SoftwareWalkAgrees ==
  \A a \in Addrs : gpa2hpa(a) = HardwareWalk(a)

\* No guest access ever changes the monitor's image.
VmmUntouched ==
  [][\A a \in Vmm : mem'[a] = mem[a]]_vars

\* An EPT violation is taken at most once for a page: the handler returns
\* only with the faulting address mapped, and what is mapped stays mapped to
\* the same place.
ViolationTakenOnce ==
  [][/\ exited /\ ~exited' => HardwareWalk(access.addr)' # Unmapped
     /\ \A a \in Addrs :
          HardwareWalk(a) # Unmapped => HardwareWalk(a)' = HardwareWalk(a)]_vars

GM == INSTANCE GuestMemory WITH halted <- panicked

\* To the guest, the tables that appear on demand are indistinguishable from
\* flat memory: every access takes effect exactly once at the address named,
\* and only an access outside the guest's memory stops the machine.
ImplementsGuestMemory == GM!Spec

\* Under the fairness of the processor and of kvm_loop, every access the
\* guest issues is resolved: no access faults forever.
ImplementsFairGuestMemory == GM!FairSpec

-----------------------------------------------------------------------------
(***************************************************************************)
(* The inductive invariant behind IdentityMap.                             *)
(***************************************************************************)
UpperLevelsOK ==
  /\ pml4_0 = IF initialized THEN TableEntry(0) ELSE Zero
  /\ \A i \in 0 .. (PdptEntries - 1) :
       pdpt[i] = IF initialized /\ i < PdTables THEN TableEntry(i) ELSE Zero

LeavesOK ==
  \A i \in 0 .. (PdTables * PdEntries - 1) :
    \/ pd[i] = Zero
    \/ /\ pd[i] = LeafEntry(i * PageSize)
       /\ i < VmmStart \div PageSize \/ i >= VmmEnd \div PageSize

ExitOK == exited => access # NoAccess

EptInv == TypeOK /\ UpperLevelsOK /\ LeavesOK /\ ExitOK
=============================================================================
