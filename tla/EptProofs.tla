----------------------------- MODULE EptProofs -----------------------------
(***************************************************************************)
(* Proofs about Ept, for every size of page, table and monitor image.      *)
(***************************************************************************)
EXTENDS Ept, TLAPS

-----------------------------------------------------------------------------
(***************************************************************************)
(* Arithmetic of page numbers.                                             *)
(***************************************************************************)

\* Division with remainder, as the shifts and masks of the walk use it.
LEMMA DivMod ==
  ASSUME NEW a \in Nat, NEW b \in Nat \ {0}
  PROVE  /\ a \div b \in Nat
         /\ a % b \in Nat
         /\ a % b < b
         /\ a = (a \div b) * b + (a % b)
  BY SMT

\* A larger page number puts a page, with any offset, below a bound.
LEMMA PageBelow ==
  ASSUME NEW p \in Nat, NEW q \in Nat, NEW b \in Nat \ {0}, NEW r \in Nat,
         r < b, p < q
  PROVE  p * b + r < q * b
<1>1. p + 1 <= q
  OBVIOUS
<1>2. (p + 1) * b <= q * b
  BY <1>1, SMT
<1>3. (p + 1) * b = p * b + b
  BY SMT
<1> QED
  BY <1>2, <1>3, SMT

\* Multiplication by a page size keeps the order.
LEMMA MulMono ==
  ASSUME NEW p \in Nat, NEW q \in Nat, NEW b \in Nat, p <= q
  PROVE  p * b <= q * b /\ p * b \in Nat /\ q * b \in Nat
  BY SMT

\* Quotient and remainder are unique.
LEMMA DivUnique ==
  ASSUME NEW p \in Nat, NEW b \in Nat \ {0}, NEW r \in Nat, r < b
  PROVE  (p * b + r) \div b = p /\ (p * b + r) % b = r
<1> DEFINE a == p * b + r
           q == a \div b
           s == a % b
<1>1. a \in Nat /\ a = q * b + s /\ q \in Nat /\ s \in Nat /\ s < b
  BY DivMod, SMT
<1>2. ~(q < p)
  BY <1>1, PageBelow, SMT
<1>3. ~(p < q)
  BY <1>1, PageBelow, SMT
<1> QED
  BY <1>1, <1>2, <1>3, SMT

-----------------------------------------------------------------------------
(***************************************************************************)
(* Address arithmetic of the model.                                        *)
(***************************************************************************)
Directory == 0 .. (PdTables * PdEntries - 1)

\* The page number and the offset of an address recompose it.
LEMMA AddrSplit ==
  ASSUME NEW a \in Nat
  PROVE  /\ PageOf(a) \in Nat
         /\ a % PageSize \in Nat
         /\ a % PageSize < PageSize
         /\ a = PageOf(a) * PageSize + (a % PageSize)
         /\ PageBase(a) \in Nat
  BY SizesAreNat, DivMod, SMT DEF PageOf, PageBase

\* The leaf of page i is based at i * PageSize, offset or not.
LEMMA LeafOfPage ==
  ASSUME NEW a \in Nat
  PROVE  LeafEntry(PageOf(a) * PageSize) = LeafEntry(a)
<1>1. PageOf(PageOf(a) * PageSize) = PageOf(a)
  <2>0. PageOf(a) \in Nat /\ 0 \in Nat /\ 0 < PageSize
    BY AddrSplit, SizesAreNat, SMT
  <2>1. (PageOf(a) * PageSize + 0) \div PageSize = PageOf(a)
    BY <2>0, DivUnique, SizesAreNat
  <2>2. PageOf(a) * PageSize + 0 = PageOf(a) * PageSize
    BY AddrSplit, SizesAreNat, SMT
  <2> QED
    BY <2>1, <2>2 DEF PageOf
<1> QED
  BY <1>1 DEF LeafEntry, PageBase

\* Below Limit means inside the directory.
LEMMA BelowLimit ==
  ASSUME NEW a \in Nat
  PROVE  a < Limit <=> PageOf(a) \in Directory
<1> DEFINE n == PdTables * PdEntries
<1>1. n \in Nat /\ Limit = n * PageSize
  BY SizesAreNat, SMT DEF Limit
<1>2. /\ PageOf(a) \in Nat
      /\ a % PageSize \in Nat
      /\ a % PageSize < PageSize
      /\ a = PageOf(a) * PageSize + (a % PageSize)
  BY AddrSplit
<1>3. ASSUME PageOf(a) < n PROVE a < Limit
  <2>1. PageOf(a) * PageSize + (a % PageSize) < n * PageSize
    BY <1>1, <1>2, <1>3, PageBelow, SizesAreNat
  <2> QED
    BY <1>1, <1>2, <2>1
<1>4. ASSUME ~(PageOf(a) < n) PROVE ~(a < Limit)
  <2>1. n <= PageOf(a)
    BY <1>1, <1>2, <1>4, SMT
  <2>2. /\ n * PageSize <= PageOf(a) * PageSize
        /\ n * PageSize \in Nat
        /\ PageOf(a) * PageSize \in Nat
    BY <1>1, <1>2, <2>1, MulMono, SizesAreNat
  <2> HIDE DEF n
  <2> QED
    BY <1>1, <1>2, <2>2, SMT
<1> QED
  BY <1>1, <1>2, <1>3, <1>4, SMT DEF Directory

\* A page boundary separates addresses exactly as it separates pages.
LEMMA PageBoundary ==
  ASSUME NEW a \in Nat, NEW m \in Nat, m % PageSize = 0
  PROVE  a < m <=> PageOf(a) < m \div PageSize
<1> DEFINE q == m \div PageSize
<1>1. q \in Nat /\ m = q * PageSize
  BY DivMod, SizesAreNat, SMT
<1>2. /\ PageOf(a) \in Nat
      /\ a % PageSize \in Nat
      /\ a % PageSize < PageSize
      /\ a = PageOf(a) * PageSize + (a % PageSize)
  BY AddrSplit
<1>3. ASSUME PageOf(a) < q PROVE a < m
  <2>1. PageOf(a) * PageSize + (a % PageSize) < q * PageSize
    BY <1>1, <1>2, <1>3, PageBelow, SizesAreNat
  <2> QED
    BY <1>1, <1>2, <2>1
<1>4. ASSUME ~(PageOf(a) < q) PROVE ~(a < m)
  <2>1. q <= PageOf(a)
    BY <1>1, <1>2, <1>4, SMT
  <2>2. /\ q * PageSize <= PageOf(a) * PageSize
        /\ q * PageSize \in Nat
        /\ PageOf(a) * PageSize \in Nat
    BY <1>1, <1>2, <2>1, MulMono, SizesAreNat
  <2> HIDE DEF q
  <2> QED
    BY <1>1, <1>2, <2>2, SMT
<1> QED
  BY <1>1, <1>2, <1>3, <1>4, SMT

\* The three indices of the walk, when the first two lead to a populated
\* directory, select the entry of the address's own page.
LEMMA WalkIndices ==
  ASSUME NEW a \in Nat, Pml4Index(a) = 0, PdptIndex(a) < PdTables
  PROVE  /\ PdptIndex(a) \in 0 .. (PdptEntries - 1)
         /\ PdptIndex(a) * PdEntries + PdIndex(a) = PageOf(a)
         /\ PageOf(a) \in Directory
<1> DEFINE p == PageOf(a)
           d == p \div PdEntries
           m == PdEntries * PdptEntries
<1>1. p \in Nat
  BY AddrSplit
<1>2. d \in Nat /\ PdIndex(a) \in Nat /\ PdIndex(a) < PdEntries
      /\ p = d * PdEntries + PdIndex(a)
  BY <1>1, DivMod, SizesAreNat DEF PdIndex
<1>3. PdptEntries \in Nat \ {0} /\ m \in Nat \ {0}
  BY SizesAreNat, SMT
<1>4. p < m
  <2>1. p = (p \div m) * m + (p % m) /\ p % m < m /\ p % m \in Nat
    BY <1>1, <1>3, DivMod
  <2>2. p \div m = 0
    BY DEF Pml4Index
  <2>3. p = p % m
    BY <2>1, <2>2, <1>3, SMT
  <2> QED
    BY <2>1, <2>3, SMT
<1>5. d < PdptEntries
  <2>1. SUFFICES ASSUME PdptEntries <= d PROVE FALSE
    BY <1>2, <1>3, SMT
  <2>2. PdptEntries * PdEntries <= d * PdEntries
    BY <2>1, <1>2, <1>3, SizesAreNat, SMT
  <2> QED
    BY <2>2, <1>2, <1>4, <1>3, SizesAreNat, SMT
<1>6. PdptIndex(a) = d
  <2>1. (0 * PdptEntries + d) % PdptEntries = d
    BY <1>2, <1>3, <1>5, DivUnique
  <2>2. 0 * PdptEntries + d = d
    BY <1>2, <1>3, SMT
  <2> QED
    BY <2>1, <2>2 DEF PdptIndex
<1>7. p < PdTables * PdEntries
  BY <1>2, <1>6, PageBelow, SizesAreNat
<1> QED
  BY <1>1, <1>2, <1>3, <1>5, <1>6, <1>7, SizesAreNat, SMT DEF Directory

\* Conversely, the walk of an address below Limit reaches its directory.
LEMMA WalkReaches ==
  ASSUME NEW a \in Nat, PageOf(a) \in Directory
  PROVE  Pml4Index(a) = 0 /\ PdptIndex(a) < PdTables
<1> DEFINE p == PageOf(a)
           d == p \div PdEntries
           m == PdEntries * PdptEntries
<1>1. p \in Nat /\ p < PdTables * PdEntries
  BY SizesAreNat, SMT DEF Directory
<1>2. d \in Nat /\ p % PdEntries \in Nat /\ p = d * PdEntries + (p % PdEntries)
  BY <1>1, DivMod, SizesAreNat
<1>3. PdptEntries \in Nat \ {0} /\ m \in Nat \ {0}
  BY SizesAreNat, SMT
<1>4. d < PdTables
  <2>1. SUFFICES ASSUME PdTables <= d PROVE FALSE
    BY <1>2, SizesAreNat, SMT
  <2>2. PdTables * PdEntries <= d * PdEntries
    BY <2>1, <1>2, MulMono, SizesAreNat
  <2> QED
    BY <2>2, <1>1, <1>2, SizesAreNat, SMT
<1>5. p < m
  <2>1. PdTables * PdEntries <= PdptEntries * PdEntries
    BY <1>3, MulMono, SizesAreNat
  <2> QED
    BY <2>1, <1>1, <1>3, SizesAreNat, SMT
<1>6. Pml4Index(a) = 0
  <2>1. (0 * m + p) \div m = 0
    BY <1>1, <1>3, <1>5, DivUnique
  <2>2. 0 * m + p = p
    BY <1>1, <1>3, SMT
  <2> QED
    BY <2>1, <2>2 DEF Pml4Index
<1>7. PdptIndex(a) = d
  <2>1. d < PdptEntries
    BY <1>2, <1>4, SizesAreNat, SMT
  <2>2. (0 * PdptEntries + d) % PdptEntries = d
    BY <1>2, <1>3, <2>1, DivUnique
  <2>3. 0 * PdptEntries + d = d
    BY <1>2, <1>3, SMT
  <2> QED
    BY <2>2, <2>3 DEF PdptIndex
<1> QED
  BY <1>4, <1>6, <1>7

-----------------------------------------------------------------------------
(***************************************************************************)
(* The inductive invariant.                                                *)
(***************************************************************************)

\* The zero-filled tables satisfy it.
LEMMA EptInvInit == Init => EptInv
<1> SUFFICES ASSUME Init PROVE EptInv
  OBVIOUS
<1>1. TypeOK
  <2>1. Zero \in Entry
    BY DEF Zero, Entry
  <2> QED
    BY <2>1, BootMemIsMemory DEF Init, TypeOK
<1>2. UpperLevelsOK
  BY DEF Init, UpperLevelsOK
<1>3. LeavesOK
  BY DEF Init, LeavesOK
<1>4. ExitOK
  BY DEF Init, ExitOK
<1> QED
  BY <1>1, <1>2, <1>3, <1>4 DEF EptInv

\* Accesses are addresses, and NoAccess is none.
LEMMA AccessFacts ==
  ASSUME TypeOK, access # NoAccess
  PROVE  /\ access \in Access
         /\ access.addr \in Addrs
         /\ access.addr \in Nat
         /\ access.val \in Values
<1>1. access \in Access
  BY DEF TypeOK
<1> QED
  BY <1>1, SizesAreNat, SMT DEF Access, Addrs

\* What the walk returns, in a state of the invariant: the address itself
\* when its page was populated, and a violation otherwise.
WalkIsIdentity ==
  \A a \in Addrs :
    HardwareWalk(a) =
      IF initialized /\ PageOf(a) \in Directory /\ pd[PageOf(a)] # Zero
      THEN a ELSE Unmapped

\* In every state of the invariant the processor's walk through the tables
\* that handle_ept_violation fills returns the address itself or faults.
LEMMA WalkValue == EptInv => WalkIsIdentity
<1> SUFFICES ASSUME EptInv, NEW a \in Addrs
             PROVE  HardwareWalk(a) =
                      IF /\ initialized
                         /\ PageOf(a) \in Directory
                         /\ pd[PageOf(a)] # Zero
                      THEN a ELSE Unmapped
  BY DEF WalkIsIdentity
<1> USE DEF EptInv
<1>0. a \in Nat
  BY SizesAreNat, SMT DEF Addrs
<1>1. CASE Pml4Index(a) = 0 /\ PdptIndex(a) < PdTables /\ initialized
  <2>1. /\ PdptIndex(a) \in 0 .. (PdptEntries - 1)
        /\ PdptIndex(a) * PdEntries + PdIndex(a) = PageOf(a)
        /\ PageOf(a) \in Directory
    BY <1>0, <1>1, WalkIndices
  <2>2. pml4_0.present
    BY <1>1 DEF UpperLevelsOK, TableEntry
  <2>3. pdpt[PdptIndex(a)] = TableEntry(PdptIndex(a))
    BY <1>1, <2>1 DEF UpperLevelsOK
  <2>4. pdpt[PdptIndex(a)].present /\ pdpt[PdptIndex(a)].addr = PdptIndex(a)
    BY <2>3 DEF TableEntry
  <2>5. CASE pd[PageOf(a)] = Zero
    BY <1>1, <2>1, <2>2, <2>4, <2>5 DEF HardwareWalk, Zero
  <2>6. CASE pd[PageOf(a)] # Zero
    <3>1. pd[PageOf(a)] = LeafEntry(PageOf(a) * PageSize)
      BY <2>1, <2>6 DEF LeavesOK, Directory
    <3>2. pd[PageOf(a)] = LeafEntry(a)
      BY <1>0, <3>1, LeafOfPage
    <3>3. /\ pd[PageOf(a)].present
          /\ pd[PageOf(a)].pse
          /\ pd[PageOf(a)].addr = PageBase(a)
      BY <3>2 DEF LeafEntry
    <3>4. PageBase(a) + (a % PageSize) = a
      BY <1>0, AddrSplit DEF PageBase
    <3> QED
      BY <1>1, <2>1, <2>2, <2>4, <2>6, <3>3, <3>4 DEF HardwareWalk
  <2> QED
    BY <2>5, <2>6
<1>2. CASE ~(Pml4Index(a) = 0 /\ PdptIndex(a) < PdTables /\ initialized)
  <2>1. ~(initialized /\ PageOf(a) \in Directory)
    BY <1>0, <1>2, WalkReaches
  <2>2. HardwareWalk(a) = Unmapped
    <3>1. CASE ~initialized
      BY <3>1 DEF HardwareWalk, UpperLevelsOK, Zero
    <3>2. CASE Pml4Index(a) # 0
      BY <3>2 DEF HardwareWalk
    <3>3. CASE initialized /\ ~(PdptIndex(a) < PdTables)
      <4>1. PdptIndex(a) \in 0 .. (PdptEntries - 1)
        <5>1. PageOf(a) \div PdEntries \in Nat
          BY <1>0, AddrSplit, DivMod, SizesAreNat
        <5>2. PdptEntries \in Nat \ {0}
          BY SizesAreNat, SMT
        <5>3. PdptIndex(a) \in Nat /\ PdptIndex(a) < PdptEntries
          BY <5>1, <5>2, DivMod DEF PdptIndex
        <5> QED
          BY <5>2, <5>3, SMT
      <4>2. pdpt[PdptIndex(a)] = Zero
        BY <3>3, <4>1 DEF UpperLevelsOK
      <4> QED
        BY <4>2 DEF HardwareWalk, Zero
    <3> QED
      BY <1>2, <3>1, <3>2, <3>3
  <2> QED
    BY <2>1, <2>2
<1> QED
  BY <1>1, <1>2

\* Every step keeps the invariant; only the exit handler writes the tables.
LEMMA EptInvStep == EptInv /\ [Next]_vars => EptInv'
<1> SUFFICES ASSUME EptInv, [Next]_vars PROVE EptInv'
  OBVIOUS
<1> USE DEF EptInv
<1>1. CASE GuestIssue
  <2>1. TypeOK'
    BY <1>1 DEF GuestIssue, TypeOK, eptVars
  <2>2. UpperLevelsOK' /\ LeavesOK'
    BY <1>1 DEF GuestIssue, UpperLevelsOK, LeavesOK, eptVars
  <2>3. ExitOK'
    BY <1>1, NoAccessIsNotAnAccess DEF GuestIssue, ExitOK
  <2> QED
    BY <2>1, <2>2, <2>3
<1>2. CASE GuestAccess
  <2>1. access \in Access /\ access.addr \in Addrs /\ access.val \in Values
    BY <1>2, AccessFacts DEF GuestAccess
  <2>2. HardwareWalk(access.addr) \in Addrs
    BY <1>2, <2>1, WalkValue DEF GuestAccess, WalkIsIdentity
  <2>3. mem' \in [Addrs -> Values] /\ seen' \in Values
    BY <1>2, <2>1, <2>2 DEF GuestAccess, TypeOK
  <2>4. TypeOK'
    BY <1>2, <2>3 DEF GuestAccess, TypeOK, eptVars
  <2>5. UpperLevelsOK' /\ LeavesOK' /\ ExitOK'
    BY <1>2 DEF GuestAccess, UpperLevelsOK, LeavesOK, ExitOK, eptVars
  <2> QED
    BY <2>4, <2>5
<1>3. CASE EptViolationExit
  <2>1. TypeOK'
    BY <1>3 DEF EptViolationExit, TypeOK, eptVars
  <2>2. UpperLevelsOK' /\ LeavesOK' /\ ExitOK'
    BY <1>3 DEF EptViolationExit, UpperLevelsOK, LeavesOK, ExitOK, eptVars
  <2> QED
    BY <2>1, <2>2
<1>4. CASE HandleEptViolation
  <2> DEFINE a == access.addr
  <2>1. a \in Nat
    BY <1>4, AccessFacts DEF HandleEptViolation, ExitOK
  <2>2. PageOf(a) \in Directory
    BY <1>4, <2>1, BelowLimit, SizesAreNat DEF HandleEptViolation, PanicsOn, Limit
  <2>3. LeafEntry(a) \in Entry
    BY <2>1, AddrSplit DEF LeafEntry, Entry
  <2>4. pd' \in [Directory -> Entry]
    BY <1>4, <2>2, <2>3 DEF HandleEptViolation, TypeOK, Directory
  <2>5. pml4_0' \in Entry /\ pdpt' \in [0 .. (PdptEntries - 1) -> Entry]
        /\ initialized' \in BOOLEAN
    <3>1. ASSUME NEW t \in 0 .. (PdptEntries - 1) PROVE TableEntry(t) \in Entry
      BY SizesAreNat DEF TableEntry, Entry
    <3>2. TableEntry(0) \in Entry
      BY DEF TableEntry, Entry
    <3>3. CASE ~initialized
      BY <1>4, <3>1, <3>2, <3>3 DEF HandleEptViolation, PopulateUpperLevels, TypeOK
    <3>4. CASE initialized
      BY <1>4, <3>4 DEF HandleEptViolation, PopulateUpperLevels, TypeOK
    <3> QED
      BY <3>3, <3>4
  <2>6. TypeOK'
    BY <1>4, <2>4, <2>5 DEF HandleEptViolation, TypeOK, Directory
  <2>7. UpperLevelsOK'
    <3>1. CASE ~initialized
      BY <1>4, <3>1 DEF HandleEptViolation, PopulateUpperLevels, UpperLevelsOK, TypeOK
    <3>2. CASE initialized
      BY <1>4, <3>2 DEF HandleEptViolation, PopulateUpperLevels, UpperLevelsOK, TypeOK
    <3> QED
      BY <3>1, <3>2 DEF TypeOK
  <2>8. LeavesOK'
    <3>1. pd'[PageOf(a)] = LeafEntry(PageOf(a) * PageSize)
      BY <1>4, <2>1, <2>2, LeafOfPage DEF HandleEptViolation, TypeOK, Directory
    <3>2. PageOf(a) < VmmStart \div PageSize \/ PageOf(a) >= VmmEnd \div PageSize
      <4>1. a < VmmStart \/ ~(a < VmmEnd)
        BY <1>4, <2>1, VmmIsPageAligned DEF HandleEptViolation, PanicsOn
      <4>2. PageOf(a) < VmmStart \div PageSize \/ ~(PageOf(a) < VmmEnd \div PageSize)
        BY <2>1, <4>1, PageBoundary, VmmIsPageAligned
      <4>3. PageOf(a) \in Nat /\ VmmEnd \div PageSize \in Nat
        BY <2>1, AddrSplit, DivMod, VmmIsPageAligned, SizesAreNat
      <4> QED
        BY <4>2, <4>3, SMT
    <3>3. ASSUME NEW i \in Directory, i # PageOf(a) PROVE pd'[i] = pd[i]
      BY <1>4, <3>3, <2>2 DEF HandleEptViolation, TypeOK, Directory
    <3> QED
      BY <3>1, <3>2, <3>3 DEF LeavesOK, Directory
  <2>9. ExitOK'
    BY <1>4 DEF HandleEptViolation, ExitOK
  <2> QED
    BY <2>6, <2>7, <2>8, <2>9
<1>5. CASE EptViolationPanic
  <2>1. TypeOK'
    BY <1>5 DEF EptViolationPanic, TypeOK, eptVars
  <2>2. UpperLevelsOK' /\ LeavesOK' /\ ExitOK'
    BY <1>5 DEF EptViolationPanic, UpperLevelsOK, LeavesOK, ExitOK, eptVars
  <2> QED
    BY <2>1, <2>2
<1>6. CASE UNCHANGED vars
  BY <1>6 DEF vars, eptVars, TypeOK, UpperLevelsOK, LeavesOK, ExitOK
<1> QED
  BY <1>1, <1>2, <1>3, <1>4, <1>5, <1>6 DEF Next

\* The tables, the memory and the exit state are always well formed, and the
\* tables hold nothing but identity mappings of the guest's own pages.
THEOREM EptInvariant == Spec => []EptInv
<1>1. Init => EptInv
  BY EptInvInit
<1>2. EptInv /\ [Next]_vars => EptInv'
  BY EptInvStep
<1> QED
  BY <1>1, <1>2, PTL DEF Spec

\* Type correctness.
THEOREM TypeCorrect == Spec => []TypeOK
<1>1. EptInv => TypeOK
  BY DEF EptInv
<1> QED
  BY <1>1, EptInvariant, PTL

-----------------------------------------------------------------------------
(***************************************************************************)
(* What the invariant gives.                                               *)
(***************************************************************************)

\* In a state of the invariant, a translated address is the guest's own.
LEMMA MappedIsAllowed == EptInv => IdentityMap
<1> SUFFICES ASSUME EptInv, NEW a \in Addrs, HardwareWalk(a) # Unmapped
             PROVE  HardwareWalk(a) = a /\ a \in Allowed
  BY DEF IdentityMap
<1>1. /\ HardwareWalk(a) = a
      /\ PageOf(a) \in Directory
      /\ pd[PageOf(a)] # Zero
  BY WalkValue DEF WalkIsIdentity
<1>2. a \in Nat
  BY SizesAreNat, SMT DEF Addrs
<1>3. a < Limit
  BY <1>1, <1>2, BelowLimit
<1>4. PageOf(a) < VmmStart \div PageSize \/ PageOf(a) >= VmmEnd \div PageSize
  BY <1>1 DEF EptInv, LeavesOK, Directory
<1>5. PageOf(a) \in Nat /\ VmmEnd \div PageSize \in Nat
  BY <1>2, AddrSplit, DivMod, VmmIsPageAligned, SizesAreNat
<1>6. PageOf(a) < VmmStart \div PageSize \/ ~(PageOf(a) < VmmEnd \div PageSize)
  BY <1>4, <1>5, SMT
<1>7. a < VmmStart \/ ~(a < VmmEnd)
  BY <1>2, <1>6, PageBoundary, VmmIsPageAligned
<1>8. a \notin Vmm
  BY <1>2, <1>7, VmmIsPageAligned, SMT DEF Vmm
<1> QED
  BY <1>1, <1>3, <1>8 DEF Allowed

\* For every machine size and monitor image: no sequence of EPT violations
\* makes the monitor's memory or memory above 4G reachable.
THEOREM GuestIsConfined == Spec => []IdentityMap
  BY EptInvariant, MappedIsAllowed, PTL

\* No guest step changes the monitor's image.
LEMMA StepLeavesVmm ==
  EptInv /\ [Next]_vars => (\A a \in Vmm : mem'[a] = mem[a])
<1> SUFFICES ASSUME EptInv, [Next]_vars, NEW a \in Vmm
             PROVE  mem'[a] = mem[a]
  OBVIOUS
<1>1. CASE GuestAccess
  <2>1. access.addr \in Addrs
    BY <1>1, AccessFacts DEF GuestAccess, EptInv
  <2>2. HardwareWalk(access.addr) \in Allowed
    BY <1>1, <2>1, MappedIsAllowed DEF GuestAccess, IdentityMap
  <2>3. HardwareWalk(access.addr) # a /\ HardwareWalk(access.addr) \in Addrs
    BY <2>2 DEF Allowed
  <2>4. a \in Addrs /\ mem \in [Addrs -> Values]
    BY DEF Vmm, EptInv, TypeOK
  <2> QED
    BY <1>1, <2>3, <2>4 DEF GuestAccess
<1>2. CASE ~GuestAccess
  BY <1>2 DEF Next, vars, GuestIssue, EptViolationExit, HandleEptViolation,
              EptViolationPanic
<1> QED
  BY <1>1, <1>2

\* The monitor's image is never written by the guest.
THEOREM VmmIsNeverWritten == Spec => VmmUntouched
<1>1. EptInv /\ [Next]_vars => [\A a \in Vmm : mem'[a] = mem[a]]_vars
  BY StepLeavesVmm
<1> QED
  BY <1>1, EptInvariant, PTL DEF Spec, VmmUntouched

\* The monitor's own walk returns what the processor's walk returns.
THEOREM SoftwareWalkIsHardwareWalk == Spec => []SoftwareWalkAgrees
<1>1. EptInv => SoftwareWalkAgrees
  <2> SUFFICES ASSUME EptInv, NEW a \in Addrs
               PROVE  gpa2hpa(a) = HardwareWalk(a)
    BY DEF SoftwareWalkAgrees
  <2>1. ~pml4_0.pse
    BY DEF EptInv, UpperLevelsOK, TableEntry, Zero
  <2>2. PdptIndex(a) \in 0 .. (PdptEntries - 1)
    <3>1. a \in Nat
      BY SizesAreNat, SMT DEF Addrs
    <3>2. PageOf(a) \div PdEntries \in Nat
      BY <3>1, AddrSplit, DivMod, SizesAreNat
    <3>3. PdptEntries \in Nat \ {0}
      BY SizesAreNat, SMT
    <3>4. PdptIndex(a) \in Nat /\ PdptIndex(a) < PdptEntries
      BY <3>2, <3>3, DivMod DEF PdptIndex
    <3> QED
      BY <3>3, <3>4, SMT
  <2>3. ~pdpt[PdptIndex(a)].pse
    <3>1. \/ pdpt[PdptIndex(a)] = TableEntry(PdptIndex(a))
          \/ pdpt[PdptIndex(a)] = Zero
      BY <2>2 DEF EptInv, UpperLevelsOK
    <3> QED
      BY <3>1 DEF TableEntry, Zero
  <2>4. ~Zero.present
    BY DEF Zero
  <2> DEFINE dir  == pdpt[PdptIndex(a)]
             leaf == pd[dir.addr * PdEntries + PdIndex(a)]
  <2>5. CASE Pml4Index(a) # 0
    BY <2>4, <2>5 DEF gpa2hpa, HardwareWalk, AssertFails
  <2>6. CASE Pml4Index(a) = 0
    <3> HIDE DEF dir, leaf
    <3>1. gpa2hpa(a) =
            IF ~pml4_0.present \/ pml4_0.pse \/ ~dir.present
            THEN AssertFails
            ELSE IF dir.pse
            THEN dir.addr + (a % (PageSize * PdEntries))
            ELSE IF leaf.present /\ leaf.pse
            THEN leaf.addr + (a % PageSize)
            ELSE AssertFails
      BY <2>6, Zenon DEF gpa2hpa, dir, leaf
    <3>2. HardwareWalk(a) =
            IF pml4_0.present /\ dir.present /\ leaf.present /\ leaf.pse
            THEN leaf.addr + (a % PageSize) ELSE Unmapped
      BY <2>6, Zenon DEF HardwareWalk, dir, leaf
    <3>3. ~dir.pse
      BY <2>3 DEF dir
    <3>4. CASE pml4_0.present /\ dir.present
      BY <2>1, <3>1, <3>2, <3>3, <3>4 DEF AssertFails
    <3>5. CASE ~(pml4_0.present /\ dir.present)
      BY <3>1, <3>2, <3>5 DEF AssertFails
    <3> QED
      BY <3>4, <3>5
  <2> QED
    BY <2>5, <2>6
<1> QED
  BY <1>1, EptInvariant, PTL

\* The lazy directory is a part of the eager one.
THEOREM LazyIsWithinEager == Spec => []LazyWithinEager
<1>1. EptInv => LazyWithinEager
  <2> SUFFICES ASSUME EptInv, NEW i \in Directory, pd[i] # Zero
               PROVE  pd[i] = construct_tdp[i]
    BY DEF LazyWithinEager, EptInv, TypeOK, Directory
  <2>1. /\ pd[i] = LeafEntry(i * PageSize)
        /\ i < VmmStart \div PageSize \/ i >= VmmEnd \div PageSize
    BY DEF EptInv, LeavesOK, Directory
  <2> QED
    BY <2>1 DEF construct_tdp, Directory
<1> QED
  BY <1>1, EptInvariant, PTL

-----------------------------------------------------------------------------
(***************************************************************************)
(* Ept implements GuestMemory.                                             *)
(***************************************************************************)

\* The tables start empty, so the initial memory is the guest's.
LEMMA RefinesInit == Init => GM!Init
  BY BootMemIsMemory DEF Init, GM!Init

\* An access stops the machine exactly when the guest may not make it.
LEMMA PanicIsForbidden ==
  ASSUME NEW a \in Addrs
  PROVE  PanicsOn(a) <=> a \notin Allowed
<1>1. a \in Nat /\ Limit \in Nat
  BY SizesAreNat, SMT DEF Addrs, Limit
<1>2. a >= Limit <=> ~(a < Limit)
  BY <1>1, SMT
<1> QED
  BY <1>2 DEF PanicsOn, Allowed, Vmm

\* Each step is a step of the guest's memory or invisible to it.
LEMMA RefinesStep == EptInv /\ [Next]_vars => [GM!Next]_(GM!vars)
<1> SUFFICES ASSUME EptInv, [Next]_vars PROVE [GM!Next]_(GM!vars)
  OBVIOUS
<1>1. CASE GuestIssue
  BY <1>1 DEF GuestIssue, GM!Next, GM!Issue, GM!Access, Access
<1>2. CASE GuestAccess
  <2>1. access.addr \in Addrs
    BY <1>2, AccessFacts DEF GuestAccess, EptInv
  <2>2. HardwareWalk(access.addr) = access.addr /\ access.addr \in Allowed
    BY <1>2, <2>1, MappedIsAllowed DEF GuestAccess, IdentityMap
  <2>3. GM!Complete
    BY <1>2, <2>2 DEF GuestAccess, GM!Complete
  <2> QED
    BY <2>3 DEF GM!Next
<1>3. CASE EptViolationExit
  BY <1>3 DEF EptViolationExit, GM!vars
<1>4. CASE HandleEptViolation
  BY <1>4 DEF HandleEptViolation, GM!vars
<1>5. CASE EptViolationPanic
  <2>1. access # NoAccess
    BY <1>5 DEF EptViolationPanic, EptInv, ExitOK
  <2>2. access.addr \in Addrs
    BY <2>1, AccessFacts DEF EptInv
  <2>3. access.addr \notin Allowed
    BY <1>5, <2>2, PanicIsForbidden DEF EptViolationPanic
  <2>4. GM!Stop
    BY <1>5, <2>1, <2>3 DEF EptViolationPanic, GM!Stop
  <2> QED
    BY <2>4 DEF GM!Next
<1>6. CASE UNCHANGED vars
  BY <1>6 DEF vars, GM!vars
<1> QED
  BY <1>1, <1>2, <1>3, <1>4, <1>5, <1>6 DEF Next

\* Lazily populated tables give the guest the flat memory of GuestMemory
\* (its safety part), for every machine size and monitor image.
THEOREM EptImplementsGuestMemory == Spec => ImplementsGuestMemory
<1>1. Init => GM!Init
  BY RefinesInit
<1>2. EptInv /\ [Next]_vars => [GM!Next]_(GM!vars)
  BY RefinesStep
<1> QED
  BY <1>1, <1>2, EptInvariant, PTL DEF Spec, ImplementsGuestMemory, GM!Spec

-----------------------------------------------------------------------------
(***************************************************************************)
(* Progress of the handler.                                                *)
(***************************************************************************)

\* One step of the handler: the faulting page becomes and stays mapped.
LEMMA HandlerMaps ==
  EptInv /\ [Next]_vars =>
    /\ exited /\ ~exited' => HardwareWalk(access.addr)' # Unmapped
    /\ \A a \in Addrs :
         HardwareWalk(a) # Unmapped => HardwareWalk(a)' = HardwareWalk(a)
<1> SUFFICES ASSUME EptInv, [Next]_vars
             PROVE  /\ exited /\ ~exited' => HardwareWalk(access.addr)' # Unmapped
                    /\ \A a \in Addrs : HardwareWalk(a) # Unmapped =>
                         HardwareWalk(a)' = HardwareWalk(a)
  OBVIOUS
<1>1. WalkIsIdentity
  BY WalkValue
<1>2. WalkIsIdentity'
  <2>1. EptInv'
    BY EptInvStep
  <2> QED
    BY <2>1, WalkValue, PTL
<1>3. CASE HandleEptViolation
  <2> DEFINE b == access.addr
  <2>1. b \in Addrs /\ b \in Nat /\ access' = access
    BY <1>3, AccessFacts DEF HandleEptViolation, EptInv, ExitOK
  <2>2. PageOf(b) \in Directory
    BY <1>3, <2>1, BelowLimit, SizesAreNat DEF HandleEptViolation, PanicsOn, Limit
  <2>3. initialized' = TRUE
    BY <1>3 DEF HandleEptViolation, PopulateUpperLevels, EptInv, TypeOK
  <2>4. pd \in [Directory -> Entry] /\ pd' = [pd EXCEPT ![PageOf(b)] = LeafEntry(b)]
    BY <1>3 DEF HandleEptViolation, EptInv, TypeOK, Directory
  <2>5. LeafEntry(b) # Zero
    BY DEF LeafEntry, Zero
  <2>6. pd'[PageOf(b)] # Zero
    BY <2>2, <2>4, <2>5
  <2>7. ASSUME NEW i \in Directory, pd[i] # Zero PROVE pd'[i] # Zero
    BY <2>2, <2>4, <2>6, <2>7
  <2>8. Unmapped \notin Addrs
    BY SizesAreNat DEF Unmapped, Addrs
  <2>9. HardwareWalk(access.addr)' # Unmapped
    BY <1>2, <2>1, <2>2, <2>3, <2>6, <2>8 DEF WalkIsIdentity
  <2>10. ASSUME NEW a \in Addrs, HardwareWalk(a) # Unmapped
         PROVE  HardwareWalk(a)' = HardwareWalk(a)
    <3>1. HardwareWalk(a) = a /\ PageOf(a) \in Directory /\ pd[PageOf(a)] # Zero
      BY <1>1, <2>10 DEF WalkIsIdentity
    <3>2. pd'[PageOf(a)] # Zero
      BY <2>7, <3>1
    <3> QED
      BY <1>2, <2>3, <3>1, <3>2 DEF WalkIsIdentity
  <2> QED
    BY <2>9, <2>10
<1>4. CASE ~HandleEptViolation
  <2>1. UNCHANGED eptVars
    BY <1>4 DEF Next, vars, GuestIssue, GuestAccess, EptViolationExit,
                EptViolationPanic
  <2>2. \A a \in Addrs : HardwareWalk(a)' = HardwareWalk(a)
    BY <2>1 DEF eptVars, HardwareWalk
  <2>3. exited => exited'
    BY <1>4 DEF Next, vars, GuestIssue, GuestAccess, EptViolationExit,
                EptViolationPanic
  <2> QED
    BY <2>2, <2>3
<1> QED
  BY <1>3, <1>4

\* A page is populated by one violation and never faults again.
THEOREM ViolationsAreTakenOnce == Spec => ViolationTakenOnce
<1>1. EptInv /\ [Next]_vars =>
        [/\ exited /\ ~exited' => HardwareWalk(access.addr)' # Unmapped
         /\ \A a \in Addrs :
              HardwareWalk(a) # Unmapped => HardwareWalk(a)' = HardwareWalk(a)]_vars
  BY HandlerMaps
<1> QED
  BY <1>1, EptInvariant, PTL DEF Spec, ViolationTakenOnce
=============================================================================
