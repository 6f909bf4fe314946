-------------------------------- MODULE E820 --------------------------------
(***************************************************************************)
(* The physical memory map of the guest: kernel/e820.c as multiboot_init   *)
(* (vmm/multiboot.c) and kvm_init (vmm/kvm.c) drive it at boot.            *)
(*                                                                         *)
(*   add     e820_range_add_multiboot copies the boot loader's regions;    *)
(*   sweep   __e820_update_table sorts the change points and sweeps over   *)
(*           them, removing overlaps in favour of the highest type;        *)
(*   check   e820_mapped_all: is the monitor's image in RAM?               *)
(*   update  __e820_range_update takes the image out of RAM;               *)
(*   done    kvm_init copied the table for the guest.                      *)
(*                                                                         *)
(* Each loop iteration is a step.  sort() is represented by its contract:  *)
(* the sweep may take equal change points in any order (HeapSort).         *)
(* Addresses are counted modulo M, for 2^64.                               *)
(***************************************************************************)
EXTENDS Integers, Sequences, FiniteSetsExt

CONSTANTS
  M,             \* addresses wrap at M
  Regions,       \* regions the loader may report: <<addr, size>>
  Types,         \* memory types it may report
  MaxInput,      \* bound: regions it reports
  MaxEntries,    \* E820_MAX_ENTRIES
  VmmStart,      \* _start
  VmmEnd         \* _end

E820_TYPE_RAM == 1
E820_TYPE_RESERVED == 2

ASSUME E820Constants ==
  /\ M \in Nat \ {0}
  /\ Regions \subseteq (0 .. (M - 1)) \X (0 .. (M - 1))
  /\ Types \subseteq Nat \ {0}
  /\ MaxInput \in Nat
  /\ MaxEntries \in Nat \ {0}
  /\ VmmStart \in 0 .. (M - 1)
  /\ VmmEnd \in 0 .. (M - 1)
  /\ VmmStart < VmmEnd

VARIABLES
  phase,      \* "add", "sweep", "check", "update", "done" or "panic"
  given,      \* the regions reported by the loader
  entries,    \* e820_table
  accepted,   \* e820_table as it was before the sweep
  points,     \* change points the sweep has not reached
  overlap,    \* overlap_list: indices of the entries around the sweep point
  out,        \* new_entries
  last,       \* last_type and last_addr
  i,          \* loop index of "check" and "update"
  start       \* the variable start of e820_mapped_all

vars == <<phase, given, entries, accepted, points, overlap, out, last, i, start>>

Entry(a, s, t) == [addr |-> a, size |-> s, type |-> t]

End(e) == (e.addr + e.size) % M

Covers(e, a) == e.addr <= a /\ a < e.addr + e.size

\* Reference definition: the highest type of the entries of tab that contain
\* address a, or 0.
TypeAt(tab, a) == Max({0} \cup {tab[k].type : k \in {k \in DOMAIN tab : Covers(tab[k], a)}})

-----------------------------------------------------------------------------
(***************************************************************************)
(* __e820_range_add: an entry that finds the table full is dropped.        *)
(***************************************************************************)
e820_range_add(tab, a, s, t) ==
  IF Len(tab) >= MaxEntries THEN tab ELSE Append(tab, Entry(a, s, t))

Init ==
  /\ phase = "add"
  /\ given = <<>>
  /\ entries = <<>>
  /\ accepted = <<>>
  /\ points = {}
  /\ overlap = {}
  /\ out = <<>>
  /\ last = [type |-> 0, addr |-> 0]
  /\ i = 1
  /\ start = VmmStart

\* One turn of the loop of e820_range_add_multiboot.
AddRegion ==
  /\ phase = "add"
  /\ Len(given) < MaxInput
  /\ \E r \in Regions, t \in Types :
       /\ given' = Append(given, Entry(r[1], r[2], t))
       /\ entries' = e820_range_add(entries, r[1], r[2], t)
  /\ UNCHANGED <<phase, accepted, points, overlap, out, last, i, start>>

-----------------------------------------------------------------------------
(***************************************************************************)
(* __e820_update_table.                                                    *)
(***************************************************************************)

\* Too few entries, or an entry that wraps around: it returns -1, and
\* e820_update_table panics.
Unsanitizable(tab) ==
  \/ Len(tab) < 2
  \/ \E k \in DOMAIN tab : End(tab[k]) < tab[k].addr

\* Start and end of every entry that is not empty.
ChangePoints(tab) ==
  UNION {{[addr |-> tab[k].addr, entry |-> k, end |-> FALSE],
          [addr |-> End(tab[k]), entry |-> k, end |-> TRUE]}
           : k \in {k \in DOMAIN tab : tab[k].size # 0}}

StartSweep ==
  /\ phase = "add"
  /\ ~Unsanitizable(entries)
  /\ phase' = "sweep"
  /\ accepted' = entries
  /\ points' = ChangePoints(entries)
  /\ UNCHANGED <<given, entries, overlap, out, last, i, start>>

SanitizePanics ==
  /\ phase = "add"
  /\ Unsanitizable(entries)
  /\ phase' = "panic"
  /\ UNCHANGED <<given, entries, accepted, points, overlap, out, last, i, start>>

\* cpcompare: by address; at the same address a start before an end.
cpcompare(p, q) == p.addr < q.addr \/ (p.addr = q.addr /\ ~p.end /\ q.end)

NextPoints == {p \in points : \A q \in points : ~cpcompare(q, p)}

\* Mutant of CurrentType: the lowest type wins.
CurrentType_Lowest(set) ==
  IF set = {} THEN 0 ELSE Min({entries[k].type : k \in set})

CurrentType(set) == Max({0} \cup {entries[k].type : k \in set})

\* One turn of the loop: the entry that ends here is completed, unless it is
\* empty; the loop stops when the new table is full.
SweepPoint ==
  /\ phase = "sweep"
  /\ \E p \in NextPoints :
       LET ov      == IF p.end THEN overlap \ {p.entry} ELSE overlap \cup {p.entry}
           type    == CurrentType(ov)
           changed == type # last.type
           emit    == changed /\ last.type # 0 /\ p.addr # last.addr
           new     == IF emit
                      THEN Append(out, Entry(last.addr, p.addr - last.addr, last.type))
                      ELSE out
           full    == emit /\ Len(new) >= MaxEntries
       IN  /\ overlap' = ov
           /\ out' = new
           /\ points' = IF full THEN {} ELSE points \ {p}
           /\ last' = IF full \/ ~changed THEN last
                      ELSE [type |-> type, addr |-> IF type # 0 THEN p.addr ELSE last.addr]
  /\ UNCHANGED <<phase, given, entries, accepted, i, start>>

\* The new entries are copied over the table.
FinishSweep ==
  /\ phase = "sweep"
  /\ points = {}
  /\ entries' = out
  /\ phase' = "check"
  /\ UNCHANGED <<given, accepted, points, overlap, out, last, i, start>>

-----------------------------------------------------------------------------
\* Mutant of StartAfter: a gap before the entry goes unnoticed.
StartAfter_IgnoresGaps(e) ==
  IF e.type # E820_TYPE_RAM \/ e.addr >= VmmEnd \/ End(e) <= start
  THEN start ELSE End(e)

(***************************************************************************)
(* BUG_ON(!e820_mapped_all(_start, _end, E820_TYPE_RAM)).                  *)
(***************************************************************************)
StartAfter(e) ==
  IF e.type # E820_TYPE_RAM \/ e.addr >= VmmEnd \/ End(e) <= start \/ e.addr > start
  THEN start ELSE End(e)

\* Mutant of CheckEntry: the index does not advance over a skipped entry.
CheckEntry_Stuck ==
  /\ phase = "check"
  /\ i <= Len(entries)
  /\ start' = StartAfter(entries[i])
  /\ IF start' >= VmmEnd
     THEN phase' = "update" /\ i' = 1
     ELSE phase' = phase /\ i' = IF start' = start THEN i ELSE i + 1
  /\ UNCHANGED <<given, entries, accepted, points, overlap, out, last>>

\* start >= end is only looked at after an entry that overlaps the range.
CheckEntry ==
  /\ phase = "check"
  /\ i <= Len(entries)
  /\ start' = StartAfter(entries[i])
  /\ IF start' >= VmmEnd
     THEN phase' = "update" /\ i' = 1
     ELSE phase' = phase /\ i' = i + 1
  /\ UNCHANGED <<given, entries, accepted, points, overlap, out, last>>

CheckFails ==
  /\ phase = "check"
  /\ i > Len(entries)
  /\ phase' = "panic"
  /\ UNCHANGED <<given, entries, accepted, points, overlap, out, last, i, start>>

-----------------------------------------------------------------------------
\* Mutant of UpdateEntry: a split entry keeps its size.
UpdateEntry_KeepsSize(tab, k) ==
  LET e == tab[k]
  IN  IF e.type # E820_TYPE_RAM THEN tab
      ELSE IF e.addr >= VmmStart /\ End(e) <= VmmEnd
      THEN [tab EXCEPT ![k].type = E820_TYPE_RESERVED]
      ELSE e820_range_add(tab, VmmStart, VmmEnd - VmmStart, E820_TYPE_RESERVED)

(***************************************************************************)
(* e820_range_update(_start, _end - _start, RAM, RESERVED).  The loop also *)
(* visits the entries it appends.                                          *)
(***************************************************************************)
UpdateEntry(tab, k) ==
  LET e    == tab[k]
      fs   == Max({VmmStart, e.addr})        \* final_start
      fe   == Min({VmmEnd, End(e)})          \* final_end
      size == VmmEnd - VmmStart
  IN  IF e.type # E820_TYPE_RAM THEN tab
      ELSE IF e.addr >= VmmStart /\ End(e) <= VmmEnd          \* covered
      THEN [tab EXCEPT ![k].type = E820_TYPE_RESERVED]
      ELSE IF e.addr < VmmStart /\ End(e) > VmmEnd            \* covers
      THEN LET mid == e820_range_add(tab, VmmStart, size, E820_TYPE_RESERVED)
               all == e820_range_add(mid, VmmEnd, End(e) - VmmEnd, e.type)
           IN  [all EXCEPT ![k].size = VmmStart - e.addr]
      ELSE IF fs >= fe THEN tab                               \* apart
      ELSE LET all == e820_range_add(tab, fs, fe - fs, E820_TYPE_RESERVED)
           IN  [all EXCEPT ![k].size = @ - (fe - fs),
                           ![k].addr = IF @ < fs THEN @ ELSE fe]

UpdateStep ==
  /\ phase = "update"
  /\ i <= Len(entries)
  /\ entries' = UpdateEntry(entries, i)
  /\ i' = i + 1
  /\ UNCHANGED <<phase, given, accepted, points, overlap, out, last, start>>

\* kvm_init copies the table into guest_params, which has the same size.
FinishUpdate ==
  /\ phase = "update"
  /\ i > Len(entries)
  /\ phase' = "done"
  /\ UNCHANGED <<given, entries, accepted, points, overlap, out, last, i, start>>

Next ==
  \/ AddRegion
  \/ StartSweep
  \/ SanitizePanics
  \/ SweepPoint
  \/ FinishSweep
  \/ CheckEntry
  \/ CheckFails
  \/ UpdateStep
  \/ FinishUpdate

Spec == Init /\ [][Next]_vars

\* Boot is one thread of control that never waits.
FairSpec == Spec /\ WF_vars(Next)

-----------------------------------------------------------------------------
(***************************************************************************)
(* Properties.                                                             *)
(***************************************************************************)
Entries == [addr : 0 .. (M - 1), size : 0 .. (M - 1), type : Nat]

\* The type invariant; no table outgrows its array.
TypeOK ==
  /\ phase \in {"add", "sweep", "check", "update", "done", "panic"}
  /\ given \in Seq(Entries)
  /\ entries \in Seq(Entries) /\ Len(entries) <= MaxEntries
  /\ accepted \in Seq(Entries)
  /\ points \subseteq [addr : 0 .. (M - 1), entry : DOMAIN entries, end : BOOLEAN]
  /\ overlap \subseteq DOMAIN accepted
  /\ out \in Seq(Entries) /\ Len(out) <= MaxEntries
  /\ last \in [type : Nat, addr : 0 .. (M - 1)]
  /\ i \in 1 .. (MaxEntries + 1)
  /\ start \in 0 .. (M - 1)

Full == Len(out) = MaxEntries

\* "Sanitized equivalent (no overlap)": the new map is sorted, its entries
\* are not empty and do not overlap, and neighbours of one type are merged.
SanitizedIsDisjoint ==
  /\ \A k \in DOMAIN out : out[k].size > 0
  /\ \A k \in 1 .. (Len(out) - 1) :
       \/ End(out[k]) < out[k + 1].addr
       \/ End(out[k]) = out[k + 1].addr /\ out[k].type # out[k + 1].type

\* "resolving conflicting memory types in favor of highest numbered type":
\* when the sweep is over every address has the type that the highest of
\* the overlapping regions gives it.  A full table may only lose addresses.
SanitizedIsHighestType ==
  phase = "check" =>
    \A a \in 0 .. (M - 1) :
      \/ TypeAt(entries, a) = TypeAt(accepted, a)
      \/ Full /\ TypeAt(entries, a) = 0

\* e820_mapped_all answers yes exactly if all of [_start, _end) is RAM, and
\* the monitor boots on no other map.
MappedAllIsExact ==
  LET vmmInRam == \A a \in VmmStart .. (VmmEnd - 1) : TypeAt(out, a) = E820_TYPE_RAM
  IN  /\ phase = "update" => vmmInRam
      /\ phase = "panic" /\ accepted # <<>> => ~vmmInRam

\* The map handed to the guest calls an address RAM only if no accepted
\* region gives it another type and it is not the monitor's, even when the
\* table overflowed during the sweep or the update.
GuestMapIsSafe ==
  phase = "done" =>
    \A a \in 0 .. (M - 1), k \in DOMAIN entries :
      Covers(entries[k], a) /\ entries[k].type = E820_TYPE_RAM =>
        TypeAt(accepted, a) = E820_TYPE_RAM /\ a \notin VmmStart .. (VmmEnd - 1)

\* With room in the table, nothing but the monitor's image is taken from
\* the guest, and the image shows up as reserved.
GuestMapIsExact ==
  phase = "done" /\ Len(entries) < MaxEntries =>
    \A a \in 0 .. (M - 1) :
      TypeAt(entries, a) = IF a \in VmmStart .. (VmmEnd - 1)
                           THEN E820_TYPE_RESERVED ELSE TypeAt(accepted, a)

\* The boot sequence comes to an end, although __e820_range_update appends
\* to the table it walks.
BootTerminates == <>(phase \in {"done", "panic"})

\* What kvm_init relies on after e820__update_table: a map that fits its
\* array, sorted and without overlap, in which every address has the highest
\* type that was given for it.
SanitizedIsExact == TypeOK /\ SanitizedIsDisjoint /\ SanitizedIsHighestType

\* What the guest is given after e820_range_update: exactly the loader's map
\* without the monitor where there was room, and never memory that is not its
\* own where there was none.
GuestMapIsRight == GuestMapIsSafe /\ GuestMapIsExact
=============================================================================
