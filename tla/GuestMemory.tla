---------------------------- MODULE GuestMemory ----------------------------
(***************************************************************************)
(* What lvisor promises a guest about physical memory, with nothing said   *)
(* of page tables or VM exits: a flat memory below Limit, minus the range  *)
(* the monitor itself occupies.  A guest access inside that memory takes   *)
(* effect once, at the address the guest named; an access outside it stops *)
(* the machine and changes nothing.                                        *)
(*                                                                         *)
(* Ept.tla, the model of the lazily filled extended page tables of         *)
(* vmm/kvm.c, implements this specification.                               *)
(***************************************************************************)
EXTENDS Naturals

CONSTANTS
  Addrs,     \* guest-physical addresses a guest can name
  Values,    \* contents of a memory cell
  Allowed,   \* the addresses that belong to the guest
  NoAccess   \* no access is outstanding

Access == [op : {"read", "write"}, addr : Addrs, val : Values]

VARIABLES
  mem,      \* the cells of physical memory
  access,   \* the access the guest is executing, or NoAccess
  seen,     \* the value the last completed read returned
  halted    \* the monitor stopped the machine

vars == <<mem, access, seen, halted>>

Init ==
  /\ mem \in [Addrs -> Values]
  /\ access = NoAccess
  /\ seen \in Values
  /\ halted = FALSE

Issue ==
  /\ ~halted
  /\ access = NoAccess
  /\ access' \in Access
  /\ UNCHANGED <<mem, seen, halted>>

Complete ==
  /\ ~halted
  /\ access # NoAccess
  /\ access.addr \in Allowed
  /\ IF access.op = "write"
     THEN /\ mem' = [mem EXCEPT ![access.addr] = access.val]
          /\ seen' = seen
     ELSE /\ seen' = mem[access.addr]
          /\ mem' = mem
  /\ access' = NoAccess
  /\ UNCHANGED halted

Stop ==
  /\ ~halted
  /\ access # NoAccess
  /\ access.addr \notin Allowed
  /\ halted' = TRUE
  /\ UNCHANGED <<mem, access, seen>>

Next == Issue \/ Complete \/ Stop

Spec == Init /\ [][Next]_vars

\* The guest is not obliged to issue an access; one it issued is resolved.
FairSpec == Spec /\ WF_vars(Complete \/ Stop)
=============================================================================
