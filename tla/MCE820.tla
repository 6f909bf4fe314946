------------------------------- MODULE MCE820 -------------------------------
(***************************************************************************)
(* E820 on eight addresses with the monitor at [2, 4): every non-empty     *)
(* region that ends at 6 or below, an empty one, and two that reach or     *)
(* pass the end of the address space.                                      *)
(***************************************************************************)
EXTENDS E820

MCRegions ==
  {r \in (0 .. 5) \X (1 .. 6) : r[1] + r[2] <= 6}
    \cup {<<3, 0>>, <<6, 2>>, <<7, 3>>}
=============================================================================
