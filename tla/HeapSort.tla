------------------------------ MODULE HeapSort ------------------------------
(***************************************************************************)
(* sort() of lib/sort.c: a heapsort in place, used by __e820_update_table  *)
(* on the change points.  Counters are not scaled by the element size.     *)
(* Elements with the same key are told apart by a tag, so that losing one  *)
(* and duplicating another shows.                                          *)
(***************************************************************************)
EXTENDS Integers

CONSTANTS
  MaxNum,   \* bound: elements of the array
  Keys      \* what cmp_func compares

ASSUME HeapSortConstants == MaxNum \in Nat /\ Keys \subseteq Int

VARIABLES
  num,     \* number of elements
  input,   \* the array as given
  a,       \* base
  phase,   \* "heapify": sifting while building the heap;  "pop": at the head
           \* of the second loop;  "sift": sifting in it;  "done"
  i,       \* outer counter
  r        \* the element being sifted down

sortVars == <<num, input, a, phase, i, r>>

Elements == [key : Keys, tag : 0 .. (MaxNum - 1)]

\* i = num/2 - 1; the first loop is not entered if that is negative.
SortInit ==
  /\ num \in 0 .. MaxNum
  /\ \E keys \in [0 .. (num - 1) -> Keys] :
       input = [k \in 0 .. (num - 1) |-> [key |-> keys[k], tag |-> k]]
  /\ a = input
  /\ i = IF num \div 2 >= 1 THEN (num \div 2) - 1 ELSE num - 1
  /\ phase = IF num \div 2 >= 1 THEN "heapify" ELSE "pop"
  /\ r = IF num \div 2 >= 1 THEN (num \div 2) - 1 ELSE 0

cmp_func(x, y) == a[x].key - a[y].key

swap_func(x, y) == [a EXCEPT ![x] = a[y], ![y] = a[x]]

\* The elements a sift may still move: the whole array in the first loop,
\* those before i in the second.
Bound == IF phase = "heapify" THEN num ELSE i

\* Mutant of Child: always the left one.
Child_Left == r * 2 + 1

\* c: the child of r to compare with.
Child ==
  LET c == r * 2 + 1
  IN  IF c < Bound - 1 /\ cmp_func(c, c + 1) < 0 THEN c + 1 ELSE c

Sifting == phase \in {"heapify", "sift"}

SiftEnds == r * 2 + 1 < Bound => cmp_func(r, Child) >= 0

SiftDown ==
  /\ Sifting
  /\ ~SiftEnds
  /\ a' = swap_func(r, Child)
  /\ r' = Child
  /\ UNCHANGED <<num, input, phase, i>>

HeapifyNext ==
  /\ phase = "heapify"
  /\ SiftEnds
  /\ IF i > 0
     THEN /\ i' = i - 1
          /\ r' = i - 1
          /\ phase' = phase
     ELSE /\ i' = num - 1
          /\ r' = 0
          /\ phase' = "pop"
  /\ UNCHANGED <<num, input, a>>

\* The largest element goes to the end of the part not yet sorted.
Pop ==
  /\ phase = "pop"
  /\ i > 0
  /\ a' = swap_func(0, i)
  /\ r' = 0
  /\ phase' = "sift"
  /\ UNCHANGED <<num, input, i>>

\* Mutant of SortNext: the counter of the second loop stands still.
SortNext_NoDecrement ==
  /\ phase = "sift"
  /\ SiftEnds
  /\ i' = i
  /\ phase' = "pop"
  /\ UNCHANGED <<num, input, a, r>>

SortNext ==
  /\ phase = "sift"
  /\ SiftEnds
  /\ i' = i - 1
  /\ phase' = "pop"
  /\ UNCHANGED <<num, input, a, r>>

Finish ==
  /\ phase = "pop"
  /\ i <= 0
  /\ phase' = "done"
  /\ UNCHANGED <<num, input, a, i, r>>

SortStep == SiftDown \/ HeapifyNext \/ Pop \/ SortNext \/ Finish

-----------------------------------------------------------------------------
(***************************************************************************)
(* Properties.                                                             *)
(***************************************************************************)
Index == 0 .. (num - 1)

\* The type invariant; in particular no index leaves the array.
SortTypeOK ==
  /\ num \in 0 .. MaxNum
  /\ input \in [Index -> Elements]
  /\ a \in [Index -> Elements]
  /\ phase \in {"heapify", "pop", "sift", "done"}
  /\ i \in -1 .. (num - 1)
  /\ Sifting => r \in Index /\ i \in Index

Parent(k) == (k - 1) \div 2

\* Between the iterations of the second loop of sort() the part not yet
\* sorted is a heap, and the sorted part behind it is in order and holds
\* nothing smaller.
HeapThenSorted ==
  phase = "pop" =>
    /\ \A k \in 1 .. i : a[Parent(k)].key >= a[k].key
    /\ \A k \in (i + 1) .. (num - 2) : a[k].key <= a[k + 1].key
    /\ \A j \in 0 .. i, k \in (i + 1) .. (num - 1) : a[j].key <= a[k].key

\* What __e820_update_table needs of sort(): the result is in order, and it
\* holds the elements it was given, each once.
SortsItsInput ==
  phase = "done" =>
    /\ \A k \in 1 .. (num - 1) : a[k - 1].key <= a[k].key
    /\ {a[k] : k \in Index} = {input[k] : k \in Index}

\* sort() never leaves its array, keeps heap and sorted part apart through
\* every iteration, and ends with its input in order.
SortIsCorrect == SortTypeOK /\ HeapThenSorted /\ SortsItsInput
=============================================================================
