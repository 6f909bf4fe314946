--------------------------- MODULE LibraryProofs ---------------------------
(***************************************************************************)
(* Proofs about the shared library: sort() for arrays of every length and  *)
(* keys of every value, the decimal conversion of vsprintf.c, strscpy()    *)
(* for every source, also one that changes under the copy, and the lists   *)
(* of list.h, which implement ListSpec store by store.                     *)
(***************************************************************************)
EXTENDS Library, TLAPS, WellFoundedInduction, FiniteSetTheorems

-----------------------------------------------------------------------------
(***************************************************************************)
(* sort().  While an element is sifted down, the part of the array that is *)
(* being made a heap is one except at that element, and the element's      *)
(* parent is not smaller than the element's children.                      *)
(***************************************************************************)

\* The first index whose children are in heap order with it, but for r.
Low == IF phase = "heapify" THEN i ELSE 0

SiftInv ==
  Sifting =>
    /\ r \in Low .. (Bound - 1)
    /\ \A k \in 1 .. (Bound - 1) :
         Parent(k) >= Low /\ Parent(k) # r => a[Parent(k)].key >= a[k].key
    /\ \A k \in 1 .. (Bound - 1) :
         Parent(k) = r /\ Parent(r) >= Low => a[Parent(r)].key >= a[k].key

\* The end of the array from n on is in order and holds nothing smaller than
\* the rest.
SortedFrom(n) ==
  /\ \A k \in n .. (num - 2) : a[k].key <= a[k + 1].key
  /\ \A j \in 0 .. (n - 1), k \in n .. (num - 1) : a[j].key <= a[k].key

Permutes ==
  /\ {a[k] : k \in Index} = {input[k] : k \in Index}
  /\ \A j, k \in Index : a[j] = a[k] => j = k

SortInv ==
  /\ SortTypeOK
  /\ phase \in {"heapify", "sift"} => num > 0
  /\ phase = "sift" => i > 0
  /\ phase = "pop" => (num = 0 \/ i >= 0)
  /\ phase = "done" => i <= 0
  /\ SiftInv
  /\ HeapThenSorted
  /\ phase = "sift" => SortedFrom(i)
  /\ phase = "done" => SortedFrom(0)
  /\ Permutes

\* A set of natural numbers that is not empty has a least element.  (The
\* form in which induction is used below.)
LEMMA LeastNatural ==
  ASSUME NEW T \in SUBSET Nat, T # {}
  PROVE  \E x \in T : \A y \in T : x <= y
<1> DEFINE less == {ss \in Nat \X Nat : ss[1] < ss[2]}
<1>1. IsWellFoundedOn(less, Nat)
  BY NatLessThanWellFounded, Zenon DEF OpToRel
<1> HIDE DEF less
<1>2. PICK x \in T : \A y \in T : ~ (<<y, x>> \in less)
  BY <1>1, WFMin
<1>3. \A y \in T : ~ (y < x)
  BY <1>2 DEF less
<1> QED
  BY <1>3

\* The parent of an index, and the indices it is the parent of.
LEMMA ParentFacts ==
  ASSUME NEW k \in Nat
  PROVE  /\ Parent(k) \in Int
         /\ k > 0 => Parent(k) \in 0 .. (k - 1)
         /\ k = 0 => Parent(k) = -1
         /\ \A m \in Int : Parent(k) = m <=> (k = 2 * m + 1 \/ k = 2 * m + 2)
  BY DEF Parent

\* The root of a heap is its largest element.
LEMMA RootIsLargest ==
  ASSUME NEW n \in Nat, NEW f, \A k \in 0 .. n : f[k].key \in Int,
         \A k \in 1 .. n : f[Parent(k)].key >= f[k].key
  PROVE  \A k \in 0 .. n : f[k].key <= f[0].key
<1> DEFINE T == {k \in 0 .. n : ~(f[k].key <= f[0].key)}
<1> SUFFICES ASSUME T # {} PROVE FALSE
  OBVIOUS
<1>1. PICK x \in T : \A y \in T : x <= y
  <2>1. T \in SUBSET Nat
    OBVIOUS
  <2> QED
    BY <2>1, LeastNatural
<1>2. x \in 1 .. n
  OBVIOUS
<1>3. Parent(x) \in 0 .. (x - 1)
  BY <1>2, ParentFacts
<1>4. Parent(x) \notin T
  BY <1>1, <1>2, <1>3
<1> QED
  BY <1>2, <1>3, <1>4

\* The array keeps its elements when two of them change places.
LEMMA SwapPermutes ==
  ASSUME SortInv, NEW x \in Index, NEW y \in Index,
         a' = swap_func(x, y), UNCHANGED <<num, input>>
  PROVE  /\ a' \in [Index -> Elements]
         /\ Permutes'
         /\ \A k \in Index : a'[k] = IF k = x THEN a[y] ELSE IF k = y THEN a[x] ELSE a[k]
<1>1. a \in [Index -> Elements]
  BY DEF SortInv, SortTypeOK
<1>2. \A k \in Index : a'[k] = IF k = x THEN a[y] ELSE IF k = y THEN a[x] ELSE a[k]
  BY <1>1 DEF swap_func
<1>3. a' \in [Index -> Elements]
  BY <1>1 DEF swap_func
<1>4. {a'[k] : k \in Index} = {a[k] : k \in Index}
  <2>1. \A k \in Index : a'[k] \in {a[m] : m \in Index}
    BY <1>2
  <2>2. \A k \in Index : a[k] \in {a'[m] : m \in Index}
    <3> SUFFICES ASSUME NEW k \in Index PROVE \E m \in Index : a'[m] = a[k]
      OBVIOUS
    <3>1. CASE k = x
      BY <3>1, <1>2
    <3>2. CASE k = y
      BY <3>2, <1>2
    <3>3. CASE k # x /\ k # y
      BY <3>3, <1>2
    <3> QED
      BY <3>1, <3>2, <3>3
  <2> QED
    BY <2>1, <2>2
<1>5. Index' = Index
  BY DEF Index
<1>6. \A j, k \in Index : a'[j] = a'[k] => j = k
  BY <1>2 DEF SortInv, Permutes
<1>7. {a[k] : k \in Index} = {input[k] : k \in Index}
  BY DEF SortInv, Permutes
<1>8. Permutes'
  BY <1>4, <1>5, <1>6, <1>7 DEF Permutes
<1> QED
  BY <1>2, <1>3, <1>8

\* What is known of the element that changes places with r.
LEMMA ChildFacts ==
  ASSUME SortInv, Sifting, r * 2 + 1 < Bound
  PROVE  /\ Child \in Index /\ Child < Bound /\ Parent(Child) = r /\ Child > r
         /\ \A k \in Index : k < Bound /\ Parent(k) = r => a[Child].key >= a[k].key
<1>1. /\ num \in Nat /\ i \in Index /\ r \in Index /\ Bound \in Int /\ Bound <= num
      /\ \A k \in Index : a[k].key \in Int
  <2>1. num \in Nat /\ i \in Index /\ r \in Index /\ a \in [Index -> Elements]
    BY HeapSortConstants DEF SortInv, SortTypeOK
  <2>2. \A k \in Index : a[k].key \in Int
    BY <2>1, HeapSortConstants DEF Elements
  <2> QED
    BY <2>1, <2>2 DEF Bound, Index
<1>2. Child \in {2 * r + 1, 2 * r + 2} /\ Child < Bound
  BY <1>1 DEF Child, Index
<1>3. Child \in Index /\ Parent(Child) = r /\ Child > r
  BY <1>1, <1>2 DEF Index, Parent
<1>4. ASSUME NEW k \in Index, k < Bound, Parent(k) = r PROVE a[Child].key >= a[k].key
  <2>1. k = 2 * r + 1 \/ k = 2 * r + 2
    BY <1>1, <1>4, ParentFacts DEF Index
  <2>2. 2 * r + 1 \in Index /\ (2 * r + 1 < Bound - 1 => 2 * r + 2 \in Index)
    BY <1>1 DEF Index
  <2>3. a[r].key \in Int /\ a[Child].key \in Int /\ a[2 * r + 1].key \in Int /\ a[k].key \in Int
    BY <1>1, <1>3, <1>4, <2>2
  <2>4. CASE 2 * r + 1 < Bound - 1
    <3>1. a[2 * r + 2].key \in Int /\ r * 2 + 1 = 2 * r + 1 /\ (r * 2 + 1) + 1 = 2 * r + 2
      BY <1>1, <2>2, <2>4 DEF Index
    <3>2. Child = IF a[2 * r + 1].key - a[2 * r + 2].key < 0 THEN 2 * r + 2 ELSE 2 * r + 1
      BY <3>1, <2>4 DEF Child, cmp_func
    <3> QED
      BY <3>1, <3>2, <2>1, <2>3
  <2>5. CASE ~(2 * r + 1 < Bound - 1)
    <3>1. k = 2 * r + 1
      BY <2>1, <2>5, <1>1, <1>4 DEF Index
    <3>2. Child = 2 * r + 1
      BY <1>1, <2>5 DEF Child, Index
    <3> QED
      BY <3>1, <3>2, <2>3
  <2> QED
    BY <2>4, <2>5
<1> QED
  BY <1>2, <1>3, <1>4

\* The types the steps below need.
LEMMA SortTypes ==
  ASSUME SortInv
  PROVE  /\ num \in Nat /\ i \in Int /\ i >= -1 /\ i <= num - 1
         /\ Sifting => r \in Index /\ i \in Index
         /\ a \in [Index -> Elements]
         /\ \A k \in Index : a[k].key \in Int
<1>1. num \in 0 .. MaxNum /\ i \in -1 .. (num - 1) /\ a \in [Index -> Elements]
  BY DEF SortInv, SortTypeOK
<1>2. num \in Nat /\ i \in Int /\ i >= -1 /\ i <= num - 1
  BY <1>1, HeapSortConstants
<1>3. \A k \in Index : a[k].key \in Int
  BY <1>1, HeapSortConstants DEF Elements
<1> QED
  BY <1>1, <1>2, <1>3 DEF SortInv, SortTypeOK

\* One exchange of a sift keeps the part being sifted a heap but for the
\* place the element has moved to.
LEMMA SiftDownStep ==
  ASSUME SortInv, SiftDown
  PROVE  SortInv'
<1> DEFINE c == Child
           B == Bound
<1>1. Sifting /\ r * 2 + 1 < B /\ cmp_func(r, c) < 0
  <2>1. Sifting /\ ~SiftEnds
    BY DEF SiftDown
  <2>2. r * 2 + 1 < B /\ ~(cmp_func(r, c) >= 0)
    BY <2>1 DEF SiftEnds
  <2>3. cmp_func(r, c) \in Int
    BY <2>1, <2>2, SortTypes, ChildFacts DEF cmp_func
  <2> QED
    BY <2>1, <2>2, <2>3
<1>2. /\ c \in Index /\ c < B /\ Parent(c) = r /\ c > r
      /\ \A k \in Index : k < B /\ Parent(k) = r => a[c].key >= a[k].key
  BY <1>1, ChildFacts
<1>3. /\ num \in Nat /\ i \in Index /\ r \in Index /\ \A k \in Index : a[k].key \in Int
      /\ B \in Int /\ B <= num
  BY <1>1, SortTypes DEF Bound, Index
<1>4. /\ UNCHANGED <<num, input, phase, i>> /\ r' = c /\ a' = swap_func(r, c)
  BY DEF SiftDown
<1>5. /\ Index' = Index /\ Bound' = B /\ Low' = Low /\ Sifting'
  BY <1>1, <1>4 DEF Index, Bound, Low, Sifting
<1> HIDE DEF c, B
<1>6. /\ a' \in [Index -> Elements]
      /\ Permutes'
      /\ \A k \in Index : a'[k] = IF k = r THEN a[c] ELSE IF k = c THEN a[r] ELSE a[k]
  BY <1>2, <1>3, <1>4, SwapPermutes
<1>7. a[c].key > a[r].key
  BY <1>1, <1>2, <1>3 DEF cmp_func, c
<1>8. SortTypeOK'
  <2>1. SortTypeOK
    BY DEF SortInv
  <2>2. r' \in Index' /\ i' \in Index' /\ a' \in [Index' -> Elements]
    BY <1>2, <1>3, <1>4, <1>5, <1>6
  <2>3. input' \in [Index' -> Elements] /\ num' \in 0 .. MaxNum /\ i' \in -1 .. (num' - 1)
        /\ phase' \in {"heapify", "pop", "sift", "done"}
    BY <2>1, <1>4, <1>5 DEF SortTypeOK
  <2> QED
    BY <2>2, <2>3 DEF SortTypeOK, Elements
<1>9. SiftInv'
  <2>1. /\ r \in Low .. (B - 1)
        /\ \A k \in 1 .. (B - 1) :
             Parent(k) >= Low /\ Parent(k) # r => a[Parent(k)].key >= a[k].key
        /\ \A k \in 1 .. (B - 1) :
             Parent(k) = r /\ Parent(r) >= Low => a[Parent(r)].key >= a[k].key
    BY <1>1 DEF SortInv, SiftInv, B
  <2>2. Low \in Int
    BY <1>3 DEF Low, Index
  <2>3. r' \in Low .. (B - 1)
    BY <1>2, <1>3, <1>4, <2>1, <2>2 DEF Index
  <2>4. ASSUME NEW k \in 1 .. (B - 1), Parent(k) >= Low, Parent(k) # c
        PROVE  a'[Parent(k)].key >= a'[k].key
    <3>1. k \in Index /\ Parent(k) \in Index /\ Parent(k) # k
      BY <1>3, ParentFacts DEF Index
    <3>2. CASE k = r
      <4>1. c \in 1 .. (B - 1)
        BY <1>2, <1>3 DEF Index
      <4>2. a[Parent(r)].key >= a[c].key
        BY <4>1, <3>2, <2>1, <2>4, <1>2
      <4> QED
        BY <4>2, <3>1, <3>2, <2>4, <1>2, <1>6
    <3>3. CASE k = c
      BY <3>1, <3>3, <1>2, <1>3, <1>6, <1>7
    <3>4. CASE k # r /\ k # c /\ Parent(k) = r
      BY <3>1, <3>4, <1>2, <1>3, <1>6
    <3>5. CASE k # r /\ k # c /\ Parent(k) # r
      BY <3>1, <3>5, <2>1, <2>4, <1>2, <1>3, <1>6
    <3> QED
      BY <3>2, <3>3, <3>4, <3>5
  <2>5. ASSUME NEW k \in 1 .. (B - 1), Parent(k) = c, Parent(c) >= Low
        PROVE  a'[Parent(c)].key >= a'[k].key
    <3>1. k \in Index /\ k # c /\ k # r
      BY <2>5, <1>2, <1>3, ParentFacts DEF Index
    <3>2. a[c].key >= a[k].key
      <4>1. c >= Low /\ c # r
        BY <2>1, <2>2, <1>2, <1>3 DEF Index
      <4> QED
        BY <4>1, <2>1, <2>5
    <3> QED
      BY <3>1, <3>2, <1>2, <1>3, <1>6
  <2>6. r' = c
    BY <1>4
  <2> QED
    BY <2>3, <2>4, <2>5, <2>6, <1>5 DEF SiftInv, Parent
<1>10. phase = "sift" => SortedFrom(i)'
  <2> SUFFICES ASSUME phase = "sift" PROVE SortedFrom(i)'
    OBVIOUS
  <2>1. SortedFrom(i) /\ B = i
    BY DEF SortInv, Bound, B
  <2>2. \A k \in i .. (num - 1) : a'[k] = a[k]
    BY <1>2, <1>3, <1>6, <2>1 DEF Index
  <2>3. \A k \in i .. (num - 2) : a'[k].key <= a'[k + 1].key
    BY <2>1, <2>2, <1>3 DEF SortedFrom, Index
  <2>4. \A j \in 0 .. (i - 1), k \in i .. (num - 1) : a'[j].key <= a'[k].key
    <3> SUFFICES ASSUME NEW j \in 0 .. (i - 1), NEW k \in i .. (num - 1)
                 PROVE  a'[j].key <= a'[k].key
      OBVIOUS
    <3>1. PICK m \in 0 .. (i - 1) : a'[j] = a[m]
      BY <1>2, <1>3, <1>6, <2>1 DEF Index
    <3> QED
      BY <3>1, <2>1, <2>2 DEF SortedFrom
  <2> QED
    BY <2>3, <2>4, <1>4 DEF SortedFrom
<1>11. phase \in {"heapify", "sift"}
  BY <1>1 DEF Sifting
<1> QED
  BY <1>4, <1>6, <1>8, <1>9, <1>10, <1>11 DEF SortInv, HeapThenSorted

\* When a sift ends, the part it was about is a heap.
LEMMA SiftedIsHeap ==
  ASSUME SortInv, Sifting, SiftEnds
  PROVE  \A k \in 1 .. (Bound - 1) : Parent(k) >= Low => a[Parent(k)].key >= a[k].key
<1> SUFFICES ASSUME NEW k \in 1 .. (Bound - 1), Parent(k) >= Low
             PROVE  a[Parent(k)].key >= a[k].key
  OBVIOUS
<1>1. /\ num \in Nat /\ i \in Index /\ r \in Index /\ \A m \in Index : a[m].key \in Int
      /\ Bound \in Int /\ Bound <= num
  BY SortTypes DEF Bound, Index
<1>2. CASE Parent(k) # r
  BY <1>2 DEF SortInv, SiftInv
<1>3. CASE Parent(k) = r
  <2>1. k \in Index /\ r * 2 + 1 <= k
    BY <1>1, <1>3, ParentFacts DEF Index
  <2>2. r * 2 + 1 < Bound
    BY <2>1, <1>1 DEF Index
  <2>3. Child \in Index /\ a[Child].key >= a[k].key
    BY <2>1, <2>2, <1>1, <1>3, ChildFacts
  <2>4. a[r].key - a[Child].key >= 0
    BY <2>2 DEF SiftEnds, cmp_func
  <2> QED
    BY <2>1, <2>3, <2>4, <1>1, <1>3
<1> QED
  BY <1>2, <1>3

LEMMA HeapifyNextStep ==
  ASSUME SortInv, HeapifyNext
  PROVE  SortInv'
<1>1. phase = "heapify" /\ Sifting /\ SiftEnds /\ UNCHANGED <<num, input, a>>
  BY DEF HeapifyNext, Sifting
<1>2. /\ num \in Nat /\ i \in Index /\ Bound = num /\ Low = i /\ Index' = Index
  BY <1>1, SortTypes DEF Bound, Low, Index
<1>3. \A k \in 1 .. (num - 1) : Parent(k) >= i => a[Parent(k)].key >= a[k].key
  BY <1>1, <1>2, SiftedIsHeap
<1>4. Permutes' /\ num' > 0 /\ SortTypeOK
  <2>1. Permutes /\ SortTypeOK
    BY DEF SortInv
  <2>2. Permutes'
    BY <2>1, <1>1, <1>2 DEF Permutes
  <2>3. num' > 0
    BY <1>1, <1>2 DEF Index
  <2> QED
    BY <2>1, <2>2, <2>3
<1>5. CASE i > 0
  <2>1. i' = i - 1 /\ r' = i - 1 /\ phase' = "heapify"
    BY <1>1, <1>5 DEF HeapifyNext
  <2>2. SortTypeOK'
    BY <1>1, <1>2, <1>4, <1>5, <2>1 DEF SortTypeOK, Index
  <2>3. ASSUME NEW k \in 1 .. (num - 1), Parent(k) >= i - 1, Parent(k) # i - 1
        PROVE  a[Parent(k)].key >= a[k].key
    BY <1>2, <1>3, <2>3, ParentFacts DEF Index
  <2>4. ~(Parent(i - 1) >= i - 1)
    BY <1>2, <1>5 DEF Index, Parent
  <2>5. Bound' = num /\ Low' = i - 1
    BY <2>1, <1>1 DEF Bound, Low
  <2>6. i - 1 \in (i - 1) .. (num - 1)
    BY <1>2 DEF Index
  <2>7. SiftInv'
    BY <1>1, <2>1, <2>3, <2>4, <2>5, <2>6 DEF SiftInv, Parent
  <2> QED
    BY <2>1, <2>2, <2>7, <1>4 DEF SortInv, HeapThenSorted
<1>6. CASE ~(i > 0)
  <2>1. i' = num - 1 /\ phase' = "pop" /\ i = 0
    BY <1>1, <1>2, <1>6 DEF HeapifyNext, Index
  <2>2. SortTypeOK'
    BY <1>1, <1>2, <1>4, <2>1 DEF SortTypeOK, Index, Sifting
  <2>3. \A k \in 1 .. (num - 1) : a[Parent(k)].key >= a[k].key
    BY <1>2, <1>3, <2>1, ParentFacts DEF Index
  <2>4. HeapThenSorted'
    BY <1>1, <1>2, <2>1, <2>3 DEF HeapThenSorted, Parent, Index
  <2>5. SiftInv'
    BY <2>1 DEF SiftInv, Sifting
  <2> QED
    BY <1>2, <2>1, <2>2, <2>4, <2>5, <1>4, <1>1 DEF SortInv, Index
<1> QED
  BY <1>5, <1>6

LEMMA PopStep ==
  ASSUME SortInv, Pop
  PROVE  SortInv'
<1>1. phase = "pop" /\ i > 0 /\ a' = swap_func(0, i) /\ r' = 0 /\ phase' = "sift"
      /\ UNCHANGED <<num, input, i>>
  BY DEF Pop
<1>2. /\ num \in Nat /\ i \in 1 .. (num - 1) /\ Index' = Index /\ 0 \in Index /\ i \in Index
      /\ \A k \in Index : a[k].key \in Int
  BY <1>1, SortTypes DEF Index
<1>3. /\ a' \in [Index -> Elements]
      /\ Permutes'
      /\ \A k \in Index : a'[k] = IF k = 0 THEN a[i] ELSE IF k = i THEN a[0] ELSE a[k]
  BY <1>1, <1>2, SwapPermutes
<1>4. /\ \A k \in 1 .. i : a[Parent(k)].key >= a[k].key
      /\ \A k \in (i + 1) .. (num - 2) : a[k].key <= a[k + 1].key
      /\ \A j \in 0 .. i, k \in (i + 1) .. (num - 1) : a[j].key <= a[k].key
  BY <1>1 DEF SortInv, HeapThenSorted
<1>5. \A k \in 0 .. i : a[k].key <= a[0].key
  <2>1. i \in Nat /\ \A k \in 0 .. i : a[k].key \in Int
    BY <1>2 DEF Index
  <2> QED
    BY <2>1, <1>4, RootIsLargest
<1>6. SortTypeOK'
  <2>1. SortTypeOK
    BY DEF SortInv
  <2>2. /\ input' \in [Index' -> Elements] /\ num' \in 0 .. MaxNum /\ i' \in -1 .. (num' - 1)
        /\ phase' \in {"heapify", "pop", "sift", "done"}
        /\ r' \in Index' /\ i' \in Index' /\ a' \in [Index' -> Elements]
    BY <2>1, <1>1, <1>2, <1>3 DEF SortTypeOK
  <2> QED
    BY <2>2 DEF SortTypeOK, Elements
<1>7. SiftInv'
  <2>1. Bound' = i /\ Low' = 0 /\ r' = 0
    BY <1>1 DEF Bound, Low
  <2>2. ASSUME NEW k \in 1 .. (i - 1), Parent(k) # 0
        PROVE  a'[Parent(k)].key >= a'[k].key
    <3>1. k \in Index /\ Parent(k) \in 1 .. (i - 1) /\ Parent(k) \in Index /\ k \in 1 .. i
      <4>1. Parent(k) \in 0 .. (k - 1)
        BY <1>2, ParentFacts
      <4> QED
        BY <4>1, <1>2, <2>2 DEF Index
    <3>2. a'[k] = a[k] /\ a'[Parent(k)] = a[Parent(k)]
      BY <3>1, <1>2, <1>3
    <3> QED
      BY <3>1, <3>2, <1>4
  <2>3. ~(Parent(0) >= 0)
    <3>1. Parent(0) = -1
      BY ParentFacts
    <3> QED
      BY <3>1
  <2>4. 0 \in 0 .. (i - 1)
    BY <1>2
  <2> QED
    BY <2>1, <2>2, <2>3, <2>4 DEF SiftInv, Parent
<1>8. SortedFrom(i)'
  <2>1. \A k \in (i + 1) .. (num - 1) : a'[k] = a[k] /\ a[k].key >= a[0].key
    BY <1>2, <1>3, <1>4 DEF Index
  <2>2. a'[i] = a[0] /\ a'[0] = a[i]
    BY <1>2, <1>3
  <2>3. \A j \in 0 .. (i - 1) : \E m \in 0 .. i : a'[j] = a[m]
    BY <1>2, <1>3 DEF Index
  <2>4. \A k \in i .. (num - 2) : a'[k].key <= a'[k + 1].key
    BY <2>1, <2>2, <1>2, <1>4
  <2>5. \A j \in 0 .. (i - 1), k \in i .. (num - 1) : a'[j].key <= a'[k].key
    <3> SUFFICES ASSUME NEW j \in 0 .. (i - 1), NEW k \in i .. (num - 1)
                 PROVE  a'[j].key <= a'[k].key
      OBVIOUS
    <3>1. PICK m \in 0 .. i : a'[j] = a[m]
      BY <2>3
    <3>2. CASE k = i
      BY <3>1, <3>2, <2>2, <1>5
    <3>3. CASE k # i
      BY <3>1, <3>3, <2>1, <1>2, <1>4
    <3> QED
      BY <3>2, <3>3
  <2> QED
    BY <2>4, <2>5, <1>1 DEF SortedFrom
<1> QED
  BY <1>1, <1>2, <1>3, <1>6, <1>7, <1>8 DEF SortInv, HeapThenSorted

LEMMA SortNextStep ==
  ASSUME SortInv, SortNext
  PROVE  SortInv'
<1>1. phase = "sift" /\ Sifting /\ SiftEnds /\ i' = i - 1 /\ phase' = "pop"
      /\ UNCHANGED <<num, input, a, r>>
  BY DEF SortNext, Sifting
<1>2. /\ num \in Nat /\ i \in 1 .. (num - 1) /\ Bound = i /\ Low = 0 /\ Index' = Index
  BY <1>1, SortTypes DEF SortInv, Bound, Low, Index
<1>3. \A k \in 1 .. (i - 1) : a[Parent(k)].key >= a[k].key
  <2>1. \A k \in 1 .. (i - 1) : Parent(k) >= 0
    BY <1>2, ParentFacts
  <2> QED
    BY <1>1, <1>2, <2>1, SiftedIsHeap
<1>4. SortedFrom(i) /\ SortTypeOK /\ Permutes
  BY <1>1 DEF SortInv
<1>5. Permutes'
  BY <1>1, <1>2, <1>4 DEF Permutes
<1>6. SortTypeOK'
  BY <1>1, <1>2, <1>4 DEF SortTypeOK, Sifting
<1>7. HeapThenSorted'
  BY <1>1, <1>2, <1>3, <1>4 DEF HeapThenSorted, SortedFrom, Parent
<1>8. SiftInv'
  BY <1>1 DEF SiftInv, Sifting
<1> QED
  BY <1>1, <1>2, <1>5, <1>6, <1>7, <1>8 DEF SortInv

LEMMA FinishStep ==
  ASSUME SortInv, Finish
  PROVE  SortInv'
<1>1. phase = "pop" /\ i <= 0 /\ phase' = "done" /\ UNCHANGED <<num, input, a, i, r>>
  BY DEF Finish
<1>2. num \in Nat /\ i \in {-1, 0} /\ (num = 0 \/ i = 0) /\ Index' = Index
  BY <1>1, SortTypes DEF SortInv, Index
<1>3. HeapThenSorted /\ SortTypeOK /\ Permutes
  BY DEF SortInv
<1>4. Permutes'
  BY <1>1, <1>2, <1>3 DEF Permutes
<1>5. SortTypeOK'
  BY <1>1, <1>2, <1>3 DEF SortTypeOK, Sifting
<1>6. SortedFrom(0)'
  <2>1. \A k \in 0 .. (num - 2) : a[k].key <= a[k + 1].key
    <3> SUFFICES ASSUME NEW k \in 0 .. (num - 2) PROVE a[k].key <= a[k + 1].key
      OBVIOUS
    <3>1. i = 0
      BY <1>2
    <3>2. CASE k = 0
      BY <3>1, <3>2, <1>1, <1>2, <1>3 DEF HeapThenSorted
    <3>3. CASE k > 0
      BY <3>1, <3>3, <1>1, <1>2, <1>3 DEF HeapThenSorted
    <3> QED
      BY <3>2, <3>3
  <2> QED
    BY <2>1, <1>1, <1>2 DEF SortedFrom
<1>7. SiftInv' /\ HeapThenSorted'
  BY <1>1 DEF SiftInv, Sifting, HeapThenSorted
<1> QED
  BY <1>1, <1>2, <1>4, <1>5, <1>6, <1>7 DEF SortInv

LEMMA SortInitInv == SortInit => SortInv
<1> SUFFICES ASSUME SortInit PROVE SortInv
  OBVIOUS
<1>1. PICK keys \in [0 .. (num - 1) -> Keys] :
        input = [k \in 0 .. (num - 1) |-> [key |-> keys[k], tag |-> k]]
  BY DEF SortInit
<1>2. num \in Nat /\ num \in 0 .. MaxNum /\ a = input
  BY HeapSortConstants DEF SortInit
<1>3. input \in [Index -> Elements]
  BY <1>1, <1>2, HeapSortConstants DEF Index, Elements
<1>4. \A j, k \in Index : a[j] = a[k] => j = k
  BY <1>1, <1>2 DEF Index
<1>5. Permutes
  BY <1>2, <1>4 DEF Permutes
<1>6. CASE num >= 2
  <2>1. num \div 2 >= 1 /\ num \div 2 \in Int /\ 2 * (num \div 2) <= num
        /\ num <= 2 * (num \div 2) + 1
    BY <1>2, <1>6
  <2>2. i = (num \div 2) - 1 /\ phase = "heapify" /\ r = i
    BY <2>1 DEF SortInit
  <2>3. i \in Index /\ i \in -1 .. (num - 1)
    BY <1>2, <2>1, <2>2 DEF Index
  <2>4. ASSUME NEW k \in 1 .. (num - 1), Parent(k) >= i, Parent(k) # i PROVE FALSE
    BY <1>2, <2>1, <2>2, <2>4 DEF Parent
  <2>5. ~(Parent(i) >= i)
    BY <2>3 DEF Parent, Index
  <2>6. SiftInv
    BY <1>2, <2>2, <2>3, <2>4, <2>5 DEF SiftInv, Bound, Low, Index
  <2> QED
    BY <1>2, <1>3, <1>5, <1>6, <2>2, <2>3, <2>6
    DEF SortInv, SortTypeOK, HeapThenSorted
<1>7. CASE num < 2
  <2>1. ~(num \div 2 >= 1)
    BY <1>2, <1>7
  <2>2. i = num - 1 /\ phase = "pop"
    BY <2>1 DEF SortInit
  <2>3. i \in -1 .. (num - 1)
    BY <1>2, <2>2
  <2>4. SortTypeOK /\ SiftInv
    BY <1>2, <1>3, <2>2, <2>3 DEF SortTypeOK, SiftInv, Sifting
  <2>5. HeapThenSorted
    BY <1>2, <1>7, <2>2 DEF HeapThenSorted
  <2> QED
    BY <1>2, <1>5, <1>7, <2>2, <2>4, <2>5 DEF SortInv
<1> QED
  BY <1>2, <1>6, <1>7

LEMMA NoSortInv == NoSort => SortInv
<1> SUFFICES ASSUME NoSort PROVE SortInv
  OBVIOUS
<1>1. num = 0 /\ input = <<>> /\ a = <<>> /\ phase = "done" /\ i = -1 /\ Index = {}
  BY DEF NoSort, Index
<1>2. <<>> \in [{} -> Elements]
  OBVIOUS
<1>3. Permutes /\ SortedFrom(0)
  BY <1>1 DEF Permutes, SortedFrom
<1>4. SortTypeOK
  BY <1>1, <1>2, HeapSortConstants DEF SortTypeOK, Sifting
<1> QED
  BY <1>1, <1>3, <1>4 DEF SortInv, SiftInv, HeapThenSorted, Sifting

\* Nothing but sort() touches its array.
LEMMA SortInvStep == SortInv /\ [Step]_vars => SortInv'
<1> SUFFICES ASSUME SortInv, [Step]_vars PROVE SortInv'
  OBVIOUS
<1>1. CASE SortStep
  BY <1>1, SiftDownStep, HeapifyNextStep, PopStep, SortNextStep, FinishStep DEF SortStep
<1>2. CASE UNCHANGED sortVars
  <2>1. UNCHANGED <<num, input, a, phase, i, r>>
    BY <1>2 DEF sortVars
  <2>2. UNCHANGED <<Index, Low, Bound, Sifting, SortTypeOK>>
    BY <2>1 DEF Index, Low, Bound, Sifting, SortTypeOK
  <2>3. UNCHANGED <<SiftInv, HeapThenSorted, Permutes>>
    BY <2>1, <2>2 DEF SiftInv, HeapThenSorted, Permutes, Parent
  <2>4. SortedFrom(i)' = SortedFrom(i) /\ SortedFrom(0)' = SortedFrom(0)
    BY <2>1 DEF SortedFrom
  <2> QED
    BY <2>1, <2>2, <2>3, <2>4 DEF SortInv
<1>3. SortStep \/ UNCHANGED sortVars
  BY DEF Step, Sort, Format, Copy, List, Return, vars
<1> QED
  BY <1>1, <1>2, <1>3

\* sort() never leaves its array, keeps the heap and the sorted part apart
\* through every iteration of its second loop, and returns its input in order,
\* each element once: for every length and all keys (sort.c).
THEOREM SortIsAlwaysCorrect == Spec => []SortIsCorrect
<1>1. Init => SortInv
  BY SortInitInv, NoSortInv DEF Init
<1>2. SortInv => SortIsCorrect
  <2> SUFFICES ASSUME SortInv, phase = "done" PROVE \A k \in 1 .. (num - 1) : a[k - 1].key <= a[k].key
    BY DEF SortInv, SortIsCorrect, SortsItsInput, Permutes
  <2>1. num \in Nat /\ SortedFrom(0)
    BY SortTypes DEF SortInv
  <2> SUFFICES ASSUME NEW k \in 1 .. (num - 1) PROVE a[k - 1].key <= a[k].key
    OBVIOUS
  <2>2. k - 1 \in 0 .. (num - 2) /\ (k - 1) + 1 = k
    BY <2>1
  <2> QED
    BY <2>1, <2>2 DEF SortedFrom
<1> QED
  BY <1>1, <1>2, SortInvStep, PTL DEF Spec

-----------------------------------------------------------------------------
(***************************************************************************)
(* put_dec.  Multiplying by the reciprocal divides by 100 exactly, for     *)
(* every number the conversion meets.  (The comments of lib/vsprintf.c     *)
(* claim so; TLC checks samples in NumeralsExact.)                         *)
(***************************************************************************)

\* x * 0x28f5c29 >> 32 is x / 100 for every x up to 32767^2 + 65609, which is
\* the bound vsprintf.c:27-31 gives: "The actual range happens to be somewhat
\* larger (x <= 1073741898)".
THEOREM Div100Exact ==
  ASSUME NEW x \in Nat, x <= 32767 * 32767 + 65609
  PROVE  Div100(x) = x \div 100
<1> DEFINE high == x \div 16384
           low == x % 16384
           lowpart == (low * ReciprocalLow) \div 16384
           carry == high * ReciprocalLow + lowpart
           mid == (low * ReciprocalHigh * 4 + carry) \div 65536
           q == (high * ReciprocalHigh + mid) \div 4
<1>1. Div100(x) = q
  BY SMT DEF Div100
<1>2. high \in Int /\ low \in 0 .. 16383 /\ x = 16384 * high + low
  BY SMT
<1> HIDE DEF high, low
<1>3. lowpart \in Int /\ 16384 * lowpart <= low * 23593 /\ low * 23593 < 16384 * lowpart + 16384
  BY <1>2, SMT DEF ReciprocalLow
<1> HIDE DEF lowpart
<1>4. carry \in Int /\ carry = high * 23593 + lowpart
  BY <1>2, <1>3, SMT DEF ReciprocalLow
<1> HIDE DEF carry
<1>5. mid \in Int /\ 65536 * mid <= low * 2620 + carry /\ low * 2620 + carry < 65536 * mid + 65536
  BY <1>2, <1>4, SMT DEF ReciprocalHigh
<1> HIDE DEF mid
<1>6. q \in Int /\ 4 * q <= high * 655 + mid /\ high * 655 + mid < 4 * q + 4
  BY <1>2, <1>5, SMT DEF ReciprocalHigh
<1> HIDE DEF q
<1>7. 100 * q <= x /\ x < 100 * q + 100
  BY <1>2, <1>3, <1>4, <1>5, <1>6, SMT
<1>8. q = x \div 100
  BY <1>6, <1>7, SMT
<1> QED
  BY <1>1, <1>8, SMT

\* The third division uses a 16-bit reciprocal (vsprintf.c:90-92, 118-120),
\* which is exact up to 43698.
LEMMA Div100ShortExact ==
  ASSUME NEW x \in Nat, x <= 43698
  PROVE  Div100Short(x) = x \div 100
<1> DEFINE q == (x * 5243) \div 524288
<1>1. q \in Int /\ 524288 * q <= x * 5243 /\ x * 5243 < 524288 * q + 524288
  BY SMT
<1>2. Div100Short(x) = q
  BY SMT DEF Div100Short
<1> HIDE DEF q
<1>3. 100 * q <= x /\ x < 100 * q + 100
  BY <1>1, SMT
<1>4. q = x \div 100
  BY <1>1, <1>3, SMT
<1> QED
  BY <1>2, <1>4, SMT

\* put_dec_full8 writes the four pairs of decimal digits of its argument,
\* the lowest first (vsprintf.c:102-125), for every number of eight digits.
THEOREM Full8IsDecimal ==
  ASSUME NEW n \in Nat, n < TenToEight
  PROVE  put_dec_full8(n) =
           decpair(n % 100) \o decpair((n \div 100) % 100)
             \o decpair((n \div 10000) % 100) \o decpair(n \div (100 * 10000))
<1> DEFINE q1 == Div100(n)
           q2 == Div100(q1)
           q3 == Div100Short(q2)
<1>1. q1 = n \div 100
  BY Div100Exact, SMT DEF TenToEight
<1>2. q1 \in Nat /\ 100 * q1 <= n /\ n < 100 * q1 + 100
  BY <1>1, SMT
<1>3. put_dec_full8(n) = decpair(n - 100 * q1) \o decpair(q1 - 100 * q2) \o decpair(q2 - 100 * q3) \o decpair(q3)
  BY SMT DEF put_dec_full8
<1> HIDE DEF q1
<1>4. q1 <= 32767 * 32767 + 65609
  BY <1>2, SMT DEF TenToEight
<1>5. q2 = q1 \div 100
  BY <1>2, <1>4, Div100Exact, SMT
<1>6. q2 \in Nat /\ 100 * q2 <= q1 /\ q1 < 100 * q2 + 100
  BY <1>2, <1>5, SMT
<1> HIDE DEF q2
<1>7. q2 <= 43698
  BY <1>2, <1>6, SMT DEF TenToEight
<1>8. q3 = q2 \div 100
  BY <1>6, <1>7, Div100ShortExact, SMT
<1>9. q3 \in Nat /\ 100 * q3 <= q2 /\ q2 < 100 * q3 + 100
  BY <1>6, <1>8, SMT
<1> HIDE DEF q3
<1>10. n - 100 * q1 = n % 100
  BY <1>1, <1>2, SMT
<1>11. q1 - 100 * q2 = (n \div 100) % 100
  BY <1>1, <1>2, <1>5, <1>6, SMT
<1>12. q2 = n \div 10000
  BY <1>2, <1>6, SMT
<1>13. q2 - 100 * q3 = (n \div 10000) % 100
  BY <1>12, <1>6, <1>9, <1>8, SMT
<1>14. q3 = n \div (100 * 10000)
  BY <1>2, <1>6, <1>9, SMT
<1> QED
  BY <1>3, <1>10, <1>11, <1>13, <1>14

-----------------------------------------------------------------------------
(***************************************************************************)
(* strscpy().  First the bit tricks of word-at-a-time.h on words of eight  *)
(* arbitrary bytes.                                                        *)
(***************************************************************************)
\* A function defined step by step over the bytes of a word exists.
LEMMA ByteRecursion ==
  ASSUME NEW z \in Nat, NEW f \in [1 .. 7 -> [Nat -> Nat]]
  PROVE  \E g \in [ByteIndex -> Nat] :
           g[0] = z /\ \A k \in 1 .. 7 : g[k] = f[k][g[k - 1]]
<1>1. PICK s1 \in Nat : s1 = f[1][z]
  OBVIOUS
<1>2. PICK s2 \in Nat : s2 = f[2][s1]
  OBVIOUS
<1>3. PICK s3 \in Nat : s3 = f[3][s2]
  OBVIOUS
<1>4. PICK s4 \in Nat : s4 = f[4][s3]
  OBVIOUS
<1>5. PICK s5 \in Nat : s5 = f[5][s4]
  OBVIOUS
<1>6. PICK s6 \in Nat : s6 = f[6][s5]
  OBVIOUS
<1>7. PICK s7 \in Nat : s7 = f[7][s6]
  OBVIOUS
<1> DEFINE g == [k \in ByteIndex |-> IF k = 0 THEN z ELSE IF k = 1 THEN s1
                   ELSE IF k = 2 THEN s2 ELSE IF k = 3 THEN s3 ELSE IF k = 4 THEN s4
                   ELSE IF k = 5 THEN s5 ELSE IF k = 6 THEN s6 ELSE s7]
<1>8. /\ g \in [ByteIndex -> Nat]
      /\ g[0] = z /\ g[1] = s1 /\ g[2] = s2 /\ g[3] = s3 /\ g[4] = s4 /\ g[5] = s5
      /\ g[6] = s6 /\ g[7] = s7
  BY DEF ByteIndex
<1> HIDE DEF g
<1>9. \A k \in 1 .. 7 : k \in {1, 2, 3, 4, 5, 6, 7}
  OBVIOUS
<1>10. ASSUME NEW k \in 1 .. 7 PROVE g[k] = f[k][g[k - 1]]
  <2>1. CASE k = 1
    <3>1. k - 1 = 0
      BY <2>1
    <3> QED  BY <1>1, <1>8, <2>1, <3>1, Zenon
  <2>2. CASE k = 2
    <3>1. k - 1 = 1
      BY <2>2
    <3> QED  BY <1>2, <1>8, <2>2, <3>1, Zenon
  <2>3. CASE k = 3
    <3>1. k - 1 = 2
      BY <2>3
    <3> QED  BY <1>3, <1>8, <2>3, <3>1, Zenon
  <2>4. CASE k = 4
    <3>1. k - 1 = 3
      BY <2>4
    <3> QED  BY <1>4, <1>8, <2>4, <3>1, Zenon
  <2>5. CASE k = 5
    <3>1. k - 1 = 4
      BY <2>5
    <3> QED  BY <1>5, <1>8, <2>5, <3>1, Zenon
  <2>6. CASE k = 6
    <3>1. k - 1 = 5
      BY <2>6
    <3> QED  BY <1>6, <1>8, <2>6, <3>1, Zenon
  <2>7. CASE k = 7
    <3>1. k - 1 = 6
      BY <2>7
    <3> QED  BY <1>7, <1>8, <2>7, <3>1, Zenon
  <2> QED  BY <1>9, <2>1, <2>2, <2>3, <2>4, <2>5, <2>6, <2>7
<1> QED  BY <1>8, <1>10

\* The borrows of the subtraction in has_zero.
Borrow(w) ==
  CHOOSE b : b = [k \in ByteIndex |->
                    IF k = 0 THEN 0 ELSE IF w[k - 1] - 1 - b[k - 1] < 0 THEN 1 ELSE 0]

\* has_zero by its borrows.
LEMMA HasZeroBorrow ==
  ASSUME NEW w
  PROVE  has_zero(w) = [k \in ByteIndex |->
            IF (w[k] - 1 - Borrow(w)[k]) % 256 >= 128 /\ w[k] < 128 THEN 128 ELSE 0]
BY Zenon DEF has_zero, Borrow

\* A byte borrows from the next one if it is smaller than what is subtracted.
LEMMA BorrowFacts ==
  ASSUME NEW w \in [ByteIndex -> Byte]
  PROVE  /\ Borrow(w) \in [ByteIndex -> {0, 1}]
         /\ Borrow(w)[0] = 0
         /\ \A k \in 1 .. 7 : Borrow(w)[k] = IF w[k - 1] - 1 - Borrow(w)[k - 1] < 0 THEN 1 ELSE 0
<1> DEFINE f == [k \in 1 .. 7 |-> [s \in Nat |-> IF w[k - 1] - 1 - s < 0 THEN 1 ELSE 0]]
<1>1. f \in [1 .. 7 -> [Nat -> Nat]]
  OBVIOUS
<1>2. PICK g \in [ByteIndex -> Nat] : g[0] = 0 /\ \A k \in 1 .. 7 : g[k] = f[k][g[k - 1]]
  <2> HIDE DEF f
  <2>1. 0 \in Nat
    OBVIOUS
  <2> QED  BY <1>1, <2>1, ByteRecursion
<1>3. \A k \in 1 .. 7 : g[k] = IF w[k - 1] - 1 - g[k - 1] < 0 THEN 1 ELSE 0
  BY <1>2 DEF ByteIndex
<1>4. g = [k \in ByteIndex |-> IF k = 0 THEN 0 ELSE IF w[k - 1] - 1 - g[k - 1] < 0 THEN 1 ELSE 0]
  BY <1>2, <1>3 DEF ByteIndex
<1> DEFINE b == Borrow(w)
<1>5. b = [k \in ByteIndex |-> IF k = 0 THEN 0 ELSE IF w[k - 1] - 1 - b[k - 1] < 0 THEN 1 ELSE 0]
  BY <1>4, Zenon DEF Borrow
<1> HIDE DEF b
<1>6. b[0] = 0 /\ \A k \in 1 .. 7 : b[k] = IF w[k - 1] - 1 - b[k - 1] < 0 THEN 1 ELSE 0
  BY <1>5 DEF ByteIndex
<1>7. \A k \in ByteIndex : k = 0 \/ k \in 1 .. 7
  BY DEF ByteIndex
<1>8. \A k \in ByteIndex : b[k] \in {0, 1}
  BY <1>6, <1>7
<1>9. b \in [ByteIndex -> {0, 1}]
  BY <1>5, <1>8
<1> QED  BY <1>6, <1>9 DEF b

\* Up to the first zero byte there is no borrow.
LEMMA NoBorrow ==
  ASSUME NEW w \in [ByteIndex -> Byte], NEW z \in 0 .. 8,
         \A k \in 0 .. (z - 1) : w[k] # 0
  PROVE  \A k \in ByteIndex : k <= z => Borrow(w)[k] = 0
<1> DEFINE b == Borrow(w)
           T == {k \in ByteIndex : k <= z /\ b[k] # 0}
<1>1. /\ b \in [ByteIndex -> {0, 1}] /\ b[0] = 0
      /\ \A k \in 1 .. 7 : b[k] = IF w[k - 1] - 1 - b[k - 1] < 0 THEN 1 ELSE 0
  BY BorrowFacts
<1> HIDE DEF b
<1> SUFFICES ASSUME T # {} PROVE FALSE
  BY DEF b
<1>2. PICK k \in T : \A y \in T : k <= y
  <2>1. T \in SUBSET Nat
    BY DEF ByteIndex
  <2> QED  BY <2>1, LeastNatural
<1>3. k \in 1 .. 7 /\ k - 1 \in ByteIndex /\ k - 1 <= z /\ ~(k <= k - 1) /\ k - 1 \in 0 .. (z - 1)
  BY <1>1, <1>2 DEF ByteIndex
<1>4. b[k - 1] = 0
  BY <1>2, <1>3
<1>5. w[k - 1] # 0 /\ w[k - 1] \in Byte
  BY <1>3
<1>6. b[k] = IF w[k - 1] - 1 - 0 < 0 THEN 1 ELSE 0
  BY <1>1, <1>3, <1>4
<1>7. b[k] = 0
  BY <1>5, <1>6 DEF Byte
<1> QED  BY <1>2, <1>7

\* has_zero marks no byte before the first zero, and marks that one.
LEMMA HasZeroFacts ==
  ASSUME NEW w \in [ByteIndex -> Byte], NEW z \in 0 .. 8,
         \A k \in 0 .. (z - 1) : w[k] # 0,
         z \in ByteIndex => w[z] = 0
  PROVE  /\ has_zero(w) \in [ByteIndex -> {0, 128}]
         /\ \A k \in 0 .. (z - 1) : has_zero(w)[k] = 0
         /\ z \in ByteIndex => has_zero(w)[z] = 128
<1> DEFINE b == Borrow(w)
<1>1. \A k \in ByteIndex : k <= z => b[k] = 0
  BY NoBorrow
<1>2. has_zero(w) = [k \in ByteIndex |->
            IF (w[k] - 1 - b[k]) % 256 >= 128 /\ w[k] < 128 THEN 128 ELSE 0]
  BY HasZeroBorrow
<1>3. has_zero(w) \in [ByteIndex -> {0, 128}]
  BY <1>2
<1>4. ASSUME NEW k \in 0 .. (z - 1) PROVE has_zero(w)[k] = 0
  <2>1. k \in ByteIndex /\ k <= z
    BY DEF ByteIndex
  <2>2. b[k] = 0
    BY <1>1, <2>1
  <2>3. PICK x \in 1 .. 255 : x = w[k]
    BY <2>1 DEF Byte
  <2>4. has_zero(w)[k] = IF (x - 1 - 0) % 256 >= 128 /\ x < 128 THEN 128 ELSE 0
    BY <1>2, <2>1, <2>2, <2>3
  <2>5. (x - 1 - 0) % 256 = x - 1
    OBVIOUS
  <2> QED  BY <2>4, <2>5
<1>5. ASSUME z \in ByteIndex PROVE has_zero(w)[z] = 128
  <2>1. z <= z /\ w[z] = 0
    BY <1>5
  <2>2. b[z] = 0
    BY <1>1, <1>5, <2>1
  <2>3. PICK x \in Int : x + 1 = 0 /\ x = w[z] - 1 - b[z]
    BY <2>1, <2>2
  <2>4. has_zero(w)[z] = IF x % 256 >= 128 /\ 0 < 128 THEN 128 ELSE 0
    BY <1>2, <1>5, <2>1, <2>3
  <2>5. x % 256 = 255
    BY <2>3
  <2> QED  BY <2>4, <2>5
<1> QED  BY <1>3, <1>4, <1>5

\* create_zero_mask gives the bytes below the lowest mark.
LEMMA ZeroMaskFacts ==
  ASSUME NEW bits \in [ByteIndex -> {0, 128}], NEW z \in ByteIndex,
         \A k \in 0 .. (z - 1) : bits[k] = 0, bits[z] = 128
  PROVE  create_zero_mask(bits) = [k \in ByteIndex |-> IF k < z THEN 255 ELSE 0]
<1> DEFINE below(k) == \A j \in 0 .. (k - 1) : bits[j] = 0
           diff(k) == IF below(k) THEN (bits[k] - 1) % 256 ELSE bits[k]
           less == [k \in 0 .. 8 |-> IF k = 8 THEN 0
                                     ELSE IF bits[k] = 128 THEN diff(k) % 128 ELSE diff(k)]
<1>1. create_zero_mask(bits) = [k \in ByteIndex |-> (less[k] \div 128) + 2 * (less[k + 1] % 128)]
  BY Zenon DEF create_zero_mask
<1>2. ASSUME NEW k \in 0 .. (z - 1) PROVE less[k] = 255
  <2>1. k \in 0 .. 8 /\ k # 8 /\ bits[k] = 0 /\ below(k)
    BY DEF ByteIndex
  <2>2. PICK x \in Int : x = bits[k] - 1 /\ x + 1 = 0
    BY <2>1
  <2>3. x % 256 = 255
    BY <2>2
  <2>4. diff(k) = 255
    BY <2>1, <2>2, <2>3
  <2> HIDE DEF diff
  <2> QED  BY <2>1, <2>4
<1>3. less[z] = 127
  <2>1. z \in 0 .. 8 /\ z # 8 /\ below(z)
    BY DEF ByteIndex
  <2>2. PICK x \in Int : x = bits[z] - 1 /\ x = 127
    OBVIOUS
  <2>3. x % 256 = 127 /\ x % 128 = 127
    BY <2>2
  <2>4. diff(z) = x
    BY <2>1, <2>2, <2>3
  <2>5. less[z] = diff(z) % 128
    <3> HIDE DEF diff
    <3> QED  BY <2>1
  <2> HIDE DEF diff, less
  <2> QED  BY <2>3, <2>4, <2>5
<1>4. ASSUME NEW k \in 0 .. 8, k > z PROVE less[k] = 0
  <2>1. CASE k = 8
    BY <2>1
  <2>2. CASE k # 8
    <3>1. k \in ByteIndex /\ bits[k] \in {0, 128}
      BY <2>2 DEF ByteIndex
    <3>2. ~below(k)
      <4>1. z \in 0 .. (k - 1)
        BY <1>4 DEF ByteIndex
      <4> QED  BY <4>1
    <3>3. diff(k) = bits[k]
      BY <3>2
    <3>4. 128 % 128 = 0
      OBVIOUS
    <3>5. less[k] = IF bits[k] = 128 THEN bits[k] % 128 ELSE bits[k]
      <4> HIDE DEF diff
      <4> QED  BY <2>2, <3>3
    <3> HIDE DEF less
    <3> QED  BY <3>1, <3>4, <3>5
  <2> QED  BY <2>1, <2>2
<1> HIDE DEF less
<1>5. ASSUME NEW k \in ByteIndex
      PROVE  (less[k] \div 128) + 2 * (less[k + 1] % 128) = IF k < z THEN 255 ELSE 0
  <2>1. k \in 0 .. 8 /\ k + 1 \in 0 .. 8 /\ k \in Int /\ z \in Int
    BY DEF ByteIndex
  <2>2. 255 \div 128 = 1 /\ 255 % 128 = 127 /\ 127 \div 128 = 0 /\ 127 % 128 = 127
        /\ 0 \div 128 = 0 /\ 0 % 128 = 0
    OBVIOUS
  <2>3. CASE k < z
    <3>1. less[k] = 255
      BY <1>2, <2>1, <2>3
    <3>2. less[k + 1] \in {255, 127}
      <4>1. CASE k + 1 = z
        BY <1>3, <4>1
      <4>2. CASE k + 1 # z
        <5>1. k + 1 \in 0 .. (z - 1)
          BY <2>1, <2>3, <4>2
        <5> QED  BY <1>2, <5>1
      <4> QED  BY <4>1, <4>2
    <3> QED  BY <2>2, <2>3, <3>1, <3>2
  <2>4. CASE k = z
    <3>1. less[k] = 127 /\ less[k + 1] = 0
      BY <1>3, <1>4, <2>1, <2>4
    <3> QED  BY <2>1, <2>2, <2>4, <3>1
  <2>5. CASE k > z
    <3>1. less[k] = 0 /\ less[k + 1] = 0
      BY <1>4, <2>1, <2>5
    <3> QED  BY <2>1, <2>2, <2>5, <3>1
  <2> QED  BY <2>1, <2>3, <2>4, <2>5
<1> QED  BY <1>1, <1>5

\* The columns of the multiplication in count_masked_bytes, and their sums
\* with the carry of the column before.
Column(m, n) ==
  m[0] * Weight(n) + m[1] * Weight(n - 1) + m[2] * Weight(n - 2)
    + m[3] * Weight(n - 3) + m[4] * Weight(n - 4) + m[5] * Weight(n - 5)
    + m[6] * Weight(n - 6) + m[7] * Weight(n - 7)

Sums(m) ==
  CHOOSE s : s = [n \in ByteIndex |->
                    IF n = 0 THEN Column(m, 0) ELSE Column(m, n) + (s[n - 1] \div 256)]

\* count_masked_bytes by columns.
LEMMA CountBySums ==
  ASSUME NEW m
  PROVE  count_masked_bytes(m) = Sums(m)[7] % 256
BY Zenon DEF count_masked_bytes, Sums, Column

\* Each sum is its column and the carry.
LEMMA SumsFacts ==
  ASSUME NEW m, \A n \in ByteIndex : Column(m, n) \in Nat
  PROVE  /\ Sums(m)[0] = Column(m, 0)
         /\ \A k \in 1 .. 7 : Sums(m)[k] = Column(m, k) + (Sums(m)[k - 1] \div 256)
<1>1. PICK c \in [ByteIndex -> Nat] : \A n \in ByteIndex : c[n] = Column(m, n)
  <2> DEFINE c == [n \in ByteIndex |-> Column(m, n)]
  <2>1. c \in [ByteIndex -> Nat] /\ \A n \in ByteIndex : c[n] = Column(m, n)
    BY Zenon
  <2> HIDE DEF c
  <2> QED  BY <2>1
<1> DEFINE f == [k \in 1 .. 7 |-> [s \in Nat |-> c[k] + (s \div 256)]]
<1>2. \A s \in Nat : (s \div 256) \in Nat
  OBVIOUS
<1>3. f \in [1 .. 7 -> [Nat -> Nat]]
  BY <1>1, <1>2 DEF ByteIndex
<1>4. c[0] \in Nat
  BY <1>1 DEF ByteIndex
<1>5. PICK g \in [ByteIndex -> Nat] : g[0] = c[0] /\ \A k \in 1 .. 7 : g[k] = f[k][g[k - 1]]
  <2> HIDE DEF f
  <2> QED  BY <1>3, <1>4, ByteRecursion
<1>6. \A k \in 1 .. 7 : g[k] = c[k] + (g[k - 1] \div 256)
  <2>1. \A k \in 1 .. 7 : g[k - 1] \in Nat
    BY <1>5 DEF ByteIndex
  <2> QED  BY <1>5, <2>1
<1>7. \A k \in ByteIndex : k = 0 \/ (k # 0 /\ k \in 1 .. 7)
  BY DEF ByteIndex
<1>8. \A k \in ByteIndex : g[k] = IF k = 0 THEN c[0] ELSE c[k] + (g[k - 1] \div 256)
  BY <1>5, <1>6, <1>7
<1>9. 0 \in ByteIndex
  BY DEF ByteIndex
<1>10. \A k \in ByteIndex :
         g[k] = IF k = 0 THEN Column(m, 0) ELSE Column(m, k) + (g[k - 1] \div 256)
  BY <1>1, <1>8, <1>9, ZenonT(60)
<1>11. g = [n \in ByteIndex |->
              IF n = 0 THEN Column(m, 0) ELSE Column(m, n) + (g[n - 1] \div 256)]
  BY <1>10, Zenon
<1> DEFINE s == Sums(m)
<1>12. s = [n \in ByteIndex |->
              IF n = 0 THEN Column(m, 0) ELSE Column(m, n) + (s[n - 1] \div 256)]
  BY <1>11, ZenonT(60) DEF Sums
<1> HIDE DEF s
<1>13. \A k \in 1 .. 7 : k \in ByteIndex /\ k # 0
  BY DEF ByteIndex
<1>14. s[0] = Column(m, 0)
  BY <1>9, <1>12, Zenon
<1>15. \A k \in 1 .. 7 : s[k] = Column(m, k) + (s[k - 1] \div 256)
  BY <1>12, <1>13, Zenon
<1> QED  BY <1>14, <1>15 DEF s

\* The weights of the columns.
LEMMA Weights ==
  /\ Weight(0) = 8 /\ Weight(1) = 6 /\ Weight(2) = 5 /\ Weight(3) = 4
  /\ Weight(4) = 3 /\ Weight(5) = 2 /\ Weight(6) = 1 /\ Weight(7) = 0
  /\ \A k \in Int : k < 0 => Weight(k) = 0
BY DEF Weight

\* count_masked_bytes counts the bytes that are set from below.
LEMMA CountMaskedBytes ==
  ASSUME NEW z \in ByteIndex, NEW m, m = [k \in ByteIndex |-> IF k < z THEN 255 ELSE 0]
  PROVE  count_masked_bytes(m) = z
<1>1. /\ \A k \in 0 .. 7 : m[k] = IF k < z THEN 255 ELSE 0
      /\ z \in 0 .. 7
  BY DEF ByteIndex
<1>2. z \in {0, 1, 2, 3, 4, 5, 6, 7}
  BY <1>1
<1>3. CASE z = 0
  <2>1. m[0] = 0 /\ m[1] = 0 /\ m[2] = 0 /\ m[3] = 0 /\ m[4] = 0 /\ m[5] = 0 /\ m[6] = 0 /\ m[7] = 0
    BY <1>1, <1>3
  <2>2. /\ Column(m, 0) = 0 /\ Column(m, 1) = 0 /\ Column(m, 2) = 0 /\ Column(m, 3) = 0
        /\ Column(m, 4) = 0 /\ Column(m, 5) = 0 /\ Column(m, 6) = 0 /\ Column(m, 7) = 0
    BY <2>1, Weights DEF Column
  <2>3. \A n \in ByteIndex : Column(m, n) \in Nat
    BY <2>2 DEF ByteIndex
  <2>4. /\ Sums(m)[0] = Column(m, 0)
        /\ \A k \in 1 .. 7 : Sums(m)[k] = Column(m, k) + (Sums(m)[k - 1] \div 256)
    BY <2>3, SumsFacts
  <2>5. Sums(m)[0] = 0
    BY <2>2, <2>4
  <2>6. Sums(m)[1] = 0
    BY <2>2, <2>4, <2>5
  <2>7. Sums(m)[2] = 0
    BY <2>2, <2>4, <2>6
  <2>8. Sums(m)[3] = 0
    BY <2>2, <2>4, <2>7
  <2>9. Sums(m)[4] = 0
    BY <2>2, <2>4, <2>8
  <2>10. Sums(m)[5] = 0
    BY <2>2, <2>4, <2>9
  <2>11. Sums(m)[6] = 0
    BY <2>2, <2>4, <2>10
  <2>12. Sums(m)[7] = 0
    BY <2>2, <2>4, <2>11
  <2> QED  BY <1>3, <2>12, CountBySums
<1>4. CASE z = 1
  <2>1. m[0] = 255 /\ m[1] = 0 /\ m[2] = 0 /\ m[3] = 0 /\ m[4] = 0 /\ m[5] = 0 /\ m[6] = 0 /\ m[7] = 0
    BY <1>1, <1>4
  <2>2. /\ Column(m, 0) = 2040 /\ Column(m, 1) = 1530 /\ Column(m, 2) = 1275 /\ Column(m, 3) = 1020
        /\ Column(m, 4) = 765 /\ Column(m, 5) = 510 /\ Column(m, 6) = 255 /\ Column(m, 7) = 0
    BY <2>1, Weights DEF Column
  <2>3. \A n \in ByteIndex : Column(m, n) \in Nat
    BY <2>2 DEF ByteIndex
  <2>4. /\ Sums(m)[0] = Column(m, 0)
        /\ \A k \in 1 .. 7 : Sums(m)[k] = Column(m, k) + (Sums(m)[k - 1] \div 256)
    BY <2>3, SumsFacts
  <2>5. Sums(m)[0] = 2040
    BY <2>2, <2>4
  <2>6. Sums(m)[1] = 1537
    BY <2>2, <2>4, <2>5
  <2>7. Sums(m)[2] = 1281
    BY <2>2, <2>4, <2>6
  <2>8. Sums(m)[3] = 1025
    BY <2>2, <2>4, <2>7
  <2>9. Sums(m)[4] = 769
    BY <2>2, <2>4, <2>8
  <2>10. Sums(m)[5] = 513
    BY <2>2, <2>4, <2>9
  <2>11. Sums(m)[6] = 257
    BY <2>2, <2>4, <2>10
  <2>12. Sums(m)[7] = 1
    BY <2>2, <2>4, <2>11
  <2> QED  BY <1>4, <2>12, CountBySums
<1>5. CASE z = 2
  <2>1. m[0] = 255 /\ m[1] = 255 /\ m[2] = 0 /\ m[3] = 0 /\ m[4] = 0 /\ m[5] = 0 /\ m[6] = 0 /\ m[7] = 0
    BY <1>1, <1>5
  <2>2. /\ Column(m, 0) = 2040 /\ Column(m, 1) = 3570 /\ Column(m, 2) = 2805 /\ Column(m, 3) = 2295
        /\ Column(m, 4) = 1785 /\ Column(m, 5) = 1275 /\ Column(m, 6) = 765 /\ Column(m, 7) = 255
    BY <2>1, Weights DEF Column
  <2>3. \A n \in ByteIndex : Column(m, n) \in Nat
    BY <2>2 DEF ByteIndex
  <2>4. /\ Sums(m)[0] = Column(m, 0)
        /\ \A k \in 1 .. 7 : Sums(m)[k] = Column(m, k) + (Sums(m)[k - 1] \div 256)
    BY <2>3, SumsFacts
  <2>5. Sums(m)[0] = 2040
    BY <2>2, <2>4
  <2>6. Sums(m)[1] = 3577
    BY <2>2, <2>4, <2>5
  <2>7. Sums(m)[2] = 2818
    BY <2>2, <2>4, <2>6
  <2>8. Sums(m)[3] = 2306
    BY <2>2, <2>4, <2>7
  <2>9. Sums(m)[4] = 1794
    BY <2>2, <2>4, <2>8
  <2>10. Sums(m)[5] = 1282
    BY <2>2, <2>4, <2>9
  <2>11. Sums(m)[6] = 770
    BY <2>2, <2>4, <2>10
  <2>12. Sums(m)[7] = 258
    BY <2>2, <2>4, <2>11
  <2> QED  BY <1>5, <2>12, CountBySums
<1>6. CASE z = 3
  <2>1. m[0] = 255 /\ m[1] = 255 /\ m[2] = 255 /\ m[3] = 0 /\ m[4] = 0 /\ m[5] = 0 /\ m[6] = 0 /\ m[7] = 0
    BY <1>1, <1>6
  <2>2. /\ Column(m, 0) = 2040 /\ Column(m, 1) = 3570 /\ Column(m, 2) = 4845 /\ Column(m, 3) = 3825
        /\ Column(m, 4) = 3060 /\ Column(m, 5) = 2295 /\ Column(m, 6) = 1530 /\ Column(m, 7) = 765
    BY <2>1, Weights DEF Column
  <2>3. \A n \in ByteIndex : Column(m, n) \in Nat
    BY <2>2 DEF ByteIndex
  <2>4. /\ Sums(m)[0] = Column(m, 0)
        /\ \A k \in 1 .. 7 : Sums(m)[k] = Column(m, k) + (Sums(m)[k - 1] \div 256)
    BY <2>3, SumsFacts
  <2>5. Sums(m)[0] = 2040
    BY <2>2, <2>4
  <2>6. Sums(m)[1] = 3577
    BY <2>2, <2>4, <2>5
  <2>7. Sums(m)[2] = 4858
    BY <2>2, <2>4, <2>6
  <2>8. Sums(m)[3] = 3843
    BY <2>2, <2>4, <2>7
  <2>9. Sums(m)[4] = 3075
    BY <2>2, <2>4, <2>8
  <2>10. Sums(m)[5] = 2307
    BY <2>2, <2>4, <2>9
  <2>11. Sums(m)[6] = 1539
    BY <2>2, <2>4, <2>10
  <2>12. Sums(m)[7] = 771
    BY <2>2, <2>4, <2>11
  <2> QED  BY <1>6, <2>12, CountBySums
<1>7. CASE z = 4
  <2>1. m[0] = 255 /\ m[1] = 255 /\ m[2] = 255 /\ m[3] = 255 /\ m[4] = 0 /\ m[5] = 0 /\ m[6] = 0 /\ m[7] = 0
    BY <1>1, <1>7
  <2>2. /\ Column(m, 0) = 2040 /\ Column(m, 1) = 3570 /\ Column(m, 2) = 4845 /\ Column(m, 3) = 5865
        /\ Column(m, 4) = 4590 /\ Column(m, 5) = 3570 /\ Column(m, 6) = 2550 /\ Column(m, 7) = 1530
    BY <2>1, Weights DEF Column
  <2>3. \A n \in ByteIndex : Column(m, n) \in Nat
    BY <2>2 DEF ByteIndex
  <2>4. /\ Sums(m)[0] = Column(m, 0)
        /\ \A k \in 1 .. 7 : Sums(m)[k] = Column(m, k) + (Sums(m)[k - 1] \div 256)
    BY <2>3, SumsFacts
  <2>5. Sums(m)[0] = 2040
    BY <2>2, <2>4
  <2>6. Sums(m)[1] = 3577
    BY <2>2, <2>4, <2>5
  <2>7. Sums(m)[2] = 4858
    BY <2>2, <2>4, <2>6
  <2>8. Sums(m)[3] = 5883
    BY <2>2, <2>4, <2>7
  <2>9. Sums(m)[4] = 4612
    BY <2>2, <2>4, <2>8
  <2>10. Sums(m)[5] = 3588
    BY <2>2, <2>4, <2>9
  <2>11. Sums(m)[6] = 2564
    BY <2>2, <2>4, <2>10
  <2>12. Sums(m)[7] = 1540
    BY <2>2, <2>4, <2>11
  <2> QED  BY <1>7, <2>12, CountBySums
<1>8. CASE z = 5
  <2>1. m[0] = 255 /\ m[1] = 255 /\ m[2] = 255 /\ m[3] = 255 /\ m[4] = 255 /\ m[5] = 0 /\ m[6] = 0 /\ m[7] = 0
    BY <1>1, <1>8
  <2>2. /\ Column(m, 0) = 2040 /\ Column(m, 1) = 3570 /\ Column(m, 2) = 4845 /\ Column(m, 3) = 5865
        /\ Column(m, 4) = 6630 /\ Column(m, 5) = 5100 /\ Column(m, 6) = 3825 /\ Column(m, 7) = 2550
    BY <2>1, Weights DEF Column
  <2>3. \A n \in ByteIndex : Column(m, n) \in Nat
    BY <2>2 DEF ByteIndex
  <2>4. /\ Sums(m)[0] = Column(m, 0)
        /\ \A k \in 1 .. 7 : Sums(m)[k] = Column(m, k) + (Sums(m)[k - 1] \div 256)
    BY <2>3, SumsFacts
  <2>5. Sums(m)[0] = 2040
    BY <2>2, <2>4
  <2>6. Sums(m)[1] = 3577
    BY <2>2, <2>4, <2>5
  <2>7. Sums(m)[2] = 4858
    BY <2>2, <2>4, <2>6
  <2>8. Sums(m)[3] = 5883
    BY <2>2, <2>4, <2>7
  <2>9. Sums(m)[4] = 6652
    BY <2>2, <2>4, <2>8
  <2>10. Sums(m)[5] = 5125
    BY <2>2, <2>4, <2>9
  <2>11. Sums(m)[6] = 3845
    BY <2>2, <2>4, <2>10
  <2>12. Sums(m)[7] = 2565
    BY <2>2, <2>4, <2>11
  <2> QED  BY <1>8, <2>12, CountBySums
<1>9. CASE z = 6
  <2>1. m[0] = 255 /\ m[1] = 255 /\ m[2] = 255 /\ m[3] = 255 /\ m[4] = 255 /\ m[5] = 255 /\ m[6] = 0 /\ m[7] = 0
    BY <1>1, <1>9
  <2>2. /\ Column(m, 0) = 2040 /\ Column(m, 1) = 3570 /\ Column(m, 2) = 4845 /\ Column(m, 3) = 5865
        /\ Column(m, 4) = 6630 /\ Column(m, 5) = 7140 /\ Column(m, 6) = 5355 /\ Column(m, 7) = 3825
    BY <2>1, Weights DEF Column
  <2>3. \A n \in ByteIndex : Column(m, n) \in Nat
    BY <2>2 DEF ByteIndex
  <2>4. /\ Sums(m)[0] = Column(m, 0)
        /\ \A k \in 1 .. 7 : Sums(m)[k] = Column(m, k) + (Sums(m)[k - 1] \div 256)
    BY <2>3, SumsFacts
  <2>5. Sums(m)[0] = 2040
    BY <2>2, <2>4
  <2>6. Sums(m)[1] = 3577
    BY <2>2, <2>4, <2>5
  <2>7. Sums(m)[2] = 4858
    BY <2>2, <2>4, <2>6
  <2>8. Sums(m)[3] = 5883
    BY <2>2, <2>4, <2>7
  <2>9. Sums(m)[4] = 6652
    BY <2>2, <2>4, <2>8
  <2>10. Sums(m)[5] = 7165
    BY <2>2, <2>4, <2>9
  <2>11. Sums(m)[6] = 5382
    BY <2>2, <2>4, <2>10
  <2>12. Sums(m)[7] = 3846
    BY <2>2, <2>4, <2>11
  <2> QED  BY <1>9, <2>12, CountBySums
<1>10. CASE z = 7
  <2>1. m[0] = 255 /\ m[1] = 255 /\ m[2] = 255 /\ m[3] = 255 /\ m[4] = 255 /\ m[5] = 255 /\ m[6] = 255 /\ m[7] = 0
    BY <1>1, <1>10
  <2>2. /\ Column(m, 0) = 2040 /\ Column(m, 1) = 3570 /\ Column(m, 2) = 4845 /\ Column(m, 3) = 5865
        /\ Column(m, 4) = 6630 /\ Column(m, 5) = 7140 /\ Column(m, 6) = 7395 /\ Column(m, 7) = 5355
    BY <2>1, Weights DEF Column
  <2>3. \A n \in ByteIndex : Column(m, n) \in Nat
    BY <2>2 DEF ByteIndex
  <2>4. /\ Sums(m)[0] = Column(m, 0)
        /\ \A k \in 1 .. 7 : Sums(m)[k] = Column(m, k) + (Sums(m)[k - 1] \div 256)
    BY <2>3, SumsFacts
  <2>5. Sums(m)[0] = 2040
    BY <2>2, <2>4
  <2>6. Sums(m)[1] = 3577
    BY <2>2, <2>4, <2>5
  <2>7. Sums(m)[2] = 4858
    BY <2>2, <2>4, <2>6
  <2>8. Sums(m)[3] = 5883
    BY <2>2, <2>4, <2>7
  <2>9. Sums(m)[4] = 6652
    BY <2>2, <2>4, <2>8
  <2>10. Sums(m)[5] = 7165
    BY <2>2, <2>4, <2>9
  <2>11. Sums(m)[6] = 7422
    BY <2>2, <2>4, <2>10
  <2>12. Sums(m)[7] = 5383
    BY <2>2, <2>4, <2>11
  <2> QED  BY <1>10, <2>12, CountBySums
<1> QED  BY <1>2, <1>3, <1>4, <1>5, <1>6, <1>7, <1>8, <1>9, <1>10

-----------------------------------------------------------------------------
(***************************************************************************)
(* The loops.  What lies before res is copied and holds no NUL; the word   *)
(* in flight was read once, so that a source that changes meanwhile cannot *)
(* make its test and its copy disagree.                                    *)
(***************************************************************************)
Offsets == 0 .. (SourceSize - 1)

CopyType ==
  /\ source \in [Offsets -> Byte]
  /\ dest \in [Offsets -> Byte \cup {Untouched}]
  /\ total \in 0 .. SourceSize
  /\ changed \in Nat
  /\ reads \subseteq 0 .. (total - 1)
  /\ \A k \in Offsets : k >= total => dest[k] = Untouched

Copied ==
  \A k \in 0 .. (res - 1) : dest[k] \in 1 .. 255 /\ (changed = 0 => dest[k] = source[k])

\* The first zero byte of a word is its z-th.
EndsAt(w, z) == w[z] = 0 /\ \A k \in 0 .. (z - 1) : w[k] # 0

WordInv ==
  cpc \in {"fetched", "word", "mask"} =>
    /\ max >= 8
    /\ word \in [ByteIndex -> Byte]
    /\ changed = 0 => \A k \in ByteIndex : word[k] = source[res + k]
    /\ cpc = "word" => data = has_zero(word)
    /\ cpc = "mask" => \E z \in ByteIndex : /\ EndsAt(word, z)
                                            /\ data = [k \in ByteIndex |-> IF k < z THEN 255 ELSE 0]

LoopInv ==
  cpc # "returned" =>
    /\ cpc \in {"words", "fetched", "word", "mask", "bytes"}
    /\ total > 0
    /\ res \in 0 .. total
    /\ count = total - res
    /\ cpc # "bytes" => max \in 0 .. count
    /\ Copied
    /\ WordInv

CopyInv ==
  /\ routine = "strscpy" => CopyType /\ LoopInv
  /\ routine # "strscpy" => total = 0 /\ reads = {} /\ dest = <<>>
  /\ CopyIsString

\* A word that has_zero marks nowhere has no zero byte.
LEMMA WordWithoutZero ==
  ASSUME NEW w \in [ByteIndex -> Byte], has_zero(w) = Zero8
  PROVE  \A k \in ByteIndex : w[k] \in 1 .. 255
<1> DEFINE T == {k \in ByteIndex : w[k] = 0}
<1>1. T = {}
  <2> SUFFICES ASSUME T # {} PROVE FALSE
    OBVIOUS
  <2>1. T \in SUBSET Nat
    BY DEF ByteIndex
  <2>2. PICK z \in T : \A y \in T : z <= y
    BY <2>1, LeastNatural
  <2>3. z \in 0 .. 8 /\ z \in ByteIndex /\ w[z] = 0
    BY DEF ByteIndex
  <2>4. \A k \in 0 .. (z - 1) : w[k] # 0
    <3> SUFFICES ASSUME NEW k \in 0 .. (z - 1), w[k] = 0 PROVE FALSE
      OBVIOUS
    <3>1. k \in ByteIndex /\ ~(z <= k)
      BY <2>3 DEF ByteIndex
    <3> QED  BY <2>2, <3>1
  <2>5. has_zero(w)[z] = 128
    BY <2>3, <2>4, HasZeroFacts
  <2> QED  BY <2>3, <2>5 DEF Zero8
<1> QED  BY <1>1 DEF Byte

\* The mask of a word with a mark covers what is before its first zero byte.
LEMMA WordWithZero ==
  ASSUME NEW w \in [ByteIndex -> Byte], has_zero(w) # Zero8
  PROVE  \E z \in ByteIndex :
           /\ EndsAt(w, z)
           /\ create_zero_mask(has_zero(w)) = [k \in ByteIndex |-> IF k < z THEN 255 ELSE 0]
<1> DEFINE T == {k \in ByteIndex : w[k] = 0}
<1>1. T # {}
  <2> SUFFICES ASSUME \A k \in ByteIndex : w[k] # 0 PROVE FALSE
    OBVIOUS
  <2>1. 8 \in 0 .. 8 /\ 8 \notin ByteIndex /\ 8 - 1 = 7 /\ ByteIndex = 0 .. 7
    BY DEF ByteIndex
  <2>2. has_zero(w) \in [ByteIndex -> {0, 128}] /\ \A k \in 0 .. 7 : has_zero(w)[k] = 0
    BY <2>1, HasZeroFacts
  <2>3. has_zero(w) = Zero8
    BY <2>1, <2>2 DEF Zero8
  <2> QED  BY <2>3
<1>2. T \in SUBSET Nat
  BY DEF ByteIndex
<1>3. PICK z \in T : \A y \in T : z <= y
  BY <1>1, <1>2, LeastNatural
<1>4. z \in 0 .. 8 /\ z \in ByteIndex /\ w[z] = 0
  BY DEF ByteIndex
<1>5. \A k \in 0 .. (z - 1) : w[k] # 0
  <2> SUFFICES ASSUME NEW k \in 0 .. (z - 1), w[k] = 0 PROVE FALSE
    OBVIOUS
  <2>1. k \in ByteIndex /\ ~(z <= k)
    BY <1>4 DEF ByteIndex
  <2> QED  BY <1>3, <2>1
<1>6. /\ has_zero(w) \in [ByteIndex -> {0, 128}]
      /\ \A k \in 0 .. (z - 1) : has_zero(w)[k] = 0
      /\ has_zero(w)[z] = 128
  BY <1>4, <1>5, HasZeroFacts
<1>7. create_zero_mask(has_zero(w)) = [k \in ByteIndex |-> IF k < z THEN 255 ELSE 0]
  BY <1>4, <1>6, ZeroMaskFacts
<1> QED  BY <1>4, <1>5, <1>7 DEF EndsAt

\* The call.
LEMMA CopyStarts ==
  ASSUME StringInit
  PROVE  CopyType /\ LoopInv /\ CopyIsString
<1> USE StringConstants DEF StringConstants
<1>1. PICK text \in Sources, n \in Counts, aligned \in BOOLEAN : CopyStart(text, n, aligned)
  BY DEF StringInit
<1>2. n \in 0 .. SourceSize
  OBVIOUS
<1>3. CopyType
  BY <1>1, <1>2 DEF CopyStart, CopyType, Offsets, Untouched, Byte
<1>4. LoopInv
  BY <1>1, <1>2 DEF CopyStart, LoopInv, Copied, WordInv
<1>5. CopyIsString
  <2>1. reads = {} /\ (cpc = "returned" => total = 0) /\ total \in Nat
    BY <1>1, <1>2 DEF CopyStart
  <2>2. ~(cpc = "returned" /\ total > 0)
    BY <2>1
  <2>3. DOMAIN dest = Offsets /\ \A k \in Offsets : k >= total => dest[k] = Untouched
    BY <1>3 DEF CopyType
  <2>4. CopyIsBoundedString
    BY <2>1, <2>2, <2>3 DEF CopyIsBoundedString
  <2>5. CopyIsFaithful
    BY <2>2 DEF CopyIsFaithful
  <2> QED  BY <2>4, <2>5 DEF CopyIsString
<1> QED  BY <1>3, <1>4, <1>5

\* A word is read, tested, and found to have no zero byte, or masked.
LEMMA WordSteps ==
  ASSUME CopyType, LoopInv, FetchWord \/ TestWord \/ MaskWord \/ WordsDone
  PROVE  CopyType' /\ LoopInv' /\ CopyIsString'
<1> USE StringConstants DEF StringConstants
<1>1. UNCHANGED <<source, dest, total, count, max, res, changed>>
      /\ cpc \notin {"returned", "bytes"} /\ cpc' # "returned"
  BY DEF FetchWord, TestWord, MaskWord, WordsDone
<1>2. /\ total \in 1 .. SourceSize /\ res \in 0 .. total /\ count = total - res
      /\ max \in 0 .. count /\ Copied
  BY <1>1 DEF LoopInv, CopyType
<1>3. Copied'
  BY <1>1, <1>2 DEF Copied
<1>4. reads' \subseteq 0 .. (total - 1)
  <2>1. CASE FetchWord
    <3>1. res .. (res + 7) \subseteq 0 .. (total - 1)
      BY <1>2, <2>1 DEF FetchWord
    <3> QED  BY <2>1, <3>1 DEF FetchWord, CopyType
  <2>2. CASE TestWord \/ MaskWord \/ WordsDone
    BY <2>2 DEF TestWord, MaskWord, WordsDone, CopyType
  <2> QED  BY <2>1, <2>2
<1>5. CopyType'
  BY <1>1, <1>4 DEF CopyType
<1>6. WordInv' /\ cpc' \in {"words", "fetched", "word", "mask", "bytes"}
  <2>1. CASE FetchWord
    <3>1. /\ max >= 8 /\ cpc' = "fetched"
          /\ word' = [j \in ByteIndex |-> source[res + j]]
      BY <2>1 DEF FetchWord
    <3>2. \A k \in ByteIndex : source[res + k] \in Byte
      <4>1. \A k \in ByteIndex : res + k \in Offsets
        BY <1>2, <3>1 DEF ByteIndex, Offsets
      <4> QED  BY <4>1 DEF CopyType
    <3>3. word' \in [ByteIndex -> Byte] /\ \A k \in ByteIndex : word'[k] = source[res + k]
      BY <3>1, <3>2
    <3> QED  BY <1>1, <3>1, <3>3 DEF WordInv
  <2>2. CASE TestWord
    <3>1. cpc = "fetched" /\ cpc' = "word" /\ word' = word /\ data' = has_zero(word)
      BY <2>2 DEF TestWord
    <3>2. WordInv
      BY <1>1 DEF LoopInv
    <3> QED  BY <1>1, <3>1, <3>2 DEF WordInv
  <2>3. CASE MaskWord
    <3>1. /\ cpc = "word" /\ cpc' = "mask" /\ word' = word /\ data # Zero8
          /\ data' = create_zero_mask(data)
      BY <2>3 DEF MaskWord
    <3>2. WordInv
      BY <1>1 DEF LoopInv
    <3>3. word \in [ByteIndex -> Byte] /\ data = has_zero(word)
      BY <3>1, <3>2 DEF WordInv
    <3>4. PICK z \in ByteIndex :
            EndsAt(word, z) /\ data' = [k \in ByteIndex |-> IF k < z THEN 255 ELSE 0]
      BY <3>1, <3>3, WordWithZero
    <3>5. EndsAt(word, z)'
      BY <3>1, <3>4 DEF EndsAt
    <3> QED  BY <1>1, <3>1, <3>2, <3>4, <3>5 DEF WordInv
  <2>4. CASE WordsDone
    <3>1. cpc' = "bytes"
      BY <2>4 DEF WordsDone
    <3> QED  BY <3>1 DEF WordInv
  <2> QED  BY <2>1, <2>2, <2>3, <2>4
<1>7. LoopInv'
  BY <1>1, <1>2, <1>3, <1>6 DEF LoopInv
<1>8. CopyIsString'
  BY <1>1, <1>5 DEF CopyIsString, CopyIsBoundedString, CopyIsFaithful, CopyType, Offsets
<1> QED  BY <1>5, <1>7, <1>8

\* What a store of a word at res leaves.
LEMMA StoredWord ==
  ASSUME CopyType, NEW w \in [ByteIndex -> Byte], res \in Nat, res + 7 < total,
         dest' = Store8(w)
  PROVE  /\ dest' \in [Offsets -> Byte \cup {Untouched}]
         /\ \A k \in 0 .. (res - 1) : dest'[k] = dest[k]
         /\ \A k \in ByteIndex : res + k \in Offsets /\ dest'[res + k] = w[k]
         /\ \A k \in Offsets : k >= total => dest'[k] = Untouched
<1> USE StringConstants DEF StringConstants
<1>1. DOMAIN dest = Offsets /\ dest \in [Offsets -> Byte \cup {Untouched}] /\ total \in 0 .. SourceSize
  BY DEF CopyType
<1>2. dest' = [k \in Offsets |-> IF k >= res /\ k < res + 8 THEN w[k - res] ELSE dest[k]]
  BY <1>1 DEF Store8
<1>3. \A k \in Offsets : k >= res /\ k < res + 8 => k - res \in ByteIndex
  BY DEF Offsets, ByteIndex
<1>4. dest' \in [Offsets -> Byte \cup {Untouched}]
  BY <1>1, <1>2, <1>3
<1>5. \A k \in 0 .. (res - 1) : dest'[k] = dest[k]
  BY <1>1, <1>2 DEF Offsets
<1>6. ASSUME NEW k \in ByteIndex PROVE res + k \in Offsets /\ dest'[res + k] = w[k]
  <2>1. res + k \in Offsets /\ res + k >= res /\ res + k < res + 8 /\ (res + k) - res = k
    BY <1>1 DEF Offsets, ByteIndex
  <2> QED  BY <1>2, <2>1
<1>7. \A k \in Offsets : k >= total => dest'[k] = Untouched
  <2> SUFFICES ASSUME NEW k \in Offsets, k >= total PROVE dest'[k] = Untouched
    OBVIOUS
  <2>1. ~(k >= res /\ k < res + 8)
    BY <1>1 DEF Offsets
  <2>2. dest'[k] = dest[k]
    BY <1>2, <2>1
  <2> QED  BY <2>2 DEF CopyType
<1> QED  BY <1>4, <1>5, <1>6, <1>7

\* A word without a zero byte is copied whole.
LEMMA CopyWordStep ==
  ASSUME CopyType, LoopInv, CopyWord
  PROVE  CopyType' /\ LoopInv' /\ CopyIsString'
<1> USE StringConstants DEF StringConstants
<1>1. /\ cpc = "word" /\ cpc' = "words" /\ data = Zero8 /\ dest' = Store8(word)
      /\ res' = res + 8 /\ count' = count - 8 /\ max' = max - 8
      /\ UNCHANGED <<source, total, reads, changed>>
  BY DEF CopyWord
<1>2. /\ total \in 1 .. SourceSize /\ res \in 0 .. total /\ count = total - res
      /\ max \in 0 .. count /\ Copied /\ WordInv
  BY <1>1 DEF LoopInv, CopyType
<1>3. /\ max >= 8 /\ word \in [ByteIndex -> Byte] /\ data = has_zero(word)
      /\ (changed = 0 => \A k \in ByteIndex : word[k] = source[res + k])
  BY <1>1, <1>2 DEF WordInv
<1>4. \A k \in ByteIndex : word[k] \in 1 .. 255
  BY <1>1, <1>3, WordWithoutZero
<1>5. res \in Nat /\ res + 7 < total
  BY <1>2, <1>3
<1>6. /\ dest' \in [Offsets -> Byte \cup {Untouched}]
      /\ \A k \in 0 .. (res - 1) : dest'[k] = dest[k]
      /\ \A k \in ByteIndex : res + k \in Offsets /\ dest'[res + k] = word[k]
      /\ \A k \in Offsets : k >= total => dest'[k] = Untouched
  BY <1>1, <1>3, <1>5, StoredWord
<1>7. CopyType'
  BY <1>1, <1>6 DEF CopyType
<1>8. Copied'
  <2> SUFFICES ASSUME NEW k \in 0 .. (res' - 1)
               PROVE  dest'[k] \in 1 .. 255 /\ (changed' = 0 => dest'[k] = source'[k])
    BY DEF Copied
  <2>1. CASE k < res
    <3>1. k \in 0 .. (res - 1)
      BY <1>1, <1>2, <2>1
    <3> QED  BY <1>1, <1>2, <1>6, <3>1 DEF Copied
  <2>2. CASE ~(k < res)
    <3>1. PICK j \in ByteIndex : k = res + j
      <4>1. k - res \in ByteIndex /\ k = res + (k - res)
        BY <1>1, <1>2, <2>2 DEF ByteIndex
      <4> QED  BY <4>1
    <3> QED  BY <1>1, <1>3, <1>4, <1>6, <3>1
  <2> QED  BY <2>1, <2>2
<1>9. LoopInv'
  <2>1. res' \in 0 .. total /\ count' = total - res' /\ max' \in 0 .. count'
    BY <1>1, <1>2, <1>3
  <2> QED  BY <1>1, <1>2, <1>8, <2>1 DEF LoopInv, WordInv
<1>10. CopyIsString'
  BY <1>1, <1>7 DEF CopyIsString, CopyIsBoundedString, CopyIsFaithful, CopyType, Offsets
<1> QED  BY <1>7, <1>9, <1>10

\* A copy that returns a length.
LEMMA ReturnsLength ==
  ASSUME NEW n \in 0 .. (total - 1), total \in Nat, CopyType', UNCHANGED <<source, total, changed>>,
         value' = n, dest'[n] = 0, \A k \in 0 .. (n - 1) : dest'[k] \in 1 .. 255,
         changed = 0 => source[n] = 0 /\ \A k \in 0 .. (n - 1) : dest'[k] = source[k]
  PROVE  CopyIsString'
<1>1. value' # -E2BIG /\ value' = n /\ n \in 0 .. (total' - 1)
  BY DEF E2BIG
<1>2. DOMAIN dest' = Offsets /\ reads' \subseteq 0 .. (total' - 1)
      /\ \A k \in Offsets : k >= total' => dest'[k] = Untouched
  BY DEF CopyType
<1>3. \A k \in 0 .. (n - 1) : dest'[k] \notin {0, Untouched}
  BY DEF Untouched
<1>4. CopyIsBoundedString'
  BY <1>1, <1>2, <1>3, Zenon DEF CopyIsBoundedString
<1>5. CopyIsFaithful'
  BY <1>1, Zenon DEF CopyIsFaithful
<1> QED  BY <1>4, <1>5 DEF CopyIsString

\* A copy that is cut to the size.
LEMMA ReturnsCut ==
  ASSUME total \in Nat, total > 0, CopyType', UNCHANGED <<source, total, changed>>,
         value' = -E2BIG, dest'[total - 1] = 0,
         \A k \in 0 .. (total - 2) : dest'[k] \in 1 .. 255,
         changed = 0 => /\ \A k \in 0 .. (total - 1) : source[k] # 0
                        /\ \A k \in 0 .. (total - 2) : dest'[k] = source[k]
  PROVE  CopyIsString'
<1>1. /\ value' = -E2BIG /\ total' - 1 \in 0 .. (total' - 1) /\ dest'[total' - 1] = 0
      /\ total' - 1 - 1 = total - 2
  BY Z3
<1>2. DOMAIN dest' = Offsets /\ reads' \subseteq 0 .. (total' - 1)
      /\ \A k \in Offsets : k >= total' => dest'[k] = Untouched
  BY DEF CopyType
<1>3. \A k \in 0 .. (total' - 1 - 1) : dest'[k] \notin {0, Untouched}
  BY <1>1 DEF Untouched
<1>4. CopyIsBoundedString'
  BY <1>1, <1>2, <1>3, Zenon DEF CopyIsBoundedString
<1>5. CopyIsFaithful'
  BY <1>1, Zenon DEF CopyIsFaithful
<1> QED  BY <1>4, <1>5 DEF CopyIsString

\* The word with the NUL ends the copy: what is before the NUL is kept, and
\* the result is where it is.
LEMMA CopyLastWordStep ==
  ASSUME CopyType, LoopInv, CopyLastWord
  PROVE  CopyType' /\ LoopInv' /\ CopyIsString'
<1> USE StringConstants DEF StringConstants
<1>1. /\ cpc = "mask" /\ cpc' = "returned" /\ dest' = Store8(Masked(word, data))
      /\ value' = res + count_masked_bytes(data)
      /\ UNCHANGED <<source, total, reads, changed>>
  BY DEF CopyLastWord
<1>2. /\ total \in 1 .. SourceSize /\ res \in 0 .. total /\ count = total - res
      /\ max \in 0 .. count /\ Copied /\ WordInv
  BY <1>1 DEF LoopInv, CopyType
<1>3. /\ max >= 8 /\ word \in [ByteIndex -> Byte]
      /\ (changed = 0 => \A k \in ByteIndex : word[k] = source[res + k])
  BY <1>1, <1>2 DEF WordInv
<1>4. PICK z \in ByteIndex :
        EndsAt(word, z) /\ data = [k \in ByteIndex |-> IF k < z THEN 255 ELSE 0]
  BY <1>1, <1>2 DEF WordInv
<1>5. value' = res + z
  BY <1>1, <1>4, CountMaskedBytes
<1> DEFINE w == Masked(word, data)
<1>6. \A k \in ByteIndex : w[k] = IF k < z THEN word[k] ELSE 0
  BY <1>4 DEF Masked, ByteIndex
<1>7. w \in [ByteIndex -> Byte]
  BY <1>3 DEF Masked, Byte
<1>8. res \in Nat /\ res + 7 < total /\ z \in 0 .. 7
  BY <1>2, <1>3 DEF ByteIndex
<1>9. /\ dest' \in [Offsets -> Byte \cup {Untouched}]
      /\ \A k \in 0 .. (res - 1) : dest'[k] = dest[k]
      /\ \A k \in ByteIndex : res + k \in Offsets /\ dest'[res + k] = w[k]
      /\ \A k \in Offsets : k >= total => dest'[k] = Untouched
  <2> HIDE DEF w
  <2>1. dest' = Store8(w)
    BY <1>1 DEF w
  <2> QED  BY <1>7, <1>8, <2>1, StoredWord
<1> HIDE DEF w
<1>10. CopyType'
  BY <1>1, <1>9 DEF CopyType
<1>11. LoopInv'
  BY <1>1 DEF LoopInv
<1>12. ASSUME NEW k \in 0 .. (res + z - 1)
       PROVE  dest'[k] \in 1 .. 255 /\ (changed = 0 => dest'[k] = source[k])
  <2>1. CASE k < res
    <3>1. k \in 0 .. (res - 1)
      BY <1>8, <2>1
    <3> QED  BY <1>2, <1>9, <3>1 DEF Copied
  <2>2. CASE ~(k < res)
    <3>1. PICK j \in ByteIndex : k = res + j /\ j < z
      <4>1. k - res \in ByteIndex /\ k = res + (k - res) /\ k - res < z
        BY <1>8, <2>2 DEF ByteIndex
      <4> QED  BY <4>1
    <3>2. dest'[k] = word[j]
      BY <1>6, <1>9, <3>1
    <3>3. word[j] \in 1 .. 255
      <4>1. j \in 0 .. (z - 1)
        BY <1>8, <3>1 DEF ByteIndex
      <4> QED  BY <1>3, <1>4, <3>1, <4>1 DEF EndsAt, Byte
    <3> QED  BY <1>3, <3>1, <3>2, <3>3
  <2> QED  BY <2>1, <2>2
<1>13. dest'[res + z] = 0 /\ (changed = 0 => source[res + z] = 0)
  <2>1. word[z] = 0 /\ ~(z < z)
    BY <1>4, <1>8 DEF EndsAt
  <2> QED  BY <1>3, <1>6, <1>9, <2>1
<1>14. res + z \in 0 .. (total - 1)
  BY <1>2, <1>8
<1>15. /\ \A k \in 0 .. (res + z - 1) : dest'[k] \in 1 .. 255
       /\ changed = 0 => \A k \in 0 .. (res + z - 1) : dest'[k] = source[k]
  BY <1>12
<1>16. CopyIsString'
  <2>1. PICK n \in 0 .. (total - 1) : n = res + z
    BY <1>14
  <2>2. value' = n /\ dest'[n] = 0 /\ (changed = 0 => source[n] = 0)
    BY <1>5, <1>13, <2>1
  <2>3. /\ \A k \in 0 .. (n - 1) : dest'[k] \in 1 .. 255
        /\ changed = 0 => \A k \in 0 .. (n - 1) : dest'[k] = source[k]
    <3>1. 0 .. (n - 1) = 0 .. (res + z - 1)
      BY <1>8, <2>1
    <3> QED  BY <1>15, <3>1
  <2>4. total \in Nat
    BY <1>2
  <2> QED  BY <1>1, <1>10, <2>2, <2>3, <2>4, ReturnsLength
<1> QED  BY <1>10, <1>11, <1>16

\* The loop over bytes stores before it tests.
LEMMA CopyByteStep ==
  ASSUME CopyType, LoopInv, CopyByte
  PROVE  CopyType' /\ LoopInv' /\ CopyIsString'
<1> USE StringConstants DEF StringConstants
<1>1. /\ cpc = "bytes" /\ count > 0 /\ dest' = [dest EXCEPT ![res] = source[res]]
      /\ reads' = reads \cup {res}
      /\ UNCHANGED <<source, total, max, changed>>
  BY DEF CopyByte
<1>2. /\ total \in 1 .. SourceSize /\ res \in 0 .. total /\ count = total - res
      /\ Copied
  BY <1>1 DEF LoopInv, CopyType
<1>3. res \in Offsets /\ res \in 0 .. (total - 1) /\ source[res] \in Byte
  BY <1>1, <1>2 DEF CopyType, Offsets
<1>4. /\ dest' \in [Offsets -> Byte \cup {Untouched}]
      /\ dest'[res] = source[res]
      /\ \A k \in Offsets : k # res => dest'[k] = dest[k]
  BY <1>1, <1>3 DEF CopyType
<1>5. \A k \in Offsets : k >= total => dest'[k] = Untouched
  BY <1>2, <1>3, <1>4 DEF CopyType, Offsets
<1>6. reads' \subseteq 0 .. (total - 1)
  BY <1>1, <1>3 DEF CopyType
<1>7. CopyType'
  BY <1>1, <1>4, <1>5, <1>6 DEF CopyType
<1>8. /\ \A k \in 0 .. (res - 1) : dest'[k] \in 1 .. 255
      /\ changed = 0 => \A k \in 0 .. (res - 1) : dest'[k] = source[k]
  <2>1. \A k \in 0 .. (res - 1) : k \in Offsets /\ k # res
    BY <1>2 DEF Offsets
  <2>2. \A k \in 0 .. (res - 1) : dest'[k] = dest[k]
    BY <1>4, <2>1, Zenon
  <2>3. \A k \in 0 .. (res - 1) : dest[k] \in 1 .. 255 /\ (changed = 0 => dest[k] = source[k])
    BY <1>2 DEF Copied
  <2> QED  BY <2>2, <2>3, Zenon
<1>9. CASE source[res] = 0
  <2>1. cpc' = "returned" /\ value' = res
    BY <1>9 DEF CopyByte
  <2>2. total \in Nat
    BY <1>2
  <2>3. CopyIsString'
    BY <1>1, <1>3, <1>4, <1>7, <1>8, <1>9, <2>1, <2>2, ReturnsLength
  <2>4. LoopInv'
    BY <2>1 DEF LoopInv
  <2> QED  BY <1>7, <2>3, <2>4
<1>10. CASE source[res] # 0
  <2>1. res' = res + 1 /\ count' = count - 1 /\ cpc' = "bytes"
    BY <1>1, <1>10 DEF CopyByte
  <2>2. res' \in 0 .. total /\ count' = total - res'
    BY <1>1, <1>2, <2>1
  <2>3. CopyIsString'
    BY <1>1, <1>7, <2>1 DEF CopyIsString, CopyIsBoundedString, CopyIsFaithful, CopyType, Offsets
  <2>4. Copied'
    <3> SUFFICES ASSUME NEW k \in 0 .. (res' - 1)
                 PROVE  dest'[k] \in 1 .. 255 /\ (changed' = 0 => dest'[k] = source'[k])
      BY DEF Copied
    <3>1. CASE k = res
      BY <1>1, <1>3, <1>4, <1>10, <3>1 DEF Byte
    <3>2. CASE k # res
      <4>1. k \in 0 .. (res - 1)
        BY <1>2, <2>1, <3>2
      <4> QED  BY <1>1, <1>8, <4>1
    <3> QED  BY <3>1, <3>2
  <2>5. LoopInv'
    BY <1>1, <1>2, <2>1, <2>2, <2>4 DEF LoopInv, WordInv
  <2> QED  BY <1>7, <2>3, <2>5
<1> QED  BY <1>9, <1>10

\* The loop over bytes ran out of room: the last byte gives way to the NUL.
LEMMA CopyTruncatedStep ==
  ASSUME CopyType, LoopInv, CopyTruncated
  PROVE  CopyType' /\ LoopInv' /\ CopyIsString'
<1> USE StringConstants DEF StringConstants
<1>1. /\ cpc = "bytes" /\ count = 0 /\ cpc' = "returned" /\ value' = -E2BIG
      /\ dest' = IF res > 0 THEN [dest EXCEPT ![res - 1] = 0] ELSE dest
      /\ UNCHANGED <<source, total, reads, changed>>
  BY DEF CopyTruncated
<1>2. total \in 1 .. SourceSize /\ res = total /\ Copied
  BY <1>1 DEF LoopInv, CopyType
<1>3. dest' = [dest EXCEPT ![total - 1] = 0] /\ total - 1 \in Offsets
  BY <1>1, <1>2 DEF Offsets
<1>4. /\ dest' \in [Offsets -> Byte \cup {Untouched}]
      /\ dest'[total - 1] = 0
      /\ \A k \in Offsets : k # total - 1 => dest'[k] = dest[k]
  BY <1>3 DEF CopyType, Byte
<1>5. \A k \in Offsets : k >= total => dest'[k] = Untouched
  BY <1>2, <1>4 DEF CopyType, Offsets
<1>6. CopyType'
  BY <1>1, <1>4, <1>5 DEF CopyType
<1>7. \A k \in 0 .. (total - 2) : k \in Offsets /\ k # total - 1 /\ k \in 0 .. (total - 1)
  BY <1>2 DEF Offsets
<1>8. \A k \in 0 .. (total - 1) : dest[k] \in 1 .. 255 /\ (changed = 0 => dest[k] = source[k])
  BY <1>2 DEF Copied
<1>9. \A k \in 0 .. (total - 2) : dest'[k] \in 1 .. 255 /\ (changed = 0 => dest'[k] = source[k])
  BY <1>4, <1>7, <1>8
<1>10. ASSUME changed = 0 PROVE \A k \in 0 .. (total - 1) : source[k] # 0
  <2> SUFFICES ASSUME NEW k \in 0 .. (total - 1) PROVE source[k] # 0
    OBVIOUS
  <2>1. dest[k] = source[k] /\ dest[k] \in 1 .. 255
    BY <1>8, <1>10
  <2>2. PICK b \in 1 .. 255 : dest[k] = b
    BY <2>1
  <2>3. b # 0
    OBVIOUS
  <2> QED  BY <2>1, <2>2, <2>3, Zenon
<1>11. total \in Nat /\ total > 0
  BY <1>2
<1>12. CopyIsString'
  BY <1>1, <1>4, <1>6, <1>9, <1>10, <1>11, ReturnsCut
<1> QED  BY <1>1, <1>6, <1>12 DEF LoopInv

\* A byte of the source changes under the copy: the word that was read before
\* is not read again.
LEMMA SourceChangesStep ==
  ASSUME CopyType, LoopInv, SourceChanges
  PROVE  CopyType' /\ LoopInv' /\ CopyIsString'
<1> USE StringConstants DEF StringConstants
<1>1. /\ cpc # "returned" /\ changed' = changed + 1
      /\ UNCHANGED <<dest, total, count, max, res, word, data, cpc, value, reads>>
  BY DEF SourceChanges
<1>2. PICK k \in ChangedAt, b \in ChangedTo : source' = [source EXCEPT ![k] = b]
  BY DEF SourceChanges
<1>3. source' \in [Offsets -> Byte] /\ changed' \in Nat /\ changed' # 0
  BY <1>1, <1>2 DEF CopyType, Offsets
<1>4. CopyType'
  BY <1>1, <1>3 DEF CopyType
<1>5. Copied' /\ WordInv'
  BY <1>1, <1>3 DEF LoopInv, Copied, WordInv, EndsAt
<1>6. LoopInv'
  BY <1>1, <1>5 DEF LoopInv
<1>7. CopyIsString'
  BY <1>1, <1>4 DEF CopyIsString, CopyIsBoundedString, CopyIsFaithful, CopyType, Offsets
<1> QED  BY <1>4, <1>6, <1>7

\* Every step of the library keeps the invariant of strscpy().
LEMMA CopyInvStep ==
  ASSUME CopyInv, [Step]_vars
  PROVE  CopyInv'
<1>1. CASE Copy
  <2>1. routine = "strscpy" /\ routine' = "strscpy" /\ StringNext
    BY <1>1 DEF Copy
  <2>2. CopyType /\ LoopInv
    BY <2>1 DEF CopyInv
  <2>3. CopyType' /\ LoopInv' /\ CopyIsString'
    BY <2>1, <2>2, WordSteps, CopyWordStep, CopyLastWordStep, CopyByteStep, CopyTruncatedStep,
       SourceChangesStep DEF StringNext
  <2> QED  BY <2>1, <2>3 DEF CopyInv
<1>2. CASE Sort \/ Format \/ List \/ Return \/ UNCHANGED vars
  <2>1. UNCHANGED <<source, dest, total, count, max, res, word, data, cpc, value, reads, changed,
                    routine>>
    BY <1>2 DEF Sort, Format, List, Return, vars, copyVars
  <2>2. CopyIsString'
    BY <2>1, Zenon DEF CopyInv, CopyIsString, CopyIsBoundedString, CopyIsFaithful
  <2>3. CopyType' = CopyType /\ LoopInv' = LoopInv
    BY <2>1, Zenon DEF CopyType, LoopInv, Copied, WordInv, EndsAt
  <2> QED  BY <2>1, <2>2, <2>3, Zenon DEF CopyInv
<1> QED  BY <1>1, <1>2 DEF Step

\* strscpy() always leaves a string within its size and returns its length or
\* says that it was cut, for every source, count and word, however often and
\* wherever the source changes under it; it reads nothing behind the count,
\* and a source that keeps still is copied faithfully.
THEOREM CopiesAreAlwaysStrings == Spec => []CopyIsString
<1>1. Init => CopyInv
  <2> SUFFICES ASSUME Init PROVE CopyInv
    OBVIOUS
  <2>1. CASE routine = "strscpy"
    <3>1. StringInit
      BY <2>1 DEF Init
    <3> QED  BY <2>1, <3>1, CopyStarts DEF CopyInv
  <2>2. CASE routine # "strscpy"
    <3>1. NoCopy
      BY <2>2 DEF Init
    <3>2. CopyIsString
      BY <3>1 DEF NoCopy, CopyIsString, CopyIsBoundedString, CopyIsFaithful
    <3> QED  BY <2>2, <3>1, <3>2 DEF CopyInv, NoCopy
  <2> QED  BY <2>1, <2>2
<1>2. CopyInv /\ [Step]_vars => CopyInv'
  BY CopyInvStep
<1>3. CopyInv => CopyIsString
  BY DEF CopyInv
<1> QED  BY <1>1, <1>2, <1>3, PTL DEF Spec

-----------------------------------------------------------------------------
(***************************************************************************)
(* The lists of list.h.  L is what the lists hold for a reader who follows *)
(* the next pointers; which of the stores of the operation in progress are *)
(* outstanding says what the prev pointers describe already.               *)
(***************************************************************************)
\* What the lists hold, and no entry is at two places.
Contents == [Heads -> Seq(Entries)]

Distinct(L) ==
  \A g, h \in Heads : \A j \in 1 .. Len(L[g]), k \in 1 .. Len(L[h]) :
    L[g][j] = L[h][k] => g = h /\ j = k

\* The k-th node of the ring of h; the head is the first and the last one.
NodeAt(L, h, k) == IF k \in 1 .. Len(L[h]) THEN L[h][k] ELSE h

\* The pointers p lead along the lists.
Along(L, p) ==
  \A h \in Heads : \A k \in 0 .. Len(L[h]) : p[NodeAt(L, h, k)] = NodeAt(L, h, k + 1)

Reversed(L) == [h \in Heads |-> Reverse(L[h])]

Pointers == [Nodes -> Nodes \cup {LIST_POISON1, LIST_POISON2}]

LEMMA NodeTypes ==
  ASSUME NEW L \in Contents, NEW h \in Heads, NEW k \in Int
  PROVE  /\ L[h] \in Seq(Entries) /\ Len(L[h]) \in Nat
         /\ NodeAt(L, h, k) \in Nodes
         /\ k \in 1 .. Len(L[h]) => NodeAt(L, h, k) = L[h][k] /\ L[h][k] \in Entries
         /\ k \notin 1 .. Len(L[h]) => NodeAt(L, h, k) = h
<1>1. L[h] \in Seq(Entries)
  BY DEF Contents
<1>2. ASSUME NEW s \in Seq(Entries), NEW j \in 1 .. Len(s) PROVE s[j] \in Entries
  OBVIOUS
<1>3. \A j \in 1 .. Len(L[h]) : L[h][j] \in Entries
  BY <1>1, <1>2
<1> QED  BY <1>1, <1>3 DEF NodeAt, Nodes

\* Every node is at one place.
LEMMA OnePlace ==
  ASSUME NEW L \in Contents, Distinct(L), NEW g \in Heads, NEW h \in Heads,
         NEW j \in 0 .. Len(L[g]), NEW k \in 0 .. Len(L[h]), NodeAt(L, g, j) = NodeAt(L, h, k)
  PROVE  g = h /\ j = k
<1>1. j \in Int /\ k \in Int /\ Heads \cap Entries = {}
  BY NodeTypes, ListConstants
<1>2. Len(L[g]) \in Nat /\ Len(L[h]) \in Nat
  BY <1>1, NodeTypes
<1>3. CASE j = 0 \/ k = 0
  <2>1. j = 0 => NodeAt(L, g, j) = g
    BY <1>1, <1>2, NodeTypes
  <2>2. k = 0 => NodeAt(L, h, k) = h
    BY <1>1, <1>2, NodeTypes
  <2>3. j # 0 => NodeAt(L, g, j) \in Entries
    BY <1>1, <1>2, NodeTypes
  <2>4. k # 0 => NodeAt(L, h, k) \in Entries
    BY <1>1, <1>2, NodeTypes
  <2> QED  BY <1>1, <1>3, <2>1, <2>2, <2>3, <2>4
<1>4. CASE j # 0 /\ k # 0
  <2>1. j \in 1 .. Len(L[g]) /\ k \in 1 .. Len(L[h])
    BY <1>2, <1>4
  <2>2. L[g][j] = L[h][k]
    BY <1>1, <2>1, NodeTypes
  <2> QED  BY <2>1, <2>2 DEF Distinct
<1> QED  BY <1>3, <1>4

-----------------------------------------------------------------------------
(***************************************************************************)
(* A walk finds what the pointers lead along.                              *)
(***************************************************************************)
\* Where a walk along p from h is after k steps.
IsWalk(f, p, h) ==
  f = [k \in 0 .. Cardinality(Nodes) |->
         IF k = 0 THEN p[h]
         ELSE LET pos == f[k - 1] IN IF pos \in Entries THEN p[pos] ELSE pos]

Walk(p, h) == CHOOSE f : IsWalk(f, p, h)

LEMMA WalkIs ==
  ASSUME NEW p, NEW h
  PROVE  list_for_each_entry(p, h) =
           LET ends == {k \in 0 .. Cardinality(Nodes) : Walk(p, h)[k] = h}
           IN  IF p[h] = h THEN <<>>
               ELSE IF ends = {} THEN Lost
               ELSE [k \in 1 .. (CHOOSE n \in ends : \A j \in ends : n <= j) |-> Walk(p, h)[k - 1]]
BY Zenon DEF list_for_each_entry, Walk, IsWalk

\* A list is no longer than the number of nodes.
LEMMA ListsFit ==
  ASSUME NEW L \in Contents, Distinct(L), NEW h \in Heads
  PROVE  Cardinality(Nodes) \in Nat /\ Len(L[h]) <= Cardinality(Nodes)
<1>1. IsFiniteSet(Nodes) /\ Cardinality(Nodes) \in Nat
  BY ListConstants, FS_Union, FS_CardinalityType DEF Nodes
<1>2. PICK n \in Nat : n = Len(L[h])
  BY NodeTypes, 0 \in Int
<1>3. PICK f : f = [k \in 1 .. n |-> L[h][k]]
  OBVIOUS
<1>4. f \in Injection(1 .. n, Nodes)
  <2>1. \A k \in 1 .. n : L[h][k] \in Nodes
    BY <1>2, NodeTypes DEF Nodes
  <2>2. f \in [1 .. n -> Nodes]
    BY <1>3, <2>1
  <2>3. \A j, k \in 1 .. n : f[j] = f[k] => j = k
    BY <1>2, <1>3 DEF Distinct
  <2> QED  BY <2>2, <2>3 DEF Injection, IsInjective
<1>5. Cardinality(1 .. n) <= Cardinality(Nodes)
  BY <1>1, <1>4, FS_Injection
<1>6. Cardinality(1 .. n) = n
  BY <1>2, FS_Interval
<1> QED  BY <1>1, <1>2, <1>5, <1>6

\* From one node of a walk to the next.
WalkSteps(f, p, h, m) ==
  /\ f[0] = p[h]
  /\ \A k \in 1 .. m : f[k] = IF f[k - 1] \in Entries THEN p[f[k - 1]] ELSE f[k - 1]

LEMMA WalkStep ==
  ASSUME NEW f, NEW p, NEW h, IsWalk(f, p, h), NEW m \in Nat, m = Cardinality(Nodes)
  PROVE  WalkSteps(f, p, h, m)
<1>1. \A k \in 0 .. m : f[k] = IF k = 0 THEN p[h] ELSE IF f[k - 1] \in Entries THEN p[f[k - 1]] ELSE f[k - 1]
  BY Zenon DEF IsWalk
<1>2. 0 \in 0 .. m /\ \A k \in 1 .. m : k \in 0 .. m /\ k # 0
  OBVIOUS
<1> QED  BY <1>1, <1>2, Zenon DEF WalkSteps

\* There is only one walk.
LEMMA OneWalk ==
  ASSUME NEW p, NEW h, NEW m \in Nat, NEW f1, NEW f2, WalkSteps(f1, p, h, m), WalkSteps(f2, p, h, m)
  PROVE  \A k \in 0 .. m : f1[k] = f2[k]
<1> DEFINE T == {k \in 0 .. m : f1[k] # f2[k]}
<1> SUFFICES ASSUME T # {} PROVE FALSE
  OBVIOUS
<1>1. T \in SUBSET Nat
  OBVIOUS
<1>2. PICK k \in T : \A y \in T : k <= y
  BY <1>1, LeastNatural
<1>3. k \in 0 .. m /\ f1[k] # f2[k]
  OBVIOUS
<1>4. k # 0
  BY <1>3 DEF WalkSteps
<1>5. k \in 1 .. m /\ k - 1 \in 0 .. m /\ ~ (k <= k - 1)
  BY <1>3, <1>4
<1>6. k - 1 \notin T
  BY <1>2, <1>5
<1>7. f1[k - 1] = f2[k - 1]
  BY <1>5, <1>6
<1> QED  BY <1>3, <1>5, <1>7, Zenon DEF WalkSteps

\* The pointers lead a walk along the list and back to the head.
LEMMA WalkAlong ==
  ASSUME NEW L \in Contents, Distinct(L), NEW p, Along(L, p), NEW h \in Heads,
         NEW k \in 0 .. Cardinality(Nodes)
  PROVE  Walk(p, h)[k] = NodeAt(L, h, k + 1)
<1>1. PICK m \in Nat : m = Cardinality(Nodes) /\ Len(L[h]) <= m
  BY ListsFit
<1>2. PICK n \in Nat : n = Len(L[h])
  BY NodeTypes, 0 \in Int
<1>3. \A j \in 0 .. n : p[NodeAt(L, h, j)] = NodeAt(L, h, j + 1)
  BY <1>2 DEF Along
<1>4. NodeAt(L, h, 0) = h /\ h \notin Entries
  BY <1>2, NodeTypes, ListConstants
<1> DEFINE f == [j \in 0 .. m |-> NodeAt(L, h, j + 1)]
<1>5. f[0] = p[h]
  <2>1. p[NodeAt(L, h, 0)] = NodeAt(L, h, 0 + 1) /\ 0 \in 0 .. m
    BY <1>2, <1>3
  <2> QED  BY <1>4, <2>1
<1>6. ASSUME NEW j \in 1 .. m PROVE f[j] = IF f[j - 1] \in Entries THEN p[f[j - 1]] ELSE f[j - 1]
  <2>1. j \in 0 .. m /\ j - 1 \in 0 .. m /\ (j - 1) + 1 = j /\ j \in Int /\ j + 1 \in Int
    OBVIOUS
  <2>2. f[j] = NodeAt(L, h, j + 1) /\ f[j - 1] = NodeAt(L, h, j)
    BY <2>1
  <2> HIDE DEF f
  <2>3. CASE j <= n
    <3>1. j \in 1 .. n /\ j \in 0 .. n
      BY <2>1, <2>3
    <3>2. NodeAt(L, h, j) \in Entries
      BY <1>2, <2>1, <3>1, NodeTypes
    <3> QED  BY <1>3, <2>2, <3>1, <3>2, Zenon
  <2>4. CASE ~ (j <= n)
    <3>1. j \notin 1 .. n /\ j + 1 \notin 1 .. n
      BY <2>1, <2>4
    <3>2. NodeAt(L, h, j) = h /\ NodeAt(L, h, j + 1) = h
      BY <1>2, <2>1, <3>1, NodeTypes
    <3> QED  BY <1>4, <2>2, <3>2, Zenon
  <2> QED  BY <2>3, <2>4
<1>7. WalkSteps(f, p, h, m)
  BY <1>5, <1>6, Zenon DEF WalkSteps
<1>8. IsWalk(f, p, h)
  <2>1. ASSUME NEW j \in 0 .. m
        PROVE  f[j] = IF j = 0 THEN p[h] ELSE IF f[j - 1] \in Entries THEN p[f[j - 1]] ELSE f[j - 1]
    <3> HIDE DEF f
    <3>1. CASE j = 0
      BY <1>5, <3>1, Zenon
    <3>2. CASE j # 0
      <4>1. j \in 1 .. m
        BY <3>2
      <4> QED  BY <1>6, <3>2, <4>1, Zenon
    <3> QED  BY <3>1, <3>2
  <2>2. f = [j \in 0 .. m |-> f[j]]
    OBVIOUS
  <2> HIDE DEF f
  <2> QED  BY <1>1, <2>1, <2>2, Zenon DEF IsWalk
<1> HIDE DEF f
<1>9. IsWalk(Walk(p, h), p, h)
  BY <1>8, Zenon DEF Walk
<1>10. WalkSteps(Walk(p, h), p, h, m)
  BY <1>1, <1>9, WalkStep
<1>11. Walk(p, h)[k] = f[k]
  <2>1. \A j \in 0 .. m : Walk(p, h)[j] = f[j]
    BY <1>7, <1>10, OneWalk
  <2> QED  BY <1>1, <2>1
<1> QED  BY <1>1, <1>11 DEF f

LEMMA WalkFinds ==
  ASSUME NEW L \in Contents, Distinct(L), NEW p, Along(L, p), NEW h \in Heads
  PROVE  list_for_each_entry(p, h) = L[h]
<1>1. PICK m \in Nat : m = Cardinality(Nodes) /\ Len(L[h]) <= m
  BY ListsFit
<1>2. PICK n \in Nat : n = Len(L[h]) /\ n <= m
  BY <1>1, NodeTypes, 0 \in Int
<1>3. L[h] \in Seq(Entries) /\ h \notin Entries
  BY NodeTypes, ListConstants, 0 \in Int
<1>4. PICK w : w = Walk(p, h)
  OBVIOUS
<1>5. ASSUME NEW k \in 0 .. m
      PROVE  w[k] = (IF k + 1 \in 1 .. n THEN L[h][k + 1] ELSE h)
  <2>1. w[k] = NodeAt(L, h, k + 1)
    BY <1>1, <1>4, WalkAlong
  <2> QED  BY <1>2, <2>1 DEF NodeAt
<1>6. ASSUME NEW k \in 0 .. m PROVE w[k] = h <=> n <= k
  <2>1. CASE n <= k
    BY <1>5, <2>1
  <2>2. CASE ~ (n <= k)
    <3>1. k + 1 \in 1 .. n
      BY <2>2
    <3>2. L[h][k + 1] \in Entries
      BY <1>2, <1>3, <3>1
    <3> QED  BY <1>3, <1>5, <2>2, <3>1, <3>2
  <2> QED  BY <2>1, <2>2
<1>7. w[0] = p[h]
  <2>1. p[NodeAt(L, h, 0)] = NodeAt(L, h, 0 + 1) /\ NodeAt(L, h, 0) = h
    BY <1>2, NodeTypes DEF Along
  <2>2. w[0] = NodeAt(L, h, 0 + 1)
    BY <1>1, <1>4, WalkAlong
  <2> QED  BY <2>1, <2>2
<1>8. (p[h] = h) <=> n = 0
  BY <1>2, <1>6, <1>7
<1> DEFINE ends == {k \in 0 .. m : w[k] = h}
<1>9. list_for_each_entry(p, h) =
        IF p[h] = h THEN <<>>
        ELSE IF ends = {} THEN Lost
        ELSE [k \in 1 .. (CHOOSE x \in ends : \A j \in ends : x <= j) |-> w[k - 1]]
  BY <1>1, <1>4, WalkIs, Zenon
<1>10. n \in ends /\ \A j \in ends : n <= j
  BY <1>2, <1>6
<1>11. (CHOOSE x \in ends : \A j \in ends : x <= j) = n
  <2>1. ends \subseteq Nat
    OBVIOUS
  <2> HIDE DEF ends
  <2>2. \A x \in ends : (\A j \in ends : x <= j) => x = n
    BY <1>10, <2>1
  <2> QED  BY <1>10, <2>2, Zenon
<1> HIDE DEF ends
<1>12. CASE n = 0
  <2>1. L[h] = <<>>
    <3>1. \A s \in Seq(Entries) : Len(s) = 0 => s = <<>>
      OBVIOUS
    <3> QED  BY <1>2, <1>3, <1>12, <3>1
  <2> QED  BY <1>8, <1>9, <1>12, <2>1, Zenon
<1>13. CASE n # 0
  <2>1. list_for_each_entry(p, h) = [k \in 1 .. n |-> w[k - 1]]
    BY <1>8, <1>9, <1>10, <1>11, <1>13, Zenon
  <2>2. ASSUME NEW k \in 1 .. n PROVE w[k - 1] = L[h][k]
    <3>1. k - 1 \in 0 .. m /\ (k - 1) + 1 = k
      BY <1>2
    <3> QED  BY <1>5, <3>1
  <2>3. L[h] = [k \in 1 .. n |-> L[h][k]]
    BY <1>2, <1>3
  <2> QED  BY <2>1, <2>2, <2>3, Zenon
<1> QED  BY <1>12, <1>13

-----------------------------------------------------------------------------
(***************************************************************************)
(* One entry more or less.                                                 *)
(***************************************************************************)
\* M is L with e behind the k-th node of the ring of h.
Spliced(L, M, h, k, e) ==
  /\ L \in Contents /\ M \in Contents /\ h \in Heads /\ e \in Entries
  /\ k \in 0 .. Len(L[h]) /\ Len(M[h]) = Len(L[h]) + 1
  /\ M[h][k + 1] = e
  /\ \A j \in 1 .. k : M[h][j] = L[h][j]
  /\ \A j \in (k + 1) .. Len(L[h]) : M[h][j + 1] = L[h][j]
  /\ \A g \in Heads \ {h} : M[g] = L[g]

\* The nodes in front of e stay, the ones behind it move on.
LEMMA SplicedNodes ==
  ASSUME NEW L, NEW M, NEW h, NEW k, NEW e, Spliced(L, M, h, k, e), NEW n, n = Len(L[h])
  PROVE  /\ n \in Nat /\ k \in 0 .. n /\ Len(M[h]) = n + 1
         /\ \A j \in 0 .. k : NodeAt(M, h, j) = NodeAt(L, h, j)
         /\ NodeAt(M, h, k + 1) = e
         /\ \A j \in (k + 1) .. (n + 1) : NodeAt(M, h, j + 1) = NodeAt(L, h, j)
         /\ \A g \in Heads \ {h} : \A j \in Int : NodeAt(M, g, j) = NodeAt(L, g, j)
<1>1. /\ L \in Contents /\ M \in Contents /\ h \in Heads /\ e \in Entries
      /\ k \in 0 .. n /\ Len(M[h]) = n + 1 /\ M[h][k + 1] = e
      /\ \A j \in 1 .. k : M[h][j] = L[h][j]
      /\ \A j \in (k + 1) .. n : M[h][j + 1] = L[h][j]
      /\ \A g \in Heads \ {h} : M[g] = L[g]
  BY DEF Spliced
<1>2. n \in Nat
  BY <1>1, NodeTypes, 0 \in Int
<1>3. \A j \in Int : NodeAt(M, h, j) = IF j \in 1 .. (n + 1) THEN M[h][j] ELSE h
  BY <1>1, Zenon DEF NodeAt
<1>4. \A j \in Int : NodeAt(L, h, j) = IF j \in 1 .. n THEN L[h][j] ELSE h
  BY Zenon DEF NodeAt
<1>5. ASSUME NEW j \in 0 .. k PROVE NodeAt(M, h, j) = NodeAt(L, h, j)
  BY <1>1, <1>2, <1>3, <1>4
<1>6. NodeAt(M, h, k + 1) = e
  BY <1>1, <1>2, <1>3
<1>7. ASSUME NEW j \in (k + 1) .. (n + 1) PROVE NodeAt(M, h, j + 1) = NodeAt(L, h, j)
  <2>1. k \in Nat /\ j \in Int /\ j + 1 \in Int
    BY <1>1, <1>2
  <2>2. CASE j <= n
    <3>1. j \in (k + 1) .. n /\ j \in 1 .. n /\ j + 1 \in 1 .. (n + 1)
      BY <1>2, <2>1, <2>2
    <3> QED  BY <1>1, <1>3, <1>4, <2>1, <3>1
  <2>3. CASE ~(j <= n)
    <3>1. j \notin 1 .. n /\ j + 1 \notin 1 .. (n + 1)
      BY <1>2, <2>1, <2>3
    <3> QED  BY <1>3, <1>4, <2>1, <3>1, Zenon
  <2> QED  BY <2>2, <2>3
<1>8. \A g \in Heads \ {h} : \A j \in Int : NodeAt(M, g, j) = NodeAt(L, g, j)
  BY <1>1, Zenon DEF NodeAt
<1> QED  BY <1>1, <1>2, <1>5, <1>6, <1>7, <1>8

\* L has the other entries, at one place each.
LEMMA SplicedApart ==
  ASSUME NEW L, NEW M, NEW h, NEW k, NEW e, Spliced(L, M, h, k, e), Distinct(M)
  PROVE  Distinct(L) /\ \A g \in Heads : \A j \in 1 .. Len(L[g]) : L[g][j] # e
<1>1. L \in Contents /\ h \in Heads /\ \A g \in Heads : Len(L[g]) \in Nat
  BY NodeTypes, 0 \in Int DEF Spliced
<1> DEFINE place(g, j) == IF g = h /\ j > k THEN j + 1 ELSE j
<1>2. ASSUME NEW g \in Heads, NEW j \in 1 .. Len(L[g])
      PROVE  /\ place(g, j) \in 1 .. Len(M[g]) /\ M[g][place(g, j)] = L[g][j]
             /\ g = h => place(g, j) # k + 1
  BY <1>1 DEF Spliced
<1>3. ASSUME NEW g \in Heads, NEW j \in 1 .. Len(L[g]) PROVE L[g][j] # e
  <2>1. h \in Heads /\ k + 1 \in 1 .. Len(M[h]) /\ M[h][k + 1] = e
    BY <1>1 DEF Spliced
  <2> HIDE DEF place
  <2> QED  BY <1>2, <2>1 DEF Distinct
<1>4. ASSUME NEW g1 \in Heads, NEW g2 \in Heads, NEW j1 \in 1 .. Len(L[g1]), NEW j2 \in 1 .. Len(L[g2]),
             L[g1][j1] = L[g2][j2]
      PROVE  g1 = g2 /\ j1 = j2
  <2>1. g1 = g2 /\ place(g1, j1) = place(g2, j2)
    <3>1. /\ place(g1, j1) \in 1 .. Len(M[g1]) /\ place(g2, j2) \in 1 .. Len(M[g2])
          /\ M[g1][place(g1, j1)] = M[g2][place(g2, j2)]
      BY <1>2, <1>4, Zenon
    <3> HIDE DEF place
    <3> QED  BY <3>1, Zenon DEF Distinct
  <2>2. k \in Int /\ j1 \in Int /\ j2 \in Int
    BY <1>1 DEF Spliced
  <2> QED  BY <2>1, <2>2
<1> QED  BY <1>3, <1>4 DEF Distinct

\* The pointers of p2 lead through e, the others are those of p.
Through(p, p2, before, e, behind) ==
  p2[before] = e /\ p2[e] = behind /\ \A x \in Nodes : x # before /\ x # e => p2[x] = p[x]

\* The pointers of p2 lead past e, the others are those of p.
Past(p, p2, before, e, behind) ==
  p2[before] = behind /\ \A x \in Nodes : x # before /\ x # e => p2[x] = p[x]

LEMMA LinkedIn ==
  ASSUME NEW L, NEW M, NEW h, NEW k, NEW e, Spliced(L, M, h, k, e), Distinct(M), NEW p, NEW p2,
         Along(L, p), Through(p, p2, NodeAt(L, h, k), e, NodeAt(L, h, k + 1))
  PROVE  Along(M, p2)
<1>1. PICK n : n = Len(L[h])
  OBVIOUS
<1>2. /\ n \in Nat /\ k \in 0 .. n /\ Len(M[h]) = n + 1
      /\ \A j \in 0 .. k : NodeAt(M, h, j) = NodeAt(L, h, j)
      /\ NodeAt(M, h, k + 1) = e
      /\ \A j \in (k + 1) .. (n + 1) : NodeAt(M, h, j + 1) = NodeAt(L, h, j)
      /\ \A g \in Heads \ {h} : \A j \in Int : NodeAt(M, g, j) = NodeAt(L, g, j)
  BY <1>1, SplicedNodes
<1>3. L \in Contents /\ M \in Contents /\ h \in Heads /\ Distinct(L)
  BY SplicedApart, Zenon DEF Spliced
<1>4. PICK before, behind : before = NodeAt(L, h, k) /\ behind = NodeAt(L, h, k + 1)
  OBVIOUS
<1>5. p2[before] = e /\ p2[e] = behind /\ \A x \in Nodes : x # before /\ x # e => p2[x] = p[x]
  BY <1>4, Zenon DEF Through
<1>6. ASSUME NEW g \in Heads, NEW j \in 0 .. Len(L[g]), g = h => j # k
      PROVE  p2[NodeAt(L, g, j)] = NodeAt(L, g, j + 1)
  <2>1. j \in Int /\ j \in Nat
    BY <1>3, NodeTypes
  <2>2. NodeAt(L, g, j) # before
    BY <1>1, <1>2, <1>3, <1>4, <1>6, OnePlace
  <2>3. NodeAt(L, g, j) # e
    <3>1. CASE j = 0
      <4>1. NodeAt(L, g, j) = g
        BY <1>3, <3>1, NodeTypes
      <4> QED  BY <4>1, ListConstants DEF Spliced
    <3>2. CASE j # 0
      <4>1. j \in 1 .. Len(L[g])
        BY <2>1, <3>2
      <4>2. NodeAt(L, g, j) = L[g][j]
        BY <1>3, <2>1, <4>1, NodeTypes
      <4> QED  BY <4>1, <4>2, SplicedApart
    <3> QED  BY <3>1, <3>2
  <2>4. NodeAt(L, g, j) \in Nodes
    BY <1>3, <2>1, NodeTypes
  <2>5. p[NodeAt(L, g, j)] = NodeAt(L, g, j + 1)
    BY DEF Along
  <2> QED  BY <1>5, <2>2, <2>3, <2>4, <2>5
<1>7. ASSUME NEW g \in Heads, NEW j \in 0 .. Len(M[g])
      PROVE  p2[NodeAt(M, g, j)] = NodeAt(M, g, j + 1)
  <2>1. CASE g # h
    <3>1. M[g] = L[g] /\ Len(L[g]) \in Nat /\ j \in Int /\ j + 1 \in Int
      BY <1>3, <2>1, NodeTypes DEF Spliced
    <3>2. NodeAt(M, g, j) = NodeAt(L, g, j) /\ NodeAt(M, g, j + 1) = NodeAt(L, g, j + 1)
      BY <1>2, <2>1, <3>1
    <3>3. p2[NodeAt(L, g, j)] = NodeAt(L, g, j + 1)
      BY <1>6, <2>1, <3>1
    <3> QED  BY <3>2, <3>3
  <2>2. CASE g = h
    <3>1. j \in 0 .. (n + 1) /\ k \in 0 .. n
      BY <1>2, <2>2
    <3>2. CASE j < k
      <4>1. j \in 0 .. k /\ j + 1 \in 0 .. k /\ j \in 0 .. n /\ j # k
        BY <1>2, <3>1, <3>2
      <4>2. p2[NodeAt(L, h, j)] = NodeAt(L, h, j + 1)
        BY <1>1, <1>3, <1>6, <4>1
      <4> QED  BY <1>2, <2>2, <4>1, <4>2
    <3>3. CASE j = k
      <4>1. NodeAt(M, h, j) = before
        BY <1>2, <1>4, <3>3
      <4> QED  BY <1>2, <1>5, <2>2, <3>3, <4>1
    <3>4. CASE j = k + 1
      <4>1. NodeAt(M, h, j + 1) = behind
        BY <1>2, <1>4, <3>4
      <4> QED  BY <1>2, <1>5, <2>2, <3>4, <4>1
    <3>5. CASE j > k + 1
      <4>1. PICK y \in 0 .. n : y + 1 = j
        BY <1>2, <3>1, <3>5, j - 1 \in 0 .. n
      <4>2. y # k /\ y \in (k + 1) .. (n + 1) /\ y + 1 \in (k + 1) .. (n + 1)
        BY <1>2, <3>1, <3>5, <4>1
      <4>3. p2[NodeAt(L, h, y)] = NodeAt(L, h, y + 1)
        BY <1>1, <1>3, <1>6, <4>2
      <4>4. NodeAt(M, h, y + 1) = NodeAt(L, h, y) /\ NodeAt(M, h, (y + 1) + 1) = NodeAt(L, h, y + 1)
        BY <1>2, <4>2
      <4> QED  BY <2>2, <4>1, <4>3, <4>4
    <3> QED  BY <3>1, <3>2, <3>3, <3>4, <3>5
  <2> QED  BY <2>1, <2>2
<1> QED  BY <1>7 DEF Along

LEMMA TakenOut ==
  ASSUME NEW L, NEW M, NEW h, NEW k, NEW e, Spliced(L, M, h, k, e), Distinct(M), NEW p, NEW p2,
         Along(M, p), Past(p, p2, NodeAt(L, h, k), e, NodeAt(L, h, k + 1))
  PROVE  Along(L, p2)
<1>1. PICK n : n = Len(L[h])
  OBVIOUS
<1>2. /\ n \in Nat /\ k \in 0 .. n /\ Len(M[h]) = n + 1
      /\ \A j \in 0 .. k : NodeAt(M, h, j) = NodeAt(L, h, j)
      /\ NodeAt(M, h, k + 1) = e
      /\ \A j \in (k + 1) .. (n + 1) : NodeAt(M, h, j + 1) = NodeAt(L, h, j)
      /\ \A g \in Heads \ {h} : \A j \in Int : NodeAt(M, g, j) = NodeAt(L, g, j)
  BY <1>1, SplicedNodes
<1>3. L \in Contents /\ M \in Contents /\ h \in Heads
  BY Zenon DEF Spliced
<1>4. PICK before, behind : before = NodeAt(L, h, k) /\ behind = NodeAt(L, h, k + 1)
  OBVIOUS
<1>5. p2[before] = behind /\ \A x \in Nodes : x # before /\ x # e => p2[x] = p[x]
  BY <1>4, Zenon DEF Past
<1>6. ASSUME NEW g \in Heads, NEW j \in 0 .. Len(M[g]), g = h => j # k /\ j # k + 1
      PROVE  p2[NodeAt(M, g, j)] = NodeAt(M, g, j + 1)
  <2>1. j \in Int /\ k \in 0 .. Len(M[h]) /\ k + 1 \in 0 .. Len(M[h])
    BY <1>2, <1>3, NodeTypes
  <2>2. before = NodeAt(M, h, k) /\ e = NodeAt(M, h, k + 1)
    BY <1>2, <1>4
  <2>3. NodeAt(M, g, j) # before /\ NodeAt(M, g, j) # e
    BY <1>3, <1>6, <2>1, <2>2, OnePlace
  <2>4. NodeAt(M, g, j) \in Nodes
    BY <1>3, <2>1, NodeTypes
  <2>5. p[NodeAt(M, g, j)] = NodeAt(M, g, j + 1)
    BY DEF Along
  <2> QED  BY <1>5, <2>3, <2>4, <2>5
<1>7. ASSUME NEW g \in Heads, NEW j \in 0 .. Len(L[g])
      PROVE  p2[NodeAt(L, g, j)] = NodeAt(L, g, j + 1)
  <2>1. CASE g # h
    <3>1. M[g] = L[g] /\ Len(L[g]) \in Nat /\ j \in Int /\ j + 1 \in Int
      BY <1>3, <2>1, NodeTypes DEF Spliced
    <3>2. NodeAt(M, g, j) = NodeAt(L, g, j) /\ NodeAt(M, g, j + 1) = NodeAt(L, g, j + 1)
      BY <1>2, <2>1, <3>1
    <3>3. p2[NodeAt(M, g, j)] = NodeAt(M, g, j + 1)
      BY <1>6, <2>1, <3>1
    <3> QED  BY <3>2, <3>3
  <2>2. CASE g = h
    <3>1. j \in 0 .. n /\ k \in 0 .. n
      BY <1>1, <1>2, <2>2
    <3>2. CASE j < k
      <4>1. j \in 0 .. k /\ j + 1 \in 0 .. k /\ j \in 0 .. (n + 1) /\ j # k /\ j # k + 1
        BY <1>2, <3>1, <3>2
      <4>2. p2[NodeAt(M, h, j)] = NodeAt(M, h, j + 1)
        BY <1>2, <1>3, <1>6, <4>1
      <4> QED  BY <1>2, <2>2, <4>1, <4>2
    <3>3. CASE j = k
      BY <1>4, <1>5, <2>2, <3>3
    <3>4. CASE j > k
      <4>1. PICK y \in 0 .. (n + 1) : y = j + 1
        BY <1>2, <3>1, <3>4, j + 1 \in 0 .. (n + 1)
      <4>2. y # k /\ y # k + 1 /\ j \in (k + 1) .. (n + 1) /\ y \in (k + 1) .. (n + 1)
        BY <1>2, <3>1, <3>4, <4>1
      <4>3. p2[NodeAt(M, h, y)] = NodeAt(M, h, y + 1)
        BY <1>2, <1>3, <1>6, <4>2
      <4>4. NodeAt(M, h, j + 1) = NodeAt(L, h, j) /\ NodeAt(M, h, y + 1) = NodeAt(L, h, y)
        BY <1>2, <4>2
      <4> QED  BY <2>2, <4>1, <4>3, <4>4
    <3> QED  BY <3>1, <3>2, <3>3, <3>4
  <2> QED  BY <2>1, <2>2
<1> QED  BY <1>7 DEF Along

\* What is in no list may point anywhere.
LEMMA Unlisted ==
  ASSUME NEW L \in Contents, NEW p, NEW p2, Along(L, p), NEW e \in Entries,
         \A g \in Heads : \A j \in 1 .. Len(L[g]) : L[g][j] # e,
         \A x \in Nodes : x # e => p2[x] = p[x]
  PROVE  Along(L, p2)
<1>1. ASSUME NEW g \in Heads, NEW j \in 0 .. Len(L[g]) PROVE p2[NodeAt(L, g, j)] = NodeAt(L, g, j + 1)
  <2>1. j \in Int
    BY NodeTypes
  <2>2. NodeAt(L, g, j) # e
    <3>1. CASE j \in 1 .. Len(L[g])
      BY <3>1 DEF NodeAt
    <3>2. CASE j \notin 1 .. Len(L[g])
      BY <3>2, ListConstants DEF NodeAt
    <3> QED  BY <3>1, <3>2
  <2>3. NodeAt(L, g, j) \in Nodes
    BY <2>1, NodeTypes
  <2>4. p[NodeAt(L, g, j)] = NodeAt(L, g, j + 1)
    BY DEF Along
  <2> QED  BY <2>2, <2>3, <2>4
<1> QED  BY <1>1 DEF Along

-----------------------------------------------------------------------------
(***************************************************************************)
(* The same backwards.                                                     *)
(***************************************************************************)
LEMMA ReversedFacts ==
  ASSUME NEW L \in Contents
  PROVE  /\ Reversed(L) \in Contents
         /\ \A h \in Heads : /\ Reversed(L)[h] = Reverse(L[h]) /\ Len(Reversed(L)[h]) = Len(L[h])
                             /\ \A j \in 1 .. Len(L[h]) : Reversed(L)[h][j] = L[h][(Len(L[h]) - j) + 1]
<1>1. ASSUME NEW s \in Seq(Entries)
      PROVE  /\ Reverse(s) \in Seq(Entries) /\ Len(Reverse(s)) = Len(s)
             /\ \A j \in 1 .. Len(s) : Reverse(s)[j] = s[(Len(s) - j) + 1]
  BY DEF Reverse
<1>2. \A h \in Heads : L[h] \in Seq(Entries) /\ Reversed(L)[h] = Reverse(L[h])
  BY DEF Contents, Reversed
<1>3. Reversed(L) \in Contents
  BY <1>1, <1>2 DEF Contents, Reversed
<1> QED  BY <1>1, <1>2, <1>3

LEMMA ReversedNodes ==
  ASSUME NEW L \in Contents, NEW h \in Heads, NEW n, n = Len(L[h]), NEW j \in 0 .. (n + 1)
  PROVE  NodeAt(Reversed(L), h, j) = NodeAt(L, h, n + 1 - j)
<1>1. n \in Nat
  BY NodeTypes, 0 \in Int
<1>2. Len(Reversed(L)[h]) = n /\ \A x \in 1 .. n : Reversed(L)[h][x] = L[h][(n - x) + 1]
  BY ReversedFacts
<1>3. CASE j \in 1 .. n
  <2>1. n + 1 - j \in 1 .. n /\ (n - j) + 1 = n + 1 - j
    BY <1>1, <1>3
  <2> QED  BY <1>2, <1>3, <2>1, Zenon DEF NodeAt
<1>4. CASE j \notin 1 .. n
  <2>1. n + 1 - j \notin 1 .. n
    BY <1>1, <1>4
  <2> QED  BY <1>2, <1>4, <2>1, Zenon DEF NodeAt
<1> QED  BY <1>3, <1>4

LEMMA ReversedDistinct ==
  ASSUME NEW L \in Contents, Distinct(L)
  PROVE  Distinct(Reversed(L))
<1>1. ASSUME NEW g \in Heads, NEW h \in Heads, NEW j \in 1 .. Len(L[g]), NEW k \in 1 .. Len(L[h]),
             Reversed(L)[g][j] = Reversed(L)[h][k]
      PROVE  g = h /\ j = k
  <2>1. PICK m \in Nat, n \in Nat : m = Len(L[g]) /\ n = Len(L[h])
    BY NodeTypes, 0 \in Int
  <2>2. PICK y, z : y = (m - j) + 1 /\ z = (n - k) + 1
    OBVIOUS
  <2>3. y \in 1 .. m /\ z \in 1 .. n /\ j = m + 1 - y /\ k = n + 1 - z
    BY <2>1, <2>2
  <2>4. L[g][y] = L[h][z]
    BY <1>1, <2>1, <2>2, ReversedFacts
  <2>5. g = h /\ y = z
    BY <2>1, <2>3, <2>4 DEF Distinct
  <2> QED  BY <2>1, <2>3, <2>5
<1>2. \A h \in Heads : Len(Reversed(L)[h]) = Len(L[h])
  BY ReversedFacts
<1> QED  BY <1>1, <1>2 DEF Distinct

LEMMA ReversedSpliced ==
  ASSUME NEW L, NEW M, NEW h, NEW k, NEW e, Spliced(L, M, h, k, e), NEW n, n = Len(L[h])
  PROVE  /\ Spliced(Reversed(L), Reversed(M), h, n - k, e)
         /\ NodeAt(Reversed(L), h, n - k) = NodeAt(L, h, k + 1)
         /\ NodeAt(Reversed(L), h, (n - k) + 1) = NodeAt(L, h, k)
<1>1. /\ L \in Contents /\ M \in Contents /\ h \in Heads /\ e \in Entries
      /\ k \in 0 .. n /\ Len(M[h]) = n + 1 /\ M[h][k + 1] = e
      /\ \A j \in 1 .. k : M[h][j] = L[h][j]
      /\ \A j \in (k + 1) .. n : M[h][j + 1] = L[h][j]
      /\ \A g \in Heads \ {h} : M[g] = L[g]
  BY DEF Spliced
<1>2. n \in Nat
  BY <1>1, NodeTypes, 0 \in Int
<1>3. PICK x : x = n - k
  OBVIOUS
<1>a. k \in Nat /\ k <= n
  BY <1>1, <1>2
<1>4. x \in 0 .. n /\ n + 1 - x = k + 1 /\ n + 1 - (x + 1) = k /\ x + 1 \in 0 .. (n + 1) /\ x \in 0 .. (n + 1)
  BY ONLY <1>a, <1>2, <1>3
<1>5. NodeAt(Reversed(L), h, x) = NodeAt(L, h, k + 1) /\ NodeAt(Reversed(L), h, x + 1) = NodeAt(L, h, k)
  <2>1. \A j \in 0 .. (n + 1) : NodeAt(Reversed(L), h, j) = NodeAt(L, h, n + 1 - j)
    BY <1>1, ReversedNodes, ZenonT(60)
  <2> QED  BY <1>4, <2>1
<1>6. PICK P, Q : P = Reversed(L) /\ Q = Reversed(M)
  OBVIOUS
<1>7. /\ P \in Contents /\ Q \in Contents /\ Len(P[h]) = n /\ Len(Q[h]) = n + 1
      /\ \A j \in 1 .. n : P[h][j] = L[h][(n - j) + 1]
      /\ \A j \in 1 .. (n + 1) : Q[h][j] = M[h][((n + 1) - j) + 1]
  <2>1. P \in Contents /\ Len(P[h]) = Len(L[h]) /\ \A j \in 1 .. Len(L[h]) : P[h][j] = L[h][(Len(L[h]) - j) + 1]
    BY <1>1, <1>6, ReversedFacts, Zenon
  <2>2. Q \in Contents /\ Len(Q[h]) = Len(M[h]) /\ \A j \in 1 .. Len(M[h]) : Q[h][j] = M[h][(Len(M[h]) - j) + 1]
    BY <1>1, <1>6, ReversedFacts, Zenon
  <2>3. n = Len(L[h]) /\ Len(M[h]) = n + 1
    BY <1>1
  <2> QED  BY <2>1, <2>2, <2>3, Zenon
<1>8. \A g \in Heads \ {h} : Q[g] = P[g]
  BY <1>1, <1>6, ReversedFacts
<1>9. Q[h][x + 1] = e
  <2>1. x + 1 \in 1 .. (n + 1) /\ ((n + 1) - (x + 1)) + 1 = k + 1
    BY ONLY <1>a, <1>2, <1>3
  <2>2. Q[h][x + 1] = M[h][((n + 1) - (x + 1)) + 1]
    BY <1>7, <2>1, Zenon
  <2> QED  BY <1>1, <2>1, <2>2, Zenon
<1>10. ASSUME NEW j \in 1 .. x PROVE Q[h][j] = P[h][j]
  <2>0. j \in Nat /\ 1 <= j /\ j <= x
    BY <1>4
  <2>1. PICK y : y = (n - j) + 1
    OBVIOUS
  <2>2. y \in (k + 1) .. n /\ j \in 1 .. n /\ j \in 1 .. (n + 1) /\ ((n + 1) - j) + 1 = y + 1
    BY ONLY <1>a, <1>2, <1>3, <2>0, <2>1
  <2>3. Q[h][j] = M[h][y + 1] /\ P[h][j] = L[h][y] /\ M[h][y + 1] = L[h][y]
    BY <1>1, <1>7, <2>1, <2>2, Zenon
  <2> QED  BY <2>3
<1>11. ASSUME NEW j \in (x + 1) .. n PROVE Q[h][j + 1] = P[h][j]
  <2>0. j \in Nat /\ x + 1 <= j /\ j <= n
    BY <1>2, <1>4
  <2>1. PICK y : y = (n - j) + 1
    OBVIOUS
  <2>2. y \in 1 .. k /\ j \in 1 .. n /\ j + 1 \in 1 .. (n + 1) /\ ((n + 1) - (j + 1)) + 1 = y
    BY ONLY <1>a, <1>2, <1>3, <2>0, <2>1
  <2>3. Q[h][j + 1] = M[h][y] /\ P[h][j] = L[h][y] /\ M[h][y] = L[h][y]
    BY <1>1, <1>7, <2>1, <2>2, Zenon
  <2> QED  BY <2>3
<1>12. Spliced(P, Q, h, x, e)
  BY <1>1, <1>4, <1>7, <1>8, <1>9, <1>10, <1>11, Zenon DEF Spliced
<1> QED  BY <1>3, <1>5, <1>6, <1>12

LEMMA BackLinkedIn ==
  ASSUME NEW L, NEW M, NEW h, NEW k, NEW e, Spliced(L, M, h, k, e), Distinct(M), NEW p, NEW p2,
         Along(Reversed(L), p), Through(p, p2, NodeAt(L, h, k + 1), e, NodeAt(L, h, k))
  PROVE  Along(Reversed(M), p2)
<1>1. PICK x, P, Q : /\ x = Len(L[h]) - k /\ P = Reversed(L) /\ Q = Reversed(M) /\ Spliced(P, Q, h, x, e)
                     /\ NodeAt(P, h, x) = NodeAt(L, h, k + 1) /\ NodeAt(P, h, x + 1) = NodeAt(L, h, k)
  <2>1. PICK n : n = Len(L[h])
    OBVIOUS
  <2>2. /\ Spliced(Reversed(L), Reversed(M), h, n - k, e)
        /\ NodeAt(Reversed(L), h, n - k) = NodeAt(L, h, k + 1)
        /\ NodeAt(Reversed(L), h, (n - k) + 1) = NodeAt(L, h, k)
    BY <2>1, ReversedSpliced
  <2> QED  BY <2>1, <2>2, Zenon
<1>2. Distinct(Q)
  BY <1>1, ReversedDistinct, Zenon DEF Spliced
<1>3. Through(p, p2, NodeAt(P, h, x), e, NodeAt(P, h, x + 1)) /\ Along(P, p)
  BY <1>1, Zenon
<1>4. Along(Q, p2)
  BY <1>1, <1>2, <1>3, LinkedIn
<1> QED  BY <1>1, <1>4, Zenon

LEMMA BackTakenOut ==
  ASSUME NEW L, NEW M, NEW h, NEW k, NEW e, Spliced(L, M, h, k, e), Distinct(M), NEW p, NEW p2,
         Along(Reversed(M), p), Past(p, p2, NodeAt(L, h, k + 1), e, NodeAt(L, h, k))
  PROVE  Along(Reversed(L), p2)
<1>1. PICK x, P, Q : /\ x = Len(L[h]) - k /\ P = Reversed(L) /\ Q = Reversed(M) /\ Spliced(P, Q, h, x, e)
                     /\ NodeAt(P, h, x) = NodeAt(L, h, k + 1) /\ NodeAt(P, h, x + 1) = NodeAt(L, h, k)
  <2>1. PICK n : n = Len(L[h])
    OBVIOUS
  <2>2. /\ Spliced(Reversed(L), Reversed(M), h, n - k, e)
        /\ NodeAt(Reversed(L), h, n - k) = NodeAt(L, h, k + 1)
        /\ NodeAt(Reversed(L), h, (n - k) + 1) = NodeAt(L, h, k)
    BY <2>1, ReversedSpliced
  <2> QED  BY <2>1, <2>2, Zenon
<1>2. Distinct(Q)
  BY <1>1, ReversedDistinct, Zenon DEF Spliced
<1>3. Past(p, p2, NodeAt(P, h, x), e, NodeAt(P, h, x + 1)) /\ Along(Q, p)
  BY <1>1, Zenon
<1>4. Along(P, p2)
  BY <1>1, <1>2, <1>3, TakenOut
<1> QED  BY <1>1, <1>4, Zenon

LEMMA BackUnlisted ==
  ASSUME NEW L \in Contents, NEW p, NEW p2, Along(Reversed(L), p), NEW e \in Entries,
         \A g \in Heads : \A j \in 1 .. Len(L[g]) : L[g][j] # e,
         \A x \in Nodes : x # e => p2[x] = p[x]
  PROVE  Along(Reversed(L), p2)
<1>1. PICK P : P = Reversed(L)
  OBVIOUS
<1>2. ASSUME NEW g \in Heads, NEW j \in 1 .. Len(P[g]) PROVE P[g][j] # e
  <2>1. PICK n \in Nat : n = Len(L[g]) /\ n = Len(P[g])
    BY <1>1, NodeTypes, ReversedFacts, 0 \in Int
  <2>2. (n - j) + 1 \in 1 .. n
    BY <2>1
  <2> QED  BY <1>1, <2>1, <2>2, ReversedFacts
<1>3. P \in Contents /\ Along(P, p)
  BY <1>1, ReversedFacts
<1>4. Along(P, p2)
  BY <1>2, <1>3, Unlisted
<1> QED  BY <1>1, <1>4

-----------------------------------------------------------------------------
(***************************************************************************)
(* Entries put in at the ends and taken out.                               *)
(***************************************************************************)
Has(L, e) == \E h \in Heads : \E k \in 1 .. Len(L[h]) : L[h][k] = e

LEMMA SplicedDistinct ==
  ASSUME NEW L, NEW M, NEW h, NEW k, NEW e, Spliced(L, M, h, k, e), Distinct(L), ~Has(L, e)
  PROVE  Distinct(M)
<1>1. /\ L \in Contents /\ h \in Heads /\ k \in 0 .. Len(L[h]) /\ Len(M[h]) = Len(L[h]) + 1
      /\ \A g \in Heads : Len(L[g]) \in Nat
  BY NodeTypes, 0 \in Int DEF Spliced
<1> DEFINE place(g, j) == IF g = h /\ j > k THEN j - 1 ELSE j
<1>2. ASSUME NEW g \in Heads, NEW j \in 1 .. Len(M[g]), ~(g = h /\ j = k + 1)
      PROVE  place(g, j) \in 1 .. Len(L[g]) /\ M[g][j] = L[g][place(g, j)]
  <2>1. CASE g # h
    BY <1>1, <2>1 DEF Spliced
  <2>2. CASE g = h /\ j <= k
    BY <1>1, <2>2 DEF Spliced
  <2>3. CASE g = h /\ j > k
    <3>1. j - 1 \in (k + 1) .. Len(L[h]) /\ (j - 1) + 1 = j
      BY <1>1, <1>2, <2>3
    <3>2. M[h][(j - 1) + 1] = L[h][j - 1]
      BY <3>1 DEF Spliced
    <3> QED  BY <1>1, <2>3, <3>1, <3>2
  <2> QED  BY <1>1, <2>1, <2>2, <2>3
<1>3. M[h][k + 1] = e
  BY DEF Spliced
<1>4. ASSUME NEW g1 \in Heads, NEW g2 \in Heads, NEW j1 \in 1 .. Len(M[g1]), NEW j2 \in 1 .. Len(M[g2]),
             M[g1][j1] = M[g2][j2]
      PROVE  g1 = g2 /\ j1 = j2
  <2>1. CASE g1 = h /\ j1 = k + 1 /\ ~(g2 = h /\ j2 = k + 1)
    <3>1. L[g2][place(g2, j2)] = e /\ place(g2, j2) \in 1 .. Len(L[g2])
      BY <1>2, <1>3, <1>4, <2>1
    <3> HIDE DEF place
    <3> QED  BY <3>1 DEF Has
  <2>2. CASE g2 = h /\ j2 = k + 1 /\ ~(g1 = h /\ j1 = k + 1)
    <3>1. L[g1][place(g1, j1)] = e /\ place(g1, j1) \in 1 .. Len(L[g1])
      BY <1>2, <1>3, <1>4, <2>2
    <3> HIDE DEF place
    <3> QED  BY <3>1 DEF Has
  <2>3. CASE ~(g1 = h /\ j1 = k + 1) /\ ~(g2 = h /\ j2 = k + 1)
    <3>1. g1 = g2 /\ place(g1, j1) = place(g2, j2)
      <4>1. /\ place(g1, j1) \in 1 .. Len(L[g1]) /\ place(g2, j2) \in 1 .. Len(L[g2])
            /\ L[g1][place(g1, j1)] = L[g2][place(g2, j2)]
        BY <1>2, <1>4, <2>3
      <4> HIDE DEF place
      <4> QED  BY <4>1 DEF Distinct
    <3>2. j1 \in Int /\ j2 \in Int /\ k \in Int
      BY <1>1 DEF Spliced
    <3> QED  BY <2>3, <3>1, <3>2
  <2> QED  BY <2>1, <2>2, <2>3
<1> QED  BY <1>4 DEF Distinct

LEMMA PutFront ==
  ASSUME NEW L \in Contents, NEW h \in Heads, NEW e \in Entries, NEW M, M = [L EXCEPT ![h] = <<e>> \o @]
  PROVE  Spliced(L, M, h, 0, e)
<1>1. PICK s, t : s \in Seq(Entries) /\ s = L[h] /\ t = <<e>> \o s
  BY DEF Contents
<1>2. /\ t \in Seq(Entries) /\ Len(t) = Len(s) + 1 /\ t[1] = e /\ Len(s) \in Nat
      /\ \A j \in 1 .. Len(s) : t[j + 1] = s[j]
  BY <1>1
<1>3. M \in Contents /\ M[h] = t /\ \A g \in Heads \ {h} : M[g] = L[g]
  BY <1>1, <1>2 DEF Contents
<1> QED  BY <1>1, <1>2, <1>3 DEF Spliced

LEMMA PutBack ==
  ASSUME NEW L \in Contents, NEW h \in Heads, NEW e \in Entries, NEW M, M = [L EXCEPT ![h] = @ \o <<e>>]
  PROVE  Spliced(L, M, h, Len(L[h]), e)
<1>1. PICK s, t : s \in Seq(Entries) /\ s = L[h] /\ t = s \o <<e>>
  BY DEF Contents
<1>2. /\ t \in Seq(Entries) /\ Len(t) = Len(s) + 1 /\ t[Len(s) + 1] = e /\ Len(s) \in Nat
      /\ \A j \in 1 .. Len(s) : t[j] = s[j]
  BY <1>1
<1>3. M \in Contents /\ M[h] = t /\ \A g \in Heads \ {h} : M[g] = L[g]
  BY <1>1, <1>2 DEF Contents
<1> QED  BY <1>1, <1>2, <1>3 DEF Spliced

LEMMA TakeFrom ==
  ASSUME NEW M \in Contents, NEW h \in Heads, NEW k \in Nat, k + 1 \in 1 .. Len(M[h]),
         NEW L, L = [M EXCEPT ![h] = RemoveAt(@, k + 1)]
  PROVE  Spliced(L, M, h, k, M[h][k + 1])
<1>1. PICK s, t : s \in Seq(Entries) /\ s = M[h] /\ t = RemoveAt(s, k + 1)
  BY DEF Contents
<1>2. PICK n \in Nat : Len(s) = n + 1 /\ k <= n
  BY <1>1, Len(s) - 1 \in Nat
<1>3. PICK u, v : /\ u = SubSeq(s, 1, (k + 1) - 1) /\ v = SubSeq(s, (k + 1) + 1, Len(s)) /\ t = u \o v
  BY <1>1 DEF RemoveAt
<1>4. u \in Seq(Entries) /\ Len(u) = k /\ \A j \in 1 .. k : u[j] = s[j]
  <2>1. u = SubSeq(s, 1, k)
    BY <1>3, (k + 1) - 1 = k
  <2> QED  BY <1>1, <1>2, <2>1
<1>5. v \in Seq(Entries) /\ Len(v) = n - k /\ \A j \in 1 .. (n - k) : v[j] = s[j + k + 1]
  <2>1. v = SubSeq(s, k + 2, n + 1)
    BY <1>2, <1>3, (k + 1) + 1 = k + 2
  <2> QED  BY <1>1, <1>2, <2>1
<1>6. t \in Seq(Entries) /\ Len(t) = n /\ \A j \in 1 .. k : t[j] = s[j]
  BY <1>2, <1>3, <1>4, <1>5
<1>7. ASSUME NEW j \in (k + 1) .. n PROVE s[j + 1] = t[j]
  <2>1. j - k \in 1 .. (n - k) /\ (j - k) + k + 1 = j + 1 /\ j \in 1 .. n
    BY <1>2
  <2>2. t[j] = v[j - k]
    <3>1. u \in Seq(Entries) /\ v \in Seq(Entries) /\ t = u \o v
      BY <1>3, <1>4, <1>5
    <3>2. \A y \in (Len(u) + 1) .. (Len(u) + Len(v)) : t[y] = v[y - Len(u)]
      BY ONLY <3>1
    <3>3. j \in (Len(u) + 1) .. (Len(u) + Len(v)) /\ Len(u) = k
      BY <1>2, <1>4, <1>5
    <3> QED  BY <3>2, <3>3
  <2> QED  BY <1>5, <2>1, <2>2
<1>8. L \in Contents /\ L[h] = t /\ \A g \in Heads \ {h} : M[g] = L[g]
  BY <1>1, <1>6 DEF Contents
<1>9. s[k + 1] \in Entries /\ k \in 0 .. n
  BY <1>1, <1>2
<1> QED  BY <1>1, <1>2, <1>6, <1>7, <1>8, <1>9 DEF Spliced

-----------------------------------------------------------------------------
(***************************************************************************)
(* The invariant: what the lists hold while the stores of an operation are *)
(* on their way.                                                           *)
(***************************************************************************)
Typed == lnext \in Pointers /\ lprev \in Pointers

\* What a reader finds.
Now(L) == L \in Contents /\ Distinct(L) /\ Along(L, lnext)

OnlyIn(L) == \A x \in Entries : InList(x) => Has(L, x)

\* Between operations; the last store of list_del may be missing.
Idle(L) ==
  /\ Now(L) /\ Along(Reversed(L), lprev) /\ OnlyIn(L) /\ moving = <<>>
  /\ \/ stores = <<>>
     \/ \E x \in Entries : ~Has(L, x) /\ stores = <<PrevStore(x, LIST_POISON2)>>

\* __list_add: L is to become M.
AddStores(L, M, e, before, behind) ==
  \/ stores = __list_add(e, before, behind) /\ Along(Reversed(L), lprev)
  \/ /\ stores = <<NextStore(e, behind), PrevStore(e, before), NextStore(before, e)>>
     /\ Along(Reversed(M), [lprev EXCEPT ![e] = before])
  \/ /\ stores = <<PrevStore(e, before), NextStore(before, e)>>
     /\ Along(Reversed(M), [lprev EXCEPT ![e] = before]) /\ lnext[e] = behind
  \/ stores = <<NextStore(before, e)>> /\ Along(Reversed(M), lprev) /\ lnext[e] = behind

AtEnd(L, M, h, e) == M \in {[L EXCEPT ![h] = <<e>> \o @], [L EXCEPT ![h] = @ \o <<e>>]}

Adding(L, M, h, k, e) ==
  /\ Spliced(L, M, h, k, e) /\ Distinct(M) /\ AtEnd(L, M, h, e)
  /\ Along(L, lnext) /\ OnlyIn(M) /\ moving = <<>>
  /\ AddStores(L, M, e, NodeAt(L, h, k), NodeAt(L, h, k + 1))

\* What follows once e is out: it is poisoned, or put in elsewhere.
Poison(e) == <<NextStore(e, LIST_POISON1), PrevStore(e, LIST_POISON2)>>

Leaving(e, rest) ==
  \/ rest = Poison(e) /\ moving = <<>>
  \/ rest = <<>> /\ \E h \in Heads, t \in BOOLEAN : moving = <<[entry |-> e, head |-> h, tail |-> t]>>

\* __list_del: M is to become L.
DelStores(L, M, before, behind, rest) ==
  \/ stores = <<PrevStore(behind, before), NextStore(before, behind)>> \o rest /\ Along(Reversed(M), lprev)
  \/ stores = <<NextStore(before, behind)>> \o rest /\ Along(Reversed(L), lprev)

Removing(L, M, h, k, e, rest) ==
  /\ Spliced(L, M, h, k, e) /\ Distinct(M) /\ L = [M EXCEPT ![h] = RemoveAt(@, k + 1)]
  /\ Along(M, lnext) /\ OnlyIn(M) /\ Leaving(e, rest)
  /\ DelStores(L, M, NodeAt(L, h, k), NodeAt(L, h, k + 1), rest)

\* e is out, but nobody has marked it.
Out(L, e) ==
  /\ Now(L) /\ Along(Reversed(L), lprev) /\ e \in Entries /\ ~Has(L, e)
  /\ \A x \in Entries : InList(x) => Has(L, x) \/ x = e
  /\ Leaving(e, stores)

ListState(L) ==
  \/ Idle(L)
  \/ \E M, h, k, e : Adding(L, M, h, k, e)
  \/ \E P, h, k, e, rest : Removing(P, L, h, k, e, rest)
  \/ \E e : Out(L, e)

ListInv == Typed /\ \E L : ListState(L)

\* What a step does to the contents.
Changed(L, N) ==
  \/ N = L
  \/ \E h \in Heads : \E k \in 1 .. Len(L[h]) : N = [L EXCEPT ![h] = RemoveAt(@, k)]
  \/ \E h \in Heads, e \in Entries : ~Has(L, e) /\ AtEnd(L, N, h, e)

\* Sequences of stores.
LEMMA OneStore ==
  ASSUME NEW x
  PROVE  <<x>> # <<>> /\ Head(<<x>>) = x /\ Tail(<<x>>) = <<>>
OBVIOUS

LEMMA TwoStores ==
  ASSUME NEW x, NEW y
  PROVE  <<x, y>> # <<>> /\ Head(<<x, y>>) = x /\ Tail(<<x, y>>) = <<y>>
OBVIOUS

LEMMA ThreeStores ==
  ASSUME NEW x, NEW y, NEW z
  PROVE  <<x, y, z>> # <<>> /\ Head(<<x, y, z>>) = x /\ Tail(<<x, y, z>>) = <<y, z>>
OBVIOUS

LEMMA FourStores ==
  ASSUME NEW x, NEW y, NEW z, NEW w
  PROVE  <<x, y, z, w>> # <<>> /\ Head(<<x, y, z, w>>) = x /\ Tail(<<x, y, z, w>>) = <<y, z, w>>
OBVIOUS

LEMMA RestIsSequence ==
  ASSUME NEW e, NEW rest, Leaving(e, rest), NEW x, NEW y
  PROVE  \E S : x \in S /\ y \in S /\ rest \in Seq(S)
<1>1. PICK S : S = {x, y, NextStore(e, LIST_POISON1), PrevStore(e, LIST_POISON2)}
  OBVIOUS
<1>2. <<>> \in Seq(S) /\ Poison(e) \in Seq(S)
  BY <1>1 DEF Poison
<1>3. rest \in Seq(S)
  BY <1>2, Zenon DEF Leaving
<1> QED  BY <1>1, <1>3

\* A store to a next pointer, and to a prev pointer.
LEMMA StoreNext ==
  ASSUME Typed, Store, NEW n \in Nodes, NEW v \in Nodes \cup {LIST_POISON1, LIST_POISON2},
         Head(stores) = NextStore(n, v)
  PROVE  /\ Typed' /\ lnext'[n] = v /\ \A x \in Nodes : x # n => lnext'[x] = lnext[x]
         /\ lprev' = lprev /\ stores' = Tail(stores) /\ moving' = moving
<1>1. lnext' = [lnext EXCEPT ![n] = v] /\ lprev' = lprev /\ stores' = Tail(stores) /\ moving' = moving
  <2>1. PICK s : s = Head(stores) /\ s.field = "next" /\ s.node = n /\ s.val = v
    BY DEF NextStore
  <2>2. /\ lnext' = IF s.field = "next" THEN [lnext EXCEPT ![s.node] = s.val] ELSE lnext
        /\ lprev' = IF s.field = "prev" THEN [lprev EXCEPT ![s.node] = s.val] ELSE lprev
        /\ stores' = Tail(stores) /\ moving' = moving
    BY <2>1, Zenon DEF Store
  <2> QED  BY <2>1, <2>2
<1> QED  BY <1>1 DEF Typed, Pointers

LEMMA StorePrev ==
  ASSUME Typed, Store, NEW n \in Nodes, NEW v \in Nodes \cup {LIST_POISON1, LIST_POISON2},
         Head(stores) = PrevStore(n, v)
  PROVE  /\ Typed' /\ lprev'[n] = v /\ \A x \in Nodes : x # n => lprev'[x] = lprev[x]
         /\ lnext' = lnext /\ stores' = Tail(stores) /\ moving' = moving
<1>1. lprev' = [lprev EXCEPT ![n] = v] /\ lnext' = lnext /\ stores' = Tail(stores) /\ moving' = moving
  <2>1. PICK s : s = Head(stores) /\ s.field = "prev" /\ s.node = n /\ s.val = v
    BY DEF PrevStore
  <2>2. /\ lnext' = IF s.field = "next" THEN [lnext EXCEPT ![s.node] = s.val] ELSE lnext
        /\ lprev' = IF s.field = "prev" THEN [lprev EXCEPT ![s.node] = s.val] ELSE lprev
        /\ stores' = Tail(stores) /\ moving' = moving
    BY <2>1, Zenon DEF Store
  <2> QED  BY <2>1, <2>2
<1> QED  BY <1>1 DEF Typed, Pointers

\* What is in a list points to a node.
LEMMA ListedIn ==
  ASSUME NEW L, Now(L), NEW e \in Entries, Has(L, e)
  PROVE  InList(e) /\ lnext[e] \in Nodes
<1>1. PICK h, k : h \in Heads /\ k \in 1 .. Len(L[h]) /\ L[h][k] = e
  BY DEF Has
<1>2. L \in Contents /\ Len(L[h]) \in Nat /\ k \in Int /\ k + 1 \in Int /\ k \in 0 .. Len(L[h])
  BY <1>1, NodeTypes, 0 \in Int DEF Now
<1>3. lnext[NodeAt(L, h, k)] = NodeAt(L, h, k + 1) /\ NodeAt(L, h, k) = e
  BY <1>1, <1>2, NodeTypes DEF Now, Along
<1>4. NodeAt(L, h, k + 1) \in Nodes
  BY <1>1, <1>2, NodeTypes
<1> QED  BY <1>3, <1>4, ListConstants DEF InList

\* In every state the contents are what a reader finds.
LEMMA ReaderFinds ==
  ASSUME NEW L, ListState(L)
  PROVE  Now(L)
<1>1. CASE Idle(L)
  BY <1>1, Zenon DEF Idle
<1>2. CASE \E M, h, k, e : Adding(L, M, h, k, e)
  <2>1. PICK M, h, k, e : Adding(L, M, h, k, e)
    BY <1>2
  <2>2. Spliced(L, M, h, k, e) /\ Distinct(M) /\ Along(L, lnext)
    BY <2>1, Zenon DEF Adding
  <2>3. L \in Contents /\ Distinct(L)
    BY <2>2, SplicedApart, Zenon DEF Spliced
  <2> QED  BY <2>2, <2>3, Zenon DEF Now
<1>3. CASE \E P, h, k, e, rest : Removing(P, L, h, k, e, rest)
  BY <1>3, ZenonT(60) DEF Removing, Spliced, Now
<1>4. CASE \E e : Out(L, e)
  BY <1>4, Zenon DEF Out
<1> QED  BY <1>1, <1>2, <1>3, <1>4, Zenon DEF ListState

LEMMA Nonempty ==
  ASSUME NEW L, NEW M, NEW e, NEW before, NEW behind, NEW rest, Leaving(e, rest),
         DelStores(L, M, before, behind, rest)
  PROVE  stores # <<>>
<1>1. ASSUME NEW x, NEW y PROVE <<x, y>> \o rest # <<>> /\ <<y>> \o rest # <<>>
  <2>1. PICK S : x \in S /\ y \in S /\ rest \in Seq(S)
    BY RestIsSequence
  <2> QED  BY ONLY <2>1
<1> QED  BY <1>1, Zenon DEF DelStores

\* Without stores to do the lists are idle, or an entry is on its way.
LEMMA Quiet ==
  ASSUME NEW L, ListState(L), stores = <<>>
  PROVE  /\ moving = <<>> => Idle(L)
         /\ moving # <<>> => \E e : Out(L, e) /\ \E h \in Heads, t \in BOOLEAN :
                                                  moving = <<[entry |-> e, head |-> h, tail |-> t]>>
<1>1. CASE Idle(L)
  BY <1>1, Zenon DEF Idle
<1>2. ASSUME NEW M, NEW h, NEW k, NEW e, Adding(L, M, h, k, e) PROVE FALSE
  <2>1. AddStores(L, M, e, NodeAt(L, h, k), NodeAt(L, h, k + 1))
    BY <1>2, Zenon DEF Adding
  <2> QED  BY <2>1, OneStore, TwoStores, ThreeStores, FourStores, Zenon DEF AddStores, __list_add
<1>3. ASSUME NEW P, NEW h, NEW k, NEW e, NEW rest, Removing(P, L, h, k, e, rest) PROVE FALSE
  <2>1. DelStores(P, L, NodeAt(P, h, k), NodeAt(P, h, k + 1), rest) /\ Leaving(e, rest)
    BY <1>3, Zenon DEF Removing
  <2> QED  BY <2>1, Nonempty, Zenon
<1>4. ASSUME NEW e, Out(L, e)
      PROVE  \E h \in Heads, t \in BOOLEAN : moving = <<[entry |-> e, head |-> h, tail |-> t]>>
  <2>1. Leaving(e, stores)
    BY <1>4, Zenon DEF Out
  <2>2. stores # Poison(e)
    BY TwoStores, Zenon DEF Poison
  <2> QED  BY <2>1, <2>2, Zenon DEF Leaving
<1>5. ASSUME NEW e, Out(L, e) PROVE moving # <<>>
  BY <1>4, <1>5, OneStore, Zenon
<1> QED  BY <1>1, <1>2, <1>3, <1>4, <1>5, Zenon DEF ListState

\* The neighbours of the entry.
LEMMA Neighbours ==
  ASSUME NEW L, NEW M, NEW h, NEW k, NEW e, Spliced(L, M, h, k, e), Distinct(M)
  PROVE  /\ L \in Contents /\ M \in Contents /\ h \in Heads /\ Distinct(L)
         /\ e \in Entries /\ e \in Nodes /\ ~Has(L, e) /\ Has(M, e)
         /\ NodeAt(L, h, k) \in Nodes /\ NodeAt(L, h, k + 1) \in Nodes
         /\ NodeAt(L, h, k) # e /\ NodeAt(L, h, k + 1) # e
         /\ NodeAt(L, h, k) \in Entries => Has(L, NodeAt(L, h, k))
<1>1. /\ L \in Contents /\ M \in Contents /\ h \in Heads /\ e \in Entries /\ k \in 0 .. Len(L[h])
      /\ M[h][k + 1] = e /\ Len(M[h]) = Len(L[h]) + 1
  BY DEF Spliced
<1>2. Len(L[h]) \in Nat /\ k \in Int /\ k + 1 \in Int /\ k + 1 \in 1 .. Len(M[h])
  BY <1>1, NodeTypes, 0 \in Int
<1>3. Distinct(L) /\ ~Has(L, e)
  BY SplicedApart, Zenon DEF Has
<1>4. Has(M, e)
  BY <1>1, <1>2, Zenon DEF Has
<1>5. ASSUME NEW j \in Int
      PROVE  /\ NodeAt(L, h, j) \in Nodes /\ NodeAt(L, h, j) # e
             /\ NodeAt(L, h, j) \in Entries => Has(L, NodeAt(L, h, j))
  <2>1. CASE j \in 1 .. Len(L[h])
    <3>1. NodeAt(L, h, j) = L[h][j]
      BY <2>1, Zenon DEF NodeAt
    <3>2. Has(L, NodeAt(L, h, j))
      BY <1>1, <2>1, <3>1, Zenon DEF Has
    <3> QED  BY <1>1, <1>3, <3>2, NodeTypes
  <2>2. CASE j \notin 1 .. Len(L[h])
    <3>1. NodeAt(L, h, j) = h
      BY <2>2, Zenon DEF NodeAt
    <3> QED  BY <1>1, <3>1, ListConstants DEF Nodes
  <2> QED  BY <2>1, <2>2
<1> QED  BY <1>1, <1>2, <1>3, <1>4, <1>5 DEF Nodes

\* M has what L has, and the entry.
LEMMA SplicedHas ==
  ASSUME NEW L, NEW M, NEW h, NEW k, NEW e, Spliced(L, M, h, k, e), NEW x, Has(M, x)
  PROVE  Has(L, x) \/ x = e
<1>1. PICK g, j : g \in Heads /\ j \in 1 .. Len(M[g]) /\ M[g][j] = x
  BY DEF Has
<1>2. L \in Contents /\ h \in Heads /\ k \in 0 .. Len(L[h]) /\ Len(L[h]) \in Nat
  BY NodeTypes, 0 \in Int DEF Spliced
<1>3. CASE g # h
  <2>1. L[g] = M[g]
    BY <1>1, <1>3 DEF Spliced
  <2> QED  BY <1>1, <2>1, Zenon DEF Has
<1>4. CASE g = h /\ j <= k
  <2>1. j \in 1 .. k /\ j \in 1 .. Len(L[h])
    BY <1>1, <1>2, <1>4
  <2>2. L[h][j] = x
    BY <1>1, <1>4, <2>1 DEF Spliced
  <2> QED  BY <1>2, <2>1, <2>2, Zenon DEF Has
<1>5. CASE g = h /\ j = k + 1
  BY <1>1, <1>5 DEF Spliced
<1>6. CASE g = h /\ j > k + 1
  <2>1. PICK y : y = j - 1
    OBVIOUS
  <2>2. Len(M[h]) = Len(L[h]) + 1
    BY DEF Spliced
  <2>3. y \in (k + 1) .. Len(L[h]) /\ y \in 1 .. Len(L[h]) /\ y + 1 = j
    BY <1>1, <1>2, <1>6, <2>1, <2>2
  <2>4. M[h][y + 1] = L[h][y]
    BY <2>3, Zenon DEF Spliced
  <2>5. L[h][y] = x
    BY <1>1, <1>6, <2>3, <2>4
  <2> QED  BY <1>2, <2>3, <2>5, Zenon DEF Has
<1>7. j \in Int /\ k \in Int
  BY <1>1, <1>2
<1> QED  BY <1>3, <1>4, <1>5, <1>6, <1>7

\* M has all that L has.
LEMMA SplicedKeeps ==
  ASSUME NEW L, NEW M, NEW h, NEW k, NEW e, Spliced(L, M, h, k, e), NEW x, Has(L, x)
  PROVE  Has(M, x)
<1>1. PICK g, j : g \in Heads /\ j \in 1 .. Len(L[g]) /\ L[g][j] = x
  BY DEF Has
<1>2. /\ L \in Contents /\ h \in Heads /\ k \in 0 .. Len(L[h]) /\ Len(L[h]) \in Nat
      /\ Len(M[h]) = Len(L[h]) + 1
  BY NodeTypes, 0 \in Int DEF Spliced
<1>3. CASE g # h
  <2>1. L[g] = M[g]
    BY <1>1, <1>3 DEF Spliced
  <2> QED  BY <1>1, <2>1, Zenon DEF Has
<1>4. CASE g = h /\ j <= k
  <2>1. j \in 1 .. k /\ j \in 1 .. Len(M[h])
    BY <1>1, <1>2, <1>4
  <2>2. M[h][j] = x
    BY <1>1, <1>4, <2>1 DEF Spliced
  <2> QED  BY <1>2, <2>1, <2>2, Zenon DEF Has
<1>5. CASE g = h /\ j > k
  <2>1. j \in (k + 1) .. Len(L[h]) /\ j + 1 \in 1 .. Len(M[h])
    BY <1>1, <1>2, <1>5
  <2>2. M[h][j + 1] = x
    BY <1>1, <1>5, <2>1 DEF Spliced
  <2> QED  BY <1>2, <2>1, <2>2, Zenon DEF Has
<1>6. j \in Int /\ k \in Int
  BY <1>1, <1>2
<1> QED  BY <1>3, <1>4, <1>5, <1>6

\* Only where pointers lead counts.
LEMMA AlongSame ==
  ASSUME NEW L \in Contents, NEW p, NEW p2, Along(L, p), \A x \in Nodes : p2[x] = p[x]
  PROVE  Along(L, p2)
<1>1. ASSUME NEW g \in Heads, NEW j \in 0 .. Len(L[g]) PROVE p2[NodeAt(L, g, j)] = NodeAt(L, g, j + 1)
  <2>1. NodeAt(L, g, j) \in Nodes
    BY NodeTypes
  <2>2. p[NodeAt(L, g, j)] = NodeAt(L, g, j + 1)
    BY DEF Along
  <2> QED  BY <2>1, <2>2
<1> QED  BY <1>1, Zenon DEF Along

-----------------------------------------------------------------------------
(***************************************************************************)
(* Every store.                                                            *)
(***************************************************************************)
LEMMA StoreAdding ==
  ASSUME Typed, Store, NEW L, NEW M, NEW h, NEW k, NEW e, Adding(L, M, h, k, e)
  PROVE  Typed' /\ \E N : ListState(N)' /\ Changed(L, N)
<1>1. /\ Spliced(L, M, h, k, e) /\ Distinct(M) /\ AtEnd(L, M, h, e)
      /\ Along(L, lnext) /\ OnlyIn(M) /\ moving = <<>>
  BY Zenon DEF Adding
<1>2. PICK before, behind : before = NodeAt(L, h, k) /\ behind = NodeAt(L, h, k + 1)
  OBVIOUS
<1>3. /\ L \in Contents /\ M \in Contents /\ h \in Heads /\ Distinct(L) /\ e \in Entries /\ e \in Nodes
      /\ ~Has(L, e) /\ Has(M, e) /\ before \in Nodes /\ behind \in Nodes /\ before # e /\ behind # e
      /\ before \in Entries => Has(L, before)
  BY <1>1, <1>2, Neighbours
<1>4. AddStores(L, M, e, before, behind)
  BY <1>2, Zenon DEF Adding
<1>5. Changed(L, L)
  BY DEF Changed
<1>6. ASSUME Typed', Along(L, lnext'), moving' = moving, AddStores(L, M, e, before, behind)',
             \A x \in Nodes : x # e => lnext'[x] = lnext[x]
      PROVE  Typed' /\ \E N : ListState(N)' /\ Changed(L, N)
  <2>1. OnlyIn(M)'
    <3>1. ASSUME NEW x \in Entries, InList(x)' PROVE Has(M, x)
      <4>1. CASE x = e
        BY <1>3, <4>1
      <4>2. CASE x # e
        BY <1>1, <1>6, <3>1, <4>2 DEF OnlyIn, InList, Nodes
      <4> QED  BY <4>1, <4>2
    <3> QED  BY <3>1, Zenon DEF OnlyIn
  <2>2. Adding(L, M, h, k, e)'
    BY <1>1, <1>2, <1>6, <2>1, Zenon DEF Adding
  <2> QED  BY <1>5, <1>6, <2>2, Zenon DEF ListState
<1>7. CASE stores = __list_add(e, before, behind) /\ Along(Reversed(L), lprev)
  <2>1. /\ Head(stores) = PrevStore(behind, e)
        /\ Tail(stores) = <<NextStore(e, behind), PrevStore(e, before), NextStore(before, e)>>
    <3>1. stores = <<PrevStore(behind, e), NextStore(e, behind), PrevStore(e, before), NextStore(before, e)>>
      BY <1>7, Zenon DEF __list_add
    <3>2. PICK s1, s2, s3, s4 : /\ s1 = PrevStore(behind, e) /\ s2 = NextStore(e, behind)
                                /\ s3 = PrevStore(e, before) /\ s4 = NextStore(before, e)
      OBVIOUS
    <3>3. stores = <<s1, s2, s3, s4>>
      BY <3>1, <3>2, Zenon
    <3>4. Head(<<s1, s2, s3, s4>>) = s1 /\ Tail(<<s1, s2, s3, s4>>) = <<s2, s3, s4>>
      BY FourStores
    <3> QED  BY <3>2, <3>3, <3>4, Zenon
  <2>2. /\ Typed' /\ lprev'[behind] = e /\ \A x \in Nodes : x # behind => lprev'[x] = lprev[x]
        /\ lnext' = lnext /\ stores' = Tail(stores) /\ moving' = moving
    BY <1>3, <2>1, StorePrev
  <2>3. PICK p2 : p2 = [lprev' EXCEPT ![e] = before]
    OBVIOUS
  <2>4. Through(lprev, p2, behind, e, before)
    BY <1>3, <2>2, <2>3 DEF Through, Typed, Pointers
  <2>5. Along(Reversed(M), p2)
    BY <1>1, <1>2, <1>7, <2>4, BackLinkedIn
  <2>6. AddStores(L, M, e, before, behind)'
    BY <2>1, <2>2, <2>3, <2>5, Zenon DEF AddStores
  <2> QED  BY <1>1, <1>6, <2>2, <2>6
<1>8. CASE /\ stores = <<NextStore(e, behind), PrevStore(e, before), NextStore(before, e)>>
           /\ Along(Reversed(M), [lprev EXCEPT ![e] = before])
  <2>1. Head(stores) = NextStore(e, behind) /\ Tail(stores) = <<PrevStore(e, before), NextStore(before, e)>>
    BY <1>8, ThreeStores, Zenon
  <2>2. /\ Typed' /\ lnext'[e] = behind /\ \A x \in Nodes : x # e => lnext'[x] = lnext[x]
        /\ lprev' = lprev /\ stores' = Tail(stores) /\ moving' = moving
    BY <1>3, <2>1, StoreNext
  <2>3. Along(L, lnext')
    BY <1>1, <1>3, <2>2, Unlisted DEF Has
  <2>4. AddStores(L, M, e, before, behind)'
    BY <1>8, <2>1, <2>2, Zenon DEF AddStores
  <2> QED  BY <1>6, <2>2, <2>3, <2>4
<1>9. CASE /\ stores = <<PrevStore(e, before), NextStore(before, e)>>
           /\ Along(Reversed(M), [lprev EXCEPT ![e] = before]) /\ lnext[e] = behind
  <2>1. Head(stores) = PrevStore(e, before) /\ Tail(stores) = <<NextStore(before, e)>>
    BY <1>9, TwoStores, Zenon
  <2>2. /\ Typed' /\ lprev'[e] = before /\ \A x \in Nodes : x # e => lprev'[x] = lprev[x]
        /\ lnext' = lnext /\ stores' = Tail(stores) /\ moving' = moving
    BY <1>3, <2>1, StorePrev
  <2>3. PICK p : p = [lprev EXCEPT ![e] = before]
    OBVIOUS
  <2>4. \A x \in Nodes : lprev'[x] = p[x]
    BY <1>3, <2>2, <2>3 DEF Typed, Pointers
  <2>5. Along(Reversed(M), lprev')
    <3>1. PICK P : P = Reversed(M)
      OBVIOUS
    <3>2. P \in Contents /\ Along(P, p)
      BY <1>3, <1>9, <2>3, <3>1, ReversedFacts
    <3> QED  BY <2>4, <3>1, <3>2, AlongSame
  <2>6. AddStores(L, M, e, before, behind)'
    BY <1>9, <2>1, <2>2, <2>5, Zenon DEF AddStores
  <2> QED  BY <1>1, <1>6, <2>2, <2>6
<1>10. CASE stores = <<NextStore(before, e)>> /\ Along(Reversed(M), lprev) /\ lnext[e] = behind
  <2>1. Head(stores) = NextStore(before, e) /\ Tail(stores) = <<>>
    BY <1>10, OneStore, Zenon
  <2>2. /\ Typed' /\ lnext'[before] = e /\ \A x \in Nodes : x # before => lnext'[x] = lnext[x]
        /\ lprev' = lprev /\ stores' = Tail(stores) /\ moving' = moving
    BY <1>3, <2>1, StoreNext
  <2>3. Through(lnext, lnext', before, e, behind)
    BY <1>3, <1>10, <2>2 DEF Through
  <2>4. Along(M, lnext')
    BY <1>1, <1>2, <2>3, LinkedIn
  <2>5. OnlyIn(M)'
    <3>1. ASSUME NEW x \in Entries, InList(x)' PROVE Has(M, x)
      <4>1. InList(x)
        <5>1. CASE x = before
          BY <1>1, <1>3, <5>1, ListedIn DEF Now
        <5>2. CASE x # before
          BY <2>2, <3>1, <5>2 DEF InList, Nodes
        <5> QED  BY <5>1, <5>2
      <4> QED  BY <1>1, <4>1 DEF OnlyIn
    <3> QED  BY <3>1, Zenon DEF OnlyIn
  <2>6. Idle(M)'
    BY <1>1, <1>3, <1>10, <2>1, <2>2, <2>4, <2>5, Zenon DEF Idle, Now
  <2>7. Changed(L, M)
    BY <1>1, <1>3, Zenon DEF Changed
  <2> QED  BY <2>2, <2>6, <2>7, Zenon DEF ListState
<1> QED  BY <1>4, <1>7, <1>8, <1>9, <1>10, Zenon DEF AddStores

LEMMA StoreRemoving ==
  ASSUME Typed, Store, NEW L, NEW M, NEW h, NEW k, NEW e, NEW rest, Removing(L, M, h, k, e, rest)
  PROVE  Typed' /\ \E N : ListState(N)' /\ Changed(M, N)
<1>1. /\ Spliced(L, M, h, k, e) /\ Distinct(M) /\ L = [M EXCEPT ![h] = RemoveAt(@, k + 1)]
      /\ Along(M, lnext) /\ OnlyIn(M) /\ Leaving(e, rest)
  BY Zenon DEF Removing
<1>2. PICK before, behind : before = NodeAt(L, h, k) /\ behind = NodeAt(L, h, k + 1)
  OBVIOUS
<1>3. /\ L \in Contents /\ M \in Contents /\ h \in Heads /\ Distinct(L) /\ e \in Entries /\ e \in Nodes
      /\ ~Has(L, e) /\ Has(M, e) /\ before \in Nodes /\ behind \in Nodes /\ before # e /\ behind # e
      /\ before \in Entries => Has(L, before)
  BY <1>1, <1>2, Neighbours
<1>4. DelStores(L, M, before, behind, rest)
  BY <1>2, Zenon DEF Removing
<1>5. PICK s1, s2 : s1 = PrevStore(behind, before) /\ s2 = NextStore(before, behind)
  OBVIOUS
<1>6. /\ Head(<<s1, s2>> \o rest) = s1 /\ Tail(<<s1, s2>> \o rest) = <<s2>> \o rest
      /\ Head(<<s2>> \o rest) = s2 /\ Tail(<<s2>> \o rest) = rest
  <2>1. PICK S : s1 \in S /\ s2 \in S /\ rest \in Seq(S)
    BY <1>1, RestIsSequence
  <2> QED  BY ONLY <2>1
<1>7. CASE stores = <<s1, s2>> \o rest /\ Along(Reversed(M), lprev)
  <2>1. Head(stores) = PrevStore(behind, before) /\ Tail(stores) = <<s2>> \o rest
    BY <1>5, <1>6, <1>7, Zenon
  <2>2. /\ Typed' /\ lprev'[behind] = before /\ \A x \in Nodes : x # behind => lprev'[x] = lprev[x]
        /\ lnext' = lnext /\ stores' = Tail(stores) /\ moving' = moving
    BY <1>3, <2>1, StorePrev
  <2>3. Past(lprev, lprev', behind, e, before)
    BY <2>2 DEF Past
  <2>4. Along(Reversed(L), lprev')
    BY <1>1, <1>2, <1>7, <2>3, BackTakenOut
  <2>5. DelStores(L, M, before, behind, rest)'
    BY <1>5, <2>1, <2>2, <2>4, Zenon DEF DelStores
  <2>6. Leaving(e, rest)' /\ OnlyIn(M)'
    BY <1>1, <2>2, Zenon DEF Leaving, OnlyIn, InList
  <2>7. Removing(L, M, h, k, e, rest)'
    BY <1>1, <1>2, <2>2, <2>5, <2>6, Zenon DEF Removing
  <2>8. Changed(M, M)
    BY DEF Changed
  <2> QED  BY <2>2, <2>7, <2>8, Zenon DEF ListState
<1>8. CASE stores = <<s2>> \o rest /\ Along(Reversed(L), lprev)
  <2>1. Head(stores) = NextStore(before, behind) /\ Tail(stores) = rest
    BY <1>5, <1>6, <1>8, Zenon
  <2>2. /\ Typed' /\ lnext'[before] = behind /\ \A x \in Nodes : x # before => lnext'[x] = lnext[x]
        /\ lprev' = lprev /\ stores' = Tail(stores) /\ moving' = moving
    BY <1>3, <2>1, StoreNext
  <2>3. Past(lnext, lnext', before, e, behind)
    BY <2>2 DEF Past
  <2>4. Along(L, lnext')
    BY <1>1, <1>2, <2>3, TakenOut
  <2>5. ASSUME NEW x \in Entries, InList(x)' PROVE Has(L, x) \/ x = e
    <3>1. CASE x = before
      BY <1>3, <3>1
    <3>2. CASE x # before
      <4>1. Has(M, x)
        BY <1>1, <2>2, <2>5, <3>2 DEF OnlyIn, InList, Nodes
      <4> QED  BY <1>1, <4>1, SplicedHas
    <3> QED  BY <3>1, <3>2
  <2>6. Leaving(e, stores)'
    BY <1>1, <2>1, <2>2, Zenon DEF Leaving
  <2>7. Out(L, e)'
    BY <1>3, <1>8, <2>2, <2>4, <2>5, <2>6, Zenon DEF Out, Now
  <2>8. Changed(M, L)
    <3>1. k + 1 \in 1 .. Len(M[h])
      BY <1>1, <1>3, NodeTypes, 0 \in Int DEF Spliced
    <3> QED  BY <1>1, <1>3, <3>1, Zenon DEF Changed
  <2> QED  BY <2>2, <2>7, <2>8, Zenon DEF ListState
<1> QED  BY <1>4, <1>5, <1>7, <1>8, Zenon DEF DelStores

LEMMA StoreOut ==
  ASSUME Typed, Store, NEW L, NEW e, Out(L, e)
  PROVE  Typed' /\ \E N : ListState(N)' /\ Changed(L, N)
<1>1. /\ Now(L) /\ Along(Reversed(L), lprev) /\ e \in Entries /\ ~Has(L, e) /\ Leaving(e, stores)
      /\ \A x \in Entries : InList(x) => Has(L, x) \/ x = e
  BY Zenon DEF Out
<1>2. stores = <<NextStore(e, LIST_POISON1), PrevStore(e, LIST_POISON2)>> /\ moving = <<>>
  <2>1. stores # <<>>
    BY Zenon DEF Store
  <2> QED  BY <1>1, <2>1, Zenon DEF Leaving, Poison
<1>3. Head(stores) = NextStore(e, LIST_POISON1) /\ Tail(stores) = <<PrevStore(e, LIST_POISON2)>>
  BY <1>2, TwoStores, Zenon
<1>4. /\ Typed' /\ lnext'[e] = LIST_POISON1 /\ \A x \in Nodes : x # e => lnext'[x] = lnext[x]
      /\ lprev' = lprev /\ stores' = Tail(stores) /\ moving' = moving
  <2>1. e \in Nodes
    BY <1>1 DEF Nodes
  <2> QED  BY <1>3, <2>1, StoreNext
<1>5. Along(L, lnext')
  BY <1>1, <1>4, Unlisted DEF Has, Now
<1>6. OnlyIn(L)'
  <2>1. ASSUME NEW x \in Entries, InList(x)' PROVE Has(L, x)
    <3>1. x # e
      BY <1>4, <2>1 DEF InList
    <3>2. InList(x)
      BY <1>4, <2>1, <3>1 DEF InList, Nodes
    <3> QED  BY <1>1, <3>1, <3>2
  <2> QED  BY <2>1, Zenon DEF OnlyIn
<1>7. Idle(L)'
  BY <1>1, <1>2, <1>3, <1>4, <1>5, <1>6, Zenon DEF Idle, Now
<1>8. Changed(L, L)
  BY DEF Changed
<1> QED  BY <1>4, <1>7, <1>8, Zenon DEF ListState

LEMMA StoreIdle ==
  ASSUME Typed, Store, NEW L, Idle(L)
  PROVE  Typed' /\ \E N : ListState(N)' /\ Changed(L, N)
<1>1. Now(L) /\ Along(Reversed(L), lprev) /\ OnlyIn(L) /\ moving = <<>>
  BY Zenon DEF Idle
<1>2. PICK e \in Entries : ~Has(L, e) /\ stores = <<PrevStore(e, LIST_POISON2)>>
  BY Zenon DEF Idle, Store
<1>3. Head(stores) = PrevStore(e, LIST_POISON2) /\ Tail(stores) = <<>>
  BY <1>2, OneStore, Zenon
<1>4. /\ Typed' /\ \A x \in Nodes : x # e => lprev'[x] = lprev[x]
      /\ lnext' = lnext /\ stores' = Tail(stores) /\ moving' = moving
  <2>1. e \in Nodes
    BY <1>2 DEF Nodes
  <2> QED  BY <1>3, <2>1, StorePrev
<1>5. Along(Reversed(L), lprev')
  BY <1>1, <1>2, <1>4, BackUnlisted DEF Has, Now
<1>6. OnlyIn(L)'
  BY <1>1, <1>4, Zenon DEF OnlyIn, InList
<1>7. Idle(L)'
  BY <1>1, <1>3, <1>4, <1>5, <1>6, Zenon DEF Idle, Now
<1>8. Changed(L, L)
  BY DEF Changed
<1> QED  BY <1>4, <1>7, <1>8, Zenon DEF ListState

LEMMA StoreStep ==
  ASSUME Typed, Store, NEW L, ListState(L)
  PROVE  Typed' /\ \E N : ListState(N)' /\ Changed(L, N)
<1>1. CASE Idle(L)
  BY <1>1, StoreIdle
<1>2. ASSUME NEW M, NEW h, NEW k, NEW e, Adding(L, M, h, k, e)
      PROVE  Typed' /\ \E N : ListState(N)' /\ Changed(L, N)
  BY <1>2, StoreAdding
<1>3. ASSUME NEW P, NEW h, NEW k, NEW e, NEW rest, Removing(P, L, h, k, e, rest)
      PROVE  Typed' /\ \E N : ListState(N)' /\ Changed(L, N)
  BY <1>3, StoreRemoving
<1>4. ASSUME NEW e, Out(L, e)
      PROVE  Typed' /\ \E N : ListState(N)' /\ Changed(L, N)
  BY <1>4, StoreOut
<1> QED  BY <1>1, <1>2, <1>3, <1>4, Zenon DEF ListState

-----------------------------------------------------------------------------
(***************************************************************************)
(* Every call.                                                             *)
(***************************************************************************)
\* The nodes on both sides of a head, and of an entry.
LEMMA EndsOf ==
  ASSUME NEW L \in Contents, Along(L, lnext), Along(Reversed(L), lprev), NEW h \in Heads, NEW n, n = Len(L[h])
  PROVE  /\ n \in Nat /\ NodeAt(L, h, 0) = h /\ NodeAt(L, h, n + 1) = h
         /\ \A j \in 0 .. n : lnext[NodeAt(L, h, j)] = NodeAt(L, h, j + 1)
         /\ \A j \in 1 .. (n + 1) : lprev[NodeAt(L, h, j)] = NodeAt(L, h, j - 1)
<1>1. n \in Nat
  BY NodeTypes, 0 \in Int
<1>2. NodeAt(L, h, 0) = h /\ NodeAt(L, h, n + 1) = h
  BY <1>1, NodeTypes
<1>3. \A j \in 0 .. n : lnext[NodeAt(L, h, j)] = NodeAt(L, h, j + 1)
  BY Zenon DEF Along
<1>4. PICK P : P = Reversed(L)
  OBVIOUS
<1>5. Len(P[h]) = n
  BY <1>4, ReversedFacts
<1>6. ASSUME NEW j \in 1 .. (n + 1) PROVE lprev[NodeAt(L, h, j)] = NodeAt(L, h, j - 1)
  <2>1. PICK y : y = n + 1 - j
    OBVIOUS
  <2>2. y \in 0 .. n /\ y \in 0 .. (n + 1) /\ y + 1 \in 0 .. (n + 1) /\ n + 1 - y = j /\ n + 1 - (y + 1) = j - 1
    BY <1>1, <2>1
  <2>3. lprev[NodeAt(P, h, y)] = NodeAt(P, h, y + 1)
    BY <1>4, <1>5, <2>2, Zenon DEF Along
  <2>4. \A x \in 0 .. (n + 1) : NodeAt(P, h, x) = NodeAt(L, h, n + 1 - x)
    BY <1>4, ReversedNodes, ZenonT(60)
  <2>5. NodeAt(P, h, y) = NodeAt(L, h, j) /\ NodeAt(P, h, y + 1) = NodeAt(L, h, j - 1)
    BY <2>2, <2>4
  <2> QED  BY <2>3, <2>5
<1> QED  BY <1>1, <1>2, <1>3, <1>6

\* __list_add at an end of a list, of an entry that is in none.
LEMMA StartAdding ==
  ASSUME NEW L, Now(L), Along(Reversed(L), lprev), NEW e \in Entries, ~Has(L, e), NEW h \in Heads,
         \A x \in Entries : InList(x) => Has(L, x) \/ x = e,
         lnext' = lnext, lprev' = lprev, moving' = <<>>,
         \/ stores' = __list_add(e, h, lnext[h])
         \/ stores' = __list_add(e, lprev[h], h)
  PROVE  ListState(L)'
<1>1. L \in Contents /\ Distinct(L) /\ Along(L, lnext)
  BY Zenon DEF Now
<1>2. PICK n : n = Len(L[h])
  OBVIOUS
<1>3. /\ n \in Nat /\ NodeAt(L, h, 0) = h /\ NodeAt(L, h, n + 1) = h
      /\ \A j \in 0 .. n : lnext[NodeAt(L, h, j)] = NodeAt(L, h, j + 1)
      /\ \A j \in 1 .. (n + 1) : lprev[NodeAt(L, h, j)] = NodeAt(L, h, j - 1)
  BY <1>1, <1>2, EndsOf
<1>4. ASSUME NEW M, NEW k, Spliced(L, M, h, k, e), AtEnd(L, M, h, e),
             stores' = __list_add(e, NodeAt(L, h, k), NodeAt(L, h, k + 1))
      PROVE  ListState(L)'
  <2>1. Distinct(M)
    BY <1>1, <1>4, SplicedDistinct
  <2>2. OnlyIn(M)'
    <3>1. Has(M, e)
      BY <1>4, <2>1, Neighbours
    <3>2. ASSUME NEW x \in Entries, Has(L, x) PROVE Has(M, x)
      BY <1>4, <3>2, SplicedKeeps
    <3> QED  BY <3>1, <3>2, Zenon DEF OnlyIn, InList
  <2>3. AddStores(L, M, e, NodeAt(L, h, k), NodeAt(L, h, k + 1))'
    BY <1>4, Zenon DEF AddStores
  <2>4. Adding(L, M, h, k, e)'
    BY <1>1, <1>4, <2>1, <2>2, <2>3, Zenon DEF Adding
  <2> QED  BY <2>4, Zenon DEF ListState
<1>5. CASE stores' = __list_add(e, h, lnext[h])
  <2>1. PICK M : M = [L EXCEPT ![h] = <<e>> \o @]
    OBVIOUS
  <2>2. Spliced(L, M, h, 0, e) /\ AtEnd(L, M, h, e)
    BY <1>1, <2>1, PutFront DEF AtEnd
  <2>3. lnext[h] = NodeAt(L, h, 0 + 1)
    BY <1>3
  <2> QED  BY <1>3, <1>4, <1>5, <2>2, <2>3
<1>6. CASE stores' = __list_add(e, lprev[h], h)
  <2>1. PICK M : M = [L EXCEPT ![h] = @ \o <<e>>]
    OBVIOUS
  <2>2. Spliced(L, M, h, n, e) /\ AtEnd(L, M, h, e)
    BY <1>1, <1>2, <2>1, PutBack DEF AtEnd
  <2>3. lprev[h] = NodeAt(L, h, n)
    <3>1. n + 1 \in 1 .. (n + 1) /\ (n + 1) - 1 = n
      BY <1>3
    <3> QED  BY <1>3, <3>1
  <2> QED  BY <1>3, <1>4, <1>6, <2>2, <2>3
<1> QED  BY <1>5, <1>6

\* __list_del of an entry that is in a list.
LEMMA StartRemoving ==
  ASSUME NEW M, Now(M), Along(Reversed(M), lprev), OnlyIn(M), NEW e \in Entries, InList(e), NEW rest,
         Leaving(e, rest)', lnext' = lnext, lprev' = lprev, stores' = __list_del_entry(e) \o rest
  PROVE  ListState(M)'
<1>1. M \in Contents /\ Distinct(M) /\ Along(M, lnext)
  BY Zenon DEF Now
<1>2. PICK h, j : h \in Heads /\ j \in 1 .. Len(M[h]) /\ M[h][j] = e
  BY DEF OnlyIn, Has
<1>3. PICK n : n = Len(M[h])
  OBVIOUS
<1>4. /\ n \in Nat
      /\ \A x \in 0 .. n : lnext[NodeAt(M, h, x)] = NodeAt(M, h, x + 1)
      /\ \A x \in 1 .. (n + 1) : lprev[NodeAt(M, h, x)] = NodeAt(M, h, x - 1)
  BY <1>1, <1>2, <1>3, EndsOf
<1>5. PICK k \in Nat : j = k + 1
  BY <1>2, <1>3, <1>4, j - 1 \in Nat
<1>6. j \in 0 .. n /\ j \in 1 .. n /\ j \in 1 .. (n + 1) /\ j - 1 = k
  BY <1>2, <1>3, <1>4, <1>5
<1>7. NodeAt(M, h, j) = e
  BY <1>2, Zenon DEF NodeAt
<1>8. lnext[e] = NodeAt(M, h, j + 1) /\ lprev[e] = NodeAt(M, h, k)
  <2>1. lnext[NodeAt(M, h, j)] = NodeAt(M, h, j + 1) /\ lprev[NodeAt(M, h, j)] = NodeAt(M, h, j - 1)
    BY <1>4, <1>6, Zenon
  <2> QED  BY <1>6, <1>7, <2>1
<1>9. PICK L : L = [M EXCEPT ![h] = RemoveAt(@, k + 1)]
  OBVIOUS
<1>10. Spliced(L, M, h, k, e)
  BY <1>1, <1>2, <1>5, <1>9, TakeFrom
<1>11. PICK y : y = Len(L[h])
  OBVIOUS
<1>12. /\ y \in Nat /\ k \in 0 .. y /\ Len(M[h]) = y + 1
       /\ \A x \in 0 .. k : NodeAt(M, h, x) = NodeAt(L, h, x)
       /\ NodeAt(M, h, k + 1) = e
       /\ \A x \in (k + 1) .. (y + 1) : NodeAt(M, h, x + 1) = NodeAt(L, h, x)
       /\ \A g \in Heads \ {h} : \A x \in Int : NodeAt(M, g, x) = NodeAt(L, g, x)
  BY <1>10, <1>11, SplicedNodes
<1>13. lprev[e] = NodeAt(L, h, k) /\ lnext[e] = NodeAt(L, h, k + 1)
  <2>1. k \in 0 .. k /\ k + 1 \in (k + 1) .. (y + 1)
    BY <1>12
  <2>2. NodeAt(M, h, k) = NodeAt(L, h, k) /\ NodeAt(M, h, (k + 1) + 1) = NodeAt(L, h, k + 1)
    BY <1>12, <2>1, Zenon
  <2> QED  BY <1>5, <1>8, <2>2
<1>14. DelStores(L, M, NodeAt(L, h, k), NodeAt(L, h, k + 1), rest)'
  BY <1>13, Zenon DEF DelStores, __list_del_entry, __list_del
<1>15. OnlyIn(M)'
  BY Zenon DEF OnlyIn, InList
<1>16. Removing(L, M, h, k, e, rest)'
  BY <1>1, <1>9, <1>10, <1>14, <1>15, Zenon DEF Removing
<1> QED  BY <1>16, Zenon DEF ListState

LEMMA CallStep ==
  ASSUME NEW L, ListState(L), Typed, NEW st, NEW m, Call(st, m)
  PROVE  /\ Typed' /\ Idle(L) /\ lnext' = lnext /\ lprev' = lprev /\ stores' = st /\ moving' = m
<1>1. /\ stores = <<>> /\ moving = <<>> /\ stores' = st /\ moving' = m /\ lnext' = lnext /\ lprev' = lprev
  BY Zenon DEF Call
<1>2. Idle(L)
  BY <1>1, Quiet, Zenon
<1> QED  BY <1>1, <1>2, Zenon DEF Typed

LEMMA AddStep ==
  ASSUME NEW L, ListState(L), Typed, NEW e \in Entries, NEW h \in Heads, list_add(e, h) \/ list_add_tail(e, h)
  PROVE  Typed' /\ ListState(L)'
<1>1. PICK st : /\ ~InList(e) /\ Call(st, <<>>)
                /\ (st = __list_add(e, h, lnext[h]) \/ st = __list_add(e, lprev[h], h))
  BY Zenon DEF list_add, list_add_tail
<1>2. Typed' /\ Idle(L) /\ lnext' = lnext /\ lprev' = lprev /\ stores' = st /\ moving' = <<>>
  BY <1>1, CallStep
<1>3. Now(L) /\ Along(Reversed(L), lprev) /\ OnlyIn(L)
  BY <1>2, Zenon DEF Idle
<1>4. ~Has(L, e)
  BY <1>1, <1>3, ListedIn
<1>5. \A x \in Entries : InList(x) => Has(L, x) \/ x = e
  BY <1>3, Zenon DEF OnlyIn
<1>6. stores' = __list_add(e, h, lnext[h]) \/ stores' = __list_add(e, lprev[h], h)
  BY <1>1, <1>2, Zenon
<1> QED  BY <1>2, <1>3, <1>4, <1>5, <1>6, StartAdding

LEMMA DelStep ==
  ASSUME NEW L, ListState(L), Typed, NEW e \in Entries, list_del(e)
  PROVE  Typed' /\ ListState(L)'
<1>1. InList(e) /\ Call(__list_del_entry(e) \o Poison(e), <<>>)
  BY Zenon DEF list_del, Poison
<1>2. PICK st : st = __list_del_entry(e) \o Poison(e) /\ Call(st, <<>>)
  BY <1>1
<1>3. Typed' /\ Idle(L) /\ lnext' = lnext /\ lprev' = lprev /\ stores' = st /\ moving' = <<>>
  BY <1>2, CallStep
<1>4. Now(L) /\ Along(Reversed(L), lprev) /\ OnlyIn(L)
  BY <1>3, Zenon DEF Idle
<1>5. PICK rest : rest = Poison(e)
  OBVIOUS
<1>6. Leaving(e, rest)' /\ stores' = __list_del_entry(e) \o rest
  BY <1>2, <1>3, <1>5, Zenon DEF Leaving, Poison
<1> QED  BY <1>1, <1>3, <1>4, <1>6, StartRemoving

LEMMA MoveStep ==
  ASSUME NEW L, ListState(L), Typed, NEW e \in Entries, NEW h \in Heads, list_move(e, h) \/ list_move_tail(e, h)
  PROVE  Typed' /\ ListState(L)'
<1>1. PICK m, t : /\ InList(e) /\ t \in BOOLEAN /\ m = <<[entry |-> e, head |-> h, tail |-> t]>>
                  /\ Call(__list_del_entry(e), m)
  BY Zenon DEF list_move, list_move_tail
<1>2. PICK st : st = __list_del_entry(e) /\ Call(st, m)
  BY <1>1
<1>3. Typed' /\ Idle(L) /\ lnext' = lnext /\ lprev' = lprev /\ stores' = st /\ moving' = m
  BY <1>2, CallStep
<1>4. Now(L) /\ Along(Reversed(L), lprev) /\ OnlyIn(L)
  BY <1>3, Zenon DEF Idle
<1>5. ASSUME NEW x, NEW y PROVE <<x, y>> = <<x, y>> \o <<>>
  OBVIOUS
<1>6. stores' = __list_del_entry(e) \o <<>>
  BY <1>2, <1>3, <1>5, Zenon DEF __list_del_entry, __list_del
<1>7. PICK rest : rest = <<>>
  OBVIOUS
<1>8. Leaving(e, rest)' /\ stores' = __list_del_entry(e) \o rest
  BY <1>1, <1>3, <1>6, <1>7, Zenon DEF Leaving
<1> QED  BY <1>1, <1>3, <1>4, <1>8, StartRemoving

LEMMA MoveOnStep ==
  ASSUME NEW L, ListState(L), Typed, MoveOn
  PROVE  Typed' /\ ListState(L)'
<1>1. /\ stores = <<>> /\ moving # <<>> /\ moving' = <<>> /\ lnext' = lnext /\ lprev' = lprev
  BY Zenon DEF MoveOn
<1>2. PICK e, h, t : /\ Out(L, e) /\ h \in Heads /\ t \in BOOLEAN
                     /\ moving = <<[entry |-> e, head |-> h, tail |-> t]>>
  BY <1>1, Quiet, Zenon
<1>3. PICK m : m = moving[1] /\ m.entry = e /\ m.head = h /\ m.tail = t
  BY <1>2
<1>4. stores' = IF m.tail THEN __list_add(m.entry, lprev[m.head], m.head)
                ELSE __list_add(m.entry, m.head, lnext[m.head])
  BY <1>3, Zenon DEF MoveOn
<1>5. stores' = __list_add(e, h, lnext[h]) \/ stores' = __list_add(e, lprev[h], h)
  BY <1>3, <1>4, Zenon
<1>6. /\ Now(L) /\ Along(Reversed(L), lprev) /\ e \in Entries /\ ~Has(L, e)
      /\ \A x \in Entries : InList(x) => Has(L, x) \/ x = e
  BY <1>2, Zenon DEF Out
<1>7. ListState(L)'
  BY <1>1, <1>2, <1>5, <1>6, StartAdding
<1> QED  BY <1>1, <1>7, Zenon DEF Typed

LEMMA ListStep ==
  ASSUME NEW L, ListState(L), Typed, ListNext
  PROVE  Typed' /\ \E N : ListState(N)' /\ Changed(L, N)
<1>1. Changed(L, L)
  BY DEF Changed
<1>2. ASSUME NEW e \in Entries, NEW h \in Heads, list_add(e, h) \/ list_add_tail(e, h)
      PROVE  Typed' /\ ListState(L)'
  BY <1>2, AddStep
<1>3. ASSUME NEW e \in Entries, NEW h \in Heads, list_move(e, h) \/ list_move_tail(e, h)
      PROVE  Typed' /\ ListState(L)'
  BY <1>3, MoveStep
<1>4. ASSUME NEW e \in Entries, list_del(e) PROVE Typed' /\ ListState(L)'
  BY <1>4, DelStep
<1>5. CASE Store
  BY <1>5, StoreStep
<1>6. ASSUME MoveOn PROVE Typed' /\ ListState(L)'
  BY <1>6, MoveOnStep
<1>7. CASE ~Store
  <2>1. Typed' /\ ListState(L)'
    BY <1>2, <1>3, <1>4, <1>6, <1>7, Zenon DEF ListNext
  <2> QED  BY <1>1, <2>1, Zenon
<1> QED  BY <1>5, <1>7

LEMMA ListInvInit ==
  ASSUME ListInit
  PROVE  Typed /\ ListState([h \in Heads |-> <<>>])
<1>1. PICK L : L = [h \in Heads |-> <<>>]
  OBVIOUS
<1>2. /\ lnext = LIST_HEAD /\ lprev = LIST_HEAD /\ stores = <<>> /\ moving = <<>>
  BY Zenon DEF ListInit
<1>3. /\ LIST_HEAD \in Pointers /\ \A h \in Heads : LIST_HEAD[h] = h
      /\ \A e \in Entries : LIST_HEAD[e] = LIST_POISON1
  BY ListConstants DEF LIST_HEAD, Pointers, Nodes
<1>4. L \in Contents /\ \A h \in Heads : L[h] = <<>> /\ Len(L[h]) = 0
  BY <1>1 DEF Contents
<1>5. Distinct(L)
  BY <1>4 DEF Distinct
<1>6. ASSUME NEW P \in Contents, \A h \in Heads : Len(P[h]) = 0 PROVE Along(P, LIST_HEAD)
  <2>1. ASSUME NEW h \in Heads, NEW k \in 0 .. Len(P[h]) PROVE LIST_HEAD[NodeAt(P, h, k)] = NodeAt(P, h, k + 1)
    <3>1. k = 0 /\ NodeAt(P, h, 0) = h /\ NodeAt(P, h, 0 + 1) = h
      BY <1>6 DEF NodeAt
    <3> QED  BY <1>3, <3>1
  <2> QED  BY <2>1 DEF Along
<1>7. Along(L, lnext)
  BY <1>2, <1>4, <1>6
<1>8. Along(Reversed(L), lprev)
  <2>1. PICK P : P = Reversed(L)
    OBVIOUS
  <2>2. P \in Contents /\ \A h \in Heads : Len(P[h]) = 0
    BY <1>4, <2>1, ReversedFacts
  <2> QED  BY <1>2, <1>6, <2>1, <2>2
<1>9. OnlyIn(L)
  BY <1>2, <1>3, Zenon DEF OnlyIn, InList
<1>10. Idle(L)
  BY <1>2, <1>4, <1>5, <1>7, <1>8, <1>9, Zenon DEF Idle, Now
<1>11. ListState(L)
  BY <1>10, Zenon DEF ListState
<1> QED  BY <1>1, <1>2, <1>3, <1>11 DEF Typed

-----------------------------------------------------------------------------
(***************************************************************************)
(* The lists of list.h are the sequences of ListSpec.                      *)
(***************************************************************************)
\* What a reader that walks the lists finds.
Read == [h \in Heads |-> list_for_each_entry(lnext, h)]

LEMMA ReadIs ==
  ASSUME NEW L, Now(L)
  PROVE  Read = L
<1>1. L \in Contents /\ Distinct(L) /\ Along(L, lnext)
  BY Zenon DEF Now
<1>2. \A h \in Heads : list_for_each_entry(lnext, h) = L[h]
  BY <1>1, WalkFinds
<1>3. L = [h \in Heads |-> L[h]]
  BY <1>1 DEF Contents
<1> QED  BY <1>2, <1>3, Zenon DEF Read

\* The same one step later.
LEMMA ReadWillBe ==
  ASSUME NEW L, Now(L)'
  PROVE  Read' = L
<1>1. L \in Contents /\ Distinct(L) /\ Along(L, lnext')
  BY Zenon DEF Now
<1>2. \A h \in Heads : list_for_each_entry(lnext', h) = L[h]
  BY <1>1, WalkFinds
<1>3. L = [h \in Heads |-> L[h]]
  BY <1>1 DEF Contents
<1>4. Read' = [h \in Heads |-> list_for_each_entry(lnext', h)]
  BY DEF Read
<1> QED  BY <1>2, <1>3, <1>4, Zenon

LEMMA ReaderWillFind ==
  ASSUME NEW L, ListState(L)'
  PROVE  Now(L)'
<1>1. ASSUME NEW M, NEW h, NEW k, NEW e, Adding(L, M, h, k, e)' PROVE Now(L)'
  <2>1. Spliced(L, M, h, k, e) /\ Distinct(M) /\ Along(L, lnext')
    BY <1>1, Zenon DEF Adding
  <2>2. L \in Contents /\ Distinct(L)
    BY <2>1, SplicedApart, Zenon DEF Spliced
  <2> QED  BY <2>1, <2>2, Zenon DEF Now
<1>2. ASSUME NEW P, NEW h, NEW k, NEW e, NEW rest, Removing(P, L, h, k, e, rest)' PROVE Now(L)'
  BY <1>2, Zenon DEF Removing, Spliced, Now
<1>3. ASSUME NEW e, Out(L, e)' PROVE Now(L)'
  BY <1>3, Zenon DEF Out
<1>4. ASSUME Idle(L)' PROVE Now(L)'
  BY <1>4, Zenon DEF Idle
<1> QED  BY <1>1, <1>2, <1>3, <1>4, Zenon DEF ListState

\* A step of something else.
LEMMA ListInvKept ==
  ASSUME ListInv, lnext' = lnext, lprev' = lprev, stores' = stores, moving' = moving
  PROVE  ListInv'
<1>1. PICK L : Typed /\ ListState(L)
  BY Zenon DEF ListInv
<1>2. Typed'
  BY <1>1, Zenon DEF Typed
<1>3. \A M : OnlyIn(M) => OnlyIn(M)'
  BY Zenon DEF OnlyIn, InList
<1>4. \A e, rest : Leaving(e, rest) => Leaving(e, rest)'
  BY Zenon DEF Leaving
<1>5. Idle(L) => Idle(L)'
  BY <1>3, Zenon DEF Idle, Now
<1>6. ASSUME NEW M, NEW h, NEW k, NEW e, Adding(L, M, h, k, e) PROVE Adding(L, M, h, k, e)'
  <2>1. AddStores(L, M, e, NodeAt(L, h, k), NodeAt(L, h, k + 1))'
    BY <1>6, Zenon DEF Adding, AddStores
  <2> QED  BY <1>3, <1>6, <2>1, Zenon DEF Adding
<1>7. ASSUME NEW P, NEW h, NEW k, NEW e, NEW rest, Removing(P, L, h, k, e, rest)
      PROVE  Removing(P, L, h, k, e, rest)'
  <2>1. DelStores(P, L, NodeAt(P, h, k), NodeAt(P, h, k + 1), rest)'
    BY <1>7, Zenon DEF Removing, DelStores
  <2> QED  BY <1>3, <1>4, <1>7, <2>1, Zenon DEF Removing
<1>8. ASSUME NEW e, Out(L, e) PROVE Out(L, e)'
  BY <1>8, Zenon DEF Out, Now, InList, Leaving
<1>9. ListState(L)'
  BY <1>1, <1>5, <1>6, <1>7, <1>8, Zenon DEF ListState
<1> QED  BY <1>2, <1>9, Zenon DEF ListInv

LEMMA RefinesListStep ==
  ASSUME ListInv, ListNext
  PROVE  ListInv' /\ [Abstract!ListsNext]_Read
<1>1. PICK L : Typed /\ ListState(L)
  BY Zenon DEF ListInv
<1>2. PICK N : Typed' /\ ListState(N)' /\ Changed(L, N)
  BY <1>1, ListStep
<1>3. ListInv'
  BY <1>2, Zenon DEF ListInv
<1>4. Now(L) /\ Read = L
  BY <1>1, ReaderFinds, ReadIs
<1>5. Now(N)'
  BY <1>2, ReaderWillFind
<1>6. Read' = N
  BY <1>5, ReadWillBe
<1>a. [g \in Heads |-> list_for_each_entry(lnext, g)] = L
  BY <1>4, Zenon DEF Read
<1>b. [g \in Heads |-> list_for_each_entry(lnext', g)] = N
  BY <1>6, Zenon DEF Read
<1>7. CASE N = L
  BY <1>3, <1>4, <1>6, <1>7
<1>8. CASE \E h \in Heads : \E k \in 1 .. Len(L[h]) : N = [L EXCEPT ![h] = RemoveAt(@, k)]
  <2>1. PICK h, k : h \in Heads /\ k \in 1 .. Len(L[h]) /\ N = [L EXCEPT ![h] = RemoveAt(@, k)]
    BY <1>8
  <2>2. L[h] \in Seq(Entries) /\ L[h][k] \in Entries
    BY <1>4, <2>1, NodeTypes DEF Now
  <2>3. DOMAIN L[h] = 1 .. Len(L[h])
    BY <2>2
  <2>4. Abstract!Take(L[h][k])
    <3>1. \E g \in Heads : \E j \in DOMAIN L[g] : L[g][j] = L[h][k] /\ N = [L EXCEPT ![g] = RemoveAt(@, j)]
      BY <2>1, <2>3, Zenon
    <3>2. \A s, j : Abstract!RemoveAt(s, j) = RemoveAt(s, j)
      BY Zenon DEF RemoveAt, Abstract!RemoveAt
    <3> QED  BY <1>a, <1>b, <3>1, <3>2, Zenon DEF Abstract!Take
  <2> QED  BY <1>3, <2>2, <2>4 DEF Abstract!ListsNext
<1>9. CASE \E h \in Heads, e \in Entries : ~Has(L, e) /\ AtEnd(L, N, h, e)
  <2>1. PICK h \in Heads, e \in Entries : ~Has(L, e) /\ AtEnd(L, N, h, e)
    BY <1>9
  <2>2. \A g \in Heads : DOMAIN L[g] = 1 .. Len(L[g])
    BY <1>4 DEF Now, Contents
  <2>3. e \notin UNION {Range(L[g]) : g \in Heads}
    BY <2>1, <2>2 DEF Range, Has
  <2>4. Abstract!Insert(e, h)
    <3>1. N \in {[L EXCEPT ![h] = <<e>> \o @], [L EXCEPT ![h] = @ \o <<e>>]}
      BY <2>1, Zenon DEF AtEnd
    <3>2. \A f : Abstract!Range(f) = Range(f)
      BY Zenon DEF Range, Abstract!Range
    <3>3. e \notin UNION {Abstract!Range(L[g]) : g \in Heads}
      BY <2>3, <3>2
    <3> QED  BY <1>a, <1>b, <3>1, <3>3, Zenon DEF Abstract!Insert, Abstract!Listed
  <2> QED  BY <1>3, <2>1, <2>4 DEF Abstract!ListsNext
<1> QED  BY <1>2, <1>7, <1>8, <1>9, Zenon DEF Changed

LEMMA BackwardsRead ==
  ASSUME ListInv
  PROVE  BackwardsAgrees
<1>1. SUFFICES ASSUME stores = <<>>, moving = <<>>, NEW h \in Heads
               PROVE  /\ list_for_each_entry(lprev, h) = Reverse(list_for_each_entry(lnext, h))
                      /\ list_empty(h) <=> lprev[h] = h
  BY DEF BackwardsAgrees
<1>2. PICK L : ListState(L)
  BY Zenon DEF ListInv
<1>3. Idle(L)
  BY <1>1, <1>2, Quiet
<1>4. L \in Contents /\ Distinct(L) /\ Along(L, lnext) /\ Along(Reversed(L), lprev)
  BY <1>3, Zenon DEF Idle, Now
<1>5. PICK P : P = Reversed(L)
  OBVIOUS
<1>6. P \in Contents /\ Distinct(P) /\ P[h] = Reverse(L[h])
  BY <1>4, <1>5, ReversedFacts, ReversedDistinct
<1>7. list_for_each_entry(lnext, h) = L[h] /\ list_for_each_entry(lprev, h) = P[h]
  BY <1>4, <1>5, <1>6, WalkFinds
<1>8. PICK n : n = Len(L[h])
  OBVIOUS
<1>9. /\ n \in Nat /\ NodeAt(L, h, 0) = h /\ NodeAt(L, h, n + 1) = h
      /\ \A j \in 0 .. n : lnext[NodeAt(L, h, j)] = NodeAt(L, h, j + 1)
      /\ \A j \in 1 .. (n + 1) : lprev[NodeAt(L, h, j)] = NodeAt(L, h, j - 1)
  BY <1>4, <1>8, EndsOf
<1>10. lnext[h] = NodeAt(L, h, 1) /\ lprev[h] = NodeAt(L, h, n)
  <2>1. 0 \in 0 .. n /\ n + 1 \in 1 .. (n + 1) /\ (n + 1) - 1 = n /\ 0 + 1 = 1
    BY <1>9
  <2> QED  BY <1>9, <2>1
<1>11. CASE n = 0
  BY <1>9, <1>10, <1>6, <1>7, <1>11 DEF list_empty
<1>12. CASE n # 0
  <2>1. 1 \in 1 .. n /\ n \in 1 .. n
    BY <1>9, <1>12
  <2>2. NodeAt(L, h, 1) \in Entries /\ NodeAt(L, h, n) \in Entries
    BY <1>4, <1>8, <2>1, NodeTypes
  <2> QED  BY <1>6, <1>7, <1>10, <2>2, ListConstants DEF list_empty
<1> QED  BY <1>11, <1>12

\* For every number of heads and entries, in whatever order list.h is
\* called: a reader between any two stores sees each list before or after,
\* never half done, and between operations it reads the same backwards.
THEOREM ListsAreAlwaysSequences == Spec => ListsAreSequences
<1>1. Init => ListInv /\ Abstract!ListsInit
  <2> SUFFICES ASSUME Init PROVE ListInv /\ Abstract!ListsInit
    OBVIOUS
  <2>1. ListInit
    BY Zenon DEF Init
  <2>2. PICK L : L = [h \in Heads |-> <<>>] /\ Typed /\ ListState(L)
    BY <2>1, ListInvInit, Zenon
  <2>3. Read = L
    BY <2>2, ReaderFinds, ReadIs
  <2> QED  BY <2>2, <2>3, Zenon DEF ListInv, Abstract!ListsInit, Read
<1>2. ListInv /\ [Step]_vars => ListInv' /\ [Abstract!ListsNext]_Read
  <2> SUFFICES ASSUME ListInv, [Step]_vars PROVE ListInv' /\ [Abstract!ListsNext]_Read
    OBVIOUS
  <2>1. CASE ListNext
    BY <2>1, RefinesListStep
  <2>2. CASE UNCHANGED listVars
    <3>1. /\ lnext' = lnext /\ lprev' = lprev /\ stores' = stores /\ moving' = moving
      BY <2>2 DEF listVars
    <3>2. ListInv'
      BY <3>1, ListInvKept
    <3>3. Read' = Read
      BY <3>1 DEF Read
    <3> QED  BY <3>2, <3>3
  <2>3. ListNext \/ UNCHANGED listVars
    BY Zenon DEF Step, Sort, Format, Copy, List, Return, vars
  <2> QED  BY <2>1, <2>2, <2>3
<1>3. ListInv => BackwardsAgrees
  BY BackwardsRead
<1> QED  BY <1>1, <1>2, <1>3, PTL DEF Spec, ListsAreSequences, WalksAreAtomic, Abstract!ListsSpec, Read
=============================================================================
