----------------------------- MODULE LinkedList -----------------------------
(***************************************************************************)
(* The doubly linked lists of sys/list.h.  vprintk walks the list of       *)
(* consoles without a lock that register_console would take, and the code  *)
(* writes the next pointers with WRITE_ONCE: so every store of a pointer   *)
(* is a step of its own here, and a reader may walk the list in between.   *)
(***************************************************************************)
EXTENDS Integers, Sequences, SequencesExt, FiniteSets

CONSTANTS
  Heads,      \* the list heads
  Entries,    \* what the lists are made of
  MaxListOps  \* bound: operations called

VARIABLES
  lnext, lprev,  \* the pointers of every struct list_head
  stores,        \* the stores the current operation has still to do
  moving,        \* the second half of list_move: <<>> or one call
  listOps        \* operations called

listVars == <<lnext, lprev, stores, moving, listOps>>

Nodes == Heads \cup Entries
LIST_POISON1 == "LIST_POISON1"
LIST_POISON2 == "LIST_POISON2"

\* Heads and entries are finitely many different objects, and the poison
\* pointers point to none of them.
ASSUME ListConstants ==
  /\ IsFiniteSet(Heads) /\ IsFiniteSet(Entries) /\ Heads \cap Entries = {}
  /\ LIST_POISON1 \notin Nodes /\ LIST_POISON2 \notin Nodes

\* LIST_HEAD_INIT; the entries are zero.
LIST_HEAD == [n \in Nodes |-> IF n \in Heads THEN n ELSE LIST_POISON1]

ListInit ==
  /\ lnext = LIST_HEAD
  /\ lprev = LIST_HEAD
  /\ stores = <<>>
  /\ moving = <<>>
  /\ listOps = 0

NextStore(n, v) == [field |-> "next", node |-> n, val |-> v]
PrevStore(n, v) == [field |-> "prev", node |-> n, val |-> v]

\* Mutant of __list_add: the entry is published before it points anywhere.
__list_add_EarlyPublish(new, prev, next) ==
  <<NextStore(prev, new), PrevStore(next, new), NextStore(new, next), PrevStore(new, prev)>>

__list_add(new, prev, next) ==
  <<PrevStore(next, new), NextStore(new, next), PrevStore(new, prev), NextStore(prev, new)>>

__list_del(prev, next) == <<PrevStore(next, prev), NextStore(prev, next)>>

__list_del_entry(e) == __list_del(lprev[e], lnext[e])

\* In a list, for whoever follows the rules: not taken out since.
InList(e) == lnext[e] # LIST_POISON1

Call(s, m) ==
  /\ stores = <<>>
  /\ moving = <<>>
  /\ listOps < MaxListOps
  /\ stores' = s
  /\ moving' = m
  /\ listOps' = listOps + 1
  /\ UNCHANGED <<lnext, lprev>>

list_add(e, h) == ~InList(e) /\ Call(__list_add(e, h, lnext[h]), <<>>)
list_add_tail(e, h) == ~InList(e) /\ Call(__list_add(e, lprev[h], h), <<>>)

list_del(e) ==
  /\ InList(e)
  /\ Call(__list_del_entry(e) \o <<NextStore(e, LIST_POISON1), PrevStore(e, LIST_POISON2)>>, <<>>)

list_move(e, h) ==
  InList(e) /\ Call(__list_del_entry(e), <<[entry |-> e, head |-> h, tail |-> FALSE]>>)
list_move_tail(e, h) ==
  InList(e) /\ Call(__list_del_entry(e), <<[entry |-> e, head |-> h, tail |-> TRUE]>>)

\* One store.
Store ==
  /\ stores # <<>>
  /\ LET s == Head(stores)
     IN  /\ lnext' = IF s.field = "next" THEN [lnext EXCEPT ![s.node] = s.val] ELSE lnext
         /\ lprev' = IF s.field = "prev" THEN [lprev EXCEPT ![s.node] = s.val] ELSE lprev
  /\ stores' = Tail(stores)
  /\ UNCHANGED <<moving, listOps>>

\* list_move: the entry is out, and the neighbours of its new place are read.
MoveOn ==
  /\ stores = <<>>
  /\ moving # <<>>
  /\ LET m == moving[1]
     IN  stores' = IF m.tail THEN __list_add(m.entry, lprev[m.head], m.head)
                   ELSE __list_add(m.entry, m.head, lnext[m.head])
  /\ moving' = <<>>
  /\ UNCHANGED <<lnext, lprev, listOps>>

ListNext ==
  \/ \E e \in Entries, h \in Heads :
       list_add(e, h) \/ list_add_tail(e, h) \/ list_move(e, h) \/ list_move_tail(e, h)
  \/ \E e \in Entries : list_del(e)
  \/ Store
  \/ MoveOn

-----------------------------------------------------------------------------
\* list_for_each_entry: the entries a walk along p from h visits, a walk that
\* does not come back to h within as many steps as there are nodes being lost.
Lost == <<"lost">>

list_for_each_entry(p, h) ==
  LET at[k \in 0 .. Cardinality(Nodes)] ==
        IF k = 0 THEN p[h]
        ELSE LET pos == at[k - 1] IN IF pos \in Entries THEN p[pos] ELSE pos
      ends == {k \in 0 .. Cardinality(Nodes) : at[k] = h}
  IN  IF p[h] = h THEN <<>>
      ELSE IF ends = {} THEN Lost
      ELSE [k \in 1 .. (CHOOSE n \in ends : \A j \in ends : n <= j) |-> at[k - 1]]

list_empty(h) == lnext[h] = h

Abstract == INSTANCE ListSpec WITH lists <- [h \in Heads |-> list_for_each_entry(lnext, h)]

\* A reader that walks a list forwards while __list_add, __list_del or
\* list_move is half done sees the list before or after, never a broken one:
\* every single store implements a step of ListSpec or none.
WalksAreAtomic == Abstract!ListsSpec

\* Between operations of list.h the prev pointers describe the same lists
\* backwards, and nothing in a list points to an entry that was taken out.
BackwardsAgrees ==
  stores = <<>> /\ moving = <<>> =>
    \A h \in Heads :
      /\ list_for_each_entry(lprev, h) = Reverse(list_for_each_entry(lnext, h))
      /\ list_empty(h) <=> lprev[h] = h

\* The lists of list.h are sequences to every reader: forwards at every
\* store, backwards between operations.
ListsAreSequences == WalksAreAtomic /\ []BackwardsAgrees
=============================================================================
