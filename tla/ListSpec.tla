------------------------------ MODULE ListSpec ------------------------------
(***************************************************************************)
(* What the lists of sys/list.h promise to whoever follows the next        *)
(* pointers: each head has a sequence of entries, an entry is in one list  *)
(* at most, and a step puts one entry at an end of a list or takes one     *)
(* out, at once.                                                           *)
(***************************************************************************)
EXTENDS Sequences, SequencesExt

CONSTANTS Heads, Entries

VARIABLE lists   \* the entries of each head, in order

Listed == UNION {Range(lists[h]) : h \in Heads}

ListsInit == lists = [h \in Heads |-> <<>>]

Insert(e, h) ==
  /\ e \notin Listed
  /\ lists' \in {[lists EXCEPT ![h] = <<e>> \o @], [lists EXCEPT ![h] = @ \o <<e>>]}

Take(e) ==
  \E h \in Heads : \E k \in DOMAIN lists[h] :
    lists[h][k] = e /\ lists' = [lists EXCEPT ![h] = RemoveAt(@, k)]

ListsNext == \E e \in Entries : Take(e) \/ \E h \in Heads : Insert(e, h)

ListsSpec == ListsInit /\ [][ListsNext]_lists
=============================================================================
