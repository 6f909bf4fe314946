------------------------------ MODULE LibBits ------------------------------
(***************************************************************************)
(* lib/find_bit.c and the bit loops of sys/bitops.h.  A bitmap is the set  *)
(* of its bit numbers that are set, whatever the size the caller passes:   *)
(* the last word may have bits behind it.                                  *)
(***************************************************************************)
EXTENDS Integers, FiniteSets, FiniteSetsExt

CONSTANT BITS_PER_LONG   \* bound: width of a word

ASSUME LibBitsConstants == BITS_PER_LONG \in Nat \ {0}

AllOnes == 0 .. (BITS_PER_LONG - 1)

\* addr[idx], as the set of its bits.
Word(addr, idx) == {k \in AllOnes : idx * BITS_PER_LONG + k \in addr}

__ffs(word) == Min(word)
__fls(word) == Max(word)
ffz(word) == Min(AllOnes \ word)

set_bit(nr, addr) == addr \cup {nr}

BITMAP_FIRST_WORD_MASK(start) == {k \in AllOnes : k >= start % BITS_PER_LONG}
BITMAP_LAST_WORD_MASK(nbits) == {k \in AllOnes : k < BITS_PER_LONG - ((-nbits) % BITS_PER_LONG)}

\* Mutant of Limited: a bit behind the bitmap, in its last word, is returned.
Limited_NoMin(found, nbits) == found

\* min(..., nbits)
Limited(found, nbits) == IF found < nbits THEN found ELSE nbits

\* Xor with ~0UL if the clear bits are looked for.
Fetched(addr, idx, invert) == IF invert THEN AllOnes \ Word(addr, idx) ELSE Word(addr, idx)

_find_next_bit(addr, nbits, start, invert) ==
  LET first == start \div BITS_PER_LONG
      tmp(idx) == IF idx = first
                  THEN Fetched(addr, idx, invert) \cap BITMAP_FIRST_WORD_MASK(start)
                  ELSE Fetched(addr, idx, invert)
      hits == {idx \in first .. (nbits \div BITS_PER_LONG) :
                 idx * BITS_PER_LONG < nbits /\ tmp(idx) # {}}
  IN  IF start >= nbits \/ hits = {} THEN nbits
      ELSE Limited(Min(hits) * BITS_PER_LONG + __ffs(tmp(Min(hits))), nbits)

find_next_bit(addr, size, offset) == _find_next_bit(addr, size, offset, FALSE)
find_next_zero_bit(addr, size, offset) == _find_next_bit(addr, size, offset, TRUE)

WordsOf(size) == {idx \in 0 .. (size \div BITS_PER_LONG) : idx * BITS_PER_LONG < size}

find_first_bit(addr, size) ==
  LET hits == {idx \in WordsOf(size) : Word(addr, idx) # {}}
  IN  IF hits = {} THEN size
      ELSE Limited(Min(hits) * BITS_PER_LONG + __ffs(Word(addr, Min(hits))), size)

find_first_zero_bit(addr, size) ==
  LET hits == {idx \in WordsOf(size) : Word(addr, idx) # AllOnes}
  IN  IF hits = {} THEN size
      ELSE Limited(Min(hits) * BITS_PER_LONG + ffz(Word(addr, Min(hits))), size)

find_last_bit(addr, size) ==
  LET last == (size - 1) \div BITS_PER_LONG
      val(idx) == IF idx = last THEN Word(addr, idx) \cap BITMAP_LAST_WORD_MASK(size)
                  ELSE Word(addr, idx)
      hits == {idx \in 0 .. last : val(idx) # {}}
  IN  IF size = 0 \/ hits = {} THEN size
      ELSE Max(hits) * BITS_PER_LONG + __fls(val(Max(hits)))
=============================================================================
