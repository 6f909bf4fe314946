----------------------------- MODULE LibString -----------------------------
(***************************************************************************)
(* lib/string.c and lib/hexdump.c.  Memory is a function from addresses to *)
(* bytes; a pointer is an address, NULL is -1.                             *)
(*                                                                         *)
(* strscpy() is a machine of its own, one step per word or byte it copies: *)
(* its comment promises that it is robust against a source that changes    *)
(* under it, so the source may change between any two steps.  Its words    *)
(* are the real ones of eight bytes, and the bit tricks of                 *)
(* asm/word-at-a-time.h are computed byte by byte with their borrows and   *)
(* carries.                                                                *)
(***************************************************************************)
EXTENDS Integers, SequencesExt

NULL == -1
Upto(n) == [k \in 1 .. n |-> k - 1]

Move(m, to, from) == [m EXCEPT ![to] = m[from]]

memcpy(m, dest, src, count) ==
  FoldLeft(LAMBDA x, k : Move(x, dest + k, src + k), m, Upto(count))

\* Downwards if the destination is above the source.
memmove(m, dest, src, count) ==
  IF dest <= src THEN memcpy(m, dest, src, count)
  ELSE FoldLeft(LAMBDA x, k : Move(x, dest + k, src + k), m, Reverse(Upto(count)))

memset(m, s, c, count) == [k \in DOMAIN m |-> IF k >= s /\ k < s + count THEN c ELSE m[k]]
memset64(m, s, v, n) == memset(m, s, v, n)
memzero_explicit(m, s, count) == memset(m, s, 0, count)

\* The first k < limit for which P(k), or limit.
FirstBelow(limit, P(_)) ==
  IF \E k \in 0 .. (limit - 1) : P(k)
  THEN CHOOSE k \in 0 .. (limit - 1) : P(k) /\ \A j \in 0 .. (k - 1) : ~P(j)
  ELSE limit

\* From s to the end of memory.
Room(m, s) == Cardinality(DOMAIN m) - s

memcmp(m, cs, ct, count) ==
  LET k == FirstBelow(count, LAMBDA j : m[cs + j] # m[ct + j])
  IN  IF k = count THEN 0 ELSE m[cs + k] - m[ct + k]

memfind64(m, s, v, n) == FirstBelow(n, LAMBDA k : m[s + k] = v)
strlen(m, s) == FirstBelow(Room(m, s), LAMBDA k : m[s + k] = 0)
strnlen(m, s, count) == FirstBelow(count, LAMBDA k : m[s + k] = 0)

\* The loop tests for c before it tests for the end: strchr(s, 0) finds it.
strchr(m, s, c) ==
  LET k == FirstBelow(Room(m, s), LAMBDA j : m[s + j] \in {c, 0})
  IN  IF m[s + k] = c THEN s + k ELSE NULL

strrchr(m, s, c) ==
  LET hits == {k \in 0 .. strlen(m, s) : m[s + k] = c}
  IN  IF hits = {} THEN NULL ELSE s + Max(hits)

strncmp(m, cs, ct, count) ==
  LET k == FirstBelow(count, LAMBDA j : m[cs + j] # m[ct + j] \/ m[cs + j] = 0)
  IN  IF k = count \/ m[cs + k] = m[ct + k] THEN 0
      ELSE IF m[cs + k] < m[ct + k] THEN -1 ELSE 1

strcmp(m, cs, ct) == strncmp(m, cs, ct, Min({Room(m, cs), Room(m, ct)}))

strstr(m, s1, s2) ==
  LET l1 == strlen(m, s1)
      l2 == strlen(m, s2)
      k == FirstBelow(l1 - l2 + 1, LAMBDA j : memcmp(m, s1 + j, s2, l2) = 0)
  IN  IF l2 = 0 THEN s1 ELSE IF k < l1 - l2 + 1 THEN s1 + k ELSE NULL

\* Characters of hexdump.c are their codes.
tolower(ch) == IF ch >= 65 /\ ch <= 90 THEN ch + 32 ELSE ch

hex_to_bin(ch) ==
  CASE ch >= 48 /\ ch <= 57 -> ch - 48
    [] tolower(ch) >= 97 /\ tolower(ch) <= 102 -> tolower(ch) - 97 + 10
    [] OTHER -> -1

\* Stops at the first bad pair: what was stored before it stays.
hex2bin(src, count) ==
  LET pair(k) == <<hex_to_bin(src[2 * k + 1]), hex_to_bin(src[2 * k + 2])>>
      good == FirstBelow(count, LAMBDA k : pair(k)[1] < 0 \/ pair(k)[2] < 0)
  IN  [ok |-> good = count, dst |-> [k \in 1 .. good |-> 16 * pair(k - 1)[1] + pair(k - 1)[2]]]

HexCode(d) == IF d < 10 THEN 48 + d ELSE 97 + d - 10

bin2hex(src, count) ==
  [k \in 1 .. (2 * count) |->
     LET x == src[(k + 1) \div 2] IN HexCode(IF k % 2 = 1 THEN x \div 16 ELSE x % 16)]

-----------------------------------------------------------------------------
(***************************************************************************)
(* Words: functions from 0 .. 7 to bytes, the lowest byte first.           *)
(***************************************************************************)
ByteIndex == 0 .. 7

\* (a - one_bits) & ~a & high_bits.  A byte borrows from the next one if it is
\* smaller than what is subtracted.
has_zero(a) ==
  LET borrow[i \in ByteIndex] ==
        IF i = 0 THEN 0 ELSE IF a[i - 1] - 1 - borrow[i - 1] < 0 THEN 1 ELSE 0
  IN  [i \in ByteIndex |->
         IF (a[i] - 1 - borrow[i]) % 256 >= 128 /\ a[i] < 128 THEN 128 ELSE 0]

\* Mutant of create_zero_mask: the bits are not shifted down.
create_zero_mask_NoShift(bits) ==
  [i \in ByteIndex |->
     LET lower == \A k \in 0 .. (i - 1) : bits[k] = 0
         less == IF lower THEN (bits[i] - 1) % 256 ELSE bits[i]
     IN  IF bits[i] = 128 THEN less % 128 ELSE less]

\* ((bits - 1) & ~bits) >> 7, where every byte of bits is 0 or 128.
create_zero_mask(bits) ==
  LET less == [i \in 0 .. 8 |->
                 IF i = 8 THEN 0
                 ELSE LET lower == \A k \in 0 .. (i - 1) : bits[k] = 0
                          b == IF lower THEN (bits[i] - 1) % 256 ELSE bits[i]
                      IN  IF bits[i] = 128 THEN b % 128 ELSE b]
  IN  [i \in ByteIndex |-> (less[i] \div 128) + 2 * (less[i + 1] % 128)]

\* 0x0001020304050608, lowest byte first.
Weight(k) == IF k < 0 THEN 0 ELSE <<8, 6, 5, 4, 3, 2, 1, 0>>[k + 1]

\* mask * 0x0001020304050608 >> 56: byte 7 of the product.
count_masked_bytes(mask) ==
  LET column(n) == mask[0] * Weight(n) + mask[1] * Weight(n - 1) + mask[2] * Weight(n - 2)
                 + mask[3] * Weight(n - 3) + mask[4] * Weight(n - 4) + mask[5] * Weight(n - 5)
                 + mask[6] * Weight(n - 6) + mask[7] * Weight(n - 7)
      sum[n \in ByteIndex] ==
        IF n = 0 THEN column(0) ELSE column(n) + (sum[n - 1] \div 256)
  IN  sum[7] % 256

\* c & zero_bytemask(data), where the bytes of data are 0 or 255.
Masked(c, data) == [i \in ByteIndex |-> IF data[i] = 255 THEN c[i] ELSE 0]

-----------------------------------------------------------------------------
(***************************************************************************)
(* strscpy().                                                              *)
(***************************************************************************)
CONSTANTS
  Sources,      \* bound: contents of the source, functions from 0 .. SourceSize-1
  SourceSize,   \* bound
  Counts,       \* bound: values of count
  ChangedAt,    \* bound: bytes of the source that somebody changes during the copy,
  ChangedTo,    \*   what they are changed to
  MaxChanges    \*   and how often

Byte == 0 .. 255

ASSUME StringConstants ==
  /\ SourceSize \in Nat
  /\ Sources \subseteq [0 .. (SourceSize - 1) -> Byte]
  /\ Counts \subseteq 0 .. SourceSize
  /\ ChangedAt \subseteq 0 .. (SourceSize - 1)
  /\ ChangedTo \subseteq Byte
  /\ MaxChanges \in Nat

VARIABLES
  source,   \* the source string; need not have a NUL
  dest,     \* the destination, count bytes of it and the ones behind it
  total,    \* the count of the call
  count, max, res,
  word, data, \* c and data of the loop over words
  cpc,      \* "words", "fetched", "word", "mask": the loop over words; "bytes";
            \* "returned"
  value,    \* what strscpy returns
  reads,    \* history: the source offsets that were read
  changed   \* history: how often the source was changed

copyVars == <<source, dest, total, count, max, res, word, data, cpc, value, reads, changed>>

E2BIG == 7
Untouched == 999

Zero8 == [i \in ByteIndex |-> 0]

CopyStart(text, n, aligned) ==
  /\ source = text
  /\ dest = [k \in 0 .. (SourceSize - 1) |-> Untouched]
  /\ total = n
  /\ count = n
  /\ max = IF aligned THEN n ELSE 0
  /\ res = 0
  /\ word = Zero8
  /\ data = Zero8
  /\ cpc = IF n = 0 THEN "returned" ELSE "words"
  /\ value = IF n = 0 THEN -E2BIG ELSE 0
  /\ reads = {}
  /\ changed = 0

StringInit == \E text \in Sources, n \in Counts, aligned \in BOOLEAN : CopyStart(text, n, aligned)

Store8(w) == [k \in DOMAIN dest |-> IF k >= res /\ k < res + 8 THEN w[k - res] ELSE dest[k]]

\* c = *(unsigned long *)(src+res), the only time the word is read.
FetchWord ==
  /\ cpc = "words"
  /\ max >= 8
  /\ word' = [i \in ByteIndex |-> source[res + i]]
  /\ cpc' = "fetched"
  /\ reads' = reads \cup (res .. (res + 7))
  /\ UNCHANGED <<source, dest, total, count, max, res, data, value, changed>>

TestWord ==
  /\ cpc = "fetched"
  /\ data' = has_zero(word)
  /\ cpc' = "word"
  /\ UNCHANGED <<source, dest, total, count, max, res, word, value, reads, changed>>

CopyWord ==
  /\ cpc = "word"
  /\ data = Zero8
  /\ dest' = Store8(word)
  /\ res' = res + 8
  /\ count' = count - 8
  /\ max' = max - 8
  /\ cpc' = "words"
  /\ UNCHANGED <<source, total, word, data, value, reads, changed>>

MaskWord ==
  /\ cpc = "word"
  /\ data # Zero8
  /\ data' = create_zero_mask(data)
  /\ cpc' = "mask"
  /\ UNCHANGED <<source, dest, total, count, max, res, word, value, reads, changed>>

\* The word with the NUL: what follows the NUL in it is cleared.
CopyLastWord ==
  /\ cpc = "mask"
  /\ dest' = Store8(Masked(word, data))
  /\ value' = res + count_masked_bytes(data)
  /\ cpc' = "returned"
  /\ UNCHANGED <<source, total, count, max, res, word, data, reads, changed>>

WordsDone ==
  /\ cpc = "words"
  /\ max < 8
  /\ cpc' = "bytes"
  /\ UNCHANGED <<source, dest, total, count, max, res, word, data, value, reads, changed>>

CopyByte ==
  /\ cpc = "bytes"
  /\ count > 0
  /\ dest' = [dest EXCEPT ![res] = source[res]]
  /\ reads' = reads \cup {res}
  /\ IF source[res] = 0
     THEN cpc' = "returned" /\ value' = res /\ UNCHANGED <<res, count>>
     ELSE res' = res + 1 /\ count' = count - 1 /\ UNCHANGED <<cpc, value>>
  /\ UNCHANGED <<source, total, max, word, data, changed>>

CopyTruncated ==
  /\ cpc = "bytes"
  /\ count = 0
  /\ dest' = IF res > 0 THEN [dest EXCEPT ![res - 1] = 0] ELSE dest
  /\ value' = -E2BIG
  /\ cpc' = "returned"
  /\ UNCHANGED <<source, total, count, max, res, word, data, reads, changed>>

\* Somebody else changes a byte of the source under the copy.
SourceChanges ==
  /\ cpc # "returned"
  /\ changed < MaxChanges
  /\ changed' = changed + 1
  /\ \E k \in ChangedAt, b \in ChangedTo : source' = [source EXCEPT ![k] = b]
  /\ UNCHANGED <<dest, total, count, max, res, word, data, cpc, value, reads>>

StringNext ==
  \/ FetchWord \/ TestWord \/ CopyWord \/ MaskWord \/ CopyLastWord \/ WordsDone
  \/ CopyByte \/ CopyTruncated \/ SourceChanges

-----------------------------------------------------------------------------
\* What the comment of strscpy promises, also of a source that changes during
\* the copy: the destination is a string within its size, the result is the
\* length of that string or says that it was cut to the size, and neither the
\* source nor the destination is accessed behind count.
CopyIsBoundedString ==
  /\ reads \subseteq 0 .. (total - 1)
  /\ \A k \in DOMAIN dest : k >= total => dest[k] = Untouched
  /\ cpc = "returned" /\ total > 0 =>
       LET len == IF value = -E2BIG THEN total - 1 ELSE value
       IN  /\ len \in 0 .. (total - 1)
           /\ dest[len] = 0
           /\ \A k \in 0 .. (len - 1) : dest[k] \notin {0, Untouched}

\* If the source does not change, the destination is its beginning.
CopyIsFaithful ==
  cpc = "returned" /\ total > 0 /\ changed = 0 =>
    LET len == IF value = -E2BIG THEN total - 1 ELSE value
    IN  /\ \A k \in 0 .. (len - 1) : dest[k] = source[k]
        /\ value = -E2BIG => \A k \in 0 .. (total - 1) : source[k] # 0
        /\ value # -E2BIG => source[value] = 0

\* The promise of strscpy as a whole: always a bounded string, and the
\* source's beginning if the source kept still.
CopyIsString == CopyIsBoundedString /\ CopyIsFaithful
=============================================================================
