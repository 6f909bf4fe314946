------------------------------- MODULE PutDec -------------------------------
(***************************************************************************)
(* Decimal conversion of lib/vsprintf.c: two digits at a time, and a       *)
(* multiplication by a fixed-point reciprocal in place of each division by *)
(* 100.  Digits come least significant first, as in the tmp[] of number(). *)
(***************************************************************************)
EXTENDS Integers, Sequences

\* 0x28f5c29, the 26-bit approximation of 2^32 / 100, in two halves.
ReciprocalHigh == 655
ReciprocalLow == 23593

\* (x * UINT64_C(0x28f5c29)) >> 32.  The product has up to 56 bits: it is
\* formed from 14-bit parts of x, so that no partial product passes 2^31.
Div100(x) ==
  LET high == x \div 16384
      low == x % 16384
      carry == high * ReciprocalLow + (low * ReciprocalLow) \div 16384
  IN  (high * ReciprocalHigh + (low * ReciprocalHigh * 4 + carry) \div 65536) \div 4

\* (x * 0x147b) >> 19
Div100Short(x) == (x * 5243) \div 524288

\* The table entry: the units are the byte at the lower address.
decpair(x) == <<x % 10, x \div 10>>

\* out_r: both digits are stored, but only the significant ones are counted.
LastPair(r) == IF r < 10 THEN <<r>> ELSE decpair(r)

put_dec_trunc8(r) ==
  LET q1 == Div100(r)
      q2 == Div100(q1)
      q3 == Div100Short(q2)
  IN  CASE r < 100  -> LastPair(r)
        [] r >= 100 /\ q1 < 100 -> decpair(r - 100 * q1) \o LastPair(q1)
        [] q1 >= 100 /\ q2 < 100 ->
             decpair(r - 100 * q1) \o decpair(q1 - 100 * q2) \o LastPair(q2)
        [] OTHER ->
             decpair(r - 100 * q1) \o decpair(q1 - 100 * q2)
               \o decpair(q2 - 100 * q3) \o LastPair(q3)

put_dec_full8(r) ==
  LET q1 == Div100(r)
      q2 == Div100(q1)
      q3 == Div100Short(q2)
  IN  decpair(r - 100 * q1) \o decpair(q1 - 100 * q2)
        \o decpair(q2 - 100 * q3) \o decpair(q3)

\* A 64-bit number is given by its limbs to the base 10^8, lowest first:
\* what do_div(n, 100*1000*1000) returns and leaves, twice.
TenToEight == 10000 * 10000

put_dec(n) ==
  IF n[2] = 0 /\ n[3] = 0 THEN put_dec_trunc8(n[1])
  ELSE put_dec_full8(n[1]) \o
       (IF n[3] = 0 THEN put_dec_trunc8(n[2])
        ELSE put_dec_full8(n[2]) \o put_dec_trunc8(n[3]))
=============================================================================
