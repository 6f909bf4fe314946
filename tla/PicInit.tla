------------------------------ MODULE PicInit ------------------------------
(***************************************************************************)
(* kernel/i8259.c, with uptime and udelay of kernel/tsc.c: the two         *)
(* interrupt controllers are initialised, and each of their writes is      *)
(* given time.  The unit of time is a TSC cycle.                           *)
(***************************************************************************)
EXTENDS Integers, Sequences

CONSTANTS
  Kilo,          \* bound: microseconds per millisecond (1000)
  TscKhz,        \* bound: cycles per millisecond
  CounterWrap,   \* bound: 2^64
  StartTimes,    \* bound: TSC when i8259_init is called
  MaxCycles      \* bound: cycles i8259_init may take

ASSUME PicConstants == {Kilo, TscKhz, CounterWrap, MaxCycles} \subseteq Nat \ {0} /\ StartTimes \subseteq Nat

VARIABLES
  tscNow,     \* the TSC
  picStep,    \* next write of i8259_init
  waitFrom,   \* t0 of udelay, -1 if no delay is going on
  wrote,      \* when the last write with a delay was made; 0 if none
  chips       \* master and slave: the word expected, mask, vector base, cascade

picVars == <<tscNow, picStep, waitFrom, wrote, chips>>

ISA_IRQ_VECTOR(irq) == 48 + irq

\* The writes: chip, register, value, microseconds waited for after it; the
\* udelay(100) of i8259_init writes nothing.
Writes == <<
  <<"master", "IMR", 255, 0>>, <<"master", "CMD", 17, 2>>, <<"master", "IMR", ISA_IRQ_VECTOR(0), 2>>,
  <<"master", "IMR", 4, 2>>, <<"master", "IMR", 1, 2>>, <<"slave", "CMD", 17, 2>>,
  <<"slave", "IMR", ISA_IRQ_VECTOR(8), 2>>, <<"slave", "IMR", 2, 2>>, <<"slave", "IMR", 1, 2>>,
  <<"slave", "none", 0, 100>>, <<"master", "IMR", 255, 0>>, <<"slave", "IMR", 255, 0>>>>

\* What a chip does with a write: an ICW1 opens the mask and expects three more words.
Chip(c, reg, value) ==
  CASE reg = "CMD" -> [c EXCEPT !.expect = 2, !.mask = 0]
    [] reg = "IMR" /\ c.expect = 2 -> [c EXCEPT !.expect = 3, !.base = value]
    [] reg = "IMR" /\ c.expect = 3 -> [c EXCEPT !.expect = 4, !.cascade = value]
    [] reg = "IMR" /\ c.expect = 4 -> [c EXCEPT !.expect = 1]
    [] reg = "IMR" /\ c.expect = 1 -> [c EXCEPT !.mask = value]
    [] reg = "none" -> c

PicStart ==
  /\ tscNow \in StartTimes
  /\ picStep = 1 /\ waitFrom = -1 /\ wrote = 0
  /\ chips = [c \in {"master", "slave"} |-> [expect |-> 1, mask |-> 0, base |-> 8, cascade |-> 0]]

\* Cycles to microseconds; the product is taken modulo 2^64.
uptime == ((tscNow * Kilo) % CounterWrap) \div TscKhz

Elapsed == (uptime - waitFrom) % CounterWrap
Usecs == Writes[picStep - 1][4]

\* outb, then udelay reads the time it starts from; time 0 means no clock.
outb_pic ==
  /\ picStep <= Len(Writes) /\ waitFrom = -1
  /\ LET w == Writes[picStep]
     IN  /\ chips' = [chips EXCEPT ![w[1]] = Chip(@, w[2], w[3])]
         /\ waitFrom' = IF w[4] = 0 \/ uptime = 0 THEN -1 ELSE uptime
         /\ wrote' = IF w[4] = 0 THEN 0 ELSE tscNow
  /\ picStep' = picStep + 1
  /\ tscNow' = tscNow + 1

\* Mutant of DelayOver: a delay ends with the first microsecond that begins.
DelayOver_Any == Elapsed > 0

DelayOver == Elapsed >= Usecs

\* The loop of udelay; a cycle passes in every turn.
udelay ==
  /\ waitFrom # -1 /\ tscNow < MaxCycles
  /\ waitFrom' = IF DelayOver THEN -1 ELSE waitFrom
  /\ tscNow' = tscNow + 1
  /\ UNCHANGED <<picStep, wrote, chips>>

i8259_init == outb_pic \/ udelay

PicDone == picStep > Len(Writes) /\ waitFrom = -1

-----------------------------------------------------------------------------
\* The controllers are given at least one whole microsecond after every word
\* of their initialisation (i8259.c:9-12), although uptime rounds down, and
\* unless the product in uptime wraps meanwhile or reads 0.
AtLeastOneMicrosecond ==
  (wrote # 0 /\ waitFrom = -1 /\ (wrote * Kilo) % CounterWrap >= TscKhz
    /\ (wrote * Kilo) \div CounterWrap = (tscNow * Kilo) \div CounterWrap) =>
       (tscNow - wrote) * Kilo >= TscKhz

\* When i8259_init returns, both controllers have taken all their words, are
\* masked, and point at vectors that no exception has (i8259.c:16-48).
PicIsQuiet ==
  PicDone => \A c \in DOMAIN chips :
    /\ chips[c].expect = 1 /\ chips[c].mask = 255
    /\ chips[c].base >= 32 /\ chips[c].base % 8 = 0
    /\ chips["master"].cascade = 2^(chips["slave"].cascade)

\* i8259_init gives the controllers their words, and time to take each.
PicsAreSetUp == AtLeastOneMicrosecond /\ PicIsQuiet
=============================================================================
