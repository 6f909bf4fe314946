----------------------------- MODULE BootProofs -----------------------------
(***************************************************************************)
(* Proofs about Boot: what quick_pit_calibrate accepts is accurate and the *)
(* interrupt controllers are set up, for every length of a PIT period,     *)
(* every I/O time and every pattern of absences; the first VM entry is     *)
(* accepted and the first exit restores the host, on every processor that  *)
(* passes the monitor's checks; and the guest's kernel is loaded whole and *)
(* told the truth, for every well-formed kernel.                           *)
(***************************************************************************)
EXTENDS Boot, TLAPS, WellFoundedInduction

-----------------------------------------------------------------------------
(* Arithmetic with a divisor that is not a number. *)

\* Quotient and remainder.
LEMMA Division ==
  ASSUME NEW x \in Int, NEW d \in Nat \ {0}
  PROVE  /\ x \div d \in Int /\ x % d \in 0 .. d - 1
         /\ x = d * (x \div d) + (x % d)
  OBVIOUS

\* A product with a larger factor is larger.
LEMMA ProductMonotone ==
  ASSUME NEW m \in Nat, NEW n \in Nat, m <= n, NEW d \in Nat
  PROVE  m * d <= n * d
  <1>1. PICK k \in Nat : n = m + k
    BY n - m \in Nat
  <1>2. n * d = m * d + k * d
    BY <1>1
  <1>3. k * d \in Nat /\ m * d \in Nat
    BY <1>1
  <1> QED BY <1>2, <1>3

\* Only multiples of d below d: 0.
LEMMA SmallMultiple ==
  ASSUME NEW q \in Int, NEW d \in Nat \ {0}, d * q >= 0, d * q < d
  PROVE  q = 0
  <1>1. CASE q >= 1
    <2>1. PICK k \in Nat : q = k + 1
      BY <1>1, q - 1 \in Nat
    <2>2. d * q = d * k + d /\ d * k \in Nat
      BY <2>1
    <2> QED BY <2>2
  <1>2. CASE q <= -1
    <2>1. PICK k \in Nat : q = -k - 1
      BY <1>2, -q - 1 \in Nat
    <2>2. d * q = -(d * k) - d /\ d * k \in Nat
      BY <2>1
    <2> QED BY <2>2
  <1> QED BY <1>1, <1>2

\* Numbers less than d apart with the same remainder are equal.
LEMMA SameRemainder ==
  ASSUME NEW x \in Int, NEW y \in Int, NEW d \in Nat \ {0},
         x % d = y % d, x - y >= 0, x - y < d
  PROVE  x = y
  <1> DEFINE p == x \div d
             q == y \div d
  <1>1. /\ p \in Int /\ q \in Int
        /\ x - y = d * p - d * q
    <2>1. x = d * p + (x % d) /\ p \in Int /\ x % d \in Int
      BY Division
    <2>2. y = d * q + (y % d) /\ q \in Int
      BY Division
    <2> HIDE DEF p, q
    <2> QED BY <2>1, <2>2
  <1> HIDE DEF p, q
  <1>2. d * p - d * q = d * (p - q)
    BY <1>1
  <1>3. p - q = 0
    BY <1>1, <1>2, SmallMultiple
  <1> QED BY <1>1, <1>3

\* t is in the period of length d with number t \div d.
LEMMA Period ==
  ASSUME NEW t \in Int, NEW d \in Nat \ {0}
  PROVE  d * (t \div d) <= t /\ t < d * (t \div d) + d
  BY Division

\* Periods follow one another: if t is not before period k, its number is at least k.
LEMMA PeriodNumber ==
  ASSUME NEW t \in Int, NEW d \in Nat \ {0}, NEW k \in Int
  PROVE  /\ t >= d * k => t \div d >= k
         /\ t < d * k => t \div d < k
  <1> DEFINE q == t \div d
  <1>1. q \in Int /\ d * q <= t /\ t < d * q + d
    BY Period, Division
  <1> HIDE DEF q
  <1>2. ASSUME t >= d * k, q < k PROVE FALSE
    <2>1. PICK j \in Nat : k = q + 1 + j
      BY <1>1, <1>2, k - q - 1 \in Nat
    <2>2. d * k = d * q + d + d * j /\ d * j \in Nat
      BY <1>1, <2>1
    <2> QED BY <1>1, <1>2, <2>2
  <1>3. ASSUME t < d * k, q >= k PROVE FALSE
    <2>1. PICK j \in Nat : q = k + j
      BY <1>1, <1>3, q - k \in Nat
    <2>2. d * q = d * k + d * j /\ d * j \in Nat
      BY <1>1, <2>1
    <2> QED BY <1>1, <1>3, <2>2
  <1>4. q \in Int
    BY <1>1
  <1>5. (t >= d * k => q >= k) /\ (t < d * k => q < k)
    BY <1>2, <1>3, <1>4
  <1> QED BY <1>5 DEF q

-----------------------------------------------------------------------------
(* Absences. *)

\* No absence is longer.
LongestAbsence == ((MsbValues - 1) * MsbCycles - 1 - 4 * IoCycles) \div MaxAbsences

\* The constants as numbers.
LEMMA TscNumbers ==
  /\ MsbCycles \in Nat \ {0} /\ MsbValues \in Nat \ {0} /\ IoCycles \in Nat \ {0}
  /\ MaxAbsences \in Nat \ {0} /\ MaxReads \in Nat \ {0} /\ MaxIterations \in Nat \ {0}
  /\ ErrorScale \in Nat \ {0} /\ MaxTime \in Nat \ {0}
  /\ Away \subseteq Nat
  /\ MaxReads * IoCycles >= MsbCycles
  /\ 4 * IoCycles < (MsbValues - 1) * MsbCycles
  /\ MsbValues >= 2
  <1>1. /\ MsbCycles \in Nat \ {0} /\ MsbValues \in Nat \ {0} /\ IoCycles \in Nat \ {0}
        /\ MaxAbsences \in Nat \ {0} /\ MaxReads \in Nat \ {0} /\ MaxIterations \in Nat \ {0}
        /\ ErrorScale \in Nat \ {0} /\ MaxTime \in Nat \ {0}
        /\ Away \subseteq Nat
        /\ MaxReads * IoCycles >= MsbCycles
    BY TscConstants DEF Away
  <1>2. MaxAbsences * 0 + 4 * IoCycles < (MsbValues - 1) * MsbCycles
    BY TscConstants
  <1>3. 4 * IoCycles < (MsbValues - 1) * MsbCycles
    BY <1>1, <1>2
  <1>4. MsbValues # 1
    <2> SUFFICES ASSUME MsbValues = 1 PROVE FALSE
      OBVIOUS
    <2>1. (MsbValues - 1) * MsbCycles = 0
      BY <1>1
    <2> QED BY <1>1, <1>3, <2>1
  <1> QED BY <1>1, <1>3, <1>4

\* Every absence is bounded, and all of them are shorter than one round of the counter.
LEMMA AbsenceBounds ==
  /\ LongestAbsence \in Nat
  /\ \A a \in Away : a <= LongestAbsence
  /\ MaxAbsences * LongestAbsence + 4 * IoCycles < (MsbValues - 1) * MsbCycles
  <1> DEFINE h == (MsbValues - 1) * MsbCycles - 1 - 4 * IoCycles
  <1>1. h \in Nat /\ MaxAbsences \in Nat \ {0} /\ IoCycles \in Nat
    BY TscNumbers
  <1>2. \A a \in Away : a \in Nat /\ MaxAbsences * a <= h
    <2> TAKE a \in Away
    <2>1. MaxAbsences * a + 4 * IoCycles < (MsbValues - 1) * MsbCycles
      BY TscConstants DEF Away
    <2>2. a \in Nat
      BY TscNumbers
    <2>3. MaxAbsences * a \in Nat /\ (MsbValues - 1) * MsbCycles \in Int
      BY <2>2, TscNumbers
    <2> QED BY <2>1, <2>2, <2>3, TscNumbers
  <1>3. (MsbValues - 1) * MsbCycles = h + 1 + 4 * IoCycles
    <2>1. (MsbValues - 1) * MsbCycles \in Int
      BY TscNumbers
    <2> QED BY <2>1, <1>1
  <1>4. LongestAbsence = h \div MaxAbsences
    BY DEF LongestAbsence
  <1> HIDE DEF h
  <1>5. \A a \in Away : a <= LongestAbsence
    BY <1>1, <1>2, <1>4, PeriodNumber
  <1>6. LongestAbsence \in Int /\ MaxAbsences * LongestAbsence <= h
    BY <1>1, <1>4, Period, Division
  <1>7. 0 \in Away
    BY DEF Away
  <1>8. LongestAbsence \in Nat
    BY <1>5, <1>6, <1>7
  <1>9. MaxAbsences * LongestAbsence + 4 * IoCycles < (MsbValues - 1) * MsbCycles
    <2>1. MaxAbsences * LongestAbsence \in Int
      BY <1>1, <1>6
    <2> QED BY <1>1, <1>3, <1>6, <2>1
  <1> QED BY <1>5, <1>8, <1>9

\* The most time the processor can have been away so far.
Lost == away * LongestAbsence

\* An absence d is paid for, and what has been lost stays below a round.
LEMMA AbsencePaid ==
  ASSUME away \in 0 .. MaxAbsences, NEW d \in Away, Absent(d)
  PROVE  /\ away' \in 0 .. MaxAbsences /\ away' * LongestAbsence \in Nat
         /\ Lost + d <= away' * LongestAbsence
         /\ away' * LongestAbsence + 4 * IoCycles < (MsbValues - 1) * MsbCycles
  <1>1. LongestAbsence \in Nat /\ d \in Nat /\ d <= LongestAbsence /\ MaxAbsences \in Nat
    BY AbsenceBounds, TscNumbers
  <1>2. away' \in 0 .. MaxAbsences
    BY <1>1 DEF Absent
  <1>3. Lost + d <= away' * LongestAbsence
    <2>1. CASE d = 0
      BY <1>1, <2>1 DEF Absent, Lost
    <2>2. CASE d # 0
      <3>1. (away + 1) * LongestAbsence = away * LongestAbsence + LongestAbsence
        BY <1>1
      <3>2. away' = away + 1
        BY <2>2 DEF Absent
      <3>3. away * LongestAbsence \in Nat
        BY <1>1
      <3> QED BY <1>1, <3>1, <3>2, <3>3 DEF Lost
    <2> QED BY <2>1, <2>2
  <1>4. PICK n \in Nat : n = away' /\ n <= MaxAbsences
    BY <1>1, <1>2
  <1>5. PICK l \in Nat : l = LongestAbsence
    BY <1>1
  <1>6. PICK k \in Nat : k = MaxAbsences /\ n <= k
    BY <1>1, <1>4
  <1>7. n * l <= k * l
    BY <1>6, ProductMonotone
  <1>8. n * l \in Nat /\ k * l \in Nat
    OBVIOUS
  <1>9. n * l <= MaxAbsences * l /\ n * l \in Nat /\ MaxAbsences * l \in Nat
    BY <1>6, <1>7, <1>8
  <1>10. away' * LongestAbsence <= MaxAbsences * LongestAbsence
    BY <1>4, <1>5, <1>9
  <1>11. away' * LongestAbsence \in Nat /\ MaxAbsences * LongestAbsence \in Nat
    BY <1>4, <1>5, <1>9
  <1>12. away' * LongestAbsence + 4 * IoCycles < (MsbValues - 1) * MsbCycles
    <2>1. (MsbValues - 1) * MsbCycles \in Int /\ IoCycles \in Nat
      BY TscNumbers
    <2> QED BY <1>10, <1>11, <2>1, AbsenceBounds
  <1> QED BY <1>2, <1>3, <1>11, <1>12

-----------------------------------------------------------------------------
(* TSC calibration. *)

\* When period k of the PIT's high byte begins: k = 0 with the start of the counter.
PeriodStart(k) == pit + MsbCycles * k

LoopRecords == [i : Nat, count : Nat, tsc : Nat, prev : Nat, tsc1 : Nat, d1 : Int]

TscTypeOK ==
  /\ calibrating \in {"native", "start", "expect", "seen", "assume", "done"}
  /\ now \in Nat /\ pit \in Nat /\ away \in 0 .. MaxAbsences
  /\ machine.stuck \in BOOLEAN
  /\ loop \in LoopRecords
  /\ verified \in [i : Nat, delta : Int]

\* A stuck counter is found out when its second value is expected.
StuckInv ==
  machine.stuck => /\ loop.i \in {0, 1}
                   /\ loop.i = 1 => loop.count = 0

\* Before period i has been read: it has begun, less than a round ago.
FreshInv ==
  calibrating = "expect" /\ loop.count = 0 =>
    /\ loop.tsc = 0
    /\ PeriodStart(loop.i) <= now
    /\ now <= PeriodStart(loop.i) + IoCycles + Lost

\* While period i is read: the last read was in it, and was not the count'th if the
\* period is too short for that; the one before it was earlier.
ReadingInv ==
  calibrating = "expect" /\ loop.count > 0 =>
    /\ loop.tsc = now
    /\ now < PeriodStart(loop.i + 1) + Lost
    /\ loop.prev < PeriodStart(loop.i + 1) /\ loop.prev <= loop.tsc
    /\ PeriodStart(loop.i) + loop.count * IoCycles <= now
    /\ loop.count * IoCycles < MsbCycles

\* When another value has been read after period i: i + 1 began after the last read
\* but one and before now.
SeenInv ==
  calibrating = "seen" /\ loop.count > 0 =>
    /\ PeriodStart(loop.i + 1) <= now
    /\ now <= PeriodStart(loop.i + 1) + IoCycles + Lost
    /\ loop.prev < PeriodStart(loop.i + 1) /\ loop.prev <= loop.tsc
    /\ loop.tsc <= now

\* The first transition is known to d1.
FirstInv ==
  calibrating \in {"expect", "seen"} /\ loop.i > 0 =>
    /\ loop.tsc1 - PeriodStart(1) <= loop.d1
    /\ PeriodStart(1) - loop.tsc1 <= loop.d1

TscInv ==
  /\ TscTypeOK
  /\ calibrating \in {"native", "start"} => loop.i = 0 /\ loop.count = 0 /\ loop.tsc = 0
  /\ calibrating # "done" => tsc_khz.by # "pit"
  /\ StuckInv
  /\ ~machine.stuck => FreshInv /\ ReadingInv /\ SeenInv /\ FirstInv
  /\ CalibrationIsAccurate

\* A read less than a round after the start of period i returns the value of period i
\* exactly if it is made before period i + 1 begins (pit_verify_msb).
LEMMA ReadPeriod ==
  ASSUME ~machine.stuck, pit \in Nat, loop.i \in Nat, NEW t \in Int,
         PeriodStart(loop.i) <= t, t < PeriodStart(loop.i) + MsbValues * MsbCycles
  PROVE  Msb(t) = Expected <=> t < PeriodStart(loop.i + 1)
  <1>0. PICK i \in Nat, V \in Nat \ {0}, M \in Nat \ {0}, u \in Int :
          i = loop.i /\ V = MsbValues /\ M = MsbCycles /\ u = t - pit
    BY TscNumbers
  <1>1. M * i <= u /\ u < M * i + V * M
    <2>1. M * i \in Nat /\ V * M \in Nat
      OBVIOUS
    <2> QED BY <1>0, <2>1 DEF PeriodStart
  <1>2. t < PeriodStart(loop.i + 1) <=> u < M * (i + 1)
    <2>1. M * (i + 1) \in Nat
      OBVIOUS
    <2> QED BY <1>0, <2>1 DEF PeriodStart
  <1> DEFINE k == u \div M
  <1>3. k \in Int /\ k >= i
    BY <1>1, PeriodNumber, Division, SMTT(40)
  <1>4. k < i + V
    <2>1. M * (i + V) = M * i + V * M
      OBVIOUS
    <2>2. u < M * (i + V)
      BY <1>1, <2>1
    <2> QED BY <2>2, PeriodNumber
  <1>5. u < M * (i + 1) <=> k = i
    <2>1. u < M * (i + 1) => k < i + 1
      BY PeriodNumber
    <2>2. u >= M * (i + 1) => k >= i + 1
      BY PeriodNumber
    <2>3. M * (i + 1) \in Nat
      OBVIOUS
    <2> HIDE DEF k
    <2> QED BY <1>3, <2>1, <2>2, <2>3
  <1>6. Msb(t) = (V - 1 - k) % V /\ Expected = (V - 1 - i) % V
    BY <1>0 DEF Msb, Expected
  <1> HIDE DEF k
  <1>7. (V - 1 - k) % V = (V - 1 - i) % V => k = i
    <2> SUFFICES ASSUME (V - 1 - k) % V = (V - 1 - i) % V PROVE V - 1 - i = V - 1 - k
      BY <1>3
    <2>1. V - 1 - i \in Int /\ V - 1 - k \in Int
      BY <1>3
    <2>2. (V - 1 - i) - (V - 1 - k) >= 0 /\ (V - 1 - i) - (V - 1 - k) < V
      BY <1>3, <1>4
    <2> HIDE DEF k
    <2> QED BY <2>1, <2>2, SameRemainder
  <1> QED BY <1>2, <1>5, <1>6, <1>7

\* The next period begins MsbCycles later.
LEMMA PeriodLength ==
  ASSUME pit \in Nat, NEW k \in Nat
  PROVE  PeriodStart(k) \in Nat /\ PeriodStart(k + 1) = PeriodStart(k) + MsbCycles
  <1>1. PICK M \in Nat, p \in Nat : M = MsbCycles /\ p = pit
    BY TscNumbers
  <1>2. p + M * k \in Nat /\ p + M * (k + 1) = p + M * k + M
    OBVIOUS
  <1> QED BY <1>1, <1>2 DEF PeriodStart

\* A number below d is its own remainder.
LEMMA SmallRemainder ==
  ASSUME NEW d \in Nat \ {0}, NEW x \in 0 .. d - 1
  PROVE  x % d = x
  <1> DEFINE q == x \div d
             r == x % d
  <1>1. q \in Int /\ r \in 0 .. d - 1 /\ x = d * q + r
    BY Division
  <1> HIDE DEF q, r
  <1>2. CASE x >= r
    <2>1. d * q >= 0 /\ d * q < d
      BY <1>1, <1>2
    <2> QED BY <1>1, <2>1, SmallMultiple DEF r
  <1>3. CASE x < r
    <2>1. d * (-q) >= 0 /\ d * (-q) < d
      BY <1>1, <1>3
    <2>2. -q = 0
      BY <1>1, <2>1, SmallMultiple
    <2> QED BY <1>1, <1>3, <2>2
  <1> QED BY <1>1, <1>2, <1>3

\* A stuck counter never has its second value.
LEMMA StuckNeverSecond ==
  ASSUME machine.stuck, loop.i = 1, NEW t
  PROVE  Msb(t) # Expected
  <1>1. MsbValues \in Nat \ {0} /\ MsbValues - 2 \in 0 .. MsbValues - 1
    BY TscNumbers
  <1>2. Expected = MsbValues - 2
    <2>1. MsbValues - 1 - 1 = MsbValues - 2
      BY <1>1
    <2> QED BY <1>1, <2>1, SmallRemainder DEF Expected
  <1> QED BY <1>1, <1>2 DEF Msb

\* A read, and the step to the next value, keep the fields' types.
LEMMA LoopUpdates ==
  ASSUME NEW x \in LoopRecords, NEW t \in Nat
  PROVE  /\ [x EXCEPT !.count = @ + 1, !.prev = x.tsc, !.tsc = t] \in LoopRecords
         /\ NextValue(x) \in LoopRecords
         /\ \A u \in Int : [NextValue(x) EXCEPT !.tsc1 = t, !.d1 = u] \in LoopRecords
  <1>1. x.count + 1 \in Nat /\ x.tsc \in Nat /\ x.i + 1 \in Nat
    BY DEF LoopRecords
  <1>2. [x EXCEPT !.count = @ + 1, !.prev = x.tsc, !.tsc = t] \in LoopRecords
    BY <1>1 DEF LoopRecords
  <1>3. NextValue(x) \in LoopRecords
    BY <1>1 DEF LoopRecords, NextValue
  <1>4. ASSUME NEW u \in Int PROVE [NextValue(x) EXCEPT !.tsc1 = t, !.d1 = u] \in LoopRecords
    BY <1>3 DEF LoopRecords
  <1> QED BY <1>2, <1>3, <1>4

\* One read of pit_expect_msb keeps the invariant.
LEMMA ReadKeepsInv ==
  ASSUME TscInv, pit_verify_msb
  PROVE  TscInv'
  <1> DEFINE i == loop.i
             c == loop.count
             l == away' * LongestAbsence
  <1>0. PICK before \in Away, after \in Away :
          /\ before = 0 \/ after = 0
          /\ Absent(before + after)
          /\ IF Msb(now + before + IoCycles) = Expected
             THEN /\ now' = now + before + IoCycles + after
                  /\ loop' = [loop EXCEPT !.count = @ + 1, !.prev = loop.tsc, !.tsc = now']
                  /\ UNCHANGED calibrating
             ELSE /\ now' = now + before + IoCycles
                  /\ calibrating' = "seen"
                  /\ UNCHANGED loop
    BY DEF pit_verify_msb
  <1> DEFINE r == now + before + IoCycles
             d == before + after
  <1>1. /\ calibrating = "expect" /\ c < MaxReads
        /\ UNCHANGED <<machine, pit, tsc_khz, verified>>
    BY DEF pit_verify_msb
  <1>2. /\ before \in Nat /\ after \in Nat /\ d \in Away /\ d = before + after
        /\ IoCycles \in Nat \ {0} /\ MsbCycles \in Nat \ {0} /\ MsbValues \in Nat \ {0}
    BY <1>0, TscNumbers
  <1>3. /\ now \in Nat /\ pit \in Nat /\ away \in 0 .. MaxAbsences /\ machine.stuck \in BOOLEAN
        /\ i \in Nat /\ c \in Nat /\ loop.tsc \in Nat /\ loop.prev \in Nat
        /\ loop \in LoopRecords
    BY DEF TscInv, TscTypeOK, LoopRecords
  <1>4. /\ away' \in 0 .. MaxAbsences /\ l \in Nat /\ Lost + d <= l
        /\ l + 4 * IoCycles < (MsbValues - 1) * MsbCycles
    BY <1>0, <1>2, <1>3, AbsencePaid
  <1>5. Lost \in Nat /\ Lost' = l
    BY <1>3, AbsenceBounds DEF Lost
  <1>6. r \in Nat /\ now' \in Nat /\ r <= now'
    BY <1>0, <1>2, <1>3
  <1>7. TscTypeOK'
    <2>1. loop' \in LoopRecords
      <3>1. CASE loop' = loop
        BY <1>3, <3>1
      <3>2. CASE loop' = [loop EXCEPT !.count = @ + 1, !.prev = loop.tsc, !.tsc = now']
        BY <1>3, <1>6, <3>2, LoopUpdates
      <3> QED BY <1>0, <3>1, <3>2
    <2>2. calibrating' \in {"expect", "seen"}
      BY <1>0, <1>1
    <2> QED BY <1>1, <1>4, <1>6, <2>1, <2>2 DEF TscInv, TscTypeOK
  <1>8. calibrating' \in {"expect", "seen"} /\ tsc_khz'.by # "pit" /\ CalibrationIsAccurate'
    BY <1>0, <1>1 DEF TscInv, CalibrationIsAccurate
  <1>9. CASE machine.stuck
    <2>1. i = 1 => Msb(r) # Expected
      BY <1>9, StuckNeverSecond
    <2>2. StuckInv'
      BY <1>0, <1>1, <1>3, <1>9, <2>1 DEF TscInv, StuckInv, LoopRecords
    <2> QED BY <1>1, <1>7, <1>8, <1>9, <2>2 DEF TscInv
  <1>10. CASE ~machine.stuck
    <2> DEFINE s == PeriodStart(i)
    <2>1. s \in Nat /\ PeriodStart(i + 1) = s + MsbCycles /\ PeriodStart(1) \in Nat
      <3>1. PeriodStart(0 + 1) = PeriodStart(0) + MsbCycles /\ PeriodStart(0) \in Nat
        BY <1>3, PeriodLength
      <3> QED BY <1>2, <1>3, <3>1, PeriodLength
    <2>2. \A k \in Nat : PeriodStart(k)' = PeriodStart(k)
      BY <1>1 DEF PeriodStart
    <2>3. MsbValues * MsbCycles = (MsbValues - 1) * MsbCycles + MsbCycles /\ (MsbValues - 1) * MsbCycles \in Int
      <3>1. PICK v \in Int, m \in Int : v = MsbValues /\ m = MsbCycles
        BY <1>2
      <3>2. v * m = (v - 1) * m + m /\ (v - 1) * m \in Int
        OBVIOUS
      <3> QED BY <3>1, <3>2
    <2>4. c = 0 => loop.tsc = 0 /\ s <= now /\ now <= s + IoCycles + Lost
      BY <1>1, <1>10 DEF TscInv, FreshInv
    <2>5. c > 0 => /\ loop.tsc = now /\ now < s + MsbCycles + Lost
                   /\ loop.prev < s + MsbCycles /\ loop.prev <= loop.tsc
                   /\ s + c * IoCycles <= now /\ c * IoCycles < MsbCycles
      BY <1>1, <1>10, <2>1 DEF TscInv, ReadingInv
    <2>6. c * IoCycles \in Nat /\ (c + 1) * IoCycles = c * IoCycles + IoCycles /\ (c = 0 => c * IoCycles = 0)
      <3>1. PICK a \in Int, b \in Nat : a = c /\ b = IoCycles /\ a \in Nat
        BY <1>2, <1>3
      <3>2. a * b \in Nat /\ (a + 1) * b = a * b + b /\ (a = 0 => a * b = 0)
        BY <3>1
      <3> QED BY <3>1, <3>2
    <2>7. s + (c + 1) * IoCycles <= r
      BY <1>2, <1>3, <2>1, <2>4, <2>5, <2>6
    <2>8. s <= r /\ r < s + MsbValues * MsbCycles
      <3>1. CASE c = 0
        BY <3>1, <1>2, <1>3, <1>4, <1>5, <2>1, <2>3, <2>4
      <3>2. CASE c > 0
        <4>1. s <= now
          BY <1>3, <2>1, <2>5, <2>6, <3>2
        <4>2. now < s + MsbCycles + Lost
          BY <2>5, <3>2
        <4> HIDE DEF s, l
        <4> QED BY <4>1, <4>2, <1>2, <1>3, <1>4, <1>5, <2>1, <2>3
      <3> QED BY <1>3, <3>1, <3>2
    <2>9. Msb(r) = Expected <=> r < s + MsbCycles
      BY <1>3, <1>6, <1>10, <2>1, <2>8, ReadPeriod
    <2>10. FirstInv'
      <3>1. loop'.i = i /\ loop'.tsc1 = loop.tsc1 /\ loop'.d1 = loop.d1
        BY <1>0, <1>3 DEF LoopRecords
      <3> QED BY <1>0, <1>1, <1>10, <2>2, <3>1 DEF TscInv, FirstInv
    <2>11. CASE Msb(r) = Expected
      <3>1. /\ loop'.i = i /\ loop'.count = c + 1 /\ loop'.prev = loop.tsc /\ loop'.tsc = now'
            /\ now' = r + after /\ calibrating' = "expect"
        BY <1>0, <1>1, <1>3, <2>11 DEF LoopRecords
      <3>2. now' < s + MsbCycles + l
        BY <1>2, <1>3, <1>4, <1>5, <2>1, <2>9, <2>11, <3>1
      <3>3. loop.tsc < s + MsbCycles /\ loop.tsc <= now'
        BY <1>2, <1>3, <1>6, <2>1, <2>4, <2>5, <2>9, <2>11, <3>1
      <3>4. (c + 1) * IoCycles < MsbCycles
        BY <1>2, <1>6, <2>1, <2>6, <2>7, <2>9, <2>11
      <3>5. s + (c + 1) * IoCycles <= now'
        BY <1>2, <1>6, <2>1, <2>6, <2>7, <3>1
      <3>6. PeriodStart(loop.i + 1)' = s + MsbCycles /\ PeriodStart(loop.i)' = s
        BY <1>3, <2>1, <2>2, <3>1
      <3>7. ReadingInv'
        BY <1>5, <3>1, <3>2, <3>3, <3>4, <3>5, <3>6 DEF ReadingInv
      <3>8. FreshInv' /\ SeenInv' /\ StuckInv'
        BY <1>1, <1>3, <1>10, <3>1 DEF FreshInv, SeenInv, StuckInv
      <3> QED BY <1>1, <1>7, <1>8, <1>10, <2>10, <3>7, <3>8 DEF TscInv
    <2>12. CASE Msb(r) # Expected
      <3>1. loop' = loop /\ now' = r /\ calibrating' = "seen"
        BY <1>0, <2>12
      <3>2. c > 0 => s + MsbCycles <= r /\ r <= s + MsbCycles + IoCycles + l /\ loop.tsc <= r
        BY <1>2, <1>3, <1>4, <1>5, <1>6, <2>1, <2>5, <2>9, <2>12
      <3>3. PeriodStart(loop.i + 1)' = s + MsbCycles
        BY <1>3, <2>1, <2>2, <3>1
      <3>4. SeenInv'
        BY <1>5, <2>5, <3>1, <3>2, <3>3 DEF SeenInv
      <3>5. FreshInv' /\ ReadingInv' /\ StuckInv'
        BY <1>1, <1>10, <3>1 DEF FreshInv, ReadingInv, StuckInv
      <3> QED BY <1>1, <1>7, <1>8, <1>10, <2>10, <3>4, <3>5 DEF TscInv
    <2> QED BY <2>11, <2>12
  <1> QED BY <1>3, <1>9, <1>10

\* The reads are used up only if the counter is stuck.
LEMMA ExhaustedKeepsInv ==
  ASSUME TscInv, ReadsExhausted
  PROVE  TscInv'
  <1>1. /\ calibrating = "expect" /\ loop.count = MaxReads /\ calibrating' = "seen"
        /\ UNCHANGED <<machine, now, away, pit, loop, tsc_khz, verified>>
    BY DEF ReadsExhausted
  <1>2. machine.stuck
    <2> SUFFICES ASSUME ~machine.stuck PROVE FALSE
      OBVIOUS
    <2>1. MaxReads > 0 /\ MaxReads * IoCycles >= MsbCycles /\ MsbCycles \in Int
      BY TscNumbers
    <2>2. MaxReads * IoCycles < MsbCycles
      BY <1>1, <2>1 DEF TscInv, ReadingInv
    <2>3. MaxReads * IoCycles \in Int
      BY TscNumbers
    <2> QED BY <2>1, <2>2, <2>3
  <1>3. TscTypeOK' /\ StuckInv' /\ CalibrationIsAccurate' /\ tsc_khz'.by # "pit"
    BY <1>1 DEF TscInv, TscTypeOK, StuckInv, CalibrationIsAccurate
  <1> QED BY <1>1, <1>2, <1>3 DEF TscInv

\* What is accepted is right: two transitions known to d1 and d2 are i periods apart to
\* within d1 + d2, which is less than one part in n of what was measured.
LEMMA AcceptedIsAccurate ==
  ASSUME NEW delta \in Int, NEW true \in Nat, NEW error \in Int, NEW n \in Nat \ {0},
         delta - true <= error, true - delta <= error, error < delta \div n
  PROVE  (IF delta > true THEN delta - true ELSE true - delta) * n <= delta
  <1> DEFINE off == IF delta > true THEN delta - true ELSE true - delta
             q == delta \div n
  <1>1. off \in Nat /\ off <= error
    OBVIOUS
  <1>2. q \in Int /\ n * q <= delta /\ error < q
    BY Period, Division
  <1> HIDE DEF off, q
  <1>3. q \in Nat /\ off <= q
    BY <1>1, <1>2
  <1>4. off * n <= q * n
    BY <1>1, <1>3, ProductMonotone
  <1>5. off * n \in Int /\ q * n = n * q /\ q * n \in Int
    BY <1>1, <1>2
  <1>6. off * n <= delta
    BY <1>2, <1>4, <1>5
  <1> QED BY <1>6 DEF off

\* A turn of the loop of quick_pit_calibrate keeps the invariant.
LEMMA CalibrateKeepsInv ==
  ASSUME TscInv, quick_pit_calibrate
  PROVE  TscInv'
  <1> DEFINE i == loop.i
             l == away' * LongestAbsence
             dev == now' - loop.prev
             delta == loop.tsc - loop.tsc1
             error == Error(dev)
             s == PeriodStart(i + 1)
  <1>0. PICK d \in Away :
          /\ Absent(d) /\ now' = now + d
          /\ \/ ~Seen /\ Fail
             \/ /\ Seen /\ i = 0
                /\ loop' = [NextValue(loop) EXCEPT !.tsc1 = loop.tsc, !.d1 = dev]
                /\ calibrating' = "expect" /\ UNCHANGED <<tsc_khz, verified>>
             \/ Fail
             \/ /\ Seen /\ i > 0
                /\ loop' = NextValue(loop)
                /\ calibrating' = "expect" /\ UNCHANGED <<tsc_khz, verified>>
             \/ /\ Seen /\ i > 0 /\ error < delta \div ErrorScale
                /\ verified' = [i |-> i, delta |-> delta]
                /\ Calibrated("pit", delta \div i)
                /\ calibrating' = "done" /\ UNCHANGED loop
    BY DEF quick_pit_calibrate
  <1>1. /\ calibrating = "seen"
        /\ UNCHANGED <<machine, pit>>
    BY DEF quick_pit_calibrate
  <1>2. d \in Nat /\ IoCycles \in Nat /\ ErrorScale \in Nat \ {0} /\ MsbCycles \in Nat
    BY TscNumbers
  <1>3. /\ now \in Nat /\ pit \in Nat /\ away \in 0 .. MaxAbsences /\ machine.stuck \in BOOLEAN
        /\ i \in Nat /\ loop.count \in Nat /\ loop.tsc \in Nat /\ loop.prev \in Nat
        /\ loop.tsc1 \in Nat /\ loop.d1 \in Int
        /\ loop \in LoopRecords /\ verified \in [i : Nat, delta : Int]
    BY DEF TscInv, TscTypeOK, LoopRecords
  <1>4. away' \in 0 .. MaxAbsences /\ l \in Nat /\ Lost + d <= l
    BY <1>0, <1>3, AbsencePaid
  <1>5. Lost \in Nat /\ Lost' = l
    BY <1>3, AbsenceBounds DEF Lost
  <1>6. now' \in Nat /\ now <= now' /\ dev \in Int /\ delta \in Int /\ error = loop.d1 + dev /\ error \in Int
    BY <1>0, <1>2, <1>3 DEF Error
  <1>7. /\ PeriodStart(1) \in Nat /\ s \in Nat
        /\ s = PeriodStart(1) + i * MsbCycles
    <2>1. PICK m \in Nat, p \in Nat, k \in Nat : m = MsbCycles /\ p = pit /\ k = i
      BY <1>2, <1>3
    <2>2. p + m * 1 \in Nat /\ p + m * (k + 1) \in Nat /\ p + m * (k + 1) = p + m * 1 + k * m
      OBVIOUS
    <2> QED BY <2>1, <2>2 DEF PeriodStart
  <1>8. Seen => /\ loop.count > 0
                /\ machine.stuck => i = 0
    BY <1>3 DEF Seen, TscInv, StuckInv
  <1>9. Seen /\ ~machine.stuck =>
          /\ s <= now' /\ now' <= s + IoCycles + l
          /\ loop.tsc - s <= dev /\ s - loop.tsc <= dev
    <2> SUFFICES ASSUME Seen, ~machine.stuck
                 PROVE  /\ s <= now' /\ now' <= s + IoCycles + l
                        /\ loop.tsc - s <= dev /\ s - loop.tsc <= dev
      OBVIOUS
    <2>1. /\ s <= now /\ now <= s + IoCycles + Lost
          /\ loop.prev < s /\ loop.prev <= loop.tsc /\ loop.tsc <= now
      BY <1>1, <1>8 DEF TscInv, SeenInv
    <2>2. s \in Nat /\ now' = now + d
      BY <1>0, <1>7
    <2> HIDE DEF s, l
    <2> QED BY <1>2, <1>3, <1>4, <1>5, <2>1, <2>2
  <1>10. ASSUME Fail PROVE TscInv'
    <2>1. calibrating' = "assume" /\ UNCHANGED <<loop, tsc_khz, verified>>
      BY <1>10 DEF Fail
    <2>2. TscTypeOK'
      BY <1>1, <1>3, <1>4, <1>6, <2>1 DEF TscTypeOK
    <2>3. StuckInv' /\ FreshInv' /\ ReadingInv' /\ SeenInv' /\ FirstInv' /\ CalibrationIsAccurate' /\ tsc_khz'.by # "pit"
      BY <1>1, <2>1 DEF TscInv, StuckInv, FreshInv, ReadingInv, SeenInv, FirstInv, CalibrationIsAccurate
    <2> QED BY <1>1, <2>1, <2>2, <2>3 DEF TscInv
  <1>11. ASSUME Seen, calibrating' = "expect", UNCHANGED <<tsc_khz, verified>>,
                loop' \in LoopRecords, loop'.i = i + 1, loop'.count = 0, loop'.tsc = 0,
                ~machine.stuck => /\ loop'.tsc1 - PeriodStart(1) <= loop'.d1
                                  /\ PeriodStart(1) - loop'.tsc1 <= loop'.d1
         PROVE  TscInv'
    <2>1. TscTypeOK'
      BY <1>1, <1>3, <1>4, <1>6, <1>11 DEF TscTypeOK
    <2>2. StuckInv'
      BY <1>1, <1>8, <1>11 DEF StuckInv
    <2>3. CalibrationIsAccurate' /\ tsc_khz'.by # "pit"
      BY <1>1, <1>11 DEF TscInv, CalibrationIsAccurate
    <2>4. SeenInv' /\ ReadingInv'
      BY <1>11 DEF SeenInv, ReadingInv
    <2>5. PeriodStart(loop.i)' = s /\ PeriodStart(1)' = PeriodStart(1)
      BY <1>1, <1>11 DEF PeriodStart
    <2>6. ~machine.stuck => FreshInv' /\ FirstInv'
      BY <1>5, <1>9, <1>11, <2>5 DEF FreshInv, FirstInv
    <2> QED BY <1>1, <1>11, <2>1, <2>2, <2>3, <2>4, <2>6 DEF TscInv
  <1>12. CASE /\ Seen /\ i = 0
              /\ loop' = [NextValue(loop) EXCEPT !.tsc1 = loop.tsc, !.d1 = dev]
              /\ calibrating' = "expect" /\ UNCHANGED <<tsc_khz, verified>>
    <2>1. loop' \in LoopRecords
      BY <1>3, <1>6, <1>12, LoopUpdates
    <2>2. loop'.i = i + 1 /\ loop'.count = 0 /\ loop'.tsc = 0 /\ loop'.tsc1 = loop.tsc /\ loop'.d1 = dev
      BY <1>3, <1>12 DEF NextValue, LoopRecords
    <2>3. s = PeriodStart(1)
      BY <1>12
    <2> QED BY <1>9, <1>11, <1>12, <2>1, <2>2, <2>3
  <1>13. Seen /\ i > 0 => /\ ~machine.stuck
                          /\ loop.tsc1 - PeriodStart(1) <= loop.d1
                          /\ PeriodStart(1) - loop.tsc1 <= loop.d1
    BY <1>1, <1>3, <1>8 DEF TscInv, FirstInv
  <1>14. CASE /\ Seen /\ i > 0
              /\ loop' = NextValue(loop)
              /\ calibrating' = "expect" /\ UNCHANGED <<tsc_khz, verified>>
    <2>1. loop' \in LoopRecords
      BY <1>3, <1>14, LoopUpdates
    <2>2. loop'.i = i + 1 /\ loop'.count = 0 /\ loop'.tsc = 0 /\ loop'.tsc1 = loop.tsc1 /\ loop'.d1 = loop.d1
      BY <1>3, <1>14 DEF NextValue, LoopRecords
    <2> QED BY <1>11, <1>13, <1>14, <2>1, <2>2
  <1>15. CASE /\ Seen /\ i > 0 /\ error < delta \div ErrorScale
              /\ verified' = [i |-> i, delta |-> delta]
              /\ Calibrated("pit", delta \div i)
              /\ calibrating' = "done" /\ UNCHANGED loop
    <2>1. TscTypeOK'
      BY <1>1, <1>3, <1>4, <1>6, <1>15 DEF TscTypeOK
    <2>2. i * MsbCycles \in Nat
      BY <1>2, <1>3
    <2>3. delta - i * MsbCycles <= error /\ i * MsbCycles - delta <= error
      <3> HIDE DEF s, l
      <3> QED BY <1>3, <1>6, <1>7, <1>9, <1>13, <1>15, <2>2
    <2>4. (IF delta > i * MsbCycles THEN delta - i * MsbCycles ELSE i * MsbCycles - delta) * ErrorScale <= delta
      <3>1. PICK x \in Int, t \in Nat, e \in Int : x = delta /\ t = i * MsbCycles /\ e = error
        BY <1>6, <2>2
      <3>2. x - t <= e /\ t - x <= e /\ e < x \div ErrorScale
        BY <3>1, <2>3, <1>15
      <3>3. (IF x > t THEN x - t ELSE t - x) * ErrorScale <= x
        BY <1>2, <3>2, AcceptedIsAccurate
      <3> QED BY <3>1, <3>3
    <2>5. verified'.i = i /\ verified'.delta = delta
      BY <1>15
    <2>6. CalibrationIsAccurate'
      BY <2>4, <2>5 DEF CalibrationIsAccurate
    <2>7. StuckInv' /\ FreshInv' /\ ReadingInv' /\ SeenInv' /\ FirstInv'
      BY <1>1, <1>15 DEF TscInv, StuckInv, FreshInv, ReadingInv, SeenInv, FirstInv
    <2> QED BY <1>15, <2>1, <2>6, <2>7 DEF TscInv
  <1> QED BY <1>0, <1>10, <1>12, <1>14, <1>15

\* The other steps of tsc_init keep the invariant.
LEMMA OtherTscSteps ==
  ASSUME TscInv, NativeCalibrate \/ StartPit \/ AssumeTsc
  PROVE  TscInv'
  <1>1. CASE NativeCalibrate
    <2>1. /\ calibrating' \in {"start", "done"} /\ calibrating = "native"
          /\ UNCHANGED <<machine, now, away, pit, loop, verified>>
          /\ tsc_khz'.by # "pit"
      BY <1>1 DEF NativeCalibrate, Calibrated, TscInv
    <2>2. TscTypeOK' /\ StuckInv'
      BY <2>1 DEF TscInv, TscTypeOK, StuckInv
    <2>3. FreshInv' /\ ReadingInv' /\ SeenInv' /\ FirstInv' /\ CalibrationIsAccurate'
      BY <2>1 DEF FreshInv, ReadingInv, SeenInv, FirstInv, CalibrationIsAccurate
    <2> QED BY <2>1, <2>2, <2>3 DEF TscInv
  <1>2. CASE AssumeTsc
    <2>1. /\ calibrating' = "done"
          /\ UNCHANGED <<machine, now, away, pit, loop, verified>>
          /\ tsc_khz'.by # "pit"
      BY <1>2 DEF AssumeTsc, Calibrated
    <2>2. TscTypeOK' /\ StuckInv'
      BY <2>1 DEF TscInv, TscTypeOK, StuckInv
    <2>3. FreshInv' /\ ReadingInv' /\ SeenInv' /\ FirstInv' /\ CalibrationIsAccurate'
      BY <2>1 DEF FreshInv, ReadingInv, SeenInv, FirstInv, CalibrationIsAccurate
    <2> QED BY <2>1, <2>2, <2>3 DEF TscInv
  <1>3. CASE StartPit
    <2>1. /\ calibrating = "start" /\ calibrating' = "expect" /\ pit' = now /\ now' = now + IoCycles
          /\ UNCHANGED <<machine, away, loop, tsc_khz, verified>>
      BY <1>3 DEF StartPit
    <2>2. loop.i = 0 /\ loop.count = 0 /\ loop.tsc = 0
      BY <2>1 DEF TscInv
    <2>3. IoCycles \in Nat /\ MsbCycles \in Nat /\ LongestAbsence \in Nat
      BY TscNumbers, AbsenceBounds
    <2>4. TscTypeOK' /\ StuckInv'
      BY <2>1, <2>3 DEF TscInv, TscTypeOK, StuckInv
    <2>5. now \in Nat /\ Lost' \in Nat /\ PeriodStart(0)' = now
      <3>1. now \in Nat /\ away \in Nat
        BY TscNumbers DEF TscInv, TscTypeOK
      <3>2. MsbCycles * 0 = 0 /\ away * LongestAbsence \in Nat
        BY <2>3, <3>1
      <3> QED BY <2>1, <3>1, <3>2 DEF Lost, PeriodStart
    <2>6. FreshInv'
      BY <2>1, <2>2, <2>3, <2>5 DEF FreshInv
    <2>7. ReadingInv' /\ SeenInv' /\ FirstInv' /\ CalibrationIsAccurate' /\ tsc_khz'.by # "pit"
      BY <2>1, <2>2 DEF TscInv, ReadingInv, SeenInv, FirstInv, CalibrationIsAccurate
    <2> QED BY <2>1, <2>4, <2>6, <2>7 DEF TscInv
  <1> QED BY <1>1, <1>2, <1>3

\* tsc_init's invariant in a run about it, and the constant answer in the others.
ClockInv == IF part = "tsc" THEN TscInv ELSE tsc_khz.by = "earlier"

\* tsc_init starts in the invariant and keeps it.
THEOREM ClockInvariant == Spec => []ClockInv
  <1>1. Init => ClockInv
    <2> SUFFICES ASSUME Init PROVE ClockInv
      OBVIOUS
    <2>1. CASE part = "tsc"
      <3>1. TscInit
        BY <2>1 DEF Init
      <3>2. machine.stuck \in BOOLEAN
        <4>1. PICK leaf \in CrystalLeaves, vendor \in {"Intel", "AMD"}, level \in {20, 21}, model \in {94, 85, 92, 1},
                   stuck \in BOOLEAN :
                machine = [leaf |-> leaf, vendor |-> vendor, level |-> level, model |-> model, stuck |-> stuck]
          BY <3>1 DEF TscInit
        <4>2. machine.stuck = stuck
          BY <4>1
        <4> QED BY <4>2
      <3>3. TscTypeOK
        <4>0. /\ calibrating = "native" /\ now = 1 /\ away = 0 /\ pit = 0
              /\ loop = [i |-> 0, count |-> 0, tsc |-> 0, prev |-> 0, tsc1 |-> 0, d1 |-> 0]
              /\ verified = [i |-> 0, delta |-> 0]
          BY <3>1 DEF TscInit
        <4>1. loop \in LoopRecords /\ verified \in [i : Nat, delta : Int]
          BY <4>0 DEF LoopRecords
        <4>2. now \in Nat /\ pit \in Nat /\ away \in 0 .. MaxAbsences /\ calibrating = "native"
          BY <4>0, TscNumbers
        <4> QED BY <3>2, <4>1, <4>2 DEF TscTypeOK
      <3>4. StuckInv /\ FreshInv /\ ReadingInv /\ SeenInv /\ FirstInv /\ CalibrationIsAccurate /\ tsc_khz.by # "pit"
            /\ loop.i = 0 /\ loop.count = 0 /\ loop.tsc = 0
        BY <3>1 DEF TscInit, StuckInv, FreshInv, ReadingInv, SeenInv, FirstInv, CalibrationIsAccurate
      <3> QED BY <2>1, <3>1, <3>3, <3>4 DEF ClockInv, TscInv
    <2>2. CASE part # "tsc"
      BY <2>2 DEF Init, TscIdle, ClockInv
    <2> QED BY <2>1, <2>2
  <1>2. ClockInv /\ [Next]_vars => ClockInv'
    <2> SUFFICES ASSUME ClockInv, [Next]_vars PROVE ClockInv'
      OBVIOUS
    <2>1. CASE UNCHANGED <<part, tscVars>>
      <3>1. UNCHANGED <<part, calibrating, machine, now, away, pit, loop, tsc_khz, verified>>
        BY <2>1 DEF tscVars
      <3> QED BY <3>1 DEF ClockInv, TscInv, TscTypeOK, StuckInv, FreshInv, ReadingInv, SeenInv, FirstInv,
                          CalibrationIsAccurate, Lost, PeriodStart
    <2>2. CASE Clock
      <3>1. part = "tsc" /\ part' = "tsc" /\ tsc_init /\ TscInv
        BY <2>2 DEF Clock, ClockInv
      <3>2. TscInv'
        BY <3>1, ReadKeepsInv, ExhaustedKeepsInv, CalibrateKeepsInv, OtherTscSteps DEF tsc_init
      <3> QED BY <3>1, <3>2 DEF ClockInv
    <2> QED BY <2>1, <2>2 DEF Next, vars, Mode, Cpu, Pic, Vmx, Guest
  <1> QED BY <1>1, <1>2, PTL DEF Spec

\* A frequency measured with the PIT (quick_pit_calibrate) is right within the error the
\* code accepts, for every speed of the PIT and of the I/O ports and for all absences
\* that are shorter than one round of the counter altogether.
THEOREM CalibrationIsAlwaysAccurate == Spec => []CalibrationIsAccurate
  <1>1. ClockInv => CalibrationIsAccurate
    BY DEF ClockInv, TscInv, CalibrationIsAccurate
  <1> QED BY <1>1, ClockInvariant, PTL

-----------------------------------------------------------------------------
(* The interrupt controllers. *)

\* Division keeps the order.
LEMMA QuotientMonotone ==
  ASSUME NEW x \in Int, NEW y \in Int, NEW d \in Nat \ {0}, x <= y
  PROVE  x \div d <= y \div d
  <1>1. x \div d \in Int /\ d * (x \div d) <= x
    BY Division, Period
  <1>2. PICK q \in Int : q = x \div d /\ d * q <= x
    BY <1>1
  <1>3. y >= d * q
    BY <1>2
  <1>4. y \div d >= q
    BY <1>3, PeriodNumber
  <1> QED BY <1>2, <1>4, Division

\* Two units of a clock that rounds down are more than one unit of time; a and b are read
\* in the same round w of a clock that counts k for each cycle and t for a unit.
LEMMA TwoTicksLast ==
  ASSUME NEW a \in Nat, NEW b \in Nat, a <= b,
         NEW k \in Nat \ {0}, NEW t \in Nat \ {0}, NEW w \in Nat \ {0},
         (a * k) \div w = (b * k) \div w,
         (((b * k) % w) \div t - ((a * k) % w) \div t) % w >= 2
  PROVE  (b - a) * k >= t
  <1>1. a * k \in Nat /\ b * k \in Nat /\ (b - a) * k = b * k - a * k /\ a * k <= b * k
    <2>1. a * k <= b * k
      BY ProductMonotone
    <2> QED BY <2>1
  <1> DEFINE x == (a * k) % w
             y == (b * k) % w
             p == x \div t
             q == y \div t
  <1>2. x \in 0 .. w - 1 /\ y \in 0 .. w - 1 /\ y - x = (b - a) * k /\ x <= y
    <2>1. PICK m \in Int, n \in Int : m = a * k /\ n = b * k
      BY <1>1
    <2>2. /\ m = w * (m \div w) + (m % w) /\ m \div w \in Int /\ m % w \in 0 .. w - 1
          /\ n = w * (n \div w) + (n % w) /\ n \div w \in Int /\ n % w \in 0 .. w - 1
      BY Division, Zenon
    <2>3. m \div w = n \div w
      BY <2>1
    <2>4. PICK z \in Int : z = w * (m \div w)
      BY <2>2
    <2>5. n = z + (n % w) /\ m = z + (m % w)
      BY <2>2, <2>3, <2>4
    <2>6. (n % w) - (m % w) = n - m
      BY <2>2, <2>5
    <2> QED BY <1>1, <2>1, <2>2, <2>6
  <1>3. (q - p) % w >= 2
    OBVIOUS
  <1> HIDE DEF x, y
  <1>4. /\ p \in Int /\ q \in Int /\ t * p <= x /\ x < t * p + t /\ t * q <= y /\ y < t * q + t
        /\ p <= q /\ p >= 0
    <2>1. x \in Int /\ y \in Int
      BY <1>2
    <2>2. p <= q
      BY <1>2, <2>1, QuotientMonotone
    <2>3. p >= 0
      <3>1. x >= t * 0
        BY <1>2
      <3> QED BY <2>1, <3>1, PeriodNumber
    <2> QED BY <2>1, <2>2, <2>3, Period, Division
  <1> HIDE DEF p, q
  <1>5. q <= y
    <2>1. PICK j \in Nat : t = j + 1
      BY t - 1 \in Nat
    <2>2. q \in Nat
      BY <1>4
    <2>3. t * q = j * q + q /\ j * q \in Nat
      BY <2>1, <2>2
    <2> QED BY <1>2, <1>4, <2>2, <2>3
  <1>6. q - p \in 0 .. w - 1
    BY <1>2, <1>4, <1>5
  <1>7. q - p >= 2
    BY <1>3, <1>6, SmallRemainder
  <1>8. t * q >= t * p + 2 * t
    <2>1. PICK j \in Nat : q = p + 2 + j
      BY <1>4, <1>7, q - p - 2 \in Nat
    <2>2. t * q = t * p + 2 * t + t * j /\ t * j \in Nat
      BY <1>4, <2>1
    <2>3. t * p \in Int
      BY <1>4
    <2> QED BY <2>2, <2>3
  <1>9. t * q \in Int /\ t * p \in Int
    BY <1>4
  <1>10. y - x >= t
    BY <1>2, <1>4, <1>8, <1>9
  <1> QED BY <1>2, <1>10

ChipRecords == [expect : 1 .. 4, mask : Nat, base : Nat, cascade : Nat]

\* Which word a controller expects before write n, and what it has taken by then: its
\* first command is write f, and its last mask write l.
ChipInv(c, n, f, l, base, cascade) ==
  /\ c \in ChipRecords
  /\ c.expect = IF n \in f + 1 .. f + 3 THEN n - f + 1 ELSE 1
  /\ n > f + 1 => c.base = base
  /\ n > f + 2 => c.cascade = cascade
  /\ n > l => c.mask = 255

PicTypeOK ==
  /\ tscNow \in Nat /\ wrote \in Nat /\ waitFrom \in Nat \cup {-1}
  /\ picStep \in 1 .. 13
  /\ chips \in [{"master", "slave"} -> ChipRecords]

\* udelay counts from the time of the write, and for 2 microseconds at least.
WaitInv ==
  /\ wrote # 0 => wrote < tscNow
  /\ waitFrom # -1 => /\ waitFrom = ((wrote * Kilo) % CounterWrap) \div TscKhz
                      /\ wrote # 0 /\ picStep > 1 /\ Usecs >= 2

PicInv ==
  /\ PicTypeOK
  /\ ChipInv(chips["master"], picStep, 2, 11, 48, 4)
  /\ ChipInv(chips["slave"], picStep, 6, 12, 56, 2)
  /\ WaitInv
  /\ AtLeastOneMicrosecond

\* The writes one by one.
LEMMA WriteList ==
  /\ Len(Writes) = 12
  /\ Writes[1] = <<"master", "IMR", 255, 0>>
  /\ Writes[2] = <<"master", "CMD", 17, 2>>
  /\ Writes[3] = <<"master", "IMR", 48, 2>>
  /\ Writes[4] = <<"master", "IMR", 4, 2>>
  /\ Writes[5] = <<"master", "IMR", 1, 2>>
  /\ Writes[6] = <<"slave", "CMD", 17, 2>>
  /\ Writes[7] = <<"slave", "IMR", 56, 2>>
  /\ Writes[8] = <<"slave", "IMR", 2, 2>>
  /\ Writes[9] = <<"slave", "IMR", 1, 2>>
  /\ Writes[10] = <<"slave", "none", 0, 100>>
  /\ Writes[11] = <<"master", "IMR", 255, 0>>
  /\ Writes[12] = <<"slave", "IMR", 255, 0>>
  BY DEF Writes, ISA_IRQ_VECTOR

\* What a controller does with a word, case by case.
LEMMA ChipWords ==
  ASSUME NEW c \in ChipRecords, NEW v \in Nat
  PROVE  /\ Chip(c, "CMD", v) \in ChipRecords
         /\ Chip(c, "CMD", v).expect = 2
         /\ c.expect = 2 => /\ Chip(c, "IMR", v) \in ChipRecords
                            /\ Chip(c, "IMR", v).expect = 3 /\ Chip(c, "IMR", v).base = v
         /\ c.expect = 3 => /\ Chip(c, "IMR", v) \in ChipRecords
                            /\ Chip(c, "IMR", v).expect = 4 /\ Chip(c, "IMR", v).base = c.base
                            /\ Chip(c, "IMR", v).cascade = v
         /\ c.expect = 4 => /\ Chip(c, "IMR", v) \in ChipRecords
                            /\ Chip(c, "IMR", v).expect = 1 /\ Chip(c, "IMR", v).base = c.base
                            /\ Chip(c, "IMR", v).cascade = c.cascade
         /\ c.expect = 1 => /\ Chip(c, "IMR", v) \in ChipRecords
                            /\ Chip(c, "IMR", v).expect = 1 /\ Chip(c, "IMR", v).base = c.base
                            /\ Chip(c, "IMR", v).cascade = c.cascade /\ Chip(c, "IMR", v).mask = v
  <1> USE DEF ChipRecords
  <1>1. Chip(c, "CMD", v) \in ChipRecords /\ Chip(c, "CMD", v).expect = 2
    <2>1. Chip(c, "CMD", v) = [c EXCEPT !.expect = 2, !.mask = 0]
      BY DEF Chip
    <2>0. /\ [c EXCEPT !.expect = 2] \in ChipRecords /\ [c EXCEPT !.expect = 2].expect = 2
          /\ [c EXCEPT !.expect = 2].base = c.base
      OBVIOUS
    <2>2. PICK d \in ChipRecords : d = [c EXCEPT !.expect = 2] /\ d.expect = 2
      BY <2>0, Zenon
    <2>3. [d EXCEPT !.mask = 0] \in ChipRecords /\ [d EXCEPT !.mask = 0].expect = 2
      BY <2>2
    <2> QED BY <2>1, <2>2, <2>3
  <1>2. ASSUME c.expect = 2
        PROVE  /\ Chip(c, "IMR", v) \in ChipRecords
               /\ Chip(c, "IMR", v).expect = 3 /\ Chip(c, "IMR", v).base = v
    <2>1. Chip(c, "IMR", v) = [c EXCEPT !.expect = 3, !.base = v]
      BY <1>2 DEF Chip
    <2>0. /\ [c EXCEPT !.expect = 3] \in ChipRecords /\ [c EXCEPT !.expect = 3].expect = 3
          /\ [c EXCEPT !.expect = 3].base = c.base
      OBVIOUS
    <2>2. PICK d \in ChipRecords : d = [c EXCEPT !.expect = 3] /\ d.expect = 3
      BY <2>0, Zenon
    <2>3. /\ [d EXCEPT !.base = v] \in ChipRecords /\ [d EXCEPT !.base = v].expect = 3
          /\ [d EXCEPT !.base = v].base = v
      BY <2>2
    <2> QED BY <2>1, <2>2, <2>3
  <1>3. ASSUME c.expect = 3
        PROVE  /\ Chip(c, "IMR", v) \in ChipRecords
               /\ Chip(c, "IMR", v).expect = 4 /\ Chip(c, "IMR", v).base = c.base
               /\ Chip(c, "IMR", v).cascade = v
    <2>1. Chip(c, "IMR", v) = [c EXCEPT !.expect = 4, !.cascade = v]
      BY <1>3 DEF Chip
    <2>0. /\ [c EXCEPT !.expect = 4] \in ChipRecords /\ [c EXCEPT !.expect = 4].expect = 4
          /\ [c EXCEPT !.expect = 4].base = c.base
      OBVIOUS
    <2>2. PICK d \in ChipRecords : d = [c EXCEPT !.expect = 4] /\ d.expect = 4 /\ d.base = c.base
      BY <2>0, Zenon
    <2>3. /\ [d EXCEPT !.cascade = v] \in ChipRecords /\ [d EXCEPT !.cascade = v].expect = 4
          /\ [d EXCEPT !.cascade = v].base = c.base /\ [d EXCEPT !.cascade = v].cascade = v
      BY <2>2
    <2> QED BY <2>1, <2>2, <2>3
  <1>4. ASSUME c.expect = 4
        PROVE  /\ Chip(c, "IMR", v) \in ChipRecords
               /\ Chip(c, "IMR", v).expect = 1 /\ Chip(c, "IMR", v).base = c.base
               /\ Chip(c, "IMR", v).cascade = c.cascade
    <2>1. Chip(c, "IMR", v) = [c EXCEPT !.expect = 1]
      BY <1>4 DEF Chip
    <2> QED BY <2>1
  <1>5. ASSUME c.expect = 1
        PROVE  /\ Chip(c, "IMR", v) \in ChipRecords
               /\ Chip(c, "IMR", v).expect = 1 /\ Chip(c, "IMR", v).base = c.base
               /\ Chip(c, "IMR", v).cascade = c.cascade /\ Chip(c, "IMR", v).mask = v
    <2>1. Chip(c, "IMR", v) = [c EXCEPT !.mask = v]
      BY <1>5 DEF Chip
    <2> QED BY <1>5, <2>1
  <1> QED BY <1>1, <1>2, <1>3, <1>4, <1>5

\* A controller's words come in order: ICW1 is write f, then base, cascade and mode, and
\* its mask is written at l; what comes before f or goes to the other one is harmless.
LEMMA ChipTakes ==
  ASSUME NEW n \in Nat, NEW f \in Nat, NEW l \in Nat, l > f + 3, NEW base \in Nat, NEW cascade \in Nat,
         NEW c, ChipInv(c, n, f, l, base, cascade)
  PROVE  /\ n = f => ChipInv(Chip(c, "CMD", 17), n + 1, f, l, base, cascade)
         /\ n = f + 1 => ChipInv(Chip(c, "IMR", base), n + 1, f, l, base, cascade)
         /\ n = f + 2 => ChipInv(Chip(c, "IMR", cascade), n + 1, f, l, base, cascade)
         /\ n = f + 3 => ChipInv(Chip(c, "IMR", 1), n + 1, f, l, base, cascade)
         /\ n = l \/ n < f => ChipInv(Chip(c, "IMR", 255), n + 1, f, l, base, cascade)
         /\ n \notin f .. f + 3 /\ n # l => ChipInv(c, n + 1, f, l, base, cascade)
  <1>1. /\ c \in ChipRecords
        /\ c.expect = IF n \in f + 1 .. f + 3 THEN n - f + 1 ELSE 1
        /\ n > f + 1 => c.base = base
        /\ n > f + 2 => c.cascade = cascade
        /\ n > l => c.mask = 255
    BY DEF ChipInv
  <1>2. ASSUME n = f PROVE ChipInv(Chip(c, "CMD", 17), n + 1, f, l, base, cascade)
    BY <1>1, <1>2, ChipWords DEF ChipInv
  <1>3. ASSUME n = f + 1 PROVE ChipInv(Chip(c, "IMR", base), n + 1, f, l, base, cascade)
    <2>1. c.expect = 2
      BY <1>1, <1>3
    <2> QED BY <1>1, <1>3, <2>1, ChipWords DEF ChipInv
  <1>4. ASSUME n = f + 2 PROVE ChipInv(Chip(c, "IMR", cascade), n + 1, f, l, base, cascade)
    <2>1. c.expect = 3
      BY <1>1, <1>4
    <2>2. PICK d \in ChipRecords : d = Chip(c, "IMR", cascade) /\ d.expect = 4 /\ d.base = base /\ d.cascade = cascade
      <3>1. c.base = base /\ cascade \in Nat /\ c \in ChipRecords
        BY <1>1, <1>4
      <3> QED BY <2>1, <3>1, ChipWords, Zenon
    <2> QED BY <1>4, <2>2 DEF ChipInv
  <1>5. ASSUME n = f + 3 PROVE ChipInv(Chip(c, "IMR", 1), n + 1, f, l, base, cascade)
    <2>1. c.expect = 4
      BY <1>1, <1>5
    <2>2. PICK d \in ChipRecords : d = Chip(c, "IMR", 1) /\ d.expect = 1 /\ d.base = base /\ d.cascade = cascade
      <3>1. c.base = base /\ c.cascade = cascade /\ 1 \in Nat /\ c \in ChipRecords
        BY <1>1, <1>5
      <3> QED BY <2>1, <3>1, ChipWords, Zenon
    <2> QED BY <1>5, <2>2 DEF ChipInv
  <1>6. ASSUME n = l \/ n < f PROVE ChipInv(Chip(c, "IMR", 255), n + 1, f, l, base, cascade)
    <2>1. c.expect = 1
      BY <1>1, <1>6
    <2>2. PICK d \in ChipRecords : /\ d = Chip(c, "IMR", 255)
                                   /\ d.expect = 1 /\ d.base = c.base /\ d.cascade = c.cascade /\ d.mask = 255
      <3>1. 255 \in Nat /\ c \in ChipRecords
        BY <1>1
      <3>2. /\ Chip(c, "IMR", 255) \in ChipRecords
            /\ Chip(c, "IMR", 255).expect = 1 /\ Chip(c, "IMR", 255).base = c.base
            /\ Chip(c, "IMR", 255).cascade = c.cascade /\ Chip(c, "IMR", 255).mask = 255
        BY <2>1, <3>1, ChipWords, ZenonT(60)
      <3> QED BY <3>2, Zenon
    <2> QED BY <1>1, <1>6, <2>2 DEF ChipInv
  <1>7. ASSUME n \notin f .. f + 3, n # l PROVE ChipInv(c, n + 1, f, l, base, cascade)
    BY <1>1, <1>7 DEF ChipInv
  <1> QED BY <1>2, <1>3, <1>4, <1>5, <1>6, <1>7

\* A write of i8259_init keeps the invariant.
LEMMA WriteKeepsInv ==
  ASSUME PicInv, outb_pic
  PROVE  PicInv'
  <1> DEFINE w == Writes[picStep]
  <1>1. /\ picStep <= 12 /\ waitFrom = -1 /\ picStep' = picStep + 1 /\ tscNow' = tscNow + 1
        /\ chips' = [chips EXCEPT ![w[1]] = Chip(@, w[2], w[3])]
        /\ waitFrom' = IF w[4] = 0 \/ uptime = 0 THEN -1 ELSE uptime
        /\ wrote' = IF w[4] = 0 THEN 0 ELSE tscNow
    BY WriteList DEF outb_pic
  <1>2. /\ tscNow \in Nat /\ picStep \in 1 .. 12
        /\ chips \in [{"master", "slave"} -> ChipRecords]
    BY <1>1 DEF PicInv, PicTypeOK
  <1>3. Kilo \in Nat \ {0} /\ TscKhz \in Nat \ {0} /\ CounterWrap \in Nat \ {0}
    BY PicConstants
  <1>4. w[1] \in {"master", "slave"} /\ w[4] \in {0, 2, 100}
    BY <1>2, WriteList
  <1>5. /\ ChipInv(chips'["master"], picStep', 2, 11, 48, 4)
        /\ ChipInv(chips'["slave"], picStep', 6, 12, 56, 2)
    <2> DEFINE m == chips["master"]
               s == chips["slave"]
    <2>1. w[1] = "master" => chips'["master"] = Chip(m, w[2], w[3]) /\ chips'["slave"] = s
      BY <1>1, <1>2
    <2>2. w[1] = "slave" => chips'["slave"] = Chip(s, w[2], w[3]) /\ chips'["master"] = m
      BY <1>1, <1>2
    <2>3. ChipInv(m, picStep, 2, 11, 48, 4) /\ ChipInv(s, picStep, 6, 12, 56, 2)
      BY DEF PicInv
    <2> HIDE DEF m, s
    <2>4. ChipInv(chips'["master"], picStep + 1, 2, 11, 48, 4)
      <3>0. /\ picStep = 2 => ChipInv(Chip(m, "CMD", 17), picStep + 1, 2, 11, 48, 4)
            /\ picStep = 2 + 1 => ChipInv(Chip(m, "IMR", 48), picStep + 1, 2, 11, 48, 4)
            /\ picStep = 2 + 2 => ChipInv(Chip(m, "IMR", 4), picStep + 1, 2, 11, 48, 4)
            /\ picStep = 2 + 3 => ChipInv(Chip(m, "IMR", 1), picStep + 1, 2, 11, 48, 4)
            /\ picStep = 11 \/ picStep < 2 => ChipInv(Chip(m, "IMR", 255), picStep + 1, 2, 11, 48, 4)
            /\ picStep \notin 2 .. 2 + 3 /\ picStep # 11 => ChipInv(m, picStep + 1, 2, 11, 48, 4)
        <4>1. /\ picStep \in Nat /\ 2 \in Nat /\ 11 \in Nat /\ 11 > 2 + 3 /\ 48 \in Nat /\ 4 \in Nat
          BY <1>2
        <4> QED BY <2>3, <4>1, ChipTakes, Zenon
      <3>1. /\ picStep = 2 => ChipInv(Chip(m, "CMD", 17), picStep + 1, 2, 11, 48, 4)
            /\ picStep = 3 => ChipInv(Chip(m, "IMR", 48), picStep + 1, 2, 11, 48, 4)
            /\ picStep = 4 => ChipInv(Chip(m, "IMR", 4), picStep + 1, 2, 11, 48, 4)
            /\ picStep = 5 => ChipInv(Chip(m, "IMR", 1), picStep + 1, 2, 11, 48, 4)
            /\ picStep \in {1, 11} => ChipInv(Chip(m, "IMR", 255), picStep + 1, 2, 11, 48, 4)
            /\ picStep \in {6, 7, 8, 9, 10, 12} => ChipInv(m, picStep + 1, 2, 11, 48, 4)
        BY <1>2, <3>0
      <3> QED BY <1>2, <2>1, <2>2, <3>1, WriteList
    <2>5. ChipInv(chips'["slave"], picStep + 1, 6, 12, 56, 2)
      <3>0. /\ picStep = 6 => ChipInv(Chip(s, "CMD", 17), picStep + 1, 6, 12, 56, 2)
            /\ picStep = 6 + 1 => ChipInv(Chip(s, "IMR", 56), picStep + 1, 6, 12, 56, 2)
            /\ picStep = 6 + 2 => ChipInv(Chip(s, "IMR", 2), picStep + 1, 6, 12, 56, 2)
            /\ picStep = 6 + 3 => ChipInv(Chip(s, "IMR", 1), picStep + 1, 6, 12, 56, 2)
            /\ picStep = 12 \/ picStep < 6 => ChipInv(Chip(s, "IMR", 255), picStep + 1, 6, 12, 56, 2)
            /\ picStep \notin 6 .. 6 + 3 /\ picStep # 12 => ChipInv(s, picStep + 1, 6, 12, 56, 2)
        <4>1. /\ picStep \in Nat /\ 6 \in Nat /\ 12 \in Nat /\ 12 > 6 + 3 /\ 56 \in Nat /\ 2 \in Nat
          BY <1>2
        <4> QED BY <2>3, <4>1, ChipTakes, Zenon
      <3>1. /\ picStep = 6 => ChipInv(Chip(s, "CMD", 17), picStep + 1, 6, 12, 56, 2)
            /\ picStep = 7 => ChipInv(Chip(s, "IMR", 56), picStep + 1, 6, 12, 56, 2)
            /\ picStep = 8 => ChipInv(Chip(s, "IMR", 2), picStep + 1, 6, 12, 56, 2)
            /\ picStep = 9 => ChipInv(Chip(s, "IMR", 1), picStep + 1, 6, 12, 56, 2)
            /\ picStep = 12 => ChipInv(Chip(s, "IMR", 255), picStep + 1, 6, 12, 56, 2)
            /\ picStep \in {1, 2, 3, 4, 5, 10, 11} => ChipInv(s, picStep + 1, 6, 12, 56, 2)
        BY <1>2, <3>0
      <3>2. Chip(s, "none", 0) = s
        BY DEF Chip
      <3> QED BY <1>2, <2>1, <2>2, <3>1, <3>2, WriteList
    <2> QED BY <1>1, <2>4, <2>5
  <1>6. /\ uptime = ((tscNow * Kilo) % CounterWrap) \div TscKhz
        /\ uptime \in Nat
        /\ (tscNow * Kilo) % CounterWrap >= TscKhz => uptime >= 1
        /\ tscNow = 0 => uptime = 0
    <2>1. PICK x \in Nat : x = (tscNow * Kilo) % CounterWrap /\ (tscNow = 0 => x = 0)
      <3>1. tscNow * Kilo \in Nat
        BY <1>2, <1>3
      <3>0. PICK y \in Int : y = tscNow * Kilo
        BY <3>1
      <3>2. (tscNow * Kilo) % CounterWrap \in Nat
        <4>1. y % CounterWrap \in 0 .. CounterWrap - 1
          BY <1>3, <3>0, Division, Zenon
        <4> QED BY <1>3, <3>0, <4>1
      <3>3. tscNow = 0 => (tscNow * Kilo) % CounterWrap = 0
        BY <1>2, <1>3, SmallRemainder
      <3> QED BY <3>2, <3>3
    <2>2. uptime = x \div TscKhz
      BY <2>1 DEF uptime
    <2>3. x \div TscKhz \in Int
      BY <1>3, Division
    <2>4. x >= TscKhz * 0 => x \div TscKhz >= 0
      BY <1>3, PeriodNumber
    <2>5. x >= TscKhz * 1 => x \div TscKhz >= 1
      BY <1>3, PeriodNumber
    <2>6. x < TscKhz * 1 => x \div TscKhz < 1
      BY <1>3, PeriodNumber
    <2> QED BY <1>3, <2>1, <2>2, <2>3, <2>4, <2>5, <2>6 DEF uptime
  <1>7. PicTypeOK'
    <2>1. chips' \in [{"master", "slave"} -> ChipRecords]
      <3>1. chips'["master"] \in ChipRecords /\ chips'["slave"] \in ChipRecords
        BY <1>5 DEF ChipInv
      <3> QED BY <1>1, <1>2, <1>4, <3>1
    <2> QED BY <1>1, <1>2, <1>6, <2>1 DEF PicTypeOK
  <1>8. WaitInv'
    <2>1. Usecs' = w[4]
      <3>1. picStep' - 1 = picStep
        BY <1>1, <1>2
      <3> QED BY <3>1 DEF Usecs
    <2>2. wrote' # 0 => wrote' < tscNow'
      BY <1>1, <1>2
    <2>3. waitFrom' # -1 => wrote' = tscNow /\ waitFrom' = uptime /\ tscNow # 0 /\ w[4] # 0
      BY <1>1, <1>6
    <2> QED BY <1>1, <1>2, <1>4, <1>6, <2>1, <2>2, <2>3 DEF WaitInv
  <1>9. AtLeastOneMicrosecond'
    <2>1. wrote' # 0 /\ waitFrom' = -1 => uptime = 0 /\ wrote' = tscNow
      BY <1>1, <1>6
    <2> QED BY <1>6, <2>1 DEF AtLeastOneMicrosecond
  <1> QED BY <1>5, <1>7, <1>8, <1>9 DEF PicInv

\* A turn of the loop of udelay keeps the invariant.
LEMMA DelayKeepsInv ==
  ASSUME PicInv, udelay
  PROVE  PicInv'
  <1>1. /\ waitFrom # -1 /\ tscNow' = tscNow + 1
        /\ waitFrom' = IF DelayOver THEN -1 ELSE waitFrom
        /\ UNCHANGED <<picStep, wrote, chips>>
    BY DEF udelay
  <1>2. /\ tscNow \in Nat /\ wrote \in Nat /\ wrote < tscNow /\ Usecs >= 2
        /\ waitFrom = ((wrote * Kilo) % CounterWrap) \div TscKhz
    BY <1>1 DEF PicInv, PicTypeOK, WaitInv
  <1>3. Kilo \in Nat \ {0} /\ TscKhz \in Nat \ {0} /\ CounterWrap \in Nat \ {0}
    BY PicConstants
  <1>4. PicTypeOK'
    BY <1>1 DEF PicInv, PicTypeOK
  <1>5. WaitInv'
    BY <1>1, <1>2 DEF PicInv, WaitInv, Usecs
  <1>6. AtLeastOneMicrosecond'
    <2> SUFFICES ASSUME waitFrom' = -1,
                        (wrote' * Kilo) \div CounterWrap = (tscNow' * Kilo) \div CounterWrap
                 PROVE  (tscNow' - wrote') * Kilo >= TscKhz
      BY DEF AtLeastOneMicrosecond
    <2>0. (wrote * Kilo) \div CounterWrap = ((tscNow + 1) * Kilo) \div CounterWrap
      BY <1>1
    <2>1. DelayOver
      BY <1>1
    <2>2. (((tscNow * Kilo) % CounterWrap) \div TscKhz - ((wrote * Kilo) % CounterWrap) \div TscKhz) % CounterWrap >= Usecs
      BY <1>2, <2>1 DEF DelayOver, Elapsed, uptime
    <2>3. (wrote * Kilo) \div CounterWrap = (tscNow * Kilo) \div CounterWrap
      <3>1. PICK a \in Int, b \in Int, c \in Int :
              /\ a = wrote * Kilo /\ b = tscNow * Kilo /\ c = (tscNow + 1) * Kilo
              /\ a <= b /\ b <= c
        <4>1. wrote * Kilo \in Int /\ tscNow * Kilo \in Int /\ (tscNow + 1) * Kilo \in Int
          BY <1>2, <1>3
        <4>2. wrote * Kilo <= tscNow * Kilo
          BY <1>2, <1>3, ProductMonotone
        <4>3. tscNow * Kilo <= (tscNow + 1) * Kilo
          BY <1>2, <1>3
        <4> QED BY <4>1, <4>2, <4>3
      <3>2. a \div CounterWrap <= b \div CounterWrap /\ b \div CounterWrap <= c \div CounterWrap
        BY <1>3, <3>1, QuotientMonotone
      <3>3. a \div CounterWrap = c \div CounterWrap
        BY <2>0, <3>1
      <3>4. a \div CounterWrap \in Int /\ b \div CounterWrap \in Int
        BY <1>3, Division
      <3>5. a \div CounterWrap = b \div CounterWrap
        BY <3>2, <3>3, <3>4
      <3> QED BY <3>1, <3>5
    <2>4. (tscNow - wrote) * Kilo >= TscKhz
      <3> DEFINE e == (((tscNow * Kilo) % CounterWrap) \div TscKhz - ((wrote * Kilo) % CounterWrap) \div TscKhz) % CounterWrap
      <3>1. Usecs \in Nat /\ e \in Nat
        <4>1. picStep \in 2 .. 13
          BY <1>1 DEF PicInv, PicTypeOK, WaitInv
        <4>2. Usecs \in Nat
          BY <4>1, WriteList DEF Usecs
        <4>3. PICK x \in Int, y \in Int : x = ((tscNow * Kilo) % CounterWrap) \div TscKhz
                                          /\ y = ((wrote * Kilo) % CounterWrap) \div TscKhz
          <5>1. PICK a \in Int, b \in Int : a = tscNow * Kilo /\ b = wrote * Kilo
            BY <1>2, <1>3
          <5>2. PICK f \in Int, g \in Int : f = a % CounterWrap /\ g = b % CounterWrap
            BY <1>3
          <5>3. f \div TscKhz \in Int /\ g \div TscKhz \in Int
            BY <1>3, Division, Zenon
          <5> QED BY <5>1, <5>2, <5>3
        <4>4. (x - y) % CounterWrap \in Nat
          BY <1>3, <4>3
        <4> QED BY <4>2, <4>3, <4>4
      <3>2. e >= 2
        <4> HIDE DEF e
        <4>1. e >= Usecs
          BY <2>2 DEF e
        <4> QED BY <1>2, <3>1, <4>1
      <3> QED BY <1>2, <1>3, <2>3, <3>2, TwoTicksLast
    <2>5. (tscNow + 1 - wrote) * Kilo = (tscNow - wrote) * Kilo + Kilo /\ (tscNow - wrote) * Kilo \in Int
      BY <1>2, <1>3
    <2>6. (tscNow - wrote) * Kilo + Kilo >= TscKhz
      BY <1>3, <2>4, <2>5
    <2>7. tscNow' - wrote' = tscNow + 1 - wrote
      BY <1>1, <1>2
    <2> QED BY <2>5, <2>6, <2>7
  <1> QED BY <1>1, <1>4, <1>5, <1>6 DEF PicInv

\* i8259_init's invariant in a run about it, and the idle step in the others.
ControllerInv == IF part = "pic" THEN PicInv ELSE picStep = 0 /\ wrote = 0

\* i8259_init starts in the invariant and keeps it.
THEOREM ControllerInvariant == Spec => []ControllerInv
  <1>1. Init => ControllerInv
    <2> SUFFICES ASSUME Init PROVE ControllerInv
      OBVIOUS
    <2>1. CASE part = "pic"
      <3>1. /\ tscNow \in StartTimes /\ picStep = 1 /\ waitFrom = -1 /\ wrote = 0
            /\ chips = [c \in {"master", "slave"} |-> [expect |-> 1, mask |-> 0, base |-> 8, cascade |-> 0]]
        BY <2>1 DEF Init, PicStart
      <3>2. PICK c \in ChipRecords : c = [expect |-> 1, mask |-> 0, base |-> 8, cascade |-> 0] /\ c.expect = 1
        <4>1. [expect |-> 1, mask |-> 0, base |-> 8, cascade |-> 0] \in ChipRecords
          BY DEF ChipRecords
        <4> QED BY <4>1
      <3>3. chips["master"] = c /\ chips["slave"] = c /\ chips \in [{"master", "slave"} -> ChipRecords]
        BY <3>1, <3>2
      <3>4. PicTypeOK
        BY <3>1, <3>3, PicConstants DEF PicTypeOK
      <3>5. ChipInv(c, 1, 2, 11, 48, 4) /\ ChipInv(c, 1, 6, 12, 56, 2)
        BY <3>2 DEF ChipInv
      <3>6. WaitInv /\ AtLeastOneMicrosecond
        BY <3>1 DEF WaitInv, AtLeastOneMicrosecond
      <3> QED BY <2>1, <3>1, <3>3, <3>4, <3>5, <3>6 DEF ControllerInv, PicInv
    <2>2. CASE part # "pic"
      BY <2>2 DEF Init, PicIdle, ControllerInv
    <2> QED BY <2>1, <2>2
  <1>2. ControllerInv /\ [Next]_vars => ControllerInv'
    <2> SUFFICES ASSUME ControllerInv, [Next]_vars PROVE ControllerInv'
      OBVIOUS
    <2>1. CASE UNCHANGED <<part, picVars>>
      <3>1. UNCHANGED <<part, tscNow, picStep, waitFrom, wrote, chips>>
        BY <2>1 DEF picVars
      <3> QED BY <3>1 DEF ControllerInv, PicInv, PicTypeOK, WaitInv, AtLeastOneMicrosecond, Usecs
    <2>2. CASE Pic
      <3>1. part = "pic" /\ part' = "pic" /\ i8259_init /\ PicInv
        BY <2>2 DEF Pic, ControllerInv
      <3>2. PicInv'
        BY <3>1, WriteKeepsInv, DelayKeepsInv DEF i8259_init
      <3> QED BY <3>1, <3>2 DEF ControllerInv
    <2> QED BY <2>1, <2>2 DEF Next, vars, Mode, Cpu, Clock, Vmx, Guest
  <1> QED BY <1>1, <1>2, PTL DEF Spec

\* i8259_init gives each controller its words in order, a whole microsecond for each, and
\* leaves both masked, at every speed of the TSC.
THEOREM PicsAreAlwaysSetUp == Spec => []PicsAreSetUp
  <1>1. ControllerInv => PicsAreSetUp
    <2> SUFFICES ASSUME ControllerInv PROVE PicsAreSetUp
      OBVIOUS
    <2>1. AtLeastOneMicrosecond
      BY DEF ControllerInv, PicInv, AtLeastOneMicrosecond
    <2>2. ASSUME PicDone
          PROVE  \A c \in DOMAIN chips :
                   /\ chips[c].expect = 1 /\ chips[c].mask = 255
                   /\ chips[c].base >= 32 /\ chips[c].base % 8 = 0
                   /\ chips["master"].cascade = 2^(chips["slave"].cascade)
      <3>1. PicInv /\ picStep = 13
        BY <2>2, WriteList DEF PicDone, ControllerInv, PicInv, PicTypeOK
      <3>2. /\ DOMAIN chips = {"master", "slave"}
            /\ ChipInv(chips["master"], 13, 2, 11, 48, 4) /\ ChipInv(chips["slave"], 13, 6, 12, 56, 2)
        BY <3>1 DEF PicInv, PicTypeOK
      <3>3. /\ chips["master"].expect = 1 /\ chips["master"].mask = 255
            /\ chips["master"].base = 48 /\ chips["master"].cascade = 4
        BY <3>2 DEF ChipInv
      <3>4. /\ chips["slave"].expect = 1 /\ chips["slave"].mask = 255
            /\ chips["slave"].base = 56 /\ chips["slave"].cascade = 2
        BY <3>2 DEF ChipInv
      <3>5. 2^2 = 4
        OBVIOUS
      <3> QED BY <3>2, <3>3, <3>4, <3>5
    <2>3. PicIsQuiet
      BY <2>2 DEF PicIsQuiet
    <2> QED BY <2>1, <2>3 DEF PicsAreSetUp
  <1> QED BY <1>1, ControllerInvariant, PTL

-----------------------------------------------------------------------------
(***************************************************************************)
(* VMX: from the capabilities to the first exit.                           *)
(***************************************************************************)
EptExits == {"CR3_STORE_EXITING", "INVLPG_EXITING"}
ControlWords == {"CPU", "CPU2", "EXIT", "PIN", "ENTRY"}

\* What a processor forces it reports, and it reports nothing it lacks.
ProcessorFits ==
  /\ \A w \in ControlWords : processor.must[w] \subseteq processor.low[w] /\ processor.low[w] \subseteq processor.high[w]
  /\ processor.must["CPU"] \cap EptExits = {}
  /\ \A w \in ControlWords : "IA32E_MODE" \notin processor.low[w]

\* A word of vmcs_config is one that the processor allows and the monitor needs.
WordFits(w) ==
  /\ processor.must[w] \subseteq vmcs_config[w] /\ vmcs_config[w] \subseteq processor.high[w]
  /\ Minimum[w] \subseteq vmcs_config[w]
  /\ w = "EXIT" /\ "LOAD_PAT" \in processor.high["EXIT"] => "LOAD_PAT" \in vmcs_config["EXIT"]
  /\ "IA32E_MODE" \notin vmcs_config[w]

\* The host's registers.
HostRecord(cr0, cr4, efer, base, tss, vmxon) ==
  [cr0 |-> cr0, cr3 |-> "kpml4", cr4 |-> cr4,
   efer |-> efer, fs_base |-> 0, gs_base |-> "percpu",
   cs |-> 16, ds |-> 24, es |-> 24, ss |-> 24, fs |-> 0, gs |-> 0, tr |-> 64,
   gdtr |-> "gdt", gdt_limit |-> 127, idtr |-> "idt", idt_limit |-> 4095,
   sysenter_cs |-> 0, sysenter_esp |-> "null", sysenter_eip |-> "null", tr_base |-> base, tss |-> tss,
   pat |-> "host", msrs |-> "host", vmxon |-> vmxon]

HostFields(cr4, vmxon) ==
  HostRecord({"PE", "PG", "WP", "NE"}, cr4, {"LME", "LMA", "SCE"}, TssAddress, TssDescriptor(TssAddress), vmxon)

\* The same; on: CR4.VMXE, vmxon.
HostAt(on, vmxon) == HostFields({"PAE"} \cup (IF on THEN {"VMXE"} ELSE {}), vmxon)

\* The VMCS from vmx_vcpu_setup on.
VmcsFields(rev, region, efer, eptp, controls, host, msrs, seg, rip) ==
  [revision_id |-> rev, region |-> region, eptp |-> eptp,
   controls |-> controls, efer |-> efer, link_pointer |-> -1, vpid |-> 1,
   exception_bitmap |-> {6, 14}, cr3_targets |-> 0, msr_lists |-> 4, host |-> host, hostMsrs |-> msrs,
   seg |-> seg,
   rflags |-> {"ONE"}, rip |-> rip, activity |-> "active", interruptibility |-> {},
   cr0 |-> {"WP", "NE", "NW", "CD", "ET"}, cr3g |-> 0, cr4 |-> {"VMXE"}]

\* Its segments, with CS.
SegmentsOf(cs) ==
  [CS |-> cs, DS |-> GuestSeg(0, 0, 147), ES |-> GuestSeg(0, 0, 147),
   SS |-> GuestSeg(0, 0, 147), FS |-> GuestSeg(0, 0, 147), GS |-> GuestSeg(0, 0, 147),
   TR |-> GuestSeg(0, 0, 139), LDTR |-> GuestSeg(0, 0, 130)]

ControlsOf(config) == [w \in DOMAIN Controls |-> config[w]]

\* GUEST_IA32_EFER after vmx_set_cr0.
EferOf(region) == IF "LME" \in region.efer /\ region.pg THEN region.efer \ {"LMA"} ELSE region.efer

VmcsAt(eptp, cs, rip) ==
  VmcsFields(processor.rev, vmcs.region, EferOf(vmcs.region), eptp, ControlsOf(vmcs_config), HostArea, hostRegs.msrs, SegmentsOf(cs), rip)

Eptp == [root |-> "ept_pml4", memtype |-> 6, walk |-> 3]
ResetCs == GuestSeg(61440, 65535 * 4096, 155)
ResetRip == 65520
StartCs(start_ip) == vmx_set_segment(StartSegment(start_ip))
StartRip(start_ip) == start_ip % 65536

VmxPcs == {"support", "bios", "adjust", "basic", "ept", "enable", "setup", "tdp", "run_vcpu", "enter", "guest",
           "exited", "panic", "rejected"}

VmxShape ==
  /\ setup = [pc |-> setup.pc, word |-> setup.word, entered |-> setup.entered, start_ip |-> setup.start_ip]
  /\ setup.pc \in VmxPcs /\ setup.word \in 1 .. 5
  /\ vmcs_config = [CPU |-> vmcs_config.CPU, CPU2 |-> vmcs_config.CPU2, EXIT |-> vmcs_config.EXIT,
                    PIN |-> vmcs_config.PIN, ENTRY |-> vmcs_config.ENTRY, size |-> vmcs_config.size,
                    revision_id |-> vmcs_config.revision_id]
  /\ ProcessorFits

\* Before VMX is enabled.
VmxChecked ==
  /\ setup.pc \in {"support", "bios", "adjust", "basic", "ept", "enable"} =>
       hostRegs = HostAt(TRUE, FALSE) \/ hostRegs = HostAt(FALSE, FALSE)
  /\ setup.pc \in {"adjust", "basic", "ept", "enable"} => ~DisabledByBios(feature_control)

\* The words adjusted so far.
VmxConfigured ==
  /\ setup.pc \in {"support", "bios"} => setup.word = 1
  /\ setup.pc = "adjust" => \A i \in 1 .. (setup.word - 1) : WordFits(WordOrder[i])
  /\ setup.pc \in {"basic", "ept", "enable", "setup", "tdp", "run_vcpu", "enter", "guest"} =>
       \A w \in ControlWords : WordFits(w)
  /\ setup.pc \in {"ept", "enable"} => vmcs_config.revision_id = processor.rev

\* The VMCS is built.
VmxPrepared ==
  /\ setup.pc \in {"setup", "tdp", "run_vcpu", "enter", "guest"} => hostRegs = HostAt(TRUE, TRUE)
  /\ setup.pc = "setup" => vmcs = [revision_id |-> processor.rev, region |-> vmcs.region]
  /\ setup.pc = "tdp" => vmcs = VmcsAt(NoEptp, ResetCs, ResetRip)
  /\ setup.pc = "run_vcpu" => vmcs = VmcsAt(Eptp, ResetCs, ResetRip)
  /\ setup.pc \in {"enter", "guest"} =>
       setup.start_ip \in Nat /\ vmcs = VmcsAt(Eptp, StartCs(setup.start_ip), StartRip(setup.start_ip))

VmxEntered ==
  /\ setup.pc = "guest" => setup.entered = hostRegs
  /\ setup.pc = "exited" => HostIsRestored /\ SegmentsReadBack
  /\ setup.pc = "rejected" => ~AsCleared(vmcs.region)

VmxInv == VmxShape /\ VmxChecked /\ VmxConfigured /\ VmxPrepared /\ VmxEntered

-----------------------------------------------------------------------------
\* The five control words, in the order setup_vmcs_config adjusts them in.
LEMMA WordsAre ==
  /\ DOMAIN Controls = ControlWords /\ Len(WordOrder) = 5
  /\ WordOrder[1] = "CPU" /\ WordOrder[2] = "CPU2" /\ WordOrder[3] = "EXIT" /\ WordOrder[4] = "PIN"
  /\ WordOrder[5] = "ENTRY"
  BY DEF Controls, WordOrder, ControlWords

\* The processor forces some controls and lacks others.
ProcessorIs(w, forced, lacking) ==
  /\ w \in DOMAIN Controls /\ forced \subseteq ForcedControls
  /\ lacking \subseteq Controls[w] /\ lacking \cap forced = {}
  /\ processor.must = [c \in DOMAIN Controls |-> Controls[c] \cap forced]
  /\ processor.low = [c \in DOMAIN Controls |-> (Default1[c] \cup (Controls[c] \cap forced)) \ lacking]
  /\ processor.high = [c \in DOMAIN Controls |-> Controls[c] \ (IF c = w THEN lacking ELSE {})]

\* The processor's capabilities agree with each other, and nothing is configured yet.
LEMMA VmxStarts ==
  ASSUME VmxInit
  PROVE  VmxInv
  <1>1. /\ setup = [pc |-> "support", word |-> 1, entered |-> <<>>, start_ip |-> 0]
        /\ vmcs_config = [CPU |-> {}, CPU2 |-> {}, EXIT |-> {}, PIN |-> {}, ENTRY |-> {}, size |-> 0, revision_id |-> 0]
    BY DEF VmxInit
  <1>2. hostRegs = HostAt(TRUE, FALSE) \/ hostRegs = HostAt(FALSE, FALSE)
    <2>1. PICK on \in BOOLEAN : hostRegs = HostAt(on, FALSE)
      BY Zenon DEF VmxInit, HostAt, HostFields, HostRecord
    <2> QED BY <2>1
  <1>3. PICK w, forced, lacking : ProcessorIs(w, forced, lacking)
    <2>1. PICK vmx \in BOOLEAN, rev \in {1, 2}, w \in DOMAIN Controls, forced \in SUBSET ForcedControls,
               bad \in {"nothing", "2MB_PAGE", "PAGE_WALK_4", "size", "memtype"} :
            \E lacking \in {c \in SUBSET Controls[w] : Cardinality(c) <= MaxLacking} :
              /\ lacking \cap forced = {} /\ (bad # "nothing" => lacking = {} /\ forced = {})
              /\ processor =
                   [vmx |-> vmx, rev |-> rev, size |-> IF bad = "size" THEN 4097 ELSE 1024,
                    memtype |-> IF bad = "memtype" THEN 0 ELSE 6,
                    ept |-> {"2MB_PAGE", "PAGE_WALK_4"} \ {bad},
                    must |-> [c \in DOMAIN Controls |-> Controls[c] \cap forced],
                    low  |-> [c \in DOMAIN Controls |-> (Default1[c] \cup (Controls[c] \cap forced)) \ lacking],
                    high |-> [c \in DOMAIN Controls |-> Controls[c] \ (IF c = w THEN lacking ELSE {})]]
      BY Zenon DEF VmxInit
    <2>2. PICK lacking \in {c \in SUBSET Controls[w] : Cardinality(c) <= MaxLacking} :
              /\ lacking \cap forced = {} /\ (bad # "nothing" => lacking = {} /\ forced = {})
              /\ processor =
                   [vmx |-> vmx, rev |-> rev, size |-> IF bad = "size" THEN 4097 ELSE 1024,
                    memtype |-> IF bad = "memtype" THEN 0 ELSE 6,
                    ept |-> {"2MB_PAGE", "PAGE_WALK_4"} \ {bad},
                    must |-> [c \in DOMAIN Controls |-> Controls[c] \cap forced],
                    low  |-> [c \in DOMAIN Controls |-> (Default1[c] \cup (Controls[c] \cap forced)) \ lacking],
                    high |-> [c \in DOMAIN Controls |-> Controls[c] \ (IF c = w THEN lacking ELSE {})]]
      BY <2>1, Zenon
    <2>3. ProcessorIs(w, forced, lacking)
      BY <2>1, <2>2 DEF ProcessorIs
    <2> QED BY <2>3, Zenon
  <1>4. \A c \in ControlWords : Default1[c] \subseteq Controls[c]
    BY DEF Default1, Controls, ControlWords
  <1>5. ProcessorFits
    <2>1. \A c \in ControlWords : /\ processor.must[c] = Controls[c] \cap forced
                                  /\ processor.low[c] = (Default1[c] \cup (Controls[c] \cap forced)) \ lacking
                                  /\ processor.high[c] = Controls[c] \ (IF c = w THEN lacking ELSE {})
      BY <1>3, WordsAre DEF ProcessorIs
    <2>2. \A c \in ControlWords : processor.must[c] \subseteq processor.low[c]
      BY <1>3, <2>1 DEF ProcessorIs
    <2>3. \A c \in ControlWords : processor.low[c] \subseteq processor.high[c]
      BY <1>4, <2>1
    <2>4. processor.must["CPU"] \cap EptExits = {}
      BY <1>3, <2>1, VmxConstants DEF EptExits, ControlWords, ProcessorIs
    <2>5. \A c \in ControlWords : "IA32E_MODE" \notin Default1[c]
      BY DEF Default1, ControlWords
    <2>6. \A c \in ControlWords : "IA32E_MODE" \notin processor.low[c]
      <3>1. "IA32E_MODE" \notin forced
        BY <1>3, VmxConstants DEF ProcessorIs
      <3> QED BY <2>1, <2>5, <3>1
    <2> QED BY <2>2, <2>3, <2>4, <2>6 DEF ProcessorFits
  <1>6. setup.pc = "support" /\ setup.word = 1
    BY <1>1
  <1>7. VmxShape
    <2>1. /\ setup = [pc |-> setup.pc, word |-> setup.word, entered |-> setup.entered, start_ip |-> setup.start_ip]
          /\ setup.pc \in VmxPcs /\ setup.word \in 1 .. 5
      BY <1>1 DEF VmxPcs
    <2>2. vmcs_config = [CPU |-> vmcs_config.CPU, CPU2 |-> vmcs_config.CPU2, EXIT |-> vmcs_config.EXIT,
                      PIN |-> vmcs_config.PIN, ENTRY |-> vmcs_config.ENTRY, size |-> vmcs_config.size,
                      revision_id |-> vmcs_config.revision_id]
      BY <1>1
    <2> QED BY <1>5, <2>1, <2>2, Zenon DEF VmxShape
  <1>8. VmxChecked
    BY <1>2, <1>6 DEF VmxChecked
  <1>9. VmxConfigured
    BY <1>6 DEF VmxConfigured
  <1>10. VmxPrepared /\ VmxEntered
    BY <1>6 DEF VmxPrepared, VmxEntered
  <1> QED BY <1>7, <1>8, <1>9, <1>10 DEF VmxInv

\* The place moves on.
LEMMA GotoIs ==
  ASSUME VmxShape, NEW p \in VmxPcs, Goto(p)
  PROVE  /\ setup'.pc = p /\ setup'.word = setup.word /\ setup'.entered = setup.entered
         /\ setup'.start_ip = setup.start_ip
         /\ setup' = [pc |-> setup'.pc, word |-> setup'.word, entered |-> setup'.entered, start_ip |-> setup'.start_ip]
         /\ setup'.pc \in VmxPcs /\ setup'.word \in 1 .. 5
  <1>1. /\ setup = [pc |-> setup.pc, word |-> setup.word, entered |-> setup.entered, start_ip |-> setup.start_ip]
        /\ setup.word \in 1 .. 5
    BY Zenon DEF VmxShape
  <1>2. setup' = [setup EXCEPT !.pc = p]
    BY DEF Goto
  <1>3. setup' = [pc |-> p, word |-> setup.word, entered |-> setup.entered, start_ip |-> setup.start_ip]
    BY <1>1, <1>2
  <1> QED BY <1>1, <1>3

\* A step that leaves the processor and vmcs_config alone keeps the shape of both.
LEMMA ShapeKept ==
  ASSUME VmxShape, UNCHANGED <<processor, vmcs_config>>, setup'.pc \in VmxPcs, setup'.word \in 1 .. 5,
         setup' = [pc |-> setup'.pc, word |-> setup'.word, entered |-> setup'.entered, start_ip |-> setup'.start_ip]
  PROVE  VmxShape' /\ \A w : WordFits(w)' = WordFits(w)
  <1>1. ProcessorFits'
    BY DEF VmxShape, ProcessorFits
  <1>2. vmcs_config' = [CPU |-> vmcs_config'.CPU, CPU2 |-> vmcs_config'.CPU2, EXIT |-> vmcs_config'.EXIT,
                      PIN |-> vmcs_config'.PIN, ENTRY |-> vmcs_config'.ENTRY, size |-> vmcs_config'.size,
                      revision_id |-> vmcs_config'.revision_id]
    BY DEF VmxShape
  <1>3. \A w : WordFits(w)' = WordFits(w)
    BY DEF WordFits
  <1> QED BY <1>1, <1>2, <1>3, Zenon DEF VmxShape

\* The VMCS expected is a function of the processor, vmcs_config, the host's registers and the
\* region.
LEMMA SameVmcs ==
  ASSUME UNCHANGED <<processor, vmcs_config, hostRegs>>, vmcs'.region = vmcs.region
  PROVE  \A eptp, cs, rip : VmcsAt(eptp, cs, rip)' = VmcsAt(eptp, cs, rip)
  <1>1. HostArea' = HostArea
    BY DEF HostArea, get_tr_base
  <1> QED BY <1>1 DEF VmcsAt

\* A VMCS built from the region holds it.
LEMMA VmcsHasRegion ==
  \A v, eptp, cs, rip : v = VmcsAt(eptp, cs, rip) => v.region = vmcs.region
  <1> SUFFICES ASSUME NEW v, NEW eptp, NEW cs, NEW rip, v = VmcsAt(eptp, cs, rip)
               PROVE  v.region = vmcs.region
    OBVIOUS
  <1>2. PICK rev, reg, efer, controls, host, msrs, seg :
          rev = processor.rev /\ reg = vmcs.region /\ efer = EferOf(vmcs.region) /\ controls = ControlsOf(vmcs_config)
          /\ host = HostArea /\ msrs = hostRegs.msrs /\ seg = SegmentsOf(cs)
    OBVIOUS
  <1>3. v = VmcsFields(rev, reg, efer, eptp, controls, host, msrs, seg, rip)
    BY <1>2, Zenon DEF VmcsAt
  <1>4. v.region = reg
    BY <1>3 DEF VmcsFields
  <1> QED BY <1>2, <1>4, Zenon

\* The guest's segments in the VMCS.
LEMMA VmcsHasSegments ==
  \A eptp, cs, rip : vmcs = VmcsAt(eptp, cs, rip) => vmcs.seg = SegmentsOf(cs)
  <1> SUFFICES ASSUME NEW eptp, NEW cs, NEW rip, vmcs = VmcsAt(eptp, cs, rip)
               PROVE  vmcs.seg = SegmentsOf(cs)
    OBVIOUS
  <1>1. PICK v : v = vmcs
    OBVIOUS
  <1>2. PICK rev, reg, efer, controls, host, msrs, seg :
          rev = processor.rev /\ reg = vmcs.region /\ efer = EferOf(vmcs.region) /\ controls = ControlsOf(vmcs_config)
          /\ host = HostArea /\ msrs = hostRegs.msrs /\ seg = SegmentsOf(cs)
    OBVIOUS
  <1>3. v = VmcsFields(rev, reg, efer, eptp, controls, host, msrs, seg, rip)
    BY <1>1, <1>2, Zenon DEF VmcsAt
  <1>4. v.seg = seg
    BY <1>3 DEF VmcsFields
  <1> QED BY <1>1, <1>2, <1>4, Zenon

\* vmx_set_tdp writes EPT_POINTER alone.
LEMMA VmcsWithEptp ==
  \A eptp, cs, rip, e : vmcs = VmcsAt(eptp, cs, rip) => [vmcs EXCEPT !.eptp = e] = VmcsAt(e, cs, rip)
  <1> SUFFICES ASSUME NEW eptp, NEW cs, NEW rip, vmcs = VmcsAt(eptp, cs, rip), NEW e
               PROVE  [vmcs EXCEPT !.eptp = e] = VmcsAt(e, cs, rip)
    OBVIOUS
  <1>1. PICK v : v = vmcs
    OBVIOUS
  <1>2. PICK rev, reg, efer, controls, host, msrs, seg :
          rev = processor.rev /\ reg = vmcs.region /\ efer = EferOf(vmcs.region) /\ controls = ControlsOf(vmcs_config)
          /\ host = HostArea /\ msrs = hostRegs.msrs /\ seg = SegmentsOf(cs)
    OBVIOUS
  <1>3. v = VmcsFields(rev, reg, efer, eptp, controls, host, msrs, seg, rip)
    BY <1>1, <1>2, Zenon DEF VmcsAt
  <1>4. [v EXCEPT !.eptp = e] = VmcsFields(rev, reg, efer, e, controls, host, msrs, seg, rip)
    BY <1>3 DEF VmcsFields
  <1> QED BY <1>1, <1>2, <1>4, Zenon DEF VmcsAt

\* run_vcpu writes CS and RIP alone.
LEMMA VmcsWithStart ==
  \A eptp, cs, rip, s, i, z : vmcs = VmcsAt(eptp, cs, rip) /\ z = [vmcs EXCEPT !.seg = SegmentsOf(s), !.rip = i] =>
    z = VmcsAt(eptp, s, i)
  <1> SUFFICES ASSUME NEW eptp, NEW cs, NEW rip, vmcs = VmcsAt(eptp, cs, rip), NEW s, NEW i
               PROVE  [vmcs EXCEPT !.seg = SegmentsOf(s), !.rip = i] = VmcsAt(eptp, s, i)
    BY ZenonT(60)
  <1>1. PICK v : v = vmcs
    OBVIOUS
  <1>2. PICK rev, reg, efer, controls, host, msrs, seg :
          rev = processor.rev /\ reg = vmcs.region /\ efer = EferOf(vmcs.region) /\ controls = ControlsOf(vmcs_config)
          /\ host = HostArea /\ msrs = hostRegs.msrs /\ seg = SegmentsOf(cs)
    OBVIOUS
  <1>3. v = VmcsFields(rev, reg, efer, eptp, controls, host, msrs, seg, rip)
    BY <1>1, <1>2, Zenon DEF VmcsAt
  <1>5. PICK t : t = SegmentsOf(s)
    OBVIOUS
  <1>6. PICK u : u = [v EXCEPT !.seg = t]
    OBVIOUS
  <1>7. u = VmcsFields(rev, reg, efer, eptp, controls, host, msrs, t, rip)
    BY <1>3, <1>6 DEF VmcsFields
  <1>8. [u EXCEPT !.rip = i] = VmcsFields(rev, reg, efer, eptp, controls, host, msrs, t, i)
    BY <1>7, SMTT(40) DEF VmcsFields
  <1>9. [v EXCEPT !.seg = t, !.rip = i] = [u EXCEPT !.rip = i]
    BY <1>6
  <1> QED BY <1>1, <1>2, <1>5, <1>8, <1>9, Zenon DEF VmcsAt

\* A panic stops the setup wherever it is.
LEMMA Panics ==
  ASSUME VmxInv, Panic, UNCHANGED <<processor, vmcs_config>>
  PROVE  VmxInv'
  <1>1. setup'.pc = "panic" /\ VmxShape'
    BY GotoIs, ShapeKept DEF Panic, VmxPcs, VmxInv
  <1> QED BY <1>1 DEF VmxInv, VmxChecked, VmxConfigured, VmxPrepared, VmxEntered

\* The checks of kvm_init, and the basic and the EPT capabilities.
LEMMA EarlySteps ==
  ASSUME VmxInv, cpu_has_kvm_support \/ vmx_disabled_by_bios \/ BasicCapabilities \/ vmx_hardware_setup
  PROVE  VmxInv'
  <1>0. VmxShape /\ VmxChecked /\ VmxConfigured
    BY DEF VmxInv
  <1>1. CASE cpu_has_kvm_support
    <2>1. CASE Panic
      BY <1>1, <2>1, Panics DEF cpu_has_kvm_support
    <2>2. CASE Goto("bios")
      <3>1. setup.pc = "support" /\ UNCHANGED <<processor, feature_control, hostRegs, vmcs_config, vmx_capability, vmcs>>
        BY <1>1 DEF cpu_has_kvm_support, At
      <3>2. setup'.pc = "bios" /\ VmxShape' /\ setup'.word = setup.word
        BY <1>0, <2>2, <3>1, GotoIs, ShapeKept DEF VmxPcs
      <3>3. VmxChecked'
        BY <1>0, <3>1, <3>2 DEF VmxChecked
      <3>4. VmxConfigured'
        BY <1>0, <3>1, <3>2 DEF VmxConfigured
      <3> QED BY <3>2, <3>3, <3>4 DEF VmxInv, VmxPrepared, VmxEntered
    <2> QED BY <1>1, <2>1, <2>2 DEF cpu_has_kvm_support
  <1>2. CASE vmx_disabled_by_bios
    <2>1. CASE DisabledByBios(feature_control)
      BY <1>2, <2>1, Panics DEF vmx_disabled_by_bios
    <2>2. CASE ~DisabledByBios(feature_control)
      <3>1. setup.pc = "bios" /\ UNCHANGED <<processor, feature_control, hostRegs, vmcs_config, vmx_capability, vmcs>>
            /\ Goto("adjust")
        BY <1>2, <2>2 DEF vmx_disabled_by_bios, At
      <3>2. setup'.pc = "adjust" /\ VmxShape' /\ setup'.word = setup.word
        BY <1>0, <3>1, GotoIs, ShapeKept DEF VmxPcs
      <3>3. VmxChecked'
        BY <1>0, <2>2, <3>1, <3>2 DEF VmxChecked, DisabledByBios
      <3>4. VmxConfigured'
        <4>1. setup'.word = 1
          BY <1>0, <3>1, <3>2 DEF VmxConfigured
        <4>2. \A i \in 1 .. (setup'.word - 1) : FALSE
          BY <4>1
        <4> QED BY <3>2, <4>2 DEF VmxConfigured
      <3> QED BY <3>2, <3>3, <3>4 DEF VmxInv, VmxPrepared, VmxEntered
    <2> QED BY <2>1, <2>2
  <1>3. CASE BasicCapabilities
    <2>1. setup.pc = "basic" /\ UNCHANGED <<processor, feature_control, hostRegs, vmx_capability, vmcs>>
      BY <1>3 DEF BasicCapabilities, At
    <2>2. CASE Panic /\ UNCHANGED vmcs_config
      BY <2>1, <2>2, Panics
    <2>3. CASE /\ vmcs_config' = [vmcs_config EXCEPT !.size = processor.size, !.revision_id = processor.rev]
               /\ Goto("ept")
      <3>1. setup'.pc = "ept" /\ setup'.pc \in VmxPcs /\ setup'.word \in 1 .. 5
            /\ setup' = [pc |-> setup'.pc, word |-> setup'.word, entered |-> setup'.entered, start_ip |-> setup'.start_ip]
        BY <1>0, <2>3, GotoIs DEF VmxPcs
      <3>2. vmcs_config = [CPU |-> vmcs_config.CPU, CPU2 |-> vmcs_config.CPU2, EXIT |-> vmcs_config.EXIT,
                      PIN |-> vmcs_config.PIN, ENTRY |-> vmcs_config.ENTRY, size |-> vmcs_config.size,
                      revision_id |-> vmcs_config.revision_id] /\ ProcessorFits
        BY <1>0, Zenon DEF VmxShape
      <3>3. vmcs_config' = [CPU |-> vmcs_config.CPU, CPU2 |-> vmcs_config.CPU2, EXIT |-> vmcs_config.EXIT,
                      PIN |-> vmcs_config.PIN, ENTRY |-> vmcs_config.ENTRY, size |-> processor.size,
                      revision_id |-> processor.rev]
        BY <2>3, <3>2
      <3>4. /\ vmcs_config' = [CPU |-> vmcs_config'.CPU, CPU2 |-> vmcs_config'.CPU2, EXIT |-> vmcs_config'.EXIT,
                      PIN |-> vmcs_config'.PIN, ENTRY |-> vmcs_config'.ENTRY, size |-> vmcs_config'.size,
                      revision_id |-> vmcs_config'.revision_id]
            /\ vmcs_config'.revision_id = processor.rev
            /\ \A w \in ControlWords : vmcs_config'[w] = vmcs_config[w]
        BY <3>2, <3>3 DEF ControlWords
      <3>5. ProcessorFits'
        BY <2>1, <3>2 DEF ProcessorFits
      <3>6. VmxShape'
        BY <3>1, <3>4, <3>5, Zenon DEF VmxShape
      <3>7. VmxConfigured'
        <4>1. \A w \in ControlWords : WordFits(w)
          BY <1>0, <2>1 DEF VmxConfigured
        <4>2. "EXIT" \in ControlWords
          BY DEF ControlWords
        <4>3. \A w \in ControlWords : WordFits(w)'
          BY <2>1, <3>4, <4>1, <4>2 DEF WordFits
        <4> QED BY <2>1, <3>1, <3>4, <4>3 DEF VmxConfigured
      <3>8. VmxChecked'
        BY <1>0, <2>1, <3>1 DEF VmxChecked, DisabledByBios
      <3> QED BY <3>1, <3>6, <3>7, <3>8 DEF VmxInv, VmxPrepared, VmxEntered
    <2> QED BY <1>3, <2>2, <2>3 DEF BasicCapabilities
  <1>4. CASE vmx_hardware_setup
    <2>1. setup.pc = "ept" /\ UNCHANGED <<processor, feature_control, hostRegs, vmcs_config, vmx_capability, vmcs>>
      BY <1>4 DEF vmx_hardware_setup, At
    <2>2. CASE Panic
      BY <2>1, <2>2, Panics
    <2>3. CASE Goto("enable")
      <3>1. setup'.pc = "enable" /\ VmxShape' /\ \A w : WordFits(w)' = WordFits(w)
        BY <1>0, <2>1, <2>3, GotoIs, ShapeKept DEF VmxPcs
      <3>2. VmxChecked'
        BY <1>0, <2>1, <3>1 DEF VmxChecked, DisabledByBios
      <3>3. VmxConfigured'
        BY <1>0, <2>1, <3>1 DEF VmxConfigured
      <3> QED BY <3>1, <3>2, <3>3 DEF VmxInv, VmxPrepared, VmxEntered
    <2> QED BY <1>4, <2>2, <2>3 DEF vmx_hardware_setup
  <1> QED BY <1>1, <1>2, <1>3, <1>4

\* cr4_set_bits and VMXON change one register each.
LEMMA HostRecordWith ==
  ASSUME NEW r, NEW a, NEW b, NEW c, NEW d, NEW e, NEW f, r = HostRecord(a, b, c, d, e, f), NEW x
  PROVE  /\ [r EXCEPT !.cr4 = x] = HostRecord(a, x, c, d, e, f)
         /\ [r EXCEPT !.vmxon = x] = HostRecord(a, b, c, d, e, x)
  <1>1. [r EXCEPT !.cr4 = x] = HostRecord(a, x, c, d, e, f)
    BY SMTT(60) DEF HostRecord
  <1>2. [r EXCEPT !.vmxon = x] = HostRecord(a, b, c, d, e, x)
    BY SMTT(60) DEF HostRecord
  <1> QED BY <1>1, <1>2

\* VMXON finds FEATURE_CONTROL, CR4 and its region in order.
LEMMA EnableStep ==
  ASSUME VmxInv, vmx_vcpu_enable
  PROVE  VmxInv'
  <1>0. VmxShape /\ VmxChecked /\ VmxConfigured
    BY DEF VmxInv
  <1>1. setup.pc = "enable" /\ UNCHANGED <<processor, vmcs_config, vmx_capability>>
    BY DEF vmx_vcpu_enable, At
  <1>2. CASE "VMXE" \in hostRegs.cr4
    BY <1>1, <1>2, Panics DEF vmx_vcpu_enable
  <1>3. CASE "VMXE" \notin hostRegs.cr4
    <2>1. hostRegs = HostAt(FALSE, FALSE)
      <3>1. "VMXE" \in HostAt(TRUE, FALSE).cr4
        BY DEF HostAt, HostFields, HostRecord
      <3> QED BY <1>0, <1>1, <1>3, <3>1 DEF VmxChecked
    <2>2. ~DisabledByBios(feature_control) /\ vmcs_config.revision_id = processor.rev
      BY <1>0, <1>1 DEF VmxChecked, VmxConfigured
    <2>3. ASSUME NEW writes, writes = ~(TestBits \subseteq feature_control)
          PROVE  /\ ~(writes /\ "LOCKED" \in feature_control)
                 /\ ~VmxonFaults(IF writes THEN feature_control \cup TestBits ELSE feature_control,
                                 hostRegs.cr4 \cup {"VMXE"}, vmcs_config.revision_id)
      BY <2>2, <2>3 DEF DisabledByBios, TestBits, VmxonFaults
    <2>4. /\ hostRegs' = [hostRegs EXCEPT !.cr4 = hostRegs.cr4 \cup {"VMXE"}, !.vmxon = TRUE]
          /\ \E region \in Regions : vmcs' = [revision_id |-> vmcs_config.revision_id, region |-> region]
          /\ Goto("setup")
      BY <1>3, <2>3 DEF vmx_vcpu_enable
    <2>9. vmcs' = [revision_id |-> processor.rev, region |-> vmcs'.region]
      BY <2>2, <2>4
    <2>5. hostRegs' = HostAt(TRUE, TRUE)
      <3>1. PICK a, b : a = {"PAE"} \cup {"VMXE"} /\ b = {"PAE"} \cup {}
        OBVIOUS
      <3>2. HostAt(TRUE, TRUE) = HostFields(a, TRUE) /\ HostAt(FALSE, FALSE) = HostFields(b, FALSE)
        BY <3>1 DEF HostAt
      <3>3. hostRegs.cr4 \cup {"VMXE"} = a
        <4>1. HostFields(b, FALSE).cr4 = b
          BY DEF HostFields, HostRecord
        <4> QED BY <2>1, <3>1, <3>2, <4>1
      <3>4. PICK cr0, efer, base, tss, off, on :
              /\ cr0 = {"PE", "PG", "WP", "NE"} /\ efer = {"LME", "LMA", "SCE"}
              /\ base = TssAddress /\ tss = TssDescriptor(TssAddress) /\ off = FALSE /\ on = TRUE
        OBVIOUS
      <3>5. hostRegs = HostRecord(cr0, b, efer, base, tss, off)
        BY <2>1, <3>2, <3>4, Zenon DEF HostFields
      <3>6. PICK h, g : h = hostRegs /\ g = [h EXCEPT !.cr4 = a]
        OBVIOUS
      <3>9. g = HostRecord(cr0, a, efer, base, tss, off)
        <4>1. h = HostRecord(cr0, b, efer, base, tss, off)
          BY <3>5, <3>6
        <4>2. [h EXCEPT !.cr4 = a] = HostRecord(cr0, a, efer, base, tss, off)
          BY ONLY <4>1, SMTT(60) DEF HostRecord
        <4> QED BY <3>6, <4>2
      <3>7. hostRegs' = [g EXCEPT !.vmxon = on]
        BY <2>4, <3>3, <3>4, <3>6
      <3>8. hostRegs' = HostRecord(cr0, a, efer, base, tss, on)
        <4>1. [g EXCEPT !.vmxon = on] = HostRecord(cr0, a, efer, base, tss, on)
          BY <3>9, HostRecordWith
        <4> QED BY <3>7, <4>1
      <3> QED BY <3>2, <3>4, <3>8, Zenon DEF HostFields
    <2>6. setup'.pc = "setup" /\ VmxShape' /\ \A w : WordFits(w)' = WordFits(w)
      BY <1>0, <1>1, <2>4, GotoIs, ShapeKept DEF VmxPcs
    <2>7. VmxConfigured'
      BY <1>0, <1>1, <2>6 DEF VmxConfigured
    <2>8. VmxPrepared'
      BY <1>1, <2>5, <2>6, <2>9 DEF VmxPrepared
    <2> QED BY <2>6, <2>7, <2>8 DEF VmxInv, VmxChecked, VmxEntered
  <1> QED BY <1>2, <1>3

\* vmx_vcpu_setup, vmx_set_tdp and run_vcpu build the VMCS.
LEMMA SetupStep ==
  ASSUME VmxInv, vmx_vcpu_setup \/ vmx_set_tdp \/ run_vcpu
  PROVE  VmxInv'
  <1>0. VmxShape /\ VmxConfigured /\ VmxPrepared
    BY DEF VmxInv
  <1>1. CASE vmx_vcpu_setup
    <2>1. setup.pc = "setup" /\ UNCHANGED <<processor, feature_control, hostRegs, vmcs_config, vmx_capability>>
          /\ Goto("tdp")
      BY <1>1 DEF vmx_vcpu_setup, At
    <2>2. setup'.pc = "tdp" /\ VmxShape' /\ \A w : WordFits(w)' = WordFits(w)
      BY <1>0, <2>1, GotoIs, ShapeKept DEF VmxPcs
    <2>3. vmcs.revision_id = processor.rev /\ hostRegs = HostAt(TRUE, TRUE)
      BY <1>0, <2>1 DEF VmxPrepared
    <2>9. ControlsOf(vmcs_config) =
            [w \in DOMAIN Controls |-> IF LeavesLongMode THEN vmcs_config[w] \ {"IA32E_MODE"} ELSE vmcs_config[w]]
      <3>1. \A w \in DOMAIN Controls : "IA32E_MODE" \notin vmcs_config[w]
        BY <1>0, <2>1, WordsAre DEF VmxConfigured, WordFits
      <3>2. \A w \in DOMAIN Controls : vmcs_config[w] \ {"IA32E_MODE"} = vmcs_config[w]
        BY <3>1
      <3> QED BY <3>2 DEF ControlsOf
    <2>10. EferOf(vmcs.region) = IF LeavesLongMode THEN vmcs.region.efer \ {"LMA"} ELSE vmcs.region.efer
      BY DEF EferOf, LeavesLongMode
    <2>4. vmcs' = VmcsFields(vmcs.revision_id, vmcs.region, EferOf(vmcs.region), NoEptp, ControlsOf(vmcs_config), HostArea,
                             hostRegs.msrs, SegmentsOf(ResetCs), ResetRip)
      <3>1. PICK controls, efer : /\ efer = EferOf(vmcs.region) /\ controls = ControlsOf(vmcs_config)
                                  /\ efer = IF LeavesLongMode THEN vmcs.region.efer \ {"LMA"} ELSE vmcs.region.efer
                                  /\ controls = [w \in DOMAIN Controls |->
                                       IF LeavesLongMode THEN vmcs_config[w] \ {"IA32E_MODE"} ELSE vmcs_config[w]]
        BY <2>9, <2>10
      <3>2. vmcs' = VmcsFields(vmcs.revision_id, vmcs.region, efer, NoEptp, controls, HostArea,
                               hostRegs.msrs, SegmentsOf(ResetCs), ResetRip)
        BY <1>1, <3>1 DEF vmx_vcpu_setup, VmcsFields, SegmentsOf, ResetCs, ResetRip
      <3> QED BY <3>1, <3>2
    <2>5. vmcs' = VmcsAt(NoEptp, ResetCs, ResetRip)
      BY <2>4, <2>3 DEF VmcsAt
    <2>6. VmcsAt(NoEptp, ResetCs, ResetRip)' = VmcsAt(NoEptp, ResetCs, ResetRip)
      BY <2>1, <2>5, VmcsHasRegion, SameVmcs
    <2>7. VmxPrepared'
      BY <2>1, <2>2, <2>3, <2>5, <2>6 DEF VmxPrepared
    <2>8. VmxConfigured'
      BY <1>0, <2>1, <2>2 DEF VmxConfigured
    <2> QED BY <2>2, <2>7, <2>8 DEF VmxInv, VmxChecked, VmxEntered
  <1>2. CASE vmx_set_tdp
    <2>1. setup.pc = "tdp" /\ UNCHANGED <<processor, feature_control, hostRegs, vmcs_config, vmx_capability>>
          /\ Goto("run_vcpu") /\ vmcs' = [vmcs EXCEPT !.eptp = Eptp]
      BY <1>2 DEF vmx_set_tdp, At, Eptp
    <2>2. setup'.pc = "run_vcpu" /\ VmxShape' /\ \A w : WordFits(w)' = WordFits(w)
      BY <1>0, <2>1, GotoIs, ShapeKept DEF VmxPcs
    <2>3. vmcs = VmcsAt(NoEptp, ResetCs, ResetRip) /\ hostRegs = HostAt(TRUE, TRUE)
      BY <1>0, <2>1 DEF VmxPrepared
    <2>4. vmcs' = VmcsAt(Eptp, ResetCs, ResetRip)
      BY <2>1, <2>3, VmcsWithEptp
    <2>5. VmcsAt(Eptp, ResetCs, ResetRip)' = VmcsAt(Eptp, ResetCs, ResetRip)
      BY <2>1, <2>4, VmcsHasRegion, SameVmcs
    <2>6. VmxPrepared'
      BY <2>1, <2>2, <2>3, <2>4, <2>5 DEF VmxPrepared
    <2>7. VmxConfigured'
      BY <1>0, <2>1, <2>2 DEF VmxConfigured
    <2> QED BY <2>2, <2>6, <2>7 DEF VmxInv, VmxChecked, VmxEntered
  <1>3. CASE run_vcpu
    <2>1. setup.pc = "run_vcpu" /\ UNCHANGED <<processor, feature_control, hostRegs, vmcs_config, vmx_capability>>
      BY <1>3 DEF run_vcpu, At
    <2>2. PICK start_ip \in StartIps :
            /\ vmcs' = [vmcs EXCEPT !.seg.CS = StartCs(start_ip), !.rip = start_ip % 2^16]
            /\ setup' = [setup EXCEPT !.pc = "enter", !.start_ip = start_ip]
      BY <1>3 DEF run_vcpu, StartCs
    <2>3. start_ip \in Nat
      BY VmxConstants, Zenon
    <2>4. start_ip \in Nat /\ 2^16 = 65536
      BY <2>3
    <2>5. setup = [pc |-> setup.pc, word |-> setup.word, entered |-> setup.entered, start_ip |-> setup.start_ip]
          /\ setup.word \in 1 .. 5
      BY <1>0, Zenon DEF VmxShape
    <2>6. setup' = [pc |-> "enter", word |-> setup.word, entered |-> setup.entered, start_ip |-> start_ip]
      BY <2>2, <2>5
    <2>7. /\ setup'.pc = "enter" /\ setup'.pc \in VmxPcs /\ setup'.start_ip = start_ip /\ setup'.word \in 1 .. 5
          /\ setup' = [pc |-> setup'.pc, word |-> setup'.word, entered |-> setup'.entered, start_ip |-> setup'.start_ip]
      BY <2>5, <2>6 DEF VmxPcs
    <2>8. VmxShape' /\ \A w : WordFits(w)' = WordFits(w)
      BY <1>0, <2>1, <2>7, ShapeKept
    <2>9. vmcs = VmcsAt(Eptp, ResetCs, ResetRip) /\ hostRegs = HostAt(TRUE, TRUE)
      BY <1>0, <2>1 DEF VmxPrepared
    <2>10. PICK rip : rip = StartRip(start_ip)
      OBVIOUS
    <2>11. vmcs' = [vmcs EXCEPT !.seg.CS = StartCs(start_ip), !.rip = rip]
      BY <2>2, <2>4, <2>10 DEF StartRip
    <2>12. vmcs.seg = SegmentsOf(ResetCs)
      BY <2>9, VmcsHasSegments
    <2>13. vmcs' = [vmcs EXCEPT !.seg = [vmcs.seg EXCEPT !.CS = StartCs(start_ip)], !.rip = rip]
      BY <2>11
    <2>14. [vmcs.seg EXCEPT !.CS = StartCs(start_ip)] = SegmentsOf(StartCs(start_ip))
      BY <2>12 DEF SegmentsOf
    <2>15. vmcs' = [vmcs EXCEPT !.seg = SegmentsOf(StartCs(start_ip)), !.rip = rip]
      BY <2>13, <2>14, Zenon
    <2>16. vmcs' = VmcsAt(Eptp, StartCs(start_ip), rip)
      <3>1. PICK cs, r : cs = ResetCs /\ r = ResetRip
        OBVIOUS
      <3>2. PICK e, c : e = Eptp /\ c = StartCs(start_ip)
        OBVIOUS
      <3>3. vmcs = VmcsAt(e, cs, r)
        BY <2>9, <3>1, <3>2
      <3>4. vmcs' = [vmcs EXCEPT !.seg = SegmentsOf(c), !.rip = rip]
        BY <2>15, <3>2, Zenon
      <3>5. vmcs' = VmcsAt(e, c, rip)
        BY <3>3, <3>4, VmcsWithStart
      <3> QED BY <3>2, <3>5, Zenon
    <2>17. VmcsAt(Eptp, StartCs(start_ip), rip)' = VmcsAt(Eptp, StartCs(start_ip), rip)
      BY <2>1, <2>16, VmcsHasRegion, SameVmcs
    <2>18. VmxPrepared'
      BY <2>1, <2>4, <2>7, <2>9, <2>10, <2>16, <2>17 DEF VmxPrepared
    <2>19. VmxConfigured'
      BY <1>0, <2>1, <2>7, <2>8 DEF VmxConfigured
    <2> QED BY <2>7, <2>8, <2>18, <2>19 DEF VmxInv, VmxChecked, VmxEntered
  <1> QED BY <1>1, <1>2, <1>3

\* One call of adjust_vmx_controls: the word it leaves.
LEMMA AdjustedFits ==
  ASSUME ProcessorFits, NEW w \in ControlWords, NEW ctl,
         ctl = Adjusted(Minimum[w], Optional[w], processor.low[w], processor.high[w]), Minimum[w] \subseteq ctl
  PROVE  /\ processor.must[w] \subseteq ctl /\ ctl \subseteq processor.high[w]
         /\ w = "EXIT" /\ "LOAD_PAT" \in processor.high["EXIT"] => "LOAD_PAT" \in ctl
         /\ "IA32E_MODE" \notin ctl
  <1>1. "LOAD_PAT" \in Optional["EXIT"]
    BY DEF Optional
  <1>2. "IA32E_MODE" \notin Minimum[w] /\ "IA32E_MODE" \notin Optional[w]
    BY DEF Minimum, Optional, ControlWords
  <1> QED BY <1>1, <1>2 DEF ProcessorFits, Adjusted

\* Each call of adjust_vmx_controls leaves one more word that fits; clearing the CR3 and
\* INVLPG exits of the primary word takes away nothing the processor forces.
LEMMA AdjustStep ==
  ASSUME VmxInv, adjust_vmx_controls
  PROVE  VmxInv'
  <1>0. VmxShape /\ VmxChecked /\ VmxConfigured /\ ProcessorFits
    BY DEF VmxInv, VmxShape
  <1>1. setup.pc = "adjust" /\ UNCHANGED <<processor, feature_control, hostRegs, vmcs>>
    BY DEF adjust_vmx_controls, At
  <1>2. PICK n \in 1 .. 5 : n = setup.word
    BY <1>0 DEF VmxShape
  <1>3. PICK w \in ControlWords : w = WordOrder[n]
    BY WordsAre DEF ControlWords
  <1>4. PICK ctl : ctl = Adjusted(Minimum[w], Optional[w], processor.low[w], processor.high[w])
    OBVIOUS
  <1>5. CASE ~(Minimum[w] \subseteq ctl)
    <2>1. Panic /\ UNCHANGED vmcs_config
      BY <1>2, <1>3, <1>4, <1>5 DEF adjust_vmx_controls
    <2> QED BY <1>1, <2>1, Panics
  <1>6. CASE Minimum[w] \subseteq ctl
    <2>1. /\ vmcs_config' =
               IF w = "CPU2" THEN [vmcs_config EXCEPT ![w] = ctl, !["CPU"] = WithoutEptExits(@)]
               ELSE [vmcs_config EXCEPT ![w] = ctl]
          /\ setup' = IF n = 5 THEN [setup EXCEPT !.pc = "basic"] ELSE [setup EXCEPT !.word = @ + 1]
      BY <1>2, <1>3, <1>4, <1>6, WordsAre DEF adjust_vmx_controls
    <2>2. /\ processor.must[w] \subseteq ctl /\ ctl \subseteq processor.high[w]
          /\ w = "EXIT" /\ "LOAD_PAT" \in processor.high["EXIT"] => "LOAD_PAT" \in ctl
          /\ "IA32E_MODE" \notin ctl
      BY <1>0, <1>4, <1>6, AdjustedFits
    <2>3. vmcs_config = [CPU |-> vmcs_config.CPU, CPU2 |-> vmcs_config.CPU2, EXIT |-> vmcs_config.EXIT,
                      PIN |-> vmcs_config.PIN, ENTRY |-> vmcs_config.ENTRY, size |-> vmcs_config.size,
                      revision_id |-> vmcs_config.revision_id]
      BY <1>0, Zenon DEF VmxShape
    <2>4. /\ vmcs_config' = [CPU |-> vmcs_config'.CPU, CPU2 |-> vmcs_config'.CPU2, EXIT |-> vmcs_config'.EXIT,
                      PIN |-> vmcs_config'.PIN, ENTRY |-> vmcs_config'.ENTRY, size |-> vmcs_config'.size,
                      revision_id |-> vmcs_config'.revision_id]
          /\ vmcs_config'[w] = ctl
          /\ \A u \in ControlWords \ {w} :
               vmcs_config'[u] = IF w = "CPU2" /\ u = "CPU" THEN WithoutEptExits(vmcs_config["CPU"]) ELSE vmcs_config[u]
      <3>1. w = "CPU" \/ w = "CPU2" \/ w = "EXIT" \/ w = "PIN" \/ w = "ENTRY"
        BY DEF ControlWords
      <3>2. CASE w = "CPU"
        BY <2>1, <2>3, <3>2 DEF ControlWords
      <3>3. CASE w = "CPU2"
        <4>1. vmcs_config' = [CPU |-> WithoutEptExits(vmcs_config.CPU), CPU2 |-> ctl, EXIT |-> vmcs_config.EXIT,
                      PIN |-> vmcs_config.PIN, ENTRY |-> vmcs_config.ENTRY, size |-> vmcs_config.size,
                      revision_id |-> vmcs_config.revision_id]
          BY <2>1, <2>3, <3>3
        <4> QED BY <3>3, <4>1 DEF ControlWords
      <3>4. CASE w = "EXIT"
        BY <2>1, <2>3, <3>4 DEF ControlWords
      <3>5. CASE w = "PIN"
        BY <2>1, <2>3, <3>5 DEF ControlWords
      <3>6. CASE w = "ENTRY"
        BY <2>1, <2>3, <3>6 DEF ControlWords
      <3> QED BY <3>1, <3>2, <3>3, <3>4, <3>5, <3>6
    <2>5. setup = [pc |-> setup.pc, word |-> setup.word, entered |-> setup.entered, start_ip |-> setup.start_ip]
      BY <1>0, Zenon DEF VmxShape
    <2>6. setup' = [pc |-> IF n = 5 THEN "basic" ELSE "adjust", word |-> IF n = 5 THEN n ELSE n + 1,
                    entered |-> setup.entered, start_ip |-> setup.start_ip]
      BY <1>1, <1>2, <2>1, <2>5
    <2>7. VmxShape'
      <3>1. /\ setup' = [pc |-> setup'.pc, word |-> setup'.word, entered |-> setup'.entered, start_ip |-> setup'.start_ip]
            /\ setup'.pc \in VmxPcs /\ setup'.word \in 1 .. 5
        BY <2>6 DEF VmxPcs
      <3>2. ProcessorFits'
        BY <1>0, <1>1 DEF ProcessorFits
      <3> QED BY <2>4, <3>1, <3>2, Zenon DEF VmxShape
    <2>8. WordFits(w)'
      BY <1>1, <1>6, <2>2, <2>4 DEF WordFits
    <2>9. ASSUME NEW u \in ControlWords, u # w, WordFits(u) PROVE WordFits(u)'
      <3>1. CASE w = "CPU2" /\ u = "CPU"
        <4>1. vmcs_config'[u] = vmcs_config[u] \ EptExits
          BY <2>4, <2>9, <3>1 DEF WithoutEptExits, EptExits
        <4>2. Minimum[u] \cap EptExits = {} /\ processor.must[u] \cap EptExits = {}
          BY <1>0, <3>1 DEF Minimum, ProcessorFits, EptExits
        <4> QED BY <1>1, <2>9, <3>1, <4>1, <4>2 DEF WordFits
      <3>2. CASE ~(w = "CPU2" /\ u = "CPU")
        <4>1. vmcs_config'[u] = vmcs_config[u]
          BY <2>4, <2>9, <3>2
        <4> QED BY <1>1, <2>9, <4>1 DEF WordFits
      <3> QED BY <3>1, <3>2
    <2>10. \A i \in 1 .. n : WordFits(WordOrder[i])'
      <3> SUFFICES ASSUME NEW i \in 1 .. n PROVE WordFits(WordOrder[i])'
        OBVIOUS
      <3>1. CASE i = n
        BY <1>3, <2>8, <3>1
      <3>2. CASE i # n
        <4>1. WordFits(WordOrder[i]) /\ i \in 1 .. 5
          BY <1>0, <1>1, <1>2, <3>2 DEF VmxConfigured
        <4>2. WordOrder[i] # w /\ WordOrder[i] \in ControlWords
          BY <1>3, <3>2, <4>1, WordsAre DEF ControlWords
        <4> QED BY <2>9, <4>1, <4>2
      <3> QED BY <3>1, <3>2
    <2>11. VmxConfigured'
      <3>1. CASE n = 5
        <4>1. setup'.pc = "basic"
          BY <2>6, <3>1
        <4>2. \A u \in ControlWords : \E i \in 1 .. 5 : u = WordOrder[i]
          BY WordsAre DEF ControlWords
        <4>3. \A u \in ControlWords : WordFits(u)'
          BY <2>10, <3>1, <4>2
        <4> QED BY <4>1, <4>3 DEF VmxConfigured
      <3>2. CASE n # 5
        <4>1. setup'.pc = "adjust" /\ setup'.word = n + 1
          BY <2>6, <3>2
        <4>2. \A i \in 1 .. (setup'.word - 1) : WordFits(WordOrder[i])'
          BY <2>10, <4>1
        <4>3. \A i : (WordOrder[i])' = WordOrder[i]
          BY DEF WordOrder
        <4> QED BY <4>1, <4>2, <4>3 DEF VmxConfigured
      <3> QED BY <3>1, <3>2
    <2>12. setup'.pc \in {"basic", "adjust"}
      BY <2>6
    <2>13. VmxChecked'
      BY <1>0, <1>1, <2>12 DEF VmxChecked, DisabledByBios
    <2>14. VmxPrepared' /\ VmxEntered'
      <3>1. CASE setup'.pc = "basic"
        BY <3>1 DEF VmxPrepared, VmxEntered
      <3>2. CASE setup'.pc = "adjust"
        BY <3>2 DEF VmxPrepared, VmxEntered
      <3> QED BY <2>12, <3>1, <3>2
    <2> QED BY <2>7, <2>11, <2>13, <2>14, Zenon DEF VmxInv
  <1> QED BY <1>5, <1>6

-----------------------------------------------------------------------------
(* The first VM entry and the exit. *)

\* CS of run_vcpu.
LEMMA RightsOfStart ==
  ASSUME NEW start \in Nat
  PROVE  /\ StartCs(start).ar = 155 /\ StartCs(start).base = (start \div 65536) * 4096
         /\ StartCs(start).selector = ((start \div 65536) * 4096) % 65536
         /\ StartCs(start) = [base |-> StartCs(start).base, limit |-> 65535, selector |-> StartCs(start).selector, ar |-> 155]
  <1>1. /\ 2^16 = 65536 /\ 2^12 = 4096 /\ 2^4 = 16 /\ 2^5 = 32 /\ 2^7 = 128 /\ 2^13 = 8192 /\ 2^14 = 16384 /\ 2^15 = 32768
    OBVIOUS
  <1>2. PICK base, sel : base = (start \div 65536) * 4096 /\ sel = base % 65536
    OBVIOUS
  <1>3. StartSegment(start) = [limit |-> 65535, type |-> 11, s |-> 1, present |-> 1, unusable |-> 0, dpl |-> 0, avl |-> 0,
                            l |-> 0, db |-> 0, g |-> 0, base |-> base, selector |-> sel]
    BY <1>1, <1>2 DEF StartSegment
  <1>4. vmx_segment_access_rights(StartSegment(start)) = 155
    BY <1>1, <1>3 DEF vmx_segment_access_rights
  <1>5. StartCs(start) = [base |-> base, limit |-> 65535, selector |-> sel, ar |-> 155]
    BY <1>3, <1>4 DEF StartCs, vmx_set_segment
  <1> QED BY <1>2, <1>5

\* The bits of the access rights that vmx_vcpu_setup and run_vcpu write.
LEMMA RightsAccepted ==
  /\ 155 % 16 = 11 /\ 147 % 16 = 3 /\ 139 % 16 = 11 /\ 130 % 16 = 2
  /\ Bit(155, 4) = 1 /\ Bit(147, 4) = 1 /\ Bit(139, 4) = 0 /\ Bit(130, 4) = 0
  /\ Bit(155, 7) = 1 /\ Bit(147, 7) = 1 /\ Bit(139, 7) = 1 /\ Bit(130, 7) = 1
  /\ Bit(155, 15) = 0 /\ Bit(147, 15) = 0 /\ Bit(139, 15) = 0 /\ Bit(130, 15) = 0
  /\ (155 \div 2^5) % 4 = 0 /\ (147 \div 2^5) % 4 = 0
  /\ (155 \div 2^8) % 16 = 0 /\ (147 \div 2^8) % 16 = 0 /\ (139 \div 2^8) % 16 = 0 /\ (130 \div 2^8) % 16 = 0
  BY DEF Bit

\* With CS of run_vcpu the processor accepts every segment.
LEMMA SegmentsAccepted ==
  ASSUME NEW cs, cs.ar = 155, vmcs.seg = SegmentsOf(cs)
  PROVE  \A name \in DOMAIN vmcs.seg : SegmentAccepted(name, vmcs.seg[name])
  <1>1. /\ DOMAIN vmcs.seg = {"CS", "DS", "ES", "SS", "FS", "GS", "TR", "LDTR"}
        /\ vmcs.seg["CS"].ar = 155 /\ vmcs.seg["TR"].ar = 139 /\ vmcs.seg["LDTR"].ar = 130
        /\ \A name \in {"DS", "ES", "SS", "FS", "GS"} : vmcs.seg[name].ar = 147
        /\ vmcs.seg.SS.ar = 147
    BY DEF SegmentsOf, GuestSeg
  <1>2. SegmentAccepted("CS", vmcs.seg["CS"])
    BY <1>1, RightsAccepted DEF SegmentAccepted
  <1>3. SegmentAccepted("TR", vmcs.seg["TR"])
    BY <1>1, RightsAccepted DEF SegmentAccepted
  <1>4. SegmentAccepted("LDTR", vmcs.seg["LDTR"])
    BY <1>1, RightsAccepted DEF SegmentAccepted
  <1>5. SegmentAccepted("SS", vmcs.seg["SS"])
    BY <1>1, RightsAccepted DEF SegmentAccepted
  <1>6. ASSUME NEW name \in {"DS", "ES", "FS", "GS"} PROVE SegmentAccepted(name, vmcs.seg[name])
    BY <1>1, RightsAccepted DEF SegmentAccepted
  <1> QED BY <1>1, <1>2, <1>3, <1>4, <1>5, <1>6

\* The fields of the VMCS that entry and exit look at.
LEMMA VmcsFieldsAre ==
  ASSUME NEW eptp, NEW cs, NEW rip, vmcs = VmcsAt(eptp, cs, rip)
  PROVE  /\ vmcs.revision_id = processor.rev /\ vmcs.efer = EferOf(vmcs.region) /\ vmcs.eptp = eptp
         /\ vmcs.controls = ControlsOf(vmcs_config) /\ vmcs.link_pointer = -1 /\ vmcs.vpid = 1
         /\ vmcs.host = HostArea /\ vmcs.hostMsrs = hostRegs.msrs /\ vmcs.seg = SegmentsOf(cs)
         /\ vmcs.rflags = {"ONE"} /\ vmcs.rip = rip /\ vmcs.cr0 = {"WP", "NE", "NW", "CD", "ET"} /\ vmcs.cr4 = {"VMXE"}
  <1>1. PICK v : v = vmcs
    OBVIOUS
  <1>2. PICK rev, reg, efer, controls, host, msrs, seg :
          rev = processor.rev /\ reg = vmcs.region /\ efer = EferOf(vmcs.region) /\ controls = ControlsOf(vmcs_config)
          /\ host = HostArea /\ msrs = hostRegs.msrs /\ seg = SegmentsOf(cs)
    OBVIOUS
  <1>3. v = VmcsFields(rev, reg, efer, eptp, controls, host, msrs, seg, rip)
    BY <1>1, <1>2, Zenon DEF VmcsAt
  <1>4. /\ v.revision_id = rev /\ v.efer = efer /\ v.eptp = eptp /\ v.controls = controls
        /\ v.link_pointer = -1 /\ v.vpid = 1 /\ v.host = host /\ v.hostMsrs = msrs /\ v.seg = seg
        /\ v.rflags = {"ONE"} /\ v.rip = rip /\ v.cr0 = {"WP", "NE", "NW", "CD", "ET"} /\ v.cr4 = {"VMXE"}
    BY <1>3 DEF VmcsFields
  <1> QED BY <1>1, <1>2, <1>4

\* What \o gives.
LEMMA Joined ==
  \A s, t \in Seq(Nat) :
    /\ s \o t \in Seq(Nat) /\ Len(s \o t) = Len(s) + Len(t)
    /\ \A i \in 1 .. Len(s) + Len(t) : (s \o t)[i] = IF i <= Len(s) THEN s[i] ELSE t[i - Len(s)]
  <1> TAKE s, t \in Seq(Nat)
  <1>1. s \o t \in Seq(Nat)
    OBVIOUS
  <1>2. Len(s \o t) = Len(s) + Len(t)
    OBVIOUS
  <1>3. ASSUME NEW i \in 1 .. Len(s) + Len(t) PROVE (s \o t)[i] = IF i <= Len(s) THEN s[i] ELSE t[i - Len(s)]
    OBVIOUS
  <1> QED BY <1>1, <1>2, <1>3, Zenon

\* The four pieces of the TSS base, joined again, are the base.
LEMMA JoinedBase ==
  SubSeq(TssAddress, 1, 2) \o <<TssAddress[3], TssAddress[4]>> \o SubSeq(TssAddress, 5, 8) = TssAddress
  <1> DEFINE a == SubSeq(TssAddress, 1, 2)
             b == <<TssAddress[3], TssAddress[4]>>
             c == SubSeq(TssAddress, 5, 8)
  <1>1. a \in Seq(Nat) /\ Len(a) = 2 /\ a[1] = 17 /\ a[2] = 34
    BY DEF TssAddress
  <1>2. c \in Seq(Nat) /\ Len(c) = 4 /\ c[1] = 85 /\ c[2] = 102 /\ c[3] = 119 /\ c[4] = 136
    BY DEF TssAddress
  <1>3. b \in Seq(Nat) /\ Len(b) = 2 /\ b[1] = 51 /\ b[2] = 68
    BY DEF TssAddress
  <1> HIDE DEF a, b, c
  <1> DEFINE d == a \o b
             e == d \o c
  <1>4. d \in Seq(Nat) /\ Len(d) = 4 /\ d[1] = 17 /\ d[2] = 34 /\ d[3] = 51 /\ d[4] = 68
    <2>1. /\ d \in Seq(Nat) /\ Len(d) = Len(a) + Len(b)
          /\ \A i \in 1 .. Len(a) + Len(b) : d[i] = IF i <= Len(a) THEN a[i] ELSE b[i - Len(a)]
      BY <1>1, <1>3, Joined, Zenon
    <2> HIDE DEF d
    <2> QED BY <1>1, <1>3, <2>1
  <1> HIDE DEF d
  <1>5. /\ e \in Seq(Nat) /\ Len(e) = 8
        /\ e[1] = 17 /\ e[2] = 34 /\ e[3] = 51 /\ e[4] = 68 /\ e[5] = 85 /\ e[6] = 102 /\ e[7] = 119 /\ e[8] = 136
    <2>1. /\ e \in Seq(Nat) /\ Len(e) = Len(d) + Len(c)
          /\ \A i \in 1 .. Len(d) + Len(c) : e[i] = IF i <= Len(d) THEN d[i] ELSE c[i - Len(d)]
      BY <1>2, <1>4, Joined, ZenonT(60)
    <2> HIDE DEF e
    <2> QED BY <1>2, <1>4, <2>1
  <1> HIDE DEF e
  <1>6. e = TssAddress
    <2>1. DOMAIN e = 1 .. 8 /\ e = [i \in 1 .. 8 |-> e[i]]
      BY <1>5
    <2>2. DOMAIN TssAddress = 1 .. 8 /\ TssAddress = [i \in 1 .. 8 |-> TssAddress[i]]
      BY DEF TssAddress
    <2>3. \A i \in 1 .. 8 : e[i] = TssAddress[i]
      BY <1>5 DEF TssAddress
    <2> QED BY <2>1, <2>2, <2>3
  <1> QED BY <1>6 DEF a, b, c, d, e

\* get_tr_base reads what set_tssldt_descriptor wrote.
LEMMA TrBaseIsTss ==
  ASSUME hostRegs.tss = TssDescriptor(TssAddress)
  PROVE  get_tr_base = TssAddress
  <1>1. PICK a, b, c, d : a = SubSeq(TssAddress, 1, 2) /\ b = TssAddress[3] /\ c = TssAddress[4] /\ d = SubSeq(TssAddress, 5, 8)
    OBVIOUS
  <1>2. hostRegs.tss = [base0 |-> a, base1 |-> b, base2 |-> c, base3 |-> d, p |-> 1]
    BY <1>1 DEF TssDescriptor
  <1>3. hostRegs.tss.base0 = a /\ hostRegs.tss.base1 = b /\ hostRegs.tss.base2 = c /\ hostRegs.tss.base3 = d
    BY <1>2
  <1>4. get_tr_base = a \o <<b, c>> \o d
    BY <1>3, Zenon DEF get_tr_base
  <1> QED BY <1>1, <1>4, JoinedBase, Zenon

HostAreaFields == {"cr0", "cr3", "cr4", "efer", "fs_base", "gs_base", "cs", "ds", "es", "ss", "fs", "gs", "tr",
                   "gdtr", "idtr", "tr_base", "sysenter_cs", "sysenter_eip"}

\* The registers that an exit does not load from it.
OtherFields == {"tss", "pat", "msrs", "vmxon", "gdt_limit", "idt_limit", "sysenter_esp"}

\* The host area is the host's own registers.
LEMMA HostAreaIs ==
  ASSUME hostRegs = HostAt(TRUE, TRUE)
  PROVE  /\ DOMAIN hostRegs = HostAreaFields \cup OtherFields
         /\ \A r \in HostAreaFields : HostArea[r] = hostRegs[r]
         /\ HostArea.pat = IF "LOAD_PAT" \in vmcs_config["EXIT"] THEN hostRegs.pat ELSE "unwritten"
  <1>1. DOMAIN hostRegs = HostAreaFields \cup OtherFields
    BY DEF HostAt, HostFields, HostRecord, HostAreaFields, OtherFields
  <1>2. /\ hostRegs.tss = TssDescriptor(TssAddress) /\ hostRegs.tr_base = TssAddress /\ hostRegs.cs = 16 /\ hostRegs.ds = 24
        /\ hostRegs.es = 24 /\ hostRegs.ss = 24 /\ hostRegs.fs = 0 /\ hostRegs.gs = 0
    BY DEF HostAt, HostFields, HostRecord
  <1>3. get_tr_base = hostRegs.tr_base
    BY <1>2, TrBaseIsTss
  <1>4. PICK base : base = get_tr_base
    OBVIOUS
  <1>5. PICK h : h = hostRegs
    OBVIOUS
  <1>6. HostArea = [cr0 |-> h.cr0, cr3 |-> h.cr3, cr4 |-> h.cr4, efer |-> h.efer,
          fs_base |-> h.fs_base, gs_base |-> h.gs_base,
          cs |-> 16, ds |-> 24, es |-> 24, ss |-> 24, fs |-> 0, gs |-> 0, tr |-> h.tr,
          gdtr |-> h.gdtr, idtr |-> h.idtr, tr_base |-> base,
          sysenter_cs |-> h.sysenter_cs, sysenter_esp |-> "unwritten", sysenter_eip |-> h.sysenter_eip,
          pat |-> IF "LOAD_PAT" \in vmcs_config["EXIT"] THEN h.pat ELSE "unwritten"]
    BY <1>4, <1>5 DEF HostArea
  <1>7. h.cs = 16 /\ h.ds = 24 /\ h.tr_base = base /\ h.es = 24 /\ h.ss = 24 /\ h.fs = 0 /\ h.gs = 0
    BY <1>2, <1>3, <1>4, <1>5
  <1>8. \A r \in HostAreaFields : HostArea[r] = h[r]
    BY <1>6, <1>7 DEF HostAreaFields
  <1>9. HostArea.pat = IF "LOAD_PAT" \in vmcs_config["EXIT"] THEN h.pat ELSE "unwritten"
    BY <1>6
  <1> QED BY <1>1, <1>5, <1>8, <1>9, Zenon

\* The processor accepts the first entry with a region as a VMCLEAR leaves it.
LEMMA EntryIsAccepted ==
  ASSUME VmxInv, setup.pc = "enter", AsCleared(vmcs.region)
  PROVE  EntryAccepted
  <1>1. /\ setup.start_ip \in Nat /\ hostRegs = HostAt(TRUE, TRUE)
        /\ vmcs = VmcsAt(Eptp, StartCs(setup.start_ip), StartRip(setup.start_ip))
    BY DEF VmxInv, VmxPrepared
  <1>2. \A w \in ControlWords : WordFits(w)
    BY DEF VmxInv, VmxConfigured
  <1>3. PICK cs, rip : cs = StartCs(setup.start_ip) /\ rip = StartRip(setup.start_ip)
    OBVIOUS
  <1>4. /\ vmcs.revision_id = processor.rev /\ vmcs.efer = EferOf(vmcs.region) /\ vmcs.eptp = Eptp
        /\ vmcs.controls = ControlsOf(vmcs_config) /\ vmcs.link_pointer = -1 /\ vmcs.vpid = 1
        /\ vmcs.host = HostArea /\ vmcs.seg = SegmentsOf(cs)
        /\ vmcs.rflags = {"ONE"} /\ vmcs.cr0 = {"WP", "NE", "NW", "CD", "ET"} /\ vmcs.cr4 = {"VMXE"}
    <2>1. PICK e : e = Eptp
      OBVIOUS
    <2>2. vmcs = VmcsAt(e, cs, rip)
      BY <1>1, <1>3, <2>1
    <2> QED BY <2>1, <2>2, VmcsFieldsAre
  <1>5. \A w \in ControlWords : vmcs.controls[w] = vmcs_config[w]
    BY <1>4, WordsAre DEF ControlsOf
  <1>6. \A w \in DOMAIN Controls : processor.must[w] \subseteq vmcs.controls[w]
                                  /\ vmcs.controls[w] \subseteq processor.high[w]
    BY <1>2, <1>5, WordsAre DEF WordFits
  <1>7. "UNRESTRICTED_GUEST" \in vmcs.controls["CPU2"] /\ "HOST_ADDR_SPACE_SIZE" \in vmcs.controls["EXIT"]
    BY <1>2, <1>5 DEF WordFits, ControlWords, Minimum
  <1>8. \A name \in DOMAIN vmcs.seg : SegmentAccepted(name, vmcs.seg[name])
    BY <1>1, <1>3, <1>4, RightsOfStart, SegmentsAccepted
  <1>9. /\ hostRegs.cs = 16 /\ hostRegs.tr = 64 /\ hostRegs.cr4 = {"PAE", "VMXE"} /\ hostRegs.efer = {"LME", "LMA", "SCE"}
    BY <1>1 DEF HostAt, HostFields, HostRecord
  <1>10. /\ vmcs.host["cs"] = 16 /\ vmcs.host["tr"] = 64 /\ vmcs.host["cr4"] = {"PAE", "VMXE"}
         /\ vmcs.host["efer"] = {"LME", "LMA", "SCE"}
    <2>1. \A r \in {"cs", "tr", "cr4", "efer"} : vmcs.host[r] = hostRegs[r]
      <3>1. \A r \in HostAreaFields : HostArea[r] = hostRegs[r]
        <4>1. hostRegs = HostAt(TRUE, TRUE)
          BY <1>1
        <4> QED BY <4>1, HostAreaIs, Zenon
      <3>2. {"cs", "tr", "cr4", "efer"} \subseteq HostAreaFields
        BY DEF HostAreaFields
      <3> QED BY <1>4, <3>1, <3>2, Zenon
    <2> QED BY <1>9, <2>1
  <1>11. vmcs.eptp.memtype = 6 /\ vmcs.eptp.walk = 3
    BY <1>4 DEF Eptp
  <1>12. UnwrittenAccepted
    <2>1. vmcs.efer \cap {"LMA", "RESERVED"} = {} /\ vmcs.region.bad = {}
      BY <1>4 DEF EferOf, AsCleared
    <2>2. "IA32E_MODE" \notin vmcs.controls["ENTRY"]
      BY <1>2, <1>5 DEF WordFits, ControlWords
    <2> QED BY <2>1, <2>2 DEF UnwrittenAccepted
  <1>13. ~vmcs.region.launched
    BY DEF AsCleared
  <1> QED BY <1>4, <1>6, <1>7, <1>8, <1>10, <1>11, <1>12, <1>13 DEF EntryAccepted

\* The first VM entry.
LEMMA EntryStep ==
  ASSUME VmxInv, VmEntry
  PROVE  VmxInv'
  <1>1. setup.pc = "enter" /\ UNCHANGED <<processor, feature_control, hostRegs, vmcs_config, vmx_capability, vmcs>>
    BY DEF VmEntry, At
  <1>2. PICK p \in {"guest", "rejected"} :
          /\ setup' = [setup EXCEPT !.pc = p, !.entered = hostRegs]
          /\ p = "rejected" => ~AsCleared(vmcs.region)
    <2>1. CASE EntryAccepted
      <3>1. setup' = [setup EXCEPT !.pc = "guest", !.entered = hostRegs]
        BY <2>1 DEF VmEntry
      <3> QED BY <3>1
    <2>2. CASE ~EntryAccepted
      <3>1. setup' = [setup EXCEPT !.pc = "rejected", !.entered = hostRegs]
        BY <2>2 DEF VmEntry
      <3>2. ~AsCleared(vmcs.region)
        BY <1>1, <2>2, EntryIsAccepted
      <3> QED BY <3>1, <3>2
    <2> QED BY <2>1, <2>2
  <1>3. setup = [pc |-> setup.pc, word |-> setup.word, entered |-> setup.entered, start_ip |-> setup.start_ip]
        /\ setup.word \in 1 .. 5 /\ VmxShape
    BY Zenon DEF VmxShape, VmxInv
  <1>4. PICK h : h = hostRegs
    OBVIOUS
  <1>5. setup' = [pc |-> p, word |-> setup.word, entered |-> h, start_ip |-> setup.start_ip]
    <2>1. PICK a, b, c, d : setup = [pc |-> a, word |-> b, entered |-> c, start_ip |-> d]
      BY <1>3, Zenon
    <2>2. setup' = [setup EXCEPT !.pc = p, !.entered = h]
      BY <1>2, <1>4, Zenon
    <2>3. setup' = [pc |-> p, word |-> b, entered |-> h, start_ip |-> d]
      BY <2>1, <2>2
    <2> QED BY <2>1, <2>3
  <1>6. /\ setup'.pc = p /\ setup'.pc \in VmxPcs /\ setup'.word \in 1 .. 5 /\ setup'.start_ip = setup.start_ip
        /\ setup' = [pc |-> setup'.pc, word |-> setup'.word, entered |-> setup'.entered, start_ip |-> setup'.start_ip]
        /\ setup'.entered = h
    BY <1>3, <1>5 DEF VmxPcs
  <1>7. VmxShape' /\ \A w : WordFits(w)' = WordFits(w)
    BY <1>1, <1>3, <1>6, ShapeKept
  <1>8. PICK start, rip : start = setup.start_ip /\ rip = StartRip(setup.start_ip)
    OBVIOUS
  <1>9. VmcsAt(Eptp, StartCs(start), rip)' = VmcsAt(Eptp, StartCs(start), rip)
    BY <1>1, SameVmcs
  <1>10. VmxPrepared'
    BY <1>1, <1>6, <1>8, <1>9 DEF VmxInv, VmxPrepared
  <1>11. VmxConfigured'
    BY <1>1, <1>6, <1>7 DEF VmxInv, VmxConfigured
  <1>12. VmxEntered'
    <2>1. AsCleared(vmcs.region)' = AsCleared(vmcs.region)
      BY <1>1 DEF AsCleared
    <2>2. setup'.pc = "guest" \/ (setup'.pc = "rejected" /\ ~AsCleared(vmcs.region))
      <3>1. p = "guest" \/ (p = "rejected" /\ ~AsCleared(vmcs.region))
        BY <1>2, Zenon
      <3> QED BY <1>6, <3>1, Zenon
    <2>3. setup'.entered = hostRegs'
      BY <1>1, <1>4, <1>6
    <2> QED BY <2>1, <2>2, <2>3 DEF VmxEntered
  <1> QED BY <1>6, <1>7, <1>10, <1>11, <1>12 DEF VmxInv, VmxChecked

-----------------------------------------------------------------------------
\* vmx_get_segment of a segment s.
ReadSegment(s) ==
  [base |-> s.base, limit |-> s.limit, selector |-> s.selector,
   unusable |-> Bit(s.ar, 16), type |-> s.ar % 16, s |-> Bit(s.ar, 4), dpl |-> (s.ar \div 2^5) % 4,
   present |-> 1 - Bit(s.ar, 16), avl |-> Bit(s.ar, 12), l |-> Bit(s.ar, 13), db |-> Bit(s.ar, 14), g |-> Bit(s.ar, 15)]

\* Rights the processor holds: a usable segment is present.
RightsHeld(ar) ==
  /\ ar \in Nat /\ ar < 131072
  /\ Bit(ar, 16) = 0 => Bit(ar, 7) = 1 /\ (ar \div 256) % 16 = 0

\* The access rights, a few bits at a time.
LEMMA Halves ==
  ASSUME NEW a \in Nat
  PROVE  /\ a = 16 * (a \div 16) + (a % 16)
         /\ a \div 16 = 2 * (a \div 32) + ((a \div 16) % 2)
         /\ a \div 32 = 4 * (a \div 128) + ((a \div 32) % 4)
         /\ a \div 128 = 2 * (a \div 256) + ((a \div 128) % 2)
         /\ a \div 256 = 16 * (a \div 4096) + ((a \div 256) % 16)
         /\ a \div 4096 = 2 * (a \div 8192) + ((a \div 4096) % 2)
         /\ a \div 8192 = 2 * (a \div 16384) + ((a \div 8192) % 2)
         /\ a \div 16384 = 2 * (a \div 32768) + ((a \div 16384) % 2)
         /\ a \div 32768 = 2 * (a \div 65536) + ((a \div 32768) % 2)
  <1>1. a = 16 * (a \div 16) + (a % 16)
    OBVIOUS
  <1>2. a \div 16 = 2 * (a \div 32) + ((a \div 16) % 2)
    OBVIOUS
  <1>3. a \div 32 = 4 * (a \div 128) + ((a \div 32) % 4)
    OBVIOUS
  <1>4. a \div 128 = 2 * (a \div 256) + ((a \div 128) % 2)
    OBVIOUS
  <1>5. a \div 256 = 16 * (a \div 4096) + ((a \div 256) % 16)
    OBVIOUS
  <1>6. a \div 4096 = 2 * (a \div 8192) + ((a \div 4096) % 2)
    OBVIOUS
  <1>7. a \div 8192 = 2 * (a \div 16384) + ((a \div 8192) % 2)
    OBVIOUS
  <1>8. a \div 16384 = 2 * (a \div 32768) + ((a \div 16384) % 2)
    OBVIOUS
  <1>9. a \div 32768 = 2 * (a \div 65536) + ((a \div 32768) % 2)
    OBVIOUS
  <1> QED BY <1>1, <1>2, <1>3, <1>4, <1>5, <1>6, <1>7, <1>8, <1>9

\* The fields of a usable segment's rights, put together again, are its rights.
LEMMA RightsReadBack ==
  ASSUME NEW ar, RightsHeld(ar), Bit(ar, 16) = 0,
         NEW type, NEW b4, NEW dpl, NEW present, NEW b12, NEW b13, NEW b14, NEW b15,
         type = ar % 16, b4 = Bit(ar, 4), dpl = (ar \div 32) % 4, present = 1 - Bit(ar, 16), b12 = Bit(ar, 12),
         b13 = Bit(ar, 13), b14 = Bit(ar, 14), b15 = Bit(ar, 15)
  PROVE  (type % 16) + 16 * b4 + 32 * dpl + 128 * present + 4096 * b12 + 8192 * b13 + 16384 * b14 + 32768 * b15 = ar
  <1>1. /\ b4 = (ar \div 16) % 2 /\ Bit(ar, 7) = (ar \div 128) % 2 /\ b12 = (ar \div 4096) % 2
        /\ b13 = (ar \div 8192) % 2 /\ b14 = (ar \div 16384) % 2 /\ b15 = (ar \div 32768) % 2
        /\ Bit(ar, 16) = (ar \div 65536) % 2
    BY DEF Bit
  <1>2. ar \in Nat /\ ar < 131072 /\ (ar \div 65536) % 2 = 0 /\ (ar \div 128) % 2 = 1 /\ (ar \div 256) % 16 = 0
    BY <1>1 DEF RightsHeld
  <1>3. ar \div 65536 = 0
    <2>1. ar \div 65536 \in {0, 1}
      BY <1>2
    <2> QED BY <1>2, <2>1
  <1>4. PICK q4, q5, q7, q8, q12, q13, q14, q15 :
          /\ q4 = ar \div 16 /\ q5 = ar \div 32 /\ q7 = ar \div 128 /\ q8 = ar \div 256 /\ q12 = ar \div 4096
          /\ q13 = ar \div 8192 /\ q14 = ar \div 16384 /\ q15 = ar \div 32768
    OBVIOUS
  <1>5. /\ type \in Int /\ b4 \in Int /\ dpl \in Int /\ b12 \in Int /\ b13 \in Int /\ b14 \in Int /\ b15 \in Int
        /\ q4 \in Int /\ q5 \in Int /\ q7 \in Int /\ q8 \in Int /\ q12 \in Int /\ q13 \in Int /\ q14 \in Int /\ q15 \in Int
    BY <1>1, <1>2, <1>4
  <1>6. /\ ar = 16 * q4 + type /\ q4 = 2 * q5 + b4 /\ q5 = 4 * q7 + dpl /\ q7 = 2 * q8 + 1 /\ q8 = 16 * q12 + 0
        /\ q12 = 2 * q13 + b12 /\ q13 = 2 * q14 + b13 /\ q14 = 2 * q15 + b14 /\ q15 = 2 * 0 + b15
    BY <1>1, <1>2, <1>3, <1>4, Halves
  <1>7. type % 16 = type /\ present = 1
    BY <1>2
  <1>8. ASSUME NEW t, NEW p, t = type, p = 1
        PROVE  t + 16 * b4 + 32 * dpl + 128 * p + 4096 * b12 + 8192 * b13 + 16384 * b14 + 32768 * b15 = ar
    BY <1>5, <1>6, <1>8
  <1>9. PICK t : t = type % 16
    OBVIOUS
  <1> QED BY <1>7, <1>8, <1>9

\* vmx_set_segment after vmx_get_segment, for one segment.
LEMMA SegmentReadBack ==
  ASSUME NEW base, NEW limit, NEW selector, NEW ar, RightsHeld(ar), NEW s,
         s = [selector |-> selector, base |-> base, limit |-> limit, ar |-> ar]
  PROVE  IF Bit(s.ar, 16) = 1 THEN Bit(vmx_set_segment(ReadSegment(s)).ar, 16) = 1
         ELSE vmx_set_segment(ReadSegment(s)) = s
  <1>1. s.ar = ar /\ s.base = base /\ s.limit = limit /\ s.selector = selector
    OBVIOUS
  <1>2. PICK unusable, type, b4, dpl, present, avl, l, db, g :
          /\ unusable = Bit(ar, 16) /\ type = ar % 16 /\ b4 = Bit(ar, 4) /\ dpl = (ar \div 2^5) % 4
          /\ present = 1 - Bit(ar, 16) /\ avl = Bit(ar, 12) /\ l = Bit(ar, 13) /\ db = Bit(ar, 14) /\ g = Bit(ar, 15)
    OBVIOUS
  <1>3. PICK var : var = ReadSegment(s)
    OBVIOUS
  <1>4. var = [base |-> base, limit |-> limit, selector |-> selector, unusable |-> unusable, type |-> type, s |-> b4,
               dpl |-> dpl, present |-> present, avl |-> avl, l |-> l, db |-> db, g |-> g]
    BY <1>1, <1>2, <1>3 DEF ReadSegment
  <1>5. vmx_set_segment(var) = [base |-> base, limit |-> limit, selector |-> selector,
                                ar |-> vmx_segment_access_rights(var)]
    BY <1>4 DEF vmx_set_segment
  <1>6. vmx_segment_access_rights(var) =
          IF unusable = 1 \/ present = 0 THEN 65536
          ELSE (type % 16) + 16 * b4 + 32 * dpl + 128 * present + 4096 * avl + 8192 * l + 16384 * db + 32768 * g
    BY <1>4 DEF vmx_segment_access_rights
  <1>7. CASE Bit(ar, 16) = 1
    <2>1. vmx_set_segment(var).ar = 65536
      BY <1>2, <1>5, <1>6, <1>7
    <2>2. Bit(65536, 16) = 1
      BY DEF Bit
    <2> QED BY <1>1, <1>3, <1>7, <2>1, <2>2
  <1>8. CASE Bit(ar, 16) # 1
    <2>1. Bit(ar, 16) = 0
      BY <1>8 DEF Bit, RightsHeld
    <2>2. vmx_segment_access_rights(var) = ar
      <3>1. (type % 16) + 16 * b4 + 32 * dpl + 128 * present + 4096 * avl + 8192 * l + 16384 * db + 32768 * g = ar
        BY <1>2, <2>1, RightsReadBack
      <3> QED BY <1>2, <1>6, <2>1, <3>1
    <2>3. vmx_set_segment(var) = s
      BY <1>5, <2>2
    <2> QED BY <1>1, <1>3, <1>8, <2>3
  <1> QED BY <1>7, <1>8

\* Every segment of the VMCS holds rights of the processor.
Segment(s) ==
  \E selector, base, limit, ar : s = [selector |-> selector, base |-> base, limit |-> limit, ar |-> ar] /\ RightsHeld(ar)

\* The rights that the monitor writes are ones the processor holds.
LEMMA FixedRights ==
  RightsHeld(155) /\ RightsHeld(147) /\ RightsHeld(139) /\ RightsHeld(130)
  <1>1. (155 \div 256) % 16 = 0 /\ (147 \div 256) % 16 = 0 /\ (139 \div 256) % 16 = 0 /\ (130 \div 256) % 16 = 0
    OBVIOUS
  <1> QED BY <1>1, RightsAccepted DEF RightsHeld

\* So are the rights that the processor saves at an exit.
LEMMA SavedRights ==
  ASSUME NEW ar \in GuestRights
  PROVE  RightsHeld(ar)
  <1>1. 2^17 - 1 = 131071 /\ 2^8 = 256
    OBVIOUS
  <1>2. ar \in 0 .. (2^17 - 1) /\ (Bit(ar, 16) = 0 => Bit(ar, 7) = 1 /\ (ar \div 2^8) % 16 = 0)
    BY VmxConstants
  <1> QED BY <1>1, <1>2 DEF RightsHeld

\* Every segment at the first entry holds such rights.
LEMMA SegmentsHold ==
  ASSUME NEW cs, Segment(cs)
  PROVE  /\ DOMAIN SegmentsOf(cs) = {"CS", "DS", "ES", "SS", "FS", "GS", "TR", "LDTR"}
         /\ \A n \in DOMAIN SegmentsOf(cs) : Segment(SegmentsOf(cs)[n])
  <1>1. \A selector, base, ar : RightsHeld(ar) => Segment(GuestSeg(selector, base, ar))
    <2> TAKE selector, base, ar
    <2>1. PICK limit : limit = 65535
      OBVIOUS
    <2>2. GuestSeg(selector, base, ar) = [selector |-> selector, base |-> base, limit |-> limit, ar |-> ar]
      BY <2>1 DEF GuestSeg
    <2> QED BY <2>2, Zenon DEF Segment
  <1>2. Segment(GuestSeg(0, 0, 147)) /\ Segment(GuestSeg(0, 0, 139)) /\ Segment(GuestSeg(0, 0, 130))
    BY <1>1, FixedRights
  <1>3. PICK a, b, c : a = GuestSeg(0, 0, 147) /\ b = GuestSeg(0, 0, 139) /\ c = GuestSeg(0, 0, 130)
    OBVIOUS
  <1>4. SegmentsOf(cs) = [CS |-> cs, DS |-> a, ES |-> a, SS |-> a, FS |-> a, GS |-> a, TR |-> b, LDTR |-> c]
    BY <1>3 DEF SegmentsOf
  <1>5. Segment(a) /\ Segment(b) /\ Segment(c)
    BY <1>2, <1>3
  <1> QED BY <1>4, <1>5

\* An exit that saves such rights in a segment leaves it holding them.
LEMMA SegmentWithRights ==
  ASSUME NEW s, Segment(s), NEW ar, RightsHeld(ar)
  PROVE  Segment([s EXCEPT !.ar = ar])
  <1>1. PICK selector, base, limit, old : s = [selector |-> selector, base |-> base, limit |-> limit, ar |-> old]
    BY Zenon DEF Segment
  <1>2. [s EXCEPT !.ar = ar] = [selector |-> selector, base |-> base, limit |-> limit, ar |-> ar]
    BY <1>1
  <1> QED BY <1>2, Zenon DEF Segment

\* A segment that holds such rights is read and written back unchanged.
LEMMA SegmentIsReadBack ==
  ASSUME NEW s, Segment(s)
  PROVE  IF Bit(s.ar, 16) = 1 THEN Bit(vmx_set_segment(ReadSegment(s)).ar, 16) = 1
         ELSE vmx_set_segment(ReadSegment(s)) = s
  <1>1. PICK selector, base, limit, ar :
          s = [selector |-> selector, base |-> base, limit |-> limit, ar |-> ar] /\ RightsHeld(ar)
    BY Zenon DEF Segment
  <1> QED BY <1>1, SegmentReadBack

\* The first exit: the host area is the host's own registers, and the segments read back.
LEMMA ExitStep ==
  ASSUME VmxInv, VmExit
  PROVE  VmxInv'
  <1>1. setup.pc = "guest" /\ UNCHANGED <<processor, feature_control, vmcs_config, vmx_capability>> /\ Goto("exited")
    BY DEF VmExit, At
  <1>2. setup.entered = hostRegs
    BY <1>1 DEF VmxInv, VmxEntered
  <1>3. setup.start_ip \in Nat /\ vmcs = VmcsAt(Eptp, StartCs(setup.start_ip), StartRip(setup.start_ip))
    BY <1>1 DEF VmxInv, VmxPrepared
  <1>4. hostRegs = HostAt(TRUE, TRUE)
    BY <1>1 DEF VmxInv, VmxPrepared
  <1>5. WordFits("EXIT")
    BY <1>1 DEF VmxInv, VmxConfigured, ControlWords
  <1>6. VmxShape' /\ setup'.pc = "exited" /\ setup'.entered = setup.entered
    BY <1>1, GotoIs, ShapeKept DEF VmxInv, VmxPcs
  <1>7. PICK cs, rip, e : cs = StartCs(setup.start_ip) /\ rip = StartRip(setup.start_ip) /\ e = Eptp
    OBVIOUS
  <1>8. vmcs = VmcsAt(e, cs, rip)
    BY <1>3, <1>7
  <1>9. /\ vmcs.controls = ControlsOf(vmcs_config) /\ vmcs.host = HostArea /\ vmcs.hostMsrs = hostRegs.msrs
        /\ vmcs.seg = SegmentsOf(cs)
    BY <1>8, VmcsFieldsAre
  <1>10. vmcs.controls["EXIT"] = vmcs_config["EXIT"]
    BY <1>9, WordsAre DEF ControlsOf, ControlWords
  <1>11. HostIsRestored'
    <2>1. \A r \in DOMAIN hostRegs :
            hostRegs'[r] = CASE r = "pat" -> IF "LOAD_PAT" \in vmcs.controls["EXIT"] THEN vmcs.host["pat"] ELSE "guest"
                             [] r = "msrs" -> vmcs.hostMsrs
                             [] r \in {"gdt_limit", "idt_limit"} -> 65535
                             [] r \in {"tss", "vmxon"} -> hostRegs[r]
                             [] OTHER -> vmcs.host[r]
      BY DEF VmExit
    <2>2. DOMAIN hostRegs' = DOMAIN hostRegs
      BY DEF VmExit
    <2>3. /\ DOMAIN hostRegs = HostAreaFields \cup OtherFields
          /\ \A r \in HostAreaFields : HostArea[r] = hostRegs[r]
          /\ HostArea.pat = IF "LOAD_PAT" \in vmcs_config["EXIT"] THEN hostRegs.pat ELSE "unwritten"
      BY <1>4, HostAreaIs, Zenon
    <2>4. ASSUME NEW r \in HostAreaFields PROVE hostRegs'[r] = hostRegs[r]
      <3>1. r \in DOMAIN hostRegs /\ r # "pat" /\ r # "msrs" /\ r \notin {"tss", "vmxon", "gdt_limit", "idt_limit"}
        BY <2>3 DEF HostAreaFields
      <3>2. hostRegs'[r] = vmcs.host[r]
        BY <2>1, <3>1
      <3> QED BY <1>9, <2>3, <3>2
    <2>5. ASSUME NEW r \in {"tss", "msrs", "vmxon"} PROVE hostRegs'[r] = hostRegs[r]
      <3>1. r \in DOMAIN hostRegs
        BY <2>3 DEF OtherFields
      <3> QED BY <1>9, <2>1, <3>1
    <2>6. hostRegs'["pat"] = hostRegs["pat"] \/ "LOAD_PAT" \notin processor.high["EXIT"]
      <3>1. "LOAD_PAT" \in processor.high["EXIT"] => "LOAD_PAT" \in vmcs_config["EXIT"]
        BY <1>5 DEF WordFits
      <3>2. "pat" \in DOMAIN hostRegs
        BY <2>3 DEF OtherFields
      <3>3. hostRegs'["pat"] = IF "LOAD_PAT" \in vmcs.controls["EXIT"] THEN vmcs.host["pat"] ELSE "guest"
        BY <2>1, <3>2
      <3> QED BY <1>9, <1>10, <2>3, <3>1, <3>3
    <2>8. ASSUME NEW r \in {"gdt_limit", "idt_limit"} PROVE hostRegs'[r] >= hostRegs[r]
      <3>1. r \in DOMAIN hostRegs
        BY <2>3 DEF OtherFields
      <3>2. hostRegs'[r] = 65535
        BY <2>1, <3>1
      <3>3. hostRegs.gdt_limit = 127 /\ hostRegs.idt_limit = 4095
        BY <1>4 DEF HostAt, HostFields, HostRecord
      <3> QED BY <3>2, <3>3
    <2>9. hostRegs'["sysenter_cs"] = 0
      <3>1. hostRegs.sysenter_cs = 0
        BY <1>4 DEF HostAt, HostFields, HostRecord
      <3> QED BY <2>4, <3>1 DEF HostAreaFields
    <2>7. \A r \in DOMAIN hostRegs :
            \/ hostRegs'[r] = hostRegs[r]
            \/ r = "pat" /\ "LOAD_PAT" \notin processor.high["EXIT"]
            \/ r \in {"gdt_limit", "idt_limit"} /\ hostRegs'[r] >= hostRegs[r]
            \/ r = "sysenter_esp" /\ hostRegs'["sysenter_cs"] = 0
      BY <2>3, <2>4, <2>5, <2>6, <2>8, <2>9 DEF OtherFields
    <2> QED BY <1>1, <1>2, <1>6, <2>2, <2>7 DEF HostIsRestored
  <1>12. SegmentsReadBack'
    <2>1. PICK seg \in {"CS", "SS", "DS"}, ar \in GuestRights : vmcs' = [vmcs EXCEPT !.seg[seg].ar = ar]
      BY DEF VmExit
    <2>2. Segment(cs)
      <3>1. cs = [base |-> cs.base, limit |-> 65535, selector |-> cs.selector, ar |-> 155]
        BY <1>3, <1>7, RightsOfStart
      <3>2. PICK selector, base, limit, r : selector = cs.selector /\ base = cs.base /\ limit = 65535 /\ r = 155
        OBVIOUS
      <3>3. cs = [selector |-> selector, base |-> base, limit |-> limit, ar |-> r]
        BY <3>1, <3>2
      <3>4. RightsHeld(r)
        BY <3>2, FixedRights
      <3> QED BY <3>3, <3>4, Zenon DEF Segment
    <2>3. PICK s : s = vmcs.seg
      OBVIOUS
    <2>4. /\ DOMAIN s = {"CS", "DS", "ES", "SS", "FS", "GS", "TR", "LDTR"}
          /\ \A n \in DOMAIN s : Segment(s[n])
      BY <1>9, <2>2, <2>3, SegmentsHold
    <2>5. vmcs'.seg = [s EXCEPT ![seg] = [s[seg] EXCEPT !.ar = ar]]
      <3>1. "seg" \in DOMAIN vmcs
        BY <1>8 DEF VmcsAt, VmcsFields
      <3> QED BY <2>1, <2>3, <3>1
    <2>6. \A n \in DOMAIN vmcs'.seg : Segment(vmcs'.seg[n])
      <3>1. Segment([s[seg] EXCEPT !.ar = ar])
        BY <2>4, SavedRights, SegmentWithRights
      <3> QED BY <2>4, <2>5, <3>1
    <2>7. ASSUME NEW n \in DOMAIN vmcs'.seg
          PROVE  LET again == vmx_set_segment(vmx_get_segment(n)')
                 IN  IF Bit(vmcs'.seg[n].ar, 16) = 1 THEN Bit(again.ar, 16) = 1 ELSE again = vmcs'.seg[n]
      <3>1. vmx_get_segment(n)' = ReadSegment(vmcs'.seg[n])
        BY Zenon DEF vmx_get_segment, ReadSegment
      <3> QED BY <2>6, <3>1, SegmentIsReadBack
    <2> QED BY <2>7, Zenon DEF SegmentsReadBack
  <1> QED BY <1>6, <1>11, <1>12 DEF VmxInv, VmxChecked, VmxConfigured, VmxPrepared, VmxEntered

\* A step that leaves VMX alone.
LEMMA VmxStutters ==
  ASSUME VmxInv, UNCHANGED vmxVars
  PROVE  VmxInv'
  <1>1. UNCHANGED <<processor, feature_control, hostRegs, vmcs_config, vmx_capability, vmcs, setup>>
    BY DEF vmxVars
  <1>2. VmxShape' /\ \A w : WordFits(w)' = WordFits(w)
    BY <1>1, ShapeKept DEF VmxInv, VmxShape
  <1>3. VmxChecked' /\ VmxConfigured'
    BY <1>1, <1>2 DEF VmxInv, VmxChecked, VmxConfigured, DisabledByBios
  <1>4. VmxPrepared'
    <2>1. \A eptp, cs, rip : VmcsAt(eptp, cs, rip)' = VmcsAt(eptp, cs, rip)
      BY <1>1, SameVmcs
    <2> QED BY <1>1, <2>1, Zenon DEF VmxInv, VmxPrepared
  <1>5. VmxEntered'
    <2>1. HostIsRestored' = HostIsRestored
      BY <1>1 DEF HostIsRestored
    <2>2. \A n : vmx_get_segment(n)' = vmx_get_segment(n)
      BY <1>1 DEF vmx_get_segment
    <2>3. SegmentsReadBack' = SegmentsReadBack
      BY <1>1, <2>2 DEF SegmentsReadBack
    <2>4. AsCleared(vmcs.region)' = AsCleared(vmcs.region)
      BY <1>1 DEF AsCleared
    <2> QED BY <1>1, <2>1, <2>3, <2>4 DEF VmxInv, VmxEntered
  <1> QED BY <1>2, <1>3, <1>4, <1>5 DEF VmxInv

-----------------------------------------------------------------------------
\* The invariant of a run about VMX; in the others VMX is not set up.
VmxSetupInv == IF part = "vmx" THEN VmxInv ELSE setup.pc = ""

\* From the capabilities to the first exit, every step keeps the invariant.
THEOREM VmxInvariant == Spec => []VmxSetupInv
  <1>1. Init => VmxSetupInv
    <2>1. Init /\ part = "vmx" => VmxSetupInv
      BY VmxStarts DEF Init, VmxSetupInv
    <2>2. Init /\ part # "vmx" => VmxSetupInv
      <3> SUFFICES ASSUME Init, part # "vmx" PROVE VmxSetupInv
        OBVIOUS
      <3>1. VmxIdle
        BY Zenon DEF Init
      <3>2. setup = [pc |-> ""]
        BY <3>1, Zenon DEF VmxIdle
      <3> QED BY <3>2 DEF VmxSetupInv
    <2> QED BY <2>1, <2>2
  <1>2. VmxSetupInv /\ [Next]_vars => VmxSetupInv'
    <2> SUFFICES ASSUME VmxSetupInv, [Next]_vars PROVE VmxSetupInv'
      OBVIOUS
    <2>1. CASE UNCHANGED <<part, vmxVars>>
      <3>1. CASE part = "vmx"
        BY <2>1, <3>1, VmxStutters DEF VmxSetupInv
      <3>2. CASE part # "vmx"
        BY <2>1, <3>2 DEF VmxSetupInv, vmxVars
      <3> QED BY <3>1, <3>2
    <2>2. CASE Vmx
      <3>1. part = "vmx" /\ part' = "vmx" /\ VmxNext /\ VmxInv
        BY <2>2 DEF Vmx, VmxSetupInv
      <3>2. VmxInv'
        BY <3>1, EarlySteps, AdjustStep, EnableStep, SetupStep, EntryStep, ExitStep, Zenon DEF VmxNext
      <3> QED BY <3>1, <3>2 DEF VmxSetupInv
    <2> QED BY <2>1, <2>2 DEF Next, vars, Mode, Cpu, Clock, Pic, Guest
  <1> QED BY <1>1, <1>2, PTL DEF Spec

\* On every processor that passes the checks VMXON does not fault, the first VM entry is
\* refused only for what the region held that no VMCLEAR initialised, and an accepted one
\* starts the guest at start_ip.
THEOREM GuestsAreAlwaysEntered == Spec => []GuestIsEntered
  <1>1. VmxSetupInv => GuestIsEntered
    <2> SUFFICES ASSUME VmxSetupInv PROVE GuestIsEntered
      OBVIOUS
    <2>1. CASE part # "vmx"
      BY <2>1 DEF VmxSetupInv, GuestIsEntered, VmxonNeverFaults, FirstEntryIsAccepted, StartsAtStartIp
    <2>2. CASE part = "vmx"
      <3>1. VmxInv /\ setup.pc \in VmxPcs
        BY <2>2 DEF VmxSetupInv, VmxInv, VmxShape
      <3>2. VmxonNeverFaults /\ FirstEntryIsAccepted
        BY <3>1 DEF VmxonNeverFaults, FirstEntryIsAccepted, VmxPcs, VmxInv, VmxEntered
      <3>3. StartsAtStartIp
        <4> SUFFICES ASSUME setup.pc \in {"enter", "guest"}
                     PROVE  /\ 16 * vmcs.seg.CS.base + vmcs.rip = setup.start_ip
                            /\ setup.start_ip < 2^20 => vmcs.seg.CS.selector = vmcs.seg.CS.base
          BY DEF StartsAtStartIp
        <4>1. setup.start_ip \in Nat /\ vmcs = VmcsAt(Eptp, StartCs(setup.start_ip), StartRip(setup.start_ip))
          BY <3>1 DEF VmxInv, VmxPrepared
        <4>2. PICK start \in Nat : start = setup.start_ip
          BY <4>1
        <4>3. PICK e, cs, rip : e = Eptp /\ cs = StartCs(start) /\ rip = StartRip(start)
          OBVIOUS
        <4>4. vmcs = VmcsAt(e, cs, rip)
          BY <4>1, <4>2, <4>3
        <4>5. vmcs.seg = SegmentsOf(cs) /\ vmcs.rip = rip
          BY <4>4, VmcsFieldsAre
        <4>6. vmcs.seg["CS"] = cs
          BY <4>5 DEF SegmentsOf
        <4>7. cs.base = (start \div 65536) * 4096 /\ cs.selector = ((start \div 65536) * 4096) % 65536
          BY <4>3, RightsOfStart
        <4>8. 16 * ((start \div 65536) * 4096) + (start % 65536) = start
          OBVIOUS
        <4>9. start < 2^20 => ((start \div 65536) * 4096) % 65536 = (start \div 65536) * 4096
          <5>1. start < 1048576 => start \div 65536 \in 0 .. 15
            OBVIOUS
          <5>2. 2^20 = 1048576
            OBVIOUS
          <5> QED BY <5>1, <5>2
        <4> QED BY <4>2, <4>3, <4>5, <4>6, <4>7, <4>8, <4>9 DEF StartRip
      <3> QED BY <3>2, <3>3 DEF GuestIsEntered
    <2> QED BY <2>1, <2>2
  <1> QED BY <1>1, VmxInvariant, PTL

\* After an exit the monitor has its registers as at the entry, but for the PAT of a processor
\* that cannot load it, the limits of the descriptor tables and SYSENTER_ESP; and it reads and
\* writes back every segment as the guest left it.
THEOREM StateAlwaysSurvivesExit == Spec => []StateSurvivesExit
  <1>1. VmxSetupInv => StateSurvivesExit
    <2>1. setup.pc # "exited" => StateSurvivesExit
      BY DEF StateSurvivesExit, HostIsRestored, SegmentsReadBack
    <2>2. VmxSetupInv /\ setup.pc = "exited" => StateSurvivesExit
      BY DEF VmxSetupInv, VmxInv, VmxEntered, StateSurvivesExit
    <2> QED BY <2>1, <2>2
  <1> QED BY <1>1, VmxInvariant, PTL

-----------------------------------------------------------------------------
(***************************************************************************)
(* The guest's kernel.                                                     *)
(***************************************************************************)
\* A set of natural numbers that is not empty has a least one.
LEMMA LeastNatural ==
  ASSUME NEW T \in SUBSET Nat, T # {}
  PROVE  \E x \in T : \A y \in T : x <= y
<1> DEFINE less == {ss \in Nat \X Nat : ss[1] < ss[2]}
<1>1. IsWellFoundedOn(less, Nat)
  BY NatLessThanWellFounded, Zenon DEF OpToRel
<1> HIDE DEF less
<1>2. PICK x \in T : \A y \in T : ~ (<<y, x>> \in less)
  BY <1>1, WFMin
<1>3. \A y \in T : ~ (y < x)
  BY <1>2 DEF less
<1> QED
  BY <1>3

Memory == 0 .. MemSize - 1

\* What Copied is after k cells.
CopyTo(m, to, from, n) ==
  CHOOSE f : f = [k \in 0 .. n |->
    IF k = 0 THEN m ELSE [f[k - 1] EXCEPT ![to + k - 1] = f[k - 1][from + k - 1]]]

\* Copied by its steps.
LEMMA CopiedIs ==
  ASSUME NEW m, NEW to, NEW from, NEW n
  PROVE  Copied(m, to, from, n) = CopyTo(m, to, from, n)[n]
BY Zenon DEF Copied, CopyTo

IsMemory(m) == m = [x \in Memory |-> m[x]]

\* A copy within memory.
CopyOk(m, to, from, n) ==
  /\ IsMemory(m)
  /\ to \in Nat /\ from \in Nat /\ n \in Nat
  /\ to + n <= MemSize /\ from + n <= MemSize

\* Which cell of the source the c-th cell gets: a copy to behind its source, within it, repeats
\* what it has already written.
Place(to, from, c) == IF from < to THEN c % (to - from) ELSE c

Moved(m, to, from, n) ==
  [x \in Memory |-> IF x >= to /\ x < to + n THEN m[from + Place(to, from, x - to)] ELSE m[x]]

\* The remainder, one divisor on.
LEMMA RemainderOn ==
  ASSUME NEW d \in Nat \ {0}, NEW c \in Nat
  PROVE  /\ c < d => c % d = c
         /\ c >= d => (c - d) % d = c % d
<1>1. ASSUME c < d PROVE c % d = c
  BY <1>1
<1>2. ASSUME c >= d PROVE (c - d) % d = c % d
  <2>1. PICK e \in Nat : e = c - d
    BY <1>2
  <2>2. /\ e = d * (e \div d) + (e % d) /\ e \div d \in Int /\ e % d \in 0 .. d - 1
        /\ c = d * (c \div d) + (c % d) /\ c \div d \in Int /\ c % d \in 0 .. d - 1
    BY Division
  <2>3. PICK q \in Int, r \in 0 .. d - 1, u \in Int, v \in 0 .. d - 1 :
          q = e \div d /\ r = e % d /\ u = c \div d /\ v = c % d
    BY <2>2
  <2>4. e = d * q + r /\ e + d = d * u + v
    BY <2>1, <2>2, <2>3
  <2>5. PICK t \in Int : t = u - q - 1
    OBVIOUS
  <2>6. d * t = d * u - d * q - d
    BY <2>5
  <2>7. d * t = r - v
    BY <2>4, <2>6
  <2>8. t = 0
    <3>1. ~(t >= 1)
      <4> SUFFICES ASSUME t >= 1 PROVE FALSE
        OBVIOUS
      <4>1. PICK k \in Nat : t = k + 1
        BY t - 1 \in Nat
      <4>2. d * t = d * k + d /\ d * k \in Nat
        BY <4>1
      <4> QED  BY <2>7, <4>2
    <3>2. ~(t <= -1)
      <4> SUFFICES ASSUME t <= -1 PROVE FALSE
        OBVIOUS
      <4>1. PICK k \in Nat : t = -k - 1
        BY -t - 1 \in Nat
      <4>2. d * t = -(d * k) - d /\ d * k \in Nat
        BY <4>1
      <4> QED  BY <2>7, <4>2
    <3> QED  BY <3>1, <3>2
  <2>9. r = v
    BY <2>7, <2>8
  <2> QED  BY <2>1, <2>3, <2>9
<1> QED  BY <1>1, <1>2

\* Such a copy moves the cells and nothing else.
LEMMA CopiedFacts ==
  ASSUME NEW m, NEW to, NEW from, NEW n, CopyOk(m, to, from, n)
  PROVE  Copied(m, to, from, n) = Moved(m, to, from, n)
<1> USE DEF CopyOk, IsMemory
<1>0. MemSize \in Nat
  BY GuestBootConstants DEF GuestBootConstants
<1> DEFINE Part(k) == [x \in Memory |-> IF x >= to /\ x < to + k THEN m[from + Place(to, from, x - to)] ELSE m[x]]
           g == [k \in 0 .. n |-> Part(k)]
<1>1. Part(0) = m
  BY <1>0 DEF Memory
<1>2. ASSUME NEW k \in 1 .. n
      PROVE  Part(k) = [Part(k - 1) EXCEPT ![to + k - 1] = Part(k - 1)[from + k - 1]]
  <2>1. to + k - 1 \in Memory /\ from + k - 1 \in Memory
    BY <1>0 DEF Memory
  <2>2. Part(k - 1)[from + k - 1] = m[from + Place(to, from, k - 1)]
    <3>1. PICK c \in Nat, y \in Memory : c = k - 1 /\ y = from + k - 1 /\ y = from + c
      BY <2>1 DEF Memory
    <3>2. Part(c)[y] = IF y >= to /\ y < to + c THEN m[from + Place(to, from, y - to)] ELSE m[y]
      OBVIOUS
    <3>3. CASE from < to
      <4>1. PICK d \in Nat \ {0} : d = to - from
        BY <3>3
      <4>2. Place(to, from, c) = c % d /\ Place(to, from, y - to) = (y - to) % d /\ y - to = c - d
        BY <3>1, <3>3, <4>1 DEF Place
      <4>3. CASE c < d
        <5>1. ~(y >= to) /\ c % d = c
          BY <3>1, <4>1, <4>3, RemainderOn
        <5>2. from + Place(to, from, c) = y
          BY <3>1, <4>2, <5>1
        <5> QED  BY <3>1, <3>2, <5>1, <5>2
      <4>4. CASE c >= d
        <5>1. y >= to /\ y < to + c /\ (c - d) % d = c % d
          BY <3>1, <3>3, <4>1, <4>4, RemainderOn
        <5>2. Place(to, from, y - to) = Place(to, from, c)
          BY <4>2, <5>1
        <5> QED  BY <3>1, <3>2, <5>1, <5>2
      <4> QED  BY <4>3, <4>4
    <3>4. CASE ~(from < to)
      <4>1. ~(y < to + c) /\ Place(to, from, c) = c
        BY <3>1, <3>4 DEF Place
      <4> QED  BY <3>1, <3>2, <4>1
    <3> QED  BY <3>3, <3>4
  <2>3. ASSUME NEW x \in Memory
        PROVE  Part(k)[x] = IF x = to + k - 1 THEN m[from + Place(to, from, k - 1)] ELSE Part(k - 1)[x]
    <3>1. CASE x = to + k - 1
      <4>1. x >= to /\ x < to + k /\ x - to = k - 1
        BY <3>1 DEF Memory
      <4> QED  BY <3>1, <4>1
    <3>2. CASE x # to + k - 1
      <4>1. (x >= to /\ x < to + k) <=> (x >= to /\ x < to + (k - 1))
        BY <3>2 DEF Memory
      <4> QED  BY <3>2, <4>1
    <3> QED  BY <3>1, <3>2
  <2> QED  BY <2>1, <2>2, <2>3
<1>3. g = [k \in 0 .. n |->
         IF k = 0 THEN m ELSE [g[k - 1] EXCEPT ![to + k - 1] = g[k - 1][from + k - 1]]]
  <2>1. ASSUME NEW k \in 0 .. n
        PROVE  g[k] = IF k = 0 THEN m ELSE [g[k - 1] EXCEPT ![to + k - 1] = g[k - 1][from + k - 1]]
    <3>1. CASE k = 0
      BY <1>1, <3>1
    <3>2. CASE k # 0
      <4>1. k \in 1 .. n /\ k - 1 \in 0 .. n
        BY <3>2
      <4>2. g[k] = Part(k) /\ g[k - 1] = Part(k - 1)
        BY <4>1, Zenon
      <4> HIDE DEF g, Part
      <4> QED  BY <1>2, <3>2, <4>1, <4>2, Zenon
    <3> QED  BY <3>1, <3>2
  <2> HIDE DEF Part
  <2>2. g = [k \in 0 .. n |-> g[k]]
    OBVIOUS
  <2> HIDE DEF g
  <2> QED  BY <2>1, <2>2
<1> DEFINE f == CopyTo(m, to, from, n)
<1>4. f = [k \in 0 .. n |->
         IF k = 0 THEN m ELSE [f[k - 1] EXCEPT ![to + k - 1] = f[k - 1][from + k - 1]]]
  <2> HIDE DEF g
  <2> QED  BY <1>3, Zenon DEF CopyTo
<1>5. \A k \in 0 .. n : g[k] = Part(k)
  <2> HIDE DEF Part
  <2> QED  OBVIOUS
<1> HIDE DEF f, g, Part
<1>6. \A k \in 0 .. n : f[k] = Part(k)
  <2> DEFINE T == {k \in 0 .. n : f[k] # Part(k)}
  <2> SUFFICES ASSUME T # {} PROVE FALSE
    OBVIOUS
  <2>1. T \in SUBSET Nat
    OBVIOUS
  <2>2. PICK k \in T : \A j \in T : k <= j
    BY <2>1, LeastNatural
  <2>3. k \in 0 .. n /\ f[k] # Part(k)
    OBVIOUS
  <2>4. k # 0
    BY <1>1, <1>4, <2>3
  <2>5. k - 1 \in 0 .. n /\ k - 1 \notin T /\ k \in 1 .. n
    BY <2>2, <2>3, <2>4
  <2>6. f[k - 1] = Part(k - 1)
    BY <2>5
  <2> HIDE DEF T
  <2>7. f[k] = [f[k - 1] EXCEPT ![to + k - 1] = f[k - 1][from + k - 1]]
    BY <1>4, <2>3, <2>4, Zenon
  <2> QED  BY <1>2, <2>3, <2>5, <2>6, <2>7, Zenon
<1>7. n \in 0 .. n
  OBVIOUS
<1>8. Copied(m, to, from, n) = Part(n)
  BY <1>6, <1>7, CopiedIs, Zenon DEF f
<1> QED  BY <1>8 DEF Part, Moved

\* The image is in memory as the loader left it.
HoldsImage(m, k) == \A c \in 0 .. k.len - 1 : m[k.start + c] = <<"image", c>>

\* A segment that a kernel may have.
Fits(k, p) ==
  /\ p.offset \in Nat /\ p.filesz \in Nat /\ p.memsz \in Nat /\ p.vaddr \in Nat /\ p.paddr \in Nat
  /\ p.filesz <= p.memsz
  /\ p.offset + p.filesz <= k.len
  /\ p.paddr + p.memsz <= MemSize

LoadOk(m, to, from, n, z) ==
  /\ CopyOk(m, to, from, n)
  /\ z \in Nat /\ n <= z /\ to + z <= MemSize

Loaded(m, to, from, n, z) == Filled(Copied(m, to, from, n), to + n, z - n)

\* Loading a segment changes no cell that is not its own, whatever lies where.
LEMMA LoadKeeps ==
  ASSUME NEW m, NEW to, NEW from, NEW n, NEW z, LoadOk(m, to, from, n, z), NEW r, r = Loaded(m, to, from, n, z)
  PROVE  /\ IsMemory(r)
         /\ \A x \in Memory : r[x] = IF x >= to + n /\ x < to + z THEN <<"zero", 0>> ELSE Moved(m, to, from, n)[x]
         /\ \A x \in Memory : x \notin Span(to, z) => r[x] = m[x]
<1>0. MemSize \in Nat
  BY GuestBootConstants DEF GuestBootConstants
<1> USE DEF LoadOk, CopyOk
<1>1. PICK copy : copy = Copied(m, to, from, n)
  OBVIOUS
<1>2. copy = Moved(m, to, from, n)
  <2>1. CopyOk(m, to, from, n)
    BY Zenon DEF LoadOk
  <2> HIDE DEF LoadOk, CopyOk
  <2> QED  BY <1>1, <2>1, CopiedFacts
<1>3. DOMAIN copy = Memory
  BY <1>2 DEF Moved
<1>4. r = [x \in Memory |-> IF x \in (to + n) .. (to + n) + (z - n) - 1 THEN <<"zero", 0>> ELSE copy[x]]
  BY <1>1, <1>3 DEF Filled, Loaded
<1>5. \A x \in Memory : r[x] = IF x >= to + n /\ x < to + z THEN <<"zero", 0>> ELSE copy[x]
  <2> SUFFICES ASSUME NEW x \in Memory
               PROVE  r[x] = IF x >= to + n /\ x < to + z THEN <<"zero", 0>> ELSE copy[x]
    OBVIOUS
  <2>1. x \in (to + n) .. (to + n) + (z - n) - 1 <=> x >= to + n /\ x < to + z
    BY <1>0 DEF Memory
  <2> QED  BY <1>4, <2>1
<1>6. IsMemory(r)
  BY <1>4 DEF IsMemory
<1>7. ASSUME NEW x \in Memory, x \notin Span(to, z) PROVE r[x] = m[x]
  <2>1. ~(x >= to /\ x < to + z)
    BY <1>7 DEF Span, Memory
  <2>2. ~(x >= to + n /\ x < to + z) /\ ~(x >= to /\ x < to + n)
    BY <2>1 DEF Memory
  <2>3. Moved(m, to, from, n)[x] = m[x]
    BY <2>2 DEF Moved
  <2> QED  BY <1>2, <1>5, <2>2, <2>3
<1> QED  BY <1>2, <1>5, <1>6, <1>7

\* A segment that spares the cells of its own that are copied later arrives as it was.
LEMMA LoadMoves ==
  ASSUME NEW m, NEW to, NEW from, NEW n, NEW z, LoadOk(m, to, from, n, z), NEW r, r = Loaded(m, to, from, n, z),
         to \notin Span(from, n) \ {from}, NEW c \in 0 .. z - 1
  PROVE  r[to + c] = IF c < n THEN m[from + c] ELSE <<"zero", 0>>
<1>0. MemSize \in Nat
  BY GuestBootConstants DEF GuestBootConstants
<1>2. \A x \in Memory : r[x] = IF x >= to + n /\ x < to + z THEN <<"zero", 0>> ELSE Moved(m, to, from, n)[x]
  BY LoadKeeps
<1> USE DEF LoadOk, CopyOk
<1>1. PICK x \in Memory : x = to + c
  BY <1>0 DEF Memory
<1>5. r[x] = IF x >= to + n /\ x < to + z THEN <<"zero", 0>> ELSE Moved(m, to, from, n)[x]
  BY <1>2
<1>3. CASE c < n
  <2>1. ~(x >= to + n) /\ x >= to /\ x < to + n /\ x - to = c
    BY <1>1, <1>3
  <2>2. Moved(m, to, from, n)[x] = m[from + Place(to, from, c)]
    BY <2>1 DEF Moved
  <2>3. Place(to, from, c) = c
    <3>1. CASE from < to
      <4>1. from + n <= to
        BY <3>1 DEF Span
      <4>2. PICK d \in Nat \ {0} : d = to - from
        BY <3>1
      <4>3. c < d /\ c \in Nat
        BY <1>3, <4>1, <4>2
      <4>4. c % d = c
        BY <4>3, RemainderOn
      <4> QED  BY <3>1, <4>2, <4>4 DEF Place
    <3>2. CASE ~(from < to)
      BY <3>2 DEF Place
    <3> QED  BY <3>1, <3>2
  <2> QED  BY <1>1, <1>3, <1>5, <2>1, <2>2, <2>3
<1>4. CASE ~(c < n)
  <2>1. x >= to + n /\ x < to + z
    BY <1>1, <1>4
  <2> QED  BY <1>1, <1>4, <1>5, <2>1
<1> QED  BY <1>3, <1>4

\* The segments a kernel of a loader has are segments it may have.
LEMMA KernelFits ==
  ASSUME mods \in Loaders
  PROVE  /\ Image.start \in Nat /\ Image.len \in Nat /\ Image.entry \in Nat
         /\ Image.start >= FIRMWARE_START + FirmwareSize
         /\ Image.start + Image.len <= MemSize
         /\ Len(Segments) \in Nat /\ \A i \in Loads : i \in 1 .. Len(Segments) /\ Fits(Image, Segments[i])
         /\ Image.aout => Image.header \in 0 .. Image.len - 1
         /\ ~Image.aout => /\ Segments = Image.phdrs /\ Len(Image.phdrs) \in Nat
                           /\ DOMAIN Image.phdrs = 1 .. Len(Image.phdrs)
                           /\ Image.phoff \in Nat /\ Image.phoff + Len(Image.phdrs) <= Image.len
<1>1. WellFormed(Image)
  BY GuestBootConstants DEF GuestBootConstants, Image
<1>2. /\ Image.start \in Nat /\ Image.len \in Nat /\ Image.entry \in Nat
      /\ Image.start >= FIRMWARE_START + FirmwareSize
      /\ Image.start + Image.len <= MemSize
  BY <1>1 DEF WellFormed
<1>3. CASE Image.aout
  <2> DEFINE a == Image.load_addr
             b == Image.load_end_addr
             c == Image.bss_end_addr
             o == FileOffset(Image)
             p == [type |-> "PT_LOAD", offset |-> o, filesz |-> b - a, memsz |-> c - a, vaddr |-> a, paddr |-> a]
  <2>1. Segments = <<p>>
    BY <1>3 DEF Segments
  <2>2. a \in Nat /\ o \in Nat /\ b \in a .. a + (Image.len - o) /\ c \in b .. MemSize
    BY <1>1, <1>3 DEF WellFormed
  <2>3. MemSize \in Nat
    BY GuestBootConstants DEF GuestBootConstants
  <2> HIDE DEF a, b, c, o
  <2>4. /\ o \in Nat /\ b - a \in Nat /\ c - a \in Nat /\ a \in Nat /\ b - a <= c - a
        /\ o + (b - a) <= Image.len /\ a + (c - a) <= MemSize
    BY <1>2, <2>2, <2>3
  <2>5. /\ p.offset = o /\ p.filesz = b - a /\ p.memsz = c - a /\ p.vaddr = a /\ p.paddr = a
    OBVIOUS
  <2> HIDE DEF p
  <2>6. Fits(Image, p)
    BY <2>4, <2>5 DEF Fits
  <2>7. DOMAIN Segments = 1 .. 1 /\ Len(Segments) = 1 /\ Segments[1] = p
    BY <2>1
  <2>8. \A i \in Loads : i = 1 /\ i \in 1 .. Len(Segments)
    BY <2>7 DEF Loads
  <2>9. Image.header \in 0 .. Image.len - 1
    BY <1>1, <1>2, <1>3 DEF WellFormed
  <2> QED  BY <1>2, <1>3, <2>6, <2>7, <2>8, <2>9
<1>4. CASE ~Image.aout
  <2>1. Segments = Image.phdrs
    BY <1>4 DEF Segments
  <2> DEFINE ps == Image.phdrs
  <2>2. /\ ps \in Seq(Range(ps)) /\ Image.phoff \in Nat /\ Image.phoff + Len(ps) <= Image.len
        /\ \A p \in Range(ps) : p.type = "PT_LOAD" => Fits(Image, p)
    BY <1>1, <1>4 DEF WellFormed, Fits
  <2> HIDE DEF ps
  <2>3. Len(ps) \in Nat /\ DOMAIN ps = 1 .. Len(ps) /\ \A i \in 1 .. Len(ps) : ps[i] \in Range(ps)
    BY <2>2
  <2>4. \A i \in Loads : i \in 1 .. Len(Segments) /\ Fits(Image, Segments[i])
    BY <2>1, <2>2, <2>3 DEF Loads, ps
  <2> QED  BY <1>2, <1>4, <2>1, <2>2, <2>3, <2>4 DEF ps
<1> QED  BY <1>3, <1>4

\* The entry point after the first n - 1 segments.
EntryIs(e, n) ==
  EntryIsClear =>
    \/ e = Image.entry /\ \A i \in Loads : i < n => ~InSegment(Image.entry, Segments[i])
    \/ \E i \in Loads : i < n /\ HasEntry(i) /\ e = Physical(i)

\* A segment translates the entry point if it is in it, and then no later one does.
LEMMA EntryTranslates ==
  ASSUME mods \in Loaders, NEW n \in Loads, NEW e, EntryIs(e, n)
  PROVE  EntryIs(Translated(e, Segments[n]), n + 1)
<1> DEFINE q == Segments[n]
           x == Image.entry
<1> SUFFICES ASSUME EntryIsClear
             PROVE  \/ /\ Translated(e, q) = x
                       /\ \A i \in Loads : i < n + 1 => ~InSegment(x, Segments[i])
                    \/ \E i \in Loads : i < n + 1 /\ HasEntry(i) /\ Translated(e, q) = Physical(i)
  BY DEF EntryIs
<1>1. /\ x \in Nat /\ n \in Nat /\ Fits(Image, q) /\ MemSize \in Nat /\ EntryWrap \in Nat /\ MemSize <= EntryWrap
      /\ \A i \in Loads : i \in Nat
  BY KernelFits, GuestBootConstants, SMTT(40) DEF GuestBootConstants
<1>2. CASE e = x /\ \A i \in Loads : i < n => ~InSegment(x, Segments[i])
  <2>1. CASE InSegment(x, q)
    <3>1. PICK v \in Nat, t \in Nat, z \in Nat : v = q.vaddr /\ t = q.paddr /\ z = q.memsz /\ t + z <= MemSize
      BY <1>1 DEF Fits
    <3>2. x >= v /\ x - v < z
      BY <2>1, <3>1 DEF InSegment
    <3>3. t + (x - v) \in 0 .. (EntryWrap - 1)
      BY <1>1, <3>1, <3>2
    <3>4. (t + (x - v)) % EntryWrap = t + (x - v)
      BY <1>1, <3>3
    <3>5. Translated(e, q) = Physical(n)
      BY <1>2, <2>1, <3>1, <3>4 DEF Translated, Physical
    <3>6. HasEntry(n)
      BY <1>2, <2>1 DEF HasEntry
    <3>7. n < n + 1
      BY <1>1
    <3> QED  BY <3>5, <3>6, <3>7
  <2>2. CASE ~InSegment(x, q)
    <3>1. Translated(e, q) = x
      BY <1>2, <2>2 DEF Translated
    <3>2. \A i \in Loads : i < n + 1 => i < n \/ i = n
      BY <1>1
    <3> QED  BY <1>2, <2>2, <3>1, <3>2
  <2> QED  BY <2>1, <2>2
<1>3. CASE \E i \in Loads : i < n /\ HasEntry(i) /\ e = Physical(i)
  <2>1. PICK i \in Loads : i < n /\ HasEntry(i) /\ e = Physical(i)
    BY <1>3
  <2>2. ~InSegment(e, q)
    BY <2>1 DEF EntryIsClear
  <2>3. Translated(e, q) = e
    BY <2>2 DEF Translated
  <2>4. i < n + 1
    BY <1>1, <2>1
  <2> QED  BY <2>1, <2>3, <2>4
<1> QED  BY <1>2, <1>3 DEF EntryIs

(***************************************************************************)
(* GuestInv.  Until the kernel is loaded, its image lies in memory as the  *)
(* loader left it.  Of a kernel that can be loaded, what is still to be    *)
(* read does while the segments are loaded, and the ones before phdr.i are *)
(* where they belong unless a later one of these is there.  Parameters     *)
(* that no segment lands on stay.                                          *)
(***************************************************************************)
StillImage(m, n) ==
  \A x \in Memory : (x \in Headers(n) \/ \E j \in Loads : j >= n /\ x \in Source(j))
                      => m[x] = <<"image", x - Image.start>>

HoldsSegment(m, i, n) ==
  LET p == Segments[i]
  IN  \A c \in 0 .. p.memsz - 1 :
        (\A j \in Loads : j > i /\ j < n => p.paddr + c \notin Target(j))
        => m[p.paddr + c] = IF c < p.filesz THEN <<"image", p.offset + c>> ELSE <<"zero", 0>>

LoadedBefore(m, n) == \A i \in Loads : i < n => HoldsSegment(m, i, n)

ParamsStay(m) ==
  \A c \in 0 .. ParamsSize - 1 :
    (\A i \in Loads : FIRMWARE_START + c \notin Target(i)) => m[FIRMWARE_START + c] = <<"params", c>>

GuestParts == {"kernel", "cmdline", "initrd", "e820", "jump"}

ToldInv ==
  /\ DOMAIN guest_params = GuestParts
  /\ booting \notin {"multiboot_init", "panic"} =>
       /\ guest_params.kernel.start = Image.start
       /\ guest_params.cmdline = mods.cmdline
       /\ guest_params.initrd = IF mods.count > 1 THEN mods.initrd ELSE NONE
  /\ booting \notin {"multiboot_init", "panic", "kvm_init"} => guest_params.e820 = mods.e820
  /\ GuestIsToldTheTruth

ImageInv ==
  /\ booting \in {"multiboot_init", "kvm_init", "jump", "load_multiboot"} =>
       IsMemory(mem) /\ HoldsImage(mem, Image)
  /\ booting \in {"jump", "load_multiboot", "segment", "info"} => IsMemory(mem) /\ ParamsStay(mem)
  /\ booting = "jump" =>
       guest_params.jump = firmware /\ mem[FIRMWARE_START + 3 + firmware][1] = "firmware"

LoadInv ==
  /\ DOMAIN phdr = {"i", "entry"}
  /\ booting = "segment" =>
       /\ ~Image.aout /\ phdr.i \in 1 .. Len(Image.phdrs) + 1 /\ EntryIs(phdr.entry, phdr.i)
       /\ Loadable => StillImage(mem, phdr.i) /\ LoadedBefore(mem, phdr.i)
  /\ booting = "garbage" => ~Loadable
  /\ booting \in {"info", "kernel"} =>
       /\ EntryIs(phdr.entry, Len(Segments) + 1)
       /\ Loadable => LoadedBefore(mem, Len(Segments) + 1)

GuestInv ==
  part = "guest" =>
    /\ mods \in Loaders /\ firmware \in FirmwareJumps
    /\ booting # "lost"
    /\ ToldInv
    /\ ImageInv
    /\ LoadInv

\* The invariant is all the property asks for.
LEMMA GuestInvSuffices ==
  ASSUME part = "guest", GuestInv
  PROVE  KernelIsStarted
<1>1. mods \in Loaders /\ booting # "lost" /\ GuestIsToldTheTruth /\ LoadInv
  BY DEF GuestInv, ToldInv
<1>2. FirmwareFindsItsCode
  BY <1>1 DEF FirmwareFindsItsCode
<1>3. Len(Segments) \in Nat /\ \A i \in Loads : i \in 1 .. Len(Segments) /\ i < Len(Segments) + 1 /\ i \in Nat
  BY <1>1, KernelFits
<1>4. KernelIsLoaded
  <2> SUFFICES ASSUME booting \in {"kernel", "garbage"}, Loadable
               PROVE  /\ booting = "kernel"
                      /\ \A i \in Loads : \A k \in 0 .. Segments[i].memsz - 1 :
                           (\A j \in Loads : j > i => Segments[i].paddr + k \notin Target(j)) =>
                             mem[Segments[i].paddr + k] =
                               IF k < Segments[i].filesz THEN <<"image", Segments[i].offset + k>> ELSE <<"zero", 0>>
                      /\ EntryIsClear =>
                           /\ \A i \in Loads : HasEntry(i) => phdr.entry = Physical(i)
                           /\ (\A i \in Loads : ~InSegment(Image.entry, Segments[i])) => phdr.entry = Image.entry
    BY Zenon DEF KernelIsLoaded
  <2>1. /\ booting = "kernel" /\ EntryIs(phdr.entry, Len(Segments) + 1)
        /\ \A i \in Loads : HoldsSegment(mem, i, Len(Segments) + 1)
    BY <1>1, <1>3 DEF LoadInv, LoadedBefore
  <2>2. ASSUME NEW i \in Loads, NEW k \in 0 .. Segments[i].memsz - 1,
               \A j \in Loads : j > i => Segments[i].paddr + k \notin Target(j)
        PROVE  mem[Segments[i].paddr + k] =
                 IF k < Segments[i].filesz THEN <<"image", Segments[i].offset + k>> ELSE <<"zero", 0>>
    BY <2>1, <2>2, Zenon DEF HoldsSegment
  <2>3. ASSUME EntryIsClear, NEW i \in Loads, HasEntry(i) PROVE phdr.entry = Physical(i)
    <3>1. InSegment(Image.entry, Segments[i])
      BY <2>3 DEF HasEntry
    <3>2. PICK j \in Loads : HasEntry(j) /\ phdr.entry = Physical(j)
      BY <1>3, <2>1, <2>3, <3>1 DEF EntryIs
    <3>3. InSegment(Image.entry, Segments[j]) /\ ~(i < j) /\ ~(j < i)
      BY <2>3, <3>1, <3>2, Zenon DEF HasEntry
    <3>4. i = j
      BY <1>3, <3>3
    <3> QED  BY <3>2, <3>4
  <2>4. ASSUME EntryIsClear, \A i \in Loads : ~InSegment(Image.entry, Segments[i]) PROVE phdr.entry = Image.entry
    BY <2>1, <2>4, Zenon DEF EntryIs, HasEntry
  <2> QED  BY <2>1, <2>2, <2>3, <2>4, Zenon
<1> QED  BY <1>1, <1>2, <1>4 DEF KernelIsStarted

\* A number with two digits to the base b.
LEMMA TwoDigits ==
  ASSUME NEW b \in Nat \ {0}, NEW d \in Nat, d < b * b
  PROVE  (d \div b) % b = d \div b
<1>1. d \div b \in Int /\ d % b \in 0 .. b - 1 /\ d = b * (d \div b) + (d % b)
  BY Division
<1>2. PICK q \in Int, r \in Int : q = d \div b /\ r = d % b
  BY <1>1
<1>3. d = b * q + r /\ r \in 0 .. b - 1
  BY <1>1, <1>2
<1>4. PICK p \in Int : p = b * q
  OBVIOUS
<1>5. p + r = d
  BY <1>3, <1>4
<1>6. q >= 0
  <2> SUFFICES ASSUME q <= -1 PROVE FALSE
    OBVIOUS
  <2>1. PICK k \in Nat : q = -k - 1
    BY -q - 1 \in Nat
  <2>2. b * q = -(b * k) - b /\ b * k \in Nat
    BY <2>1
  <2>3. p <= -b
    BY <1>4, <2>2
  <2> QED  BY <1>3, <1>5, <2>3
<1>7. q < b
  <2> SUFFICES ASSUME b <= q PROVE FALSE
    OBVIOUS
  <2>1. b * b <= q * b
    BY <1>6, ProductMonotone
  <2>2. q * b = p /\ b * b \in Nat
    BY <1>4
  <2> QED  BY <1>3, <1>5, <2>1, <2>2
<1>8. q % b = q
  BY <1>6, <1>7
<1> QED  BY <1>2, <1>8

\* Where the parameters stand, the firmware's jump leads behind them.
LEMMA JumpLeads ==
  ASSUME firmware \in FirmwareJumps, ~MagicDiffers(JumpBytes(ParamsSize))
  PROVE  /\ firmware = ParamsSize - 3
         /\ JumpBytes(ParamsSize)[1] + ByteValues * JumpBytes(ParamsSize)[2] = firmware
<1> DEFINE b == ByteValues
           d == ParamsSize - 3
           f == firmware
<1>1. b \in Nat \ {0} /\ d \in Nat /\ f \in Nat /\ d < b * b
  BY GuestBootConstants DEF GuestBootConstants
<1>2. JumpBytes(ParamsSize) = <<d % b, (d \div b) % b>> /\ JumpBytes(ParamsSize) = <<f % b, f \div b>>
  BY DEF JumpBytes, MagicDiffers
<1> HIDE DEF b, d, f
<1>3. (d \div b) % b = d \div b
  BY <1>1, TwoDigits
<1>4. d % b = f % b /\ d \div b = f \div b
  BY <1>2, <1>3
<1>5. /\ d = b * (d \div b) + (d % b) /\ f = b * (f \div b) + (f % b)
      /\ d \div b \in Int /\ d % b \in Int
  BY <1>1, Division
<1>6. f = d
  BY <1>4, <1>5
<1>7. (d % b) + b * (d \div b) = d
  BY <1>1, <1>5
<1>8. JumpBytes(ParamsSize)[1] + b * JumpBytes(ParamsSize)[2] = d
  BY <1>2, <1>3, <1>7
<1> QED  BY <1>6, <1>8 DEF b, d, f

\* What is said of the kernel's file depends on nothing else.
LEMMA SameKernel ==
  ASSUME mods' = mods
  PROVE  /\ Image' = Image /\ Segments' = Segments /\ Loads' = Loads /\ Loadable' = Loadable
         /\ \A i : Target(i)' = Target(i)
         /\ \A e, n : EntryIs(e, n)' = EntryIs(e, n)
         /\ \A m, n : /\ StillImage(m, n)' = StillImage(m, n)
                      /\ LoadedBefore(m, n)' = LoadedBefore(m, n)
         /\ \A m : ParamsStay(m)' = ParamsStay(m)
<1>1. Image' = Image
  BY DEF Image
<1>2. Segments' = Segments
  BY <1>1, Zenon DEF Segments
<1>3. Loads' = Loads
  BY <1>2, Zenon DEF Loads
<1>4. /\ \A i : Target(i)' = Target(i) /\ Source(i)' = Source(i) /\ Headers(i)' = Headers(i) /\ Physical(i)' = Physical(i)
      /\ \A i : HasEntry(i)' = HasEntry(i)
  BY <1>1, <1>2, <1>3, Zenon DEF Target, Source, Headers, Physical, HasEntry
<1>5. \A i : Spares(i)' = Spares(i)
  BY <1>1, <1>2, <1>3, <1>4, Zenon DEF Spares
<1>6. Loadable' = Loadable
  BY <1>1, <1>3, <1>5, Zenon DEF Loadable
<1>7. EntryIsClear' = EntryIsClear
  BY <1>1, <1>2, <1>3, <1>4, Zenon DEF EntryIsClear
<1>8. \A e, n : EntryIs(e, n)' = EntryIs(e, n)
  BY <1>1, <1>2, <1>3, <1>4, <1>7, Zenon DEF EntryIs
<1>9. \A m, n : StillImage(m, n)' = StillImage(m, n)
  BY <1>1, <1>3, <1>4, Zenon DEF StillImage
<1>10. \A m, i, n : HoldsSegment(m, i, n)' = HoldsSegment(m, i, n)
  BY <1>2, <1>3, <1>4, Zenon DEF HoldsSegment
<1>11. \A m, n : LoadedBefore(m, n)' = LoadedBefore(m, n)
  BY <1>3, <1>10, Zenon DEF LoadedBefore
<1>12. \A m : ParamsStay(m)' = ParamsStay(m)
  BY <1>3, <1>4, Zenon DEF ParamsStay
<1> QED  BY <1>1, <1>2, <1>3, <1>4, <1>6, <1>8, <1>9, <1>11, <1>12

\* An image as the loader left it has all that is to be read.
LEMMA ImageStill ==
  ASSUME mods \in Loaders, NEW m, HoldsImage(m, Image), NEW n \in Nat \ {0}
  PROVE  StillImage(m, n)
<1> SUFFICES ASSUME NEW x \in Memory, x \in Headers(n) \/ \E j \in Loads : j >= n /\ x \in Source(j)
             PROVE  m[x] = <<"image", x - Image.start>>
  BY DEF StillImage
<1>1. Image.start \in Nat /\ Image.len \in Nat
  BY KernelFits
<1>2. \E c \in 0 .. Image.len - 1 : x = Image.start + c
  <2>1. CASE x \in Headers(n) /\ Image.aout
    <3>1. x = Image.start + Image.header /\ Image.header \in 0 .. Image.len - 1
      BY <2>1, KernelFits DEF Headers
    <3> QED  BY <3>1
  <2>2. CASE x \in Headers(n) /\ ~Image.aout
    <3>1. PICK j \in n .. Len(Image.phdrs) : x = Image.start + Image.phoff + j - 1
      BY <2>2 DEF Headers
    <3>2. Image.phoff \in Nat /\ Len(Image.phdrs) \in Nat /\ Image.phoff + Len(Image.phdrs) <= Image.len
      BY <2>2, KernelFits
    <3>3. Image.phoff + j - 1 \in 0 .. Image.len - 1 /\ x = Image.start + (Image.phoff + j - 1)
      BY <1>1, <3>1, <3>2
    <3> QED  BY <3>3
  <2>3. CASE \E j \in Loads : j >= n /\ x \in Source(j)
    <3>1. PICK j \in Loads : x \in Source(j)
      BY <2>3
    <3>2. PICK o \in Nat, f \in Nat : o = Segments[j].offset /\ f = Segments[j].filesz /\ o + f <= Image.len
      BY KernelFits DEF Fits
    <3>3. x \in Image.start + o .. (Image.start + o) + f - 1
      BY <3>1, <3>2 DEF Source, Span
    <3>4. x - Image.start \in 0 .. Image.len - 1 /\ x = Image.start + (x - Image.start)
      BY <1>1, <3>2, <3>3
    <3> QED  BY <3>4
  <2> QED  BY <2>1, <2>2, <2>3
<1>3. PICK c \in 0 .. Image.len - 1 : x = Image.start + c
  BY <1>2
<1>4. x - Image.start = c
  BY <1>1, <1>3
<1>5. m[Image.start + c] = <<"image", c>>
  BY DEF HoldsImage
<1> QED  BY <1>3, <1>4, <1>5

\* Loading a segment, from wherever in memory, keeps the parameters that no segment lands on.
LEMMA KeepsParams ==
  ASSUME mods \in Loaders, NEW n \in Loads, NEW m, IsMemory(m), ParamsStay(m),
         NEW from \in Nat, from + Segments[n].filesz <= MemSize, NEW r,
         r = Filled(Copied(m, Segments[n].paddr, from, Segments[n].filesz),
                    Segments[n].paddr + Segments[n].filesz, Segments[n].memsz - Segments[n].filesz)
  PROVE  IsMemory(r) /\ ParamsStay(r)
<1>1. PICK to \in Nat, f \in Nat, z \in Nat :
        /\ to = Segments[n].paddr /\ f = Segments[n].filesz /\ z = Segments[n].memsz
        /\ f <= z /\ from + f <= MemSize /\ to + z <= MemSize
  BY KernelFits DEF Fits
<1>2. r = Loaded(m, to, from, f, z)
  BY <1>1 DEF Loaded
<1>3. IsMemory(r) /\ \A x \in Memory : x \notin Span(to, z) => r[x] = m[x]
  <2>1. LoadOk(m, to, from, f, z)
    BY <1>1, GuestBootConstants DEF GuestBootConstants, LoadOk, CopyOk
  <2> QED  BY <1>2, <2>1, LoadKeeps
<1>4. Target(n) = Span(to, z)
  BY <1>1 DEF Target
<1>5. ParamsStay(r)
  <2> SUFFICES ASSUME NEW c \in 0 .. ParamsSize - 1, \A i \in Loads : FIRMWARE_START + c \notin Target(i)
               PROVE  r[FIRMWARE_START + c] = <<"params", c>>
    BY DEF ParamsStay
  <2>1. FIRMWARE_START + c \in Memory
    BY GuestBootConstants DEF GuestBootConstants, Memory
  <2>2. m[FIRMWARE_START + c] = <<"params", c>>
    BY DEF ParamsStay
  <2> QED  BY <1>3, <1>4, <2>1, <2>2
<1> QED  BY <1>3, <1>5

\* Loading a segment that can be loaded: it is there, the ones before it are where it is not,
\* and what is still to be read and the firmware stay.
LEMMA SegmentLoads ==
  ASSUME mods \in Loaders, Loadable, NEW n \in Loads, NEW m, IsMemory(m),
         StillImage(m, n), LoadedBefore(m, n), NEW r,
         r = Filled(Copied(m, Segments[n].paddr, Image.start + Segments[n].offset, Segments[n].filesz),
                    Segments[n].paddr + Segments[n].filesz, Segments[n].memsz - Segments[n].filesz)
  PROVE  /\ StillImage(r, n + 1) /\ LoadedBefore(r, n + 1)
         /\ \A x \in Memory : x \in Headers(n) \/ x \in FirmwareCode => r[x] = m[x]
<1>1. PICK to \in Nat, o \in Nat, f \in Nat, z \in Nat :
        /\ to = Segments[n].paddr /\ o = Segments[n].offset /\ f = Segments[n].filesz /\ z = Segments[n].memsz
        /\ f <= z /\ o + f <= Image.len /\ to + z <= MemSize
  BY KernelFits DEF Fits
<1>2. /\ n \in Nat /\ \A i \in Loads : i \in Nat
      /\ Image.start \in Nat /\ Image.len \in Nat /\ Image.start + Image.len <= MemSize /\ MemSize \in Nat
  <2>1. /\ Image.start \in Nat /\ Image.len \in Nat /\ Image.start + Image.len <= MemSize
        /\ Len(Segments) \in Nat /\ \A i \in Loads : i \in 1 .. Len(Segments)
    BY KernelFits, Zenon
  <2>2. MemSize \in Nat
    BY GuestBootConstants DEF GuestBootConstants
  <2>3. \A i \in Loads : i \in Nat
    BY <2>1
  <2> QED  BY <2>1, <2>2, <2>3, Zenon
<1>3. PICK from \in Nat : from = Image.start + o /\ from + f <= MemSize
  BY <1>1, <1>2
<1>4. r = Loaded(m, to, from, f, z)
  BY <1>1, <1>3 DEF Loaded
<1>12. LoadOk(m, to, from, f, z)
  BY <1>1, <1>2, <1>3 DEF LoadOk, CopyOk
<1>5. \A x \in Memory : x \notin Target(n) => r[x] = m[x]
  <2>1. Target(n) = Span(to, z)
    BY <1>1 DEF Target
  <2> QED  BY <1>4, <1>12, <2>1, LoadKeeps
<1>6. Spares(n)
  BY DEF Loadable
<1>7. Source(n) = Span(from, f)
  BY <1>1, <1>3 DEF Source
<1>8. \A c \in 0 .. z - 1 : r[to + c] = IF c < f THEN m[from + c] ELSE <<"zero", 0>>
  <2>1. to \notin Span(from, f) \ {from}
    BY <1>1, <1>3, <1>6, <1>7 DEF Spares
  <2> QED  BY <1>4, <1>12, <2>1, LoadMoves
<1>9. \A x \in Memory : x \in Headers(n) \/ x \in FirmwareCode => r[x] = m[x]
  BY <1>5, <1>6 DEF Spares
<1>10. StillImage(r, n + 1)
  <2> SUFFICES ASSUME NEW x \in Memory, x \in Headers(n + 1) \/ \E j \in Loads : j >= n + 1 /\ x \in Source(j)
               PROVE  r[x] = <<"image", x - Image.start>>
    BY DEF StillImage
  <2>1. CASE x \in Headers(n + 1)
    <3>1. x \in Headers(n)
      <4>1. CASE Image.aout
        BY <2>1, <4>1 DEF Headers
      <4>2. CASE ~Image.aout
        <5>1. PICK j \in n + 1 .. Len(Image.phdrs) : x = Image.start + Image.phoff + j - 1
          BY <2>1, <4>2 DEF Headers
        <5>2. j \in n .. Len(Image.phdrs)
          BY <1>2, <4>2, KernelFits
        <5> QED  BY <4>2, <5>1, <5>2 DEF Headers
      <4> QED  BY <4>1, <4>2
    <3>2. m[x] = <<"image", x - Image.start>>
      BY <3>1 DEF StillImage
    <3> QED  BY <1>9, <3>1, <3>2
  <2>2. CASE \E j \in Loads : j >= n + 1 /\ x \in Source(j)
    <3>1. PICK j \in Loads : j >= n + 1 /\ x \in Source(j)
      BY <2>2
    <3>2. j > n /\ j >= n
      BY <1>2, <3>1
    <3>3. x \notin Target(n)
      BY <1>6, <3>1, <3>2 DEF Spares
    <3>4. m[x] = <<"image", x - Image.start>>
      BY <3>1, <3>2 DEF StillImage
    <3> QED  BY <1>5, <3>3, <3>4
  <2> QED  BY <2>1, <2>2
<1>11. LoadedBefore(r, n + 1)
  <2> SUFFICES ASSUME NEW i \in Loads, i < n + 1, NEW c \in 0 .. Segments[i].memsz - 1,
                      \A j \in Loads : j > i /\ j < n + 1 => Segments[i].paddr + c \notin Target(j)
               PROVE  r[Segments[i].paddr + c] =
                        IF c < Segments[i].filesz THEN <<"image", Segments[i].offset + c>> ELSE <<"zero", 0>>
    BY Zenon DEF LoadedBefore, HoldsSegment
  <2>1. CASE i = n
    <3>1. r[to + c] = IF c < f THEN m[from + c] ELSE <<"zero", 0>>
      BY <1>1, <1>8, <2>1
    <3>2. ASSUME c < f PROVE m[from + c] = <<"image", o + c>>
      <4>1. PICK x \in Memory : x = from + c /\ x \in Source(n) /\ x - Image.start = o + c
        <5>1. from + c \in Memory /\ from + c \in Span(from, f) /\ (from + c) - Image.start = o + c
          BY <1>1, <1>2, <1>3, <2>1, <3>2 DEF Memory, Span
        <5> QED  BY <1>7, <5>1
      <4>2. n >= n
        BY <1>2
      <4>3. m[x] = <<"image", x - Image.start>>
        BY <4>1, <4>2 DEF StillImage
      <4> QED  BY <4>1, <4>3
    <3> QED  BY <1>1, <2>1, <3>1, <3>2
  <2>2. CASE i # n
    <3>1. i < n /\ n > i /\ n < n + 1 /\ \A j \in Loads : j < n => j < n + 1
      BY <1>2, <2>2
    <3>2. Segments[i].paddr + c \notin Target(n)
      BY <3>1
    <3>3. Segments[i].paddr + c \in Memory
      <4>1. PICK t \in Nat, y \in Nat : t = Segments[i].paddr /\ y = Segments[i].memsz /\ t + y <= MemSize
        BY KernelFits DEF Fits
      <4> QED  BY <1>2, <4>1 DEF Memory
    <3>4. r[Segments[i].paddr + c] = m[Segments[i].paddr + c]
      BY <1>5, <3>2, <3>3
    <3>5. \A j \in Loads : j > i /\ j < n => Segments[i].paddr + c \notin Target(j)
      BY <3>1
    <3>6. HoldsSegment(m, i, n)
      BY <3>1 DEF LoadedBefore
    <3>7. m[Segments[i].paddr + c] =
            IF c < Segments[i].filesz THEN <<"image", Segments[i].offset + c>> ELSE <<"zero", 0>>
      BY <3>5, <3>6, Zenon DEF HoldsSegment
    <3> QED  BY <3>4, <3>7
  <2> QED  BY <2>1, <2>2
<1> QED  BY <1>9, <1>10, <1>11

\* The monitor takes the kernel, the command line and the initrd over.
LEMMA MultibootInitStep ==
  ASSUME part = "guest", GuestInv, multiboot_init
  PROVE  GuestInv'
<1>1. /\ booting = "multiboot_init" /\ UNCHANGED <<mods, firmware, mem, phdr, multiboot_info>>
      /\ booting' \in {"panic", "kvm_init"}
      /\ DOMAIN guest_params' = DOMAIN guest_params
      /\ booting' = "kvm_init" =>
           guest_params' = [guest_params EXCEPT
                  !.kernel = [start |-> mods.kernel.start, end |-> mods.kernel.start + mods.kernel.len],
                  !.cmdline = mods.cmdline,
                  !.initrd = IF mods.count > 1 THEN mods.initrd ELSE NONE]
  BY DEF multiboot_init
<1>2. mods \in Loaders /\ firmware \in FirmwareJumps /\ ToldInv /\ ImageInv /\ LoadInv
  BY DEF GuestInv
<1>3. ToldInv'
  <2>1. CASE booting' = "kvm_init"
    <3>1. DOMAIN guest_params = GuestParts
      BY <1>2 DEF ToldInv
    <3>2. /\ guest_params'.kernel.start = Image.start
          /\ guest_params'.cmdline = mods.cmdline
          /\ guest_params'.initrd = IF mods.count > 1 THEN mods.initrd ELSE NONE
      <4>1. /\ guest_params'.kernel = [start |-> Image.start, end |-> Image.start + Image.len]
            /\ guest_params'.cmdline = mods.cmdline
            /\ guest_params'.initrd = IF mods.count > 1 THEN mods.initrd ELSE NONE
        BY <1>1, <2>1, <3>1, Zenon DEF GuestParts, Image
      <4> QED  BY <4>1
    <3> QED  BY <1>1, <2>1, <3>1, <3>2, SameKernel DEF ToldInv, GuestIsToldTheTruth
  <2>2. CASE booting' = "panic"
    BY <1>1, <1>2, <2>2 DEF ToldInv, GuestIsToldTheTruth
  <2> QED  BY <1>1, <2>1, <2>2
<1>4. ImageInv'
  BY <1>1, <1>2, SameKernel DEF ImageInv
<1>5. LoadInv'
  BY <1>1, <1>2 DEF LoadInv
<1> QED  BY <1>1, <1>2, <1>3, <1>4, <1>5 DEF GuestInv

\* The firmware and its parameters are put into memory, below the image.
LEMMA KvmInitStep ==
  ASSUME part = "guest", GuestInv, kvm_init
  PROVE  GuestInv'
<1> DEFINE jump == JumpBytes(ParamsSize)
           copied == [x \in DOMAIN mem |->
                      IF x \in FIRMWARE_START .. FIRMWARE_START + FirmwareSize - 1
                      THEN <<"firmware", x - FIRMWARE_START>> ELSE mem[x]]
<1>1. /\ booting = "kvm_init" /\ UNCHANGED <<mods, firmware, phdr, multiboot_info>>
      /\ booting' \in {"panic", "jump"}
  BY DEF kvm_init
<1>2. /\ mods \in Loaders /\ firmware \in FirmwareJumps /\ ToldInv /\ ImageInv /\ LoadInv
      /\ IsMemory(mem) /\ HoldsImage(mem, Image) /\ DOMAIN guest_params = GuestParts
  BY <1>1 DEF GuestInv, ImageInv, ToldInv
<1>3. CASE booting' = "panic"
  <2>1. guest_params' = guest_params
    BY <1>3 DEF kvm_init
  <2>2. ToldInv' /\ ImageInv' /\ LoadInv'
    BY <1>1, <1>2, <1>3, <2>1 DEF ToldInv, ImageInv, LoadInv, GuestIsToldTheTruth
  <2> QED  BY <1>1, <1>2, <1>3, <2>2 DEF GuestInv
<1>4. CASE booting' = "jump"
  <2>1. /\ ~MagicDiffers(jump)
        /\ guest_params' = [guest_params EXCEPT !.e820 = mods.e820, !.jump = jump[1] + ByteValues * jump[2]]
        /\ mem' = [x \in DOMAIN mem |->
                     IF x \in FIRMWARE_START .. FIRMWARE_START + ParamsSize - 1
                     THEN <<"params", x - FIRMWARE_START>> ELSE copied[x]]
    BY <1>4, Zenon DEF kvm_init
  <2>2. firmware = ParamsSize - 3 /\ jump[1] + ByteValues * jump[2] = firmware
    BY <1>2, <2>1, JumpLeads
  <2> HIDE DEF jump
  <2>3. /\ DOMAIN guest_params' = GuestParts /\ guest_params'.e820 = mods.e820
        /\ guest_params'.jump = firmware
        /\ guest_params'.kernel = guest_params.kernel /\ guest_params'.cmdline = guest_params.cmdline
        /\ guest_params'.initrd = guest_params.initrd
    BY <1>2, <2>1, <2>2 DEF GuestParts
  <2>4. ToldInv'
    BY <1>1, <1>2, <1>4, <2>3, SameKernel DEF ToldInv, GuestIsToldTheTruth
  <2>5. DOMAIN mem = Memory
    BY <1>2 DEF IsMemory
  <2>6. mem' = [x \in Memory |->
                  IF x \in FIRMWARE_START .. FIRMWARE_START + ParamsSize - 1
                  THEN <<"params", x - FIRMWARE_START>>
                  ELSE IF x \in FIRMWARE_START .. FIRMWARE_START + FirmwareSize - 1
                  THEN <<"firmware", x - FIRMWARE_START>> ELSE mem[x]]
    BY <2>1, <2>5
  <2>7. IsMemory(mem')
    BY <2>6 DEF IsMemory
  <2>8. /\ MemSize \in Nat /\ FIRMWARE_START \in Nat /\ FirmwareSize \in Nat /\ ParamsSize \in Nat
        /\ ParamsSize < FirmwareSize /\ FIRMWARE_START + FirmwareSize <= MemSize /\ ParamsSize >= 3
    BY GuestBootConstants DEF GuestBootConstants
  <2>9. HoldsImage(mem', Image)
    <3> SUFFICES ASSUME NEW c \in 0 .. Image.len - 1 PROVE mem'[Image.start + c] = <<"image", c>>
      BY DEF HoldsImage
    <3>1. /\ Image.start + c \in Memory
          /\ Image.start + c \notin FIRMWARE_START .. FIRMWARE_START + ParamsSize - 1
          /\ Image.start + c \notin FIRMWARE_START .. FIRMWARE_START + FirmwareSize - 1
      <4>1. /\ Image.start \in Nat /\ Image.len \in Nat
            /\ Image.start >= FIRMWARE_START + FirmwareSize /\ Image.start + Image.len <= MemSize
        BY <1>2, KernelFits, Zenon
      <4>2. PICK s \in Nat, l \in Nat : /\ s = Image.start /\ l = Image.len
                                       /\ s >= FIRMWARE_START + FirmwareSize /\ s + l <= MemSize
        BY <4>1
      <4> QED  BY <2>8, <4>2 DEF Memory
    <3>2. mem[Image.start + c] = <<"image", c>>
      BY <1>2 DEF HoldsImage
    <3> QED  BY <2>6, <3>1, <3>2
  <2>10. mem'[FIRMWARE_START + 3 + firmware][1] = "firmware"
    <3>1. PICK x \in Memory : x = FIRMWARE_START + 3 + firmware /\ x = FIRMWARE_START + ParamsSize
      BY <2>2, <2>8 DEF Memory
    <3>2. /\ x \notin FIRMWARE_START .. FIRMWARE_START + ParamsSize - 1
          /\ x \in FIRMWARE_START .. FIRMWARE_START + FirmwareSize - 1
      BY <2>8, <3>1
    <3>3. mem'[x] = <<"firmware", x - FIRMWARE_START>>
      BY <2>6, <3>2
    <3> QED  BY <3>1, <3>3
  <2>13. ParamsStay(mem')
    <3> SUFFICES ASSUME NEW c \in 0 .. ParamsSize - 1 PROVE mem'[FIRMWARE_START + c] = <<"params", c>>
      BY DEF ParamsStay
    <3>1. PICK x \in Memory : /\ x = FIRMWARE_START + c /\ x - FIRMWARE_START = c
                              /\ x \in FIRMWARE_START .. FIRMWARE_START + ParamsSize - 1
      BY <2>8 DEF Memory
    <3>2. mem'[x] = <<"params", x - FIRMWARE_START>>
      BY <2>6, <3>1
    <3> QED  BY <3>1, <3>2
  <2>11. ImageInv'
    <3>1. IsMemory(mem)' /\ HoldsImage(mem, Image)' /\ ParamsStay(mem)'
      BY <1>1, <2>7, <2>9, <2>13, SameKernel
    <3> QED  BY <1>1, <2>3, <2>10, <3>1 DEF ImageInv
  <2>12. LoadInv'
    BY <1>1, <1>2, <1>4 DEF LoadInv
  <2> QED  BY <1>1, <1>2, <1>4, <2>4, <2>11, <2>12 DEF GuestInv
<1> QED  BY <1>1, <1>3, <1>4

\* The firmware jumps over its parameters, and looks at the kernel.
LEMMA FirmwareSteps ==
  ASSUME part = "guest", GuestInv, jump_start16 \/ NotMultiboot \/ load_elf
  PROVE  GuestInv'
<1>1. UNCHANGED <<mods, firmware, guest_params, mem, multiboot_info>>
      /\ booting \in {"jump", "load_multiboot"} /\ booting' \in {"load_multiboot", "lost", "die", "segment"}
  BY DEF jump_start16, NotMultiboot, load_elf
<1>2. /\ mods \in Loaders /\ firmware \in FirmwareJumps /\ ToldInv /\ ImageInv /\ LoadInv
      /\ IsMemory(mem) /\ HoldsImage(mem, Image) /\ ParamsStay(mem)
  BY <1>1 DEF GuestInv, ImageInv
<1>3. ToldInv'
  BY <1>1, <1>2, SameKernel DEF ToldInv, GuestIsToldTheTruth
<1>4. IsMemory(mem)' /\ HoldsImage(mem, Image)' /\ ParamsStay(mem)'
  BY <1>1, <1>2, SameKernel
<1>5. CASE jump_start16
  <2>1. booting = "jump" /\ booting' = "load_multiboot" /\ phdr' = phdr
    BY <1>2, <1>5 DEF jump_start16, ImageInv
  <2>2. ImageInv'
    BY <1>4, <2>1 DEF ImageInv
  <2>3. LoadInv'
    BY <1>2, <2>1 DEF LoadInv
  <2> QED  BY <1>1, <1>2, <1>3, <2>1, <2>2, <2>3 DEF GuestInv
<1>6. CASE NotMultiboot
  <2>1. booting' = "die" /\ phdr' = phdr
    BY <1>6 DEF NotMultiboot
  <2>2. ImageInv' /\ LoadInv'
    BY <1>2, <2>1 DEF ImageInv, LoadInv
  <2> QED  BY <1>1, <1>2, <1>3, <2>1, <2>2 DEF GuestInv
<1>7. CASE load_elf
  <2>1. /\ booting' = "segment" /\ ~Image.aout
        /\ phdr' = [i |-> 1, entry |-> Image.entry % EntryWrap]
    BY <1>7 DEF load_elf
  <2>2. DOMAIN phdr' = {"i", "entry"} /\ phdr'.i = 1 /\ phdr'.entry = Image.entry % EntryWrap
    BY <2>1
  <2>3. Len(Image.phdrs) \in Nat /\ Image.entry \in Nat /\ \A i \in Loads : i \in 1 .. Len(Image.phdrs)
    BY <1>2, <2>1, KernelFits
  <2>4. EntryWrap \in Nat \ {0}
    BY GuestBootConstants DEF GuestBootConstants
  <2>5. EntryIs(Image.entry % EntryWrap, 1)
    <3>1. \A i \in Loads : ~(i < 1)
      BY <2>3
    <3>2. Image.entry < EntryWrap => Image.entry % EntryWrap = Image.entry
      BY <2>3, <2>4
    <3> QED  BY <3>1, <3>2 DEF EntryIs, EntryIsClear
  <2>6. EntryIs(phdr.entry, phdr.i)'
    BY <1>1, <2>2, <2>5, SameKernel
  <2>7. \A i \in Loads : ~(i < phdr'.i)
    BY <2>2, <2>3
  <2>8. phdr'.i \in 1 .. Len(Image.phdrs) + 1
    BY <2>2, <2>3
  <2>11. StillImage(mem, phdr.i)' /\ LoadedBefore(mem, phdr.i)'
    <3>1. StillImage(mem, 1)
      BY <1>2, ImageStill
    <3>2. LoadedBefore(mem, 1)
      BY <2>2, <2>7, Zenon DEF LoadedBefore
    <3> QED  BY <1>1, <2>2, <3>1, <3>2, SameKernel
  <2>9. LoadInv'
    BY <1>1, <2>1, <2>2, <2>6, <2>8, <2>11, SameKernel DEF LoadInv
  <2>10. ImageInv'
    BY <1>4, <2>1 DEF ImageInv
  <2> QED  BY <1>1, <1>2, <1>3, <2>1, <2>9, <2>10 DEF GuestInv
<1> QED  BY <1>5, <1>6, <1>7

\* An a.out kernel is one segment.
LEMMA LoadAoutStep ==
  ASSUME part = "guest", GuestInv, LoadAout
  PROVE  GuestInv'
<1>1. /\ booting = "load_multiboot" /\ booting' \in {"info", "garbage"} /\ Image.aout
      /\ UNCHANGED <<mods, firmware, guest_params, multiboot_info>>
      /\ IF ~Survives(mem', Image.header) THEN booting' = "garbage" /\ UNCHANGED phdr
         ELSE phdr' = [phdr EXCEPT !.entry = Image.entry] /\ booting' = "info"
      /\ mem' = Filled(Copied(mem, Image.load_addr, Cell(0), Image.load_end_addr - Image.load_addr),
                   Image.load_end_addr, Image.bss_end_addr - Image.load_end_addr)
  <2>1. LoadAout
    OBVIOUS
  <2> QED  BY <2>1, Zenon DEF LoadAout
<1>2. /\ mods \in Loaders /\ firmware \in FirmwareJumps /\ ToldInv /\ LoadInv
      /\ IsMemory(mem) /\ HoldsImage(mem, Image) /\ ParamsStay(mem) /\ guest_params.kernel.start = Image.start
      /\ DOMAIN phdr = {"i", "entry"}
  BY <1>1 DEF GuestInv, ImageInv, ToldInv, LoadInv
<1>3. ToldInv'
  BY <1>1, <1>2, SameKernel DEF ToldInv, GuestIsToldTheTruth
<1> DEFINE p == Segments[1]
<1>5. /\ p.type = "PT_LOAD" /\ p.offset = FileOffset(Image) /\ p.filesz = Image.load_end_addr - Image.load_addr
      /\ p.memsz = Image.bss_end_addr - Image.load_addr /\ p.vaddr = Image.load_addr
      /\ p.paddr = Image.load_addr /\ Len(Segments) = 1 /\ DOMAIN Segments = 1 .. 1
  BY <1>1 DEF Segments
<1>6. Loads = {1}
  BY <1>5 DEF Loads
<1> HIDE DEF p
<1>7. Fits(Image, p) /\ Image.start \in Nat /\ Image.len \in Nat /\ Image.start + Image.len <= MemSize
      /\ Image.entry \in Nat /\ Image.header \in 0 .. Image.len - 1
  BY <1>1, <1>2, <1>6, KernelFits DEF p
<1>13. MemSize \in Nat
  BY GuestBootConstants DEF GuestBootConstants
<1>14. mem' = Filled(Copied(mem, p.paddr, Image.start, p.filesz), p.paddr + p.filesz, p.memsz - p.filesz)
  <2>1. PICK x \in Nat, y \in Nat, z \in Nat :
          x = Image.load_addr /\ y = Image.load_end_addr /\ z = Image.bss_end_addr
    <3>1. WellFormed(Image)
      BY <1>2, GuestBootConstants DEF GuestBootConstants, Image
    <3> QED  BY <1>1, <1>7, <1>13, <3>1 DEF WellFormed
  <2>2. /\ p.paddr + p.filesz = Image.load_end_addr
        /\ p.memsz - p.filesz = Image.bss_end_addr - Image.load_end_addr
        /\ Cell(0) = Image.start
    BY <1>2, <1>5, <1>7, <2>1 DEF Cell
  <2> QED  BY <1>1, <1>5, <2>2, Zenon
<1>15. IsMemory(mem') /\ ParamsStay(mem')
  <2>1. Image.start + p.filesz <= MemSize
    BY <1>7, <1>13 DEF Fits
  <2> QED  BY <1>2, <1>6, <1>7, <1>14, <2>1, KeepsParams DEF p
<1>16. IsMemory(mem)' /\ ParamsStay(mem)'
  BY <1>1, <1>15, SameKernel
<1>8. ASSUME Loadable
      PROVE  LoadedBefore(mem', 2) /\ Survives(mem', Image.header)
  <2>1. p.offset = 0 /\ Image.start + p.offset = Image.start
    BY <1>1, <1>5, <1>7, <1>8 DEF Loadable
  <2>2. StillImage(mem, 1) /\ LoadedBefore(mem, 1)
    <3>1. StillImage(mem, 1)
      BY <1>2, ImageStill
    <3>2. \A i \in Loads : ~(i < 1)
      BY <1>6
    <3> QED  BY <3>1, <3>2, Zenon DEF LoadedBefore
  <2>3. mem' = Filled(Copied(mem, Segments[1].paddr, Image.start + Segments[1].offset, Segments[1].filesz),
                      Segments[1].paddr + Segments[1].filesz, Segments[1].memsz - Segments[1].filesz)
    BY <1>14, <2>1 DEF p
  <2>4. /\ LoadedBefore(mem', 1 + 1)
        /\ \A x \in Memory : x \in Headers(1) \/ x \in FirmwareCode => mem'[x] = mem[x]
    BY <1>2, <1>6, <1>8, <2>2, <2>3, SegmentLoads
  <2>5. Cell(Image.header) \in Memory /\ Cell(Image.header) \in Headers(1)
    BY <1>1, <1>2, <1>7, <1>13 DEF Cell, Memory, Headers
  <2>6. \A x \in FirmwareCode : x \in Memory
    BY GuestBootConstants DEF GuestBootConstants, FirmwareCode, Memory
  <2>7. Survives(mem', Image.header)
    BY <2>4, <2>5, <2>6 DEF Survives
  <2> QED  BY <2>4, <2>7
<1>12. ImageInv'
  BY <1>1, <1>16 DEF ImageInv
<1>17. CASE ~Survives(mem', Image.header)
  <2>1. booting' = "garbage" /\ phdr' = phdr /\ ~Loadable
    BY <1>1, <1>8, <1>17
  <2>2. LoadInv'
    BY <1>1, <1>2, <2>1, SameKernel DEF LoadInv
  <2> QED  BY <1>1, <1>2, <1>3, <1>12, <2>1, <2>2 DEF GuestInv
<1>18. CASE Survives(mem', Image.header)
  <2>1. booting' = "info" /\ phdr' = [phdr EXCEPT !.entry = Image.entry]
    BY <1>1, <1>18
  <2>2. DOMAIN phdr' = {"i", "entry"} /\ phdr'.entry = Image.entry
    BY <1>2, <2>1
  <2>3. EntryIs(Image.entry, Len(Segments) + 1)
    <3>1. Len(Segments) + 1 = 2 /\ 1 < 2 /\ ~(1 < 1)
      BY <1>5
    <3>2. Image.entry = Physical(1)
      <4>1. PICK v \in Nat : v = p.vaddr /\ v = p.paddr
        BY <1>5, <1>7 DEF Fits
      <4> QED  BY <1>7, <4>1 DEF Physical, p
    <3>3. InSegment(Image.entry, Segments[1]) => HasEntry(1)
      BY <1>6, <3>1 DEF HasEntry
    <3> QED  BY <1>6, <3>1, <3>2, <3>3 DEF EntryIs
  <2>4. EntryIs(phdr.entry, Len(Segments) + 1)'
    BY <1>1, <2>2, <2>3, SameKernel
  <2>5. Loadable' => LoadedBefore(mem, Len(Segments) + 1)'
    <3>1. Len(Segments) + 1 = 2
      BY <1>5
    <3> QED  BY <1>1, <1>8, <3>1, SameKernel
  <2>6. LoadInv'
    BY <2>1, <2>2, <2>4, <2>5 DEF LoadInv
  <2> QED  BY <1>1, <1>2, <1>3, <1>12, <2>1, <2>6 DEF GuestInv
<1> QED  BY <1>17, <1>18

\* A turn of load_elf's loop.
LEMMA LoadSegmentStep ==
  ASSUME part = "guest", GuestInv, load_segment
  PROVE  GuestInv'
<1> DEFINE n == phdr.i
           k == Image.phoff + n - 1
           p == Image.phdrs[n]
<1>1. /\ booting = "segment" /\ n <= Len(Image.phdrs) /\ booting' \in {"segment", "garbage"}
      /\ UNCHANGED <<mods, firmware, guest_params, multiboot_info>>
  BY DEF load_segment
<1>2. /\ mods \in Loaders /\ firmware \in FirmwareJumps /\ ToldInv /\ LoadInv
      /\ guest_params.kernel.start = Image.start /\ DOMAIN phdr = {"i", "entry"}
      /\ ~Image.aout /\ n \in 1 .. Len(Image.phdrs) + 1 /\ EntryIs(phdr.entry, n)
      /\ IsMemory(mem) /\ ParamsStay(mem)
      /\ Loadable => StillImage(mem, n) /\ LoadedBefore(mem, n)
  BY <1>1 DEF GuestInv, ToldInv, LoadInv, ImageInv
<1>3. ToldInv'
  BY <1>1, <1>2, SameKernel DEF ToldInv, GuestIsToldTheTruth
<1>4. ASSUME IsMemory(mem'), ParamsStay(mem') PROVE ImageInv'
  <2>1. IsMemory(mem)' /\ ParamsStay(mem)'
    BY <1>1, <1>4, SameKernel
  <2> QED  BY <1>1, <2>1 DEF ImageInv
<1>5. /\ Segments = Image.phdrs /\ Len(Image.phdrs) \in Nat
      /\ Image.start \in Nat /\ Image.len \in Nat /\ Image.start + Image.len <= MemSize
      /\ Image.phoff \in Nat /\ Image.phoff + Len(Image.phdrs) <= Image.len
      /\ DOMAIN Image.phdrs = 1 .. Len(Image.phdrs)
      /\ \A i \in Loads : i \in 1 .. Len(Image.phdrs) /\ Fits(Image, Segments[i])
  BY <1>2, KernelFits
<1>6. n \in 1 .. Len(Image.phdrs) /\ k \in 0 .. Image.len - 1 /\ n \in DOMAIN Segments /\ p = Segments[n]
  <2>1. PICK q \in Nat, l \in Nat, w \in Nat :
          q = Image.phoff /\ l = Len(Image.phdrs) /\ w = Image.len /\ q + l <= w
    BY <1>5
  <2>2. n <= Len(Image.phdrs) /\ n \in 1 .. Len(Image.phdrs) + 1
    BY <1>1, <1>2, Zenon
  <2>4. n <= l /\ n \in 1 .. l + 1
    BY <2>1, <2>2, Zenon
  <2>5. ASSUME NEW x \in 1 .. l + 1, x <= l PROVE x \in 1 .. l /\ q + x - 1 \in 0 .. w - 1
    BY <2>1, <2>5
  <2>3. n \in 1 .. l /\ q + n - 1 \in 0 .. w - 1
    BY <2>4, <2>5, Zenon
  <2> QED  BY <1>5, <2>1, <2>3
<1>7. n \in Loads <=> p.type = "PT_LOAD"
  BY <1>6 DEF Loads
<1>8. MemSize \in Nat
  BY GuestBootConstants DEF GuestBootConstants
<1>9. Cell(k) = Image.start + k /\ Cell(k) \in Memory /\ Cell(k) \in Headers(n)
  <2>1. Cell(k) = Image.start + k /\ Cell(k) \in Memory
    <3>1. PICK s \in Nat, l \in Nat, x \in Nat : s = Image.start /\ l = Image.len /\ x = k /\ x < l /\ s + l <= MemSize
      BY <1>5, <1>6
    <3>2. s + x \in Memory
      BY <1>8, <3>1 DEF Memory
    <3>3. Cell(k) = Image.start + k
      BY <1>2 DEF Cell
    <3> QED  BY <3>1, <3>2, <3>3
  <2>2. n \in n .. Len(Image.phdrs) /\ Image.start + k = Image.start + Image.phoff + n - 1
    <3>1. PICK s \in Nat, q \in Nat, l \in Nat, x \in Nat :
            s = Image.start /\ q = Image.phoff /\ l = Len(Image.phdrs) /\ x = n /\ x <= l
      BY <1>5, <1>6
    <3>2. x \in x .. l /\ s + (q + x - 1) = s + q + x - 1
      BY <3>1
    <3> QED  BY <3>1, <3>2
  <2>3. Headers(n) = {Image.start + Image.phoff + j - 1 : j \in n .. Len(Image.phdrs)}
    BY <1>2 DEF Headers
  <2> QED  BY <2>1, <2>2, <2>3
<1>13. Loadable => Intact(k)
  <2> SUFFICES ASSUME Loadable PROVE Intact(k)
    OBVIOUS
  <2>1. mem[Cell(k)] = <<"image", Cell(k) - Image.start>>
    BY <1>2, <1>9 DEF StillImage
  <2>2. Cell(k) - Image.start = k
    BY <1>5, <1>6, <1>9
  <2> QED  BY <2>1, <2>2 DEF Intact
<1> HIDE DEF k, p
<1>10. CASE ~Intact(k)
  <2>1. booting' = "garbage" /\ UNCHANGED <<mem, phdr>>
    BY <1>10 DEF load_segment, k
  <2>2. LoadInv'
    BY <1>1, <1>2, <1>10, <1>13, <2>1, SameKernel DEF LoadInv
  <2> QED  BY <1>1, <1>2, <1>3, <1>4, <2>1, <2>2 DEF GuestInv
<1>11. CASE Intact(k) /\ p.type # "PT_LOAD"
  <2>1. phdr' = [phdr EXCEPT !.i = @ + 1] /\ UNCHANGED <<booting, mem>>
    BY <1>11 DEF load_segment, k, p
  <2>2. DOMAIN phdr' = {"i", "entry"} /\ phdr'.i = n + 1 /\ phdr'.entry = phdr.entry
    BY <1>2, <2>1
  <2>3. \A i \in Loads : (i < n + 1 <=> i < n) /\ (i >= n + 1 => i >= n)
    BY <1>5, <1>6, <1>7, <1>11
  <2>4. EntryIs(phdr.entry, n + 1)
    BY <1>2, <2>3, Zenon DEF EntryIs
  <2>5. EntryIs(phdr.entry, phdr.i)'
    BY <1>1, <2>2, <2>4, SameKernel
  <2>6. phdr'.i \in 1 .. Len(Image.phdrs) + 1
    BY <1>5, <1>6, <2>2
  <2>7. ASSUME Loadable PROVE StillImage(mem, n + 1) /\ LoadedBefore(mem, n + 1)
    <3>1. ASSUME NEW x \in Headers(n + 1) PROVE x \in Headers(n)
      <4>1. PICK j \in n + 1 .. Len(Image.phdrs) : x = Image.start + Image.phoff + j - 1
        BY <1>2 DEF Headers
      <4>2. j \in n .. Len(Image.phdrs)
        BY <1>5, <1>6
      <4> QED  BY <1>2, <4>1, <4>2 DEF Headers
    <3>2. StillImage(mem, n + 1)
      BY <1>2, <2>3, <2>7, <3>1, Zenon DEF StillImage
    <3>3. LoadedBefore(mem, n + 1)
      BY <1>2, <2>3, <2>7, Zenon DEF LoadedBefore, HoldsSegment
    <3> QED  BY <3>2, <3>3
  <2>9. Loadable' => StillImage(mem, phdr.i)' /\ LoadedBefore(mem, phdr.i)'
    BY <1>1, <2>1, <2>2, <2>7, SameKernel
  <2>8. LoadInv'
    BY <1>1, <1>2, <2>1, <2>2, <2>5, <2>6, <2>9, SameKernel DEF LoadInv
  <2> QED  BY <1>1, <1>2, <1>3, <1>4, <2>1, <2>8 DEF GuestInv
<1>12. CASE Intact(k) /\ p.type = "PT_LOAD"
  <2>1. /\ mem' = LoadSegment(mem, p)
        /\ IF ~Survives(mem', k) THEN booting' = "garbage" /\ UNCHANGED phdr
           ELSE phdr' = [i |-> phdr.i + 1, entry |-> Translated(phdr.entry, p)] /\ UNCHANGED booting
    BY <1>12, Zenon DEF load_segment, k, p
  <2>2. n \in Loads /\ Fits(Image, p)
    BY <1>5, <1>6, <1>7, <1>12
  <2>3. mem' = Filled(Copied(mem, Segments[n].paddr, Image.start + Segments[n].offset, Segments[n].filesz),
                      Segments[n].paddr + Segments[n].filesz, Segments[n].memsz - Segments[n].filesz)
    BY <1>2, <1>6, <2>1 DEF LoadSegment, Cell
  <2>7. IsMemory(mem') /\ ParamsStay(mem')
    <3>1. /\ Image.start + Segments[n].offset \in Nat
          /\ (Image.start + Segments[n].offset) + Segments[n].filesz <= MemSize
      <4>1. PICK o \in Nat, f \in Nat : o = Segments[n].offset /\ f = Segments[n].filesz /\ o + f <= Image.len
        BY <1>5, <2>2 DEF Fits
      <4>2. PICK x \in Nat, y \in Nat : x = Image.start /\ y = Image.len /\ x + y <= MemSize
        BY <1>5
      <4>3. x + o \in Nat /\ (x + o) + f <= MemSize
        BY <1>8, <4>1, <4>2
      <4> QED  BY <4>1, <4>2, <4>3
    <3> QED  BY <1>2, <2>2, <2>3, <3>1, KeepsParams
  <2>4. ASSUME Loadable
        PROVE  StillImage(mem', n + 1) /\ LoadedBefore(mem', n + 1) /\ Survives(mem', k)
    <3>1. /\ StillImage(mem', n + 1) /\ LoadedBefore(mem', n + 1)
          /\ \A x \in Memory : x \in Headers(n) \/ x \in FirmwareCode => mem'[x] = mem[x]
      BY <1>2, <2>2, <2>3, <2>4, SegmentLoads
    <3>2. \A x \in FirmwareCode : x \in Memory
      BY GuestBootConstants DEF GuestBootConstants, FirmwareCode, Memory
    <3>3. Survives(mem', k)
      BY <1>9, <3>1, <3>2 DEF Survives
    <3> QED  BY <3>1, <3>3
  <2>5. CASE ~Survives(mem', k)
    <3>1. booting' = "garbage" /\ phdr' = phdr /\ ~Loadable
      BY <2>1, <2>4, <2>5
    <3>3. LoadInv'
      BY <1>1, <1>2, <3>1, SameKernel DEF LoadInv
    <3> QED  BY <1>1, <1>2, <1>3, <1>4, <2>7, <3>1, <3>3 DEF GuestInv
  <2>6. CASE Survives(mem', k)
    <3>1. booting' = "segment" /\ phdr' = [i |-> n + 1, entry |-> Translated(phdr.entry, p)]
      BY <1>1, <2>1, <2>6
    <3>2. DOMAIN phdr' = {"i", "entry"} /\ phdr'.i = n + 1 /\ phdr'.entry = Translated(phdr.entry, p)
      BY <3>1
    <3>3. EntryIs(Translated(phdr.entry, p), n + 1)
      BY <1>2, <1>6, <2>2, EntryTranslates
    <3>4. EntryIs(phdr.entry, phdr.i)'
      BY <1>1, <3>2, <3>3, SameKernel
    <3>5. phdr'.i \in 1 .. Len(Image.phdrs) + 1
      BY <1>5, <1>6, <3>2
    <3>6. Loadable' => StillImage(mem, phdr.i)' /\ LoadedBefore(mem, phdr.i)'
      BY <1>1, <2>4, <3>2, SameKernel
    <3>7. LoadInv'
      BY <1>1, <1>2, <3>1, <3>2, <3>4, <3>5, <3>6, SameKernel DEF LoadInv
    <3> QED  BY <1>1, <1>2, <1>3, <1>4, <2>7, <3>1, <3>7 DEF GuestInv
  <2> QED  BY <2>5, <2>6
<1> QED  BY <1>10, <1>11, <1>12

\* The segments are loaded, and the kernel is told what the monitor was told.
LEMMA StartSteps ==
  ASSUME part = "guest", GuestInv, segments_done \/ StartKernel
  PROVE  GuestInv'
<1>1. UNCHANGED <<mods, firmware, guest_params, mem, phdr>>
      /\ booting \in {"segment", "info"} /\ booting' \in {"info", "kernel"}
  BY DEF segments_done, StartKernel
<1>2. /\ mods \in Loaders /\ firmware \in FirmwareJumps /\ ToldInv /\ LoadInv
      /\ IsMemory(mem) /\ ParamsStay(mem)
  BY <1>1 DEF GuestInv, ImageInv
<1>3. ImageInv'
  <2>1. IsMemory(mem)' /\ ParamsStay(mem)'
    BY <1>1, <1>2, SameKernel
  <2> QED  BY <1>1, <2>1 DEF ImageInv
<1>4. CASE segments_done
  <2>1. booting = "segment" /\ booting' = "info" /\ phdr.i > Len(Image.phdrs) /\ UNCHANGED multiboot_info
    BY <1>4 DEF segments_done
  <2>2. ToldInv'
    BY <1>1, <1>2, <2>1, SameKernel DEF ToldInv, GuestIsToldTheTruth
  <2>3. ~Image.aout /\ phdr.i \in 1 .. Len(Image.phdrs) + 1
    BY <1>2, <2>1 DEF LoadInv
  <2>4. Segments = Image.phdrs /\ Len(Image.phdrs) \in Nat /\ \A i \in Loads : i \in 1 .. Len(Image.phdrs)
    BY <1>2, <2>3, KernelFits
  <2>5. phdr.i = Len(Segments) + 1 /\ \A i \in Loads : i < phdr.i
    BY <2>1, <2>3, <2>4
  <2>6. LoadInv'
    BY <1>1, <1>2, <2>1, <2>5, SameKernel DEF LoadInv
  <2> QED  BY <1>1, <1>2, <1>3, <2>1, <2>2, <2>6 DEF GuestInv
<1>5. CASE StartKernel
  <2> DEFINE spared(f) == \A i \in Loads, c \in ParamsLayout[f] : FIRMWARE_START + c \notin Target(i)
             told == IF mods.count > 1 /\ mods.initrd.start < mods.initrd.end THEN <<mods.initrd>> ELSE <<>>
  <2>1. /\ booting = "info" /\ booting' = "kernel"
        /\ ParamHolds("cmdline") => multiboot_info'.cmdline = guest_params.cmdline
        /\ ParamHolds("initrd") => multiboot_info'.mods = InfoMods(guest_params.initrd)
        /\ ParamHolds("e820") => multiboot_info'.mmap = guest_params.e820
    BY <1>5 DEF StartKernel
  <2>2. /\ guest_params.cmdline = mods.cmdline /\ guest_params.e820 = mods.e820
        /\ guest_params.initrd = IF mods.count > 1 THEN mods.initrd ELSE NONE
    BY <1>2, <2>1 DEF ToldInv
  <2>3. InfoMods(guest_params.initrd) = told
    <3>1. ~(NONE.start < NONE.end)
      BY DEF NONE
    <3> QED  BY <2>2, <3>1 DEF InfoMods
  <2>7. ASSUME NEW f \in ParamFields, spared(f) PROVE ParamHolds(f)
    <3>1. \A c \in ParamsLayout[f] : c \in 0 .. ParamsSize - 1
      BY GuestBootConstants DEF GuestBootConstants
    <3> QED  BY <1>2, <2>7, <3>1, Zenon DEF ParamHolds, ParamsStay
  <2> HIDE DEF told
  <2>8. /\ spared("cmdline") => multiboot_info'.cmdline = mods.cmdline
        /\ spared("e820") => multiboot_info'.mmap = mods.e820
        /\ spared("initrd") => multiboot_info'.mods = told
    <3>1. "cmdline" \in ParamFields /\ "e820" \in ParamFields /\ "initrd" \in ParamFields
      BY DEF ParamFields
    <3> HIDE DEF spared
    <3> QED  BY <2>1, <2>2, <2>3, <2>7, <3>1
  <2>4. GuestIsToldTheTruth'
    <3>1. mods' = mods /\ Loads' = Loads /\ \A i : Target(i)' = Target(i)
      BY <1>1, SameKernel
    <3> QED  BY <2>8, <3>1, Zenon DEF GuestIsToldTheTruth, told
  <2>5. ToldInv'
    BY <1>1, <1>2, <2>1, <2>4, SameKernel DEF ToldInv
  <2>6. LoadInv'
    BY <1>1, <1>2, <2>1, SameKernel DEF LoadInv
  <2> QED  BY <1>1, <1>2, <1>3, <2>1, <2>5, <2>6 DEF GuestInv
<1> QED  BY <1>4, <1>5

\* GuestInv holds at every moment.
THEOREM GuestInvariant == Spec => []GuestInv
<1>1. Init => GuestInv
  <2> SUFFICES ASSUME GuestBootInit, part = "guest" PROVE GuestInv
    BY DEF Init, GuestInv
  <2>1. /\ mods \in Loaders /\ firmware \in FirmwareJumps /\ booting = "multiboot_init"
        /\ DOMAIN guest_params = GuestParts /\ DOMAIN phdr = {"i", "entry"}
        /\ mem = [x \in Memory |->
              IF x \in Image.start .. Image.start + Image.len - 1
              THEN <<"image", x - Image.start>> ELSE <<"free", 0>>]
    BY DEF GuestBootInit, GuestParts, Memory, Image
  <2>2. IsMemory(mem)
    BY <2>1 DEF IsMemory
  <2>3. HoldsImage(mem, Image)
    <3> SUFFICES ASSUME NEW c \in 0 .. Image.len - 1 PROVE mem[Image.start + c] = <<"image", c>>
      BY DEF HoldsImage
    <3>1. MemSize \in Nat
      BY GuestBootConstants DEF GuestBootConstants
    <3>2. /\ Image.start + c \in Memory /\ Image.start + c \in Image.start .. Image.start + Image.len - 1
          /\ (Image.start + c) - Image.start = c
      BY <2>1, <3>1, KernelFits DEF Memory
    <3> QED  BY <2>1, <3>2
  <2> QED  BY <2>1, <2>2, <2>3 DEF GuestInv, ToldInv, ImageInv, LoadInv, GuestIsToldTheTruth
<1>2. GuestInv /\ [Next]_vars => GuestInv'
  <2> SUFFICES ASSUME GuestInv, [Next]_vars, part' = "guest" PROVE GuestInv'
    BY DEF GuestInv
  <2>1. CASE Guest
    <3>1. part = "guest" /\ GuestBootNext
      BY <2>1 DEF Guest
    <3> QED
      BY <3>1, MultibootInitStep, KvmInitStep, FirmwareSteps, LoadAoutStep, LoadSegmentStep, StartSteps
         DEF GuestBootNext
  <2>2. CASE ~Guest
    <3>1. UNCHANGED <<part, bootVars>>
      BY <2>2 DEF Next, Mode, Cpu, Clock, Pic, Vmx, vars
    <3>2. part = "guest" /\ UNCHANGED <<mods, firmware, guest_params, mem, booting, phdr, multiboot_info>>
      BY <3>1 DEF bootVars
    <3>3. ToldInv /\ ImageInv /\ LoadInv /\ mods \in Loaders /\ firmware \in FirmwareJumps /\ booting # "lost"
      BY <3>2 DEF GuestInv
    <3>4. ToldInv'
      BY <3>2, <3>3, SameKernel DEF ToldInv, GuestIsToldTheTruth
    <3>5. ImageInv'
      BY <3>2, <3>3, SameKernel DEF ImageInv
    <3>6. LoadInv'
      BY <3>2, <3>3, SameKernel DEF LoadInv
    <3> QED  BY <3>2, <3>3, <3>4, <3>5, <3>6 DEF GuestInv
  <2> QED  BY <2>1, <2>2
<1> QED  BY <1>1, <1>2, PTL DEF Spec

GuestOff == part # "guest" => booting = ""

\* Every kernel that can be loaded from where it lies (Loadable) is started
\* as promised: its segments in place, the later one where two overlap, zeros
\* behind what the file has, at its translated entry point (EntryIsClear), by
\* the firmware that belongs to the monitor; and every kernel is told those
\* of the loader's command line, initrd and memory map that its segments
\* were not loaded over.
THEOREM KernelsAreAlwaysStarted == Spec => []KernelIsStarted
<1>1. GuestInv /\ GuestOff => KernelIsStarted
  <2>1. ASSUME GuestInv, part = "guest" PROVE KernelIsStarted
    BY <2>1, GuestInvSuffices
  <2>2. ASSUME GuestOff, part # "guest" PROVE KernelIsStarted
    BY <2>2 DEF GuestOff, KernelIsStarted, FirmwareFindsItsCode, KernelIsLoaded, GuestIsToldTheTruth
  <2> QED  BY <2>1, <2>2
<1>2. Init => GuestOff
  BY DEF Init, GuestIdle, GuestOff
<1>3. GuestOff /\ [Next]_vars => GuestOff'
  BY DEF GuestOff, Next, Mode, Cpu, Clock, Pic, Vmx, Guest, vars, bootVars
<1> QED  BY <1>1, <1>2, <1>3, GuestInvariant, PTL DEF Spec

-----------------------------------------------------------------------------
(***************************************************************************)
(* CPUID.                                                                  *)
(***************************************************************************)
\* A set of natural numbers below a bound that is not empty has a largest one.
LEMMA GreatestNatural ==
  ASSUME NEW b \in Nat, NEW T \in SUBSET (0 .. b), T # {}
  PROVE  \E x \in T : \A y \in T : x >= y
<1> DEFINE R == {b - x : x \in T}
<1>1. R \in SUBSET Nat /\ R # {}
  <2>1. ASSUME NEW r \in R PROVE r \in Nat
    <3>1. PICK x \in T : r = b - x
      OBVIOUS
    <3> QED  BY <3>1
  <2>2. PICK x : x \in T
    OBVIOUS
  <2>3. b - x \in R
    BY <2>2
  <2> QED  BY <2>1, <2>3
<1>2. PICK r \in R : \A y \in R : r <= y
  BY <1>1, LeastNatural
<1>3. PICK x \in T : r = b - x
  OBVIOUS
<1>4. \A y \in T : b - y \in R
  OBVIOUS
<1>5. \A y \in T : b - x <= b - y
  BY <1>2, <1>3, <1>4
<1> QED  BY <1>5

\* The least element is the minimum.
LEMMA MinIs ==
  ASSUME NEW T \in SUBSET Nat, NEW x \in T, \A y \in T : x <= y
  PROVE  Min(T) = x
<1>1. Min(T) \in T /\ \A y \in T : Min(T) <= y
  BY Zenon DEF Min
<1>2. PICK m \in T : m = Min(T)
  BY <1>1
<1>3. m <= x /\ x <= m
  BY <1>1, <1>2
<1>4. m = x
  BY <1>3
<1> QED  BY <1>2, <1>4

\* The greatest element is the maximum.
LEMMA MaxIs ==
  ASSUME NEW T \in SUBSET Nat, NEW x \in T, \A y \in T : x >= y
  PROVE  Max(T) = x
<1>1. Max(T) \in T /\ \A y \in T : Max(T) >= y
  BY Zenon DEF Max
<1>2. PICK m \in T : m = Max(T)
  BY <1>1
<1>3. m >= x /\ x >= m
  BY <1>1, <1>2
<1>4. m = x
  BY <1>3
<1> QED  BY <1>2, <1>4

\* Characters of a name from lo to hi.
LEMMA NamePart ==
  ASSUME NEW str \in Seq(STRING), NEW lo \in Nat, NEW hi \in Nat, 1 <= lo, hi <= Len(str)
  PROVE  /\ SubSeq(str, lo, hi) \in Seq(STRING)
         /\ Len(SubSeq(str, lo, hi)) = IF lo <= hi THEN hi - lo + 1 ELSE 0
         /\ \A i \in 1 .. hi - lo + 1 : SubSeq(str, lo, hi)[i] = str[lo + i - 1]
<1>1. \A i \in lo .. hi : str[i] \in STRING
  OBVIOUS
<1> QED  BY <1>1

\* Names with the same characters are equal.
LEMMA SameName ==
  ASSUME NEW s \in Seq(STRING), NEW t \in Seq(STRING), Len(s) = Len(t), \A i \in 1 .. Len(s) : s[i] = t[i]
  PROVE  s = t
OBVIOUS

\* Trim cuts the spaces off both ends of a name that has anything else.
LEMMA TrimFacts ==
  ASSUME NEW str \in Seq(STRING), NEW lo \in 1 .. Len(str), NEW hi \in 1 .. Len(str),
         str[lo] # Blank, str[hi] # Blank,
         \A i \in 1 .. Len(str) : str[i] # Blank => lo <= i /\ i <= hi
  PROVE  Trim(str) = SubSeq(str, lo, hi)
<1> DEFINE n == Len(str)
           firsts == {i \in 1 .. n + 1 : i = n + 1 \/ str[i] # Blank}
           copied == SubSeq(str, Leading(str) + 1, n)
           after == copied \o SubSeq(str, Len(copied) + 1, n)
           kept == {1} \cup {i \in DOMAIN copied : copied[i] # Blank}
           s == Max(kept)
<1>1. n \in Nat
  OBVIOUS
<1>2. Leading(str) = lo - 1
  <2>1. firsts \in SUBSET Nat /\ lo \in firsts /\ \A i \in firsts : lo <= i
    BY <1>1
  <2> HIDE DEF firsts
  <2>2. Min(firsts) = lo
    BY <2>1, MinIs
  <2> QED  BY <2>2 DEF firsts, Leading
<1>3. /\ copied \in Seq(STRING) /\ Len(copied) = n - lo + 1
      /\ \A i \in 1 .. n - lo + 1 : copied[i] = str[lo + i - 1]
  <2>1. Leading(str) + 1 = lo
    BY <1>2
  <2>2. copied = SubSeq(str, lo, n)
    BY <2>1, Zenon
  <2> HIDE DEF copied
  <2>3. lo \in Nat /\ 1 <= lo /\ lo <= n /\ n <= Len(str)
    BY <1>1
  <2> QED  BY <1>1, <2>2, <2>3, NamePart
<1> HIDE DEF copied
<1>4. /\ after \in Seq(STRING) /\ Len(after) = n
      /\ \A i \in 1 .. n - lo + 1 : after[i] = copied[i]
  <2> DEFINE rest == SubSeq(str, Len(copied) + 1, n)
  <2>1. Len(copied) + 1 \in Nat /\ 1 <= Len(copied) + 1
    BY <1>1, <1>3
  <2>2. rest \in Seq(STRING) /\ Len(rest) = lo - 1
    <3>1. rest \in Seq(STRING) /\ Len(rest) = IF Len(copied) + 1 <= n THEN n - (Len(copied) + 1) + 1 ELSE 0
      BY <1>1, <2>1, NamePart
    <3> HIDE DEF rest
    <3> QED  BY <1>1, <1>3, <3>1
  <2> HIDE DEF rest
  <2>3. /\ copied \o rest \in Seq(STRING) /\ Len(copied \o rest) = Len(copied) + Len(rest)
        /\ \A i \in 1 .. Len(copied) + Len(rest) : (copied \o rest)[i] =
             IF i <= Len(copied) THEN copied[i] ELSE rest[i - Len(copied)]
    BY <1>3, <2>2
  <2>4. after = copied \o rest
    BY DEF rest
  <2> HIDE DEF after
  <2>5. Len(after) = n
    BY <1>1, <1>3, <2>2, <2>3, <2>4
  <2>6. ASSUME NEW i \in 1 .. n - lo + 1 PROVE after[i] = copied[i]
    <3>1. i \in 1 .. Len(copied) + Len(rest) /\ i <= Len(copied)
      BY <1>1, <1>3, <2>2
    <3> QED  BY <2>3, <2>4, <3>1
  <2> QED  BY <2>3, <2>4, <2>5, <2>6
<1> HIDE DEF after
<1>5. s = hi - lo + 1
  <2>1. lo <= hi
    OBVIOUS
  <2>2. PICK k \in 1 .. n - lo + 1 : k = hi - lo + 1
    BY <1>1, <2>1
  <2>3. copied[k] = str[hi]
    <3>1. lo + k - 1 = hi
      BY <1>1, <2>2
    <3> QED  BY <1>3, <3>1
  <2>4. DOMAIN copied = 1 .. n - lo + 1
    BY <1>3
  <2>5. kept \in SUBSET Nat /\ k \in kept
    BY <2>3, <2>4
  <2>6. ASSUME NEW j \in kept PROVE k >= j
    <3>1. CASE j = 1
      BY <3>1
    <3>2. CASE j # 1
      <4>1. j \in 1 .. n - lo + 1 /\ copied[j] # Blank
        BY <2>4, <3>2
      <4>2. lo + j - 1 \in 1 .. n /\ str[lo + j - 1] # Blank
        BY <1>1, <1>3, <4>1
      <4>3. lo + j - 1 <= hi
        BY <4>2
      <4> QED  BY <1>1, <2>2, <4>1, <4>3
    <3> QED  BY <3>1, <3>2
  <2> HIDE DEF kept
  <2>7. Max(kept) = k
    BY <2>5, <2>6, MaxIs
  <2> QED  BY <2>2, <2>7
<1> HIDE DEF s, kept
<1>6. Trim(str) = SubSeq(after, 1, IF Len(after) < s THEN Len(after) ELSE s)
  BY Zenon DEF Trim, s, kept, after, copied
<1>7. Trim(str) = SubSeq(after, 1, s) /\ s \in Nat /\ s <= n /\ s >= 1
  <2>1. ~(Len(after) < s) /\ s \in Nat /\ s <= n /\ s >= 1
    BY <1>1, <1>4, <1>5
  <2> QED  BY <1>6, <2>1
<1>8. /\ Trim(str) \in Seq(STRING) /\ Len(Trim(str)) = s
      /\ \A i \in 1 .. s : Trim(str)[i] = after[i]
  <2>1. 1 \in Nat /\ 1 <= 1 /\ s <= Len(after)
    BY <1>1, <1>4, <1>7
  <2>2. /\ SubSeq(after, 1, s) \in Seq(STRING) /\ Len(SubSeq(after, 1, s)) = IF 1 <= s THEN s - 1 + 1 ELSE 0
        /\ \A i \in 1 .. s - 1 + 1 : SubSeq(after, 1, s)[i] = after[1 + i - 1]
    BY <1>4, <1>7, <2>1, NamePart
  <2> QED  BY <1>7, <2>2
<1>9. /\ SubSeq(str, lo, hi) \in Seq(STRING) /\ Len(SubSeq(str, lo, hi)) = s
      /\ \A i \in 1 .. s : SubSeq(str, lo, hi)[i] = str[lo + i - 1]
  <2>1. lo \in Nat /\ hi \in Nat /\ 1 <= lo /\ hi <= Len(str) /\ lo <= hi
    BY <1>1
  <2>2. /\ SubSeq(str, lo, hi) \in Seq(STRING)
        /\ Len(SubSeq(str, lo, hi)) = IF lo <= hi THEN hi - lo + 1 ELSE 0
        /\ \A i \in 1 .. hi - lo + 1 : SubSeq(str, lo, hi)[i] = str[lo + i - 1]
    BY <2>1, NamePart
  <2> QED  BY <1>5, <2>1, <2>2
<1>10. ASSUME NEW i \in 1 .. s PROVE Trim(str)[i] = SubSeq(str, lo, hi)[i]
  <2>1. i \in 1 .. n - lo + 1
    BY <1>1, <1>5, <1>7
  <2> QED  BY <1>3, <1>4, <1>8, <1>9, <2>1
<1>11. Len(Trim(str)) = Len(SubSeq(str, lo, hi))
  BY <1>8, <1>9
<1>12. \A i \in 1 .. Len(Trim(str)) : Trim(str)[i] = SubSeq(str, lo, hi)[i]
  BY <1>8, <1>10, Zenon
<1> QED  BY <1>8, <1>9, <1>11, <1>12, SameName

\* The fields of struct cpuinfo_x86.
CpuFields == {"x86", "x86_vendor", "x86_model", "x86_mask", "extended_cpuid_level", "cpuid_level",
              "x86_capability", "x86_model_id"}

\* What cpu_init has recorded so far is what its calls have read.
CpuOk ==
  /\ cpuid.name \in Seq(STRING) /\ cpuid.sig \in [1 .. 8 -> 0 .. 15]
  /\ cpuid.ext \in Nat /\ cpuid.level \in Nat
  /\ DOMAIN cpu_info = CpuFields
  /\ cpu_info.extended_cpuid_level \in Nat
  /\ detecting \in {"cpu_detect", "get_cpu_vendor", "get_cpu_cap", "get_model_name", "done"}
  /\ (detecting # "cpu_detect" /\ cpuid.level >= 1) =>
       /\ cpu_info.x86 = x86_family(cpuid.sig) % 256
       /\ cpu_info.x86_model = x86_model(cpuid.sig) % 256
  /\ (detecting = "done" /\ cpu_info.extended_cpuid_level >= 4) =>
       cpu_info.x86_model_id = Trim(cpuid.name)

CpuInv == part = "cpu" => CpuOk

CpuOff == part # "cpu" => detecting = ""

\* cpu_init starts so.
LEMMA CpuStarts ==
  ASSUME CpuDetectInit
  PROVE  CpuOk
<1>1. PICK level \in CpuLevels, vendor \in {"GenuineIntel", "AuthenticAMD", "other"}, ext \in ExtLevels,
           sig \in Signatures, name \in ModelNames, cqm \in BOOLEAN :
        cpuid = [level |-> level, vendor |-> vendor, ext |-> ext, sig |-> sig, name |-> name, cqm |-> cqm]
  BY DEF CpuDetectInit
<1>2. cpuid.level = level /\ cpuid.ext = ext /\ cpuid.sig = sig /\ cpuid.name = name
  BY <1>1
<1>3. level \in Nat /\ ext \in Nat /\ sig \in [1 .. 8 -> 0 .. 15] /\ name \in Seq(STRING)
  BY CpuConstants
<1>4. detecting = "cpu_detect" /\ DOMAIN cpu_info = CpuFields /\ cpu_info.extended_cpuid_level = 0
  BY DEF CpuDetectInit, CpuFields
<1> QED  BY <1>2, <1>3, <1>4 DEF CpuOk

\* Every call of it keeps it so.
LEMMA CpuDetects ==
  ASSUME CpuOk, cpu_init
  PROVE  CpuOk'
<1> USE DEF CpuOk
<1>1. CASE cpu_detect
  <2>1. /\ DOMAIN cpu_info' = DOMAIN cpu_info
        /\ cpu_info'.extended_cpuid_level = cpu_info.extended_cpuid_level
    BY <1>1 DEF cpu_detect, CpuFields
  <2>2. ASSUME cpuid.level >= 1
        PROVE  /\ cpu_info'.x86 = x86_family(cpuid.sig) % 256
               /\ cpu_info'.x86_model = x86_model(cpuid.sig) % 256
    BY <1>1, <2>2 DEF cpu_detect, CpuFields
  <2>3. cpuid' = cpuid /\ detecting' = "get_cpu_vendor"
    BY <1>1 DEF cpu_detect
  <2> QED  BY <2>1, <2>2, <2>3
<1>2. CASE get_cpu_vendor
  <2>1. /\ DOMAIN cpu_info' = DOMAIN cpu_info /\ cpu_info'.x86 = cpu_info.x86
        /\ cpu_info'.x86_model = cpu_info.x86_model
        /\ cpu_info'.extended_cpuid_level = cpu_info.extended_cpuid_level
    BY <1>2 DEF get_cpu_vendor, CpuFields
  <2>2. cpuid' = cpuid /\ detecting' = "get_cpu_cap" /\ detecting # "cpu_detect"
    BY <1>2 DEF get_cpu_vendor
  <2> QED  BY <2>1, <2>2
<1>3. CASE get_cpu_cap
  <2>1. /\ DOMAIN cpu_info' = DOMAIN cpu_info /\ cpu_info'.x86 = cpu_info.x86
        /\ cpu_info'.x86_model = cpu_info.x86_model
        /\ cpu_info'.extended_cpuid_level = cpuid.ext
    BY <1>3 DEF get_cpu_cap, CpuFields
  <2>2. cpuid' = cpuid /\ detecting' = "get_model_name" /\ detecting # "cpu_detect"
    BY <1>3 DEF get_cpu_cap
  <2> QED  BY <2>1, <2>2
<1>4. CASE get_model_name
  <2>1. /\ DOMAIN cpu_info' = DOMAIN cpu_info /\ cpu_info'.x86 = cpu_info.x86
        /\ cpu_info'.x86_model = cpu_info.x86_model
        /\ cpu_info'.extended_cpuid_level = cpu_info.extended_cpuid_level
    BY <1>4 DEF get_model_name, CpuFields
  <2>2. cpuid' = cpuid /\ detecting' = "done" /\ detecting # "cpu_detect"
    BY <1>4 DEF get_model_name
  <2>3. ASSUME cpu_info.extended_cpuid_level >= 4 PROVE cpu_info'.x86_model_id = Trim(cpuid.name)
    <3>1. ~(cpu_info.extended_cpuid_level < 4)
      BY <2>3
    <3> QED  BY <1>4, <3>1 DEF get_model_name, CpuFields
  <2> QED  BY <2>1, <2>2, <2>3
<1> QED  BY <1>1, <1>2, <1>3, <1>4 DEF cpu_init

\* The family and the model that were read are the documented ones.
LEMMA SignatureIsRead ==
  ASSUME NEW sig \in [1 .. 8 -> 0 .. 15]
  PROVE  /\ Family(sig) <= 255 => x86_family(sig) % 256 = Family(sig)
         /\ Family(sig) \in {6} \cup 15 .. 270 => x86_model(sig) % 256 = 16 * sig[5] + sig[2]
         /\ Family(sig) < 6 => x86_model(sig) % 256 = sig[2]
<1>1. /\ sig[2] \in 0 .. 15 /\ sig[3] \in 0 .. 15 /\ sig[5] \in 0 .. 15
      /\ sig[6] \in 0 .. 15 /\ sig[7] \in 0 .. 15
  OBVIOUS
<1>2. PICK d2 \in 0 .. 15, d3 \in 0 .. 15, d5 \in 0 .. 15, d6 \in 0 .. 15, d7 \in 0 .. 15 :
        d2 = sig[2] /\ d3 = sig[3] /\ d5 = sig[5] /\ d6 = sig[6] /\ d7 = sig[7]
  BY <1>1, Zenon
<1>3. x86_family(sig) = d3 + IF d3 = 15 THEN d6 + 16 * d7 ELSE 0
  BY <1>2, Zenon DEF x86_family
<1>4. Family(sig) = IF d3 # 15 THEN d3 ELSE 15 + d6 + 16 * d7
  BY <1>2, Zenon DEF Family
<1>5. PICK f \in Nat : f = x86_family(sig) /\ f = Family(sig)
  BY <1>3, <1>4
<1>6. x86_model(sig) = d2 + IF f >= 6 THEN 16 * d5 ELSE 0
  BY <1>2, <1>5, Zenon DEF x86_model
<1>7. f <= 255 => f % 256 = f
  OBVIOUS
<1>8. f >= 6 => (d2 + 16 * d5) % 256 = 16 * d5 + d2
  OBVIOUS
<1>9. f < 6 => x86_model(sig) = d2 /\ d2 % 256 = d2
  BY <1>6
<1> QED  BY <1>2, <1>5, <1>6, <1>7, <1>8, <1>9

\* A processor cpu_init is done with is identified.
LEMMA CpuIsKnown ==
  ASSUME CpuOk
  PROVE  CpuIsIdentified
<1>1. ModelIsDocumented
  <2> SUFFICES ASSUME detecting = "done", cpuid.level >= 1
               PROVE  /\ Family(cpuid.sig) <= 255 => cpu_info.x86 = Family(cpuid.sig)
                      /\ Family(cpuid.sig) \in {6} \cup 15 .. 270 =>
                           cpu_info.x86_model = 16 * cpuid.sig[5] + cpuid.sig[2]
                      /\ Family(cpuid.sig) < 6 => cpu_info.x86_model = cpuid.sig[2]
    BY Zenon DEF ModelIsDocumented
  <2>1. cpuid.sig \in [1 .. 8 -> 0 .. 15]
    BY DEF CpuOk
  <2>2. cpu_info.x86 = x86_family(cpuid.sig) % 256 /\ cpu_info.x86_model = x86_model(cpuid.sig) % 256
    BY DEF CpuOk
  <2> QED  BY <2>1, <2>2, SignatureIsRead, Zenon
<1>2. NameIsTrimmed
  <2> DEFINE name == cpuid.name
             kept == {i \in DOMAIN name : name[i] # Blank}
             lo == CHOOSE i \in kept : \A j \in kept : i <= j
             hi == CHOOSE i \in kept : \A j \in kept : i >= j
  <2> SUFFICES ASSUME detecting = "done", cpu_info.extended_cpuid_level >= 4,
                      \E c \in ToSet(name) : c # Blank
               PROVE  cpu_info.x86_model_id = SubSeq(name, lo, hi)
    BY Zenon DEF NameIsTrimmed
  <2>1. name \in Seq(STRING) /\ cpu_info.x86_model_id = Trim(name)
    BY DEF CpuOk
  <2>2. PICK n \in Nat : n = Len(name) /\ DOMAIN name = 1 .. n
    BY <2>1
  <2>3. kept # {}
    <3>1. PICK c \in ToSet(name) : c # Blank
      OBVIOUS
    <3>2. PICK i \in DOMAIN name : name[i] = c
      BY <3>1, Zenon DEF ToSet
    <3> QED  BY <3>1, <3>2
  <2>4. kept \in SUBSET (0 .. n) /\ kept \in SUBSET Nat
    BY <2>2
  <2> HIDE DEF name
  <2>5. kept \in SUBSET (1 .. n) /\ \A i \in 1 .. n : name[i] # Blank => i \in kept
    BY <2>2
  <2>6. \A i \in kept : name[i] # Blank
    OBVIOUS
  <2> HIDE DEF kept
  <2>7. lo \in kept /\ \A j \in kept : lo <= j
    <3>1. \E x \in kept : \A y \in kept : x <= y
      BY <2>3, <2>4, LeastNatural
    <3> QED  BY <3>1, Zenon
  <2>8. hi \in kept /\ \A j \in kept : hi >= j
    <3>1. \E x \in kept : \A y \in kept : x >= y
      BY <2>2, <2>3, <2>4, GreatestNatural
    <3> QED  BY <3>1, Zenon
  <2> HIDE DEF lo, hi
  <2>9. PICK first \in 1 .. Len(name) : first = lo
    BY <2>2, <2>5, <2>7
  <2>10. PICK last \in 1 .. Len(name) : last = hi
    BY <2>2, <2>5, <2>8
  <2>11. /\ name[first] # Blank /\ name[last] # Blank
         /\ \A i \in 1 .. Len(name) : name[i] # Blank => first <= i /\ i <= last
    BY <2>2, <2>5, <2>6, <2>7, <2>8, <2>9, <2>10
  <2>12. Trim(name) = SubSeq(name, first, last)
    BY <2>1, <2>11, TrimFacts
  <2> QED  BY <2>1, <2>9, <2>10, <2>12
<1> QED  BY <1>1, <1>2 DEF CpuIsIdentified

\* The invariant of cpu_init.
THEOREM CpuInvariant == Spec => []CpuInv
<1>1. Init => CpuInv
  BY CpuStarts, Zenon DEF Init, CpuInv
<1>2. CpuInv /\ [Next]_vars => CpuInv'
  <2> SUFFICES ASSUME CpuInv, [Next]_vars, part' = "cpu" PROVE CpuOk'
    BY Zenon DEF CpuInv
  <2>1. part = "cpu"
    BY DEF Next, Mode, Cpu, Clock, Pic, Vmx, Guest, vars
  <2>2. CpuOk
    BY <2>1 DEF CpuInv
  <2>3. CASE Cpu
    BY <2>2, <2>3, CpuDetects DEF Cpu
  <2>4. CASE ~Cpu
    <3>1. UNCHANGED cpuVars
      BY <2>4, Zenon DEF Next, Mode, Clock, Pic, Vmx, Guest, vars
    <3> QED  BY <2>2, <3>1 DEF CpuOk, cpuVars
  <2> QED  BY <2>3, <2>4
<1> QED  BY <1>1, <1>2, PTL DEF Spec

\* cpu_init identifies every processor: whatever signature and whatever brand string CPUID
\* returns, the record holds the documented family and model and the name without its outer
\* spaces (cpu.c:43-207).
THEOREM CpusAreAlwaysIdentified == Spec => []CpuIsIdentified
<1>1. CpuInv /\ CpuOff => CpuIsIdentified
  <2>1. ASSUME CpuInv, part = "cpu" PROVE CpuIsIdentified
    BY <2>1, CpuIsKnown DEF CpuInv
  <2>2. ASSUME CpuOff, part # "cpu" PROVE CpuIsIdentified
    BY <2>2, Zenon DEF CpuOff, CpuIsIdentified, ModelIsDocumented, NameIsTrimmed
  <2> QED  BY <2>1, <2>2
<1>2. Init => CpuOff
  BY DEF Init, CpuIdle, CpuOff
<1>3. CpuOff /\ [Next]_vars => CpuOff'
  BY DEF CpuOff, Next, Mode, Cpu, Clock, Pic, Vmx, Guest, vars, cpuVars
<1> QED  BY <1>1, <1>2, <1>3, CpuInvariant, PTL DEF Spec

-----------------------------------------------------------------------------
(***************************************************************************)
(* The mode switches.                                                      *)
(***************************************************************************)

\* What a concatenation holds.
LEMMA Concatenated ==
  ASSUME NEW S, NEW s \in Seq(S), NEW t \in Seq(S)
  PROVE  /\ s \o t \in Seq(S) /\ Len(s \o t) = Len(s) + Len(t)
         /\ \A i \in 1 .. Len(s) + Len(t) : (s \o t)[i] = IF i <= Len(s) THEN s[i] ELSE t[i - Len(s)]
OBVIOUS

\* An entry that is not present is not a table.
LEMMA NotPresentIsNone == NotPresent # "pdpt0"
BY Zenon DEF NotPresent

\* The entries of the firmware's first table: the first one only.
LEMMA FirmwareTop ==
  ASSUME NEW a \in 0 .. PTRS - 1
  PROVE  Entry(pml4, a + 1) = IF a = 0 THEN "pdpt0" ELSE NotPresent
<1>1. PTRS \in Nat /\ PTRS >= 1
  BY BootModeConstants
<1> DEFINE zs == Zeros(PTRS - 1)
<1>2. zs \in Seq({"pdpt0", NotPresent}) /\ Len(zs) = PTRS - 1 /\ \A i \in 1 .. PTRS - 1 : zs[i] = NotPresent
  BY <1>1 DEF Zeros
<1>3. pml4 = <<"pdpt0">> \o zs
  BY DEF pml4
<1> HIDE DEF zs
<1>4. Len(pml4) = PTRS /\ pml4[1] = "pdpt0" /\ \A i \in 2 .. PTRS : pml4[i] = NotPresent
  BY <1>1, <1>2, <1>3
<1>5. a + 1 \in 1 .. PTRS /\ (a = 0 \/ a + 1 \in 2 .. PTRS)
  BY <1>1
<1> QED  BY <1>4, <1>5 DEF Entry

\* The entries of the monitor's: the first one, and the alias.
LEMMA MonitorTop ==
  ASSUME NEW a \in 0 .. PTRS - 1
  PROVE  Entry(kpml4, a + 1) = IF a \in {0, EntryIndex} THEN "pdpt0" ELSE NotPresent
<1>1. PTRS \in Nat /\ EntryIndex \in Nat /\ EntryIndex >= 1 /\ EntryIndex <= PTRS - 1
  BY BootModeConstants
<1> DEFINE S == {"pdpt0", NotPresent}
           low == Zeros(EntryIndex - 1)
           high == Zeros(PTRS - EntryIndex - 1)
           one == <<"pdpt0">>
           t1 == one \o low
           t2 == t1 \o one
           t3 == t2 \o high
<1>2. low \in Seq(S) /\ Len(low) = EntryIndex - 1 /\ \A i \in 1 .. EntryIndex - 1 : low[i] = NotPresent
  BY <1>1 DEF Zeros
<1>3. high \in Seq(S) /\ Len(high) = PTRS - EntryIndex - 1 /\ \A i \in 1 .. PTRS - EntryIndex - 1 : high[i] = NotPresent
  BY <1>1 DEF Zeros
<1>4. one \in Seq(S) /\ Len(one) = 1 /\ one[1] = "pdpt0"
  OBVIOUS
<1> HIDE DEF S, low, high, one
<1>5. /\ t1 \in Seq(S) /\ Len(t1) = EntryIndex /\ t1[1] = "pdpt0"
      /\ \A i \in 2 .. EntryIndex : t1[i] = NotPresent
  <2>1. /\ t1 \in Seq(S) /\ Len(t1) = Len(one) + Len(low)
        /\ \A i \in 1 .. Len(one) + Len(low) : t1[i] = IF i <= Len(one) THEN one[i] ELSE low[i - Len(one)]
    BY <1>2, <1>4, Concatenated
  <2> HIDE DEF t1
  <2>2. Len(t1) = EntryIndex /\ t1[1] = one[1]
    BY <1>1, <1>2, <1>4, <2>1
  <2>3. ASSUME NEW i \in 2 .. EntryIndex PROVE t1[i] = NotPresent
    <3>1. i \in 1 .. Len(one) + Len(low) /\ ~(i <= Len(one)) /\ i - Len(one) \in 1 .. EntryIndex - 1
      BY <1>1, <1>2, <1>4
    <3> QED  BY <1>2, <2>1, <3>1
  <2> QED  BY <1>4, <2>1, <2>2, <2>3
<1> HIDE DEF t1
<1>6. /\ t2 \in Seq(S) /\ Len(t2) = EntryIndex + 1 /\ t2[1] = "pdpt0" /\ t2[EntryIndex + 1] = "pdpt0"
      /\ \A i \in 2 .. EntryIndex : t2[i] = NotPresent
  <2>1. /\ t2 \in Seq(S) /\ Len(t2) = Len(t1) + Len(one)
        /\ \A i \in 1 .. Len(t1) + Len(one) : t2[i] = IF i <= Len(t1) THEN t1[i] ELSE one[i - Len(t1)]
    BY <1>4, <1>5, Concatenated
  <2> HIDE DEF t2
  <2> QED  BY <1>1, <1>4, <1>5, <2>1
<1> HIDE DEF t2
<1>7. /\ Len(t3) = PTRS /\ t3[1] = "pdpt0" /\ t3[EntryIndex + 1] = "pdpt0"
      /\ \A i \in 2 .. PTRS : i # EntryIndex + 1 => t3[i] = NotPresent
  BY <1>1, <1>3, <1>6
<1>8. kpml4 = t3
  BY Zenon DEF kpml4, low, high, one, t1, t2, t3
<1> HIDE DEF t3
<1>9. a + 1 \in 1 .. PTRS /\ (a # 0 => a + 1 \in 2 .. PTRS) /\ (a # EntryIndex => a + 1 # EntryIndex + 1)
  BY <1>1
<1> QED  BY <1>7, <1>8, <1>9 DEF Entry

\* The directories behind the entries of pdpt0.
LEMMA Directories ==
  ASSUME NEW b \in 0 .. PTRS - 1
  PROVE  pdpt0[b + 1] = IF b < LowTables THEN b ELSE -1
<1>1. PTRS \in Nat /\ LowTables \in Nat /\ LowTables <= PTRS
  BY BootModeConstants
<1> DEFINE low == [i \in 1 .. LowTables |-> i - 1]
           high == [i \in 1 .. PTRS - LowTables |-> -1]
<1>2. low \in Seq(Int) /\ Len(low) = LowTables /\ \A i \in 1 .. LowTables : low[i] = i - 1
  BY <1>1
<1>3. high \in Seq(Int) /\ Len(high) = PTRS - LowTables /\ \A i \in 1 .. PTRS - LowTables : high[i] = -1
  BY <1>1
<1>4. pdpt0 = low \o high
  BY DEF pdpt0
<1> HIDE DEF low, high
<1>5. b + 1 \in 1 .. PTRS
  BY <1>1
<1> QED  BY <1>1, <1>2, <1>3, <1>4, <1>5

\* The large page behind directory b and entry c.
LEMMA LargePages ==
  ASSUME NEW b \in 0 .. LowTables - 1, NEW c \in 0 .. PTRS - 1
  PROVE  pd[PTRS * b + c + 1] = b * PTRS + c
<1>1. PTRS \in Nat /\ LowTables \in Nat /\ b \in Nat /\ b + 1 <= LowTables
  BY BootModeConstants
<1>2. (b + 1) * PTRS <= LowTables * PTRS
  BY <1>1, ProductMonotone
<1>3. PICK k \in Nat, top \in Nat : k = b * PTRS /\ k = PTRS * b /\ top = PTRS * LowTables
                                    /\ (b + 1) * PTRS = k + PTRS /\ LowTables * PTRS = top
  BY <1>1
<1>4. k + c + 1 \in 1 .. top
  BY <1>1, <1>2, <1>3
<1>5. pd = [i \in 1 .. top |-> i - 1]
  BY <1>3, Zenon DEF pd
<1>6. pd[k + c + 1] = k + c
  BY <1>4, <1>5
<1> QED  BY <1>3, <1>6, Zenon

\* The firmware's tables map its code.
LEMMA FirmwareMaps == Walk("pml4", 0, 0, 0) = 0
<1>1. /\ PTRS \in Nat /\ PTRS >= 1 /\ LowTables >= 1 /\ LowTables \in Nat
      /\ 0 \in 0 .. PTRS - 1 /\ 0 \in 0 .. LowTables - 1
  BY BootModeConstants
<1>2. Entry(pml4, 0 + 1) = "pdpt0"
  BY <1>1, FirmwareTop
<1>3. pdpt0[0 + 1] = 0
  BY <1>1, Directories
<1>4. pd[PTRS * 0 + 0 + 1] = 0 * PTRS + 0
  BY <1>1, LargePages
<1>5. 0 * PTRS + 0 = 0 /\ 0 # -1
  BY <1>1
<1> QED  BY <1>2, <1>3, <1>4, <1>5 DEF Walk

\* The monitor's tables map the low memory twice, and nothing else.
LEMMA MonitorMaps ==
  ASSUME NEW a \in 0 .. PTRS - 1, NEW b \in 0 .. PTRS - 1, NEW c \in 0 .. PTRS - 1
  PROVE  Walk("kpml4", a, b, c) = IF a \in {0, EntryIndex} /\ b < LowTables THEN b * PTRS + c ELSE -1
<1>1. PTRS \in Nat /\ LowTables \in Nat
  BY BootModeConstants
<1>2. Entry(kpml4, a + 1) = IF a \in {0, EntryIndex} THEN "pdpt0" ELSE NotPresent
  BY MonitorTop
<1>3. pdpt0[b + 1] = IF b < LowTables THEN b ELSE -1
  BY Directories
<1>4. Walk("kpml4", a, b, c) = IF Entry(kpml4, a + 1) # "pdpt0" \/ pdpt0[b + 1] = -1 THEN -1
                               ELSE pd[PTRS * pdpt0[b + 1] + c + 1]
  BY "kpml4" # "pml4" DEF Walk
<1>5. CASE b < LowTables
  <2>1. b \in 0 .. LowTables - 1 /\ b # -1 /\ pdpt0[b + 1] = b
    BY <1>1, <1>3, <1>5
  <2>2. pd[PTRS * b + c + 1] = b * PTRS + c
    BY <2>1, LargePages
  <2> QED  BY <1>2, <1>4, <1>5, <2>1, <2>2, NotPresentIsNone, Zenon
<1>6. CASE ~(b < LowTables)
  BY <1>3, <1>4, <1>6
<1> QED  BY <1>5, <1>6

\* The registers that count.
CoreFields == {"cr0", "cr3", "cr4", "efer", "gdt", "cs", "csSel", "data", "dataSel", "tr", "bsp"}

\* The core before instruction k of start16, and when the firmware's main runs.
FirmwareAt(k, c) ==
  /\ DOMAIN c = CoreFields
  /\ (k > 3 => "PE" \in c.cr0)
  /\ IF k > 10 THEN "PG" \in c.cr0 ELSE "PG" \notin c.cr0
  /\ (k > 6 => "PAE" \in c.cr4)
  /\ (k > 7 => c.cr3 = "pml4")
  /\ c.efer = IF k > 8 THEN {"LME"} ELSE {}
  /\ (k > 2 => c.gdt = "gdt")
  /\ c.cs = IF k > 11 THEN "code64" ELSE IF k > 5 THEN "code32" ELSE "real"
  /\ (k > 4 => c.data = "data")

\* The core before instruction k of start_multiboot of the firmware, and in the kernel.
KernelAt(k, c) ==
  /\ DOMAIN c = CoreFields /\ "PE" \in c.cr0 /\ c.cr3 = "pml4"
  /\ IF k > 5 THEN "PG" \notin c.cr0 ELSE "PG" \in c.cr0
  /\ IF k > 7 THEN "PAE" \notin c.cr4 ELSE "PAE" \in c.cr4
  /\ c.efer = IF k > 6 THEN {} ELSE {"LME"}
  /\ c.gdt = IF k > 2 THEN "gdt32" ELSE "gdt"
  /\ c.cs = IF k > 1 THEN "code32" ELSE "code64"
  /\ (k > 1 => c.csSel = 8)
  /\ (k > 4 => c.data = "data" /\ c.dataSel = 16)

\* The core before instruction k of start_multiboot of the monitor, and in its main.
MonitorAt(k, c) ==
  /\ DOMAIN c = CoreFields /\ "PE" \in c.cr0
  /\ IF k > 5 THEN "PG" \in c.cr0 ELSE "PG" \notin c.cr0
  /\ (k > 1 => "PAE" \in c.cr4)
  /\ (k > 2 => c.cr3 = "kpml4")
  /\ c.efer = IF k > 4 THEN {"LME"} ELSE {}
  /\ (k > 3 => c.gdt = "vgdt")
  /\ c.cs = IF k > 7 THEN "code64" ELSE "code32"

\* An instruction assembled for this mode that the processor takes.
Runs(c, bits, op, reg, val) == Bits(c) = bits /\ Takes(c, op, reg, val)

\* The monitor's tables map its code.
LEMMA MonitorMapsItself == Walk("kpml4", 0, 0, 0) = 0
<1>1. PTRS \in Nat /\ LowTables \in Nat /\ 0 \in 0 .. PTRS - 1 /\ 0 < LowTables /\ 0 * PTRS + 0 = 0
  BY BootModeConstants
<1> QED  BY <1>1, MonitorMaps

\* Every instruction of start16 runs in the mode it was assembled for, is taken, and leaves
\* the core the next one needs.
LEMMA FirmwareRuns ==
  ASSUME NEW c
  PROVE  /\ FirmwareAt(1, c) => Runs(c, 16, "bsp", "bsp", 0) /\ FirmwareAt(2, After(c, "bsp", "bsp", 0))
         /\ FirmwareAt(2, c) => Runs(c, 16, "lgdt", "gdtr", "gdt") /\ FirmwareAt(3, After(c, "lgdt", "gdtr", "gdt"))
         /\ FirmwareAt(3, c) => Runs(c, 16, "set", "cr0", {"PE"}) /\ FirmwareAt(4, After(c, "set", "cr0", {"PE"}))
         /\ FirmwareAt(4, c) => Runs(c, 16, "mov", "data", 24) /\ FirmwareAt(5, After(c, "mov", "data", 24))
         /\ FirmwareAt(5, c) => Runs(c, 16, "ljmp", "cs", 8) /\ FirmwareAt(6, After(c, "ljmp", "cs", 8))
         /\ FirmwareAt(6, c) => Runs(c, 32, "set", "cr4", {"PAE", "PSE"}) /\ FirmwareAt(7, After(c, "set", "cr4", {"PAE", "PSE"}))
         /\ FirmwareAt(7, c) => Runs(c, 32, "mov", "cr3", "pml4") /\ FirmwareAt(8, After(c, "mov", "cr3", "pml4"))
         /\ FirmwareAt(8, c) => Runs(c, 32, "set", "efer", {"LME"}) /\ FirmwareAt(9, After(c, "set", "efer", {"LME"}))
         /\ FirmwareAt(9, c) => Runs(c, 32, "ltr", "tr", 32) /\ FirmwareAt(10, After(c, "ltr", "tr", 32))
         /\ FirmwareAt(10, c) => Runs(c, 32, "set", "cr0", {"PG"}) /\ FirmwareAt(11, After(c, "set", "cr0", {"PG"}))
         /\ FirmwareAt(11, c) => Runs(c, 32, "ljmp", "cs", 16) /\ FirmwareAt(12, After(c, "ljmp", "cs", 16))
         /\ FirmwareAt(12, c) => Runs(c, 64, "call", "ip", "main") /\ FirmwareAt(13, After(c, "call", "ip", "main"))
<1>1. ASSUME FirmwareAt(1, c)
      PROVE  Runs(c, 16, "bsp", "bsp", 0) /\ FirmwareAt(2, After(c, "bsp", "bsp", 0))
  <2>1. After(c, "bsp", "bsp", 0) = c
    BY DEF After
  <2>2. FirmwareAt(2, c)
    BY <1>1 DEF FirmwareAt
  <2>3. Legal(c, c)
    BY <1>1 DEF FirmwareAt, Legal, LMA, Bits
  <2> QED  BY <1>1, <2>1, <2>2, <2>3 DEF Runs, Takes, FirmwareAt, Bits, LMA
<1>2. ASSUME FirmwareAt(2, c)
      PROVE  Runs(c, 16, "lgdt", "gdtr", "gdt") /\ FirmwareAt(3, After(c, "lgdt", "gdtr", "gdt"))
  <2> DEFINE d == After(c, "lgdt", "gdtr", "gdt")
  <2>2. d = [c EXCEPT !.gdt = "gdt"]
    BY DEF After
  <2>3. DOMAIN c = CoreFields
    BY <1>2 DEF FirmwareAt
  <2> HIDE DEF d
  <2>4. /\ DOMAIN d = CoreFields
        /\ d.cr0 = c.cr0 /\ d.cr3 = c.cr3 /\ d.cr4 = c.cr4 /\ d.efer = c.efer /\ d.gdt = "gdt"
        /\ d.cs = c.cs /\ d.csSel = c.csSel /\ d.data = c.data /\ d.dataSel = c.dataSel /\ d.tr = c.tr
    BY <2>2, <2>3 DEF CoreFields
  <2>6. FirmwareAt(3, d)
    BY <1>2, <2>4 DEF FirmwareAt
  <2>7. Legal(c, d)
    BY <1>2, <2>6, <2>4 DEF FirmwareAt, Legal, LMA, Bits
  <2>8. Bits(c) = 16
    BY <1>2 DEF FirmwareAt, Bits, LMA
  <2>10. Takes(c, "lgdt", "gdtr", "gdt")
    BY <2>7 DEF Takes, d
  <2> QED  BY <2>6, <2>8, <2>10 DEF Runs, d
<1>3. ASSUME FirmwareAt(3, c)
      PROVE  Runs(c, 16, "set", "cr0", {"PE"}) /\ FirmwareAt(4, After(c, "set", "cr0", {"PE"}))
  <2> DEFINE d == After(c, "set", "cr0", {"PE"})
  <2>2. d = [c EXCEPT !.cr0 = c.cr0 \cup {"PE"}]
    BY DEF After
  <2>3. DOMAIN c = CoreFields
    BY <1>3 DEF FirmwareAt
  <2> HIDE DEF d
  <2>4. /\ DOMAIN d = CoreFields
        /\ d.cr0 = c.cr0 \cup {"PE"} /\ d.cr3 = c.cr3 /\ d.cr4 = c.cr4 /\ d.efer = c.efer /\ d.gdt = c.gdt
        /\ d.cs = c.cs /\ d.csSel = c.csSel /\ d.data = c.data /\ d.dataSel = c.dataSel /\ d.tr = c.tr
    BY <2>2, <2>3 DEF CoreFields
  <2>6. FirmwareAt(4, d)
    BY <1>3, <2>4 DEF FirmwareAt
  <2>7. Legal(c, d)
    BY <1>3, <2>6, <2>4 DEF FirmwareAt, Legal, LMA, Bits
  <2>8. Bits(c) = 16
    BY <1>3 DEF FirmwareAt, Bits, LMA
  <2>10. Takes(c, "set", "cr0", {"PE"})
    BY <2>7 DEF Takes, d
  <2> QED  BY <2>6, <2>8, <2>10 DEF Runs, d
<1>4. ASSUME FirmwareAt(4, c)
      PROVE  Runs(c, 16, "mov", "data", 24) /\ FirmwareAt(5, After(c, "mov", "data", 24))
  <2> DEFINE d == After(c, "mov", "data", 24)
  <2>1. Selected(c, 24) = "data"
    BY <1>4 DEF FirmwareAt, Selected, Gdts
  <2>2. d = [c EXCEPT !.data = "data", !.dataSel = 24]
    BY <2>1 DEF After
  <2>3. DOMAIN c = CoreFields
    BY <1>4 DEF FirmwareAt
  <2> HIDE DEF d
  <2>4. /\ DOMAIN d = CoreFields
        /\ d.cr0 = c.cr0 /\ d.cr3 = c.cr3 /\ d.cr4 = c.cr4 /\ d.efer = c.efer /\ d.gdt = c.gdt
        /\ d.cs = c.cs /\ d.csSel = c.csSel /\ d.data = "data" /\ d.dataSel = 24 /\ d.tr = c.tr
    BY <2>2, <2>3 DEF CoreFields
  <2>6. FirmwareAt(5, d)
    BY <1>4, <2>4 DEF FirmwareAt
  <2>7. Legal(c, d)
    BY <1>4, <2>6, <2>4 DEF FirmwareAt, Legal, LMA, Bits
  <2>8. Bits(c) = 16
    BY <1>4 DEF FirmwareAt, Bits, LMA
  <2>9. "PE" \in c.cr0
    BY <1>4 DEF FirmwareAt
  <2>10. Takes(c, "mov", "data", 24)
    BY <2>1, <2>9, <2>7 DEF Takes, d
  <2> QED  BY <2>6, <2>8, <2>10 DEF Runs, d
<1>5. ASSUME FirmwareAt(5, c)
      PROVE  Runs(c, 16, "ljmp", "cs", 8) /\ FirmwareAt(6, After(c, "ljmp", "cs", 8))
  <2> DEFINE d == After(c, "ljmp", "cs", 8)
  <2>1. Selected(c, 8) = "code32"
    BY <1>5 DEF FirmwareAt, Selected, Gdts
  <2>2. d = [c EXCEPT !.cs = "code32", !.csSel = 8]
    BY <2>1 DEF After
  <2>3. DOMAIN c = CoreFields
    BY <1>5 DEF FirmwareAt
  <2> HIDE DEF d
  <2>4. /\ DOMAIN d = CoreFields
        /\ d.cr0 = c.cr0 /\ d.cr3 = c.cr3 /\ d.cr4 = c.cr4 /\ d.efer = c.efer /\ d.gdt = c.gdt
        /\ d.cs = "code32" /\ d.csSel = 8 /\ d.data = c.data /\ d.dataSel = c.dataSel /\ d.tr = c.tr
    BY <2>2, <2>3 DEF CoreFields
  <2>6. FirmwareAt(6, d)
    BY <1>5, <2>4 DEF FirmwareAt
  <2>7. Legal(c, d)
    BY <1>5, <2>6, <2>4 DEF FirmwareAt, Legal, LMA, Bits
  <2>8. Bits(c) = 16
    BY <1>5 DEF FirmwareAt, Bits, LMA
  <2>10. Takes(c, "ljmp", "cs", 8)
    BY <2>1, <2>7 DEF Takes, d
  <2> QED  BY <2>6, <2>8, <2>10 DEF Runs, d
<1>6. ASSUME FirmwareAt(6, c)
      PROVE  Runs(c, 32, "set", "cr4", {"PAE", "PSE"}) /\ FirmwareAt(7, After(c, "set", "cr4", {"PAE", "PSE"}))
  <2> DEFINE d == After(c, "set", "cr4", {"PAE", "PSE"})
  <2>2. d = [c EXCEPT !.cr4 = c.cr4 \cup {"PAE", "PSE"}]
    BY DEF After
  <2>3. DOMAIN c = CoreFields
    BY <1>6 DEF FirmwareAt
  <2> HIDE DEF d
  <2>4. /\ DOMAIN d = CoreFields
        /\ d.cr0 = c.cr0 /\ d.cr3 = c.cr3 /\ d.cr4 = c.cr4 \cup {"PAE", "PSE"} /\ d.efer = c.efer /\ d.gdt = c.gdt
        /\ d.cs = c.cs /\ d.csSel = c.csSel /\ d.data = c.data /\ d.dataSel = c.dataSel /\ d.tr = c.tr
    BY <2>2, <2>3 DEF CoreFields
  <2>6. FirmwareAt(7, d)
    BY <1>6, <2>4 DEF FirmwareAt
  <2>7. Legal(c, d)
    BY <1>6, <2>6, <2>4 DEF FirmwareAt, Legal, LMA, Bits
  <2>8. Bits(c) = 32
    BY <1>6 DEF FirmwareAt, Bits, LMA
  <2>10. Takes(c, "set", "cr4", {"PAE", "PSE"})
    BY <2>7 DEF Takes, d
  <2> QED  BY <2>6, <2>8, <2>10 DEF Runs, d
<1>7. ASSUME FirmwareAt(7, c)
      PROVE  Runs(c, 32, "mov", "cr3", "pml4") /\ FirmwareAt(8, After(c, "mov", "cr3", "pml4"))
  <2> DEFINE d == After(c, "mov", "cr3", "pml4")
  <2>2. d = [c EXCEPT !.cr3 = "pml4"]
    BY DEF After
  <2>3. DOMAIN c = CoreFields
    BY <1>7 DEF FirmwareAt
  <2> HIDE DEF d
  <2>4. /\ DOMAIN d = CoreFields
        /\ d.cr0 = c.cr0 /\ d.cr3 = "pml4" /\ d.cr4 = c.cr4 /\ d.efer = c.efer /\ d.gdt = c.gdt
        /\ d.cs = c.cs /\ d.csSel = c.csSel /\ d.data = c.data /\ d.dataSel = c.dataSel /\ d.tr = c.tr
    BY <2>2, <2>3 DEF CoreFields
  <2>6. FirmwareAt(8, d)
    BY <1>7, <2>4 DEF FirmwareAt
  <2>7. Legal(c, d)
    BY <1>7, <2>6, <2>4 DEF FirmwareAt, Legal, LMA, Bits
  <2>8. Bits(c) = 32
    BY <1>7 DEF FirmwareAt, Bits, LMA
  <2>10. Takes(c, "mov", "cr3", "pml4")
    BY <2>7 DEF Takes, d
  <2> QED  BY <2>6, <2>8, <2>10 DEF Runs, d
<1>8. ASSUME FirmwareAt(8, c)
      PROVE  Runs(c, 32, "set", "efer", {"LME"}) /\ FirmwareAt(9, After(c, "set", "efer", {"LME"}))
  <2> DEFINE d == After(c, "set", "efer", {"LME"})
  <2>2. d = [c EXCEPT !.efer = c.efer \cup {"LME"}]
    BY DEF After
  <2>3. DOMAIN c = CoreFields
    BY <1>8 DEF FirmwareAt
  <2> HIDE DEF d
  <2>4. /\ DOMAIN d = CoreFields
        /\ d.cr0 = c.cr0 /\ d.cr3 = c.cr3 /\ d.cr4 = c.cr4 /\ d.efer = c.efer \cup {"LME"} /\ d.gdt = c.gdt
        /\ d.cs = c.cs /\ d.csSel = c.csSel /\ d.data = c.data /\ d.dataSel = c.dataSel /\ d.tr = c.tr
    BY <2>2, <2>3 DEF CoreFields
  <2>5. d.efer = {"LME"}
    <3>1. c.efer = {}
      BY <1>8 DEF FirmwareAt
    <3> QED  BY <2>4, <3>1
  <2>6. FirmwareAt(9, d)
    BY <1>8, <2>4, <2>5 DEF FirmwareAt
  <2>7. Legal(c, d)
    BY <1>8, <2>6, <2>4 DEF FirmwareAt, Legal, LMA, Bits
  <2>8. Bits(c) = 32
    BY <1>8 DEF FirmwareAt, Bits, LMA
  <2>10. Takes(c, "set", "efer", {"LME"})
    BY <2>7 DEF Takes, d
  <2> QED  BY <2>6, <2>8, <2>10 DEF Runs, d
<1>9. ASSUME FirmwareAt(9, c)
      PROVE  Runs(c, 32, "ltr", "tr", 32) /\ FirmwareAt(10, After(c, "ltr", "tr", 32))
  <2> DEFINE d == After(c, "ltr", "tr", 32)
  <2>1. Selected(c, 32) = "tss"
    BY <1>9 DEF FirmwareAt, Selected, Gdts
  <2>2. d = [c EXCEPT !.tr = "tss"]
    BY <2>1 DEF After
  <2>3. DOMAIN c = CoreFields
    BY <1>9 DEF FirmwareAt
  <2> HIDE DEF d
  <2>4. /\ DOMAIN d = CoreFields
        /\ d.cr0 = c.cr0 /\ d.cr3 = c.cr3 /\ d.cr4 = c.cr4 /\ d.efer = c.efer /\ d.gdt = c.gdt
        /\ d.cs = c.cs /\ d.csSel = c.csSel /\ d.data = c.data /\ d.dataSel = c.dataSel /\ d.tr = "tss"
    BY <2>2, <2>3 DEF CoreFields
  <2>6. FirmwareAt(10, d)
    BY <1>9, <2>4 DEF FirmwareAt
  <2>7. Legal(c, d)
    BY <1>9, <2>6, <2>4 DEF FirmwareAt, Legal, LMA, Bits
  <2>8. Bits(c) = 32
    BY <1>9 DEF FirmwareAt, Bits, LMA
  <2>9. ~LMA(c)
    BY <1>9 DEF FirmwareAt, LMA
  <2>10. Takes(c, "ltr", "tr", 32)
    BY <2>1, <2>9, <2>7 DEF Takes, d
  <2> QED  BY <2>6, <2>8, <2>10 DEF Runs, d
<1>10. ASSUME FirmwareAt(10, c)
      PROVE  Runs(c, 32, "set", "cr0", {"PG"}) /\ FirmwareAt(11, After(c, "set", "cr0", {"PG"}))
  <2> DEFINE d == After(c, "set", "cr0", {"PG"})
  <2>2. d = [c EXCEPT !.cr0 = c.cr0 \cup {"PG"}]
    BY DEF After
  <2>3. DOMAIN c = CoreFields
    BY <1>10 DEF FirmwareAt
  <2> HIDE DEF d
  <2>4. /\ DOMAIN d = CoreFields
        /\ d.cr0 = c.cr0 \cup {"PG"} /\ d.cr3 = c.cr3 /\ d.cr4 = c.cr4 /\ d.efer = c.efer /\ d.gdt = c.gdt
        /\ d.cs = c.cs /\ d.csSel = c.csSel /\ d.data = c.data /\ d.dataSel = c.dataSel /\ d.tr = c.tr
    BY <2>2, <2>3 DEF CoreFields
  <2>6. FirmwareAt(11, d)
    BY <1>10, <2>4 DEF FirmwareAt
  <2>7. Legal(c, d)
    BY <1>10, <2>6, <2>4, FirmwareMaps DEF FirmwareAt, Legal, LMA, Bits
  <2>8. Bits(c) = 32
    BY <1>10 DEF FirmwareAt, Bits, LMA
  <2>10. Takes(c, "set", "cr0", {"PG"})
    BY <2>7 DEF Takes, d
  <2> QED  BY <2>6, <2>8, <2>10 DEF Runs, d
<1>11. ASSUME FirmwareAt(11, c)
      PROVE  Runs(c, 32, "ljmp", "cs", 16) /\ FirmwareAt(12, After(c, "ljmp", "cs", 16))
  <2> DEFINE d == After(c, "ljmp", "cs", 16)
  <2>1. Selected(c, 16) = "code64"
    BY <1>11 DEF FirmwareAt, Selected, Gdts
  <2>2. d = [c EXCEPT !.cs = "code64", !.csSel = 16]
    BY <2>1 DEF After
  <2>3. DOMAIN c = CoreFields
    BY <1>11 DEF FirmwareAt
  <2> HIDE DEF d
  <2>4. /\ DOMAIN d = CoreFields
        /\ d.cr0 = c.cr0 /\ d.cr3 = c.cr3 /\ d.cr4 = c.cr4 /\ d.efer = c.efer /\ d.gdt = c.gdt
        /\ d.cs = "code64" /\ d.csSel = 16 /\ d.data = c.data /\ d.dataSel = c.dataSel /\ d.tr = c.tr
    BY <2>2, <2>3 DEF CoreFields
  <2>6. FirmwareAt(12, d)
    BY <1>11, <2>4 DEF FirmwareAt
  <2>7. Legal(c, d)
    BY <1>11, <2>6, <2>4, FirmwareMaps DEF FirmwareAt, Legal, LMA, Bits
  <2>8. Bits(c) = 32
    BY <1>11 DEF FirmwareAt, Bits, LMA
  <2>10. Takes(c, "ljmp", "cs", 16)
    BY <2>1, <2>7 DEF Takes, d
  <2> QED  BY <2>6, <2>8, <2>10 DEF Runs, d
<1>12. ASSUME FirmwareAt(12, c)
      PROVE  Runs(c, 64, "call", "ip", "main") /\ FirmwareAt(13, After(c, "call", "ip", "main"))
  <2>1. After(c, "call", "ip", "main") = c
    BY DEF After
  <2>2. FirmwareAt(13, c)
    BY <1>12 DEF FirmwareAt
  <2>3. Legal(c, c)
    BY <1>12, FirmwareMaps DEF FirmwareAt, Legal, LMA, Bits
  <2> QED  BY <1>12, <2>1, <2>2, <2>3 DEF Runs, Takes, FirmwareAt, Bits, LMA
<1> QED  BY <1>1, <1>2, <1>3, <1>4, <1>5, <1>6, <1>7, <1>8, <1>9, <1>10, <1>11, <1>12

\* So does every instruction of start_multiboot of the firmware.
LEMMA KernelRuns ==
  ASSUME NEW c
  PROVE  /\ KernelAt(1, c) => Runs(c, 64, "ljmp", "cs", 8) /\ KernelAt(2, After(c, "ljmp", "cs", 8))
         /\ KernelAt(2, c) => Runs(c, 32, "lgdt", "gdtr", "gdt32") /\ KernelAt(3, After(c, "lgdt", "gdtr", "gdt32"))
         /\ KernelAt(3, c) => Runs(c, 32, "ljmp", "cs", 8) /\ KernelAt(4, After(c, "ljmp", "cs", 8))
         /\ KernelAt(4, c) => Runs(c, 32, "mov", "data", 16) /\ KernelAt(5, After(c, "mov", "data", 16))
         /\ KernelAt(5, c) => Runs(c, 32, "clear", "cr0", {"PG"}) /\ KernelAt(6, After(c, "clear", "cr0", {"PG"}))
         /\ KernelAt(6, c) => Runs(c, 32, "clear", "efer", {"LME"}) /\ KernelAt(7, After(c, "clear", "efer", {"LME"}))
         /\ KernelAt(7, c) => Runs(c, 32, "clear", "cr4", {"PAE", "PSE"}) /\ KernelAt(8, After(c, "clear", "cr4", {"PAE", "PSE"}))
         /\ KernelAt(8, c) => Runs(c, 32, "call", "ip", "kernel") /\ KernelAt(9, After(c, "call", "ip", "kernel"))
<1>1. ASSUME KernelAt(1, c)
      PROVE  Runs(c, 64, "ljmp", "cs", 8) /\ KernelAt(2, After(c, "ljmp", "cs", 8))
  <2> DEFINE d == After(c, "ljmp", "cs", 8)
  <2>1. Selected(c, 8) = "code32"
    BY <1>1 DEF KernelAt, Selected, Gdts
  <2>2. d = [c EXCEPT !.cs = "code32", !.csSel = 8]
    BY <2>1 DEF After
  <2>3. DOMAIN c = CoreFields
    BY <1>1 DEF KernelAt
  <2> HIDE DEF d
  <2>4. /\ DOMAIN d = CoreFields
        /\ d.cr0 = c.cr0 /\ d.cr3 = c.cr3 /\ d.cr4 = c.cr4 /\ d.efer = c.efer /\ d.gdt = c.gdt
        /\ d.cs = "code32" /\ d.csSel = 8 /\ d.data = c.data /\ d.dataSel = c.dataSel /\ d.tr = c.tr
    BY <2>2, <2>3 DEF CoreFields
  <2>6. KernelAt(2, d)
    BY <1>1, <2>4 DEF KernelAt
  <2>7. Legal(c, d)
    BY <1>1, <2>6, <2>4, FirmwareMaps DEF KernelAt, Legal, LMA, Bits
  <2>8. Bits(c) = 64
    BY <1>1 DEF KernelAt, Bits, LMA
  <2>10. Takes(c, "ljmp", "cs", 8)
    BY <2>1, <2>7 DEF Takes, d
  <2> QED  BY <2>6, <2>8, <2>10 DEF Runs, d
<1>2. ASSUME KernelAt(2, c)
      PROVE  Runs(c, 32, "lgdt", "gdtr", "gdt32") /\ KernelAt(3, After(c, "lgdt", "gdtr", "gdt32"))
  <2> DEFINE d == After(c, "lgdt", "gdtr", "gdt32")
  <2>2. d = [c EXCEPT !.gdt = "gdt32"]
    BY DEF After
  <2>3. DOMAIN c = CoreFields
    BY <1>2 DEF KernelAt
  <2> HIDE DEF d
  <2>4. /\ DOMAIN d = CoreFields
        /\ d.cr0 = c.cr0 /\ d.cr3 = c.cr3 /\ d.cr4 = c.cr4 /\ d.efer = c.efer /\ d.gdt = "gdt32"
        /\ d.cs = c.cs /\ d.csSel = c.csSel /\ d.data = c.data /\ d.dataSel = c.dataSel /\ d.tr = c.tr
    BY <2>2, <2>3 DEF CoreFields
  <2>6. KernelAt(3, d)
    BY <1>2, <2>4 DEF KernelAt
  <2>7. Legal(c, d)
    BY <1>2, <2>6, <2>4, FirmwareMaps DEF KernelAt, Legal, LMA, Bits
  <2>8. Bits(c) = 32
    BY <1>2 DEF KernelAt, Bits, LMA
  <2>10. Takes(c, "lgdt", "gdtr", "gdt32")
    BY <2>7 DEF Takes, d
  <2> QED  BY <2>6, <2>8, <2>10 DEF Runs, d
<1>3. ASSUME KernelAt(3, c)
      PROVE  Runs(c, 32, "ljmp", "cs", 8) /\ KernelAt(4, After(c, "ljmp", "cs", 8))
  <2> DEFINE d == After(c, "ljmp", "cs", 8)
  <2>1. Selected(c, 8) = "code32"
    BY <1>3 DEF KernelAt, Selected, Gdts
  <2>2. d = [c EXCEPT !.cs = "code32", !.csSel = 8]
    BY <2>1 DEF After
  <2>3. DOMAIN c = CoreFields
    BY <1>3 DEF KernelAt
  <2> HIDE DEF d
  <2>4. /\ DOMAIN d = CoreFields
        /\ d.cr0 = c.cr0 /\ d.cr3 = c.cr3 /\ d.cr4 = c.cr4 /\ d.efer = c.efer /\ d.gdt = c.gdt
        /\ d.cs = "code32" /\ d.csSel = 8 /\ d.data = c.data /\ d.dataSel = c.dataSel /\ d.tr = c.tr
    BY <2>2, <2>3 DEF CoreFields
  <2>6. KernelAt(4, d)
    BY <1>3, <2>4 DEF KernelAt
  <2>7. Legal(c, d)
    BY <1>3, <2>6, <2>4, FirmwareMaps DEF KernelAt, Legal, LMA, Bits
  <2>8. Bits(c) = 32
    BY <1>3 DEF KernelAt, Bits, LMA
  <2>10. Takes(c, "ljmp", "cs", 8)
    BY <2>1, <2>7 DEF Takes, d
  <2> QED  BY <2>6, <2>8, <2>10 DEF Runs, d
<1>4. ASSUME KernelAt(4, c)
      PROVE  Runs(c, 32, "mov", "data", 16) /\ KernelAt(5, After(c, "mov", "data", 16))
  <2> DEFINE d == After(c, "mov", "data", 16)
  <2>1. Selected(c, 16) = "data"
    BY <1>4 DEF KernelAt, Selected, Gdts
  <2>2. d = [c EXCEPT !.data = "data", !.dataSel = 16]
    BY <2>1 DEF After
  <2>3. DOMAIN c = CoreFields
    BY <1>4 DEF KernelAt
  <2> HIDE DEF d
  <2>4. /\ DOMAIN d = CoreFields
        /\ d.cr0 = c.cr0 /\ d.cr3 = c.cr3 /\ d.cr4 = c.cr4 /\ d.efer = c.efer /\ d.gdt = c.gdt
        /\ d.cs = c.cs /\ d.csSel = c.csSel /\ d.data = "data" /\ d.dataSel = 16 /\ d.tr = c.tr
    BY <2>2, <2>3 DEF CoreFields
  <2>6. KernelAt(5, d)
    BY <1>4, <2>4 DEF KernelAt
  <2>7. Legal(c, d)
    BY <1>4, <2>6, <2>4, FirmwareMaps DEF KernelAt, Legal, LMA, Bits
  <2>8. Bits(c) = 32
    BY <1>4 DEF KernelAt, Bits, LMA
  <2>9. "PE" \in c.cr0
    BY <1>4 DEF KernelAt
  <2>10. Takes(c, "mov", "data", 16)
    BY <2>1, <2>9, <2>7 DEF Takes, d
  <2> QED  BY <2>6, <2>8, <2>10 DEF Runs, d
<1>5. ASSUME KernelAt(5, c)
      PROVE  Runs(c, 32, "clear", "cr0", {"PG"}) /\ KernelAt(6, After(c, "clear", "cr0", {"PG"}))
  <2> DEFINE d == After(c, "clear", "cr0", {"PG"})
  <2>2. d = [c EXCEPT !.cr0 = c.cr0 \ {"PG"}]
    BY DEF After
  <2>3. DOMAIN c = CoreFields
    BY <1>5 DEF KernelAt
  <2> HIDE DEF d
  <2>4. /\ DOMAIN d = CoreFields
        /\ d.cr0 = c.cr0 \ {"PG"} /\ d.cr3 = c.cr3 /\ d.cr4 = c.cr4 /\ d.efer = c.efer /\ d.gdt = c.gdt
        /\ d.cs = c.cs /\ d.csSel = c.csSel /\ d.data = c.data /\ d.dataSel = c.dataSel /\ d.tr = c.tr
    BY <2>2, <2>3 DEF CoreFields
  <2>6. KernelAt(6, d)
    BY <1>5, <2>4 DEF KernelAt
  <2>7. Legal(c, d)
    BY <1>5, <2>6, <2>4, FirmwareMaps DEF KernelAt, Legal, LMA, Bits
  <2>8. Bits(c) = 32
    BY <1>5 DEF KernelAt, Bits, LMA
  <2>10. Takes(c, "clear", "cr0", {"PG"})
    BY <2>7 DEF Takes, d
  <2> QED  BY <2>6, <2>8, <2>10 DEF Runs, d
<1>6. ASSUME KernelAt(6, c)
      PROVE  Runs(c, 32, "clear", "efer", {"LME"}) /\ KernelAt(7, After(c, "clear", "efer", {"LME"}))
  <2> DEFINE d == After(c, "clear", "efer", {"LME"})
  <2>2. d = [c EXCEPT !.efer = c.efer \ {"LME"}]
    BY DEF After
  <2>3. DOMAIN c = CoreFields
    BY <1>6 DEF KernelAt
  <2> HIDE DEF d
  <2>4. /\ DOMAIN d = CoreFields
        /\ d.cr0 = c.cr0 /\ d.cr3 = c.cr3 /\ d.cr4 = c.cr4 /\ d.efer = c.efer \ {"LME"} /\ d.gdt = c.gdt
        /\ d.cs = c.cs /\ d.csSel = c.csSel /\ d.data = c.data /\ d.dataSel = c.dataSel /\ d.tr = c.tr
    BY <2>2, <2>3 DEF CoreFields
  <2>5. d.efer = {}
    <3>1. c.efer = {"LME"}
      BY <1>6 DEF KernelAt
    <3> QED  BY <2>4, <3>1
  <2>6. KernelAt(7, d)
    BY <1>6, <2>4, <2>5 DEF KernelAt
  <2>7. Legal(c, d)
    BY <1>6, <2>6, <2>4 DEF KernelAt, Legal, LMA, Bits
  <2>8. Bits(c) = 32
    BY <1>6 DEF KernelAt, Bits, LMA
  <2>10. Takes(c, "clear", "efer", {"LME"})
    BY <2>7 DEF Takes, d
  <2> QED  BY <2>6, <2>8, <2>10 DEF Runs, d
<1>7. ASSUME KernelAt(7, c)
      PROVE  Runs(c, 32, "clear", "cr4", {"PAE", "PSE"}) /\ KernelAt(8, After(c, "clear", "cr4", {"PAE", "PSE"}))
  <2> DEFINE d == After(c, "clear", "cr4", {"PAE", "PSE"})
  <2>2. d = [c EXCEPT !.cr4 = c.cr4 \ {"PAE", "PSE"}]
    BY DEF After
  <2>3. DOMAIN c = CoreFields
    BY <1>7 DEF KernelAt
  <2> HIDE DEF d
  <2>4. /\ DOMAIN d = CoreFields
        /\ d.cr0 = c.cr0 /\ d.cr3 = c.cr3 /\ d.cr4 = c.cr4 \ {"PAE", "PSE"} /\ d.efer = c.efer /\ d.gdt = c.gdt
        /\ d.cs = c.cs /\ d.csSel = c.csSel /\ d.data = c.data /\ d.dataSel = c.dataSel /\ d.tr = c.tr
    BY <2>2, <2>3 DEF CoreFields
  <2>6. KernelAt(8, d)
    BY <1>7, <2>4 DEF KernelAt
  <2>7. Legal(c, d)
    BY <1>7, <2>6, <2>4 DEF KernelAt, Legal, LMA, Bits
  <2>8. Bits(c) = 32
    BY <1>7 DEF KernelAt, Bits, LMA
  <2>10. Takes(c, "clear", "cr4", {"PAE", "PSE"})
    BY <2>7 DEF Takes, d
  <2> QED  BY <2>6, <2>8, <2>10 DEF Runs, d
<1>8. ASSUME KernelAt(8, c)
      PROVE  Runs(c, 32, "call", "ip", "kernel") /\ KernelAt(9, After(c, "call", "ip", "kernel"))
  <2>1. After(c, "call", "ip", "kernel") = c
    BY DEF After
  <2>2. KernelAt(9, c)
    BY <1>8 DEF KernelAt
  <2>3. Legal(c, c)
    BY <1>8 DEF KernelAt, Legal, LMA, Bits
  <2> QED  BY <1>8, <2>1, <2>2, <2>3 DEF Runs, Takes, KernelAt, Bits, LMA
<1> QED  BY <1>1, <1>2, <1>3, <1>4, <1>5, <1>6, <1>7, <1>8

\* And of start_multiboot of the monitor.
LEMMA MonitorRuns ==
  ASSUME NEW c
  PROVE  /\ MonitorAt(1, c) => Runs(c, 32, "set", "cr4", {"PAE", "PSE"}) /\ MonitorAt(2, After(c, "set", "cr4", {"PAE", "PSE"}))
         /\ MonitorAt(2, c) => Runs(c, 32, "mov", "cr3", "kpml4") /\ MonitorAt(3, After(c, "mov", "cr3", "kpml4"))
         /\ MonitorAt(3, c) => Runs(c, 32, "lgdt", "gdtr", "vgdt") /\ MonitorAt(4, After(c, "lgdt", "gdtr", "vgdt"))
         /\ MonitorAt(4, c) => Runs(c, 32, "set", "efer", {"LME"}) /\ MonitorAt(5, After(c, "set", "efer", {"LME"}))
         /\ MonitorAt(5, c) => Runs(c, 32, "set", "cr0", {"PG", "WP", "NE"}) /\ MonitorAt(6, After(c, "set", "cr0", {"PG", "WP", "NE"}))
         /\ MonitorAt(6, c) => Runs(c, 32, "mov", "data", 24) /\ MonitorAt(7, After(c, "mov", "data", 24))
         /\ MonitorAt(7, c) => Runs(c, 32, "ljmp", "cs", 16) /\ MonitorAt(8, After(c, "ljmp", "cs", 16))
         /\ MonitorAt(8, c) => Runs(c, 64, "call", "ip", "vmm_main") /\ MonitorAt(9, After(c, "call", "ip", "vmm_main"))
<1>1. ASSUME MonitorAt(1, c)
      PROVE  Runs(c, 32, "set", "cr4", {"PAE", "PSE"}) /\ MonitorAt(2, After(c, "set", "cr4", {"PAE", "PSE"}))
  <2> DEFINE d == After(c, "set", "cr4", {"PAE", "PSE"})
  <2>2. d = [c EXCEPT !.cr4 = c.cr4 \cup {"PAE", "PSE"}]
    BY DEF After
  <2>3. DOMAIN c = CoreFields
    BY <1>1 DEF MonitorAt
  <2> HIDE DEF d
  <2>4. /\ DOMAIN d = CoreFields
        /\ d.cr0 = c.cr0 /\ d.cr3 = c.cr3 /\ d.cr4 = c.cr4 \cup {"PAE", "PSE"} /\ d.efer = c.efer /\ d.gdt = c.gdt
        /\ d.cs = c.cs /\ d.csSel = c.csSel /\ d.data = c.data /\ d.dataSel = c.dataSel /\ d.tr = c.tr
    BY <2>2, <2>3 DEF CoreFields
  <2>6. MonitorAt(2, d)
    BY <1>1, <2>4 DEF MonitorAt
  <2>7. Legal(c, d)
    BY <1>1, <2>6, <2>4 DEF MonitorAt, Legal, LMA, Bits
  <2>8. Bits(c) = 32
    BY <1>1 DEF MonitorAt, Bits, LMA
  <2>10. Takes(c, "set", "cr4", {"PAE", "PSE"})
    BY <2>7 DEF Takes, d
  <2> QED  BY <2>6, <2>8, <2>10 DEF Runs, d
<1>2. ASSUME MonitorAt(2, c)
      PROVE  Runs(c, 32, "mov", "cr3", "kpml4") /\ MonitorAt(3, After(c, "mov", "cr3", "kpml4"))
  <2> DEFINE d == After(c, "mov", "cr3", "kpml4")
  <2>2. d = [c EXCEPT !.cr3 = "kpml4"]
    BY DEF After
  <2>3. DOMAIN c = CoreFields
    BY <1>2 DEF MonitorAt
  <2> HIDE DEF d
  <2>4. /\ DOMAIN d = CoreFields
        /\ d.cr0 = c.cr0 /\ d.cr3 = "kpml4" /\ d.cr4 = c.cr4 /\ d.efer = c.efer /\ d.gdt = c.gdt
        /\ d.cs = c.cs /\ d.csSel = c.csSel /\ d.data = c.data /\ d.dataSel = c.dataSel /\ d.tr = c.tr
    BY <2>2, <2>3 DEF CoreFields
  <2>6. MonitorAt(3, d)
    BY <1>2, <2>4 DEF MonitorAt
  <2>7. Legal(c, d)
    BY <1>2, <2>6, <2>4 DEF MonitorAt, Legal, LMA, Bits
  <2>8. Bits(c) = 32
    BY <1>2 DEF MonitorAt, Bits, LMA
  <2>10. Takes(c, "mov", "cr3", "kpml4")
    BY <2>7 DEF Takes, d
  <2> QED  BY <2>6, <2>8, <2>10 DEF Runs, d
<1>3. ASSUME MonitorAt(3, c)
      PROVE  Runs(c, 32, "lgdt", "gdtr", "vgdt") /\ MonitorAt(4, After(c, "lgdt", "gdtr", "vgdt"))
  <2> DEFINE d == After(c, "lgdt", "gdtr", "vgdt")
  <2>2. d = [c EXCEPT !.gdt = "vgdt"]
    BY DEF After
  <2>3. DOMAIN c = CoreFields
    BY <1>3 DEF MonitorAt
  <2> HIDE DEF d
  <2>4. /\ DOMAIN d = CoreFields
        /\ d.cr0 = c.cr0 /\ d.cr3 = c.cr3 /\ d.cr4 = c.cr4 /\ d.efer = c.efer /\ d.gdt = "vgdt"
        /\ d.cs = c.cs /\ d.csSel = c.csSel /\ d.data = c.data /\ d.dataSel = c.dataSel /\ d.tr = c.tr
    BY <2>2, <2>3 DEF CoreFields
  <2>6. MonitorAt(4, d)
    BY <1>3, <2>4 DEF MonitorAt
  <2>7. Legal(c, d)
    BY <1>3, <2>6, <2>4 DEF MonitorAt, Legal, LMA, Bits
  <2>8. Bits(c) = 32
    BY <1>3 DEF MonitorAt, Bits, LMA
  <2>10. Takes(c, "lgdt", "gdtr", "vgdt")
    BY <2>7 DEF Takes, d
  <2> QED  BY <2>6, <2>8, <2>10 DEF Runs, d
<1>4. ASSUME MonitorAt(4, c)
      PROVE  Runs(c, 32, "set", "efer", {"LME"}) /\ MonitorAt(5, After(c, "set", "efer", {"LME"}))
  <2> DEFINE d == After(c, "set", "efer", {"LME"})
  <2>2. d = [c EXCEPT !.efer = c.efer \cup {"LME"}]
    BY DEF After
  <2>3. DOMAIN c = CoreFields
    BY <1>4 DEF MonitorAt
  <2> HIDE DEF d
  <2>4. /\ DOMAIN d = CoreFields
        /\ d.cr0 = c.cr0 /\ d.cr3 = c.cr3 /\ d.cr4 = c.cr4 /\ d.efer = c.efer \cup {"LME"} /\ d.gdt = c.gdt
        /\ d.cs = c.cs /\ d.csSel = c.csSel /\ d.data = c.data /\ d.dataSel = c.dataSel /\ d.tr = c.tr
    BY <2>2, <2>3 DEF CoreFields
  <2>5. d.efer = {"LME"}
    <3>1. c.efer = {}
      BY <1>4 DEF MonitorAt
    <3> QED  BY <2>4, <3>1
  <2>6. MonitorAt(5, d)
    BY <1>4, <2>4, <2>5 DEF MonitorAt
  <2>7. Legal(c, d)
    BY <1>4, <2>6, <2>4 DEF MonitorAt, Legal, LMA, Bits
  <2>8. Bits(c) = 32
    BY <1>4 DEF MonitorAt, Bits, LMA
  <2>10. Takes(c, "set", "efer", {"LME"})
    BY <2>7 DEF Takes, d
  <2> QED  BY <2>6, <2>8, <2>10 DEF Runs, d
<1>5. ASSUME MonitorAt(5, c)
      PROVE  Runs(c, 32, "set", "cr0", {"PG", "WP", "NE"}) /\ MonitorAt(6, After(c, "set", "cr0", {"PG", "WP", "NE"}))
  <2> DEFINE d == After(c, "set", "cr0", {"PG", "WP", "NE"})
  <2>2. d = [c EXCEPT !.cr0 = c.cr0 \cup {"PG", "WP", "NE"}]
    BY DEF After
  <2>3. DOMAIN c = CoreFields
    BY <1>5 DEF MonitorAt
  <2> HIDE DEF d
  <2>4. /\ DOMAIN d = CoreFields
        /\ d.cr0 = c.cr0 \cup {"PG", "WP", "NE"} /\ d.cr3 = c.cr3 /\ d.cr4 = c.cr4 /\ d.efer = c.efer /\ d.gdt = c.gdt
        /\ d.cs = c.cs /\ d.csSel = c.csSel /\ d.data = c.data /\ d.dataSel = c.dataSel /\ d.tr = c.tr
    BY <2>2, <2>3 DEF CoreFields
  <2>6. MonitorAt(6, d)
    BY <1>5, <2>4 DEF MonitorAt
  <2>7. Legal(c, d)
    BY <1>5, <2>6, <2>4, MonitorMapsItself DEF MonitorAt, Legal, LMA, Bits
  <2>8. Bits(c) = 32
    BY <1>5 DEF MonitorAt, Bits, LMA
  <2>10. Takes(c, "set", "cr0", {"PG", "WP", "NE"})
    BY <2>7 DEF Takes, d
  <2> QED  BY <2>6, <2>8, <2>10 DEF Runs, d
<1>6. ASSUME MonitorAt(6, c)
      PROVE  Runs(c, 32, "mov", "data", 24) /\ MonitorAt(7, After(c, "mov", "data", 24))
  <2> DEFINE d == After(c, "mov", "data", 24)
  <2>1. Selected(c, 24) = "data"
    BY <1>6 DEF MonitorAt, Selected, Gdts
  <2>2. d = [c EXCEPT !.data = "data", !.dataSel = 24]
    BY <2>1 DEF After
  <2>3. DOMAIN c = CoreFields
    BY <1>6 DEF MonitorAt
  <2> HIDE DEF d
  <2>4. /\ DOMAIN d = CoreFields
        /\ d.cr0 = c.cr0 /\ d.cr3 = c.cr3 /\ d.cr4 = c.cr4 /\ d.efer = c.efer /\ d.gdt = c.gdt
        /\ d.cs = c.cs /\ d.csSel = c.csSel /\ d.data = "data" /\ d.dataSel = 24 /\ d.tr = c.tr
    BY <2>2, <2>3 DEF CoreFields
  <2>6. MonitorAt(7, d)
    BY <1>6, <2>4 DEF MonitorAt
  <2>7. Legal(c, d)
    BY <1>6, <2>6, <2>4, MonitorMapsItself DEF MonitorAt, Legal, LMA, Bits
  <2>8. Bits(c) = 32
    BY <1>6 DEF MonitorAt, Bits, LMA
  <2>9. "PE" \in c.cr0
    BY <1>6 DEF MonitorAt
  <2>10. Takes(c, "mov", "data", 24)
    BY <2>1, <2>9, <2>7 DEF Takes, d
  <2> QED  BY <2>6, <2>8, <2>10 DEF Runs, d
<1>7. ASSUME MonitorAt(7, c)
      PROVE  Runs(c, 32, "ljmp", "cs", 16) /\ MonitorAt(8, After(c, "ljmp", "cs", 16))
  <2> DEFINE d == After(c, "ljmp", "cs", 16)
  <2>1. Selected(c, 16) = "code64"
    BY <1>7 DEF MonitorAt, Selected, Gdts
  <2>2. d = [c EXCEPT !.cs = "code64", !.csSel = 16]
    BY <2>1 DEF After
  <2>3. DOMAIN c = CoreFields
    BY <1>7 DEF MonitorAt
  <2> HIDE DEF d
  <2>4. /\ DOMAIN d = CoreFields
        /\ d.cr0 = c.cr0 /\ d.cr3 = c.cr3 /\ d.cr4 = c.cr4 /\ d.efer = c.efer /\ d.gdt = c.gdt
        /\ d.cs = "code64" /\ d.csSel = 16 /\ d.data = c.data /\ d.dataSel = c.dataSel /\ d.tr = c.tr
    BY <2>2, <2>3 DEF CoreFields
  <2>6. MonitorAt(8, d)
    BY <1>7, <2>4 DEF MonitorAt
  <2>7. Legal(c, d)
    BY <1>7, <2>6, <2>4, MonitorMapsItself DEF MonitorAt, Legal, LMA, Bits
  <2>8. Bits(c) = 32
    BY <1>7 DEF MonitorAt, Bits, LMA
  <2>10. Takes(c, "ljmp", "cs", 16)
    BY <2>1, <2>7 DEF Takes, d
  <2> QED  BY <2>6, <2>8, <2>10 DEF Runs, d
<1>8. ASSUME MonitorAt(8, c)
      PROVE  Runs(c, 64, "call", "ip", "vmm_main") /\ MonitorAt(9, After(c, "call", "ip", "vmm_main"))
  <2>1. After(c, "call", "ip", "vmm_main") = c
    BY DEF After
  <2>2. MonitorAt(9, c)
    BY <1>8 DEF MonitorAt
  <2>3. Legal(c, c)
    BY <1>8, MonitorMapsItself DEF MonitorAt, Legal, LMA, Bits
  <2> QED  BY <1>8, <2>1, <2>2, <2>3 DEF Runs, Takes, MonitorAt, Bits, LMA
<1> QED  BY <1>1, <1>2, <1>3, <1>4, <1>5, <1>6, <1>7, <1>8

\* The instruction i of the core c is taken, in the mode it was assembled for; the core after it.
Steps(c, i) == Runs(c, i[1], i[2][1], i[2][2], i[2][3])
Stepped(c, i) == After(c, i[2][1], i[2][2], i[2][3])

\* What an instruction of start16 is, by its number.
LEMMA FirmwareCodeSteps ==
  ASSUME NEW c, NEW k \in 1 .. 12, FirmwareAt(k, c)
  PROVE  Steps(c, start16[k]) /\ FirmwareAt(k + 1, Stepped(c, start16[k]))
<1>1. CASE k = 1
  <2>1. start16[1] = <<16, <<"bsp", "bsp", 0>>>>
    BY DEF start16, Set, Clear, Far, Data, BOOT_CS, BOOT_DS, BOOT_TSS, BOOT32_CS, BOOT32_DS
  <2>2. FirmwareAt(1, c) /\ k + 1 = 2
    BY <1>1
  <2> QED  BY <1>1, <2>1, <2>2, FirmwareRuns DEF Steps, Stepped
<1>2. CASE k = 2
  <2>1. start16[2] = <<16, <<"lgdt", "gdtr", "gdt">>>>
    BY DEF start16, Set, Clear, Far, Data, BOOT_CS, BOOT_DS, BOOT_TSS, BOOT32_CS, BOOT32_DS
  <2>2. FirmwareAt(2, c) /\ k + 1 = 3
    BY <1>2
  <2> QED  BY <1>2, <2>1, <2>2, FirmwareRuns DEF Steps, Stepped
<1>3. CASE k = 3
  <2>1. start16[3] = <<16, <<"set", "cr0", {"PE"}>>>>
    BY DEF start16, Set, Clear, Far, Data, BOOT_CS, BOOT_DS, BOOT_TSS, BOOT32_CS, BOOT32_DS
  <2>2. FirmwareAt(3, c) /\ k + 1 = 4
    BY <1>3
  <2> QED  BY <1>3, <2>1, <2>2, FirmwareRuns DEF Steps, Stepped
<1>4. CASE k = 4
  <2>1. start16[4] = <<16, <<"mov", "data", 24>>>>
    BY DEF start16, Set, Clear, Far, Data, BOOT_CS, BOOT_DS, BOOT_TSS, BOOT32_CS, BOOT32_DS
  <2>2. FirmwareAt(4, c) /\ k + 1 = 5
    BY <1>4
  <2> QED  BY <1>4, <2>1, <2>2, FirmwareRuns DEF Steps, Stepped
<1>5. CASE k = 5
  <2>1. start16[5] = <<16, <<"ljmp", "cs", 8>>>>
    BY DEF start16, Set, Clear, Far, Data, BOOT_CS, BOOT_DS, BOOT_TSS, BOOT32_CS, BOOT32_DS
  <2>2. FirmwareAt(5, c) /\ k + 1 = 6
    BY <1>5
  <2> QED  BY <1>5, <2>1, <2>2, FirmwareRuns DEF Steps, Stepped
<1>6. CASE k = 6
  <2>1. start16[6] = <<32, <<"set", "cr4", {"PAE", "PSE"}>>>>
    BY DEF start16, Set, Clear, Far, Data, BOOT_CS, BOOT_DS, BOOT_TSS, BOOT32_CS, BOOT32_DS
  <2>2. FirmwareAt(6, c) /\ k + 1 = 7
    BY <1>6
  <2> QED  BY <1>6, <2>1, <2>2, FirmwareRuns DEF Steps, Stepped
<1>7. CASE k = 7
  <2>1. start16[7] = <<32, <<"mov", "cr3", "pml4">>>>
    BY DEF start16, Set, Clear, Far, Data, BOOT_CS, BOOT_DS, BOOT_TSS, BOOT32_CS, BOOT32_DS
  <2>2. FirmwareAt(7, c) /\ k + 1 = 8
    BY <1>7
  <2> QED  BY <1>7, <2>1, <2>2, FirmwareRuns DEF Steps, Stepped
<1>8. CASE k = 8
  <2>1. start16[8] = <<32, <<"set", "efer", {"LME"}>>>>
    BY DEF start16, Set, Clear, Far, Data, BOOT_CS, BOOT_DS, BOOT_TSS, BOOT32_CS, BOOT32_DS
  <2>2. FirmwareAt(8, c) /\ k + 1 = 9
    BY <1>8
  <2> QED  BY <1>8, <2>1, <2>2, FirmwareRuns DEF Steps, Stepped
<1>9. CASE k = 9
  <2>1. start16[9] = <<32, <<"ltr", "tr", 32>>>>
    BY DEF start16, Set, Clear, Far, Data, BOOT_CS, BOOT_DS, BOOT_TSS, BOOT32_CS, BOOT32_DS
  <2>2. FirmwareAt(9, c) /\ k + 1 = 10
    BY <1>9
  <2> QED  BY <1>9, <2>1, <2>2, FirmwareRuns DEF Steps, Stepped
<1>10. CASE k = 10
  <2>1. start16[10] = <<32, <<"set", "cr0", {"PG"}>>>>
    BY DEF start16, Set, Clear, Far, Data, BOOT_CS, BOOT_DS, BOOT_TSS, BOOT32_CS, BOOT32_DS
  <2>2. FirmwareAt(10, c) /\ k + 1 = 11
    BY <1>10
  <2> QED  BY <1>10, <2>1, <2>2, FirmwareRuns DEF Steps, Stepped
<1>11. CASE k = 11
  <2>1. start16[11] = <<32, <<"ljmp", "cs", 16>>>>
    BY DEF start16, Set, Clear, Far, Data, BOOT_CS, BOOT_DS, BOOT_TSS, BOOT32_CS, BOOT32_DS
  <2>2. FirmwareAt(11, c) /\ k + 1 = 12
    BY <1>11
  <2> QED  BY <1>11, <2>1, <2>2, FirmwareRuns DEF Steps, Stepped
<1>12. CASE k = 12
  <2>1. start16[12] = <<64, <<"call", "ip", "main">>>>
    BY DEF start16, Set, Clear, Far, Data, BOOT_CS, BOOT_DS, BOOT_TSS, BOOT32_CS, BOOT32_DS
  <2>2. FirmwareAt(12, c) /\ k + 1 = 13
    BY <1>12
  <2> QED  BY <1>12, <2>1, <2>2, FirmwareRuns DEF Steps, Stepped
<1> QED  BY <1>1, <1>2, <1>3, <1>4, <1>5, <1>6, <1>7, <1>8, <1>9, <1>10, <1>11, <1>12

\* What an instruction of start_multiboot is, by its number.
LEMMA KernelCodeSteps ==
  ASSUME NEW c, NEW k \in 1 .. 8, KernelAt(k, c)
  PROVE  Steps(c, start_multiboot[k]) /\ KernelAt(k + 1, Stepped(c, start_multiboot[k]))
<1>1. CASE k = 1
  <2>1. start_multiboot[1] = <<64, <<"ljmp", "cs", 8>>>>
    BY DEF start_multiboot, Set, Clear, Far, Data, BOOT_CS, BOOT_DS, BOOT_TSS, BOOT32_CS, BOOT32_DS
  <2>2. KernelAt(1, c) /\ k + 1 = 2
    BY <1>1
  <2> QED  BY <1>1, <2>1, <2>2, KernelRuns DEF Steps, Stepped
<1>2. CASE k = 2
  <2>1. start_multiboot[2] = <<32, <<"lgdt", "gdtr", "gdt32">>>>
    BY DEF start_multiboot, Set, Clear, Far, Data, BOOT_CS, BOOT_DS, BOOT_TSS, BOOT32_CS, BOOT32_DS
  <2>2. KernelAt(2, c) /\ k + 1 = 3
    BY <1>2
  <2> QED  BY <1>2, <2>1, <2>2, KernelRuns DEF Steps, Stepped
<1>3. CASE k = 3
  <2>1. start_multiboot[3] = <<32, <<"ljmp", "cs", 8>>>>
    BY DEF start_multiboot, Set, Clear, Far, Data, BOOT_CS, BOOT_DS, BOOT_TSS, BOOT32_CS, BOOT32_DS
  <2>2. KernelAt(3, c) /\ k + 1 = 4
    BY <1>3
  <2> QED  BY <1>3, <2>1, <2>2, KernelRuns DEF Steps, Stepped
<1>4. CASE k = 4
  <2>1. start_multiboot[4] = <<32, <<"mov", "data", 16>>>>
    BY DEF start_multiboot, Set, Clear, Far, Data, BOOT_CS, BOOT_DS, BOOT_TSS, BOOT32_CS, BOOT32_DS
  <2>2. KernelAt(4, c) /\ k + 1 = 5
    BY <1>4
  <2> QED  BY <1>4, <2>1, <2>2, KernelRuns DEF Steps, Stepped
<1>5. CASE k = 5
  <2>1. start_multiboot[5] = <<32, <<"clear", "cr0", {"PG"}>>>>
    BY DEF start_multiboot, Set, Clear, Far, Data, BOOT_CS, BOOT_DS, BOOT_TSS, BOOT32_CS, BOOT32_DS
  <2>2. KernelAt(5, c) /\ k + 1 = 6
    BY <1>5
  <2> QED  BY <1>5, <2>1, <2>2, KernelRuns DEF Steps, Stepped
<1>6. CASE k = 6
  <2>1. start_multiboot[6] = <<32, <<"clear", "efer", {"LME"}>>>>
    BY DEF start_multiboot, Set, Clear, Far, Data, BOOT_CS, BOOT_DS, BOOT_TSS, BOOT32_CS, BOOT32_DS
  <2>2. KernelAt(6, c) /\ k + 1 = 7
    BY <1>6
  <2> QED  BY <1>6, <2>1, <2>2, KernelRuns DEF Steps, Stepped
<1>7. CASE k = 7
  <2>1. start_multiboot[7] = <<32, <<"clear", "cr4", {"PAE", "PSE"}>>>>
    BY DEF start_multiboot, Set, Clear, Far, Data, BOOT_CS, BOOT_DS, BOOT_TSS, BOOT32_CS, BOOT32_DS
  <2>2. KernelAt(7, c) /\ k + 1 = 8
    BY <1>7
  <2> QED  BY <1>7, <2>1, <2>2, KernelRuns DEF Steps, Stepped
<1>8. CASE k = 8
  <2>1. start_multiboot[8] = <<32, <<"call", "ip", "kernel">>>>
    BY DEF start_multiboot, Set, Clear, Far, Data, BOOT_CS, BOOT_DS, BOOT_TSS, BOOT32_CS, BOOT32_DS
  <2>2. KernelAt(8, c) /\ k + 1 = 9
    BY <1>8
  <2> QED  BY <1>8, <2>1, <2>2, KernelRuns DEF Steps, Stepped
<1> QED  BY <1>1, <1>2, <1>3, <1>4, <1>5, <1>6, <1>7, <1>8

\* What an instruction of vmm_start is, by its number.
LEMMA MonitorCodeSteps ==
  ASSUME NEW c, NEW k \in 1 .. 8, MonitorAt(k, c)
  PROVE  Steps(c, vmm_start[k]) /\ MonitorAt(k + 1, Stepped(c, vmm_start[k]))
<1>1. CASE k = 1
  <2>1. vmm_start[1] = <<32, <<"set", "cr4", {"PAE", "PSE"}>>>>
    BY DEF vmm_start, Set, Clear, Far, Data, BOOT_CS, BOOT_DS, BOOT_TSS, BOOT32_CS, BOOT32_DS
  <2>2. MonitorAt(1, c) /\ k + 1 = 2
    BY <1>1
  <2> QED  BY <1>1, <2>1, <2>2, MonitorRuns DEF Steps, Stepped
<1>2. CASE k = 2
  <2>1. vmm_start[2] = <<32, <<"mov", "cr3", "kpml4">>>>
    BY DEF vmm_start, Set, Clear, Far, Data, BOOT_CS, BOOT_DS, BOOT_TSS, BOOT32_CS, BOOT32_DS
  <2>2. MonitorAt(2, c) /\ k + 1 = 3
    BY <1>2
  <2> QED  BY <1>2, <2>1, <2>2, MonitorRuns DEF Steps, Stepped
<1>3. CASE k = 3
  <2>1. vmm_start[3] = <<32, <<"lgdt", "gdtr", "vgdt">>>>
    BY DEF vmm_start, Set, Clear, Far, Data, BOOT_CS, BOOT_DS, BOOT_TSS, BOOT32_CS, BOOT32_DS
  <2>2. MonitorAt(3, c) /\ k + 1 = 4
    BY <1>3
  <2> QED  BY <1>3, <2>1, <2>2, MonitorRuns DEF Steps, Stepped
<1>4. CASE k = 4
  <2>1. vmm_start[4] = <<32, <<"set", "efer", {"LME"}>>>>
    BY DEF vmm_start, Set, Clear, Far, Data, BOOT_CS, BOOT_DS, BOOT_TSS, BOOT32_CS, BOOT32_DS
  <2>2. MonitorAt(4, c) /\ k + 1 = 5
    BY <1>4
  <2> QED  BY <1>4, <2>1, <2>2, MonitorRuns DEF Steps, Stepped
<1>5. CASE k = 5
  <2>1. vmm_start[5] = <<32, <<"set", "cr0", {"PG", "WP", "NE"}>>>>
    BY DEF vmm_start, Set, Clear, Far, Data, BOOT_CS, BOOT_DS, BOOT_TSS, BOOT32_CS, BOOT32_DS
  <2>2. MonitorAt(5, c) /\ k + 1 = 6
    BY <1>5
  <2> QED  BY <1>5, <2>1, <2>2, MonitorRuns DEF Steps, Stepped
<1>6. CASE k = 6
  <2>1. vmm_start[6] = <<32, <<"mov", "data", 24>>>>
    BY DEF vmm_start, Set, Clear, Far, Data, BOOT_CS, BOOT_DS, BOOT_TSS, BOOT32_CS, BOOT32_DS
  <2>2. MonitorAt(6, c) /\ k + 1 = 7
    BY <1>6
  <2> QED  BY <1>6, <2>1, <2>2, MonitorRuns DEF Steps, Stepped
<1>7. CASE k = 7
  <2>1. vmm_start[7] = <<32, <<"ljmp", "cs", 16>>>>
    BY DEF vmm_start, Set, Clear, Far, Data, BOOT_CS, BOOT_DS, BOOT_TSS, BOOT32_CS, BOOT32_DS
  <2>2. MonitorAt(7, c) /\ k + 1 = 8
    BY <1>7
  <2> QED  BY <1>7, <2>1, <2>2, MonitorRuns DEF Steps, Stepped
<1>8. CASE k = 8
  <2>1. vmm_start[8] = <<64, <<"call", "ip", "vmm_main">>>>
    BY DEF vmm_start, Set, Clear, Far, Data, BOOT_CS, BOOT_DS, BOOT_TSS, BOOT32_CS, BOOT32_DS
  <2>2. MonitorAt(8, c) /\ k + 1 = 9
    BY <1>8
  <2> QED  BY <1>8, <2>1, <2>2, MonitorRuns DEF Steps, Stepped
<1> QED  BY <1>1, <1>2, <1>3, <1>4, <1>5, <1>6, <1>7, <1>8

\* The code that runs, where it is, and the core there.
ModeOk ==
  \/ program = "start16" /\ ip \in 1 .. 13 /\ FirmwareAt(ip, core)
  \/ program = "start_multiboot" /\ ip \in 1 .. 9 /\ KernelAt(ip, core)
  \/ program = "vmm_start" /\ ip \in 1 .. 9 /\ MonitorAt(ip, core)

ModeInv == part = "mode" => ModeOk

ModeOff == part # "mode" => program = "" /\ ip = -1

\* The lengths of the three programs.
LEMMA ProgramLengths ==
  /\ Programs["start16"] = start16 /\ Len(start16) = 12
  /\ Programs["start_multiboot"] = start_multiboot /\ Len(start_multiboot) = 8
  /\ Programs["vmm_start"] = vmm_start /\ Len(vmm_start) = 8
<1>1. Len(start16) = 12
  BY DEF start16
<1>2. Len(start_multiboot) = 8
  BY DEF start_multiboot
<1>3. Len(vmm_start) = 8
  BY DEF vmm_start
<1>4. /\ Programs["start16"] = start16 /\ Programs["start_multiboot"] = start_multiboot
      /\ Programs["vmm_start"] = vmm_start
  BY DEF Programs
<1> QED  BY <1>1, <1>2, <1>3, <1>4

\* Both head.S start as their loaders leave the processor.
LEMMA ModeStarts ==
  ASSUME ModeInit
  PROVE  ModeOk
<1>1. ip = 1 /\ program \in {"start16", "vmm_start"}
  BY Zenon DEF ModeInit
<1>2. PICK bsp \in BOOLEAN, cr4 \in SUBSET {"PAE", "PSE"}, cr0 \in SUBSET {"WP", "NE"} :
        core = IF program = "start16"
               THEN [cr0 |-> {"NE"}, cr3 |-> "none", cr4 |-> {}, efer |-> {}, gdt |-> "none", cs |-> "real",
                     csSel |-> 0, data |-> "real", dataSel |-> 0, tr |-> "none", bsp |-> bsp]
               ELSE [cr0 |-> cr0 \cup {"PE"}, cr3 |-> "none", cr4 |-> cr4, efer |-> {}, gdt |-> "loader",
                     cs |-> "code32", csSel |-> 8, data |-> "data", dataSel |-> 16, tr |-> "none", bsp |-> TRUE]
  BY Zenon DEF ModeInit
<1>3. CASE program = "start16"
  <2>1. FirmwareAt(1, core)
    <3>1. DOMAIN core = CoreFields /\ core.cr0 = {"NE"} /\ core.efer = {} /\ core.cs = "real"
      BY <1>2, <1>3 DEF CoreFields
    <3> QED  BY <3>1 DEF FirmwareAt
  <2> QED  BY <1>1, <1>3, <2>1 DEF ModeOk
<1>4. CASE program # "start16"
  <2>1. MonitorAt(1, core)
    <3>1. PICK b : core = [cr0 |-> cr0 \cup {"PE"}, cr3 |-> "none", cr4 |-> cr4, efer |-> {}, gdt |-> "loader",
                     cs |-> "code32", csSel |-> 8, data |-> "data", dataSel |-> 16, tr |-> "none", bsp |-> b]
      BY <1>2, <1>4, Zenon
    <3>2. DOMAIN core = CoreFields /\ core.cr0 = cr0 \cup {"PE"} /\ core.efer = {} /\ core.cs = "code32"
      BY <3>1 DEF CoreFields
    <3>3. "PE" \in core.cr0 /\ "PG" \notin core.cr0
      BY <3>2
    <3> QED  BY <3>2, <3>3 DEF MonitorAt
  <2> QED  BY <1>1, <1>4, <2>1 DEF ModeOk
<1> QED  BY <1>3, <1>4

\* Every instruction keeps it.
LEMMA ModeSteps ==
  ASSUME ModeOk, ModeNext
  PROVE  ModeOk'
<1>1. CASE Execute
  <2>1. /\ ip \in 1 .. Len(Programs[program]) /\ program' = program
        /\ IF Steps(core, Instruction)
           THEN core' = Stepped(core, Instruction) /\ ip' = ip + 1
           ELSE ip' = 0 /\ UNCHANGED core
    BY <1>1, Zenon DEF Execute, Running, Steps, Stepped, Runs
  <2>2. CASE program = "start16"
    <3>1. ip \in 1 .. 12 /\ FirmwareAt(ip, core) /\ Instruction = start16[ip]
      BY <2>1, <2>2, ProgramLengths DEF ModeOk, Instruction
    <3>2. core' = Stepped(core, start16[ip]) /\ ip' = ip + 1 /\ FirmwareAt(ip + 1, Stepped(core, start16[ip]))
      BY <2>1, <3>1, FirmwareCodeSteps
    <3>3. ip + 1 \in 1 .. 13
      BY <3>1
    <3> QED  BY <2>1, <2>2, <3>2, <3>3 DEF ModeOk
  <2>3. CASE program = "start_multiboot"
    <3>1. ip \in 1 .. 8 /\ KernelAt(ip, core) /\ Instruction = start_multiboot[ip]
      BY <2>1, <2>3, ProgramLengths DEF ModeOk, Instruction
    <3>2. core' = Stepped(core, start_multiboot[ip]) /\ ip' = ip + 1 /\ KernelAt(ip + 1, Stepped(core, start_multiboot[ip]))
      BY <2>1, <3>1, KernelCodeSteps
    <3>3. ip + 1 \in 1 .. 9
      BY <3>1
    <3> QED  BY <2>1, <2>3, <3>2, <3>3 DEF ModeOk
  <2>4. CASE program = "vmm_start"
    <3>1. ip \in 1 .. 8 /\ MonitorAt(ip, core) /\ Instruction = vmm_start[ip]
      BY <2>1, <2>4, ProgramLengths DEF ModeOk, Instruction
    <3>2. core' = Stepped(core, vmm_start[ip]) /\ ip' = ip + 1 /\ MonitorAt(ip + 1, Stepped(core, vmm_start[ip]))
      BY <2>1, <3>1, MonitorCodeSteps
    <3>3. ip + 1 \in 1 .. 9
      BY <3>1
    <3> QED  BY <2>1, <2>4, <3>2, <3>3 DEF ModeOk
  <2> QED  BY <2>2, <2>3, <2>4 DEF ModeOk
<1>2. CASE Spin
  <2>1. core' = core /\ program' = program /\ ip' = ip
    BY <1>2, Zenon DEF Spin, modeVars
  <2> QED  BY <2>1 DEF ModeOk
<1>3. CASE CallStartMultiboot
  <2>1. program = "start16" /\ ip > 12 /\ program' = "start_multiboot" /\ ip' = 1 /\ core' = core
    BY <1>3, ProgramLengths DEF CallStartMultiboot
  <2>2. ip = 13 /\ FirmwareAt(13, core)
    BY <2>1 DEF ModeOk
  <2>3. KernelAt(1, core)
    BY <2>2 DEF FirmwareAt, KernelAt
  <2> QED  BY <2>1, <2>3 DEF ModeOk
<1> QED  BY <1>1, <1>2, <1>3 DEF ModeNext

\* The core the invariant describes is the one the property asks for.
LEMMA ModeIsRight ==
  ASSUME ModeOk
  PROVE  ModeSwitchesSucceed
<1>1. SwitchNeverFaults
  BY DEF ModeOk, SwitchNeverFaults
<1>2. KernelEntryState
  <2> SUFFICES ASSUME program = "start_multiboot", ip = 8
               PROVE  /\ "PE" \in core.cr0 /\ "PG" \notin core.cr0 /\ Bits(core) = 32 /\ core.efer = {}
                      /\ "PAE" \notin core.cr4
                      /\ Selected(core, core.csSel) = core.cs /\ Selected(core, core.dataSel) = core.data
    BY ProgramLengths DEF KernelEntryState
  <2>1. KernelAt(8, core)
    BY DEF ModeOk
  <2>2. /\ core.gdt = "gdt32" /\ core.cs = "code32" /\ core.csSel = 8 /\ core.data = "data" /\ core.dataSel = 16
        /\ "PE" \in core.cr0 /\ "PG" \notin core.cr0 /\ core.efer = {} /\ "PAE" \notin core.cr4
    BY <2>1 DEF KernelAt
  <2>3. Bits(core) = 32
    BY <2>2 DEF Bits
  <2>4. Selected(core, 8) = "code32" /\ Selected(core, 16) = "data"
    BY <2>2 DEF Selected, Gdts
  <2> QED  BY <2>2, <2>3, <2>4
<1>3. BootTablesMap
  <2> SUFFICES ASSUME program = "vmm_start", ip > 2,
                      NEW a \in 0 .. PTRS - 1, NEW b \in 0 .. PTRS - 1, NEW c \in 0 .. PTRS - 1
               PROVE  Walk(core.cr3, a, b, c) = IF a \in {0, EntryIndex} /\ b < LowTables THEN b * PTRS + c ELSE -1
    BY Zenon DEF BootTablesMap
  <2>1. core.cr3 = "kpml4"
    BY DEF ModeOk, MonitorAt
  <2> QED  BY <2>1, MonitorMaps, Zenon
<1> QED  BY <1>1, <1>2, <1>3 DEF ModeSwitchesSucceed

\* The invariant of the mode switches.
THEOREM ModeInvariant == Spec => []ModeInv
<1>1. Init => ModeInv
  BY ModeStarts, Zenon DEF Init, ModeInv
<1>2. ModeInv /\ [Next]_vars => ModeInv'
  <2> SUFFICES ASSUME ModeInv, [Next]_vars, part' = "mode" PROVE ModeOk'
    BY Zenon DEF ModeInv
  <2>1. part = "mode"
    BY DEF Next, Mode, Cpu, Clock, Pic, Vmx, Guest, vars
  <2>2. ModeOk
    BY <2>1 DEF ModeInv
  <2>3. CASE Mode
    BY <2>2, <2>3, ModeSteps DEF Mode
  <2>4. CASE ~Mode
    <3>1. UNCHANGED modeVars
      BY <2>4, Zenon DEF Next, Cpu, Clock, Pic, Vmx, Guest, vars
    <3> QED  BY <2>2, <3>1 DEF ModeOk, modeVars
  <2> QED  BY <2>3, <2>4
<1> QED  BY <1>1, <1>2, PTL DEF Spec

\* The three mode switches of the two head.S get where they are meant to, and the monitor's
\* tables map the low memory and its alias, for every size of the tables and every place of the
\* alias (firmware/head.S:33-141, vmm/head.S:32-128).
THEOREM ModeSwitchesAlwaysSucceed == Spec => []ModeSwitchesSucceed
<1>1. ModeInv /\ ModeOff => ModeSwitchesSucceed
  <2>1. ASSUME ModeInv, part = "mode" PROVE ModeSwitchesSucceed
    BY <2>1, ModeIsRight DEF ModeInv
  <2>2. ASSUME ModeOff, part # "mode" PROVE ModeSwitchesSucceed
    <3>1. program = "" /\ ip = -1
      BY <2>2, Zenon DEF ModeOff
    <3>2. SwitchNeverFaults
      <4>1. ip = -1
        BY <3>1, Zenon
      <4> QED  BY <4>1 DEF SwitchNeverFaults
    <3>3. program # "start_multiboot" /\ program # "vmm_start"
      BY <3>1, Zenon
    <3> QED  BY <3>2, <3>3, Zenon DEF ModeSwitchesSucceed, KernelEntryState, BootTablesMap
  <2> QED  BY <2>1, <2>2
<1>2. Init => ModeOff
  BY Zenon DEF Init, ModeIdle, ModeOff
<1>3. ModeOff /\ [Next]_vars => ModeOff'
  BY DEF ModeOff, Next, Mode, Cpu, Clock, Pic, Vmx, Guest, vars, modeVars
<1> QED  BY <1>1, <1>2, <1>3, ModeInvariant, PTL DEF Spec
=============================================================================
