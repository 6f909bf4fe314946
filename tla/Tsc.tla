-------------------------------- MODULE Tsc --------------------------------
(***************************************************************************)
(* kernel/tsc.c: the TSC is calibrated against channel 2 of the PIT, and   *)
(* delays are measured with it.  Time is counted in TSC cycles; an access  *)
(* to an I/O port takes IoCycles, and now and then the processor is away   *)
(* (an SMI, or the hypervisor under this one).                             *)
(***************************************************************************)
EXTENDS Integers, Sequences

CONSTANTS
  MsbCycles,       \* bound: cycles in which the PIT's high byte keeps its value (256 ticks)
  MsbValues,       \* bound: values of the high byte (256)
  IoCycles,        \* cycles of an access to the PIT
  Absences,        \* bound: cycles the processor may be away
  MaxAbsences,     \* bound: times it is
  MaxReads,        \* bound: reads after which the PIT is taken for stuck (50000)
  MaxIterations,   \* bound: MAX_QUICK_PIT_ITERATIONS
  ErrorScale,      \* bound: an error of 1 in ErrorScale is accepted (2^11: the code shifts by 11)
  UintWrap,        \* bound: values of unsigned int (2^32)
  CrystalLeaves,   \* bound: what CPUID leaf 0x15 returns
  MaxTime          \* bound: longest calibration

ASSUME TscConstants ==
  /\ {MsbCycles, MsbValues, IoCycles, MaxAbsences, MaxReads, MaxIterations, ErrorScale, UintWrap, MaxTime}
       \subseteq Nat \ {0}
  /\ Absences \subseteq Nat
  \* All absences together are shorter than one round of the counter:
  \* otherwise it could come back to the value expected unnoticed.
  /\ \A a \in Absences \cup {0} : MaxAbsences * a + 4 * IoCycles < (MsbValues - 1) * MsbCycles
  \* A counter that counts leaves its value before the reads are used up.
  /\ MaxReads * IoCycles >= MsbCycles

VARIABLES
  calibrating,  \* place in tsc_init
  machine,      \* leaf 0x15, the CPU's vendor, level and model; is the PIT stuck
  now,          \* the TSC
  away,         \* absences so far
  pit,          \* when the PIT was started
  loop,         \* i, count, tsc and prev_tsc of pit_expect_msb; tsc and d1 of its caller
  tsc_khz,      \* 0, "native", "pit" or "assumed", with its value
  verified      \* what quick_pit_calibrate accepted: delta and i

tscVars == <<calibrating, machine, now, away, pit, loop, tsc_khz, verified>>

TscInit ==
  /\ calibrating = "native"
  /\ \E leaf \in CrystalLeaves, vendor \in {"Intel", "AMD"}, level \in {20, 21}, model \in {94, 85, 92, 1},
        stuck \in BOOLEAN :
       machine = [leaf |-> leaf, vendor |-> vendor, level |-> level, model |-> model, stuck |-> stuck]
  /\ now = 1 /\ away = 0 /\ pit = 0
  /\ loop = [i |-> 0, count |-> 0, tsc |-> 0, prev |-> 0, tsc1 |-> 0, d1 |-> 0]
  /\ tsc_khz = [by |-> "", khz |-> 0]
  /\ verified = [i |-> 0, delta |-> 0]

-----------------------------------------------------------------------------
\* INTEL_FAM6_*: models whose crystal the leaf does not tell.
CrystalOfModel(model) ==
  CASE model \in {78, 94, 142, 158} -> 24000
    [] model \in {85, 95} -> 25000
    [] model = 92 -> 19200
    [] OTHER -> 0

native_calibrate_tsc(m) ==
  LET crystal_khz == IF m.leaf.hz \div 1000 # 0 THEN m.leaf.hz \div 1000 ELSE CrystalOfModel(m.model)
  IN  IF m.vendor # "Intel" \/ m.level < 21 \/ m.leaf.num = 0 \/ m.leaf.den = 0 THEN 0
      ELSE ((crystal_khz * m.leaf.num) % UintWrap) \div m.leaf.den

Calibrated(by, khz) == tsc_khz' = [by |-> by, khz |-> khz]

NativeCalibrate ==
  /\ calibrating = "native"
  /\ IF native_calibrate_tsc(machine) # 0
     THEN Calibrated("native", native_calibrate_tsc(machine)) /\ calibrating' = "done"
     ELSE calibrating' = "start" /\ UNCHANGED tsc_khz
  /\ UNCHANGED <<machine, now, away, pit, loop, verified>>

\* The high byte of the counter at time t.
Msb(t) == IF machine.stuck THEN MsbValues - 1
          ELSE (MsbValues - 1 - ((t - pit) \div MsbCycles)) % MsbValues

\* Gate, mode 0, 0xffff; pit_verify_msb(0) lets the counter start.
StartPit ==
  /\ calibrating = "start"
  /\ pit' = now
  /\ now' = now + IoCycles
  /\ calibrating' = "expect"
  /\ UNCHANGED <<machine, away, loop, tsc_khz, verified>>

\* The processor is away for d cycles, 0 if it is not.
Absent(d) == IF d = 0 THEN UNCHANGED away ELSE away < MaxAbsences /\ away' = away + 1
Away == Absences \cup {0}

\* The value pit_expect_msb waits to leave: 0xff - i, in eight bits.
Expected == (MsbValues - 1 - loop.i) % MsbValues

\* One turn of the loop of pit_expect_msb: away before the read, or between it and rdtsc.
pit_verify_msb ==
  /\ calibrating = "expect" /\ loop.count < MaxReads /\ now < MaxTime
  /\ \E before \in Away, after \in Away :
       /\ before = 0 \/ after = 0
       /\ Absent(before + after)
       /\ IF Msb(now + before + IoCycles) = Expected
          THEN /\ now' = now + before + IoCycles + after
               /\ loop' = [loop EXCEPT !.count = @ + 1, !.prev = loop.tsc, !.tsc = now']
               /\ UNCHANGED calibrating
          ELSE /\ now' = now + before + IoCycles
               /\ calibrating' = "seen"
               /\ UNCHANGED loop
  /\ UNCHANGED <<machine, pit, tsc_khz, verified>>

\* Mutant of ReadsExhausted: a PIT that does not count is waited for again.
ReadsExhausted_Retry ==
  /\ calibrating = "expect" /\ loop.count = MaxReads
  /\ loop' = [loop EXCEPT !.count = 0]
  /\ UNCHANGED <<calibrating, machine, now, away, pit, tsc_khz, verified>>

ReadsExhausted ==
  /\ calibrating = "expect" /\ loop.count = MaxReads
  /\ calibrating' = "seen"
  /\ UNCHANGED <<machine, now, away, pit, loop, tsc_khz, verified>>

Fail == calibrating' = "assume" /\ UNCHANGED <<loop, tsc_khz, verified>>

NextValue(l) == [l EXCEPT !.i = @ + 1, !.count = 0, !.tsc = 0, !.prev = 0]

\* pit_verify_msb(0xfe - i) after the error has become small.
Confirm(at) == Msb(at) = (MsbValues - 2 - loop.i) % MsbValues

\* pit_expect_msb returns count > 1.
Seen == loop.count > 1

\* Mutant of Error: only the last transition counts.
Error_LastOnly(dev) == dev

\* d1 + d2: the uncertainty of the first transition seen and of this one.
Error(dev) == loop.d1 + dev

\* pit_expect_msb returns to quick_pit_calibrate: d is now - prev_tsc.
quick_pit_calibrate ==
  /\ calibrating = "seen"
  /\ \E d \in Away :
       /\ Absent(d) /\ now' = now + d
       /\ LET dev == now' - loop.prev
              delta == loop.tsc - loop.tsc1
              error == Error(dev)
          IN \/ ~Seen /\ Fail
             \/ /\ Seen /\ loop.i = 0
                /\ loop' = [NextValue(loop) EXCEPT !.tsc1 = loop.tsc, !.d1 = dev]
                /\ calibrating' = "expect" /\ UNCHANGED <<tsc_khz, verified>>
             \/ /\ Seen /\ loop.i = 1 /\ error >= (delta * MaxIterations) \div ErrorScale
                /\ Fail
             \/ /\ Seen /\ loop.i > 0
                /\ loop.i = 1 => error < (delta * MaxIterations) \div ErrorScale
                /\ error >= delta \div ErrorScale
                /\ IF loop.i < MaxIterations
                   THEN /\ loop' = NextValue(loop)
                        /\ calibrating' = "expect" /\ UNCHANGED <<tsc_khz, verified>>
                   ELSE Fail
             \/ /\ Seen /\ loop.i > 0
                /\ loop.i = 1 => error < (delta * MaxIterations) \div ErrorScale
                /\ error < delta \div ErrorScale
                /\ IF Confirm(now' + IoCycles)
                   THEN /\ verified' = [i |-> loop.i, delta |-> delta]
                        /\ Calibrated("pit", delta \div loop.i)
                        /\ calibrating' = "done" /\ UNCHANGED loop
                   ELSE Fail
  /\ UNCHANGED <<machine, pit>>

\* 2 GHz if nothing else is known; also if the PIT's answer rounds to 0.
AssumeTsc ==
  /\ calibrating = "assume"
  /\ Calibrated("assumed", 2000000)
  /\ calibrating' = "done"
  /\ UNCHANGED <<machine, now, away, pit, loop, verified>>

tsc_init ==
  \/ NativeCalibrate \/ StartPit \/ pit_verify_msb \/ ReadsExhausted \/ quick_pit_calibrate
  \/ AssumeTsc

-----------------------------------------------------------------------------
\* A frequency measured with the PIT is right within the error the code
\* accepts, even if the PIT is stuck or the processor was away at any moments,
\* for less than one round of the counter altogether (tsc.c:195-203: "the
\* error has shrunk to less than 500 ppm").
CalibrationIsAccurate ==
  tsc_khz.by = "pit" =>
    LET true == verified.i * MsbCycles
        off == IF verified.delta > true THEN verified.delta - true ELSE true - verified.delta
    IN  off * ErrorScale <= verified.delta

\* Calibration ends, also with a stuck PIT (tsc.c:75-78), and leaves a
\* frequency uptime can divide by.
CalibrationEnds == <>(calibrating = "done" /\ tsc_khz.khz > 0)
=============================================================================
