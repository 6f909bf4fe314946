----------------------------- MODULE E820Proofs -----------------------------
(***************************************************************************)
(* Proofs about E820, for every size of the address space and of the       *)
(* table, every list of regions and every place of the monitor's image.    *)
(***************************************************************************)
EXTENDS E820, TLAPS, WellFoundedInduction

-----------------------------------------------------------------------------
(* The highest type of a set of entries. *)

\* A set of naturals has a least element.
LEMMA LeastElement ==
  ASSUME NEW T \in SUBSET Nat, T # {}
  PROVE  \E x \in T : \A y \in T : x <= y
  <1> DEFINE less == {ss \in Nat \X Nat : ss[1] < ss[2]}
  <1>1. IsWellFoundedOn(less, Nat)
    BY NatLessThanWellFounded, Zenon DEF OpToRel
  <1> HIDE DEF less
  <1>2. PICK x \in T : \A y \in T : ~(<<y, x>> \in less)
    BY <1>1, WFMin
  <1>3. \A y \in T : ~(y < x)
    BY <1>2 DEF less
  <1> QED BY <1>3

\* A finite list of naturals is bounded.
LEMMA ListIsBounded ==
  ASSUME NEW n \in Nat, NEW f \in [1 .. n -> Nat]
  PROVE  \E b \in Nat : \A k \in 1 .. n : f[k] <= b
  <1> DEFINE Bounded(m) == \E b \in Nat : \A k \in 1 .. m : f[k] <= b
             T == {m \in 0 .. n : ~Bounded(m)}
  <1> SUFFICES ASSUME T # {} PROVE FALSE
    <2>1. n \notin T => Bounded(n)
      OBVIOUS
    <2> QED BY <2>1
  <1>1. PICK m \in T : \A y \in T : m <= y
    <2>1. T \in SUBSET Nat
      OBVIOUS
    <2> HIDE DEF T
    <2> QED BY <2>1, LeastElement
  <1>2. m # 0
    <2>1. \A k \in 1 .. 0 : f[k] <= 0
      OBVIOUS
    <2> QED BY <2>1
  <1>3. m - 1 \notin T /\ m - 1 \in 0 .. n /\ m \in 1 .. n
    <2>1. m \in 1 .. n
      BY <1>2
    <2>2. m - 1 < m
      BY <2>1
    <2> HIDE DEF T
    <2> QED BY <1>1, <2>1, <2>2
  <1>4. PICK b \in Nat : \A k \in 1 .. (m - 1) : f[k] <= b
    BY <1>3
  <1>5. ~(\E c \in Nat : \A k \in 1 .. m : f[k] <= c)
    OBVIOUS
  <1> HIDE DEF T
  <1>6. \A k \in 1 .. n : f[k] \in Nat
    OBVIOUS
  <1>7. PICK v \in Nat : v = f[m]
    BY <1>3, <1>6
  <1>8. \A k \in 1 .. m : f[k] <= b + v
    <2> TAKE k \in 1 .. m
    <2>1. k \in 1 .. n
      BY <1>3
    <2>2. k = m \/ k \in 1 .. (m - 1)
      BY <1>3
    <2> QED BY <1>4, <1>6, <1>7, <2>1, <2>2
  <1>9. PICK c \in Nat : c = b + v
    OBVIOUS
  <1>10. \A k \in 1 .. m : f[k] <= c
    BY <1>8, <1>9
  <1> QED BY <1>5, <1>10

\* Max of a bounded set of naturals that is not empty.
LEMMA MaxFacts ==
  ASSUME NEW S \in SUBSET Nat, S # {}, NEW b \in Nat, \A x \in S : x <= b
  PROVE  Max(S) \in S /\ \A x \in S : x <= Max(S)
  <1> DEFINE T == {b - x : x \in S}
  <1>1. T \in SUBSET Nat /\ T # {}
    <2>1. \A x \in S : b - x \in Nat
      OBVIOUS
    <2>2. PICK x \in S : TRUE
      OBVIOUS
    <2>3. b - x \in T
      OBVIOUS
    <2>4. \A t \in T : t \in Nat
      BY <2>1
    <2> QED BY <2>3, <2>4
  <1>2. PICK t \in T : \A y \in T : t <= y
    <2> HIDE DEF T
    <2> QED BY <1>1, LeastElement
  <1>3. PICK m \in S : t = b - m
    OBVIOUS
  <1>4. \A x \in S : m >= x
    <2> TAKE x \in S
    <2>1. b - x \in T
      OBVIOUS
    <2>2. b - m <= b - x
      BY <1>2, <1>3, <2>1
    <2> QED BY <1>3, <2>2
  <1>5. Max(S) \in S /\ \A x \in S : Max(S) >= x
    BY <1>3, <1>4 DEF Max
  <1> QED BY <1>5

\* Max and Min of two.
LEMMA MaxMinOfTwo ==
  ASSUME NEW x \in Nat, NEW y \in Nat
  PROVE  /\ Max({x, y}) = IF x >= y THEN x ELSE y
         /\ Min({x, y}) = IF x <= y THEN x ELSE y
  <1>1. Max({x, y}) = IF x >= y THEN x ELSE y
    <2>1. \E m \in {x, y} : \A z \in {x, y} : m >= z
      OBVIOUS
    <2>2. Max({x, y}) \in {x, y} /\ \A z \in {x, y} : Max({x, y}) >= z
      BY <2>1 DEF Max
    <2> QED BY <2>2
  <1>2. Min({x, y}) = IF x <= y THEN x ELSE y
    <2>1. \E m \in {x, y} : \A z \in {x, y} : m <= z
      OBVIOUS
    <2>2. Min({x, y}) \in {x, y} /\ \A z \in {x, y} : Min({x, y}) <= z
      BY <2>1 DEF Min
    <2> QED BY <2>2
  <1> QED BY <1>1, <1>2

\* The highest type of the entries S of tab, 0 if there are none.
Highest(tab, S) == Max({0} \cup {tab[k].type : k \in S})

LEMMA HighestFacts ==
  ASSUME NEW tab \in Seq(Entries), NEW S \in SUBSET DOMAIN tab
  PROVE  /\ Highest(tab, S) \in Nat
         /\ \A k \in S : tab[k].type <= Highest(tab, S)
         /\ Highest(tab, S) # 0 => \E k \in S : tab[k].type = Highest(tab, S)
  <1> DEFINE f == [k \in 1 .. Len(tab) |-> tab[k].type]
             H == {0} \cup {tab[k].type : k \in S}
  <1>1. Len(tab) \in Nat /\ DOMAIN tab = 1 .. Len(tab) /\ \A k \in DOMAIN tab : tab[k].type \in Nat
    <2>1. Len(tab) \in Nat /\ DOMAIN tab = 1 .. Len(tab) /\ \A k \in DOMAIN tab : tab[k] \in Entries
      OBVIOUS
    <2> QED BY <2>1 DEF Entries
  <1>2. f \in [1 .. Len(tab) -> Nat]
    BY <1>1
  <1>3. PICK b \in Nat : \A k \in 1 .. Len(tab) : f[k] <= b
    <2> HIDE DEF f
    <2> QED BY <1>1, <1>2, ListIsBounded
  <1>4. H \in SUBSET Nat /\ H # {} /\ \A x \in H : x <= b
    BY <1>1, <1>3
  <1>5. Max(H) \in H /\ \A x \in H : x <= Max(H)
    <2> HIDE DEF H
    <2> QED BY <1>4, MaxFacts
  <1>6. Highest(tab, S) = Max(H)
    BY DEF Highest
  <1>7. \A k \in S : tab[k].type \in H
    OBVIOUS
  <1>8. Highest(tab, S) \in H /\ \A x \in H : x <= Highest(tab, S)
    BY <1>5, <1>6
  <1> QED BY <1>4, <1>7, <1>8

\* It is the only number with these properties.
LEMMA HighestIs ==
  ASSUME NEW tab \in Seq(Entries), NEW S \in SUBSET DOMAIN tab, NEW t \in Nat,
         \A k \in S : tab[k].type <= t,
         t # 0 => \E k \in S : tab[k].type = t
  PROVE  Highest(tab, S) = t
  BY HighestFacts

\* More entries have a higher type, and only a new one can raise it.
LEMMA HighestGrows ==
  ASSUME NEW tab \in Seq(Entries), NEW S \in SUBSET DOMAIN tab, NEW R \in SUBSET S
  PROVE  Highest(tab, R) <= Highest(tab, S)
  <1>1. R \in SUBSET DOMAIN tab
    OBVIOUS
  <1>2. CASE Highest(tab, R) = 0
    BY <1>2, HighestFacts
  <1>3. CASE Highest(tab, R) # 0
    <2>1. PICK k \in R : tab[k].type = Highest(tab, R)
      BY <1>1, <1>3, HighestFacts
    <2> QED BY <2>1, HighestFacts
  <1> QED BY <1>2, <1>3

-----------------------------------------------------------------------------
(* The sweep of __e820_update_table. *)

\* Where an entry ends, if it does not wrap.
EndOf(e) == e.addr + e.size

\* Where the start or the end of entry k of the loader's table is.
PlaceOf(k, end) == IF end THEN EndOf(accepted[k]) ELSE accepted[k].addr
PointOf(k, end) == [addr |-> PlaceOf(k, end), entry |-> k, end |-> end]

NonEmpty == {k \in DOMAIN accepted : accepted[k].size # 0}

\* Point <<k, e>> comes before point <<j, f>> (cpcompare).
Before(k, e, j, f) ==
  PlaceOf(k, e) < PlaceOf(j, f) \/ (PlaceOf(k, e) = PlaceOf(j, f) /\ ~e /\ f)

\* The points are those of the table, and the ones gone come before the ones left.
PointsInv ==
  /\ \A p \in points : \E k \in NonEmpty, e \in BOOLEAN : p = PointOf(k, e)
  /\ ~Full => \A k \in NonEmpty, j \in NonEmpty, e \in BOOLEAN, f \in BOOLEAN :
                PointOf(k, e) \in points /\ PointOf(j, f) \notin points => ~Before(k, e, j, f)

\* overlap_list holds the entries that have begun and not ended; the type kept is theirs.
OverlapInv ==
  ~Full => /\ overlap = {k \in NonEmpty : PointOf(k, FALSE) \notin points /\ PointOf(k, TRUE) \in points}
           /\ last.type = Highest(accepted, overlap)

\* Nothing written so far reaches beyond the sweep point.
BehindInv ==
  ~Full => /\ \A p \in points : last.addr <= p.addr
           /\ \A k \in DOMAIN out : /\ last.type # 0 => EndOf(out[k]) <= last.addr
                                    /\ \A p \in points : EndOf(out[k]) <= p.addr

\* The entry in progress and the last one written: if they touch, their types differ, and
\* will when the sweep has left last.addr.
TouchInv ==
  ~Full /\ out # <<>> =>
    LET o == out[Len(out)]
    IN  /\ last.type # 0 /\ EndOf(o) = last.addr =>
             /\ last.type # o.type
             /\ \/ \A p \in points : p.addr > last.addr
                \/ \E k \in overlap : accepted[k].addr = last.addr /\ accepted[k].type > o.type
                \/ last.type < o.type /\ \A p \in points : p.end \/ p.addr > last.addr
        /\ last.type = 0 => \A p \in points : p.end \/ p.addr > EndOf(o)

\* What the sweep says of an address it has left.
Swept(a) == IF last.type # 0 /\ a >= last.addr THEN last.type ELSE TypeAt(out, a)

SweptInv ==
  ~Full => \A a \in 0 .. (M - 1) :
             (\A p \in points : p.addr > a) => TypeAt(accepted, a) = Swept(a)

\* No entry of a table wraps.
NoWrap(tab) == \A k \in DOMAIN tab : EndOf(tab[k]) < M

\* A table is sorted, its entries are not empty, and only entries of different types touch.
Disjoint(tab) ==
  /\ \A k \in DOMAIN tab : tab[k].size > 0
  /\ \A k \in 1 .. (Len(tab) - 1) :
       \/ EndOf(tab[k]) < tab[k + 1].addr
       \/ EndOf(tab[k]) = tab[k + 1].addr /\ tab[k].type # tab[k + 1].type

\* Such a table, in which each entry is true of all its addresses.
TrueMap(tab) ==
  /\ tab \in Seq(Entries) /\ NoWrap(tab) /\ Disjoint(tab)
  /\ \A k \in DOMAIN tab : tab[k].type # 0
  /\ \A k \in DOMAIN tab, a \in 0 .. (M - 1) : Covers(tab[k], a) => TypeAt(accepted, a) = tab[k].type

SweepInv ==
  phase = "sweep" =>
    /\ entries = accepted /\ NoWrap(accepted) /\ i = 1 /\ start = VmmStart /\ accepted # <<>>
    /\ \A k \in DOMAIN accepted : accepted[k].type # 0
    /\ Full => points = {}
    /\ PointsInv /\ OverlapInv /\ BehindInv /\ TouchInv /\ SweptInv

\* Before the sweep.
AddInv ==
  /\ phase = "add" => /\ accepted = <<>> /\ points = {} /\ overlap = {} /\ out = <<>>
                      /\ last = [type |-> 0, addr |-> 0] /\ i = 1 /\ start = VmmStart
                      /\ \A k \in DOMAIN entries : entries[k].type # 0
  /\ phase = "panic" /\ accepted = <<>> => out = <<>>

\* TypeAt and CurrentType are highest types.
LEMMA TypeAtIsHighest ==
  ASSUME NEW tab, NEW a
  PROVE  TypeAt(tab, a) = Highest(tab, {k \in DOMAIN tab : Covers(tab[k], a)})
  BY DEF TypeAt, Highest

\* The type at an address of which entry k is the only one.
LEMMA TypeAtOnly ==
  ASSUME NEW tab \in Seq(Entries), NEW a, NEW k \in DOMAIN tab, Covers(tab[k], a),
         \A j \in DOMAIN tab : Covers(tab[j], a) => tab[j].type = tab[k].type
  PROVE  TypeAt(tab, a) = tab[k].type
  <1> DEFINE S == {j \in DOMAIN tab : Covers(tab[j], a)}
  <1>1. S \in SUBSET DOMAIN tab /\ k \in S
    OBVIOUS
  <1>2. tab[k] \in Entries
    OBVIOUS
  <1>3. tab[k].type \in Nat /\ \A j \in S : tab[j].type <= tab[k].type
    BY <1>2 DEF Entries
  <1> HIDE DEF S
  <1>4. Highest(tab, S) = tab[k].type
    BY <1>1, <1>3, HighestIs
  <1> QED BY <1>4, TypeAtIsHighest DEF S

\* The type at an address no entry contains.
LEMMA TypeAtNone ==
  ASSUME NEW tab \in Seq(Entries), NEW a, \A j \in DOMAIN tab : ~Covers(tab[j], a)
  PROVE  TypeAt(tab, a) = 0
  <1> DEFINE S == {j \in DOMAIN tab : Covers(tab[j], a)}
  <1>1. S = {}
    OBVIOUS
  <1>2. Highest(tab, {}) = 0
    BY HighestIs
  <1> QED BY <1>1, <1>2, TypeAtIsHighest

\* Tables that agree on what contains a give it the same type.
LEMMA TypeAtFacts ==
  ASSUME NEW tab \in Seq(Entries), NEW a
  PROVE  /\ TypeAt(tab, a) \in Nat
         /\ TypeAt(tab, a) # 0 => \E k \in DOMAIN tab : Covers(tab[k], a) /\ tab[k].type = TypeAt(tab, a)
         /\ \A k \in DOMAIN tab : Covers(tab[k], a) => tab[k].type <= TypeAt(tab, a)
  <1> DEFINE S == {j \in DOMAIN tab : Covers(tab[j], a)}
  <1>1. S \in SUBSET DOMAIN tab
    OBVIOUS
  <1>2. TypeAt(tab, a) = Highest(tab, S)
    BY TypeAtIsHighest
  <1>3. /\ Highest(tab, S) \in Nat
        /\ \A k \in S : tab[k].type <= Highest(tab, S)
        /\ Highest(tab, S) # 0 => \E k \in S : tab[k].type = Highest(tab, S)
    <2> HIDE DEF S
    <2> QED BY <1>1, HighestFacts
  <1> QED BY <1>2, <1>3

\* An entry's fields.
LEMMA EntryFacts ==
  ASSUME NEW tab \in Seq(Entries)
  PROVE  /\ Len(tab) \in Nat /\ DOMAIN tab = 1 .. Len(tab)
         /\ \A k \in DOMAIN tab : /\ tab[k] \in Entries /\ tab[k].addr \in 0 .. (M - 1)
                                  /\ tab[k].size \in 0 .. (M - 1) /\ tab[k].type \in Nat
                                  /\ tab[k].addr \in Nat /\ tab[k].size \in Nat /\ EndOf(tab[k]) \in Nat
                                  /\ EndOf(tab[k]) = tab[k].addr + tab[k].size
  <1>1. Len(tab) \in Nat /\ DOMAIN tab = 1 .. Len(tab) /\ \A k \in DOMAIN tab : tab[k] \in Entries
    OBVIOUS
  <1>2. ASSUME NEW e \in Entries
        PROVE  /\ e.addr \in 0 .. (M - 1) /\ e.size \in 0 .. (M - 1) /\ e.type \in Nat
               /\ e.addr \in Nat /\ e.size \in Nat /\ EndOf(e) \in Nat /\ EndOf(e) = e.addr + e.size
    BY E820Constants DEF Entries, EndOf
  <1> QED BY <1>1, <1>2

\* What a point of the sweep is.
LEMMA PointFacts ==
  ASSUME TypeOK, SweepInv, phase = "sweep", NEW p \in points
  PROVE  /\ ~Full /\ Len(out) < MaxEntries
         /\ p.entry \in NonEmpty /\ p.end \in BOOLEAN
         /\ p = PointOf(p.entry, p.end) /\ p.addr = PlaceOf(p.entry, p.end)
         /\ p.addr \in 0 .. (M - 1) /\ p.addr \in Nat
  <1>1. ~Full
    BY DEF SweepInv
  <1>2. PICK k \in NonEmpty, e \in BOOLEAN : p = PointOf(k, e)
    BY DEF SweepInv, PointsInv
  <1>3. p.entry = k /\ p.end = e /\ p.addr = PlaceOf(k, e)
    BY <1>2 DEF PointOf
  <1>4. /\ accepted \in Seq(Entries) /\ k \in DOMAIN accepted /\ EndOf(accepted[k]) < M
        /\ Len(out) <= MaxEntries /\ out \in Seq(Entries) /\ MaxEntries \in Nat
    BY E820Constants DEF TypeOK, SweepInv, NoWrap, NonEmpty
  <1>5. p.addr \in 0 .. (M - 1) /\ M \in Nat
    BY <1>3, <1>4, EntryFacts, E820Constants DEF PlaceOf
  <1>6. Len(out) < MaxEntries
    BY <1>1, <1>4, EntryFacts DEF Full
  <1>7. p.addr \in Nat
    BY <1>5
  <1> QED BY <1>1, <1>2, <1>3, <1>5, <1>6, <1>7

\* The accepted entries that have a point.
LEMMA NonEmptyFacts ==
  ASSUME TypeOK, SweepInv, phase = "sweep", NEW k \in NonEmpty
  PROVE  /\ k \in DOMAIN accepted /\ accepted[k].type \in Nat \ {0}
         /\ PlaceOf(k, FALSE) \in Nat /\ PlaceOf(k, TRUE) \in Nat
         /\ PlaceOf(k, FALSE) < PlaceOf(k, TRUE)
         /\ PlaceOf(k, FALSE) = accepted[k].addr
         /\ \A a \in Nat : Covers(accepted[k], a) <=> PlaceOf(k, FALSE) <= a /\ a < PlaceOf(k, TRUE)
  <1>1. accepted \in Seq(Entries) /\ k \in DOMAIN accepted /\ accepted[k].size # 0 /\ accepted[k].type # 0
    BY DEF TypeOK, SweepInv, NonEmpty
  <1>2. accepted[k].addr \in Nat /\ accepted[k].size \in Nat /\ accepted[k].type \in Nat
    BY <1>1, EntryFacts
  <1> QED BY <1>1, <1>2 DEF PlaceOf, EndOf, Covers

\* The point taken is not after any other one.
LEMMA NextPointFacts ==
  ASSUME TypeOK, SweepInv, phase = "sweep", NEW p \in NextPoints
  PROVE  p \in points /\ \A q \in points : q.addr >= p.addr /\ (q.addr = p.addr /\ p.end => q.end)
  <1>1. p \in points /\ \A q \in points : ~cpcompare(q, p)
    BY DEF NextPoints
  <1>2. ASSUME NEW q \in points PROVE q.addr >= p.addr /\ (q.addr = p.addr /\ p.end => q.end)
    <2>1. q.addr \in Nat /\ p.addr \in Nat /\ q.end \in BOOLEAN /\ p.end \in BOOLEAN
      BY <1>1, PointFacts
    <2>2. ~(q.addr < p.addr \/ (q.addr = p.addr /\ ~q.end /\ p.end))
      BY <1>1 DEF cpcompare
    <2> QED BY <2>1, <2>2
  <1> QED BY <1>1, <1>2

\* overlap_list after point p.
OverlapAfter(p) == IF p.end THEN overlap \ {p.entry} ELSE overlap \cup {p.entry}

\* Points are told apart by their entry and their kind.
LEMMA PointsDiffer ==
  ASSUME NEW k, NEW j, NEW e \in BOOLEAN, NEW f \in BOOLEAN, PointOf(k, e) = PointOf(j, f)
  PROVE  k = j /\ e = f
  <1>1. PointOf(k, e).entry = k /\ PointOf(k, e).end = e /\ PointOf(j, f).entry = j /\ PointOf(j, f).end = f
    BY DEF PointOf
  <1> QED BY <1>1

\* overlap_list stays the list of the entries begun and not ended, and the type follows:
\* a start can only raise it, to its own, and an end only lower it.
LEMMA OverlapFacts ==
  ASSUME TypeOK, SweepInv, phase = "sweep", NEW p \in NextPoints
  PROVE  LET ov == OverlapAfter(p)
             type == Highest(accepted, ov)
         IN  /\ ov \in SUBSET NonEmpty /\ ov \in SUBSET DOMAIN accepted
             /\ ov = {k \in NonEmpty : PointOf(k, FALSE) \notin points \ {p} /\ PointOf(k, TRUE) \in points \ {p}}
             /\ type \in Nat /\ last.type \in Nat
             /\ p.end => type <= last.type
             /\ ~p.end => /\ p.entry \in ov /\ accepted[p.entry].type <= type /\ type # 0 /\ last.type <= type
                          /\ type # last.type => type = accepted[p.entry].type
             /\ CurrentType(ov) = type
             /\ overlap \in SUBSET DOMAIN accepted /\ last.type = Highest(accepted, overlap)
  <1> DEFINE ov == OverlapAfter(p)
             type == Highest(accepted, ov)
             k == p.entry
             e == p.end
  <1>1. /\ p \in points /\ k \in NonEmpty /\ e \in BOOLEAN /\ p = PointOf(k, e) /\ ~Full
    BY NextPointFacts, PointFacts
  <1>2. /\ overlap = {j \in NonEmpty : PointOf(j, FALSE) \notin points /\ PointOf(j, TRUE) \in points}
        /\ last.type = Highest(accepted, overlap)
        /\ accepted \in Seq(Entries) /\ entries = accepted
        /\ NonEmpty \in SUBSET DOMAIN accepted
    BY <1>1 DEF SweepInv, OverlapInv, TypeOK, NonEmpty
  <1>3. \A j \in NonEmpty, f \in BOOLEAN : PointOf(j, f) = p <=> (j = k /\ f = e)
    BY <1>1, PointsDiffer
  <1>4. ASSUME ~e PROVE PointOf(k, TRUE) \in points
    <2> SUFFICES ASSUME PointOf(k, TRUE) \notin points PROVE FALSE
      OBVIOUS
    <2>1. PointOf(k, FALSE) \in points
      BY <1>1, <1>4
    <2>2. ~Before(k, FALSE, k, TRUE)
      BY <1>1, <2>1 DEF SweepInv, PointsInv
    <2>3. PlaceOf(k, FALSE) < PlaceOf(k, TRUE)
      BY <1>1, NonEmptyFacts
    <2> QED BY <2>2, <2>3 DEF Before
  <1>5. ov = {j \in NonEmpty : PointOf(j, FALSE) \notin points \ {p} /\ PointOf(j, TRUE) \in points \ {p}}
    <2>1. CASE e
      <3>1. ov = overlap \ {k}
        BY <2>1 DEF OverlapAfter
      <3>2. \A j \in NonEmpty : /\ PointOf(j, FALSE) # p
                                /\ PointOf(j, TRUE) = p <=> j = k
        BY <1>3, <2>1
      <3> QED BY <1>2, <3>1, <3>2
    <2>2. CASE ~e
      <3>1. ov = overlap \cup {k}
        BY <2>2 DEF OverlapAfter
      <3>2. \A j \in NonEmpty : /\ PointOf(j, TRUE) # p
                                /\ PointOf(j, FALSE) = p <=> j = k
        <4>1. e = FALSE
          BY <1>1, <2>2
        <4> HIDE DEF e, k
        <4> QED BY <1>3, <4>1
      <3> QED BY <1>1, <1>2, <1>4, <2>2, <3>1, <3>2
    <2> QED BY <1>1, <2>1, <2>2
  <1>6. ov \in SUBSET NonEmpty /\ ov \in SUBSET DOMAIN accepted /\ overlap \in SUBSET DOMAIN accepted
    BY <1>2, <1>5
  <1>7. CurrentType(ov) = type
    BY <1>2 DEF CurrentType, Highest
  <1>8. type \in Nat /\ last.type \in Nat
    <2> HIDE DEF ov
    <2> QED BY <1>2, <1>6, HighestFacts
  <1>9. ASSUME e PROVE type <= last.type
    <2>1. ov \in SUBSET overlap
      BY <1>9 DEF OverlapAfter
    <2> HIDE DEF ov
    <2> QED BY <1>2, <1>6, <2>1, HighestGrows
  <1>10. ASSUME ~e
         PROVE  /\ k \in ov /\ accepted[k].type <= type /\ type # 0 /\ last.type <= type
                /\ type # last.type => type = accepted[k].type
    <2>1. ov = overlap \cup {k}
      BY <1>10 DEF OverlapAfter
    <2>2. accepted[k].type \in Nat \ {0}
      BY <1>1, NonEmptyFacts
    <2> HIDE DEF ov
    <2>3. accepted[k].type <= type /\ k \in ov
      BY <1>2, <1>6, <2>1, HighestFacts
    <2>4. last.type <= type
      BY <1>2, <1>6, <2>1, HighestGrows
    <2>5. type # 0
      BY <1>8, <2>2, <2>3
    <2>6. ASSUME type # last.type PROVE type = accepted[k].type
      <3>1. PICK j \in ov : accepted[j].type = type
        BY <1>2, <1>6, <2>5, HighestFacts
      <3>2. j \notin overlap
        <4> SUFFICES ASSUME j \in overlap PROVE FALSE
          OBVIOUS
        <4>1. type <= last.type
          BY <1>2, <1>6, <3>1, HighestFacts
        <4> QED BY <1>8, <2>4, <2>6, <4>1
      <3> QED BY <2>1, <3>1, <3>2
    <2> QED BY <2>3, <2>4, <2>5, <2>6
  <1> QED BY <1>2, <1>5, <1>6, <1>7, <1>8, <1>9, <1>10

\* At an address between p and the points after it, the loader's map has the new type.
LEMMA AddressAfter ==
  ASSUME TypeOK, SweepInv, phase = "sweep", NEW p \in NextPoints, NEW a \in 0 .. (M - 1),
         p.addr <= a, \A q \in points \ {p} : q.addr > a
  PROVE  TypeAt(accepted, a) = Highest(accepted, OverlapAfter(p))
  <1> DEFINE S == {k \in DOMAIN accepted : Covers(accepted[k], a)}
  <1>1. S = OverlapAfter(p)
    <2>0. /\ OverlapAfter(p) =
               {k \in NonEmpty : PointOf(k, FALSE) \notin points \ {p} /\ PointOf(k, TRUE) \in points \ {p}}
          /\ OverlapAfter(p) \in SUBSET NonEmpty
      BY OverlapFacts
    <2>1. a \in Nat /\ accepted \in Seq(Entries)
      BY E820Constants DEF TypeOK
    <2>2. ASSUME NEW k \in S PROVE k \in NonEmpty
      <3>1. accepted[k].addr \in Nat /\ accepted[k].size \in Nat /\ k \in DOMAIN accepted
        BY <2>1, EntryFacts
      <3>2. accepted[k].addr <= a /\ a < accepted[k].addr + accepted[k].size
        BY DEF Covers
      <3> QED BY <2>1, <3>1, <3>2 DEF NonEmpty
    <2>3. ASSUME NEW k \in NonEmpty
          PROVE  k \in S <=> PointOf(k, FALSE) \notin points \ {p} /\ PointOf(k, TRUE) \in points \ {p}
      <3>1. /\ PlaceOf(k, FALSE) \in Nat /\ PlaceOf(k, TRUE) \in Nat
            /\ k \in S <=> PlaceOf(k, FALSE) <= a /\ a < PlaceOf(k, TRUE)
        BY <2>1, NonEmptyFacts
      <3>2. PointOf(k, FALSE) \in points \ {p} => PlaceOf(k, FALSE) > a
        BY DEF PointOf
      <3>3. PointOf(k, TRUE) \in points \ {p} => PlaceOf(k, TRUE) > a
        BY DEF PointOf
      <3>4. ASSUME NEW f \in BOOLEAN, PointOf(k, f) \notin points \ {p} PROVE PlaceOf(k, f) <= a
        <4>1. /\ p \in points /\ p.entry \in NonEmpty /\ p.end \in BOOLEAN /\ ~Full
              /\ p = PointOf(p.entry, p.end) /\ p.addr = PlaceOf(p.entry, p.end) /\ p.addr \in Nat
          BY NextPointFacts, PointFacts
        <4>2. PlaceOf(k, f) \in Nat
          BY <3>1, <3>4
        <4>3. CASE PointOf(k, f) = p
          <5>1. PointOf(k, f).addr = PlaceOf(k, f)
            BY DEF PointOf
          <5> QED BY <4>3, <5>1
        <4>4. CASE PointOf(k, f) \notin points
          <5>1. ~Before(p.entry, p.end, k, f)
            BY <4>1, <4>4 DEF SweepInv, PointsInv
          <5>2. ~(p.addr < PlaceOf(k, f))
            BY <4>1, <5>1 DEF Before
          <5> QED BY <2>1, <4>1, <4>2, <5>2
        <4> QED BY <3>4, <4>3, <4>4
      <3>5. PointOf(k, FALSE) \notin points \ {p} => PlaceOf(k, FALSE) <= a
        BY <3>4
      <3>6. PointOf(k, TRUE) \notin points \ {p} => PlaceOf(k, TRUE) <= a
        BY <3>4
      <3> HIDE DEF S
      <3>7. PlaceOf(k, FALSE) <= a <=> PointOf(k, FALSE) \notin points \ {p}
        <4>1. PICK x \in Nat : x = PlaceOf(k, FALSE)
          BY <3>1
        <4>2. x > a <=> ~(x <= a)
          BY <2>1
        <4> QED BY <3>2, <3>5, <4>1, <4>2
      <3>8. a < PlaceOf(k, TRUE) <=> PointOf(k, TRUE) \in points \ {p}
        <4>1. PICK x \in Nat : x = PlaceOf(k, TRUE)
          BY <3>1
        <4>2. (x > a <=> ~(x <= a)) /\ (a < x <=> x > a)
          BY <2>1
        <4> QED BY <3>3, <3>6, <4>1, <4>2
      <3> QED BY <3>1, <3>7, <3>8
    <2> HIDE DEF S
    <2> QED BY <2>0, <2>2, <2>3
  <1> QED BY <1>1, TypeAtIsHighest

\* An entry that does not contain a changes nothing at a.
LEMMA AppendElsewhere ==
  ASSUME NEW tab \in Seq(Entries), NEW e \in Entries, NEW a, ~Covers(e, a)
  PROVE  TypeAt(Append(tab, e), a) = TypeAt(tab, a)
  <1> DEFINE new == Append(tab, e)
             S == {k \in DOMAIN new : Covers(new[k], a)}
             t == TypeAt(tab, a)
  <1>1. /\ new \in Seq(Entries) /\ DOMAIN new = 1 .. (Len(tab) + 1) /\ DOMAIN tab = 1 .. Len(tab) /\ Len(tab) \in Nat
        /\ new[Len(tab) + 1] = e /\ \A k \in DOMAIN tab : new[k] = tab[k]
    OBVIOUS
  <1> HIDE DEF new
  <1>2. \A k \in S : k \in DOMAIN tab /\ Covers(tab[k], a) /\ new[k] = tab[k]
    <2> TAKE k \in S
    <2>1. k # Len(tab) + 1
      BY <1>1
    <2> QED BY <1>1, <2>1
  <1>3. \A k \in DOMAIN tab : Covers(tab[k], a) => k \in S /\ new[k] = tab[k]
    BY <1>1
  <1>4. /\ t \in Nat
        /\ t # 0 => \E k \in DOMAIN tab : Covers(tab[k], a) /\ tab[k].type = t
        /\ \A k \in DOMAIN tab : Covers(tab[k], a) => tab[k].type <= t
    BY TypeAtFacts
  <1>5. S \in SUBSET DOMAIN new
    OBVIOUS
  <1> HIDE DEF S, t
  <1>6. Highest(new, S) = t
    <2>1. \A k \in S : new[k].type <= t
      BY <1>2, <1>4
    <2>2. t # 0 => \E k \in S : new[k].type = t
      BY <1>3, <1>4
    <2> QED BY <1>1, <1>4, <1>5, <2>1, <2>2, HighestIs
  <1>7. TypeAt(new, a) = Highest(new, S)
    BY TypeAtIsHighest DEF S
  <1> QED BY <1>6, <1>7 DEF new, t

\* The entry that p completes.
NewEntry(p) == Entry(last.addr, p.addr - last.addr, last.type)

\* The new table keeps its properties when the entry that p completes is appended.
LEMMA EmitFacts ==
  ASSUME TypeOK, SweepInv, TrueMap(out), phase = "sweep", NEW p \in NextPoints,
         last.type # 0, p.addr # last.addr
  PROVE  LET e == NewEntry(p)
             new == Append(out, e)
         IN  /\ e \in Entries /\ e.addr = last.addr /\ EndOf(e) = p.addr /\ e.type = last.type /\ last.addr < p.addr
             /\ Len(new) = Len(out) + 1 /\ new[Len(new)] = e /\ new # <<>>
             /\ TrueMap(new)
             /\ \A k \in DOMAIN new : EndOf(new[k]) <= p.addr
             /\ \A a \in 0 .. (M - 1) : /\ a < last.addr => TypeAt(new, a) = TypeAt(out, a)
                                        /\ last.addr <= a /\ a < p.addr => TypeAt(new, a) = last.type
  <1> DEFINE e == NewEntry(p)
             n == Len(out)
             new == Append(out, e)
  <1>1. /\ p \in points /\ ~Full /\ p.addr \in 0 .. (M - 1) /\ p.addr \in Nat
        /\ \A q \in points : q.addr >= p.addr
        /\ \A q \in points : q.addr \in Nat
    BY NextPointFacts, PointFacts
  <1>2. /\ last.addr \in 0 .. (M - 1) /\ last.addr \in Nat /\ last.type \in Nat /\ M \in Nat
        /\ out \in Seq(Entries)
    BY E820Constants DEF TypeOK
  <1>3. last.addr < p.addr /\ \A k \in DOMAIN out : EndOf(out[k]) <= last.addr
    BY <1>1, <1>2 DEF SweepInv, BehindInv
  <1>4. e.addr = last.addr /\ e.size = p.addr - last.addr /\ e.type = last.type
    BY DEF NewEntry, Entry
  <1>5. e \in Entries /\ EndOf(e) = p.addr
    <2>1. p.addr - last.addr \in 0 .. (M - 1) /\ last.addr + (p.addr - last.addr) = p.addr
      BY <1>1, <1>2, <1>3
    <2>2. e \in Entries
      BY <1>2, <2>1 DEF NewEntry, Entry, Entries
    <2> QED BY <1>4, <2>1, <2>2 DEF EndOf
  <1> HIDE DEF e
  <1>6. /\ new \in Seq(Entries) /\ DOMAIN new = 1 .. (n + 1) /\ DOMAIN out = 1 .. n /\ n \in Nat
        /\ new[n + 1] = e /\ \A k \in DOMAIN out : new[k] = out[k]
        /\ Len(new) = n + 1 /\ new # <<>>
    BY <1>2, <1>5
  <1> HIDE DEF new, n
  <1>7. \A k \in DOMAIN new : k = n + 1 \/ (k \in DOMAIN out /\ k # n + 1)
    BY <1>6
  <1>8. \A k \in DOMAIN out : EndOf(out[k]) \in Nat
    BY <1>2, EntryFacts
  <1>9. \A k \in DOMAIN new : EndOf(new[k]) <= p.addr
    BY <1>1, <1>2, <1>3, <1>5, <1>6, <1>7, <1>8
  <1>10. NoWrap(new)
    <2>1. ASSUME NEW k \in DOMAIN new PROVE EndOf(new[k]) < M
      BY <1>1, <1>2, <1>5, <1>6, <1>7 DEF TrueMap, NoWrap
    <2> QED BY <2>1 DEF NoWrap
  <1>11. Disjoint(new)
    <2>1. ASSUME NEW k \in DOMAIN new PROVE new[k].size > 0
      <3>1. e.size > 0
        BY <1>1, <1>2, <1>3, <1>4
      <3> QED BY <1>6, <1>7, <3>1 DEF TrueMap, Disjoint
    <2>2. ASSUME NEW k \in 1 .. n
          PROVE  \/ EndOf(new[k]) < new[k + 1].addr
                 \/ EndOf(new[k]) = new[k + 1].addr /\ new[k].type # new[k + 1].type
      <3>1. CASE k = n
        <4>1. out # <<>> /\ k \in DOMAIN out /\ new[k] = out[k] /\ new[k + 1] = e
          BY <1>2, <1>6, <3>1
        <4>2. EndOf(out[k]) = last.addr => last.type # out[k].type
          BY <1>1, <3>1, <4>1 DEF SweepInv, TouchInv, n
        <4>3. EndOf(out[k]) <= last.addr /\ EndOf(out[k]) \in Nat
          BY <1>3, <1>8, <4>1
        <4> QED BY <1>2, <1>4, <4>1, <4>2, <4>3
      <3>2. CASE k # n
        <4>1. k \in 1 .. (n - 1) /\ k \in DOMAIN out /\ k + 1 \in DOMAIN out
          BY <1>6, <3>2
        <4>2. new[k] = out[k] /\ new[k + 1] = out[k + 1]
          BY <1>6, <4>1
        <4> QED BY <4>1, <4>2 DEF TrueMap, Disjoint, n
      <3> QED BY <3>1, <3>2
    <2>3. Len(new) - 1 = n
      BY <1>6
    <2> QED BY <2>1, <2>2, <2>3 DEF Disjoint
  <1>12. ASSUME NEW a \in 0 .. (M - 1), last.addr <= a, a < p.addr
         PROVE  TypeAt(accepted, a) = last.type
    <2>1. \A q \in points : q.addr > a
      BY <1>1, <1>2, <1>12
    <2> QED BY <1>1, <1>12, <2>1 DEF SweepInv, SweptInv, Swept
  <1>13. ASSUME NEW a \in 0 .. (M - 1) PROVE Covers(e, a) <=> last.addr <= a /\ a < p.addr
    <2>1. e.addr + e.size = p.addr
      BY <1>5 DEF EndOf
    <2> QED BY <1>4, <2>1 DEF Covers
  <1>14. TrueMap(new)
    <2>1. ASSUME NEW k \in DOMAIN new PROVE new[k].type # 0
      BY <1>4, <1>6, <1>7 DEF TrueMap
    <2>2. ASSUME NEW k \in DOMAIN new, NEW a \in 0 .. (M - 1), Covers(new[k], a)
          PROVE  TypeAt(accepted, a) = new[k].type
      <3>1. CASE k = n + 1
        BY <1>4, <1>6, <1>12, <1>13, <2>2, <3>1
      <3>2. CASE k \in DOMAIN out
        BY <1>6, <2>2, <3>2 DEF TrueMap
      <3> QED BY <1>7, <3>1, <3>2
    <2> QED BY <1>6, <1>10, <1>11, <2>1, <2>2 DEF TrueMap
  <1>15. ASSUME NEW a \in 0 .. (M - 1), a < last.addr PROVE TypeAt(new, a) = TypeAt(out, a)
    <2>1. ~Covers(e, a)
      BY <1>2, <1>13, <1>15
    <2> QED BY <1>2, <1>5, <2>1, AppendElsewhere DEF new
  <1>16. ASSUME NEW a \in 0 .. (M - 1), last.addr <= a, a < p.addr PROVE TypeAt(new, a) = last.type
    <2>1. n + 1 \in DOMAIN new /\ Covers(new[n + 1], a) /\ new[n + 1].type = last.type
      BY <1>4, <1>6, <1>13, <1>16
    <2>2. \A j \in DOMAIN new : Covers(new[j], a) => new[j].type = new[n + 1].type
      BY <1>12, <1>14, <1>16, <2>1 DEF TrueMap
    <2> QED BY <1>6, <2>1, <2>2, TypeAtOnly
  <1>17. Len(new) = Len(out) + 1 /\ new[Len(new)] = e
    BY <1>6 DEF n
  <1> QED BY <1>3, <1>4, <1>5, <1>6, <1>9, <1>14, <1>15, <1>16, <1>17 DEF new, e

\* What a step of the sweep does, in the words of the lemmas.
SweepTo(p) ==
  LET type    == Highest(accepted, OverlapAfter(p))
      changed == type # last.type
      emit    == changed /\ last.type # 0 /\ p.addr # last.addr
  IN  /\ overlap' = OverlapAfter(p)
      /\ out' = IF emit THEN Append(out, NewEntry(p)) ELSE out
      /\ Full' => emit /\ points' = {} /\ last' = last
      /\ ~Full' => /\ points' = points \ {p}
                   /\ last' = IF changed THEN [type |-> type, addr |-> IF type # 0 THEN p.addr ELSE last.addr]
                              ELSE last

LEMMA SweepStep ==
  ASSUME TypeOK, SweepInv, TrueMap(out), SweepPoint
  PROVE  /\ phase = "sweep" /\ UNCHANGED <<phase, given, entries, accepted, i, start>>
         /\ \E p \in NextPoints : SweepTo(p)
  <1>1. phase = "sweep" /\ UNCHANGED <<phase, given, entries, accepted, i, start>>
    BY DEF SweepPoint
  <1> DEFINE type(p)    == CurrentType(OverlapAfter(p))
             changed(p) == type(p) # last.type
             emit(p)    == changed(p) /\ last.type # 0 /\ p.addr # last.addr
             new(p)     == IF emit(p) THEN Append(out, NewEntry(p)) ELSE out
             full(p)    == emit(p) /\ Len(new(p)) >= MaxEntries
  <1>2. PICK p \in NextPoints :
          /\ overlap' = OverlapAfter(p)
          /\ out' = new(p)
          /\ points' = IF full(p) THEN {} ELSE points \ {p}
          /\ last' = IF full(p) \/ ~changed(p) THEN last
                     ELSE [type |-> type(p), addr |-> IF type(p) # 0 THEN p.addr ELSE last.addr]
    BY Zenon DEF SweepPoint, OverlapAfter, NewEntry
  <1>3. type(p) = Highest(accepted, OverlapAfter(p))
    BY <1>1, OverlapFacts
  <1>4. MaxEntries \in Nat /\ Len(out) < MaxEntries /\ Len(out) \in Nat
    BY <1>1, NextPointFacts, PointFacts, EntryFacts, E820Constants DEF TypeOK
  <1>5. emit(p) => Len(new(p)) = Len(out) + 1
    BY <1>1, EmitFacts
  <1>6. full(p) <=> Full'
    <2>1. Full' <=> Len(new(p)) = MaxEntries
      BY <1>2 DEF Full
    <2>2. CASE emit(p)
      <3>1. PICK n : n = Len(new(p))
        OBVIOUS
      <3>2. n = Len(out) + 1
        BY <1>5, <2>2, <3>1
      <3>3. n >= MaxEntries <=> n = MaxEntries
        BY <1>4, <3>2
      <3> QED BY <2>1, <2>2, <3>1, <3>3
    <2>3. CASE ~emit(p)
      <3>1. Len(new(p)) = Len(out)
        BY <2>3
      <3> QED BY <1>4, <2>1, <2>3, <3>1
    <2> QED BY <2>2, <2>3
  <1>7. SweepTo(p)
    <2> HIDE DEF full
    <2>1. full(p) => emit(p)
      BY DEF full
    <2> HIDE DEF type
    <2> QED BY <1>2, <1>3, <1>6, <2>1 DEF SweepTo
  <1> QED BY <1>1, <1>7

\* The points left stay ahead of the ones gone.
LEMMA SweepKeepsPoints ==
  ASSUME TypeOK, SweepInv, TrueMap(out), phase = "sweep", accepted' = accepted,
         NEW p \in NextPoints, SweepTo(p), ~Full'
  PROVE  PointsInv' /\ OverlapInv' /\ BehindInv' /\ SweptInv'
  <1> DEFINE type == Highest(accepted, OverlapAfter(p))
             emit == type # last.type /\ last.type # 0 /\ p.addr # last.addr
  <1>1. /\ overlap' = OverlapAfter(p) /\ points' = points \ {p}
        /\ out' = IF emit THEN Append(out, NewEntry(p)) ELSE out
        /\ last' = IF type # last.type THEN [type |-> type, addr |-> IF type # 0 THEN p.addr ELSE last.addr] ELSE last
    BY DEF SweepTo
  <1>2. /\ p \in points /\ ~Full /\ p.addr \in Nat /\ p.addr \in 0 .. (M - 1) /\ p.end \in BOOLEAN
        /\ p.entry \in NonEmpty /\ p = PointOf(p.entry, p.end)
        /\ \A q \in points : q.addr \in Nat /\ q.addr >= p.addr
    BY NextPointFacts, PointFacts
  <1>3. /\ NonEmpty' = NonEmpty
        /\ \A k, e : PlaceOf(k, e)' = PlaceOf(k, e)
        /\ \A k, e : PointOf(k, e)' = PointOf(k, e)
        /\ \A k, e, j, f : Before(k, e, j, f)' = Before(k, e, j, f)
    BY DEF NonEmpty, PlaceOf, PointOf, Before
  <1>4. /\ last'.type = type
        /\ last'.addr = IF type # last.type /\ type # 0 THEN p.addr ELSE last.addr
    BY <1>1
  <1>5. type \in Nat /\ last.type \in Nat /\ last.addr \in Nat /\ out \in Seq(Entries) /\ M \in Nat
    <2>1. last.addr \in Nat /\ out \in Seq(Entries) /\ M \in Nat
      BY E820Constants DEF TypeOK
    <2> QED BY <2>1, OverlapFacts
  <1>6. last.addr <= p.addr /\ \A k \in DOMAIN out : EndOf(out[k]) <= p.addr /\ (last.type # 0 => EndOf(out[k]) <= last.addr)
    BY <1>2 DEF SweepInv, BehindInv
  <1> HIDE DEF type
  <1>7. \A k \in DOMAIN out' : EndOf(out'[k]) <= p.addr
    <2>1. CASE emit
      BY <1>1, <2>1, EmitFacts
    <2>2. CASE ~emit
      BY <1>1, <1>6, <2>2
    <2> QED BY <2>1, <2>2
  <1>8. PointsInv'
    <2>1. ASSUME NEW q \in points' PROVE \E k \in NonEmpty', e \in BOOLEAN : q = PointOf(k, e)'
      BY <1>1, <1>3 DEF SweepInv, PointsInv
    <2>2. ASSUME NEW k \in NonEmpty, NEW j \in NonEmpty, NEW e \in BOOLEAN, NEW f \in BOOLEAN,
                 PointOf(k, e) \in points \ {p}, PointOf(j, f) \notin points \ {p}
          PROVE  ~Before(k, e, j, f)
      <3>1. CASE PointOf(j, f) = p
        <4>1. ~cpcompare(PointOf(k, e), PointOf(j, f))
          BY <2>2, <3>1 DEF NextPoints
        <4> QED BY <4>1 DEF cpcompare, Before, PointOf
      <3>2. CASE PointOf(j, f) \notin points
        BY <1>2, <2>2, <3>2 DEF SweepInv, PointsInv
      <3> QED BY <2>2, <3>1, <3>2
    <2>3. \A k \in NonEmpty', j \in NonEmpty', e \in BOOLEAN, f \in BOOLEAN :
            PointOf(k, e)' \in points' /\ PointOf(j, f)' \notin points' => ~Before(k, e, j, f)'
      BY <1>1, <1>3, <2>2
    <2> QED BY <2>1, <2>3 DEF PointsInv
  <1>9. OverlapInv'
    <2>1. OverlapAfter(p) = {k \in NonEmpty : PointOf(k, FALSE) \notin points \ {p} /\ PointOf(k, TRUE) \in points \ {p}}
      BY OverlapFacts
    <2>2. overlap' = {k \in NonEmpty' : PointOf(k, FALSE)' \notin points' /\ PointOf(k, TRUE)' \in points'}
      BY <1>1, <1>3, <2>1
    <2>3. last'.type = Highest(accepted', overlap')
      BY <1>1, <1>4 DEF type
    <2>4. Highest(accepted', overlap') = Highest(accepted, overlap)'
      BY DEF Highest
    <2> QED BY <2>2, <2>3, <2>4 DEF OverlapInv
  <1>10. BehindInv'
    <2>1. \A q \in points' : last'.addr <= q.addr
      <3> TAKE q \in points'
      <3>1. q.addr \in Nat /\ q.addr >= p.addr
        BY <1>1, <1>2
      <3> QED BY <1>2, <1>4, <1>5, <1>6, <3>1
    <2>2. ASSUME NEW k \in DOMAIN out', last'.type # 0 PROVE EndOf(out'[k]) <= last'.addr
      <3>1. CASE type # last.type
        BY <1>4, <1>7, <2>2, <3>1
      <3>2. CASE type = last.type
        BY <1>1, <1>4, <1>6, <2>2, <3>2
      <3> QED BY <3>1, <3>2
    <2>3. ASSUME NEW k \in DOMAIN out', NEW q \in points' PROVE EndOf(out'[k]) <= q.addr
      <3>1. q.addr \in Nat /\ q.addr >= p.addr
        BY <1>1, <1>2
      <3>2. out' \in Seq(Entries)
        <4>1. CASE emit
          BY <1>1, <4>1, EmitFacts DEF TrueMap
        <4> QED BY <1>1, <1>5, <4>1
      <3>3. EndOf(out'[k]) \in Nat
        BY <3>2, EntryFacts
      <3> QED BY <1>2, <1>7, <3>1, <3>3
    <2> QED BY <2>1, <2>2, <2>3 DEF BehindInv, EndOf
  <1>11. SweptInv'
    <2> SUFFICES ASSUME NEW a \in 0 .. (M - 1), \A q \in points \ {p} : q.addr > a
                 PROVE  TypeAt(accepted, a) = IF last'.type # 0 /\ a >= last'.addr THEN last'.type ELSE TypeAt(out', a)
      <3>1. \A a \in 0 .. (M - 1) : TypeAt(accepted, a)' = TypeAt(accepted, a) /\ TypeAt(out, a)' = TypeAt(out', a)
        BY DEF TypeAt, Covers
      <3> QED BY <1>1, <3>1 DEF SweptInv, Swept
    <2>1. a \in Nat
      BY <1>5
    <2>2. CASE p.addr > a
      <3>1. \A q \in points : q.addr > a
        BY <2>2
      <3>2. TypeAt(accepted, a) = IF last.type # 0 /\ a >= last.addr THEN last.type ELSE TypeAt(out, a)
        BY <1>2, <3>1 DEF SweepInv, SweptInv, Swept
      <3>3. CASE type = last.type
        BY <1>1, <3>2, <3>3
      <3>4. CASE emit
        <4>1. /\ a < last.addr => TypeAt(out', a) = TypeAt(out, a)
              /\ last.addr <= a => TypeAt(out', a) = last.type
          BY <1>1, <2>2, <3>4, EmitFacts
        <4>2. ~(last'.type # 0 /\ a >= last'.addr)
          BY <1>2, <1>4, <2>1, <2>2, <3>4
        <4> QED BY <1>5, <2>1, <3>2, <3>4, <4>1, <4>2
      <3>5. CASE type # last.type /\ ~emit
        <4>1. out' = out
          BY <1>1, <3>5
        <4>2. ~(last'.type # 0 /\ a >= last'.addr)
          BY <1>2, <1>4, <2>1, <2>2, <3>5
        <4>3. ~(last.type # 0 /\ a >= last.addr)
          BY <1>2, <2>1, <2>2, <3>5
        <4> QED BY <3>2, <4>1, <4>2, <4>3
      <3> QED BY <3>3, <3>4, <3>5
    <2>3. CASE ~(p.addr > a)
      <3>1. p.addr <= a
        BY <1>2, <2>1, <2>3
      <3>2. TypeAt(accepted, a) = type
        BY <3>1, AddressAfter DEF type
      <3>3. a >= last'.addr
        BY <1>2, <1>4, <1>5, <1>6, <2>1, <3>1
      <3>4. ASSUME type = 0 PROVE TypeAt(out', a) = 0
        <4>1. out' \in Seq(Entries)
          <5>1. CASE emit
            BY <1>1, <5>1, EmitFacts DEF TrueMap
          <5> QED BY <1>1, <1>5, <5>1
        <4>2. ASSUME NEW k \in DOMAIN out' PROVE ~Covers(out'[k], a)
          <5>1. EndOf(out'[k]) \in Nat /\ EndOf(out'[k]) = out'[k].addr + out'[k].size
            BY <4>1, EntryFacts
          <5>2. EndOf(out'[k]) <= a
            BY <1>2, <1>7, <2>1, <3>1, <5>1
          <5> QED BY <2>1, <5>1, <5>2 DEF Covers
        <4> QED BY <4>1, <4>2, TypeAtNone
      <3> QED BY <1>4, <3>2, <3>3, <3>4
    <2> QED BY <2>2, <2>3
  <1> QED BY <1>8, <1>9, <1>10, <1>11

\* The entry in progress will not have to be merged with the last one written.
LEMMA SweepKeepsTouch ==
  ASSUME TypeOK, SweepInv, TrueMap(out), phase = "sweep", accepted' = accepted,
         NEW p \in NextPoints, SweepTo(p), ~Full'
  PROVE  TouchInv'
  <1> DEFINE type == Highest(accepted, OverlapAfter(p))
             emit == type # last.type /\ last.type # 0 /\ p.addr # last.addr
             new == out'
             o == new[Len(new)]
  <1>1. /\ overlap' = OverlapAfter(p) /\ points' = points \ {p}
        /\ new = IF emit THEN Append(out, NewEntry(p)) ELSE out
        /\ last' = IF type # last.type THEN [type |-> type, addr |-> IF type # 0 THEN p.addr ELSE last.addr] ELSE last
    BY DEF SweepTo
  <1>2. /\ p \in points /\ ~Full /\ p.addr \in Nat /\ p.end \in BOOLEAN
        /\ p.entry \in NonEmpty /\ p.addr = PlaceOf(p.entry, p.end)
        /\ \A q \in points : q.addr \in Nat /\ q.end \in BOOLEAN /\ q.addr >= p.addr /\ (q.addr = p.addr /\ p.end => q.end)
    BY NextPointFacts, PointFacts
  <1>3. /\ last'.type = type
        /\ last'.addr = IF type # last.type /\ type # 0 THEN p.addr ELSE last.addr
    BY <1>1
  <1>4. last.addr \in Nat /\ out \in Seq(Entries) /\ last.type \in Nat
    BY E820Constants DEF TypeOK
  <1>5. /\ type \in Nat /\ overlap' = OverlapAfter(p) /\ OverlapAfter(p) \in SUBSET NonEmpty
        /\ OverlapAfter(p) \in SUBSET DOMAIN accepted
        /\ p.end => type <= last.type
        /\ ~p.end => /\ p.entry \in OverlapAfter(p) /\ type # 0 /\ last.type <= type
                     /\ type # last.type => type = accepted[p.entry].type
    BY <1>1, OverlapFacts
  <1>6. \A k \in OverlapAfter(p) : accepted[k].type \in Nat /\ accepted[k].type <= type
    <2>1. accepted \in Seq(Entries)
      BY DEF TypeOK
    <2> QED BY <1>5, <2>1, HighestFacts, EntryFacts
  <1>7. last.addr <= p.addr /\ \A k \in DOMAIN out : EndOf(out[k]) <= p.addr /\ (last.type # 0 => EndOf(out[k]) <= last.addr)
    BY <1>2 DEF SweepInv, BehindInv
  <1>8. \A k \in overlap : k \in NonEmpty
    BY <1>2 DEF SweepInv, OverlapInv
  <1> HIDE DEF type, new
  <1> SUFFICES ASSUME new # <<>>
               PROVE  /\ type # 0 /\ EndOf(o) = last'.addr =>
                           /\ type # o.type
                           /\ \/ \A q \in points \ {p} : q.addr > last'.addr
                              \/ \E k \in OverlapAfter(p) : accepted[k].addr = last'.addr /\ accepted[k].type > o.type
                              \/ type < o.type /\ \A q \in points \ {p} : q.end \/ q.addr > last'.addr
                      /\ type = 0 => \A q \in points \ {p} : q.end \/ q.addr > EndOf(o)
    BY <1>1, <1>3, <1>5 DEF TouchInv, EndOf, new
  <1>9. CASE emit
    <2>1. EndOf(o) = p.addr /\ o.type = last.type
      <3>1. new = Append(out, NewEntry(p))
        BY <1>1, <1>9
      <3> QED BY <1>9, <3>1, EmitFacts
    <2>2. CASE type # 0
      <3>1. last'.addr = p.addr /\ type # last.type
        BY <1>3, <1>9, <2>2
      <3>2. CASE ~p.end
        <4>1. p.entry \in OverlapAfter(p) /\ accepted[p.entry].addr = p.addr
          BY <1>2, <1>5, <3>2 DEF PlaceOf
        <4>2. accepted[p.entry].type > last.type
          BY <1>4, <1>5, <3>1, <3>2
        <4> QED BY <2>1, <2>2, <3>1, <4>1, <4>2
      <3>3. CASE p.end
        <4>1. type < last.type
          BY <1>4, <1>5, <3>1, <3>3
        <4>2. ASSUME NEW q \in points \ {p}, ~q.end PROVE q.addr > p.addr
          <5>1. q.addr # p.addr
            BY <1>2, <3>3, <4>2
          <5>2. q.addr \in Nat /\ q.addr >= p.addr
            BY <1>2
          <5> QED BY <1>2, <5>1, <5>2
        <4> QED BY <2>1, <2>2, <3>1, <4>1, <4>2
      <3> QED BY <3>2, <3>3
    <2>3. CASE type = 0
      <3>1. p.end
        BY <1>5, <2>3
      <3>2. ASSUME NEW q \in points \ {p}, ~q.end PROVE q.addr > p.addr
        <4>1. q.addr # p.addr
          BY <1>2, <3>1, <3>2
        <4>2. q.addr \in Nat /\ q.addr >= p.addr
          BY <1>2
        <4> QED BY <1>2, <4>1, <4>2
      <3> QED BY <2>1, <2>3, <3>2
    <2> QED BY <2>2, <2>3
  <1>10. ASSUME ~emit
         PROVE  /\ new = out /\ o = out[Len(out)] /\ EndOf(o) \in Nat /\ o.type \in Nat /\ EndOf(o) <= p.addr
                /\ last.type # 0 => EndOf(o) <= last.addr
                /\ last.type # 0 /\ EndOf(o) = last.addr =>
                     /\ last.type # o.type
                     /\ \/ \A q \in points : q.addr > last.addr
                        \/ \E k \in overlap : accepted[k].addr = last.addr /\ accepted[k].type > o.type
                        \/ last.type < o.type /\ \A q \in points : q.end \/ q.addr > last.addr
                /\ last.type = 0 => \A q \in points : q.end \/ q.addr > EndOf(o)
    <2>1. new = out /\ o = out[Len(out)]
      BY <1>1, <1>10
    <2>2. Len(out) \in DOMAIN out
      BY <1>4, <2>1
    <2>3. EndOf(o) \in Nat /\ o.type \in Nat
      BY <1>4, <2>1, <2>2, EntryFacts
    <2>4. EndOf(o) <= p.addr /\ (last.type # 0 => EndOf(o) <= last.addr)
      BY <1>7, <2>1, <2>2
    <2>5. TouchInv /\ ~Full /\ out # <<>>
      BY <1>2, <2>1 DEF SweepInv
    <2> QED BY <2>1, <2>3, <2>4, <2>5 DEF TouchInv
  \* Only an end above last.addr takes an entry that begins there.
  <1>11. ASSUME NEW k \in overlap, accepted[k].addr = last.addr PROVE k \in OverlapAfter(p) \/ p.addr > last.addr
    <2>1. CASE p.end /\ p.entry = k
      <3>1. PlaceOf(k, FALSE) \in Nat /\ PlaceOf(k, TRUE) \in Nat /\ PlaceOf(k, FALSE) < PlaceOf(k, TRUE) /\ PlaceOf(k, FALSE) = accepted[k].addr
        BY <1>8, NonEmptyFacts
      <3> QED BY <1>2, <1>11, <2>1, <3>1
    <2>2. CASE ~(p.end /\ p.entry = k)
      BY <2>2 DEF OverlapAfter
    <2> QED BY <2>1, <2>2
  <1>12. CASE type = last.type
    <2>0. ~emit /\ last'.addr = last.addr
      BY <1>3, <1>12
    <2>1. CASE last.type = 0
      BY <1>10, <1>12, <2>0, <2>1
    <2>2. CASE last.type # 0
      <3> SUFFICES ASSUME EndOf(o) = last.addr
                   PROVE  \/ \A q \in points \ {p} : q.addr > last.addr
                          \/ \E k \in OverlapAfter(p) : accepted[k].addr = last.addr /\ accepted[k].type > o.type
                          \/ last.type < o.type /\ \A q \in points \ {p} : q.end \/ q.addr > last.addr
        BY <1>10, <1>12, <2>0, <2>2
      <3>1. CASE \A q \in points : q.addr > last.addr
        BY <3>1
      <3>2. CASE \E k \in overlap : accepted[k].addr = last.addr /\ accepted[k].type > o.type
        <4>1. PICK k \in overlap : accepted[k].addr = last.addr /\ accepted[k].type > o.type
          BY <3>2
        <4>2. CASE k \in OverlapAfter(p)
          BY <4>1, <4>2
        <4>3. CASE p.addr > last.addr
          <5>1. \A q \in points : q.addr > last.addr
            BY <1>2, <1>4, <4>3
          <5> QED BY <5>1
        <4> QED BY <1>11, <4>1, <4>2, <4>3
      <3>3. CASE last.type < o.type /\ \A q \in points : q.end \/ q.addr > last.addr
        BY <3>3
      <3> QED BY <1>10, <2>0, <2>2, <3>1, <3>2, <3>3
    <2> QED BY <2>1, <2>2
  <1>13. CASE type # last.type /\ last.type = 0
    <2>1. type # 0 /\ ~p.end /\ ~emit /\ last'.addr = p.addr
      BY <1>3, <1>4, <1>5, <1>13
    <2>2. p.addr > EndOf(o)
      BY <1>2, <1>10, <1>13, <2>1
    <2>3. EndOf(o) # p.addr
      BY <1>2, <1>10, <2>1, <2>2
    <2> QED BY <2>1, <2>3
  <1>14. CASE type # last.type /\ last.type # 0 /\ p.addr = last.addr
    <2>0. ~emit /\ last'.addr = last.addr
      BY <1>3, <1>14
    <2>1. CASE type = 0
      <3>1. p.end
        BY <1>5, <2>1
      <3>2. ASSUME NEW q \in points \ {p}, ~q.end PROVE q.addr > EndOf(o)
        <4>1. q.addr \in Nat /\ q.addr >= p.addr /\ q.addr # p.addr
          BY <1>2, <3>1, <3>2
        <4> QED BY <1>2, <1>10, <2>0, <4>1
      <3> QED BY <2>1, <3>2
    <2>2. CASE type # 0
      <3> SUFFICES ASSUME EndOf(o) = last.addr
                   PROVE  /\ type # o.type
                          /\ \/ \E k \in OverlapAfter(p) : accepted[k].addr = last.addr /\ accepted[k].type > o.type
                             \/ type < o.type /\ \A q \in points \ {p} : q.end \/ q.addr > last.addr
        BY <2>0, <2>2
      <3>1. ~(\A q \in points : q.addr > last.addr)
        BY <1>2, <1>4, <1>14
      <3>2. CASE \E k \in overlap : accepted[k].addr = last.addr /\ accepted[k].type > o.type
        <4>1. PICK k \in overlap : accepted[k].addr = last.addr /\ accepted[k].type > o.type
          BY <3>2
        <4>2. k \in OverlapAfter(p)
          BY <1>2, <1>4, <1>11, <1>14, <4>1
        <4>3. accepted[k].type \in Nat /\ accepted[k].type <= type
          BY <1>6, <4>2
        <4>4. type # o.type
          BY <1>5, <1>10, <2>0, <4>1, <4>3
        <4> QED BY <4>1, <4>2, <4>4
      <3>3. CASE last.type < o.type /\ \A q \in points : q.end \/ q.addr > last.addr
        <4>1. p.end
          BY <1>2, <1>4, <1>14, <3>3
        <4>2. type < o.type
          BY <1>4, <1>5, <1>10, <2>0, <3>3, <4>1
        <4>3. type # o.type
          BY <1>5, <1>10, <2>0, <4>2
        <4> QED BY <3>3, <4>2, <4>3
      <3> QED BY <1>10, <1>14, <2>0, <3>1, <3>2, <3>3
    <2> QED BY <2>1, <2>2
  <1> QED BY <1>9, <1>12, <1>13, <1>14

\* A turn of the sweep keeps its invariant and the new table true.
LEMMA SweepKeepsInv ==
  ASSUME TypeOK, SweepInv, TrueMap(out), SweepPoint
  PROVE  TypeOK' /\ SweepInv' /\ TrueMap(out)'
  <1>1. phase = "sweep" /\ UNCHANGED <<phase, given, entries, accepted, i, start>>
    BY SweepStep
  <1>2. PICK p \in NextPoints : SweepTo(p)
    BY SweepStep
  <1> DEFINE type == Highest(accepted, OverlapAfter(p))
             emit == type # last.type /\ last.type # 0 /\ p.addr # last.addr
  <1>3. /\ overlap' = OverlapAfter(p)
        /\ out' = IF emit THEN Append(out, NewEntry(p)) ELSE out
        /\ Full' => points' = {} /\ last' = last
        /\ ~Full' => /\ points' = points \ {p}
                     /\ last' = IF type # last.type
                                THEN [type |-> type, addr |-> IF type # 0 THEN p.addr ELSE last.addr] ELSE last
    BY <1>2 DEF SweepTo
  <1>4. /\ p.addr \in 0 .. (M - 1) /\ Len(out) < MaxEntries /\ type \in Nat
        /\ OverlapAfter(p) \in SUBSET DOMAIN accepted
    BY <1>1, NextPointFacts, PointFacts, OverlapFacts
  <1> HIDE DEF type
  <1>5. TrueMap(out)' /\ Len(out') <= MaxEntries
    <2>1. TrueMap(out') /\ Len(out') <= MaxEntries
      <3>1. CASE emit
        <4>1. TrueMap(out') /\ Len(out') = Len(out) + 1
          BY <1>1, <1>3, <3>1, EmitFacts
        <4>2. Len(out) \in Nat /\ MaxEntries \in Nat
          BY EntryFacts, E820Constants DEF TypeOK
        <4> QED BY <1>4, <4>1, <4>2
      <3>2. CASE ~emit
        BY <1>3, <3>2 DEF TypeOK
      <3> QED BY <3>1, <3>2
    <2>2. TrueMap(out)' <=> TrueMap(out')
      BY <1>1 DEF TrueMap, NoWrap, Disjoint, TypeAt, Covers, EndOf, Entries
    <2> QED BY <2>1, <2>2
  <1>6. TypeOK'
    <2>1. last' \in [type : Nat, addr : 0 .. (M - 1)]
      <3>1. last \in [type : Nat, addr : 0 .. (M - 1)]
        BY DEF TypeOK
      <3> QED BY <1>3, <1>4, <3>1
    <2>2. points' \subseteq points
      BY <1>3
    <2>3. points' \subseteq [addr : 0 .. (M - 1), entry : DOMAIN entries', end : BOOLEAN]
      BY <1>1, <2>2 DEF TypeOK
    <2>4. overlap' \subseteq DOMAIN accepted'
      BY <1>1, <1>3, <1>4
    <2>5. out' \in Seq(Entries')
      BY <1>5 DEF TrueMap
    <2> QED BY <1>1, <1>5, <2>1, <2>3, <2>4, <2>5 DEF TypeOK, Entries
  <1>7. SweepInv'
    <2>1. /\ entries' = accepted' /\ NoWrap(accepted)' /\ i' = 1 /\ start' = VmmStart /\ accepted' # <<>>
          /\ \A k \in DOMAIN accepted' : accepted'[k].type # 0
      BY <1>1 DEF SweepInv, NoWrap, EndOf
    <2>2. CASE Full'
      BY <1>3, <2>1, <2>2 DEF SweepInv, PointsInv, OverlapInv, BehindInv, TouchInv, SweptInv
    <2>3. CASE ~Full'
      <3>1. PointsInv' /\ OverlapInv' /\ BehindInv' /\ SweptInv'
        BY <1>1, <1>2, <2>3, SweepKeepsPoints
      <3>2. TouchInv'
        BY <1>1, <1>2, <2>3, SweepKeepsTouch
      <3> QED BY <2>1, <2>3, <3>1, <3>2 DEF SweepInv
    <2> QED BY <2>2, <2>3
  <1> QED BY <1>5, <1>6, <1>7

-----------------------------------------------------------------------------
(* Where entries end, and how a sorted table is laid out. *)

\* An entry wraps at most once.
LEMMA EndFacts ==
  ASSUME NEW e \in Entries
  PROVE  /\ EndOf(e) < M => End(e) = EndOf(e)
         /\ EndOf(e) >= M => End(e) < e.addr
         /\ End(e) \in 0 .. (M - 1)
  <1>1. e.addr \in 0 .. (M - 1) /\ e.size \in 0 .. (M - 1) /\ M \in Nat \ {0}
    BY E820Constants DEF Entries
  <1>2. PICK x \in Nat : x = e.addr + e.size
    BY <1>1
  <1>3. x < 2 * M /\ EndOf(e) = x /\ End(e) = x % M
    BY <1>1, <1>2 DEF EndOf, End
  <1>4. PICK q \in Int, r \in 0 .. (M - 1) : x = M * q + r /\ r = x % M
    <2>1. x \div M \in Int /\ x % M \in 0 .. (M - 1) /\ x = M * (x \div M) + (x % M)
      BY <1>1
    <2> QED BY <2>1
  <1>5. q = 0 \/ q = 1
    <2>1. ASSUME q >= 2 PROVE FALSE
      <3>1. PICK d \in Nat : q = 2 + d
        BY <2>1, q - 2 \in Nat
      <3>2. M * q = 2 * M + M * d
        BY <1>1, <3>1
      <3>3. M * d \in Nat
        BY <1>1
      <3>4. M * q >= 2 * M
        BY <1>1, <3>2, <3>3
      <3>5. PICK y \in Int : y = M * q
        BY <1>1
      <3> QED BY <1>1, <1>3, <1>4, <3>4, <3>5
    <2>2. ASSUME q <= -1 PROVE FALSE
      <3>1. PICK d \in Nat : q = -1 - d
        BY <2>2, -1 - q \in Nat
      <3>2. M * q = -M - M * d
        BY <1>1, <3>1
      <3>3. M * d \in Nat
        BY <1>1
      <3>4. M * q <= -M
        BY <1>1, <3>2, <3>3
      <3>5. PICK y \in Int : y = M * q
        BY <1>1
      <3> QED BY <1>1, <1>3, <1>4, <3>4, <3>5
    <2> QED BY <2>1, <2>2
  <1>6. CASE q = 0
    <2>1. x = r
      BY <1>1, <1>4, <1>6
    <2> QED BY <1>1, <1>2, <1>3, <1>4, <2>1
  <1>7. CASE q = 1
    <2>1. x = M + r
      BY <1>1, <1>4, <1>7
    <2> QED BY <1>1, <1>2, <1>3, <1>4, <2>1
  <1> QED BY <1>5, <1>6, <1>7

\* In a true map an entry ends where EndOf says.
LEMMA EndInMap ==
  ASSUME TrueMap(out), NEW k \in DOMAIN out
  PROVE  /\ End(out[k]) = EndOf(out[k]) /\ EndOf(out[k]) \in 0 .. (M - 1) /\ out[k] \in Entries
         /\ out[k].addr \in Nat /\ out[k].size \in Nat /\ out[k].size > 0 /\ EndOf(out[k]) \in Nat
         /\ EndOf(out[k]) = out[k].addr + out[k].size /\ out[k].addr < EndOf(out[k])
         /\ out[k].type \in Nat
  <1>1. out \in Seq(Entries) /\ EndOf(out[k]) < M /\ out[k].size > 0
    BY DEF TrueMap, NoWrap, Disjoint
  <1>2. /\ out[k] \in Entries /\ out[k].addr \in Nat /\ out[k].size \in Nat /\ EndOf(out[k]) \in Nat
        /\ EndOf(out[k]) = out[k].addr + out[k].size /\ out[k].type \in Nat
    BY <1>1, EntryFacts
  <1>3. End(out[k]) = EndOf(out[k])
    BY <1>1, <1>2, EndFacts
  <1>4. EndOf(out[k]) \in 0 .. (M - 1) /\ out[k].addr < EndOf(out[k])
    BY <1>1, <1>2, E820Constants
  <1> QED BY <1>1, <1>2, <1>3, <1>4

\* An entry of a true map lies before all the later ones.
LEMMA MapIsSorted ==
  ASSUME TrueMap(out), NEW k \in DOMAIN out, NEW j \in DOMAIN out, k < j
  PROVE  EndOf(out[k]) <= out[j].addr
  <1> DEFINE T == {m \in DOMAIN out : k < m /\ ~(EndOf(out[k]) <= out[m].addr)}
  <1> SUFFICES ASSUME T # {} PROVE FALSE
    BY DEF T
  <1>1. DOMAIN out = 1 .. Len(out) /\ Len(out) \in Nat
    BY EntryFacts DEF TrueMap
  <1>2. PICK m \in T : \A y \in T : m <= y
    <2>1. T \in SUBSET Nat
      BY <1>1
    <2> HIDE DEF T
    <2> QED BY <2>1, LeastElement
  <1>3. m \in 1 .. Len(out) /\ k < m /\ ~(EndOf(out[k]) <= out[m].addr) /\ k \in 1 .. Len(out)
    BY <1>1, <1>2
  <1>4. m - 1 \in 1 .. (Len(out) - 1) /\ m - 1 \in DOMAIN out /\ m = (m - 1) + 1
    BY <1>1, <1>3
  <1>5. EndOf(out[m - 1]) <= out[m].addr
    <2>1. /\ EndOf(out[m - 1]) < out[(m - 1) + 1].addr
             \/ (EndOf(out[m - 1]) = out[(m - 1) + 1].addr /\ out[m - 1].type # out[(m - 1) + 1].type)
      BY <1>4 DEF TrueMap, Disjoint
    <2>2. EndOf(out[m - 1]) \in Nat /\ out[m].addr \in Nat
      BY <1>2, <1>4, EndInMap
    <2> QED BY <1>4, <2>1, <2>2
  <1>6. m - 1 \notin T
    <2>1. ~(m <= m - 1)
      BY <1>3
    <2> HIDE DEF T
    <2> QED BY <1>2, <2>1
  <1>7. CASE k = m - 1
    BY <1>3, <1>5, <1>7
  <1>8. CASE k # m - 1
    <2>1. k < m - 1
      BY <1>3, <1>8
    <2>2. EndOf(out[k]) <= out[m - 1].addr
      BY <1>4, <1>6, <2>1
    <2>3. /\ EndOf(out[k]) \in Nat /\ out[m - 1].addr \in Nat /\ EndOf(out[m - 1]) \in Nat /\ out[m].addr \in Nat
          /\ out[m - 1].addr < EndOf(out[m - 1])
      BY <1>2, <1>4, EndInMap
    <2> QED BY <1>3, <1>5, <2>2, <2>3
  <1> QED BY <1>7, <1>8

\* Two entries of a true map have no address in common.
LEMMA MapIsDisjoint ==
  ASSUME TrueMap(out), NEW k \in DOMAIN out, NEW j \in DOMAIN out, k # j
  PROVE  /\ EndOf(out[k]) <= out[j].addr \/ EndOf(out[j]) <= out[k].addr
         /\ \A a \in Nat : ~(Covers(out[k], a) /\ Covers(out[j], a))
  <1>1. DOMAIN out = 1 .. Len(out) /\ Len(out) \in Nat
    BY EntryFacts DEF TrueMap
  <1>2. k < j \/ j < k
    BY <1>1
  <1>3. EndOf(out[k]) <= out[j].addr \/ EndOf(out[j]) <= out[k].addr
    BY <1>2, MapIsSorted
  <1>4. /\ out[k].addr \in Nat /\ EndOf(out[k]) \in Nat /\ EndOf(out[k]) = out[k].addr + out[k].size
        /\ out[j].addr \in Nat /\ EndOf(out[j]) \in Nat /\ EndOf(out[j]) = out[j].addr + out[j].size
    BY EndInMap
  <1>5. ASSUME NEW a \in Nat PROVE ~(Covers(out[k], a) /\ Covers(out[j], a))
    BY <1>3, <1>4 DEF Covers
  <1> QED BY <1>3, <1>5

\* In a true map the type of an address is the one of the entry that contains it.
LEMMA TypeInMap ==
  ASSUME TrueMap(out), NEW a \in 0 .. (M - 1)
  PROVE  /\ \A k \in DOMAIN out : Covers(out[k], a) => TypeAt(out, a) = out[k].type
         /\ TypeAt(out, a) # 0 => \E k \in DOMAIN out : Covers(out[k], a) /\ out[k].type = TypeAt(out, a)
  <1>1. out \in Seq(Entries)
    BY DEF TrueMap
  <1>2. ASSUME NEW k \in DOMAIN out, Covers(out[k], a) PROVE TypeAt(out, a) = out[k].type
    <2>1. \A j \in DOMAIN out : Covers(out[j], a) => out[j].type = out[k].type
      BY <1>2 DEF TrueMap
    <2> QED BY <1>1, <1>2, <2>1, TypeAtOnly
  <1> QED BY <1>1, <1>2, TypeAtFacts

-----------------------------------------------------------------------------
(* The result of the sweep, e820_mapped_all and e820_range_update. *)

\* The new table says of every address what the loader's did, unless it was full.
Resolved == \A a \in 0 .. (M - 1) : TypeAt(out, a) = TypeAt(accepted, a) \/ (Full /\ TypeAt(out, a) = 0)

ResultInv == phase \in {"check", "update", "done"} => Resolved

\* e820_mapped_all has seen RAM up to start, and no entry behind the loop reaches further.
CheckInv ==
  phase = "check" =>
    /\ entries = out /\ start \in VmmStart .. (VmmEnd - 1) /\ i \in 1 .. (Len(out) + 1)
    /\ points = {} /\ accepted # <<>>
    /\ \A a \in VmmStart .. (start - 1) : TypeAt(out, a) = E820_TYPE_RAM
    /\ \A k \in 1 .. (i - 1) : out[k].type = E820_TYPE_RAM => EndOf(out[k]) <= start \/ out[k].addr > start

\* Entry k is RAM and contains the monitor's image.
Holds(k) == out[k].type = E820_TYPE_RAM /\ out[k].addr <= VmmStart /\ VmmEnd <= EndOf(out[k])

\* __e820_range_update changes the table only at the entry that holds the image.
UpdateInv ==
  /\ phase = "update" =>
       /\ i \in 1 .. (Len(entries) + 1) /\ points = {}
       /\ \E k \in DOMAIN out : Holds(k) /\ entries = IF i <= k THEN out ELSE UpdateEntry(out, k)
  /\ phase = "done" => points = {} /\ \E k \in DOMAIN out : Holds(k) /\ entries = UpdateEntry(out, k)

\* The inductive invariant.
MapInv ==
  /\ TypeOK /\ TrueMap(out) /\ AddInv /\ SweepInv
  /\ ResultInv /\ CheckInv /\ UpdateInv /\ MappedAllIsExact
  /\ phase = "panic" => points = {}

\* A true map stays true.
LEMMA MapStays ==
  ASSUME TrueMap(out), out' = out, accepted' = accepted
  PROVE  TrueMap(out)'
  <1>1. TrueMap(out')
    OBVIOUS
  <1>2. TrueMap(out)' <=> TrueMap(out')
    BY DEF TrueMap, NoWrap, Disjoint, TypeAt, Covers, EndOf, Entries
  <1> QED BY <1>1, <1>2

\* The empty map is true.
LEMMA EmptyMap ==
  ASSUME NEW tab, tab = <<>>
  PROVE  TrueMap(tab) /\ tab \in Seq(Entries) /\ Len(tab) = 0
  <1>1. Len(tab) = 0 /\ DOMAIN tab = {} /\ tab \in Seq(Entries)
    OBVIOUS
  <1> QED BY <1>1 DEF TrueMap, NoWrap, Disjoint

LEMMA InitInv ==
  ASSUME Init
  PROVE  MapInv
  <1>1. /\ phase = "add" /\ accepted = <<>> /\ points = {} /\ overlap = {} /\ out = <<>> /\ given = <<>>
        /\ entries = <<>> /\ last = [type |-> 0, addr |-> 0] /\ i = 1 /\ start = VmmStart
    BY DEF Init
  <1>2. /\ TrueMap(out) /\ out \in Seq(Entries) /\ Len(out) = 0 /\ entries \in Seq(Entries) /\ Len(entries) = 0
        /\ given \in Seq(Entries) /\ accepted \in Seq(Entries) /\ DOMAIN entries = {}
    BY <1>1, EmptyMap
  <1>3. M \in Nat \ {0} /\ MaxEntries \in Nat \ {0} /\ VmmStart \in 0 .. (M - 1)
    BY E820Constants
  <1>4. last \in [type : Nat, addr : 0 .. (M - 1)]
    BY <1>1, <1>3
  <1>5. TypeOK
    BY <1>1, <1>2, <1>3, <1>4 DEF TypeOK
  <1>6. AddInv
    BY <1>1, <1>2 DEF AddInv
  <1>7. SweepInv /\ ResultInv /\ CheckInv /\ UpdateInv /\ MappedAllIsExact
    BY <1>1 DEF SweepInv, ResultInv, CheckInv, UpdateInv, MappedAllIsExact
  <1> QED BY <1>1, <1>2, <1>5, <1>6, <1>7 DEF MapInv

\* __e820_range_add keeps a table a table.
LEMMA RangeAddFacts ==
  ASSUME NEW tab \in Seq(Entries), Len(tab) <= MaxEntries, NEW a \in 0 .. (M - 1), NEW s \in 0 .. (M - 1), NEW t \in Nat,
         NEW new, new = e820_range_add(tab, a, s, t), NEW e, e = Entry(a, s, t)
  PROVE  /\ new \in Seq(Entries) /\ Len(new) <= MaxEntries /\ e \in Entries
         /\ e.addr = a /\ e.size = s /\ e.type = t
         /\ Len(tab) = MaxEntries => new = tab
         /\ Len(tab) < MaxEntries => new = Append(tab, e) /\ Len(new) = Len(tab) + 1 /\ new[Len(tab) + 1] = e
         /\ \A k \in DOMAIN tab : k \in DOMAIN new /\ new[k] = tab[k]
         /\ Len(tab) <= Len(new)
  <1>1. MaxEntries \in Nat /\ Len(tab) \in Nat /\ DOMAIN tab = 1 .. Len(tab)
    BY E820Constants
  <1>2. e \in Entries /\ e.addr = a /\ e.size = s /\ e.type = t
    BY DEF Entry, Entries
  <1>3. CASE Len(tab) = MaxEntries
    <2>1. new = tab
      BY <1>1, <1>3 DEF e820_range_add
    <2> QED BY <1>1, <1>2, <1>3, <2>1
  <1>4. CASE Len(tab) < MaxEntries
    <2>0. ~(Len(tab) >= MaxEntries)
      BY <1>1, <1>4
    <2>1. new = Append(tab, e)
      BY <2>0, Zenon DEF e820_range_add
    <2>2. /\ new \in Seq(Entries) /\ Len(new) = Len(tab) + 1 /\ new[Len(tab) + 1] = e
          /\ \A k \in DOMAIN tab : k \in DOMAIN new /\ new[k] = tab[k]
      BY <1>1, <1>2, <2>1
    <2>3. Len(new) <= MaxEntries /\ Len(tab) <= Len(new) /\ Len(tab) # MaxEntries
      <3>1. PICK n \in Nat : n = Len(tab)
        BY <1>1
      <3>2. n < MaxEntries /\ MaxEntries \in Nat
        BY <1>1, <1>4, <3>1
      <3>3. n + 1 <= MaxEntries /\ n <= n + 1 /\ n # MaxEntries
        BY <3>2
      <3> QED BY <2>2, <3>1, <3>3, Zenon
    <2> QED BY <1>2, <2>1, <2>2, <2>3, Zenon
  <1>5. Len(tab) = MaxEntries \/ Len(tab) < MaxEntries
    <2>1. PICK n \in Nat : n = Len(tab)
      BY <1>1
    <2>2. n <= MaxEntries
      BY <2>1
    <2>3. n = MaxEntries \/ n < MaxEntries
      BY <1>1, <2>2
    <2> QED BY <2>1, <2>3
  <1> QED BY <1>3, <1>4, <1>5, Zenon

LEMMA AddKeepsInv ==
  ASSUME MapInv, AddRegion
  PROVE  MapInv'
  <1>1. PICK r \in Regions, t \in Types :
          /\ given' = Append(given, Entry(r[1], r[2], t))
          /\ entries' = e820_range_add(entries, r[1], r[2], t)
    BY DEF AddRegion
  <1>2. phase = "add" /\ UNCHANGED <<phase, accepted, points, overlap, out, last, i, start>>
    BY DEF AddRegion
  <1>3. r[1] \in 0 .. (M - 1) /\ r[2] \in 0 .. (M - 1) /\ t \in Nat /\ t # 0
    BY E820Constants
  <1>4. entries \in Seq(Entries) /\ Len(entries) <= MaxEntries /\ given \in Seq(Entries) /\ MaxEntries \in Nat
    BY E820Constants DEF MapInv, TypeOK
  <1> DEFINE e == Entry(r[1], r[2], t)
  <1>5. /\ entries' \in Seq(Entries) /\ Len(entries') <= MaxEntries /\ e \in Entries /\ e.type = t
        /\ Len(entries) = MaxEntries => entries' = entries
        /\ Len(entries) < MaxEntries => entries' = Append(entries, e)
    BY <1>1, <1>3, <1>4, RangeAddFacts
  <1> HIDE DEF e
  <1>6. given' \in Seq(Entries)
    BY <1>1, <1>4, <1>5 DEF e
  <1>7. /\ accepted = <<>> /\ points = {} /\ overlap = {} /\ out = <<>>
        /\ last = [type |-> 0, addr |-> 0] /\ i = 1 /\ start = VmmStart
        /\ \A k \in DOMAIN entries : entries[k].type # 0
    BY <1>2 DEF MapInv, AddInv
  <1>8. \A k \in DOMAIN entries' : entries'[k].type # 0
    <2>1. CASE Len(entries) < MaxEntries
      <3> TAKE k \in DOMAIN entries'
      <3>1. entries' = Append(entries, e)
        BY <1>5, <2>1
      <3>2. (k \in DOMAIN entries /\ entries'[k] = entries[k]) \/ entries'[k] = e
        BY <1>4, <1>5, <3>1
      <3> QED BY <1>3, <1>5, <1>7, <3>2
    <2>2. CASE Len(entries) = MaxEntries
      BY <1>5, <1>7, <2>2
    <2>3. Len(entries) \in Nat
      BY <1>4, EntryFacts
    <2> QED BY <1>4, <2>1, <2>2, <2>3
  <1>9. TypeOK'
    <2>1. points' \subseteq [addr : 0 .. (M - 1), entry : DOMAIN entries', end : BOOLEAN]
      BY <1>2, <1>7
    <2>2. out \in Seq(Entries) /\ Len(out) <= MaxEntries /\ accepted \in Seq(Entries)
      BY DEF MapInv, TypeOK
    <2>3. last \in [type : Nat, addr : 0 .. (M - 1)] /\ i \in 1 .. (MaxEntries + 1) /\ start \in 0 .. (M - 1)
      BY DEF MapInv, TypeOK
    <2>4. overlap' \subseteq DOMAIN accepted'
      BY <1>2, <1>7
    <2> QED BY <1>2, <1>5, <1>6, <2>1, <2>2, <2>3, <2>4 DEF TypeOK, Entries
  <1>10. TrueMap(out)'
    <2>1. out' = <<>>
      BY <1>2, <1>7
    <2> QED BY <2>1, EmptyMap DEF TrueMap, NoWrap, Disjoint
  <1>11. AddInv'
    BY <1>2, <1>7, <1>8 DEF AddInv
  <1>12. SweepInv' /\ ResultInv' /\ CheckInv' /\ UpdateInv' /\ MappedAllIsExact'
    BY <1>2 DEF SweepInv, ResultInv, CheckInv, UpdateInv, MappedAllIsExact
  <1> QED BY <1>2, <1>9, <1>10, <1>11, <1>12 DEF MapInv

LEMMA SanitizePanicsKeepsInv ==
  ASSUME MapInv, SanitizePanics
  PROVE  MapInv'
  <1>1. /\ phase = "add" /\ phase' = "panic"
        /\ UNCHANGED <<given, entries, accepted, points, overlap, out, last, i, start>>
    BY DEF SanitizePanics
  <1>2. accepted = <<>> /\ points = {} /\ out = <<>>
    BY <1>1 DEF MapInv, AddInv
  <1>3. TypeOK'
    BY <1>1 DEF MapInv, TypeOK, Entries
  <1>4. TrueMap(out)'
    BY <1>1, MapStays DEF MapInv
  <1>5. AddInv' /\ SweepInv' /\ ResultInv' /\ CheckInv' /\ UpdateInv' /\ MappedAllIsExact'
    BY <1>1, <1>2 DEF AddInv, SweepInv, ResultInv, CheckInv, UpdateInv, MappedAllIsExact
  <1> QED BY <1>1, <1>2, <1>3, <1>4, <1>5 DEF MapInv

\* The change points of a table that does not wrap.
LEMMA ChangePointsAre ==
  ASSUME NEW tab \in Seq(Entries), NoWrap(tab), NEW p
  PROVE  p \in ChangePoints(tab) <=>
           \E k \in DOMAIN tab : /\ tab[k].size # 0
                                 /\ \/ p = [addr |-> tab[k].addr, entry |-> k, end |-> FALSE]
                                    \/ p = [addr |-> EndOf(tab[k]), entry |-> k, end |-> TRUE]
  <1>1. \A k \in DOMAIN tab : End(tab[k]) = EndOf(tab[k])
    <2> TAKE k \in DOMAIN tab
    <2>1. tab[k] \in Entries /\ EndOf(tab[k]) < M
      BY DEF NoWrap
    <2> QED BY <2>1, EndFacts
  <1>2. p \in ChangePoints(tab) <=>
           \E k \in DOMAIN tab : /\ tab[k].size # 0
                                 /\ \/ p = [addr |-> tab[k].addr, entry |-> k, end |-> FALSE]
                                    \/ p = [addr |-> End(tab[k]), entry |-> k, end |-> TRUE]
    BY Zenon DEF ChangePoints
  <1> QED BY <1>1, <1>2, Zenon

LEMMA StartKeepsInv ==
  ASSUME MapInv, StartSweep
  PROVE  MapInv'
  <1>1. /\ phase = "add" /\ ~Unsanitizable(entries) /\ phase' = "sweep" /\ accepted' = entries
        /\ points' = ChangePoints(entries) /\ UNCHANGED <<given, entries, overlap, out, last, i, start>>
    BY DEF StartSweep
  <1>2. /\ overlap = {} /\ out = <<>> /\ last = [type |-> 0, addr |-> 0] /\ i = 1 /\ start = VmmStart
        /\ \A k \in DOMAIN entries : entries[k].type # 0
    BY <1>1 DEF MapInv, AddInv
  <1>3. entries \in Seq(Entries) /\ Len(entries) \in Nat /\ DOMAIN entries = 1 .. Len(entries) /\ M \in Nat
    BY E820Constants DEF MapInv, TypeOK
  <1>4. entries # <<>>
    BY <1>1, <1>3 DEF Unsanitizable
  <1>5. NoWrap(entries)
    <2>1. ASSUME NEW k \in DOMAIN entries PROVE EndOf(entries[k]) < M
      <3>1. entries[k] \in Entries /\ entries[k].addr \in Nat /\ EndOf(entries[k]) \in Nat
        BY <1>3, EntryFacts
      <3>2. ~(End(entries[k]) < entries[k].addr)
        BY <1>1 DEF Unsanitizable
      <3>3. ~(EndOf(entries[k]) >= M)
        BY <3>1, <3>2, EndFacts
      <3> QED BY <1>3, <3>1, <3>3
    <2> QED BY <2>1 DEF NoWrap
  <1>6. \A p : p \in points' <=>
           \E k \in DOMAIN entries : /\ entries[k].size # 0
                                     /\ \/ p = [addr |-> entries[k].addr, entry |-> k, end |-> FALSE]
                                        \/ p = [addr |-> EndOf(entries[k]), entry |-> k, end |-> TRUE]
    BY <1>1, <1>3, <1>5, ChangePointsAre
  <1>7. /\ NonEmpty' = {k \in DOMAIN entries : entries[k].size # 0}
        /\ \A k : PointOf(k, FALSE)' = [addr |-> entries[k].addr, entry |-> k, end |-> FALSE]
        /\ \A k : PointOf(k, TRUE)' = [addr |-> EndOf(entries[k]), entry |-> k, end |-> TRUE]
    BY <1>1 DEF NonEmpty, PointOf, PlaceOf, EndOf
  <1>8. /\ \A p \in points' : \E k \in NonEmpty', e \in BOOLEAN : p = PointOf(k, e)'
        /\ \A k \in NonEmpty', e \in BOOLEAN : PointOf(k, e)' \in points'
    <2>1. ASSUME NEW p \in points' PROVE \E k \in NonEmpty', e \in BOOLEAN : p = PointOf(k, e)'
      <3>1. PICK k \in DOMAIN entries : /\ entries[k].size # 0
                                        /\ \/ p = [addr |-> entries[k].addr, entry |-> k, end |-> FALSE]
                                           \/ p = [addr |-> EndOf(entries[k]), entry |-> k, end |-> TRUE]
        BY <1>6, Zenon
      <3>2. k \in NonEmpty'
        BY <1>7, <3>1
      <3>3. p = PointOf(k, FALSE)' \/ p = PointOf(k, TRUE)'
        BY <1>7, <3>1, Zenon
      <3> QED BY <3>2, <3>3
    <2>2. ASSUME NEW k \in NonEmpty' PROVE PointOf(k, FALSE)' \in points' /\ PointOf(k, TRUE)' \in points'
      <3>1. k \in DOMAIN entries /\ entries[k].size # 0
        BY <1>7
      <3> QED BY <1>6, <1>7, <3>1, Zenon
    <2> QED BY <2>1, <2>2
  <1>9. PointsInv'
    BY <1>8 DEF PointsInv
  <1>10. Highest(accepted', {}) = 0
    BY <1>1, <1>3, HighestIs
  <1>11. OverlapInv'
    <2>1. overlap' = {k \in NonEmpty' : PointOf(k, FALSE)' \notin points' /\ PointOf(k, TRUE)' \in points'}
      BY <1>1, <1>2, <1>8
    <2>2. last'.type = 0
      BY <1>1, <1>2
    <2>3. Highest(accepted, overlap)' = 0
      <3>1. Highest(accepted, overlap)' = Highest(accepted', overlap')
        BY DEF Highest
      <3> QED BY <1>1, <1>2, <1>10, <3>1
    <2> QED BY <2>1, <2>2, <2>3 DEF OverlapInv
  <1>12. points' \subseteq [addr : 0 .. (M - 1), entry : DOMAIN entries', end : BOOLEAN]
    <2>1. ASSUME NEW k \in DOMAIN entries PROVE entries[k].addr \in 0 .. (M - 1) /\ EndOf(entries[k]) \in 0 .. (M - 1)
      <3>1. entries[k].addr \in 0 .. (M - 1) /\ EndOf(entries[k]) \in Nat
        BY <1>3, EntryFacts
      <3> QED BY <1>3, <1>5, <3>1 DEF NoWrap
    <2>2. ASSUME NEW p \in points' PROVE p \in [addr : 0 .. (M - 1), entry : DOMAIN entries', end : BOOLEAN]
      <3>1. PICK k \in DOMAIN entries : /\ entries[k].size # 0
                                        /\ \/ p = [addr |-> entries[k].addr, entry |-> k, end |-> FALSE]
                                           \/ p = [addr |-> EndOf(entries[k]), entry |-> k, end |-> TRUE]
        BY <1>6, Zenon
      <3>2. PICK x \in 0 .. (M - 1), y \in 0 .. (M - 1) : x = entries[k].addr /\ y = EndOf(entries[k])
        BY <2>1
      <3>3. \E e \in BOOLEAN : p = [addr |-> x, entry |-> k, end |-> e] \/ p = [addr |-> y, entry |-> k, end |-> e]
        BY <3>1, <3>2
      <3>4. k \in DOMAIN entries'
        BY <1>1
      <3> QED BY <3>3, <3>4
    <2> QED BY <2>2
  <1>13. TypeOK'
    BY <1>1, <1>2, <1>3, <1>12 DEF MapInv, TypeOK, Entries
  <1>14. \A p \in points' : p.addr \in Nat
    BY <1>3, <1>12
  <1>15. BehindInv' /\ TouchInv'
    <2>1. \A p \in points' : 0 <= p.addr
      BY <1>14
    <2>2. last'.addr = 0 /\ out' = <<>> /\ DOMAIN out' = {}
      BY <1>1, <1>2
    <2> QED BY <2>1, <2>2 DEF BehindInv, TouchInv
  <1>16. SweptInv'
    <2> SUFFICES ASSUME NEW a \in 0 .. (M - 1), \A p \in points' : p.addr > a
                 PROVE  TypeAt(entries, a) = 0 /\ TypeAt(<<>>, a) = 0
      <3>1. last'.type = 0 /\ out' = <<>>
        BY <1>1, <1>2
      <3>2. \A a \in 0 .. (M - 1) : TypeAt(accepted, a)' = TypeAt(entries, a) /\ TypeAt(out, a)' = TypeAt(<<>>, a)
        BY <1>1, <1>2 DEF TypeAt, Covers
      <3> QED BY <3>1, <3>2 DEF SweptInv, Swept
    <2>1. TypeAt(<<>>, a) = 0
      <3>1. <<>> \in Seq(Entries) /\ DOMAIN <<>> = {}
        OBVIOUS
      <3> QED BY <3>1, TypeAtNone
    <2>2. ASSUME NEW k \in DOMAIN entries PROVE ~Covers(entries[k], a)
      <3>1. entries[k].addr \in Nat /\ entries[k].size \in Nat
        BY <1>3, EntryFacts
      <3>2. CASE entries[k].size = 0
        BY <1>3, <3>1, <3>2 DEF Covers
      <3>3. CASE entries[k].size # 0
        <4>1. [addr |-> entries[k].addr, entry |-> k, end |-> FALSE] \in points'
          BY <1>6, <3>3, Zenon
        <4>2. entries[k].addr > a
          BY <4>1
        <4> QED BY <1>3, <3>1, <4>2 DEF Covers
      <3> QED BY <3>2, <3>3
    <2> QED BY <1>3, <2>1, <2>2, TypeAtNone
  <1>17. ~Full'
    BY <1>1, <1>2, E820Constants DEF Full
  <1>18. SweepInv'
    <2>1. NoWrap(accepted)'
      BY <1>1, <1>5 DEF NoWrap, EndOf
    <2> QED BY <1>1, <1>2, <1>4, <1>9, <1>11, <1>15, <1>16, <1>17, <2>1 DEF SweepInv
  <1>19. TrueMap(out)'
    <2>1. out' = <<>>
      BY <1>1, <1>2
    <2> QED BY <2>1, EmptyMap DEF TrueMap, NoWrap, Disjoint
  <1>20. AddInv' /\ ResultInv' /\ CheckInv' /\ UpdateInv' /\ MappedAllIsExact'
    BY <1>1 DEF AddInv, ResultInv, CheckInv, UpdateInv, MappedAllIsExact
  <1> QED BY <1>1, <1>13, <1>18, <1>19, <1>20 DEF MapInv

\* When the points are used up no entry is open.
LEMMA FinishKeepsInv ==
  ASSUME MapInv, FinishSweep
  PROVE  MapInv'
  <1>1. /\ phase = "sweep" /\ points = {} /\ entries' = out /\ phase' = "check"
        /\ UNCHANGED <<given, accepted, points, overlap, out, last, i, start>>
    BY DEF FinishSweep
  <1>2. TypeOK /\ SweepInv /\ TrueMap(out)
    BY DEF MapInv
  <1>3. Resolved
    <2> SUFFICES ASSUME NEW a \in 0 .. (M - 1) PROVE TypeAt(out, a) = TypeAt(accepted, a) \/ (Full /\ TypeAt(out, a) = 0)
      BY DEF Resolved
    <2>1. CASE ~Full
      <3>1. overlap = {} /\ last.type = Highest(accepted, overlap)
        BY <1>1, <1>2, <2>1 DEF SweepInv, OverlapInv
      <3>2. Highest(accepted, {}) = 0
        <4>1. accepted \in Seq(Entries)
          BY <1>2 DEF TypeOK
        <4> QED BY <4>1, HighestIs
      <3> QED BY <1>1, <1>2, <2>1, <3>1, <3>2 DEF SweepInv, SweptInv, Swept
    <2>2. CASE Full
      <3>1. CASE TypeAt(out, a) = 0
        BY <2>2, <3>1
      <3>2. CASE TypeAt(out, a) # 0
        <4>1. PICK k \in DOMAIN out : Covers(out[k], a) /\ out[k].type = TypeAt(out, a)
          BY <1>2, <3>2, TypeInMap
        <4> QED BY <1>2, <4>1 DEF TrueMap
      <3> QED BY <3>1, <3>2
    <2> QED BY <2>1, <2>2
  <1>4. TypeOK'
    BY <1>1, <1>2 DEF TypeOK, Entries
  <1>5. TrueMap(out)'
    BY <1>1, <1>2, MapStays
  <1>6. ResultInv'
    BY <1>1, <1>3 DEF ResultInv, Resolved, TypeAt, Covers, Full
  <1>7. CheckInv'
    <2>1. i = 1 /\ start = VmmStart /\ accepted # <<>>
      BY <1>1, <1>2 DEF SweepInv
    <2>2. VmmStart \in VmmStart .. (VmmEnd - 1) /\ VmmStart .. (VmmStart - 1) = {} /\ 1 .. (i - 1) = {}
      BY <2>1, E820Constants
    <2>3. i \in 1 .. (Len(out) + 1)
      BY <1>2, <2>1 DEF TypeOK
    <2> QED BY <1>1, <2>1, <2>2, <2>3 DEF CheckInv
  <1>8. AddInv' /\ SweepInv' /\ UpdateInv' /\ MappedAllIsExact'
    BY <1>1 DEF AddInv, SweepInv, UpdateInv, MappedAllIsExact
  <1> QED BY <1>1, <1>4, <1>5, <1>6, <1>7, <1>8 DEF MapInv

\* What a step of e820_mapped_all does to start.
LEMMA StartAfterFacts ==
  ASSUME MapInv, phase = "check", i <= Len(entries)
  PROVE  LET e == out[i]
             s == StartAfter(entries[i])
         IN  /\ i \in DOMAIN out
             /\ \/ s = start /\ (e.type = E820_TYPE_RAM => EndOf(e) <= start \/ e.addr > start)
                \/ s = EndOf(e) /\ e.type = E820_TYPE_RAM /\ e.addr <= start /\ start < s
             /\ s \in Nat /\ start \in Nat /\ s \in 0 .. (M - 1)
  <1> DEFINE e == out[i]
             s == StartAfter(entries[i])
  <1>1. entries = out /\ start \in VmmStart .. (VmmEnd - 1) /\ i \in 1 .. (Len(out) + 1)
    BY DEF MapInv, CheckInv
  <1>2. TrueMap(out) /\ Len(out) \in Nat /\ DOMAIN out = 1 .. Len(out)
    BY EntryFacts DEF MapInv, TrueMap
  <1>3. i \in DOMAIN out
    BY <1>1, <1>2
  <1>4. End(e) = EndOf(e) /\ EndOf(e) \in 0 .. (M - 1) /\ e.addr \in Nat /\ EndOf(e) \in Nat
    BY <1>2, <1>3, EndInMap
  <1>5. M \in Nat /\ VmmStart \in Nat /\ VmmEnd \in 0 .. (M - 1) /\ start \in Nat /\ start < VmmEnd /\ start \in 0 .. (M - 1)
    BY <1>1, E820Constants
  <1> HIDE DEF e
  <1>6. s = IF e.type # E820_TYPE_RAM \/ e.addr >= VmmEnd \/ EndOf(e) <= start \/ e.addr > start
            THEN start ELSE EndOf(e)
    BY <1>1, <1>4 DEF StartAfter, e
  <1>7. CASE e.type # E820_TYPE_RAM \/ e.addr >= VmmEnd \/ EndOf(e) <= start \/ e.addr > start
    <2>1. s = start
      BY <1>6, <1>7
    <2>2. e.type = E820_TYPE_RAM => EndOf(e) <= start \/ e.addr > start
      BY <1>4, <1>5, <1>7
    <2> QED BY <1>3, <1>5, <2>1, <2>2 DEF e
  <1>8. CASE ~(e.type # E820_TYPE_RAM \/ e.addr >= VmmEnd \/ EndOf(e) <= start \/ e.addr > start)
    <2>1. s = EndOf(e)
      BY <1>6, <1>8
    <2>2. e.addr <= start /\ start < EndOf(e)
      BY <1>4, <1>5, <1>8
    <2> QED BY <1>3, <1>4, <1>5, <1>8, <2>1, <2>2 DEF e
  <1> QED BY <1>7, <1>8

\* All of the map up to s is RAM once the loop has moved there.
LEMMA RamUpTo ==
  ASSUME MapInv, phase = "check", i <= Len(entries),
         NEW a \in Nat, VmmStart <= a, a < StartAfter(entries[i])
  PROVE  TypeAt(out, a) = E820_TYPE_RAM
  <1> DEFINE s == StartAfter(entries[i])
  <1>1. /\ i \in DOMAIN out
        /\ \/ s = start
           \/ s = EndOf(out[i]) /\ out[i].type = E820_TYPE_RAM /\ out[i].addr <= start /\ start < s
        /\ s \in Nat /\ start \in Nat /\ s \in 0 .. (M - 1)
    BY StartAfterFacts
  <1> HIDE DEF s
  <1>0. a < s /\ VmmStart \in Nat /\ M \in Nat
    BY E820Constants DEF s
  <1>2. CASE a < start
    <2>1. a \in VmmStart .. (start - 1)
      BY <1>0, <1>1, <1>2
    <2> QED BY <2>1 DEF MapInv, CheckInv
  <1>3. CASE ~(a < start)
    <2>1. s = EndOf(out[i]) /\ out[i].type = E820_TYPE_RAM /\ out[i].addr <= start
      BY <1>0, <1>1, <1>3
    <2>2. out[i].addr \in Nat /\ EndOf(out[i]) = out[i].addr + out[i].size
      BY <1>1, EndInMap DEF MapInv
    <2>3. Covers(out[i], a)
      BY <1>0, <1>1, <1>3, <2>1, <2>2 DEF Covers
    <2>4. a \in 0 .. (M - 1)
      BY <1>0, <1>1
    <2> QED BY <1>1, <2>1, <2>3, <2>4, TypeInMap DEF MapInv
  <1> QED BY <1>2, <1>3

\* If all of the image is RAM, one entry holds it: neighbours of one type are merged.
LEMMA OneEntryHolds ==
  ASSUME TrueMap(out), \A a \in VmmStart .. (VmmEnd - 1) : TypeAt(out, a) = E820_TYPE_RAM
  PROVE  \E k \in DOMAIN out : Holds(k)
  <1>1. VmmStart \in Nat /\ VmmEnd \in Nat /\ VmmStart < VmmEnd /\ M \in Nat /\ VmmEnd < M
    BY E820Constants
  <1>2. DOMAIN out = 1 .. Len(out) /\ Len(out) \in Nat
    BY EntryFacts DEF TrueMap
  <1>3. ASSUME NEW a \in VmmStart .. (VmmEnd - 1)
        PROVE  \E k \in DOMAIN out : out[k].type = E820_TYPE_RAM /\ out[k].addr <= a /\ a < EndOf(out[k])
    <2>1. a \in 0 .. (M - 1) /\ TypeAt(out, a) = E820_TYPE_RAM /\ TypeAt(out, a) # 0
      BY <1>1 DEF E820_TYPE_RAM
    <2>2. PICK k \in DOMAIN out : Covers(out[k], a) /\ out[k].type = E820_TYPE_RAM
      BY <2>1, TypeInMap
    <2> QED BY <2>2 DEF Covers, EndOf
  <1>4. PICK k \in DOMAIN out : out[k].type = E820_TYPE_RAM /\ out[k].addr <= VmmStart /\ VmmStart < EndOf(out[k])
    BY <1>1, <1>3
  <1>5. out[k].addr \in Nat /\ EndOf(out[k]) \in Nat
    BY EndInMap
  <1>6. VmmEnd <= EndOf(out[k])
    <2> SUFFICES ASSUME EndOf(out[k]) < VmmEnd PROVE FALSE
      BY <1>1, <1>5
    <2>1. EndOf(out[k]) \in VmmStart .. (VmmEnd - 1)
      BY <1>1, <1>4, <1>5
    <2>2. PICK j \in DOMAIN out : /\ out[j].type = E820_TYPE_RAM /\ out[j].addr <= EndOf(out[k])
                                  /\ EndOf(out[k]) < EndOf(out[j])
      BY <1>3, <2>1
    <2>3. out[j].addr \in Nat /\ EndOf(out[j]) \in Nat /\ out[k].addr < EndOf(out[k])
      BY EndInMap
    <2>4. k < j
      <3>1. k # j
        BY <1>5, <2>2
      <3>2. ~(j < k)
        <4> SUFFICES ASSUME j < k PROVE FALSE
          OBVIOUS
        <4>1. EndOf(out[j]) <= out[k].addr
          BY MapIsSorted
        <4> QED BY <1>5, <2>2, <2>3, <4>1
      <3> QED BY <1>2, <3>1, <3>2
    <2>5. k + 1 \in DOMAIN out /\ k \in 1 .. (Len(out) - 1)
      BY <1>2, <2>4
    <2>6. /\ out[k + 1].addr \in Nat /\ EndOf(out[k + 1]) \in Nat /\ out[k + 1].addr < EndOf(out[k + 1])
      BY <2>5, EndInMap
    <2>7. \/ EndOf(out[k]) < out[k + 1].addr
          \/ EndOf(out[k]) = out[k + 1].addr /\ out[k].type # out[k + 1].type
      BY <2>5 DEF TrueMap, Disjoint
    <2>8. CASE j = k + 1
      BY <1>4, <1>5, <2>2, <2>6, <2>7, <2>8
    <2>9. CASE j # k + 1
      <3>1. k + 1 < j
        BY <1>2, <2>4, <2>9
      <3>2. EndOf(out[k + 1]) <= out[j].addr
        BY <2>5, <3>1, MapIsSorted
      <3> QED BY <1>5, <2>2, <2>3, <2>6, <2>7, <3>2
    <2> QED BY <2>8, <2>9
  <1> QED BY <1>4, <1>6 DEF Holds

\* While entries is the only table that changes, the facts about the new table stay.
LEMMA TablesStay ==
  ASSUME MapInv, UNCHANGED <<accepted, out>>
  PROVE  /\ TrueMap(out)' /\ Resolved' = Resolved
         /\ \A k : Holds(k)' = Holds(k)
         /\ \A a : TypeAt(out, a)' = TypeAt(out, a)
         /\ \A k : EndOf(out[k])' = EndOf(out[k])
  <1>1. TrueMap(out)'
    BY MapStays DEF MapInv
  <1>2. (Resolved' = Resolved) /\ (\A k : Holds(k)' = Holds(k)) /\ (\A a : TypeAt(out, a)' = TypeAt(out, a))
    BY DEF Resolved, Holds, TypeAt, Covers, EndOf, Full
  <1>3. \A k : EndOf(out[k])' = EndOf(out[k])
    BY DEF EndOf
  <1> QED BY <1>1, <1>2, <1>3

LEMMA CheckKeepsInv ==
  ASSUME MapInv, CheckEntry
  PROVE  MapInv'
  <1> DEFINE s == StartAfter(entries[i])
  <1>1. /\ phase = "check" /\ i <= Len(entries) /\ start' = s
        /\ UNCHANGED <<given, entries, accepted, points, overlap, out, last>>
        /\ s >= VmmEnd => phase' = "update" /\ i' = 1
        /\ ~(s >= VmmEnd) => phase' = phase /\ i' = i + 1
    BY DEF CheckEntry
  <1>2. /\ entries = out /\ start \in VmmStart .. (VmmEnd - 1) /\ i \in 1 .. (Len(out) + 1)
        /\ points = {} /\ accepted # <<>> /\ Resolved
        /\ \A k \in 1 .. (i - 1) : out[k].type = E820_TYPE_RAM => EndOf(out[k]) <= start \/ out[k].addr > start
    BY <1>1 DEF MapInv, CheckInv, ResultInv
  <1>3. /\ i \in DOMAIN out
        /\ \/ s = start /\ (out[i].type = E820_TYPE_RAM => EndOf(out[i]) <= start \/ out[i].addr > start)
           \/ s = EndOf(out[i]) /\ out[i].type = E820_TYPE_RAM /\ out[i].addr <= start /\ start < s
        /\ s \in Nat /\ start \in Nat /\ s \in 0 .. (M - 1)
    BY <1>1, StartAfterFacts
  <1>4. \A a \in Nat : VmmStart <= a /\ a < s => TypeAt(out, a) = E820_TYPE_RAM
    BY <1>1, RamUpTo
  <1> HIDE DEF s
  <1>5. /\ TrueMap(out)' /\ Resolved' /\ (\A k : Holds(k)' = Holds(k)) /\ (\A a : TypeAt(out, a)' = TypeAt(out, a))
        /\ \A k : EndOf(out[k])' = EndOf(out[k])
    BY <1>1, <1>2, TablesStay
  <1>6. Len(out) \in Nat /\ DOMAIN out = 1 .. Len(out) /\ Len(out) <= MaxEntries /\ MaxEntries \in Nat
    BY EntryFacts, E820Constants DEF MapInv, TypeOK
  <1>7. VmmStart \in Nat /\ VmmEnd \in Nat /\ VmmStart <= start /\ start < VmmEnd
    BY <1>2, E820Constants
  <1>8. CASE s >= VmmEnd
    <2>1. phase' = "update" /\ i' = 1
      BY <1>1, <1>8
    <2>2. \A a \in VmmStart .. (VmmEnd - 1) : TypeAt(out, a) = E820_TYPE_RAM
      BY <1>3, <1>4, <1>7, <1>8
    <2>3. PICK k \in DOMAIN out : Holds(k)
      BY <2>2, OneEntryHolds DEF MapInv
    <2>4. 1 <= k
      BY <1>6
    <2>5. UpdateInv'
      <3>1. i' \in 1 .. (Len(entries') + 1) /\ points' = {}
        BY <1>1, <1>2, <1>6, <2>1
      <3>2. Holds(k)' /\ entries' = IF i' <= k THEN out' ELSE UpdateEntry(out, k)'
        BY <1>1, <1>2, <1>5, <2>1, <2>3, <2>4
      <3>3. k \in DOMAIN out'
        BY <1>1
      <3> QED BY <2>1, <3>1, <3>2, <3>3 DEF UpdateInv
    <2>6. TypeOK'
      <3>1. i' \in 1 .. (MaxEntries + 1)
        BY <1>6, <2>1
      <3> QED BY <1>1, <1>2, <1>3, <2>1, <3>1 DEF MapInv, TypeOK, Entries
    <2>7. MappedAllIsExact'
      BY <1>5, <2>1, <2>2 DEF MappedAllIsExact
    <2>8. AddInv' /\ SweepInv' /\ ResultInv' /\ CheckInv'
      BY <1>5, <2>1 DEF AddInv, SweepInv, ResultInv, CheckInv
    <2> QED BY <1>5, <2>1, <2>5, <2>6, <2>7, <2>8 DEF MapInv
  <1>9. CASE ~(s >= VmmEnd)
    <2>1. phase' = "check" /\ i' = i + 1 /\ i' \in 1 .. (Len(out) + 1) /\ i' - 1 = i
      BY <1>1, <1>3, <1>6, <1>9
    <2>2. s \in VmmStart .. (VmmEnd - 1) /\ start <= s
      BY <1>3, <1>7, <1>9
    <2>3. \A a \in VmmStart .. (s - 1) : TypeAt(out, a) = E820_TYPE_RAM
      BY <1>3, <1>4, <1>7
    <2>4. ASSUME NEW k \in 1 .. i, out[k].type = E820_TYPE_RAM
          PROVE  EndOf(out[k]) <= s \/ out[k].addr > s
      <3>1. k \in DOMAIN out /\ EndOf(out[k]) \in Nat /\ out[k].addr \in Nat /\ out[k].addr < EndOf(out[k])
        <4>1. k \in DOMAIN out
          BY <1>3, <1>6
        <4> QED BY <4>1, EndInMap DEF MapInv
      <3>2. CASE k = i
        BY <1>3, <2>4, <3>1, <3>2
      <3>3. CASE k # i
        <4>1. k \in 1 .. (i - 1) /\ k < i
          BY <1>3, <1>6, <3>3
        <4>2. EndOf(out[k]) <= start \/ out[k].addr > start
          BY <1>2, <2>4, <4>1
        <4>3. CASE s = start
          BY <4>2, <4>3
        <4>4. CASE s # start
          <5>1. out[i].addr <= start
            BY <1>3, <4>4
          <5>2. EndOf(out[k]) <= out[i].addr
            BY <1>3, <3>1, <4>1, MapIsSorted DEF MapInv
          <5>3. out[i].addr \in Nat
            BY <1>3, EndInMap DEF MapInv
          <5> QED BY <1>3, <2>2, <3>1, <5>1, <5>2, <5>3
        <4> QED BY <4>3, <4>4
      <3> QED BY <3>2, <3>3
    <2>5. CheckInv'
      <3>1. entries' = out' /\ start' \in VmmStart .. (VmmEnd - 1) /\ i' \in 1 .. (Len(out') + 1) /\ points' = {} /\ accepted' # <<>>
        BY <1>1, <1>2, <2>1, <2>2
      <3>2. \A a \in VmmStart .. (start' - 1) : TypeAt(out, a)' = E820_TYPE_RAM
        BY <1>1, <1>5, <2>3
      <3>3. \A k \in 1 .. (i' - 1) : out'[k].type = E820_TYPE_RAM => EndOf(out[k])' <= start' \/ out'[k].addr > start'
        BY <1>1, <1>5, <2>1, <2>4
      <3> QED BY <2>1, <3>1, <3>2, <3>3 DEF CheckInv, E820_TYPE_RAM
    <2>6. TypeOK'
      <3>1. i' \in 1 .. (MaxEntries + 1)
        BY <1>6, <2>1
      <3> QED BY <1>1, <1>2, <1>3, <2>1, <3>1 DEF MapInv, TypeOK, Entries
    <2>7. AddInv' /\ SweepInv' /\ ResultInv' /\ UpdateInv' /\ MappedAllIsExact'
      BY <1>5, <2>1 DEF AddInv, SweepInv, ResultInv, UpdateInv, MappedAllIsExact
    <2> QED BY <1>5, <2>1, <2>5, <2>6, <2>7 DEF MapInv
  <1> QED BY <1>8, <1>9

\* When the loop runs out of entries no RAM entry contains start.
LEMMA CheckFailsKeepsInv ==
  ASSUME MapInv, CheckFails
  PROVE  MapInv'
  <1>1. /\ phase = "check" /\ i > Len(entries) /\ phase' = "panic"
        /\ UNCHANGED <<given, entries, accepted, points, overlap, out, last, i, start>>
    BY DEF CheckFails
  <1>2. /\ entries = out /\ start \in VmmStart .. (VmmEnd - 1) /\ i \in 1 .. (Len(out) + 1)
        /\ points = {} /\ accepted # <<>>
        /\ \A k \in 1 .. (i - 1) : out[k].type = E820_TYPE_RAM => EndOf(out[k]) <= start \/ out[k].addr > start
    BY <1>1 DEF MapInv, CheckInv
  <1>3. Len(out) \in Nat /\ DOMAIN out = 1 .. Len(out)
    BY EntryFacts DEF MapInv, TypeOK
  <1>4. 1 .. (i - 1) = DOMAIN out
    BY <1>1, <1>2, <1>3
  <1>5. start \in 0 .. (M - 1) /\ start \in Nat
    BY <1>2, E820Constants
  <1>6. TypeAt(out, start) # E820_TYPE_RAM
    <2> SUFFICES ASSUME TypeAt(out, start) = E820_TYPE_RAM PROVE FALSE
      OBVIOUS
    <2>1. PICK k \in DOMAIN out : Covers(out[k], start) /\ out[k].type = E820_TYPE_RAM
      BY <1>5, TypeInMap DEF MapInv, E820_TYPE_RAM
    <2>2. EndOf(out[k]) \in Nat /\ out[k].addr \in Nat /\ EndOf(out[k]) = out[k].addr + out[k].size
      BY EndInMap DEF MapInv
    <2>3. EndOf(out[k]) <= start \/ out[k].addr > start
      BY <1>2, <1>4, <2>1
    <2> QED BY <1>5, <2>1, <2>2, <2>3 DEF Covers
  <1>7. TrueMap(out)' /\ \A a : TypeAt(out, a)' = TypeAt(out, a)
    BY <1>1, TablesStay
  <1>8. MappedAllIsExact'
    BY <1>1, <1>2, <1>6, <1>7 DEF MappedAllIsExact, E820_TYPE_RAM
  <1>9. TypeOK'
    BY <1>1 DEF MapInv, TypeOK, Entries
  <1>10. AddInv' /\ SweepInv' /\ ResultInv' /\ CheckInv' /\ UpdateInv'
    BY <1>1, <1>2 DEF AddInv, SweepInv, ResultInv, CheckInv, UpdateInv
  <1> QED BY <1>1, <1>2, <1>7, <1>8, <1>9, <1>10 DEF MapInv

\* An entry that __e820_range_update passes over: not RAM, or clear of the image.
Clear(e) ==
  /\ e \in Entries /\ EndOf(e) < M
  /\ e.type = E820_TYPE_RAM => e.size > 0 /\ (EndOf(e) <= VmmStart \/ VmmEnd <= e.addr)

LEMMA ClearIsSkipped ==
  ASSUME NEW tab, NEW k, Clear(tab[k])
  PROVE  UpdateEntry(tab, k) = tab
  <1>1. PICK e \in Entries : e = tab[k]
    BY DEF Clear
  <1>2. CASE e.type # E820_TYPE_RAM
    BY <1>1, <1>2 DEF UpdateEntry
  <1>3. CASE e.type = E820_TYPE_RAM
    <2>1. /\ End(e) = EndOf(e) /\ EndOf(e) = e.addr + e.size /\ e.size > 0
          /\ EndOf(e) <= VmmStart \/ VmmEnd <= e.addr
      BY <1>1, <1>3, EndFacts DEF Clear, EndOf
    <2>2. e.addr \in Nat /\ e.size \in Nat /\ VmmStart \in Nat /\ VmmEnd \in Nat /\ VmmStart < VmmEnd
      BY E820Constants DEF Entries
    <2>3. PICK x \in Nat : x = End(e) /\ e.addr < x /\ (x <= VmmStart \/ VmmEnd <= e.addr)
      BY <2>1, <2>2
    <2>4. /\ Max({VmmStart, e.addr}) = IF VmmStart >= e.addr THEN VmmStart ELSE e.addr
          /\ Min({VmmEnd, x}) = IF VmmEnd <= x THEN VmmEnd ELSE x
      BY <2>2, MaxMinOfTwo
    <2>5. Max({VmmStart, e.addr}) >= Min({VmmEnd, x})
      BY <2>2, <2>3, <2>4
    <2>6. ~(e.addr >= VmmStart /\ x <= VmmEnd) /\ ~(e.addr < VmmStart /\ x > VmmEnd)
      BY <2>2, <2>3
    <2> QED BY <1>1, <1>3, <2>3, <2>5, <2>6, Zenon DEF UpdateEntry
  <1> QED BY <1>2, <1>3

\* The other entries of a map in which entry k holds the image are clear of it.
LEMMA OthersAreClear ==
  ASSUME TrueMap(out), NEW k \in DOMAIN out, Holds(k), NEW j \in DOMAIN out, j # k
  PROVE  Clear(out[j])
  <1>1. EndOf(out[k]) <= out[j].addr \/ EndOf(out[j]) <= out[k].addr
    BY MapIsDisjoint
  <1>2. /\ out[j] \in Entries /\ EndOf(out[j]) \in 0 .. (M - 1) /\ out[j].size > 0 /\ out[j].addr \in Nat
        /\ out[k].addr \in Nat /\ EndOf(out[k]) \in Nat /\ EndOf(out[j]) \in Nat
    BY EndInMap
  <1>3. VmmStart \in Nat /\ VmmEnd \in Nat /\ M \in Nat
    BY E820Constants
  <1>4. EndOf(out[j]) <= VmmStart \/ VmmEnd <= out[j].addr
    BY <1>1, <1>2, <1>3 DEF Holds
  <1>5. EndOf(out[j]) < M
    BY <1>2, <1>3
  <1> QED BY <1>2, <1>4, <1>5 DEF Clear

\* One of the pieces that e820_range_update leaves of entry k: reserved and in the image,
\* or RAM of the entry outside of it.
Piece(e, k) ==
  /\ e \in Entries /\ EndOf(e) < M /\ e.size > 0
  /\ out[k].addr <= e.addr /\ EndOf(e) <= EndOf(out[k])
  /\ \/ e.type = E820_TYPE_RESERVED /\ VmmStart <= e.addr /\ EndOf(e) <= VmmEnd
     \/ e.type = E820_TYPE_RAM /\ (EndOf(e) <= VmmStart \/ VmmEnd <= e.addr)

\* A table in which entry k was replaced by pieces of it.
Split(tab, k) ==
  /\ tab \in Seq(Entries) /\ Len(out) <= Len(tab) /\ Len(tab) <= MaxEntries
  /\ \A j \in DOMAIN out : j # k => tab[j] = out[j]
  /\ \A j \in DOMAIN tab : j = k \/ j > Len(out) => Piece(tab[j], k)
  /\ Len(tab) < MaxEntries =>
       \A a \in 0 .. (M - 1) : Covers(out[k], a) =>
         \E j \in DOMAIN tab : (j = k \/ j > Len(out)) /\ Covers(tab[j], a)

\* A piece from its bounds.
LEMMA PieceIs ==
  ASSUME TrueMap(out), NEW k \in DOMAIN out, NEW x \in Nat, NEW y \in Nat, NEW t \in Nat,
         out[k].addr <= x, x < y, y <= EndOf(out[k]),
         \/ t = E820_TYPE_RESERVED /\ VmmStart <= x /\ y <= VmmEnd
         \/ t = E820_TYPE_RAM /\ (y <= VmmStart \/ VmmEnd <= x)
  PROVE  /\ Entry(x, y - x, t) \in Entries /\ Piece(Entry(x, y - x, t), k) /\ EndOf(Entry(x, y - x, t)) = y
         /\ x \in 0 .. (M - 1) /\ y - x \in 0 .. (M - 1)
  <1>1. EndOf(out[k]) \in 0 .. (M - 1) /\ M \in Nat
    BY EndInMap, E820Constants
  <1>2. x \in 0 .. (M - 1) /\ y - x \in 0 .. (M - 1) /\ x + (y - x) = y /\ y - x > 0 /\ y < M
    BY <1>1
  <1>3. PICK e : e = Entry(x, y - x, t)
    OBVIOUS
  <1>4. e \in Entries /\ e.addr = x /\ e.size = y - x /\ e.type = t /\ EndOf(e) = y
    BY <1>2, <1>3 DEF Entry, Entries, EndOf
  <1>5. Piece(e, k)
    BY <1>2, <1>4 DEF Piece
  <1> QED BY <1>2, <1>3, <1>4, <1>5

\* Appending pieces of entry k and making k one too splits it.
LEMMA SplitIs ==
  ASSUME TrueMap(out), NEW k \in DOMAIN out, NEW all \in Seq(Entries), NEW p, Piece(p, k),
         Len(out) <= Len(all), Len(all) <= MaxEntries,
         \A j \in DOMAIN out : all[j] = out[j],
         \A j \in DOMAIN all : j > Len(out) => Piece(all[j], k),
         Len(all) < MaxEntries =>
           \A a \in 0 .. (M - 1) : Covers(out[k], a) =>
             Covers(p, a) \/ \E j \in DOMAIN all : j > Len(out) /\ Covers(all[j], a)
  PROVE  Split([all EXCEPT ![k] = p], k)
  <1> DEFINE tab == [all EXCEPT ![k] = p]
  <1>1. DOMAIN out = 1 .. Len(out) /\ Len(out) \in Nat /\ DOMAIN all = 1 .. Len(all) /\ Len(all) \in Nat
    BY EntryFacts DEF TrueMap
  <1>2. k \in DOMAIN all /\ p \in Entries /\ ~(k > Len(out))
    BY <1>1 DEF Piece
  <1>3. /\ tab \in Seq(Entries) /\ Len(tab) = Len(all) /\ DOMAIN tab = DOMAIN all /\ tab[k] = p
        /\ \A j \in DOMAIN all : j # k => tab[j] = all[j]
    BY <1>1, <1>2
  <1> HIDE DEF tab
  <1>4. ASSUME NEW j \in DOMAIN out, j # k PROVE tab[j] = out[j]
    BY <1>1, <1>3, <1>4
  <1>5. ASSUME NEW j \in DOMAIN tab, j = k \/ j > Len(out) PROVE Piece(tab[j], k)
    BY <1>2, <1>3, <1>5
  <1>6. ASSUME Len(tab) < MaxEntries, NEW a \in 0 .. (M - 1), Covers(out[k], a)
        PROVE  \E j \in DOMAIN tab : (j = k \/ j > Len(out)) /\ Covers(tab[j], a)
    <2>1. Covers(p, a) \/ \E j \in DOMAIN all : j > Len(out) /\ Covers(all[j], a)
      BY <1>3, <1>6
    <2>2. CASE Covers(p, a)
      BY <1>2, <1>3, <2>2
    <2>3. CASE \E j \in DOMAIN all : j > Len(out) /\ Covers(all[j], a)
      <3>1. PICK j \in DOMAIN all : j > Len(out) /\ Covers(all[j], a)
        BY <2>3
      <3> QED BY <1>2, <1>3, <3>1
    <2> QED BY <2>1, <2>2, <2>3
  <1>7. Len(out) <= Len(tab) /\ Len(tab) <= MaxEntries
    BY <1>3
  <1>8. Split(tab, k)
    BY <1>3, <1>4, <1>5, <1>6, <1>7 DEF Split
  <1> QED BY <1>8 DEF tab

\* What an entry made by Entry contains.
LEMMA EntryCovers ==
  ASSUME NEW x \in Nat, NEW y \in Nat, x < y, NEW t, NEW a \in Nat
  PROVE  Covers(Entry(x, y - x, t), a) <=> x <= a /\ a < y
  <1>1. Entry(x, y - x, t).addr = x /\ Entry(x, y - x, t).size = y - x
    BY DEF Entry
  <1>2. x + (y - x) = y
    OBVIOUS
  <1> QED BY <1>1, <1>2 DEF Covers

\* e820_range_update splits the entry that holds the image.
LEMMA UpdateSplits ==
  ASSUME TrueMap(out), Len(out) <= MaxEntries, NEW k \in DOMAIN out, Holds(k)
  PROVE  Split(UpdateEntry(out, k), k)
  <1>0. PICK n \in Nat : n = Len(out) /\ n <= MaxEntries
    BY EntryFacts DEF TrueMap
  <1> DEFINE e == out[k]
             RES == E820_TYPE_RESERVED
             res == Entry(VmmStart, VmmEnd - VmmStart, RES)
             mid == e820_range_add(out, VmmStart, VmmEnd - VmmStart, RES)
  <1>1. /\ out \in Seq(Entries) /\ n \in Nat /\ DOMAIN out = 1 .. n /\ MaxEntries \in Nat
        /\ VmmStart \in Nat /\ VmmEnd \in Nat /\ VmmStart < VmmEnd /\ M \in Nat /\ RES \in Nat /\ RES = 2
        /\ VmmStart \in 0 .. (M - 1) /\ VmmEnd \in 0 .. (M - 1) /\ k \in 1 .. n
    BY <1>0, EntryFacts, E820Constants DEF TrueMap, E820_TYPE_RESERVED
  <1>2. /\ End(e) = EndOf(e) /\ EndOf(e) \in 0 .. (M - 1) /\ e \in Entries /\ e.addr \in Nat /\ e.size \in Nat
        /\ EndOf(e) \in Nat /\ EndOf(e) = e.addr + e.size /\ e.addr <= VmmStart /\ VmmEnd <= EndOf(e)
        /\ e.type = E820_TYPE_RAM
    BY EndInMap DEF Holds
  <1>3. PICK A \in Nat, B \in Nat : A = e.addr /\ B = EndOf(e) /\ A <= VmmStart /\ VmmEnd <= B /\ B = A + e.size
    BY <1>2
  <1>4. e = Entry(A, B - A, E820_TYPE_RAM) /\ e.size = B - A /\ E820_TYPE_RAM \in Nat /\ E820_TYPE_RAM # RES
    <2>1. e.size = B - A
      BY <1>2, <1>3
    <2> QED BY <1>2, <1>3, <2>1 DEF Entries, Entry, E820_TYPE_RAM, E820_TYPE_RESERVED
  <1> HIDE DEF e, RES
  <1>5. Piece(res, k) /\ VmmEnd - VmmStart \in 0 .. (M - 1)
    <2>1. out[k].addr <= VmmStart /\ VmmEnd <= EndOf(out[k]) /\ VmmStart <= VmmStart /\ VmmEnd <= VmmEnd
      BY <1>1, <1>3 DEF e
    <2> QED BY <1>1, <2>1, PieceIs, Zenon DEF RES, res
  <1>6. \A a \in 0 .. (M - 1) : (Covers(res, a) <=> VmmStart <= a /\ a < VmmEnd) /\ (Covers(out[k], a) <=> A <= a /\ a < B)
    <2> TAKE a \in 0 .. (M - 1)
    <2>1. a \in Nat /\ A < B
      BY <1>1, <1>3
    <2>2. Covers(Entry(A, B - A, E820_TYPE_RAM), a) <=> A <= a /\ a < B
      BY <2>1, EntryCovers
    <2>3. Covers(res, a) <=> VmmStart <= a /\ a < VmmEnd
      BY <1>1, <2>1, EntryCovers
    <2> QED BY <1>4, <2>2, <2>3 DEF e
  <1> HIDE DEF res
  <1>7. /\ mid \in Seq(Entries) /\ Len(mid) <= MaxEntries /\ n <= Len(mid)
        /\ n = MaxEntries => mid = out
        /\ n < MaxEntries => Len(mid) = n + 1 /\ mid[n + 1] = res
        /\ \A j \in DOMAIN out : j \in DOMAIN mid /\ mid[j] = out[j]
    <2>1. /\ mid \in Seq(Entries) /\ Len(mid) <= MaxEntries /\ Len(out) <= Len(mid)
          /\ Len(out) = MaxEntries => mid = out
          /\ Len(out) < MaxEntries => Len(mid) = Len(out) + 1 /\ mid[Len(out) + 1] = res
          /\ \A j \in DOMAIN out : j \in DOMAIN mid /\ mid[j] = out[j]
      BY <1>1, <1>5, RangeAddFacts DEF res
    <2> HIDE DEF mid
    <2> QED BY <1>0, <2>1, Zenon
  <1>8. Max({VmmStart, A}) = VmmStart /\ Min({VmmEnd, B}) = VmmEnd
    BY <1>1, <1>3, MaxMinOfTwo
  <1>9. UpdateEntry(out, k) =
          IF A >= VmmStart /\ B <= VmmEnd
          THEN [out EXCEPT ![k].type = RES]
          ELSE IF A < VmmStart /\ B > VmmEnd
          THEN [e820_range_add(mid, VmmEnd, B - VmmEnd, E820_TYPE_RAM) EXCEPT ![k].size = VmmStart - A]
          ELSE IF VmmStart >= VmmEnd THEN out
          ELSE [mid EXCEPT ![k].size = @ - (VmmEnd - VmmStart),
                           ![k].addr = IF @ < VmmStart THEN @ ELSE VmmEnd]
    BY <1>2, <1>3, <1>8, Zenon DEF UpdateEntry, e, RES
  <1> HIDE DEF mid
  \* The entries after the table, when only the image was appended.
  <1>10. /\ \A j \in DOMAIN mid : j > n => Piece(mid[j], k)
         /\ n < MaxEntries => n + 1 \in DOMAIN mid /\ mid[n + 1] = res
    <2>1. PICK m \in Nat : m = Len(mid) /\ DOMAIN mid = 1 .. m
      BY <1>7
    <2>2. n = MaxEntries \/ n < MaxEntries
      BY <1>0, <1>1
    <2>3. ASSUME NEW j \in DOMAIN mid, j > n PROVE Piece(mid[j], k)
      <3>1. n < MaxEntries
        <4>1. n = MaxEntries => DOMAIN mid = 1 .. n
          BY <1>1, <1>7
        <4> QED BY <1>1, <2>2, <2>3, <4>1
      <3>2. j = n + 1
        <4>1. m = n + 1
          BY <1>7, <2>1, <3>1
        <4> QED BY <1>1, <2>1, <2>3, <4>1
      <3> QED BY <1>5, <1>7, <3>1, <3>2
    <2>4. ASSUME n < MaxEntries PROVE n + 1 \in DOMAIN mid /\ mid[n + 1] = res
      <3>1. m = n + 1 /\ mid[n + 1] = res
        BY <1>7, <2>1, <2>4
      <3> QED BY <2>1, <3>1
    <2> QED BY <2>3, <2>4
  <1>11. mid[k] = e /\ k \in DOMAIN mid
    BY <1>7 DEF e
  <1>12. CASE A = VmmStart /\ B = VmmEnd
    <2>1. UpdateEntry(out, k) = [out EXCEPT ![k] = [e EXCEPT !.type = RES]]
      <3>1. A >= VmmStart /\ B <= VmmEnd
        BY <1>3, <1>12
      <3> QED BY <1>9, <3>1 DEF e
    <2>2. [e EXCEPT !.type = RES] = res
      BY <1>4, <1>12 DEF Entry, res
    <2>3. Split([out EXCEPT ![k] = res], k)
      <3>1. \A j \in DOMAIN out : ~(j > Len(out))
        BY <1>0, <1>1
      <3>2. \A a \in 0 .. (M - 1) : Covers(out[k], a) => Covers(res, a)
        BY <1>6, <1>12
      <3>3. Len(out) <= Len(out)
        BY <1>0
      <3> QED BY <1>1, <1>5, <3>1, <3>2, <3>3, SplitIs, Zenon
    <2> QED BY <2>1, <2>2, <2>3
  <1>13. CASE A < VmmStart /\ B = VmmEnd
    <2> DEFINE p == Entry(A, VmmStart - A, E820_TYPE_RAM)
    <2>1. Piece(p, k)
      <3>1. /\ out[k].addr <= A /\ VmmStart <= EndOf(out[k]) /\ VmmStart <= VmmStart
        BY <1>1, <1>3 DEF e
      <3> QED BY <1>1, <1>4, <1>13, <3>1, PieceIs, Zenon
    <2>2. \A a \in 0 .. (M - 1) : Covers(p, a) <=> A <= a /\ a < VmmStart
      <3> TAKE a \in 0 .. (M - 1)
      <3>1. a \in Nat
        BY <1>1
      <3> QED BY <1>1, <1>13, <3>1, EntryCovers
    <2>3. UpdateEntry(out, k) = [mid EXCEPT ![k] = [[e EXCEPT !.size = B - A - (VmmEnd - VmmStart)] EXCEPT !.addr = A]]
      <3>1. ~(A >= VmmStart /\ B <= VmmEnd) /\ ~(A < VmmStart /\ B > VmmEnd) /\ ~(VmmStart >= VmmEnd)
        BY <1>1, <1>3, <1>13
      <3>2. UpdateEntry(out, k) = [mid EXCEPT ![k].size = @ - (VmmEnd - VmmStart),
                                              ![k].addr = IF @ < VmmStart THEN @ ELSE VmmEnd]
        BY <1>9, <3>1
      <3>3. e.size = B - A /\ e.addr = A
        BY <1>3, <1>4
      <3> QED BY <1>11, <1>13, <3>2, <3>3
    <2>4. [[e EXCEPT !.size = B - A - (VmmEnd - VmmStart)] EXCEPT !.addr = A] = p
      <3>1. B - A - (VmmEnd - VmmStart) = VmmStart - A
        BY <1>1, <1>3, <1>13
      <3>2. ASSUME NEW v, NEW y PROVE [[e EXCEPT !.size = v] EXCEPT !.addr = y] = Entry(y, v, E820_TYPE_RAM)
        <4>1. PICK d : e = Entry(A, d, E820_TYPE_RAM)
          BY <1>4
        <4>2. PICK f : f = [e EXCEPT !.size = v]
          OBVIOUS
        <4>3. f = Entry(A, v, E820_TYPE_RAM)
          BY <4>1, <4>2 DEF Entry
        <4>4. [f EXCEPT !.addr = y] = Entry(y, v, E820_TYPE_RAM)
          BY <4>3 DEF Entry
        <4> QED BY <4>2, <4>4, Zenon
      <3> QED BY <3>1, <3>2, Zenon
    <2> HIDE DEF p
    <2>5. Split([mid EXCEPT ![k] = p], k)
      <3>1. ASSUME Len(mid) < MaxEntries, NEW a \in 0 .. (M - 1), Covers(out[k], a)
            PROVE  Covers(p, a) \/ \E j \in DOMAIN mid : j > n /\ Covers(mid[j], a)
        <4>1. n < MaxEntries /\ n + 1 > n
          <5>1. PICK m \in Nat : m = Len(mid)
            BY <1>7
          <5> QED BY <1>1, <1>7, <3>1, <5>1
        <4>2. A <= a /\ a < VmmEnd /\ a \in Nat
          BY <1>1, <1>6, <1>13, <3>1
        <4>3. CASE a < VmmStart
          BY <2>2, <4>2, <4>3
        <4>4. CASE ~(a < VmmStart)
          <5>1. Covers(res, a)
            BY <1>1, <1>6, <4>2, <4>4
          <5> QED BY <1>10, <4>1, <5>1
        <4> QED BY <4>3, <4>4
      <3> QED BY <1>0, <1>7, <1>10, <2>1, <3>1, SplitIs, Zenon
    <2> QED BY <2>3, <2>4, <2>5
  <1>14. CASE A = VmmStart /\ B > VmmEnd
    <2> DEFINE p == Entry(VmmEnd, B - VmmEnd, E820_TYPE_RAM)
    <2>1. Piece(p, k)
      <3>1. /\ out[k].addr <= VmmEnd /\ B <= EndOf(out[k]) /\ VmmEnd <= VmmEnd /\ VmmEnd < B
        BY <1>1, <1>3, <1>14 DEF e
      <3> QED BY <1>1, <1>3, <1>4, <3>1, PieceIs, Zenon
    <2>2. \A a \in 0 .. (M - 1) : Covers(p, a) <=> VmmEnd <= a /\ a < B
      <3> TAKE a \in 0 .. (M - 1)
      <3>1. a \in Nat
        BY <1>1
      <3> QED BY <1>1, <1>14, <3>1, EntryCovers
    <2>3. UpdateEntry(out, k) = [mid EXCEPT ![k] = [[e EXCEPT !.size = B - A - (VmmEnd - VmmStart)] EXCEPT !.addr = VmmEnd]]
      <3>1. ~(A >= VmmStart /\ B <= VmmEnd) /\ ~(A < VmmStart /\ B > VmmEnd) /\ ~(VmmStart >= VmmEnd) /\ ~(A < VmmStart)
        BY <1>1, <1>3, <1>14
      <3>2. UpdateEntry(out, k) = [mid EXCEPT ![k].size = @ - (VmmEnd - VmmStart),
                                              ![k].addr = IF @ < VmmStart THEN @ ELSE VmmEnd]
        BY <1>9, <3>1
      <3>3. e.size = B - A /\ e.addr = A
        BY <1>3, <1>4
      <3> QED BY <1>11, <3>1, <3>2, <3>3
    <2>4. [[e EXCEPT !.size = B - A - (VmmEnd - VmmStart)] EXCEPT !.addr = VmmEnd] = p
      <3>1. B - A - (VmmEnd - VmmStart) = B - VmmEnd
        BY <1>1, <1>3, <1>14
      <3>2. ASSUME NEW v, NEW y PROVE [[e EXCEPT !.size = v] EXCEPT !.addr = y] = Entry(y, v, E820_TYPE_RAM)
        <4>1. PICK d : e = Entry(A, d, E820_TYPE_RAM)
          BY <1>4
        <4>2. PICK f : f = [e EXCEPT !.size = v]
          OBVIOUS
        <4>3. f = Entry(A, v, E820_TYPE_RAM)
          BY <4>1, <4>2 DEF Entry
        <4>4. [f EXCEPT !.addr = y] = Entry(y, v, E820_TYPE_RAM)
          BY <4>3 DEF Entry
        <4> QED BY <4>2, <4>4, Zenon
      <3> QED BY <3>1, <3>2, Zenon
    <2> HIDE DEF p
    <2>5. Split([mid EXCEPT ![k] = p], k)
      <3>1. ASSUME Len(mid) < MaxEntries, NEW a \in 0 .. (M - 1), Covers(out[k], a)
            PROVE  Covers(p, a) \/ \E j \in DOMAIN mid : j > n /\ Covers(mid[j], a)
        <4>1. n < MaxEntries /\ n + 1 > n
          <5>1. PICK m \in Nat : m = Len(mid)
            BY <1>7
          <5> QED BY <1>1, <1>7, <3>1, <5>1
        <4>2. VmmStart <= a /\ a < B /\ a \in Nat
          BY <1>1, <1>6, <1>14, <3>1
        <4>3. CASE VmmEnd <= a
          BY <2>2, <4>2, <4>3
        <4>4. CASE ~(VmmEnd <= a)
          <5>1. Covers(res, a)
            BY <1>1, <1>6, <4>2, <4>4
          <5> QED BY <1>10, <4>1, <5>1
        <4> QED BY <4>3, <4>4
      <3> QED BY <1>0, <1>7, <1>10, <2>1, <3>1, SplitIs, Zenon
    <2> QED BY <2>3, <2>4, <2>5
  <1>15. CASE A < VmmStart /\ B > VmmEnd
    <2> DEFINE p == Entry(A, VmmStart - A, E820_TYPE_RAM)
               q == Entry(VmmEnd, B - VmmEnd, E820_TYPE_RAM)
               all == e820_range_add(mid, VmmEnd, B - VmmEnd, E820_TYPE_RAM)
    <2>1. Piece(p, k) /\ Piece(q, k) /\ VmmEnd \in 0 .. (M - 1) /\ B - VmmEnd \in 0 .. (M - 1)
      <3>1. /\ out[k].addr <= A /\ VmmStart <= EndOf(out[k]) /\ VmmStart <= VmmStart
            /\ out[k].addr <= VmmEnd /\ B <= EndOf(out[k]) /\ VmmEnd <= VmmEnd /\ VmmEnd < B
        BY <1>1, <1>3, <1>15 DEF e
      <3> QED BY <1>1, <1>3, <1>4, <1>15, <3>1, PieceIs, Zenon
    <2>2. \A a \in 0 .. (M - 1) : (Covers(p, a) <=> A <= a /\ a < VmmStart) /\ (Covers(q, a) <=> VmmEnd <= a /\ a < B)
      <3> TAKE a \in 0 .. (M - 1)
      <3>1. a \in Nat
        BY <1>1
      <3> QED BY <1>1, <1>15, <3>1, EntryCovers
    <2>3. UpdateEntry(out, k) = [all EXCEPT ![k].size = VmmStart - A]
      <3>1. ~(A >= VmmStart /\ B <= VmmEnd)
        BY <1>1, <1>3, <1>15
      <3> QED BY <1>9, <1>15, <3>1
    <2>20. PICK m \in Nat : m = Len(mid) /\ m <= MaxEntries /\ n <= m /\ DOMAIN mid = 1 .. m
      BY <1>7
    <2>4. /\ all \in Seq(Entries) /\ Len(all) <= MaxEntries /\ m <= Len(all)
          /\ m = MaxEntries => all = mid
          /\ m < MaxEntries => Len(all) = m + 1 /\ all[m + 1] = q
          /\ \A j \in DOMAIN mid : j \in DOMAIN all /\ all[j] = mid[j]
      <3>1. /\ all \in Seq(Entries) /\ Len(all) <= MaxEntries /\ Len(mid) <= Len(all)
            /\ Len(mid) = MaxEntries => all = mid
            /\ Len(mid) < MaxEntries => Len(all) = Len(mid) + 1 /\ all[Len(mid) + 1] = q
            /\ \A j \in DOMAIN mid : j \in DOMAIN all /\ all[j] = mid[j]
        BY <1>4, <1>7, <2>1, RangeAddFacts
      <3> HIDE DEF all, q
      <3> QED BY <2>20, <3>1, Zenon
    <2>5. [e EXCEPT !.size = VmmStart - A] = p
      BY <1>4 DEF Entry
    <2> HIDE DEF p, q, all
    <2>6. all[k] = e /\ k \in DOMAIN all
      BY <1>11, <2>4
    <2>7. UpdateEntry(out, k) = [all EXCEPT ![k] = p]
      BY <2>3, <2>5, <2>6
    <2>8. PICK l \in Nat : l = Len(all) /\ DOMAIN all = 1 .. l /\ m <= l /\ l <= MaxEntries /\ n <= l
      <3>1. Len(all) \in Nat /\ DOMAIN all = 1 .. Len(all)
        BY <2>4
      <3>2. PICK l \in Nat : l = Len(all)
        BY <3>1
      <3>3. m <= l /\ l <= MaxEntries
        BY <2>4, <3>2
      <3>4. n <= l
        BY <2>20, <3>3
      <3> QED BY <3>1, <3>2, <3>3, <3>4
    <2>9. ASSUME NEW j \in DOMAIN all, j > n PROVE Piece(all[j], k)
      <3>1. CASE j \in DOMAIN mid
        BY <1>10, <2>4, <2>9, <3>1
      <3>2. CASE j \notin DOMAIN mid
        <4>1. m < MaxEntries
          <5>1. m = MaxEntries => DOMAIN all = DOMAIN mid
            BY <2>4
          <5> QED BY <1>1, <2>20, <3>2, <5>1
        <4>2. j = m + 1
          <5>1. l = m + 1
            BY <2>4, <2>8, <4>1
          <5> QED BY <2>8, <2>20, <3>2, <5>1
        <4> QED BY <2>1, <2>4, <4>1, <4>2
      <3> QED BY <3>1, <3>2
    <2>10. ASSUME Len(all) < MaxEntries, NEW a \in 0 .. (M - 1), Covers(out[k], a)
           PROVE  Covers(p, a) \/ \E j \in DOMAIN all : j > n /\ Covers(all[j], a)
      <3>1. m < MaxEntries /\ n < MaxEntries /\ m + 1 \in DOMAIN all /\ n + 1 \in DOMAIN mid /\ n + 1 > n /\ m + 1 > n
        <4>0. l < MaxEntries
          BY <2>8, <2>10
        <4>1. m < MaxEntries /\ n < MaxEntries
          BY <1>1, <2>8, <2>20, <4>0
        <4>2. n + 1 \in DOMAIN mid
          BY <1>10, <4>1
        <4>3. l = m + 1
          BY <2>4, <2>8, <4>1
        <4>4. m + 1 \in DOMAIN all /\ n + 1 > n /\ m + 1 > n
          BY <2>8, <2>20, <4>3
        <4> QED BY <4>1, <4>2, <4>4
      <3>2. A <= a /\ a < B /\ a \in Nat
        BY <1>1, <1>6, <2>10
      <3>3. CASE a < VmmStart
        BY <2>2, <3>2, <3>3
      <3>4. CASE VmmEnd <= a
        <4>1. Covers(q, a)
          BY <2>2, <3>2, <3>4
        <4> QED BY <2>4, <3>1, <4>1
      <3>5. CASE ~(a < VmmStart) /\ ~(VmmEnd <= a)
        <4>1. Covers(res, a)
          BY <1>1, <1>6, <3>2, <3>5
        <4>2. all[n + 1] = res /\ n + 1 \in DOMAIN all
          BY <1>10, <2>4, <3>1
        <4> QED BY <3>1, <4>1, <4>2
      <3> QED BY <3>3, <3>4, <3>5
    <2>11. \A j \in DOMAIN out : all[j] = out[j]
      BY <1>7, <2>4
    <2>12. Split([all EXCEPT ![k] = p], k)
      BY <1>0, <2>1, <2>4, <2>8, <2>9, <2>10, <2>11, SplitIs, Zenon
    <2> QED BY <2>7, <2>12
  <1> QED BY <1>1, <1>3, <1>12, <1>13, <1>14, <1>15

\* Every other entry of the split table is clear of the image.
LEMMA SplitIsClear ==
  ASSUME TrueMap(out), NEW k \in DOMAIN out, Holds(k), NEW tab, Split(tab, k), NEW j \in DOMAIN tab
  PROVE  Clear(tab[j])
  <1>1. DOMAIN out = 1 .. Len(out) /\ Len(out) \in Nat /\ DOMAIN tab = 1 .. Len(tab) /\ Len(tab) \in Nat
    BY EntryFacts DEF TrueMap, Split
  <1>2. CASE j = k \/ j > Len(out)
    <2>1. Piece(tab[j], k)
      BY <1>2 DEF Split
    <2>2. PICK e : e = tab[j]
      OBVIOUS
    <2>3. /\ e \in Entries /\ EndOf(e) < M /\ e.size > 0
          /\ \/ e.type = E820_TYPE_RESERVED
             \/ e.type = E820_TYPE_RAM /\ (EndOf(e) <= VmmStart \/ VmmEnd <= e.addr)
      BY <2>1, <2>2 DEF Piece
    <2>4. E820_TYPE_RAM # E820_TYPE_RESERVED
      BY DEF E820_TYPE_RAM, E820_TYPE_RESERVED
    <2> QED BY <2>2, <2>3, <2>4 DEF Clear
  <1>3. CASE ~(j = k \/ j > Len(out))
    <2>1. j \in DOMAIN out /\ j # k
      BY <1>1, <1>3
    <2>2. tab[j] = out[j]
      BY <2>1 DEF Split
    <2> QED BY <2>1, <2>2, OthersAreClear
  <1> QED BY <1>2, <1>3

LEMMA UpdateKeepsInv ==
  ASSUME MapInv, UpdateStep
  PROVE  MapInv'
  <1>1. /\ phase = "update" /\ i <= Len(entries) /\ entries' = UpdateEntry(entries, i) /\ i' = i + 1
        /\ UNCHANGED <<phase, given, accepted, points, overlap, out, last, start>>
    BY DEF UpdateStep
  <1>2. i \in 1 .. (Len(entries) + 1) /\ points = {} /\ Resolved
    BY <1>1 DEF MapInv, UpdateInv, ResultInv
  <1>3. PICK k \in DOMAIN out : Holds(k) /\ entries = IF i <= k THEN out ELSE UpdateEntry(out, k)
    BY <1>1 DEF MapInv, UpdateInv
  <1>4. /\ TrueMap(out) /\ Len(out) <= MaxEntries /\ Len(out) \in Nat /\ DOMAIN out = 1 .. Len(out)
        /\ MaxEntries \in Nat /\ out \in Seq(Entries)
    BY EntryFacts, E820Constants DEF MapInv, TypeOK
  <1>5. Split(UpdateEntry(out, k), k)
    BY <1>3, <1>4, UpdateSplits
  <1>6. /\ TrueMap(out)' /\ Resolved' /\ (\A j : Holds(j)' = Holds(j)) /\ (\A a : TypeAt(out, a)' = TypeAt(out, a))
    BY <1>1, <1>2, TablesStay
  <1>7. UpdateEntry(out, k) \in Seq(Entries) /\ Len(out) <= Len(UpdateEntry(out, k)) /\ Len(UpdateEntry(out, k)) <= MaxEntries
    BY <1>5 DEF Split
  <1>8. PICK tab \in Seq(Entries) : tab = UpdateEntry(out, k) /\ Len(out) <= Len(tab) /\ Len(tab) <= MaxEntries
    BY <1>7
  <1>9. i \in Nat /\ k \in Nat /\ k <= Len(out) /\ i >= 1
    BY <1>2, <1>4
  <1>10. entries' = IF i + 1 <= k THEN out ELSE tab
    <2>1. CASE i < k
      <3>1. entries = out /\ i \in DOMAIN out /\ i # k /\ i + 1 <= k
        BY <1>1, <1>3, <1>4, <1>9, <2>1
      <3>2. UpdateEntry(out, i) = out
        BY <1>3, <1>4, <3>1, OthersAreClear, ClearIsSkipped
      <3> QED BY <1>1, <3>1, <3>2
    <2>2. CASE i = k
      <3>1. entries = out /\ ~(i + 1 <= k)
        BY <1>3, <1>9, <2>2
      <3> QED BY <1>1, <1>8, <2>2, <3>1
    <2>3. CASE i > k
      <3>1. entries = tab /\ ~(i + 1 <= k)
        BY <1>3, <1>8, <1>9, <2>3
      <3>2. i \in DOMAIN tab
        BY <1>1, <1>2, <3>1
      <3>3. Clear(tab[i])
        BY <1>3, <1>4, <1>5, <1>8, <3>2, SplitIsClear
      <3>4. UpdateEntry(tab, i) = tab
        BY <3>3, ClearIsSkipped
      <3> QED BY <1>1, <3>1, <3>4
    <2> QED BY <1>9, <2>1, <2>2, <2>3
  <1>11. /\ entries' \in Seq(Entries) /\ Len(entries') <= MaxEntries
         /\ Len(entries) <= Len(entries') /\ Len(entries) \in Nat /\ Len(entries') \in Nat
    <2>1. CASE i < k
      <3>1. entries = out /\ entries' = out
        BY <1>3, <1>9, <1>10, <2>1
      <3> QED BY <1>4, <3>1
    <2>2. CASE ~(i < k)
      <3>1. entries' = tab /\ (entries = out \/ entries = tab)
        BY <1>3, <1>8, <1>9, <1>10, <2>2
      <3>2. Len(tab) \in Nat
        BY <1>8
      <3> QED BY <1>4, <1>8, <3>1, <3>2
    <2> QED BY <2>1, <2>2
  <1>12. i' \in 1 .. (Len(entries') + 1) /\ i' \in 1 .. (MaxEntries + 1)
    BY <1>1, <1>2, <1>4, <1>11
  <1>13. UpdateInv'
    <2>1. UpdateEntry(out, k)' = tab
      <3>1. UpdateEntry(out, k)' = UpdateEntry(out', k)
        BY DEF UpdateEntry, e820_range_add, Entry, End
      <3> QED BY <1>1, <1>8, <3>1
    <2>2. k \in DOMAIN out' /\ Holds(k)' /\ entries' = IF i' <= k THEN out' ELSE UpdateEntry(out, k)'
      BY <1>1, <1>3, <1>6, <1>10, <2>1
    <2> QED BY <1>1, <1>2, <1>12, <2>2 DEF UpdateInv
  <1>14. TypeOK'
    BY <1>1, <1>2, <1>11, <1>12 DEF MapInv, TypeOK, Entries
  <1>15. MappedAllIsExact'
    <2>1. \A a \in VmmStart .. (VmmEnd - 1) : TypeAt(out, a) = E820_TYPE_RAM
      BY <1>1 DEF MapInv, MappedAllIsExact
    <2> QED BY <1>1, <1>6, <2>1 DEF MappedAllIsExact
  <1>16. AddInv' /\ SweepInv' /\ ResultInv' /\ CheckInv'
    BY <1>1, <1>6 DEF AddInv, SweepInv, ResultInv, CheckInv
  <1> QED BY <1>1, <1>6, <1>13, <1>14, <1>15, <1>16 DEF MapInv

LEMMA FinishUpdateKeepsInv ==
  ASSUME MapInv, FinishUpdate
  PROVE  MapInv'
  <1>1. /\ phase = "update" /\ i > Len(entries) /\ phase' = "done"
        /\ UNCHANGED <<given, entries, accepted, points, overlap, out, last, i, start>>
    BY DEF FinishUpdate
  <1>2. i \in 1 .. (Len(entries) + 1) /\ points = {} /\ Resolved
    BY <1>1 DEF MapInv, UpdateInv, ResultInv
  <1>3. PICK k \in DOMAIN out : Holds(k) /\ entries = IF i <= k THEN out ELSE UpdateEntry(out, k)
    BY <1>1 DEF MapInv, UpdateInv
  <1>4. DOMAIN out = 1 .. Len(out) /\ Len(out) \in Nat /\ Len(entries) \in Nat
    BY EntryFacts DEF MapInv, TypeOK
  <1>5. entries = UpdateEntry(out, k)
    <2>1. CASE i <= k
      <3>1. entries = out
        BY <1>3, <2>1
      <3> QED BY <1>1, <1>2, <1>4, <2>1, <3>1
    <2> QED BY <1>3, <2>1
  <1>6. /\ TrueMap(out)' /\ Resolved' /\ (\A j : Holds(j)' = Holds(j))
    BY <1>1, <1>2, TablesStay
  <1>7. UpdateInv'
    <2>1. UpdateEntry(out, k)' = UpdateEntry(out', k)
      BY DEF UpdateEntry, e820_range_add, Entry, End
    <2> QED BY <1>1, <1>2, <1>3, <1>5, <1>6, <2>1 DEF UpdateInv
  <1>8. TypeOK'
    BY <1>1 DEF MapInv, TypeOK, Entries
  <1>9. AddInv' /\ SweepInv' /\ ResultInv' /\ CheckInv' /\ MappedAllIsExact'
    BY <1>1, <1>6 DEF AddInv, SweepInv, ResultInv, CheckInv, MappedAllIsExact
  <1> QED BY <1>1, <1>6, <1>7, <1>8, <1>9 DEF MapInv

LEMMA StutterKeepsInv ==
  ASSUME MapInv, UNCHANGED vars
  PROVE  MapInv'
  <1>1. UNCHANGED <<phase, given, entries, accepted, points, overlap, out, last, i, start>>
    BY DEF vars
  <1>2. TypeOK'
    BY <1>1 DEF MapInv, TypeOK, Entries
  <1>3. /\ TrueMap(out)' /\ Resolved' = Resolved /\ (\A k : Holds(k)' = Holds(k))
        /\ (\A a : TypeAt(out, a)' = TypeAt(out, a)) /\ (\A k : EndOf(out[k])' = EndOf(out[k]))
    BY <1>1, TablesStay
  <1>4. AddInv' /\ MappedAllIsExact' /\ ResultInv' /\ CheckInv'
    <2>1. AddInv'
      BY <1>1 DEF MapInv, AddInv
    <2>2. MappedAllIsExact'
      BY <1>1, <1>3 DEF MapInv, MappedAllIsExact, E820_TYPE_RAM
    <2>3. ResultInv'
      BY <1>1, <1>3 DEF MapInv, ResultInv
    <2>4. CheckInv'
      BY <1>1, <1>3 DEF MapInv, CheckInv, E820_TYPE_RAM
    <2> QED BY <2>1, <2>2, <2>3, <2>4
  <1>5. UpdateInv'
    <2>1. \A k : UpdateEntry(out, k)' = UpdateEntry(out, k)
      BY <1>1 DEF UpdateEntry, e820_range_add, Entry, End
    <2> QED BY <1>1, <1>3, <2>1 DEF MapInv, UpdateInv
  <1>6. SweepInv'
    <2> SUFFICES ASSUME phase = "sweep" PROVE SweepInv'
      BY <1>1 DEF SweepInv
    <2>1. /\ NonEmpty' = NonEmpty /\ Full' = Full
          /\ \A k, e : PlaceOf(k, e)' = PlaceOf(k, e)
          /\ \A k, e : PointOf(k, e)' = PointOf(k, e)
          /\ \A k, e, j, f : Before(k, e, j, f)' = Before(k, e, j, f)
      BY <1>1 DEF NonEmpty, PlaceOf, PointOf, Before, EndOf, Full
    <2>2. PointsInv'
      BY <1>1, <2>1 DEF MapInv, SweepInv, PointsInv
    <2>3. OverlapInv'
      BY <1>1, <2>1 DEF MapInv, SweepInv, OverlapInv, Highest
    <2>4. BehindInv' /\ TouchInv'
      BY <1>1, <2>1 DEF MapInv, SweepInv, BehindInv, TouchInv, EndOf
    <2>5. SweptInv'
      <3>1. \A a : TypeAt(accepted, a)' = TypeAt(accepted, a)
        BY <1>1 DEF TypeAt, Covers
      <3>2. \A a : Swept(a)' = Swept(a)
        BY <1>1, <1>3 DEF Swept
      <3> QED BY <1>1, <2>1, <3>1, <3>2 DEF MapInv, SweepInv, SweptInv
    <2>6. NoWrap(accepted)'
      BY <1>1 DEF MapInv, SweepInv, NoWrap, EndOf
    <2> QED BY <1>1, <2>1, <2>2, <2>3, <2>4, <2>5, <2>6 DEF MapInv, SweepInv
  <1> QED BY <1>1, <1>2, <1>3, <1>4, <1>5, <1>6 DEF MapInv

LEMMA SweepKeepsMapInv ==
  ASSUME MapInv, SweepPoint
  PROVE  MapInv'
  <1>1. phase = "sweep" /\ phase' = phase
    BY DEF SweepPoint
  <1>2. TypeOK' /\ SweepInv' /\ TrueMap(out)'
    BY SweepKeepsInv DEF MapInv
  <1>3. AddInv' /\ ResultInv' /\ CheckInv' /\ UpdateInv' /\ MappedAllIsExact'
    BY <1>1 DEF AddInv, ResultInv, CheckInv, UpdateInv, MappedAllIsExact
  <1> QED BY <1>1, <1>2, <1>3 DEF MapInv

\* The inductive invariant holds in every state of the boot sequence.
THEOREM MapInvariant == Spec => []MapInv
  <1>1. Init => MapInv
    BY InitInv
  <1>2. MapInv /\ [Next]_vars => MapInv'
    <2> SUFFICES ASSUME MapInv, [Next]_vars PROVE MapInv'
      OBVIOUS
    <2>1. CASE AddRegion
      BY <2>1, AddKeepsInv
    <2>2. CASE StartSweep
      BY <2>2, StartKeepsInv
    <2>3. CASE SanitizePanics
      BY <2>3, SanitizePanicsKeepsInv
    <2>4. CASE SweepPoint
      BY <2>4, SweepKeepsMapInv
    <2>5. CASE FinishSweep
      BY <2>5, FinishKeepsInv
    <2>6. CASE CheckEntry
      BY <2>6, CheckKeepsInv
    <2>7. CASE CheckFails
      BY <2>7, CheckFailsKeepsInv
    <2>8. CASE UpdateStep
      BY <2>8, UpdateKeepsInv
    <2>9. CASE FinishUpdate
      BY <2>9, FinishUpdateKeepsInv
    <2>10. CASE UNCHANGED vars
      BY <2>10, StutterKeepsInv
    <2> QED BY <2>1, <2>2, <2>3, <2>4, <2>5, <2>6, <2>7, <2>8, <2>9, <2>10 DEF Next
  <1> QED BY <1>1, <1>2, PTL DEF Spec

\* After __e820_update_table the map fits its array, is sorted and without overlap, and every
\* address has the highest type that was given for it, for every list of regions.
THEOREM SanitizedIsAlwaysExact == Spec => []SanitizedIsExact
  <1>1. MapInv => SanitizedIsExact
    <2> SUFFICES ASSUME MapInv PROVE SanitizedIsExact
      OBVIOUS
    <2>1. TrueMap(out) /\ Len(out) \in Nat /\ DOMAIN out = 1 .. Len(out)
      BY EntryFacts DEF MapInv, TrueMap
    <2>2. SanitizedIsDisjoint
      <3>1. \A k \in DOMAIN out : out[k].size > 0
        BY <2>1 DEF TrueMap, Disjoint
      <3>2. ASSUME NEW k \in 1 .. (Len(out) - 1)
            PROVE  \/ End(out[k]) < out[k + 1].addr
                   \/ End(out[k]) = out[k + 1].addr /\ out[k].type # out[k + 1].type
        <4>1. k \in DOMAIN out
          BY <2>1
        <4>2. End(out[k]) = EndOf(out[k])
          BY <2>1, <4>1, EndInMap
        <4> QED BY <2>1, <4>2 DEF TrueMap, Disjoint
      <3> QED BY <3>1, <3>2 DEF SanitizedIsDisjoint
    <2>3. SanitizedIsHighestType
      BY DEF MapInv, CheckInv, ResultInv, Resolved, SanitizedIsHighestType
    <2> QED BY <2>2, <2>3 DEF MapInv, SanitizedIsExact
  <1> QED BY <1>1, MapInvariant, PTL

\* e820_mapped_all is right about every map that the sweep can produce.
THEOREM MappedAllIsAlwaysExact == Spec => []MappedAllIsExact
  <1>1. MapInv => MappedAllIsExact
    BY DEF MapInv
  <1> QED BY <1>1, MapInvariant, PTL

\* What the split table says of an address.
LEMMA SplitFacts ==
  ASSUME TrueMap(out), NEW k \in DOMAIN out, Holds(k), NEW tab, Split(tab, k),
         NEW a \in 0 .. (M - 1), NEW j \in DOMAIN tab, Covers(tab[j], a)
  PROVE  \/ j \in DOMAIN out /\ j # k /\ tab[j] = out[j] /\ Covers(out[j], a) /\ ~Covers(out[k], a)
         \/ /\ Covers(out[k], a)
            /\ tab[j].type = IF a \in VmmStart .. (VmmEnd - 1) THEN E820_TYPE_RESERVED ELSE E820_TYPE_RAM
  <1>1. DOMAIN out = 1 .. Len(out) /\ Len(out) \in Nat /\ DOMAIN tab = 1 .. Len(tab) /\ Len(tab) \in Nat
    BY EntryFacts DEF TrueMap, Split
  <1>2. a \in Nat /\ VmmStart \in Nat /\ VmmEnd \in Nat
    BY E820Constants
  <1>3. CASE j = k \/ j > Len(out)
    <2>1. PICK e : e = tab[j] /\ Piece(e, k) /\ Covers(e, a)
      BY <1>3 DEF Split
    <2>2. e \in Entries
      BY <2>1 DEF Piece
    <2>3. e.addr \in Nat /\ e.size \in Nat /\ EndOf(e) = e.addr + e.size
      BY <2>2, E820Constants DEF Entries, EndOf
    <2>4. PICK x \in Nat, y \in Nat : x = e.addr /\ y = EndOf(e) /\ x <= a /\ a < y
      BY <2>1, <2>3 DEF Covers
    <2>5. /\ out[k].addr <= x /\ y <= EndOf(out[k])
          /\ \/ e.type = E820_TYPE_RESERVED /\ VmmStart <= x /\ y <= VmmEnd
             \/ e.type = E820_TYPE_RAM /\ (y <= VmmStart \/ VmmEnd <= x)
      BY <2>1, <2>4 DEF Piece
    <2>6. out[k].addr \in Nat /\ EndOf(out[k]) \in Nat /\ EndOf(out[k]) = out[k].addr + out[k].size
      BY EndInMap
    <2>7. out[k].addr <= a /\ a < EndOf(out[k])
      BY <1>2, <2>4, <2>5, <2>6
    <2>8. Covers(out[k], a)
      BY <2>6, <2>7 DEF Covers
    <2>9. e.type = IF a \in VmmStart .. (VmmEnd - 1) THEN E820_TYPE_RESERVED ELSE E820_TYPE_RAM
      <3>1. CASE e.type = E820_TYPE_RESERVED /\ VmmStart <= x /\ y <= VmmEnd
        <4>1. a \in VmmStart .. (VmmEnd - 1)
          BY <1>2, <2>4, <3>1
        <4> QED BY <3>1, <4>1
      <3>2. CASE e.type = E820_TYPE_RAM /\ (y <= VmmStart \/ VmmEnd <= x)
        <4>1. a \notin VmmStart .. (VmmEnd - 1)
          BY <1>2, <2>4, <3>2
        <4> QED BY <3>2, <4>1
      <3> QED BY <2>5, <3>1, <3>2
    <2> QED BY <2>1, <2>8, <2>9
  <1>4. CASE ~(j = k \/ j > Len(out))
    <2>1. j \in DOMAIN out /\ j # k
      BY <1>1, <1>4
    <2>2. tab[j] = out[j]
      BY <2>1 DEF Split
    <2>3. ~Covers(out[k], a)
      BY <1>2, <2>1, <2>2, MapIsDisjoint
    <2> QED BY <2>1, <2>2, <2>3
  <1> QED BY <1>3, <1>4

\* The map handed to the guest calls RAM only what is RAM and not the monitor's, and where
\* there was room it is exactly the loader's map with the image reserved.
THEOREM GuestMapIsAlwaysRight == Spec => []GuestMapIsRight
  <1>1. MapInv => GuestMapIsRight
    <2> SUFFICES ASSUME MapInv, phase = "done" PROVE GuestMapIsRight
      BY DEF GuestMapIsRight, GuestMapIsSafe, GuestMapIsExact
    <2>1. PICK k \in DOMAIN out : Holds(k) /\ entries = UpdateEntry(out, k)
      BY DEF MapInv, UpdateInv
    <2>2. TrueMap(out) /\ Resolved /\ Len(out) <= MaxEntries
      BY DEF MapInv, ResultInv, TypeOK
    <2>3. Split(entries, k)
      BY <2>1, <2>2, UpdateSplits
    <2>4. /\ entries \in Seq(Entries) /\ Len(out) <= Len(entries) /\ Len(out) \in Nat /\ Len(entries) \in Nat
          /\ MaxEntries \in Nat /\ DOMAIN entries = 1 .. Len(entries) /\ DOMAIN out = 1 .. Len(out)
      BY <2>2, <2>3, EntryFacts, E820Constants DEF Split, TrueMap
    <2>5. E820_TYPE_RAM # E820_TYPE_RESERVED /\ E820_TYPE_RAM = 1 /\ E820_TYPE_RESERVED = 2
      BY DEF E820_TYPE_RAM, E820_TYPE_RESERVED
    <2>6. out[k].type = E820_TYPE_RAM /\ \A a \in VmmStart .. (VmmEnd - 1) : a \in Nat /\ Covers(out[k], a)
      <3>1. /\ out[k].addr \in Nat /\ EndOf(out[k]) \in Nat /\ EndOf(out[k]) = out[k].addr + out[k].size
            /\ out[k].addr <= VmmStart /\ VmmEnd <= EndOf(out[k]) /\ out[k].type = E820_TYPE_RAM
        BY <2>1, <2>2, EndInMap DEF Holds
      <3>2. VmmStart \in Nat /\ VmmEnd \in Nat
        BY E820Constants
      <3> QED BY <3>1, <3>2 DEF Covers
    <2>7. GuestMapIsSafe
      <3> SUFFICES ASSUME NEW a \in 0 .. (M - 1), NEW j \in DOMAIN entries, Covers(entries[j], a),
                          entries[j].type = E820_TYPE_RAM
                   PROVE  TypeAt(accepted, a) = E820_TYPE_RAM /\ a \notin VmmStart .. (VmmEnd - 1)
        BY DEF GuestMapIsSafe
      <3>1. CASE j \in DOMAIN out /\ j # k /\ entries[j] = out[j] /\ Covers(out[j], a) /\ ~Covers(out[k], a)
        BY <2>2, <2>6, <3>1 DEF TrueMap
      <3>2. CASE /\ Covers(out[k], a)
                 /\ entries[j].type = IF a \in VmmStart .. (VmmEnd - 1) THEN E820_TYPE_RESERVED ELSE E820_TYPE_RAM
        BY <2>2, <2>5, <2>6, <3>2 DEF TrueMap
      <3> QED BY <2>1, <2>2, <2>3, <3>1, <3>2, SplitFacts
    <2>8. GuestMapIsExact
      <3> SUFFICES ASSUME Len(entries) < MaxEntries, NEW a \in 0 .. (M - 1)
                   PROVE  TypeAt(entries, a) = IF a \in VmmStart .. (VmmEnd - 1)
                                               THEN E820_TYPE_RESERVED ELSE TypeAt(accepted, a)
        BY DEF GuestMapIsExact
      <3>1. TypeAt(out, a) = TypeAt(accepted, a)
        <4>1. ~Full
          <5>1. PICK n \in Nat, m \in Nat : n = Len(out) /\ m = Len(entries)
            BY <2>4
          <5>2. n <= m /\ m < MaxEntries
            BY <2>4, <5>1
          <5>3. n # MaxEntries
            BY <2>4, <5>2
          <5> QED BY <5>1, <5>3 DEF Full
        <4> QED BY <2>2, <4>1 DEF Resolved
      <3>2. \A j \in DOMAIN entries : Covers(entries[j], a) =>
              \/ j \in DOMAIN out /\ j # k /\ entries[j] = out[j] /\ Covers(out[j], a) /\ ~Covers(out[k], a)
              \/ /\ Covers(out[k], a)
                 /\ entries[j].type = IF a \in VmmStart .. (VmmEnd - 1) THEN E820_TYPE_RESERVED ELSE E820_TYPE_RAM
        BY <2>1, <2>2, <2>3, SplitFacts
      <3>3. CASE Covers(out[k], a)
        <4>1. PICK j \in DOMAIN entries : Covers(entries[j], a)
          BY <2>3, <3>3 DEF Split
        <4>2. \A l \in DOMAIN entries : Covers(entries[l], a) =>
                entries[l].type = IF a \in VmmStart .. (VmmEnd - 1) THEN E820_TYPE_RESERVED ELSE E820_TYPE_RAM
          BY <3>2, <3>3
        <4>3. TypeAt(entries, a) = entries[j].type
          BY <2>4, <4>1, <4>2, TypeAtOnly
        <4>4. TypeAt(accepted, a) = E820_TYPE_RAM
          BY <2>2, <2>6, <3>3 DEF TrueMap
        <4> QED BY <4>1, <4>2, <4>3, <4>4
      <3>4. CASE ~Covers(out[k], a)
        <4>1. a \notin VmmStart .. (VmmEnd - 1)
          BY <2>6, <3>4
        <4>2. CASE \E j \in DOMAIN entries : Covers(entries[j], a)
          <5>1. PICK j \in DOMAIN entries : Covers(entries[j], a)
            BY <4>2
          <5>2. \A l \in DOMAIN entries : Covers(entries[l], a) => entries[l].type = TypeAt(accepted, a)
            BY <2>2, <3>2, <3>4 DEF TrueMap
          <5>3. TypeAt(entries, a) = entries[j].type
            BY <2>4, <5>1, <5>2, TypeAtOnly
          <5> QED BY <4>1, <5>1, <5>2, <5>3
        <4>3. CASE ~\E j \in DOMAIN entries : Covers(entries[j], a)
          <5>1. TypeAt(entries, a) = 0
            BY <2>4, <4>3, TypeAtNone
          <5>2. ASSUME NEW j \in DOMAIN out PROVE ~Covers(out[j], a)
            <6>1. CASE j = k
              BY <3>4, <6>1
            <6>2. CASE j # k
              <7>1. j \in DOMAIN entries /\ entries[j] = out[j]
                BY <2>3, <2>4, <6>2 DEF Split
              <7> QED BY <4>3, <7>1
            <6> QED BY <6>1, <6>2
          <5>3. TypeAt(out, a) = 0
            BY <2>2, <5>2, TypeAtNone DEF TrueMap
          <5> QED BY <3>1, <4>1, <5>1, <5>3
        <4> QED BY <4>2, <4>3
      <3> QED BY <3>3, <3>4
    <2> QED BY <2>7, <2>8 DEF GuestMapIsRight
  <1> QED BY <1>1, MapInvariant, PTL
=============================================================================
