-------------------------- MODULE SchedulesProofs ---------------------------
(***************************************************************************)
(* Cadence and Schedules for days of any length, zones of any offset and   *)
(* any number of schedules and handlers: what Next and Previous find in    *)
(* the eight days around a time is what the cadence means, and the agent   *)
(* was told the person's last word.                                        *)
(***************************************************************************)
EXTENDS Schedules, WellFoundedInduction, TLAPS

-----------------------------------------------------------------------------
(* Days and slots.                                                         *)

\* Multiples of a day are a day apart.
LEMMA DaysApart ==
  ASSUME NEW n \in Nat \ {0}, NEW d \in Int, NEW e \in Int, d < e
  PROVE  d * n + n <= e * n
OBVIOUS

\* A quotient is an integer and a remainder is smaller than the divisor.
LEMMA RestType ==
  ASSUME NEW y \in Int, NEW n \in Nat \ {0}
  PROVE  y \div n \in Int /\ y % n \in 0..(n - 1)
BY Z3

\* A number is its quotient times the divisor, and its remainder.
LEMMA Division ==
  ASSUME NEW y \in Int, NEW n \in Nat \ {0}
  PROVE  y = (y \div n) * n + (y % n)
<1> DEFINE q == y \div n
           r == y % n
<1>1. y = n * q + r
  BY Z3
<1>2. q \in Int /\ r \in Int
  BY RestType
<1>3. y = q * n + r
  <2> HIDE DEF q, r
  <2> QED BY <1>1, <1>2
<1> QED BY <1>3, Zenon

\* A time is a day and a slot of it in one way.
LEMMA OneDivision ==
  ASSUME NEW n \in Nat \ {0}, NEW d \in Int, NEW m \in 0..(n - 1)
  PROVE  (d * n + m) \div n = d /\ (d * n + m) % n = m
<1> DEFINE y == d * n + m
           q == y \div n
           r == y % n
<1>1. d * n \in Int /\ n \in Int /\ m \in Int /\ 0 <= m /\ m < n
  OBVIOUS
<1>2. y \in Int
  BY <1>1
<1>3. q \in Int /\ r \in Int /\ 0 <= r /\ r < n /\ y = q * n + r
  <2> HIDE DEF y
  <2> QED BY <1>2, RestType, Division
<1>4. y = d * n + m
  OBVIOUS
<1> SUFFICES q = d /\ r = m
  OBVIOUS
<1> HIDE DEF y, q, r
<1>5. q * n \in Int
  BY <1>3
<1>6. ~(q < d)
  <2> SUFFICES ASSUME q < d PROVE FALSE
    OBVIOUS
  <2>1. q * n + n <= d * n
    BY <1>3, DaysApart
  <2> QED BY <1>1, <1>3, <1>4, <1>5, <2>1
<1>7. ~(d < q)
  <2> SUFFICES ASSUME d < q PROVE FALSE
    OBVIOUS
  <2>1. d * n + n <= q * n
    BY <1>3, DaysApart
  <2> QED BY <1>1, <1>3, <1>4, <1>5, <2>1
<1>8. q = d
  BY <1>3, <1>6, <1>7
<1> QED BY <1>1, <1>3, <1>4, <1>8

\* Every day of the week comes within seven days, and came within seven.
LEMMA WeekAhead ==
  ASSUME NEW L \in Int, NEW k \in 0..6
  PROVE  \E d \in 1..7 : (L + d) % 7 = k
<1> DEFINE q == L \div 7
           r == L % 7
<1>1. q \in Int /\ r \in 0..6 /\ L = q * 7 + r
  BY RestType, Division
<1> HIDE DEF q, r
<1>2. CASE k > r
  <2>1. k - r \in 1..7 /\ L + (k - r) = q * 7 + k
    BY <1>1, <1>2
  <2>2. (q * 7 + k) % 7 = k
    BY <1>1, OneDivision
  <2> QED BY <2>1, <2>2
<1>3. CASE k <= r
  <2>1. k - r + 7 \in 1..7 /\ L + (k - r + 7) = (q + 1) * 7 + k
    BY <1>1, <1>3
  <2>2. ((q + 1) * 7 + k) % 7 = k
    BY <1>1, OneDivision
  <2> QED BY <2>1, <2>2
<1> QED BY <1>1, <1>2, <1>3

\* Every day of the week is one of the seven before.
LEMMA WeekBehind ==
  ASSUME NEW L \in Int, NEW k \in 0..6
  PROVE  \E d \in 1..7 : (L - d) % 7 = k
<1> DEFINE M == L - 8
<1>1. M \in Int
  OBVIOUS
<1>2. PICK e \in 1..7 : (M + e) % 7 = k
  <2> HIDE DEF M
  <2> QED BY <1>1, WeekAhead
<1>3. 8 - e \in 1..7 /\ L - (8 - e) = M + e
  OBVIOUS
<1> QED BY <1>2, <1>3

-----------------------------------------------------------------------------
(* The least of some numbers.                                              *)

\* The order of the numbers is well founded; as a relation that the provers
\* need not look into.
LEMMA NumbersWellFounded ==
  \E R : IsWellFoundedOn(R, Nat) /\ \A x, y \in Nat : <<x, y>> \notin R => y <= x
<1>1. ASSUME NEW x \in Nat, NEW y \in Nat, x < y
      PROVE  <<x, y>> \in OpToRel(<, Nat)
  <2>1. <<x, y>> \in Nat \X Nat /\ <<x, y>>[1] = x /\ <<x, y>>[2] = y
    OBVIOUS
  <2> QED BY <1>1, <2>1, Zenon DEF OpToRel
<1>2. \A x, y \in Nat : ~(x < y) => y <= x
  OBVIOUS
<1> QED BY <1>1, <1>2, NatLessThanWellFounded, Zenon

\* A set of numbers that is not empty has a least one, and Least is it.
LEMMA LeastOne ==
  ASSUME NEW S \in SUBSET Nat, S # {}
  PROVE  Least(S) \in S /\ \A y \in S : Least(S) <= y
<1>1. PICK R : IsWellFoundedOn(R, Nat) /\ \A x, y \in Nat : <<x, y>> \notin R => y <= x
  BY NumbersWellFounded
<1>2. PICK x \in S : \A y \in S : ~(<<y, x>> \in R)
  BY <1>1, WFMin, Zenon
<1>3. \A y \in S : x <= y
  BY <1>1, <1>2, Zenon
<1> QED BY <1>3 DEF Least

-----------------------------------------------------------------------------
(* Cadences.                                                               *)

C == CadenceSet(Nat)

\* What is used of a cadence.
LEMMA CadenceFields ==
  ASSUME NEW c \in C
  PROVE  /\ c.clock \in 0..(SlotsPerDay - 1) /\ c.clock \in Int /\ c.date \in Nat /\ c.zone \in Zones
         /\ c.repeat \in {"daily", "weekdays", "weekly", "once"}
         /\ c.repeat = "weekly" => \E k \in 0..6 : k \in c.days
BY DEF C, CadenceSet

\* What the proofs use of the assumption on days and zones.
LEMMA Constants ==
  /\ SlotsPerDay \in Nat \ {0} /\ NoTime \notin Int /\ \A z \in Zones : Offset[z] \in Int
BY CadenceAssumption DEF CadenceAssumption

\* A time is on its local day, at the slot the clock shows.
LEMMA LocalTime ==
  ASSUME NEW c \in C, NEW t \in Int
  PROVE  \E m \in 0..(SlotsPerDay - 1) :
            /\ LocalDay(c, t) \in Int /\ m = (t + Offset[c.zone]) % SlotsPerDay
            /\ t + Offset[c.zone] = LocalDay(c, t) * SlotsPerDay + m
<1>1. Offset[c.zone] \in Int /\ SlotsPerDay \in Nat \ {0}
  BY CadenceFields, Constants
<1> DEFINE y == t + Offset[c.zone]
<1>2. y \in Int
  BY <1>1
<1> HIDE DEF y
<1>3. y \div SlotsPerDay \in Int /\ y % SlotsPerDay \in 0..(SlotsPerDay - 1) /\ y = (y \div SlotsPerDay) * SlotsPerDay + (y % SlotsPerDay)
  BY <1>1, <1>2, RestType, Division
<1> DEFINE m == y % SlotsPerDay
<1>4. /\ m \in 0..(SlotsPerDay - 1) /\ LocalDay(c, t) \in Int /\ m = (t + Offset[c.zone]) % SlotsPerDay
      /\ t + Offset[c.zone] = LocalDay(c, t) * SlotsPerDay + m
  BY <1>3, Zenon DEF y, LocalDay
<1> HIDE DEF m
<1> QED BY <1>4, Zenon

\* The cadence's time on a day is on that day, at its clock time; and a time at
\* the clock time is the cadence's on its day.
LEMMA OnItsDay ==
  ASSUME NEW c \in C, NEW d \in Int
  PROVE  /\ OnDay(c, d) \in Int /\ LocalDay(c, OnDay(c, d)) = d
         /\ (OnDay(c, d) + Offset[c.zone]) % SlotsPerDay = c.clock
<1>1. Offset[c.zone] \in Int /\ SlotsPerDay \in Nat \ {0} /\ c.clock \in 0..(SlotsPerDay - 1) /\ c.clock \in Int
  BY CadenceFields, Constants
<1>2. d * SlotsPerDay \in Int
  BY <1>1
<1>3. OnDay(c, d) \in Int /\ OnDay(c, d) + Offset[c.zone] = d * SlotsPerDay + c.clock
  <2> DEFINE a == d * SlotsPerDay
  <2>1. OnDay(c, d) = a + c.clock - Offset[c.zone]
    BY DEF OnDay
  <2>2. a \in Int
    BY <1>2
  <2> HIDE DEF a
  <2>3. OnDay(c, d) \in Int /\ OnDay(c, d) + Offset[c.zone] = a + c.clock
    BY <1>1, <2>1, <2>2
  <2> QED BY <2>3 DEF a
<1> QED BY <1>1, <1>3, OneDivision DEF LocalDay

\* The time of a local time.
LEMMA Shift ==
  ASSUME NEW t \in Int, NEW a \in Int, NEW k \in Int, NEW o \in Int, t + o = a + k
  PROVE  t = a + k - o
OBVIOUS

\* A time the clock shows as that of the cadence is the one OnDay gives for its
\* day.
LEMMA AtItsClock ==
  ASSUME NEW c \in C, NEW t \in Int, (t + Offset[c.zone]) % SlotsPerDay = c.clock
  PROVE  t = OnDay(c, LocalDay(c, t))
<1>1. Offset[c.zone] \in Int /\ SlotsPerDay \in Nat \ {0} /\ c.clock \in Int
  BY CadenceFields, Constants
<1>2. LocalDay(c, t) \in Int /\ t + Offset[c.zone] = LocalDay(c, t) * SlotsPerDay + c.clock
  BY LocalTime
<1> DEFINE a == LocalDay(c, t) * SlotsPerDay
<1>3. a \in Int
  BY <1>1, <1>2
<1>4. OnDay(c, LocalDay(c, t)) = a + c.clock - Offset[c.zone] /\ t + Offset[c.zone] = a + c.clock
  BY <1>2 DEF OnDay
<1> DEFINE k == c.clock
           o == Offset[c.zone]
<1>5. k \in Int /\ o \in Int /\ t \in Int /\ t + o = a + k /\ OnDay(c, LocalDay(c, t)) = a + k - o
  BY <1>1, <1>4
<1> HIDE DEF a, k, o
<1>6. t = a + k - o
  BY <1>3, <1>5, Shift
<1> QED BY <1>5, <1>6, Zenon

\* Later days, later times.
LEMMA LaterDay ==
  ASSUME NEW c \in C, NEW d \in Int, NEW e \in Int
  PROVE  d < e <=> OnDay(c, d) < OnDay(c, e)
<1>1. Offset[c.zone] \in Int /\ SlotsPerDay \in Nat \ {0} /\ c.clock \in Int
  BY CadenceFields, Constants
<1> DEFINE a == d * SlotsPerDay
           b == e * SlotsPerDay
<1>2. a \in Int /\ b \in Int /\ OnDay(c, d) = a + c.clock - Offset[c.zone] /\ OnDay(c, e) = b + c.clock - Offset[c.zone]
  BY <1>1 DEF OnDay
<1>3. d < e => a + SlotsPerDay <= b
  BY <1>1, DaysApart
<1>4. e < d => b + SlotsPerDay <= a
  BY <1>1, DaysApart
<1>5. d = e => a = b
  OBVIOUS
<1>6. d < e \/ d = e \/ e < d
  OBVIOUS
<1> HIDE DEF a, b
<1> QED BY <1>1, <1>2, <1>3, <1>4, <1>5, <1>6

\* The cadence's time on a later day is later than t, on an earlier day earlier.
LEMMA AroundDay ==
  ASSUME NEW c \in C, NEW t \in Int, NEW d \in Int
  PROVE  /\ d > LocalDay(c, t) => OnDay(c, d) > t
         /\ d < LocalDay(c, t) => OnDay(c, d) < t
<1>1. /\ Offset[c.zone] \in Int /\ SlotsPerDay \in Nat \ {0} /\ c.clock \in Int
      /\ 0 <= c.clock /\ c.clock < SlotsPerDay
  BY CadenceFields, Constants
<1> DEFINE L == LocalDay(c, t)
           a == d * SlotsPerDay
           b == L * SlotsPerDay
<1>2. PICK m \in 0..(SlotsPerDay - 1) : L \in Int /\ t + Offset[c.zone] = b + m
  BY LocalTime
<1>3. m \in Int /\ 0 <= m /\ m < SlotsPerDay /\ b \in Int /\ a \in Int
  BY <1>1, <1>2
<1>4. OnDay(c, d) = a + c.clock - Offset[c.zone]
  BY DEF OnDay
<1>5. d < L => a + SlotsPerDay <= b
  BY <1>1, <1>2, DaysApart
<1>6. L < d => b + SlotsPerDay <= a
  BY <1>1, <1>2, DaysApart
<1> SUFFICES (d > L => OnDay(c, d) > t) /\ (d < L => OnDay(c, d) < t)
  OBVIOUS
<1> HIDE DEF a, b, L
<1>7. ASSUME d > L PROVE OnDay(c, d) > t
  BY <1>1, <1>2, <1>3, <1>4, <1>6, <1>7
<1>8. ASSUME d < L PROVE OnDay(c, d) < t
  BY <1>1, <1>2, <1>3, <1>4, <1>5, <1>8
<1> QED BY <1>7, <1>8

\* A cadence that repeats allows a day of the next seven and one of the last.
LEMMA SomeDay ==
  ASSUME NEW c \in C, c.repeat # "once", NEW L \in Int
  PROVE  (\E d \in 1..7 : allows(c, L + d)) /\ (\E d \in 1..7 : allows(c, L - d))
<1>1. PICK k \in 0..6 : \A day \in Int : day % 7 = k => allows(c, day)
  <2>1. CASE c.repeat = "weekly"
    BY <2>1, CadenceFields DEF allows
  <2>2. CASE c.repeat = "weekdays"
    <3>1. \A day \in Int : day % 7 = 1 => allows(c, day)
      BY <2>2 DEF allows
    <3>2. 1 \in 0..6
      OBVIOUS
    <3> QED BY <3>1, <3>2
  <2>3. CASE c.repeat = "daily"
    <3>1. \A day \in Int : day % 7 = 0 => allows(c, day)
      BY <2>3 DEF allows
    <3>2. 0 \in 0..6
      OBVIOUS
    <3> QED BY <3>1, <3>2
  <2> QED BY <2>1, <2>2, <2>3, CadenceFields
<1>2. PICK d \in 1..7 : (L + d) % 7 = k
  BY WeekAhead
<1>3. PICK e \in 1..7 : (L - e) % 7 = k
  BY WeekBehind
<1>4. L + d \in Int /\ L - e \in Int
  OBVIOUS
<1> QED BY <1>1, <1>2, <1>3, <1>4

-----------------------------------------------------------------------------
(* Next and Previous.                                                      *)

\* A cadence for once runs at one time only.
LEMMA RunsOnce ==
  ASSUME NEW c \in C, c.repeat = "once", NEW x \in Int
  PROVE  RunsAt(c, x) <=> x = once(c)
<1>1. c.date \in Int
  BY CadenceFields
<1>2. LocalDay(c, once(c)) = c.date /\ (once(c) + Offset[c.zone]) % SlotsPerDay = c.clock
  BY <1>1, OnItsDay DEF once
<1>3. RunsAt(c, x) => x = once(c)
  BY AtItsClock DEF RunsAt, once
<1> QED BY <1>2, <1>3 DEF RunsAt

\* One that repeats runs on the days it allows.
LEMMA RunsOn ==
  ASSUME NEW c \in C, c.repeat # "once"
  PROVE  /\ \A d \in Int : allows(c, d) => RunsAt(c, OnDay(c, d))
         /\ \A x \in Int : RunsAt(c, x) => x = OnDay(c, LocalDay(c, x)) /\ allows(c, LocalDay(c, x))
BY OnItsDay, AtItsClock DEF RunsAt

\* What Next finds for a cadence that repeats: always a run, within the eight
\* days it looks through, and the first after t.
LEMMA NextRepeats ==
  ASSUME NEW c \in C, c.repeat # "once", NEW t \in Int
  PROVE  /\ Next(c, t) \in Int /\ Next(c, t) > t /\ RunsAt(c, Next(c, t))
         /\ \A x \in Int : x > t /\ x < Next(c, t) => ~RunsAt(c, x)
<1> DEFINE L == LocalDay(c, t)
           on == {d \in Look : at(c, t, d) > t /\ allows(c, L + d)}
           d0 == Least(on)
<1>0. L \in Int
  BY LocalTime
<1>1. PICK d1 \in 1..7 : allows(c, L + d1)
  BY <1>0, SomeDay
<1>2. d1 \in on
  <2>1. d1 \in Look /\ L + d1 \in Int /\ L + d1 > L
    BY <1>0 DEF Look
  <2>2. OnDay(c, L + d1) > t
    BY <2>1, AroundDay
  <2> QED BY <1>1, <2>1, <2>2 DEF at
<1>3. on \in SUBSET Nat /\ on # {}
  BY <1>2 DEF Look
<1>4. d0 \in on /\ \A y \in on : d0 <= y
  <2> HIDE DEF on
  <2> QED BY <1>3, LeastOne
<1>5. d0 \in 0..8 /\ L + d0 \in Int /\ OnDay(c, L + d0) > t /\ allows(c, L + d0)
  BY <1>0, <1>4 DEF at, Look
<1>6. Next(c, t) = OnDay(c, L + d0)
  BY <1>3 DEF Next, at
<1>7. OnDay(c, L + d0) \in Int /\ RunsAt(c, OnDay(c, L + d0))
  BY <1>5, OnItsDay, RunsOn
<1>8. ASSUME NEW x \in Int, x > t, x < OnDay(c, L + d0), RunsAt(c, x)
      PROVE  FALSE
  <2> DEFINE D == LocalDay(c, x)
             e == D - L
  <2>1. D \in Int /\ x = OnDay(c, D) /\ allows(c, D)
    BY <1>8, RunsOn, LocalTime
  <2>2. D < L + d0
    BY <1>5, <1>8, <2>1, LaterDay
  <2>3. ~(D < L)
    BY <1>8, <2>1, AroundDay
  <2>4. e \in 0..8 /\ e < d0 /\ L + e = D
    BY <1>0, <1>5, <2>1, <2>2, <2>3
  <2> HIDE DEF e, D, L, d0
  <2>5. at(c, t, e) = x /\ allows(c, L + e)
    BY <2>1, <2>4 DEF at, L
  <2>6. e \in on
    BY <1>8, <2>4, <2>5 DEF Look
  <2> QED BY <1>4, <1>5, <2>4, <2>6
<1> QED BY <1>5, <1>6, <1>7, <1>8

\* What Previous finds: always a run, and the last at or before t.
LEMMA PreviousRepeats ==
  ASSUME NEW c \in C, c.repeat # "once", NEW t \in Int
  PROVE  /\ Previous(c, t) \in Int /\ Previous(c, t) <= t /\ RunsAt(c, Previous(c, t))
         /\ \A x \in Int : x > Previous(c, t) /\ x <= t => ~RunsAt(c, x)
<1> DEFINE L == LocalDay(c, t)
           on == {d \in Look : at(c, t, -d) <= t /\ allows(c, L - d)}
           d0 == Least(on)
<1>0. L \in Int
  BY LocalTime
<1>1. PICK d1 \in 1..7 : allows(c, L - d1)
  BY <1>0, SomeDay
<1>2. d1 \in on
  <2>1. d1 \in Look /\ L - d1 \in Int /\ L - d1 < L /\ L + (-d1) = L - d1
    BY <1>0 DEF Look
  <2>2. OnDay(c, L - d1) < t /\ OnDay(c, L - d1) \in Int
    BY <2>1, AroundDay, OnItsDay
  <2>3. at(c, t, -d1) = OnDay(c, L - d1)
    BY <2>1 DEF at
  <2> QED BY <1>1, <2>1, <2>2, <2>3
<1>3. on \in SUBSET Nat /\ on # {}
  BY <1>2 DEF Look
<1>4. d0 \in on /\ \A y \in on : d0 <= y
  <2> HIDE DEF on
  <2> QED BY <1>3, LeastOne
<1>5. d0 \in 0..8 /\ L - d0 \in Int /\ L + (-d0) = L - d0 /\ at(c, t, -d0) <= t /\ allows(c, L - d0)
  BY <1>0, <1>4 DEF Look
<1>9. at(c, t, -d0) = OnDay(c, L - d0)
  BY <1>5 DEF at
<1>6. Previous(c, t) = OnDay(c, L - d0)
  BY <1>3, <1>9 DEF Previous
<1>7. OnDay(c, L - d0) \in Int /\ RunsAt(c, OnDay(c, L - d0))
  BY <1>5, OnItsDay, RunsOn
<1>8. ASSUME NEW x \in Int, x <= t, x > OnDay(c, L - d0), RunsAt(c, x)
      PROVE  FALSE
  <2> DEFINE D == LocalDay(c, x)
             e == L - D
  <2>1. D \in Int /\ x = OnDay(c, D) /\ allows(c, D)
    BY <1>8, RunsOn, LocalTime
  <2>2. L - d0 < D
    BY <1>5, <1>7, <1>8, <2>1, LaterDay
  <2>3. ~(D > L)
    BY <1>8, <2>1, AroundDay
  <2>4. e \in 0..8 /\ e < d0 /\ L - e = D /\ L + (-e) = D
    BY <1>0, <1>5, <2>1, <2>2, <2>3
  <2> HIDE DEF e, D, L, d0
  <2>5. at(c, t, -e) = x /\ allows(c, L - e)
    BY <2>1, <2>4 DEF at, L
  <2>6. e \in on
    BY <1>8, <2>4, <2>5 DEF Look
  <2> QED BY <1>4, <1>5, <2>4, <2>6
<1> QED BY <1>5, <1>6, <1>7, <1>8, <1>9

\* For once, both are the one time, where it is on their side of t.
LEMMA OnceTimes ==
  ASSUME NEW c \in C, c.repeat = "once", NEW t \in Int
  PROVE  /\ once(c) \in Int /\ once(c) # NoTime
         /\ Next(c, t) = IF once(c) > t THEN once(c) ELSE NoTime
         /\ Previous(c, t) = IF once(c) <= t THEN once(c) ELSE NoTime
<1>1. c.date \in Int
  BY CadenceFields
<1>2. once(c) \in Int
  BY <1>1, OnItsDay DEF once
<1> QED BY <1>2, Constants DEF Next, Previous

\* Next and Previous are what the cadence means, for every length of a day,
\* every offset and every time; they say there is none only for once.
LEMMA TimesOfCadence ==
  ASSUME NEW c \in C, NEW t \in Int, NEW far \in Int
  PROVE  /\ NextIsFirst(c, t, far) /\ PreviousIsLast(c, t, far)
         /\ c.repeat # "once" => Next(c, t) # NoTime
<1>1. CASE c.repeat = "once"
  <2>1. \A x \in Int : RunsAt(c, x) <=> x = once(c)
    BY <1>1, RunsOnce
  <2> DEFINE o == once(c)
  <2>2. /\ o \in Int /\ o # NoTime /\ Next(c, t) = (IF o > t THEN o ELSE NoTime)
        /\ Previous(c, t) = (IF o <= t THEN o ELSE NoTime)
    BY <1>1, OnceTimes
  <2>3. \A x \in Int : RunsAt(c, x) <=> x = o
    BY <2>1
  <2> HIDE DEF o
  <2>4. NextIsFirst(c, t, far)
    <3>1. CASE o > t
      <4>1. Next(c, t) = o
        BY <2>2, <3>1
      <4> QED BY <2>2, <2>3, <3>1, <4>1 DEF NextIsFirst
    <3>2. CASE ~(o > t)
      <4>1. Next(c, t) = NoTime
        BY <2>2, <3>2
      <4> QED BY <2>2, <2>3, <3>2, <4>1 DEF NextIsFirst
    <3> QED BY <3>1, <3>2
  <2>5. PreviousIsLast(c, t, far)
    <3>1. CASE o <= t
      <4>1. Previous(c, t) = o
        BY <2>2, <3>1
      <4> QED BY <2>2, <2>3, <3>1, <4>1 DEF PreviousIsLast
    <3>2. CASE ~(o <= t)
      <4>1. Previous(c, t) = NoTime
        BY <2>2, <3>2
      <4> QED BY <2>2, <2>3, <3>2, <4>1 DEF PreviousIsLast
    <3> QED BY <3>1, <3>2
  <2> QED BY <1>1, <2>4, <2>5
<1>2. CASE c.repeat # "once"
  <2> DEFINE n == Next(c, t)
             p == Previous(c, t)
  <2>1. n \in Int /\ n > t /\ RunsAt(c, n) /\ \A x \in Int : x > t /\ x < n => ~RunsAt(c, x)
    BY <1>2, NextRepeats
  <2>2. p \in Int /\ p <= t /\ RunsAt(c, p) /\ \A x \in Int : x > p /\ x <= t => ~RunsAt(c, x)
    BY <1>2, PreviousRepeats
  <2>3. n # NoTime /\ p # NoTime
    BY <2>1, <2>2, Constants
  <2> HIDE DEF n, p
  <2>4. \A x \in (t + 1)..(n - 1) : ~RunsAt(c, x)
    BY <2>1
  <2>5. \A x \in (p + 1)..t : ~RunsAt(c, x)
    BY <2>2
  <2> QED BY <2>1, <2>2, <2>3, <2>4, <2>5 DEF NextIsFirst, PreviousIsLast, n, p
<1> QED BY <1>1, <1>2

-----------------------------------------------------------------------------
(* The rows, field by field.                                               *)

\* What the proofs use of the assumption on schedules.
LEMMA ScheduleConstants ==
  /\ Schedules \subseteq Nat /\ Cadences \subseteq C /\ Keep \notin C /\ Keep \notin Status /\ MaxCalls \in Nat
  /\ Keep \notin BOOLEAN
BY SchedulesAssumption DEF SchedulesAssumption, C

\* A row with new values, Keep where there is none.
LEMMA WrittenFields ==
  ASSUME NEW x \in RowSet, NEW c \in C \cup {Keep}, NEW status \in Status \cup {Keep}, NEW by
  PROVE  /\ Written(x, c, status, by) \in RowSet /\ Written(x, c, status, by).state = x.state
         /\ Written(x, c, status, by).own = (by = "agent")
         /\ Written(x, c, status, by).c = IF c = Keep THEN x.c ELSE c
<1> DEFINE k == IF c = Keep THEN x.c ELSE c
           t == IF status = Keep THEN x.status ELSE status
           o == (by = "agent")
<1>1. k \in C \cup {Keep} /\ t \in Status /\ o \in BOOLEAN
  BY DEF RowSet, C
<1>2. Written(x, c, status, by) = [x EXCEPT !.c = k, !.status = t, !.own = o]
  BY DEF Written
<1> HIDE DEF k, t, o
<1>3. Written(x, c, status, by) \in RowSet
  BY <1>1, <1>2, Zenon DEF RowSet, C
<1>4. Written(x, c, status, by).state = x.state
  BY <1>2, Zenon DEF RowSet
<1>5. Written(x, c, status, by).own = o
  BY <1>2, Zenon DEF RowSet
<1>6. Written(x, c, status, by).c = k
  BY <1>2, Zenon DEF RowSet
<1> QED BY <1>3, <1>4, <1>5, <1>6 DEF k, o

\* Whose the row then is; it has a cadence if it had one.
LEMMA WrittenBy ==
  ASSUME NEW x \in RowSet, x.c # Keep, NEW c \in C \cup {Keep}, NEW status \in Status \cup {Keep}
  PROVE  /\ Written(x, c, status, "user").own = FALSE /\ Written(x, c, status, "agent").own = TRUE
         /\ Written(x, c, status, "user").c # Keep /\ Written(x, c, status, "agent").c # Keep
<1>1. /\ Written(x, c, status, "user").own = ("user" = "agent")
      /\ Written(x, c, status, "user").c = IF c = Keep THEN x.c ELSE c
  BY WrittenFields
<1>2. /\ Written(x, c, status, "agent").own = ("agent" = "agent")
      /\ Written(x, c, status, "agent").c = IF c = Keep THEN x.c ELSE c
  BY WrittenFields
<1> QED BY <1>1, <1>2, ScheduleConstants

\* A row that was deleted.
LEMMA EndedFields ==
  ASSUME NEW x \in RowSet, NEW by
  PROVE  /\ Ended(x, by) \in RowSet /\ Ended(x, by).state = "deleted" /\ Ended(x, by).c = x.c
         /\ Ended(x, by).own = (by = "agent")
<1> DEFINE o == (by = "agent")
<1>1. o \in BOOLEAN
  OBVIOUS
<1>2. Ended(x, by) = [x EXCEPT !.state = "deleted", !.own = o]
  BY DEF Ended
<1> HIDE DEF o
<1>3. Ended(x, by) \in RowSet
  BY <1>1, <1>2, Zenon DEF RowSet
<1>4. Ended(x, by).state = "deleted"
  BY <1>2, Zenon DEF RowSet
<1>5. Ended(x, by).c = x.c
  BY <1>2, Zenon DEF RowSet
<1>6. Ended(x, by).own = o
  BY <1>2, Zenon DEF RowSet
<1> QED BY <1>3, <1>4, <1>5, <1>6 DEF o

\* A new row.
Fresh(by, c, at0) ==
  [Row("live", IF by = "user" THEN "pending" ELSE "active", c, at0) EXCEPT !.own = (by = "agent")]
\* A schedule just made is live, has the cadence asked for and is its maker's.
LEMMA FreshFields ==
  ASSUME NEW by, NEW c \in C, NEW at0 \in Nat
  PROVE  /\ Fresh(by, c, at0) \in RowSet /\ Fresh(by, c, at0).state = "live" /\ Fresh(by, c, at0).c = c
         /\ Fresh(by, c, at0).own = (by = "agent")
<1> DEFINE o == (by = "agent")
           st == IF by = "user" THEN "pending" ELSE "active"
           x == Row("live", st, c, at0)
<1>1. o \in BOOLEAN /\ st \in Status
  BY DEF Status
<1>2. x \in RowSet /\ x.state = "live" /\ x.c = c
  <2> HIDE DEF st, o
  <2> QED BY <1>1 DEF Row, RowSet, C
<1>3. Fresh(by, c, at0) = [x EXCEPT !.own = o]
  BY DEF Fresh
<1> HIDE DEF x, o
<1> QED BY <1>1, <1>2, <1>3 DEF RowSet, o

\* A row whose agent sent a message for it.
LEMMA RanFields ==
  ASSUME NEW x \in RowSet, NEW t \in Nat
  PROVE  /\ [x EXCEPT !.ran = t] \in RowSet /\ [x EXCEPT !.ran = t].state = x.state
         /\ [x EXCEPT !.ran = t].c = x.c /\ [x EXCEPT !.ran = t].own = x.own
         /\ [x EXCEPT !.ran = t].status = x.status
BY DEF RowSet

-----------------------------------------------------------------------------
(* The schedules and what the agent was told of them.                      *)

Rows ==
  /\ row \in [Schedules -> RowSet]
  /\ \A s \in Schedules : row[s].state # "none" => row[s].c # Keep
  /\ told \in [Schedules -> EventSet \cup {NoEvent}]

Inv == TypeOK /\ LastWordTold

\* The agent is told of the row as the person leaves it.
LEMMA PersonWrites ==
  ASSUME Inv, NEW s \in Schedules, NEW x \in RowSet, NEW type \in {"requested", "updated", "deleted"},
         x.c # Keep, x.own = FALSE, type = "deleted" <=> x.state = "deleted",
         row' = [row EXCEPT ![s] = x], told' = [told EXCEPT ![s] = Event(type, s)]
  PROVE  Rows' /\ LastWordTold'
<1>1. row \in [Schedules -> RowSet] /\ told \in [Schedules -> EventSet \cup {NoEvent}] /\ LastWordTold
      /\ \A q \in Schedules : row[q].state # "none" => row[q].c # Keep
  BY DEF Inv, TypeOK
<1>2. row'[s] = x /\ \A q \in Schedules : q # s => row'[q] = row[q]
  BY <1>1
<1> DEFINE ev == Event(type, s)
<1>3. ev = [type |-> type, status |-> x.status, c |-> x.c]
  BY <1>2 DEF Event
<1>4. x.status \in Status /\ x.c \in C
  BY DEF RowSet, C
<1>5. ev \in EventSet /\ ev.c = x.c /\ ev.status = x.status /\ ev.type = type
  BY <1>3, <1>4 DEF EventSet, C
<1> HIDE DEF ev
<1>6. told' = [told EXCEPT ![s] = ev]
  BY DEF ev
<1>7. told'[s] = ev /\ \A q \in Schedules : q # s => told'[q] = told[q]
  BY <1>1, <1>6
<1>8. Rows'
  BY <1>1, <1>2, <1>5, <1>6 DEF Rows
<1>9. ASSUME NEW q \in Schedules, row'[q].state # "none", ~row'[q].own
      PROVE  /\ told'[q].c = row'[q].c /\ told'[q].status = row'[q].status
             /\ told'[q].type = "deleted" <=> row'[q].state = "deleted"
  BY <1>1, <1>2, <1>5, <1>7, <1>9 DEF LastWordTold
<1> QED BY <1>8, <1>9 DEF LastWordTold

\* A row that the agent writes is its own until the person writes it.
LEMMA AgentWrites ==
  ASSUME Inv, NEW s, NEW x \in RowSet, x.c # Keep, x.own = TRUE,
         row' = [row EXCEPT ![s] = x], UNCHANGED told
  PROVE  Rows' /\ LastWordTold'
BY DEF Inv, TypeOK, Rows, LastWordTold

\* A step that writes no row and no event keeps both.
LEMMA RowsSame ==
  ASSUME Inv, UNCHANGED <<row, told>>
  PROVE  Rows' /\ LastWordTold'
BY DEF Inv, TypeOK, Rows, LastWordTold

\* Marking when a schedule ran touches nothing the agent is told of.
LEMMA RanWrites ==
  ASSUME Inv, NEW s \in Schedules, row' = [row EXCEPT ![s].ran = now], UNCHANGED told
  PROVE  Rows' /\ LastWordTold'
<1>1. row \in [Schedules -> RowSet] /\ now \in Nat
  BY DEF Inv, TypeOK
<1> DEFINE x == [row[s] EXCEPT !.ran = now]
<1>2. row' = [row EXCEPT ![s] = x]
  BY Zenon
<1>3. x \in RowSet /\ x.state = row[s].state /\ x.c = row[s].c /\ x.own = row[s].own /\ x.status = row[s].status
  BY <1>1, RanFields
<1> HIDE DEF x
<1> QED BY <1>1, <1>2, <1>3 DEF Inv, TypeOK, Rows, LastWordTold

-----------------------------------------------------------------------------
(* The handlers.                                                           *)

\* What a handler holds follows from where it is.
LEMMA RequestKind ==
  ASSUME TypeOK, NEW r \in Requests, req[r] # Idle
  PROVE  /\ req[r] \in Request
         /\ req[r].at \in {"count", "insert"} => req[r] \in MakeRequest /\ req[r].c \in C /\ req[r].by \in {"user", "agent"}
         /\ req[r].at \in {"write", "hold"} =>
              req[r].s \in Schedules /\ req[r].c \in C \cup {Keep} /\ req[r].status \in Status \cup {Keep}
         /\ req[r].at \in {"end", "check", "store", "ran"} => req[r] \in RowRequest /\ req[r].s \in Schedules
         /\ req[r].at = "list" => req[r].from \in Zones /\ req[r].to \in Zones
         /\ req[r].at = "move" => req[r] \in MoveRequest /\ req[r].todo \subseteq MovedSet /\ req[r].todo # {}
<1>1. req[r] \in Request
  BY DEF TypeOK
<1> QED BY <1>1, ScheduleConstants DEF Request, MakeRequest, ChangeRequest, RowRequest, ListRequest, MoveRequest

\* One handler moves.
LEMMA OneRequest ==
  ASSUME TypeOK, NEW r \in Requests, NEW y \in Request \cup {Idle}, req' = [req EXCEPT ![r] = y]
  PROVE  req' \in [Requests -> Request \cup {Idle}]
BY DEF TypeOK

\* What MoveNext takes next is one of those it read.
LEMMA NextMoved ==
  ASSUME NEW T \in SUBSET MovedSet, T # {}
  PROVE  (CHOOSE x \in T : \A y \in T : x.s <= y.s) \in T
<1> DEFINE S == {x.s : x \in T}
<1>1. S \in SUBSET Nat /\ S # {}
  BY ScheduleConstants DEF MovedSet
<1>2. Least(S) \in S /\ \A y \in S : Least(S) <= y
  <2> HIDE DEF S
  <2> QED BY <1>1, LeastOne
<1>3. PICK x \in T : x.s = Least(S)
  BY <1>2
<1>4. \A y \in T : x.s <= y.s
  BY <1>2, <1>3
<1> QED BY <1>4

ReqOK == req \in [Requests -> Request \cup {Idle}]
Good == Rows' /\ LastWordTold' /\ ReqOK'

\* A handler that ends.
LEMMA DoneType ==
  ASSUME TypeOK, NEW r \in Requests, Done(r)
  PROVE  ReqOK'
BY OneRequest DEF Done, ReqOK

\* A handler that goes on to another step on the same row, or to its insert.
LEMMA GotoType ==
  ASSUME TypeOK, NEW r \in Requests, req[r] # Idle, NEW p, Goto(r, p),
         \/ req[r].at = "count" /\ p = "insert"
         \/ req[r].at \in {"check", "store"} /\ p \in {"store", "ran"}
  PROVE  ReqOK'
<1> DEFINE y == [req[r] EXCEPT !.at = p]
<1>1. req' = [req EXCEPT ![r] = y]
  BY Zenon DEF Goto
<1>2. CASE req[r].at = "count" /\ p = "insert"
  <2>1. req[r] \in MakeRequest
    BY <1>2, RequestKind
  <2>2. y \in MakeRequest
    BY <1>2, <2>1, Zenon DEF MakeRequest
  <2> HIDE DEF y
  <2> QED BY <1>1, <2>2, OneRequest DEF Request, ReqOK
<1>3. CASE req[r].at \in {"check", "store"} /\ p \in {"store", "ran"}
  <2>1. req[r] \in RowRequest
    BY <1>3, RequestKind
  <2>2. y \in RowRequest
    BY <1>3, <2>1, Zenon DEF RowRequest
  <2> HIDE DEF y
  <2> QED BY <1>1, <2>2, OneRequest DEF Request, ReqOK
<1> QED BY <1>2, <1>3

\* A call looks, and leaves the rows alone.
LEMMA CallGood ==
  ASSUME Inv, NEW r \in Requests, Call(r)
  PROVE  Good
<1>0. TypeOK /\ \A s \in Schedules : row[s].status \in Status
  BY DEF Inv, TypeOK, RowSet
<1>1. UNCHANGED <<row, told>>
  BY DEF Call, RequestSchedule, CreateScheduleAsAgent, ChangeSchedule, EndSchedule, ChangeZone, ConfirmSchedule, Run
<1>2. ASSUME NEW y \in Request, Begins(r, y)
      PROVE  ReqOK'
  BY <1>0, <1>2, OneRequest DEF Begins, ReqOK
<1>3. ASSUME NEW c \in Cadences, NEW by \in {"user", "agent"}, Begins(r, [at |-> "count", by |-> by, c |-> c])
      PROVE  ReqOK'
  <2>1. [at |-> "count", by |-> by, c |-> c] \in MakeRequest
    BY DEF MakeRequest
  <2> QED BY <1>2, <1>3, <2>1 DEF Request
<1>4. ASSUME NEW s \in Schedules, NEW p \in {"end", "check"}, Begins(r, [at |-> p, s |-> s])
      PROVE  ReqOK'
  <2>1. [at |-> p, s |-> s] \in RowRequest
    BY DEF RowRequest
  <2> QED BY <1>2, <1>4, <2>1 DEF Request
<1>5. ASSUME NEW s \in Schedules, NEW c \in Cadences \cup {Keep}, NEW p \in {"write", "hold"},
             NEW st \in Status \cup {Keep}, Begins(r, [at |-> p, s |-> s, c |-> c, status |-> st])
      PROVE  ReqOK'
  <2>1. [at |-> p, s |-> s, c |-> c, status |-> st] \in ChangeRequest
    BY DEF ChangeRequest
  <2> QED BY <1>2, <1>5, <2>1 DEF Request
<1>6. ASSUME NEW c \in Cadences, RequestSchedule(r, c) \/ CreateScheduleAsAgent(r, c)
      PROVE  ReqOK'
  BY <1>3, <1>6 DEF RequestSchedule, CreateScheduleAsAgent
<1>7. ASSUME NEW s \in Schedules, EndSchedule(r, s) \/ Run(r, s)
      PROVE  ReqOK'
  BY <1>4, <1>7 DEF EndSchedule, Run
<1>8. ASSUME NEW s \in Schedules, NEW c \in Cadences \cup {Keep}, NEW paused \in BOOLEAN \cup {Keep},
             ChangeSchedule(r, s, c, paused)
      PROVE  ReqOK'
  <2> DEFINE st == StatusAfter(row[s].status, c, paused)
  <2>1. st \in Status
    BY <1>0 DEF StatusAfter, Status
  <2>2. Begins(r, [at |-> "write", s |-> s, c |-> c, status |-> st])
    BY <1>8 DEF ChangeSchedule
  <2> HIDE DEF st
  <2> QED BY <1>5, <2>1, <2>2
<1>9. ASSUME NEW s \in Schedules, NEW c \in Cadences \cup {Keep}, NEW status \in {"active", "paused", Keep},
             ConfirmSchedule(r, s, c, status)
      PROVE  ReqOK'
  BY <1>5, <1>9 DEF ConfirmSchedule, Status
<1>10. ASSUME NEW z \in Zones, ChangeZone(r, z)
       PROVE  ReqOK'
  <2>1. [at |-> "list", from |-> home, to |-> z] \in ListRequest
    BY <1>0 DEF ListRequest, TypeOK
  <2> QED BY <1>2, <1>10, <2>1 DEF Request, ChangeZone
<1>11. ReqOK'
  BY <1>6, <1>7, <1>8, <1>9, <1>10 DEF Call
<1> QED BY <1>1, <1>11, RowsSame DEF Good

\* The person's new values reach the row and the agent together.
LEMMA PersonUpdates ==
  ASSUME Inv, NEW s \in Schedules, NEW c \in C \cup {Keep}, NEW status \in Status \cup {Keep},
         UpdateSchedule(s, c, status, "user"), told' = [told EXCEPT ![s] = Event("updated", s)]
  PROVE  Rows' /\ LastWordTold'
<1> DEFINE x == Written(row[s], c, status, "user")
<1>1. row[s] \in RowSet /\ row[s].state = "live" /\ row[s].c # Keep
  BY DEF Inv, TypeOK, UpdateSchedule, Live
<1>2. row' = [row EXCEPT ![s] = x]
  BY DEF UpdateSchedule
<1>3. x \in RowSet /\ x.state = row[s].state /\ x.c # Keep
  BY <1>1, WrittenFields
<1>4. x.own = FALSE
  BY <1>1, WrittenBy
<1> HIDE DEF x
<1> QED BY <1>1, <1>2, <1>3, <1>4, PersonWrites

\* Every step of a handler under way.
LEMMA StepGood ==
  ASSUME Inv, NEW r \in Requests, Step(r)
  PROVE  Good
<1>0. TypeOK /\ now \in Nat
  BY DEF Inv, TypeOK
<1>00. req[r] # Idle
  BY DEF Step, At, CountFirst, InsertSchedule, WriteSchedule, EndTx, ListForMove, MoveNext, HoldSchedule,
         checkScheduleTag, StoreRun, MarkScheduleRan
<1>1. CASE CountFirst(r)
  <2>1. req[r].at = "count" /\ (Done(r) \/ Goto(r, "insert")) /\ UNCHANGED <<row, told>>
    BY <1>1 DEF CountFirst, At
  <2> QED BY <1>0, <1>00, <2>1, DoneType, GotoType, RowsSame DEF Good
<1>2. CASE InsertSchedule(r)
  <2> DEFINE free == {s \in Schedules : row[s].state = "none"}
             s == Least(free)
             x == Fresh(req[r].by, req[r].c, now)
  <2>1. req[r].c \in C /\ req[r].by \in {"user", "agent"}
    BY <1>0, <1>00, <1>2, RequestKind DEF InsertSchedule, At
  <2>2. free \in SUBSET Nat /\ free # {}
    BY <1>2, ScheduleConstants DEF InsertSchedule
  <2>3. s \in free
    <3> HIDE DEF free
    <3> QED BY <2>2, LeastOne
  <2>4. s \in Schedules
    BY <2>3
  <2>5. x \in RowSet /\ x.state = "live" /\ x.c # Keep /\ x.own = (req[r].by = "agent")
    BY <1>0, <2>1, FreshFields, ScheduleConstants
  <2>6. row' = [row EXCEPT ![s] = x]
    BY <1>2 DEF InsertSchedule, CreateSchedule, Fresh
  <2>7. /\ req[r].by = "user" => told' = [told EXCEPT ![s] = Event("requested", s)]
        /\ req[r].by # "user" => told' = told
    BY <1>2 DEF InsertSchedule
  <2>8. Done(r)
    BY <1>2 DEF InsertSchedule
  <2> HIDE DEF s, x, free
  <2>9. CASE req[r].by = "user"
    <3>1. x.own = FALSE /\ told' = [told EXCEPT ![s] = Event("requested", s)]
      BY <2>5, <2>7, <2>9
    <3> QED BY <1>0, <2>4, <2>5, <2>6, <2>8, <3>1, PersonWrites, DoneType DEF Good
  <2>10. CASE req[r].by = "agent"
    <3>1. x.own = TRUE /\ UNCHANGED told
      BY <2>5, <2>7, <2>10
    <3> QED BY <1>0, <2>4, <2>5, <2>6, <2>8, <3>1, AgentWrites, DoneType DEF Good
  <2> QED BY <2>1, <2>9, <2>10
<1>3. CASE WriteSchedule(r)
  <2>1. req[r].s \in Schedules /\ req[r].c \in C \cup {Keep} /\ req[r].status \in Status \cup {Keep}
    BY <1>0, <1>00, <1>3, RequestKind DEF WriteSchedule, At
  <2>2. \/ UNCHANGED <<row, told>>
        \/ /\ UpdateSchedule(req[r].s, req[r].c, req[r].status, "user")
           /\ told' = [told EXCEPT ![req[r].s] = Event("updated", req[r].s)]
    BY <1>3 DEF WriteSchedule
  <2>3. Rows' /\ LastWordTold'
    BY <2>1, <2>2, PersonUpdates, RowsSame
  <2> QED BY <1>0, <1>3, <2>3, DoneType DEF Good, WriteSchedule
<1>4. CASE EndTx(r)
  <2> DEFINE s == req[r].s
             x == Ended(row[s], "user")
  <2>1. s \in Schedules
    BY <1>0, <1>00, <1>4, RequestKind DEF EndTx, At
  <2>2. CASE UNCHANGED <<row, told>>
    BY <1>0, <1>4, <2>2, DoneType, RowsSame DEF Good, EndTx
  <2>3. CASE DeleteSchedule(s, "user") /\ told' = [told EXCEPT ![s] = Event("deleted", s)]
    <3>1. row[s] \in RowSet /\ row[s].c # Keep
      BY <1>0, <2>1, <2>3 DEF TypeOK, DeleteSchedule, Live
    <3>2. x \in RowSet /\ x.state = "deleted" /\ x.c # Keep /\ x.own = FALSE
      BY <3>1, EndedFields
    <3>3. row' = [row EXCEPT ![s] = x]
      BY <2>3 DEF DeleteSchedule
    <3>4. Done(r)
      BY <1>4 DEF EndTx
    <3> HIDE DEF s, x
    <3> QED BY <1>0, <2>1, <2>3, <3>2, <3>3, <3>4, PersonWrites, DoneType DEF Good
  <2> QED BY <1>4, <2>2, <2>3 DEF EndTx
<1>5. CASE ListForMove(r)
  <2> DEFINE todo == {Moved(s, req[r].to) : s \in ListPersonSchedulesInZone(req[r].from)}
             y == [at |-> "move", todo |-> todo]
  <2>1. req[r].to \in Zones
    BY <1>0, <1>00, <1>5, RequestKind DEF ListForMove, At
  <2>2. todo \in SUBSET MovedSet
    <3> SUFFICES ASSUME NEW s \in Schedules, Live(s)
                 PROVE  Moved(s, req[r].to) \in MovedSet
      BY DEF ListPersonSchedulesInZone
    <3>1. row[s].c \in C /\ row[s].status \in Status
      BY <1>0 DEF TypeOK, RowSet, Live, C
    <3>2. [row[s].c EXCEPT !.zone = req[r].to] \in C
      BY <2>1, <3>1 DEF C, CadenceSet
    <3> DEFINE c == [row[s].c EXCEPT !.zone = req[r].to]
               st == IF row[s].status = "paused" THEN "paused" ELSE "pending"
    <3>3. st \in Status
      BY DEF Status
    <3>4. Moved(s, req[r].to) = [s |-> s, c |-> c, status |-> st]
      BY DEF Moved
    <3>5. c \in C
      BY <3>2
    <3> HIDE DEF c, st
    <3> QED BY <3>3, <3>4, <3>5 DEF MovedSet, C
  <2>3. Done(r) \/ (todo # {} /\ req' = [req EXCEPT ![r] = y])
    BY <1>5 DEF ListForMove
  <2>4. todo # {} => y \in Request
    <3> HIDE DEF todo
    <3> QED BY <2>2 DEF Request, MoveRequest
  <2> HIDE DEF todo, y
  <2>5. ReqOK'
    BY <1>0, <2>3, <2>4, DoneType, OneRequest DEF ReqOK
  <2> QED BY <1>5, <2>5, RowsSame DEF Good, ListForMove
<1>6. CASE MoveNext(r)
  <2> DEFINE T == req[r].todo
             x == CHOOSE x \in T : \A y \in T : x.s <= y.s
  <2>1. T \in SUBSET MovedSet /\ T # {} /\ req[r] \in MoveRequest
    BY <1>0, <1>00, <1>6, RequestKind DEF MoveNext, At
  <2>2. x \in T
    <3> HIDE DEF T
    <3> QED BY <2>1, NextMoved
  <2>3. x.s \in Schedules /\ x.c \in C /\ x.status \in Status
    <3>1. x \in MovedSet
      BY <2>1, <2>2
    <3> HIDE DEF x
    <3> QED BY <3>1 DEF MovedSet, C
  <2>4. \/ Done(r) /\ UNCHANGED <<row, told>>
        \/ /\ UpdateSchedule(x.s, x.c, x.status, "user") /\ told' = [told EXCEPT ![x.s] = Event("updated", x.s)]
           /\ Done(r) \/ (T # {x} /\ req' = [req EXCEPT ![r].todo = @ \ {x}])
    BY <1>6, Zenon DEF MoveNext
  <2> HIDE DEF x
  <2>5. Rows' /\ LastWordTold'
    BY <2>3, <2>4, PersonUpdates, RowsSame
  <2>6. ASSUME T # {x}, req' = [req EXCEPT ![r].todo = @ \ {x}]
        PROVE  ReqOK'
    <3> DEFINE U == T \ {x}
               y == [req[r] EXCEPT !.todo = U]
    <3>1. req' = [req EXCEPT ![r] = y]
      BY <2>6, Zenon
    <3>2. U \in (SUBSET MovedSet) \ {{}}
      BY <2>1, <2>2, <2>6
    <3> HIDE DEF U
    <3>3. y \in MoveRequest
      BY <2>1, <3>2, Zenon DEF MoveRequest
    <3> HIDE DEF y
    <3> QED BY <1>0, <3>1, <3>3, OneRequest DEF Request, ReqOK
  <2>7. ReqOK'
    BY <1>0, <2>4, <2>6, DoneType
  <2> QED BY <2>5, <2>7 DEF Good
<1>7. CASE HoldSchedule(r)
  <2> DEFINE s == req[r].s
             x == Written(row[s], req[r].c, req[r].status, "agent")
  <2>1. s \in Schedules /\ req[r].c \in C \cup {Keep} /\ req[r].status \in Status \cup {Keep}
    BY <1>0, <1>00, <1>7, RequestKind DEF HoldSchedule, At
  <2>2. CASE UNCHANGED row
    BY <1>0, <1>7, <2>2, DoneType, RowsSame DEF Good, HoldSchedule
  <2>3. CASE UpdateSchedule(s, req[r].c, req[r].status, "agent")
    <3>1. row[s] \in RowSet /\ row[s].c # Keep
      BY <1>0, <2>1, <2>3 DEF TypeOK, UpdateSchedule, Live
    <3>2. x \in RowSet
      BY <2>1, <3>1, WrittenFields
    <3>5. x.own = TRUE /\ x.c # Keep
      BY <2>1, <3>1, WrittenBy
    <3>3. row' = [row EXCEPT ![s] = x]
      BY <2>3 DEF UpdateSchedule
    <3>4. Done(r) /\ UNCHANGED told
      BY <1>7 DEF HoldSchedule
    <3> HIDE DEF s, x
    <3> QED BY <1>0, <2>1, <3>2, <3>3, <3>4, <3>5, AgentWrites, DoneType DEF Good
  <2> QED BY <1>7, <2>2, <2>3 DEF HoldSchedule
<1>8. CASE checkScheduleTag(r)
  <2>1. req[r].at = "check" /\ (Done(r) \/ Goto(r, "store")) /\ UNCHANGED <<row, told>>
    BY <1>8 DEF checkScheduleTag, At
  <2> QED BY <1>0, <1>00, <2>1, DoneType, GotoType, RowsSame DEF Good
<1>9. CASE StoreRun(r)
  <2>1. req[r].at = "store" /\ Goto(r, "ran") /\ UNCHANGED <<row, told>>
    BY <1>9 DEF StoreRun, At
  <2> QED BY <1>0, <1>00, <2>1, GotoType, RowsSame DEF Good
<1>10. CASE MarkScheduleRan(r)
  <2>1. req[r].s \in Schedules
    BY <1>0, <1>00, <1>10, RequestKind DEF MarkScheduleRan, At
  <2>2. Done(r) /\ UNCHANGED told /\ (UNCHANGED row \/ row' = [row EXCEPT ![req[r].s].ran = now])
    BY <1>10, Zenon DEF MarkScheduleRan
  <2>3. Rows' /\ LastWordTold'
    BY <2>1, <2>2, RanWrites, RowsSame
  <2> QED BY <1>0, <2>2, <2>3, DoneType DEF Good
<1> QED BY <1>1, <1>2, <1>3, <1>4, <1>5, <1>6, <1>7, <1>8, <1>9, <1>10 DEF Step

\* The agent deletes one.
LEMMA DropGood ==
  ASSUME Inv, NEW s \in Schedules, DropSchedule(s)
  PROVE  Good
<1> DEFINE x == Ended(row[s], "agent")
<1>1. row[s] \in RowSet /\ row[s].c # Keep /\ ReqOK
  BY DEF Inv, TypeOK, DropSchedule, DeleteSchedule, Live, ReqOK
<1>2. x \in RowSet /\ x.c # Keep /\ x.own = TRUE
  BY <1>1, EndedFields
<1>3. row' = [row EXCEPT ![s] = x] /\ UNCHANGED <<told, req>>
  BY DEF DropSchedule, DeleteSchedule
<1> HIDE DEF x
<1> QED BY <1>1, <1>2, <1>3, AgentWrites DEF Good, ReqOK

\* What a step may do to the clock, the chat, the zone and the calls left.
Others ==
  /\ now' = now \/ now' = now + 1
  /\ takes' = takes \/ takes' = FALSE
  /\ home' = home \/ home' \in Zones
  /\ left' = left \/ (left > 0 /\ left' = left - 1)

\* A handler under way leaves all four as they are.
LEMMA StepOthers ==
  ASSUME NEW r \in Requests, Step(r)
  PROVE  Others
<1>1. UNCHANGED <<now, takes, home>> /\ left' = left
  <2>1. CASE CountFirst(r)
    BY <2>1, Zenon DEF CountFirst, At
  <2>2. CASE InsertSchedule(r)
    BY <2>2, Zenon DEF InsertSchedule, At
  <2>3. CASE WriteSchedule(r)
    BY <2>3, Zenon DEF WriteSchedule, At
  <2>4. CASE EndTx(r)
    BY <2>4, Zenon DEF EndTx, At
  <2>5. CASE ListForMove(r)
    BY <2>5, Zenon DEF ListForMove, At
  <2>6. CASE MoveNext(r)
    BY <2>6, Zenon DEF MoveNext, At
  <2>7. CASE HoldSchedule(r)
    BY <2>7, Zenon DEF HoldSchedule, At
  <2>8. CASE checkScheduleTag(r)
    BY <2>8, Zenon DEF checkScheduleTag, At
  <2>9. CASE StoreRun(r)
    BY <2>9, Zenon DEF StoreRun, At
  <2>10. CASE MarkScheduleRan(r)
    BY <2>10, Zenon DEF MarkScheduleRan, At
  <2> QED BY <2>1, <2>2, <2>3, <2>4, <2>5, <2>6, <2>7, <2>8, <2>9, <2>10 DEF Step
<1> QED BY <1>1 DEF Others

\* A call uses up one of the calls, and only a change of profile moves the zone.
LEMMA CallOthers ==
  ASSUME NEW r \in Requests, Call(r)
  PROVE  Others
<1>1. UNCHANGED <<now, takes>> /\ (home' = home \/ home' \in Zones) /\ left > 0 /\ left' = left - 1
  <2>1. ASSUME NEW c, RequestSchedule(r, c) \/ CreateScheduleAsAgent(r, c)
        PROVE  UNCHANGED <<now, takes, home>> /\ left > 0 /\ left' = left - 1
    BY <2>1, Zenon DEF RequestSchedule, CreateScheduleAsAgent, Calls
  <2>2. ASSUME NEW s, EndSchedule(r, s) \/ Run(r, s)
        PROVE  UNCHANGED <<now, takes, home>> /\ left > 0 /\ left' = left - 1
    BY <2>2, Zenon DEF EndSchedule, Run, Calls
  <2>3. ASSUME NEW s, NEW c, NEW x, ChangeSchedule(r, s, c, x) \/ ConfirmSchedule(r, s, c, x)
        PROVE  UNCHANGED <<now, takes, home>> /\ left > 0 /\ left' = left - 1
    BY <2>3, Zenon DEF ChangeSchedule, ConfirmSchedule, Calls
  <2>4. ASSUME NEW z \in Zones, ChangeZone(r, z)
        PROVE  UNCHANGED <<now, takes>> /\ home' \in Zones /\ left > 0 /\ left' = left - 1
    BY <2>4, Zenon DEF ChangeZone, Calls
  <2> QED BY <2>1, <2>2, <2>3, <2>4, Zenon DEF Call
<1> QED BY <1>1 DEF Others

\* The steps that are no handler's.
LEMMA RestOthers ==
  ASSUME (\E s \in Schedules : DropSchedule(s)) \/ CloseChat \/ Pass \/ UNCHANGED vars
  PROVE  Others
<1>1. CASE \E s \in Schedules : DropSchedule(s)
  BY <1>1, Zenon DEF DropSchedule, Calls, Others
<1>2. CASE CloseChat \/ Pass
  BY <1>2 DEF CloseChat, Pass, Calls, Others
<1>3. CASE UNCHANGED vars
  BY <1>3 DEF vars, Others
<1> QED BY <1>1, <1>2, <1>3

\* Every step keeps the invariant.
LEMMA InvStep ==
  ASSUME Inv, [SchedulesNext]_vars
  PROVE  Inv'
<1>1. Good
  <2>1. CASE UNCHANGED <<row, told, req>>
    BY <2>1, RowsSame DEF Good, ReqOK, Inv, TypeOK
  <2>2. CASE CloseChat \/ Pass \/ UNCHANGED vars
    BY <2>1, <2>2 DEF CloseChat, Pass, vars
  <2> QED BY <2>2, CallGood, StepGood, DropGood DEF SchedulesNext
<1>2. Others
  BY StepOthers, CallOthers, RestOthers DEF SchedulesNext
<1>3. now \in Nat /\ takes \in BOOLEAN /\ home \in Zones /\ left \in 0..MaxCalls /\ MaxCalls \in Nat
  BY ScheduleConstants DEF Inv, TypeOK
<1>4. now' \in Nat /\ home' \in Zones /\ left' \in 0..MaxCalls
  BY <1>2, <1>3 DEF Others
<1>5. takes' \in BOOLEAN
  BY <1>2, <1>3, Zenon DEF Others
<1> QED BY <1>1, <1>4, <1>5 DEF Inv, TypeOK, Good, Rows, ReqOK

\* The chat starts with no schedule, and the invariant holds.
LEMMA InitInv ==
  ASSUME Init
  PROVE  Inv
<1> DEFINE x == Row("none", "pending", Keep, 0)
<1>1. x \in RowSet /\ x.state = "none"
  BY DEF Row, RowSet, Status
<1>2. row = [s \in Schedules |-> x]
  BY DEF Init
<1> HIDE DEF x
<1>3. row \in [Schedules -> RowSet] /\ \A s \in Schedules : row[s].state = "none"
  BY <1>1, <1>2
<1>4. LastWordTold
  BY <1>3 DEF LastWordTold
<1>5. /\ now \in Nat /\ takes \in BOOLEAN /\ home \in Zones /\ left \in 0..MaxCalls
      /\ told \in [Schedules -> EventSet \cup {NoEvent}] /\ req \in [Requests -> Request \cup {Idle}]
  BY SchedulesAssumption DEF Init, SchedulesAssumption
<1> QED BY <1>3, <1>4, <1>5 DEF Inv, TypeOK

\* The inductive invariant always holds.
THEOREM AlwaysInv == Spec => []Inv
<1>1. Init => Inv
  BY InitInv
<1>2. Inv /\ [SchedulesNext]_vars => Inv'
  BY InvStep
<1> QED BY <1>1, <1>2, PTL DEF Spec

\* Every variable keeps its type.
THEOREM TypeCorrect == Spec => []TypeOK
<1>1. Inv => TypeOK
  BY DEF Inv
<1> QED BY <1>1, AlwaysInv, PTL

\* The last event in the agent's outbox is what the person last made of a
\* schedule, unless the agent wrote it since: for any number of schedules and
\* of handlers that read a row and write it later.
THEOREM LastWordsTold == Spec => []LastWordTold
<1>1. Inv => LastWordTold
  BY DEF Inv
<1> QED BY <1>1, AlwaysInv, PTL

\* An active schedule was missed exactly when one of its times since it was
\* made has gone by with nothing from it then or later.
LEMMA MissedRight ==
  ASSUME NEW s \in Schedules, row[s].c \in C, row[s].created \in Nat, row[s].ran \in Nat \cup {NoTime}, now \in Nat,
         Live(s), row[s].status = "active"
  PROVE  MissedAt(s) # NoTime <=> \E x \in row[s].created..(now - 1) :
                 RunsAt(row[s].c, x) /\ (row[s].ran # NoTime => row[s].ran < x)
<1> DEFINE c == row[s].c
           due == Previous(c, now - 1)
<1>1. now - 1 \in Int /\ NoTime \notin Int
  BY Constants
<1>2. PreviousIsLast(c, now - 1, now)
  <2>1. c \in C /\ now \in Int
    OBVIOUS
  <2> QED BY <1>1, <2>1, TimesOfCadence
<1>3. due # NoTime => /\ due <= now - 1 /\ RunsAt(c, due)
                      /\ \A x \in (due + 1)..(now - 1) : ~RunsAt(c, x)
  BY <1>2 DEF PreviousIsLast
<1>4. due = NoTime => \A x \in (now - 1 - now)..(now - 1) : ~RunsAt(c, x)
  BY <1>2 DEF PreviousIsLast
<1>5. due # NoTime => due \in Int
  <2>1. CASE c.repeat = "once"
    BY <1>1, <2>1, OnceTimes
  <2>2. CASE c.repeat # "once"
    BY <1>1, <2>2, PreviousRepeats
  <2> QED BY <2>1, <2>2
<1>6. MissedAt(s) = IF /\ due # NoTime /\ due >= row[s].created
                       /\ row[s].ran = NoTime \/ row[s].ran < due
                    THEN due ELSE NoTime
  BY DEF MissedAt
<1> HIDE DEF due
<1>7. ASSUME MissedAt(s) # NoTime
      PROVE  \E x \in row[s].created..(now - 1) : RunsAt(c, x) /\ (row[s].ran # NoTime => row[s].ran < x)
  <2>1. /\ due # NoTime /\ due >= row[s].created
        /\ row[s].ran = NoTime \/ row[s].ran < due
    BY <1>6, <1>7
  <2>2. due \in row[s].created..(now - 1)
    BY <1>3, <1>5, <2>1
  <2> QED BY <1>3, <2>1, <2>2
<1>8. ASSUME NEW x \in row[s].created..(now - 1), RunsAt(c, x), row[s].ran # NoTime => row[s].ran < x
      PROVE  MissedAt(s) # NoTime
  <2>1. x \in (now - 1 - now)..(now - 1) /\ x \in Int /\ x <= now - 1 /\ row[s].created <= x
    OBVIOUS
  <2>2. due # NoTime
    BY <1>4, <1>8, <2>1
  <2>3. x <= due
    BY <1>3, <1>5, <1>8, <2>1, <2>2
  <2>4. due >= row[s].created /\ (row[s].ran = NoTime \/ row[s].ran < due)
    BY <1>5, <1>8, <2>1, <2>2, <2>3
  <2> QED BY <1>6, <2>2, <2>4
<1> QED BY <1>7, <1>8

\* What the app shows of a schedule's times is what its cadence means, for days
\* of any length, zones of any offset and at every time: the eight days that
\* Next and Previous look through are enough.
THEOREM TimesAreRight == Spec => []TimesRight
<1>1. Inv => TimesRight
  <2> SUFFICES ASSUME Inv, NEW s \in Schedules, Live(s)
               PROVE  /\ NextIsFirst(row[s].c, now, 8 * SlotsPerDay)
                      /\ PreviousIsLast(row[s].c, now, 8 * SlotsPerDay)
                      /\ row[s].status = "active" =>
                           (MissedAt(s) # NoTime <=> \E x \in row[s].created..(now - 1) :
                               RunsAt(row[s].c, x) /\ (row[s].ran # NoTime => row[s].ran < x))
                      /\ MissedAt(s) # NoTime /\ row[s].c.repeat # "once" => NextRun(s) # NoTime
    BY DEF TimesRight
  <2>1. row[s] \in RowSet /\ row[s].c # Keep /\ now \in Nat
    BY DEF Inv, TypeOK, Live
  <2>2. row[s].c \in C /\ row[s].created \in Nat /\ row[s].ran \in Nat \cup {NoTime}
    BY <2>1 DEF RowSet, C
  <2>3. 8 * SlotsPerDay \in Int /\ now \in Int
    BY <2>1, Constants
  <2>4. /\ NextIsFirst(row[s].c, now, 8 * SlotsPerDay) /\ PreviousIsLast(row[s].c, now, 8 * SlotsPerDay)
        /\ row[s].c.repeat # "once" => Next(row[s].c, now) # NoTime
    BY <2>2, <2>3, TimesOfCadence
  <2>5. MissedAt(s) # NoTime => row[s].status = "active"
    BY DEF MissedAt
  <2>6. row[s].status = "active" /\ row[s].c.repeat # "once" => NextRun(s) # NoTime
    BY <2>4 DEF NextRun
  <2> QED BY <2>1, <2>2, <2>4, <2>5, <2>6, MissedRight
<1> QED BY <1>1, AlwaysInv, PTL
=============================================================================
