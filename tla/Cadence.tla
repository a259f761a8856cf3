------------------------------- MODULE Cadence -------------------------------
(***************************************************************************)
(* When a schedule runs: cadence.go.  Time is counted in slots, of which a *)
(* day has SlotsPerDay; slot 0 is the first of a Sunday in the zone whose  *)
(* offset is 0.  A zone keeps one offset: the hour a clock repeats or      *)
(* skips twice a year is left out.                                         *)
(***************************************************************************)
EXTENDS Integers, FiniteSets

CONSTANTS
    SlotsPerDay,
    Zones,
    Offset,         \* how many slots a zone's clock is ahead
    NoTime

ASSUME CadenceAssumption ==
    /\ SlotsPerDay \in Nat \ {0} /\ Offset \in [Zones -> Int] /\ NoTime \notin Int

\* `days' counts for weekly only and `date' for once only; the days of a week
\* are 0 (Sunday) to 6.  This is the form normalized() leaves.
CadenceSet(dates) ==
    [repeat : {"daily", "weekdays"}, clock : 0..(SlotsPerDay - 1), days : {{}}, date : {0}, zone : Zones]
    \cup [repeat : {"weekly"}, clock : 0..(SlotsPerDay - 1), days : (SUBSET (0..6)) \ {{}},
          date : {0}, zone : Zones]
    \cup [repeat : {"once"}, clock : 0..(SlotsPerDay - 1), days : {{}}, date : dates, zone : Zones]

LocalDay(c, t) == (t + Offset[c.zone]) \div SlotsPerDay

allows(c, day) ==
    /\ c.repeat = "weekdays" => day % 7 \in 1..5
    /\ c.repeat = "weekly" => day % 7 \in c.days

\* The cadence's clock time on a local day.
OnDay(c, day) == day * SlotsPerDay + c.clock - Offset[c.zone]
at(c, t, days) == OnDay(c, LocalDay(c, t) + days)
once(c) == OnDay(c, c.date)

\* Mutant: a week is looked through, the day itself included.
LookWeek == 0..6
\* How far Next and Previous look: today and the eight days around it.
Look == 0..8

Least(S) == CHOOSE x \in S : \A y \in S : x <= y

\* The first time the cadence runs after t, if it ever will.
Next(c, t) ==
    IF c.repeat = "once" THEN IF once(c) > t THEN once(c) ELSE NoTime
    ELSE LET on == {d \in Look : at(c, t, d) > t /\ allows(c, LocalDay(c, t) + d)}
         IN  IF on = {} THEN NoTime ELSE at(c, t, Least(on))

\* The last time the cadence was due at or before t, if ever.
Previous(c, t) ==
    IF c.repeat = "once" THEN IF once(c) <= t THEN once(c) ELSE NoTime
    ELSE LET on == {d \in Look : at(c, t, -d) <= t /\ allows(c, LocalDay(c, t) - d)}
         IN  IF on = {} THEN NoTime ELSE at(c, t, -Least(on))

-----------------------------------------------------------------------------
\* What they are meant to be: the runs of a cadence, as a set of times.
RunsAt(c, t) ==
    /\ (t + Offset[c.zone]) % SlotsPerDay = c.clock
    /\ IF c.repeat = "once" THEN LocalDay(c, t) = c.date ELSE allows(c, LocalDay(c, t))

\* Nothing runs between t and Next, which is itself a run, nor between Previous
\* and t; where they say there is none, there is none for `far' slots.
NextIsFirst(c, t, far) ==
    LET n == Next(c, t) IN
    IF n = NoTime THEN \A x \in (t + 1)..(t + far) : ~RunsAt(c, x)
    ELSE n > t /\ RunsAt(c, n) /\ \A x \in (t + 1)..(n - 1) : ~RunsAt(c, x)
PreviousIsLast(c, t, far) ==
    LET p == Previous(c, t) IN
    IF p = NoTime THEN \A x \in (t - far)..t : ~RunsAt(c, x)
    ELSE p <= t /\ RunsAt(c, p) /\ \A x \in (p + 1)..t : ~RunsAt(c, x)
=============================================================================
