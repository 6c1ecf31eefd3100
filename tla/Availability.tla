---------------------------- MODULE Availability ----------------------------
(***************************************************************************)
(* AvailabilityCalculator and the schedules it reads (libs/backend/         *)
(* scheduling/domain): which instants a master can start a piece of work    *)
(* of a given length at.                                                   *)
(*                                                                         *)
(* An instant is a number of ticks since the epoch (milliseconds in the    *)
(* code), Minute of them to a minute; a day has DayMinutes minutes.  An     *)
(* interval [lo, hi) is in minutes of a day.  The calculator takes no      *)
(* notice of the branch's timezone: the minutes of a schedule are counted  *)
(* from the UTC midnight.                                                  *)
(***************************************************************************)
EXTENDS Integers, FiniteSets, SequencesExt

CONSTANTS
  Minute,      \* ticks in a minute, 60000 in the code
  DayMinutes,  \* 1440 in the code
  Grid         \* GRID_STEP_MINUTES, 15 in the code

ASSUME AvailabilityAssumption ==
  /\ Minute \in Nat \ {0}
  /\ DayMinutes \in Nat \ {0}
  /\ Grid \in Nat \ {0}

Day == DayMinutes * Minute

DayOf(t) == t \div Day

\* Instant of minute m of day d.
At(d, m) == d * Day + m * Minute

\* isoDayOfWeek: day 0 was a Thursday, Sunday is 7.
Weekday(d) == IF (d + 4) % 7 = 0 THEN 7 ELSE (d + 4) % 7

(***************************************************************************)
(* Schedules.  A week maps a weekday to the intervals of its working day    *)
(* (one, or two around a break); an exception replaces those of one date.  *)
(***************************************************************************)
\* BranchSchedule.workingHoursAt
WorkingHours(branch, d) ==
  IF d \in DOMAIN branch.exceptions THEN branch.exceptions[d]
  ELSE branch.week[Weekday(d)]

\* The hole that starts last.
Latest(holes) == CHOOSE h \in holes : \A g \in holes : g.lo <= h.lo

\* A hole cut out of a window whose part up to cut.cursor is done.
CutOff(window, hole, cut) ==
  IF hole.hi <= cut.cursor \/ hole.lo >= window.hi THEN cut
  ELSE LET until == Max({hole.lo, window.lo})
       IN  [cursor |-> Max({cut.cursor, Min({hole.hi, window.hi})}),
            out    |-> cut.out \cup (IF cut.cursor < until
                                      THEN {[lo |-> cut.cursor, hi |-> until]} ELSE {})]

\* What is left of a window between the holes, cut off from left to right.
Cut(window, holes) ==
  LET end == MapThenFoldSet(LAMBDA hole, cut : CutOff(window, hole, cut),
                            [cursor |-> window.lo, out |-> {}],
                            LAMBDA hole : hole, Latest, holes)
  IN  end.out \cup (IF end.cursor < window.hi
                      THEN {[lo |-> end.cursor, hi |-> window.hi]} ELSE {})

\* Both ends are rounded down to a minute.
AwayHole(u, d) == [lo |-> (u.from - At(d, 0)) \div Minute,
                   hi |-> (u.to - At(d, 0)) \div Minute]

\* MasterSchedule.workingRangesOnDay
WorkingRanges(master, d) ==
  LET away == {u \in master.away : u.from < At(d + 1, 0) /\ u.to > At(d, 0)}
  IN  UNION {Cut(w, {AwayHole(u, d) : u \in away}) : w \in master.week[Weekday(d)]}

(***************************************************************************)
(* The calculator, for one master.  booked: the [start, stop) spans of the  *)
(* appointments it is given that block.                                    *)
(***************************************************************************)
Intersect(as, bs) ==
  {i \in {[lo |-> Max({a.lo, b.lo}), hi |-> Min({a.hi, b.hi})] : a \in as, b \in bs} :
     i.lo < i.hi}

\* Clamped to the day; the start is rounded down, the end up.
BusyHoles(booked, d) ==
  {[lo |-> (Max({b.start, At(d, 0)}) - At(d, 0)) \div Minute,
    hi |-> -((At(d, 0) - Min({b.stop, At(d + 1, 0)})) \div Minute)] :
      b \in {c \in booked : c.start < At(d + 1, 0) /\ c.stop > At(d, 0)}}

FreeWindows(branch, master, booked, d) ==
  UNION {Cut(w, BusyHoles(booked, d)) :
           w \in Intersect(WorkingHours(branch, d), WorkingRanges(master, d))}

\* Faulty: the last start of a window leaves it.
GridStarts_Overhang(window, minutes) ==
  {m \in window.lo..(window.hi - 1) : (m - window.lo) % Grid = 0 /\ m + minutes <= window.hi + 1}

\* Faulty: a window the work fills exactly is passed over.
GridStarts_Tight(window, minutes) ==
  {m \in window.lo..(window.hi - minutes - 1) : (m - window.lo) % Grid = 0}

\* Starts from the beginning of the window on, every Grid minutes.
GridStarts(window, minutes) ==
  {m \in window.lo..(window.hi - minutes) : (m - window.lo) % Grid = 0}

\* Days whose midnight is before the end of the search.
SearchDays(from, to) == DayOf(from)..DayOf(to - 1)

Calculate(branch, master, booked, from, to, minutes) ==
  UNION {{At(d, m) : m \in UNION {GridStarts(w, minutes) :
                                    w \in FreeWindows(branch, master, booked, d)}} :
           d \in SearchDays(from, to)}
=============================================================================
