------------------------------ MODULE MCBooking ------------------------------
(***************************************************************************)
(* Small calendars for Booking and AppointmentMethods' slots: days of eight *)
(* minutes, a grid of two, and a branch with a break.                      *)
(***************************************************************************)
EXTENDS Booking

CONSTANTS m1, m2, b1

Hours(lo, hi) == [lo |-> lo, hi |-> hi]
Slot(m, b, start, stop) == [master |-> m, bay |-> b, start |-> start, stop |-> stop]

AllWeek(ranges) == [w \in 1..7 |-> ranges]
OneBranch(ranges) == [week |-> AllWeek(ranges), exceptions |-> <<>>]
Works8(away) == [week |-> AllWeek({Hours(0, 8)}), away |-> away]

\* Open from 1 to 7 with a break from 4 to 5; the second day is shorter by an
\* exception.
SplitDay == [week |-> AllWeek({Hours(1, 4), Hours(5, 7)}),
             exceptions |-> (2 :> {Hours(2, 7)})]

NobodyAway == {[branch |-> OneBranch({Hours(0, 8)}),
                masters |-> [m \in {m1, m2} |-> Works8({})]]}

\* Two masters, one of them away at two different times.
Varied == {[branch |-> b, masters |-> (m1 :> Works8(a) @@ m2 :> Works8({}))] :
             b \in {SplitDay, OneBranch({Hours(0, 8)})},
             a \in {{}, {[from |-> 10, to |-> 11], [from |-> 13, to |-> 18]}}}

TwoSchedules == NobodyAway \cup
  {[branch |-> SplitDay, masters |-> [m \in {m1, m2} |-> Works8({})]]}

\* Both masters, one bay, spans that meet and spans that only touch.
RaceSlots == {Slot(m1, b1, 9, 11), Slot(m2, b1, 10, 12), Slot(m1, NoBay, 11, 13)}

\* Around the break, across it, at both ends of the days and on the shorter one.
HourSlots == {Slot(m1, NoBay, s, s + 2) : s \in {8, 9, 12, 13, 18, 21}} \cup
             {Slot(m1, NoBay, s, s + 3) : s \in {9, 10, 12, 19}}

\* Every slot of two or three minutes on the two days, for one master.
DaySlots == {Slot(m1, NoBay, s, e) : s \in 8..20, e \in 10..23}
AllSlots == {s \in DaySlots : s.stop - s.start \in {2, 3}}

\* Handlers and ids are interchangeable: no definition names one.
Interchangeable == Permutations(Procs) \cup Permutations(Visits)
=============================================================================
