SPECIFICATION Spec
CONSTANTS
  Procs = {p1, p2}
  Visits = {v1, v2}
  NoVisit = NoVisit
  NoBay = NoBay
  m1 = m1
  m2 = m2
  b1 = b1
  Minute = 1
  DayMinutes = 8
  Grid = 2
  Works = {2}
  Commands = {"Create", "Reschedule", "StartWork", "Complete", "SetSchedule"}
  Slots <- RaceSlots
  Schedules <- TwoSchedules
  ByClient = {FALSE}
  Lookahead = 16
  Offset = 0
  Window = 4
  StartsAt = 8
  MaxNow = 8
  MaxVersion = 3
SYMMETRY Interchangeable
INVARIANTS
  NoDoubleBooking
PROPERTIES
  CalendarSpec
CHECK_DEADLOCK FALSE
