SPECIFICATION Spec
CONSTANTS
  Procs = {p1}
  Visits = {v1, v2}
  NoVisit = NoVisit
  NoBay = NoBay
  m1 = m1
  m2 = m2
  b1 = b1
  Minute = 1
  DayMinutes = 8
  Grid = 2
  Works = {2, 3}
  Commands = {"Create", "Reschedule"}
  Slots <- HourSlots
  Schedules <- Varied
  ByClient = {FALSE}
  Lookahead = 16
  Offset = 0
  Window = 4
  StartsAt = 8
  MaxNow = 9
  MaxVersion = 2
INVARIANTS
  OfferedIsFree
  FreeIsOffered
  WorkWithinHours
CHECK_DEADLOCK FALSE
