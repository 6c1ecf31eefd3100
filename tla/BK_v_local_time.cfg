SPECIFICATION Spec
CONSTANTS
  Procs = {p1}
  Visits = {v1}
  NoVisit = NoVisit
  NoBay = NoBay
  m1 = m1
  m2 = m2
  b1 = b1
  Minute = 1
  DayMinutes = 8
  Grid = 2
  Works = {2}
  Commands = {"Create"}
  Slots <- AllSlots
  Schedules <- Varied
  ByClient = {FALSE}
  Lookahead = 16
  Offset = 3
  Window = 4
  StartsAt = 8
  MaxNow = 8
  MaxVersion = 3
INVARIANTS
  WorkWithinHours
CHECK_DEADLOCK FALSE
