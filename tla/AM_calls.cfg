SPECIFICATION Spec
CONSTANTS
  Minute = 1
  DayMinutes = 8
  Grid = 2
  m1 = m1
  m2 = m2
  NoBay = NoBay
  NoAppt = NoAppt
  Slots <- ShortSlots
  Works = {2, 3}
INVARIANTS
  ApprovedIsCancelled
CHECK_DEADLOCK FALSE
