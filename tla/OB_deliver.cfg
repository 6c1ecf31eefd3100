SPECIFICATION FairSpec
CONSTANTS
  e1 = e1
  e2 = e2
  q1 = q1
  q2 = q2
  Events = {e1, e2}
  Pollers = {q1, q2}
  NoRow = NoRow
  NoEvent = NoEvent
  OccurredAt <- Times2
  Known = {e1, e2}
  BatchSize = 2
  MaxRetry = 2
  MaxFaults = 2
INVARIANTS
  RepeatsHaveACause
  GivenUpAfterAllTries
PROPERTIES
  DeliverySpec
  OvertakesOnlyFailing
  EveryEventSettles
CHECK_DEADLOCK FALSE
