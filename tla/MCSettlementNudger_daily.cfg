SPECIFICATION NudgerSpec
CONSTANTS
  m1 = m1
  m2 = m2
  m3 = m3
  Markets = {m1, m2, m3}
  Sick = {m3}
  INTERVAL = 1
  DEADLINE = 3
  MAX_DURATION = 4
  MAX_ATTEMPTS = 2
INVARIANTS SummaryHolds WindowKept
PROPERTIES HealthySettled
CHECK_DEADLOCK FALSE
