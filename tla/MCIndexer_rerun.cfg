SPECIFICATION Spec
CONSTANTS
  e1 = e1
  e2 = e2
  e3 = e3
  u1 = u1
  u2 = u2
  r1 = r1
  r2 = r2
  NoEvent = NoEvent
  NoUser = NoUser
  Events <- AllEvents
  Users = {u1, u2}
  Requests = {r1, r2}
  OutcomeOf <- Outcome
  YesHeld <- Yes
  NoHeld <- No
  AnchorEvents <- Decoded
  MaxDeliveries = 2
  MaxFailures = 1
INVARIANTS RerunCountsOnce
CHECK_DEADLOCK FALSE
