SPECIFICATION FairSpec
CONSTANTS
  Services = {s, u}
  Timers = {t1, t2, t3, t4, t5}
  NoTimer = notimer
  MaxAttempts = 2
  SwarmFails = TRUE
  MaxChanges = 4
  MaxEvents = 4
INVARIANTS PendingComes ServicesConverged NoneRemovedServed
PROPERTY ServiceEventuallyServed
CHECK_DEADLOCK FALSE
