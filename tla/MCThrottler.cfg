SPECIFICATION FairSpec
CONSTANTS
  Callers = {c1, c2}
  Timers = {t1, t2, t3}
  Tasks = {a}
  NoTask = none
  NoTimer = notimer
  Interval = 2
INVARIANTS TypeOK NoLostRequest PendingHasTimer OwnTimerOnTime
PROPERTIES ShutdownSilences EventuallyServed
