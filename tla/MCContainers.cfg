SPECIFICATION FairSpec
CONSTANTS
  Containers = {c}
  Self = self
  n = n
  Nets = {n,m}
  NoNet = nonet
  Timers = {t1,t2}
  NoTimer = notimer
  Environments <- MCEnvironments
  QuietStart = TRUE
  MaxChanges = 4
  MaxEvents = 4
INVARIANTS PendingComes Converged NoneDeadServed
PROPERTY EventuallyServed
CHECK_DEADLOCK FALSE
