SPECIFICATION Spec
CONSTANTS
  Dispatcher = dispatcher
  Timers = {t1}
  NoTask = notask
  NoTimer = notimer
  Interval = 1
  Good = {a}
  Bad = {bad}
  Backends <- MCBackends
  Roots = {}
  Statics = {}
  Protected = {a}
  Valid <- MCValid
  Empty = empty
  Down = down
  MasterDelay = FALSE
  FailureModes = {FALSE}
  Crashes = FALSE
INVARIANT AcceptedIsValid
