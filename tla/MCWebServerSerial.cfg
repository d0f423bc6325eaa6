SPECIFICATION FairSpec
CONSTANTS
  Dispatcher = dispatcher
  Timers = {}
  NoTask = notask
  NoTimer = notimer
  Interval = 0
  Good = {a, b}
  Bad = {bad}
  Backends <- MCBackends
  Roots = {a}
  Statics = {page}
  Protected = {a}
  Valid <- MCValid
  Empty = empty
  Down = down
  MasterDelay = FALSE
  FailureModes = {FALSE, TRUE}
  Crashes = TRUE
INVARIANTS QuietIsConsistent AcceptedIsValid CredentialsThere
PROPERTY ImplementsPublisher
