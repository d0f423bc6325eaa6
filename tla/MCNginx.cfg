SPECIFICATION FairSpec
CONSTANTS
  Threads = {h}
  Configs = {default, empty, good, bad}
  Valid = {default, empty, good}
  Short = {empty}
  Default = default
  Empty = empty
  Down = down
  MasterDelay = TRUE
INVARIANTS FileAtRest RunningAtRest TruthfulAnswer
PROPERTY ImplementsSlot
