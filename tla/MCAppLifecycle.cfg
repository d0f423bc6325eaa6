SPECIFICATION FairSpec
CONSTANTS
  Clients = {local, swarm}
  MaxSignals = 2
  MaxQueue = 1
INVARIANTS ExitStopsNginx StoppedIsSilent
PROPERTIES EndsWhenAsked ReloadHappens
CHECK_DEADLOCK FALSE
