SPECIFICATION FairSpec
CONSTANTS
  MaxConnections = 2
INVARIANTS TypeOK StartupOwnsItsSources ClosedExactlyOnce NoRefreshAfterTheWait PortIsFreed
PROPERTIES StopEnds
CHECK_DEADLOCK FALSE
