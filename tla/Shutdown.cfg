SPECIFICATION Spec
CONSTANTS
  MaxSignals = 2
  MaxEvents = 1
  PhonesAreFair = TRUE
INVARIANTS
  TypeOK
  ServerStoppedAlive
  RefreshWithinLifetime
PROPERTIES
  DaemonEnds
CHECK_DEADLOCK FALSE
