SPECIFICATION Spec
CONSTANTS
  MaxVersions = 2
  MaxSize = 3
  CHUNK = 2
  Capacity = 3
  MaxRequests = 2
  InPlace = TRUE
  PhoneReads = TRUE
INVARIANTS
  TypeOK
  TakenInOrder
  PhoneStaysInStep
PROPERTIES
  RepliesReachWhole
  RequestEnds
  OverlayGoesOff
CHECK_DEADLOCK FALSE
