\* Two phones send a file each, one of them pipelined, and may hang up at any point.
SPECIFICATION FairSpec
CONSTANTS
  Sessions <- TwoSessions
  NoSession = NoSession
  Ips = {"a1"}
  IpOf <- TwoIp
  Msgs <- MCMsgs
  NoMsg = NoMsg
  Kind <- MCKind
  Length <- MCLength
  NoNewline <- Binary
  Pin <- MCPin
  Name <- MCName
  Size <- MCSize
  ReqOf <- MCReqOf
  Script <- TwoUploads
  Names = {"n1", "n2"}
  NoName = NoName
  Pins = {"p1"}
  MAX_RECENT_PINS = 2
  AUTH_FAIL_THRESHOLD = 2
  AUTH_BAN_INITIAL_SECS = 2
  AUTH_BAN_MAX_SECS = 8
  MAX_CLIENTS = 2
  PAIRING_PIN_SECS = 1
  AUTH_ATTEMPTS_PER_CONNECTION = 2
  AUTH_MAX_BUFFER = 4
  MAX_RECEIVE_FILE_BYTES = 4
  READ_BUFFER_SIZE = 4
  COMPACT_AT = 4
  DiskFaults = {"open"}
  PushOutcomes = {}
  PeerFaults = {"fin", "reset"}
  Pipelined = {"s1"}
  MaxTime = 0
INVARIANTS PayloadNeverParsed
PROPERTIES AnsweredInOrder PatientRequestsAnswered
CHECK_DEADLOCK FALSE
