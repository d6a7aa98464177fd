\* A request that follows the bytes of a file is not answered.
SPECIFICATION FairSpec
CONSTANTS
  Sessions <- OneSession
  NoSession = NoSession
  Ips = {"a1"}
  IpOf <- OneIp
  Msgs <- MCMsgs
  NoMsg = NoMsg
  Kind <- MCKind
  Length <- MCLength
  NoNewline = {}
  Pin <- MCPin
  Name <- MCName
  Size <- MCSize
  ReqOf <- MCReqOf
  Script <- FileThenCommand
  Names = {"n1", "n2"}
  NoName = NoName
  Pins = {"p1"}
  MAX_RECENT_PINS = 2
  AUTH_FAIL_THRESHOLD = 2
  AUTH_BAN_INITIAL_SECS = 2
  AUTH_BAN_MAX_SECS = 8
  MAX_CLIENTS = 2
  PAIRING_PIN_SECS = 1
  AUTH_ATTEMPTS_PER_CONNECTION = 2
  AUTH_MAX_BUFFER = 4
  MAX_RECEIVE_FILE_BYTES = 4
  READ_BUFFER_SIZE = 4
  COMPACT_AT = 4
  DiskFaults = {}
  PushOutcomes = {}
  PeerFaults = {}
  Pipelined = {"s1"}
  MaxTime = 0
PROPERTIES EveryRequestAnswered
CHECK_DEADLOCK FALSE
