\* Three connections guess without waiting for replies, and bans expire.
SPECIFICATION Spec
CONSTANTS
  Sessions = {"s1", "s2", "s3"}
  NoSession = NoSession
  Ips = {"a1", "a2"}
  IpOf <- MCIpOf
  Msgs <- MCMsgs
  NoMsg = NoMsg
  Kind <- MCKind
  Length <- MCLength
  NoNewline = {}
  Pin <- MCPin
  Name <- MCName
  Size <- MCSize
  ReqOf <- MCReqOf
  Script <- MCScript
  Names = {"n1"}
  NoName = NoName
  Pins = {"p1", "p2"}
  MAX_RECENT_PINS = 1
  AUTH_FAIL_THRESHOLD = 2
  AUTH_BAN_INITIAL_SECS = 2
  AUTH_BAN_MAX_SECS = 8
  MAX_CLIENTS = 2
  PAIRING_PIN_SECS = 4
  AUTH_ATTEMPTS_PER_CONNECTION = 2
  AUTH_MAX_BUFFER = 3
  MAX_RECEIVE_FILE_BYTES = 4
  READ_BUFFER_SIZE = 8
  COMPACT_AT = 4
  DiskFaults = {}
  PushOutcomes = {}
  PeerFaults = {}
  Pipelined = {"s1", "s2", "s3"}
  MaxTime = 4
INVARIANTS RateLimited GuessesCapped
CHECK_DEADLOCK FALSE
