\* One phone asks for everything the protocol has, of a disk that fails.
SPECIFICATION Spec
CONSTANTS
  Sessions <- OneSession
  NoSession = NoSession
  Ips = {"a1"}
  IpOf <- OneIp
  Msgs <- MCMsgs
  NoMsg = NoMsg
  Kind <- MCKind
  Length <- MCLength
  NoNewline = {}
  Pin <- MCPin
  Name <- MCName
  Size <- MCSize
  ReqOf <- MCReqOf
  Script <- Everything
  Names = {"n1", "n2"}
  NoName = NoName
  Pins = {"p1"}
  MAX_RECENT_PINS = 2
  AUTH_FAIL_THRESHOLD = 2
  AUTH_BAN_INITIAL_SECS = 2
  AUTH_BAN_MAX_SECS = 8
  MAX_CLIENTS = 2
  PAIRING_PIN_SECS = 1
  AUTH_ATTEMPTS_PER_CONNECTION = 2
  AUTH_MAX_BUFFER = 4
  MAX_RECEIVE_FILE_BYTES = 4
  READ_BUFFER_SIZE = 4
  COMPACT_AT = 4
  DiskFaults = {"open", "short", "error", "throw"}
  PushOutcomes = {"throw", "PUSH_ERROR", "FILE_PUSH", "FILE_PUSH_CUT"}
  PeerFaults = {"fin", "reset"}
  Pipelined = {"s1"}
  MaxTime = 0
INVARIANTS TypeOK DescriptorMatchesStage UploadIntact TransferIsUnfinished
CHECK_DEADLOCK FALSE
