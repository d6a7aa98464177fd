SPECIFICATION Spec
CONSTANTS
  c1 = c1
  c2 = c2
  NoConn = NoConn
  Conns = {c1, c2}
  Fds <- Numbers
  NoFd = NoFd
  MaxForeign = 1
  MAX_CLIENTS = 2
  MAX_EVENTS = 2
  Commands <- SomeCommands
  PhonesAreFair = TRUE
  AsciiMap <- Keys
  KeyCode <- Names
  Buttons = {"left", "right", "middle"}
  Left = "left"
  Initialized = TRUE
  Shift = "KEY_LEFTSHIFT"
INVARIANTS
  TypeOK
  ForeignUnhurt
  SessionsOwnTheirNumber
  NoConnectionLeaks
  KeysReleased
PROPERTIES
  ButtonsMoveOnRequest
  EveryClientServed
