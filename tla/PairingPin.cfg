\* Daemons of two users, killed and started again at any step, next to each other or
\* alone, with files that cannot be opened or written.
SPECIFICATION Spec
CONSTANTS
  Pins = {"p1", "p2", "p3"}
  Empty = Empty
  Users = {"root", "user"}
  NoUser = NoUser
  Concurrent = TRUE
  IoFaults = {"full", "open"}
  MAX_RECENT_PINS = 2
  AUTH_FAIL_THRESHOLD = 1
  AUTH_BAN_INITIAL_SECS = 1
  AUTH_BAN_MAX_SECS = 1
INVARIANTS GuiPinAcceptedUndisturbed AnnouncedPinAccepted
