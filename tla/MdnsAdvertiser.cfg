\* Names that collide, calls that fail and a daemon that goes away, against a stop at
\* any moment.
SPECIFICATION FairSpec
CONSTANTS
  MaxFaults = 2
INVARIANTS TypeOK NoUseAfterFree
PROPERTIES StopReturns ServiceComesBack
\* The daemon ends.
CHECK_DEADLOCK FALSE
