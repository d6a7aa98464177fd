\* Start and stop at any moment against a worker at any step.
SPECIFICATION FairSpec
CONSTANTS
  Fds = {3, 4, 5}
  MaxForeign = 1
  PhonesAreFair = TRUE
INVARIANTS TypeOK RunningHasWorker OneWorker StopReleasesAll NoSocketLeaks ForeignSafeWithoutOverlap
PROPERTIES StopReturns
