\* stop() against a phone that connects and stays silent.
SPECIFICATION FairSpec
CONSTANTS
  Fds = {3, 4, 5}
  MaxForeign = 0
  PhonesAreFair = FALSE
PROPERTIES StopReturns
