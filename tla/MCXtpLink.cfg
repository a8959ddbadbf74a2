SPECIFICATION FairSpec
CONSTANTS
  MaxRequests = 2
  MaxRetries = 2
  MaxFragments = 2
  Controls = {"NACK", "RST"}
  MaxControls = 1
INVARIANT OkMeansRun
INVARIANT RunsBounded
INVARIANT NoOldResponse
PROPERTY SendReturns
CHECK_DEADLOCK FALSE
