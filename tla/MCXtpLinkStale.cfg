SPECIFICATION Spec
CONSTANTS
  MaxRequests = 2
  MaxRetries = 1
  MaxFragments = 1
  Controls = {}
  MaxControls = 0
INVARIANT OkMeansDelivered
CHECK_DEADLOCK FALSE
