\* A late error response of an earlier call.
SPECIFICATION Spec
CONSTANTS
  Gets = {get1, get2}
  Puts = {put}
  Plains = {plain}
  MaxCalls = 4
  MaxMore = 1
  MaxSessions = 2
  MaxRetries = 1
INVARIANT RefusalIsOwn
CHECK_DEADLOCK FALSE
