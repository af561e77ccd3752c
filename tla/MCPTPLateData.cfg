\* Late data of an earlier call with the same operation code.
SPECIFICATION Spec
CONSTANTS
  Gets = {get1, get2}
  Puts = {put}
  Plains = {plain}
  MaxCalls = 4
  MaxMore = 1
  MaxSessions = 2
  MaxRetries = 1
INVARIANT DataIsOwn
CHECK_DEADLOCK FALSE
