\* A session opened again while answers of the one before are in flight.
SPECIFICATION Spec
CONSTANTS
  Gets = {get1}
  Puts = {}
  Plains = {plain}
  MaxCalls = 6
  MaxMore = 0
  MaxSessions = 2
  MaxRetries = 1
INVARIANT OkIsOwn
CHECK_DEADLOCK FALSE
