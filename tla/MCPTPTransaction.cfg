\* Repeated openings and calls of every kind, over a device that may be late.
SPECIFICATION FairSpec
CONSTANTS
  Gets = {get1, get2}
  Puts = {put}
  Plains = {plain}
  MaxCalls = 4
  MaxMore = 2
  MaxSessions = 2
  MaxRetries = 1
CHECK_DEADLOCK FALSE
INVARIANTS
  TypeOK
  OkResynchronises
  DataAfterOkIsOwn
PROPERTIES
  AnswersOwnRequest
  CallReturns
