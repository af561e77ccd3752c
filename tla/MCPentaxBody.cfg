\* The camera is also operated by hand: nothing deleted is lost, and every call returns.
SPECIFICATION FairSpec
CONSTANTS
  MaxExposures = 2
  MaxParts = 2
  MaxPublications = 8
  Faults = {"read", "reject", "lost", "transfer", "delete", "save", "stop", "hold", "body"}
INVARIANTS
  DeletedIsKept
PROPERTIES
  CallsReturn
