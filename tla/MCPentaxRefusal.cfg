\* A claim that succeeds before a refusal.
SPECIFICATION Spec
CONSTANTS
  MaxExposures = 3
  MaxParts = 1
  MaxPublications = 8
  Faults = {"body"}
INVARIANTS
  RefusalKeepsResult
