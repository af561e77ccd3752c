\* Companions are published before the primary file.
SPECIFICATION Spec
CONSTANTS
  MaxExposures = 1
  MaxParts = 2
  MaxPublications = 8
  Faults = {}
INVARIANTS
  SlotZeroIsPrimary
