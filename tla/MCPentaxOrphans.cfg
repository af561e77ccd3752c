\* A claim that fails after its first file.
SPECIFICATION Spec
CONSTANTS
  MaxExposures = 2
  MaxParts = 2
  MaxPublications = 8
  Faults = {"restart"}
INVARIANTS
  OrphansNotReported
