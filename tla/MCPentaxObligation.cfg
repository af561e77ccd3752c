\* A quiet camera releases the obligation of a lost file.
SPECIFICATION Spec
CONSTANTS
  MaxExposures = 2
  MaxParts = 1
  MaxPublications = 8
  Faults = {"publish"}
PROPERTIES
  ObligationOutlivesReadiness
