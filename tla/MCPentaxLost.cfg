\* The file is published after its candidate is deleted.
SPECIFICATION Spec
CONSTANTS
  MaxExposures = 2
  MaxParts = 1
  MaxPublications = 8
  Faults = {"publish"}
INVARIANTS
  DeletedIsKept
