\* A candidate that appears after the wait was given up.
SPECIFICATION FairSpec
CONSTANTS
  MaxExposures = 2
  MaxParts = 1
  MaxPublications = 8
  Faults = {}
PROPERTIES
  LandedFrameIsClaimed
