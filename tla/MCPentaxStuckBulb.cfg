\* A Bulb stop that the camera rejects.
SPECIFICATION FairSpec
CONSTANTS
  MaxExposures = 1
  MaxParts = 1
  MaxPublications = 8
  Faults = {"hold", "stop"}
PROPERTIES
  OperationCompletes
