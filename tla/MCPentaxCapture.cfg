\* Who owns an image and what holds back the shutter, whatever fails, across restarts.
SPECIFICATION Spec
CONSTANTS
  MaxExposures = 3
  MaxParts = 2
  MaxPublications = 2
  Faults = {"read", "reject", "lost", "transfer", "delete", "save", "stop", "hold", "delete_lost", "publish", "restart"}
INVARIANTS
  TypeOK
  UnsettledIsPending
PROPERTIES
  ShutterOverQuietCamera
  SuccessDeliversExposure
  DeletesOnlyOwned
