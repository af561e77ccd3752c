\* Transfers that fail, resets, closings that fail, over a pool of two.
SPECIFICATION FairSpec
CONSTANTS
  NB_INTERRUPT_TRANSFERS = 2
  Faults = {"error", "gone", "urbs", "submit", "late", "release"}
  MaxPackets = 3
  MaxFaults = 2
  MaxCuts = 2
INVARIANTS
  TypeOK
  PoolAccounted
  EachEventOnce
PROPERTY
  EventArrives
