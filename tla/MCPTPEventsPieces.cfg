\* The rest of an event comes late.
SPECIFICATION Spec
CONSTANTS
  NB_INTERRUPT_TRANSFERS = 2
  Faults = {}
  MaxPackets = 3
  MaxFaults = 2
  MaxCuts = 2
INVARIANT EventsAreWhole
