\* Transfers that end just before they would be cancelled stay counted.
SPECIFICATION Spec
CONSTANTS
  NB_INTERRUPT_TRANSFERS = 2
  Faults = {"late"}
  MaxPackets = 3
  MaxFaults = 2
  MaxCuts = 2
INVARIANT WaitHasTransfer
