\* Every call that balances CAMERA_UNUSED, under the application's callbacks.
SPECIFICATION FairSpec
CONSTANTS
  Models = {m1, m2}
  NoDriver = NoDriver
  Ops = {"ordinary", "file_get_info"}
  CallbackFrom = {"operation"}
  Faults = {}
  UsedModulus = 256
  MaxRefs = 3
  MaxDepth = 5
\* A freed camera accepts no call: the system stops there.
CHECK_DEADLOCK FALSE
INVARIANTS
  TypeOK
  UsedCountsOperations
  IdleExitIsPerformed
  SettledDriverMatchesAbilities
  TimersHaveDriver
PROPERTIES
  DriverOutlivesItsCalls
  AbandonedIsFreed
