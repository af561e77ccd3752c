\* gp_camera_exit called back from a direct gp_camera_init.
SPECIFICATION Spec
CONSTANTS
  Models = {m1, m2}
  NoDriver = NoDriver
  Ops = {"ordinary"}
  CallbackFrom = {"init"}
  Faults = {}
  UsedModulus = 256
  MaxRefs = 2
  MaxDepth = 3
\* A freed camera accepts no call: the system stops there.
CHECK_DEADLOCK FALSE
PROPERTY DriverOutlivesItsCalls
