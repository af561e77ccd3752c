\* gp_camera_get_extra_capture_files keeps its use of the camera.
SPECIFICATION Spec
CONSTANTS
  Models = {m1, m2}
  NoDriver = NoDriver
  Ops = {"ordinary", "extra_files"}
  CallbackFrom = {"operation"}
  Faults = {}
  UsedModulus = 256
  MaxRefs = 2
  MaxDepth = 3
\* A freed camera accepts no call: the system stops there.
CHECK_DEADLOCK FALSE
INVARIANT IdleExitIsPerformed
