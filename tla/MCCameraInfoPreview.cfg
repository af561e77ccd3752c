\* The preview fallback of gp_camera_file_get_info is refused.
SPECIFICATION Spec
CONSTANTS
  Models = {m1, m2}
  NoDriver = NoDriver
  Ops = {"ordinary", "file_get_info"}
  CallbackFrom = {"operation"}
  Faults = {}
  UsedModulus = 256
  MaxRefs = 2
  MaxDepth = 3
\* A freed camera accepts no call: the system stops there.
CHECK_DEADLOCK FALSE
INVARIANT InfoPreviewNotRefused
