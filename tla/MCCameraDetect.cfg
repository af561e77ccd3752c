\* A failing detection step releases a use nobody took.
SPECIFICATION Spec
CONSTANTS
  Models = {m1, m2}
  NoDriver = NoDriver
  Ops = {"ordinary"}
  CallbackFrom = {"operation"}
  Faults = {"detect"}
  UsedModulus = 256
  MaxRefs = 2
  MaxDepth = 3
\* A freed camera accepts no call: the system stops there.
CHECK_DEADLOCK FALSE
INVARIANT RestingCameraAnswers
