\* Every call, the unbalanced ones and failing detection included, without callbacks.
SPECIFICATION Spec
CONSTANTS
  Models = {m1, m2}
  NoDriver = NoDriver
  Ops = {"ordinary", "file_get_info", "extra_files"}
  CallbackFrom = {}
  Faults = {"detect", "set_port_info"}
  UsedModulus = 256
  MaxRefs = 3
  MaxDepth = 5
\* A freed camera accepts no call: the system stops there.
CHECK_DEADLOCK FALSE
INVARIANTS
  FreeIsLast
