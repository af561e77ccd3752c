\* More owner addresses over time than slots.
SPECIFICATION Spec
CONSTANTS
  Threads = {t1, t2}
  Owners = {o1, o2}
  Contexts = {c1, c2}
  NSlots = 1
  Generations = 3
  PlainUnref = FALSE
SYMMETRY Symmetry
INVARIANT OnlyLiveOwnersFillTable
