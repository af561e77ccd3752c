\* Two threads, two owner addresses, a slot for each.
SPECIFICATION Spec
CONSTANTS
  Threads = {t1, t2}
  Owners = {o1, o2}
  Contexts = {c1, c2}
  NSlots = 2
  Generations = 3
  PlainUnref = FALSE
SYMMETRY Symmetry
INVARIANTS
  TypeOK
  RefsAccounted
  GetsOwnContext
  RunningHasContext
PROPERTIES
  NoResurrection
