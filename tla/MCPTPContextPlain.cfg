\* The application's own unref, which is not atomic.
SPECIFICATION Spec
CONSTANTS
  Threads = {t1, t2}
  Owners = {o1}
  Contexts = {c1, c2}
  NSlots = 1
  Generations = 3
  PlainUnref = TRUE
SYMMETRY Symmetry
INVARIANTS
  BoundContextAlive
