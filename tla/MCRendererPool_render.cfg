\* Two callers, two renderers, two buffers, Close at any point or never.
CONSTANTS
  Nil = Nil
  Procs = {p1, p2}
  Handles = {h1, h2}
  Buffers = {b1, b2}
  Threads = {t1}
  Inputs = {"small", "large", "bad"}
  Need <- Sizes
  Malformed = {"bad"}
  Unsupported = {}
  InitialSize = 1
  MaxImages = 1
SPECIFICATION Spec
INVARIANTS TypeOK LeaseIsExclusive BuffersHaveOneOwner ImagesStayIntact
PROPERTIES EveryCallReturns
CHECK_DEADLOCK FALSE
