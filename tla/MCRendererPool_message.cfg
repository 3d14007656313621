\* A failed call and two threads.
CONSTANTS
  Nil = Nil
  Procs = {p1}
  Handles = {h1}
  Buffers = {b1}
  Threads = {t1, t2}
  Inputs = {"small", "large", "bad", "alien"}
  Need <- Sizes
  Malformed = {"bad", "alien"}
  Unsupported = {"alien"}
  InitialSize = 1
  MaxImages = 1
SPECIFICATION Spec
INVARIANTS ErrorIsItsOwn
CHECK_DEADLOCK FALSE
