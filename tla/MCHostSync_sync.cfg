\* Two locks, deployed in any order, and three errors or crashes.
CONSTANTS
  Images = {"java25", "kotlin2"}
  Majors = {25, 21}
  Jars = {"stdlib", "reflect"}
  Sums = {"a", "b"}
  Locks <- TwoLocks
  MaxFaults = 3
SPECIFICATION Spec
INVARIANTS SyncTypeOK FinishedIsComplete JarsAreLocked DoneIsReady
PROPERTIES ImplementsContents DeploysRecover
