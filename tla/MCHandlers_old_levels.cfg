\* One snippet, and every setting of its compiler.
CONSTANTS
  Nil = Nil
  Torn = Torn
  Java = "java"
  Procs = {p1}
  Chats = {c1}
  SessionIds = {s1}
  ViewFlags = {}
  Queries = {"Map"}
  MessageIds = {m1}
  Lifetime = 1
  MaxTime = 0
  MaxRestarts = 0
  StrayButtons = {}
  Chains <- FullChains
  ClassesIn <- OlderClasses
  Languages = {"java", "kotlin"}
  ReleaseIds <- AllIds
  TargetIds <- AllTargets
SPECIFICATION Spec
INVARIANTS ReleaseIsListed
CHECK_DEADLOCK FALSE
