\* One snippet, two buttons pressed at once, every kind of button.
CONSTANTS
  Nil = Nil
  Torn = Torn
  Java = "java"
  Procs = {p1, p2}
  Chats = {c1}
  SessionIds = {s1}
  ViewFlags = {"pool"}
  Queries = {"Map"}
  MessageIds = {m1}
  Lifetime = 1
  MaxTime = 0
  MaxRestarts = 1
  StrayButtons <- OtherVersions
  Chains <- FullChains
  ClassesIn <- OlderClasses
  Languages = {"java", "kotlin", "unknown"}
  ReleaseIds <- AllIds
  TargetIds <- AllTargets
SPECIFICATION Spec
INVARIANTS HandlersTypeOK CompilerGetsItsOwn
SYMMETRY Symmetry
CHECK_DEADLOCK FALSE
