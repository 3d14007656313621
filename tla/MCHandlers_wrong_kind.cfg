\* A class name and a snippet sent at once.
CONSTANTS
  Nil = Nil
  Torn = Torn
  Java = "java"
  Procs = {p1, p2}
  Chats = {c1}
  SessionIds = {s1, s2}
  ViewFlags = {}
  Queries = {"Map"}
  MessageIds = {m1, m2}
  Lifetime = 1
  MaxTime = 0
  MaxRestarts = 0
  StrayButtons = {}
  Chains <- OneChain
  ClassesIn <- OldestClasses
  Languages = {"java"}
  ReleaseIds <- AllIds
  TargetIds <- AllTargets
SPECIFICATION Spec
INVARIANTS QueryOrFiles
CHECK_DEADLOCK FALSE
