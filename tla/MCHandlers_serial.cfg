\* Two snippets or class names in one chat, one update handled at a time,
\* sessions that expire and a crash.
CONSTANTS
  Nil = Nil
  Torn = Torn
  Java = "java"
  Procs = {p1}
  Chats = {c1}
  SessionIds = {s1, s2}
  ViewFlags = {}
  Queries = {"Map"}
  MessageIds = {m1, m2}
  Lifetime = 1
  MaxTime = 2
  MaxRestarts = 1
  StrayButtons <- OtherVersions
  Chains <- OneChain
  ClassesIn <- OldestClasses
  Languages = {"java", "unknown"}
  ReleaseIds <- AllIds
  TargetIds <- AllTargets
SPECIFICATION SerialSpec
PROPERTIES EveryPressAnswered
CHECK_DEADLOCK FALSE
