\* Two snippets or class names in two chats or in one, two updates at once,
\* sessions that expire and a crash.
CONSTANTS
  Nil = Nil
  Torn = Torn
  Java = "java"
  Procs = {p1, p2}
  Chats = {c1, c2}
  SessionIds = {s1, s2}
  ViewFlags = {}
  Queries = {"Map"}
  MessageIds = {m1, m2}
  Lifetime = 1
  MaxTime = 2
  MaxRestarts = 1
  StrayButtons = {}
  Chains <- OneChain
  ClassesIn <- OldestClasses
  Languages = {"java"}
  ReleaseIds <- AllIds
  TargetIds <- AllTargets
SPECIFICATION ChatsSpec
INVARIANTS ChatsDoNotMix MessageIsItsOwn KindIsItsOwn
PROPERTIES ImplementsStore
SYMMETRY Symmetry
CHECK_DEADLOCK FALSE
