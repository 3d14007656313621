\* Two callers, a disk that changes at any time and on which a walk may hang.
CONSTANTS
  Nil = Nil
  Procs = {p1, p2}
  Majors = {m8}
SPECIFICATION Spec
INVARIANTS TypeOK WalksAreNeeded
PROPERTIES CompleteIsKept AnswersDoNotRegress ServedDuringRetry RecoveryIsPickedUp
