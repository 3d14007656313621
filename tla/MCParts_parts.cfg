\* Two chats compete for two session objects, whose settings change; three
\* classes are compiled and five looked up; snippets have up to five characters.
CONSTANTS
  Nil = Nil
  Chats = {c1, c2}
  SessionIds = {s1, s2}
  Languages = {java, kotlin}
  ReleaseIds = {r1}
  TargetIds = {}
  ViewFlags = {}
  Queries = {}
  MessageIds = {m1}
  Lifetime = 1
  MaxTime = 2
  Classes <- ThreeClasses
  InWalkOrder <- WalkOrder
  InNameOrder <- NameOrder
  Size <- Sizes
  Part <- PartsOfIt
  MaxOutputs = 2
  MaxBytes = 3
  Names <- SomeNames
  Wanted <- SomeNamesWanted
  Lower <- LowerCase
  MaxLength = 5
SPECIFICATION Spec
INVARIANTS
  StoreTypeOK EntryBelongsToChat FilesFollowLanguage
  ResultIsWhatWasWritten StrippingIsLocal
PROPERTIES
  ImplementsSlot ExpiredIsSwept
  EveryCompileEnds AnswerIsBest QuestionsAreSettled
CHECK_DEADLOCK FALSE
