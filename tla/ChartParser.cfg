SPECIFICATION Spec
CONSTANTS
  NumTags = 4
  Depth = 2
  NumSub <- NumSubDef
  Parent <- ParentDef
  UnkWords = {"UNK"}
  SmoothNum = 1
  SmoothDen = 3
  Cond <- CondDef
  CondDen = 2
  NumWords = 3
  Sentences <- SomeSentences
  FinestModels <- SomeModels
  Thresholds = {0, 1, 3, 4}
  ThresholdDen = 6
  Partial = TRUE
INVARIANTS
  TypeOK
  InsideExact
  PosteriorCovers
  RetrievedIffConnected
PROPERTIES
  PruneKeepsDominant
  ImplementsCoarseToFine
CHECK_DEADLOCK FALSE
