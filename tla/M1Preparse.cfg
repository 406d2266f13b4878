SPECIFICATION Spec
CONSTANTS
  NumTags = 5
  Depth = 1
  NumSub <- NumSubDef
  Parent <- ParentDef
  UnkWords = {"UNK"}
  SmoothNum = 1
  SmoothDen = 3
  Cond <- CondDef
  CondDen = 1
  NumWords = 3
  Sentences <- SentencesDef
  Models <- ModelsDef
  Weights <- WeightsDef
  Thresholds = {0, 2, 4}
  ThresholdDen = 4
  Partial = TRUE
INVARIANTS
  TypeOK
  PosteriorExact
  CoversLevel0
  RootSurvives
CHECK_DEADLOCK FALSE
