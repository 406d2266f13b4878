SPECIFICATION Spec
CONSTANTS
  NumTags = 4
  Depth = 3
  NumSub <- NumSubDef
  Parent <- ParentDef
  UnkWords = {"UNK"}
  SmoothNum = 1
  SmoothDen = 3
  Cond <- CondDef
  CondDen = 2
  NumWords = 3
  Sentences <- UnaryOnlySentences
  FinestModels <- SplitModels
  Thresholds = {4, 5}
  ThresholdDen = 6
  Partial = TRUE
INVARIANT
  RollbackExhaustive
CHECK_DEADLOCK FALSE
