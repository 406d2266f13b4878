SPECIFICATION Spec
CONSTANTS
  NumTags = 4
  Depth = 2
  NumSub <- NumSubDef
  Parent <- ParentDef
  UnkWords = {"UNK"}
  SmoothNum = 1
  SmoothDen = 3
  Cond <- CondDef
  CondDen = 2
  NumWords = 3
  Sentences <- UnaryOnlySentences
  FinestModels <- UnaryOnlyModels
  Thresholds = {1}
  ThresholdDen = 6
  Partial = TRUE
INVARIANT
  RejectedOnlyWithoutParse
CHECK_DEADLOCK FALSE
