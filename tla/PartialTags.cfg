SPECIFICATION Spec
CONSTANTS
  NumTags = 5
  Depth = 1
  NumSub <- NumSubDef
  Parent <- ParentDef
  UnkWords = {"UNK"}
  SmoothNum = 1
  SmoothDen = 3
  Cond <- CondDef
  CondDen = 1
  NumWords = 3
  Sentences <- TagSentences
  Models <- ModelsDef
  Weights <- WeightsDef
  Thresholds = {1}
  ThresholdDen = 4
  Partial = TRUE
INVARIANT
  PartialTagAllowed
CHECK_DEADLOCK FALSE
