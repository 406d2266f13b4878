SPECIFICATION Spec
CONSTANTS
  Open <- OpenDef
  Close <- CloseDef
  MaxDepth = 8
  NumIteration = 3
  Jobs <- UnknownJobs
INVARIANT
  UnknownWordsScored
CHECK_DEADLOCK FALSE
