SPECIFICATION Spec
CONSTANTS
  NumWords = 1
  Tags = {ROOT, S, N}
  Root = ROOT
  Lexical = {N}
  Depth = 3
  NumSub <- NumSubDef
  Parent <- ParentDef
INVARIANTS
  TypeOK
  IndicesInside
  RootReadable
  Lineage
  RetryNotRejected
  ResultOK
PROPERTIES
  Terminates
CHECK_DEADLOCK FALSE
