SPECIFICATION Spec
CONSTANTS
  Open <- OpenDef
  Close <- CloseDef
  MaxDepth = 8
  NumIteration = 3
  Jobs <- JobsDef
INVARIANTS
  TypeOK
  Forest
  UnevenRejected
  GrammarExact
  ListsAgree
  LexiconExact
  OneModel
  CoarseExact
  CoarseNormalised
  FactorsUsable
CHECK_DEADLOCK FALSE
