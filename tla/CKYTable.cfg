SPECIFICATION Spec
CONSTANTS
  NumWords = 2
  NumTags = 3
  Values = {v0, v1}
INVARIANTS
  TypeOK
  InBounds
  NoAlias
PROPERTY
  ChartSpec
