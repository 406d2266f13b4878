SPECIFICATION Spec
CONSTANTS
  Inputs <- InputsDef
  TreesFor <- TreesForDef
  Names <- NamesDef
  MaxDepth = 4
  MaxLap = 1
INVARIANTS
  TypeOK
  Aligned
  Balanced
CHECK_DEADLOCK FALSE
