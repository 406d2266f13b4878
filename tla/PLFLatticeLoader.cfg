SPECIFICATION Spec
CONSTANTS
  Wrap = 64
  MaxSize = 16
  Lines <- LinesDef
  Columns <- ColumnsDef
INVARIANTS
  TypeOK
  LatticeExact
CHECK_DEADLOCK FALSE
