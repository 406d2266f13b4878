SPECIFICATION Spec
CONSTANTS
  NumWords = 3
  Tags <- TagsDef
  Root = "ROOT"
  BarOf <- BarDef
  NoTag = "none"
  NegInfty <- NegInftyDef
  GainTables <- TablesDef
INVARIANTS
  TypeOK
  TreeMatchesScore
  MaxRuleOptimal
  Debinarized
CHECK_DEADLOCK FALSE
