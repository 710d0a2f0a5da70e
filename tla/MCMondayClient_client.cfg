SPECIFICATION FairSpec
CONSTANTS
  c1 = c1
  Call = {c1}
  MaxRetries = 5
  Hints <- MCHints
  Half = 512
INVARIANTS
  TypeOK
  CostIsBounded
  DuplicatesComeFromLostAnswers
  RefusalsLeaveNothing
PROPERTIES
  ContractKept
  CallsEnd
CHECK_DEADLOCK FALSE
