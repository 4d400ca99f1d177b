SPECIFICATION Spec
CONSTANTS
  N = 1
  Pipelines <- Single
  RecordsParams = TRUE
  MayRaise = FALSE
  Rounds = 2
INVARIANTS
  RerunIsFree
