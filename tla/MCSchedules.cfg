SPECIFICATION MCSpec
CONSTANTS
  N = 4
  Limit = 2
  Modes = {TRUE, FALSE}
  Interrupts = {"timeout"}
  MayRaise = TRUE
  Always = {}
  Extras = {"fal"}
  Reserved = 3
  MaxVersion = 3
  MaxEdits = 2
  MaxTags = 2
  Issues = {1, 2, 3}
  Estimates <- MCEstimates
  MaxIssues = 2
  MaxFiles = 2
  MaxMain = 2
CHECK_DEADLOCK FALSE
INVARIANTS
  ResultsFaithful
  WaveIsWhole
  BatchIsOrderly
PROPERTIES
  NoCallAfterObservedFailure
  ImplementsContract
  EveryRunEnds
