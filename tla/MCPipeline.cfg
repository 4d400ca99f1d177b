SPECIFICATION MCSpec
CONSTANTS
  N = 3
  Pipelines <- Both
  RecordsParams = FALSE
  MayRaise = TRUE
  Rounds = 2
  Runs = {"r1", "r2"}
  K = 2
  Modes <- MCModes
  Tries = 2
  MaxOutputs = 2
  MaxRetries = 1
  Restarts = 1
  Ceiling = 2
  SeenMax = 2
  Others = {o1}
  Makes = {"cat", "note"}
  Secret = {"note"}
  Jobs = {"j1"}
  Edits = 2
  Plans <- MCPlans
  MaxSteps = 3
  Worlds <- MCWorlds
  MaxIterations = 3
  Costs = {0, 1}
CHECK_DEADLOCK FALSE
INVARIANTS
  RecordsAreTrue
  RejectedStaysOut
  RerunIsFree
  ManifestComplete
  TransfersAreApart
  VerdictIsTheJobs
  NothingIsWasted
  CustodyKeepsTheHash
  RebuiltAsksTheSame
PROPERTIES
  ImplementsContract
  BatchEnds
  LoopIsTrue
