SPECIFICATION MCSpec
CONSTANTS
  Codes = {"TIMEOUT", "SERVER_ERROR", "INVALID_INPUT"}
  RetryableCodes = {"TIMEOUT", "SERVER_ERROR"}
  TimeoutCode = "TIMEOUT"
  InvalidInput = "INVALID_INPUT"
  MaxAttempts = 2
  MaxRetries = 2
  Timeout = 3
  PollInterval = 1
  CallTimes = {0, 1}
  Delays = {0, 1}
  IsSync = FALSE
  MaxCrashes = 1
  Callers = {"t1", "t2", "t3"}
  Probers = {"t1", "t2"}
  Models = {"a", "b"}
  MaxEntries = 1
  \* a family of the connector that rewrites names, one of the user, an old name
  Names = {"Veo3", "veo3", "m", "old"}
  Covered = {"Veo3", "veo3"}
  Canonical <- MCCanonical
  UserCovered = {"Veo3", "m"}
  Old = {"old"}
  Registries = {"default", "fork"}
  Shared = "default"
  Instances = {1, 2}
  MaxUserFamilies = 1
  MaxOps = 3
  Requests <- MCRequests
  MaxSends = 2
CHECK_DEADLOCK FALSE
INVARIANTS
  CheckpointBeforePoll
  SuccessIsBacked
  RefreshTellsTheTruth
  ProbesAreHonest
  VerdictIsAboutTheWire
  SentIsLegal
  SentIsWanted
  BilledAsSent
PROPERTIES
  NoResubmitOfKnownJob
  ImplementsContract
  StepEnds
  NamesKeepTheirMeaning
