SPECIFICATION Spec
CONSTANTS
  Codes = {"TIMEOUT", "SERVER_ERROR", "INVALID_INPUT"}
  RetryableCodes = {"TIMEOUT", "SERVER_ERROR"}
  TimeoutCode = "TIMEOUT"
  InvalidInput = "INVALID_INPUT"
  MaxAttempts = 2
  MaxRetries = 2
  Timeout = 3
  PollInterval = 1
  CallTimes = {0, 1}
  Delays = {0, 1}
  IsSync = TRUE
  MaxCrashes = 0
INVARIANT SuccessCarriesOutput
