CONSTANTS
  MaxRetryAttempts = 3
  TimeoutDuration = 30
  MaxDelay = 60
  Statuses = {400, 401, 404, 500}
  ExcludedStatusCodes = {400, 401, 404}
SPECIFICATION Spec
INVARIANT FailedRequestIsNamed
