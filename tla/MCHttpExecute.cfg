SPECIFICATION Spec
CONSTANTS
  Operations <- MCOperations
  MaxRetries = 2
  RequestTimeout = 1
  MaxRetryDelay = 2
  FollowRedirects = FALSE
  RetryAfter <- MCRetryAfter
  MaxCalls = 2
INVARIANTS AtMostOnce ElapsedBounded OkMeansHandled RetriesWhileTransient
PROPERTIES ImplementsRemoteCall EveryCallReturns
CHECK_DEADLOCK FALSE
