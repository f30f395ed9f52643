SPECIFICATION FairSpec
CONSTANTS
  Callers = {p, q}
  MaxAttempts = 2
INVARIANTS
  FailureIsDue
PROPERTIES
  StreamPromise
  StopEndsSession
  OutcomeIsTold
  RetriesEnd
