SPECIFICATION FairSpec
CONSTANTS
  Requested = 8
  Grants = {7, 8}
  TxnTimeout = 2
  InitialBackoff = 1
  MaxBackoff = 4
  UnregisterTimeout = 2
INVARIANT BoundWhileAsleep
PROPERTIES Rebinds StopEndsLoop
