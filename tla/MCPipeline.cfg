SPECIFICATION Spec
CONSTANTS
    RecvConfigs <- MCRecvConfigs
    SendConfigs <- MCSendConfigs
    SessionConfigs <- MCSessionConfigs
    Offers <- MCTracks
    MaxStalled = 1
INVARIANTS OneTrackPerKind UsableTrackPlays
PROPERTIES StallStaysLocal StopReturns
CHECK_DEADLOCK FALSE
