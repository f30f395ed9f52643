SPECIFICATION FairSpec
CONSTANTS
  Calls = {a, b}
  NoCall = NoCall
  CtlCap = 1
  MaxCmds = 2
INVARIANTS
  SlotOwner
  MediaFollowsCall
  RoutesFollowCall
  NoOrphanUi
  CallerAnswered
  OneRecordPerCall
PROPERTIES
  LineSpec
  DialResolves
  RingingEnds
  PeerHangupFreesLine
