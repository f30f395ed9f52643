SPECIFICATION MonitorSpec
CONSTANTS
  Calls = {a}
  NoCall = NoCall
  CtlCap = 1
  MaxCmds = 1
  Cameras = {front, back}
  NoCamera = NoCamera
  Views = {v, w}
  NoView = NoView
SYMMETRY MonitorSymmetry
INVARIANTS
  RunningIsHeld
  SelectionIsLive
  DialSilencesMonitor
