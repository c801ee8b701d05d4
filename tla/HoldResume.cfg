SPECIFICATION MonitorSpec
CONSTANTS
  Params <- MonitorParams
  Inputs <- HoldInputs
  RcThreshold = 2
  BadFrameMax = 3
  OverrideHoldFrames = 3
  AttemptSeqMod = 2
PROPERTY HoldEngagesOnEdge
