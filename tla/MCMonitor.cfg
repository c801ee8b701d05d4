SPECIFICATION MonitorSpec
CONSTANTS
  Params <- MonitorParams
  Inputs <- MonitorInputs
  RcThreshold = 2
  BadFrameMax = 3
  OverrideHoldFrames = 3
  AttemptSeqMod = 2
PROPERTIES
  FlipRestsFullDwell
  SoftStopCompletes
