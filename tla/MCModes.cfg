SPECIFICATION CycleSafety
CONSTANTS
  Params <- ModeParams
  Inputs <- ModeInputs
  RcThreshold = 3
  BadFrameMax = 4
  OverrideHoldFrames = 3
  AttemptSeqMod = 2
INVARIANTS
  FailsafeIffLinkLost
  CalibrationPulsesConfined
PROPERTIES
  ThrustIsRamped
  ImplementsControlMode
