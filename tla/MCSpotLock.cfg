SPECIFICATION CycleSafety
CONSTANTS
  Params <- SpotParams
  Inputs <- SpotInputs
  RcThreshold = 1
  BadFrameMax = 2
  OverrideHoldFrames = 3
  AttemptSeqMod = 1
INVARIANTS
  CycleInv
PROPERTIES
  HoldTargetIsItsAttempts
  SessionThrustCapped
  ArmingSpinsUpOnlyForSession
