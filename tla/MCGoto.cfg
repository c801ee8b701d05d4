SPECIFICATION GotoSpec
CONSTANTS
  Boot <- GotoBoot
  Frames <- GotoFrames
  Keywords <- GotoKeywords
  Targets = {30}
  Clients = {"panel"}
  Edits <- ToggleEdits
  CopySplits <- ToggleSplits
  TrimStep = 7
  CommitCycles = 1
  DebounceFrames = 2
  RcThreshold = 1
  BadFrameMax = 1
  OverrideHoldFrames = 2
  AttemptSeqMod = 1
INVARIANTS
  EngagedGotoIsLatched
  NoGotoBehindCh3
PROPERTIES
  TaskKeepsContract
  EndedGotoStaysEnded
  HoldDroppedOnlyByGesture
  HoldEnteredOnRisingCh3
  DisarmEndsArmed
  ArmingIsRequested
  DisarmingClickNeverDeploys
