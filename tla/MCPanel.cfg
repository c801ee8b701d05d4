SPECIFICATION Spec
CONSTANTS
  Boot <- PanelBoot
  Frames <- PanelFrames
  Keywords <- PanelKeywords
  Targets = {0}
  Clients = {"panel"}
  Edits <- PanelEdits
  CopySplits <- PanelSplits
  TrimStep = 300
  CommitCycles = 1
  DebounceFrames = 1
  RcThreshold = 1
  BadFrameMax = 1
  OverrideHoldFrames = 3
  AttemptSeqMod = 1
INVARIANTS
  LoopInv
  SettingsAlwaysValid
  CleanMeansPersisted
PROPERTIES
  SettingsFrozenOutsideDisarmed
