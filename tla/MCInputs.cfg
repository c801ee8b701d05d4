SPECIFICATION Spec
CHECK_DEADLOCK FALSE
CONSTANTS
  Channels <- MCChannels
  RcThreshold = 2
  BadFrameMax = 2
  TickMod = 17
  TicksPerUs = 2
  CapEpoch = 7
  WidthMinUs = 1
  WidthMaxUs = 1
  PeriodMinUs = 2
  PeriodMaxUs = 2
  EdgeTimeoutUs = 2
  FrameTicks = 3
  PulseTicks = 1
  CycleTicks = 2
  LineSets <- MCLineSets
  MaxChanges = 2
  MsMod = 9
  StaleAfterMs = 3
  ReadTimeoutMs = 2
  LineMax = 3
  Degrees = {0, 49, 180}
  Minutes = {0, 7, 59}
  Digits = {0, 1, 9}
  MaxDecimals = 5
  SettingsEdits <- MCEdits
  ForeignBlobs <- MCForeign
  RottenWords = {"schema", "crc", "servo_trim_us"}
  StoreTrimStep = 300
  MaxInDoubt = 2
INVARIANTS
  FailsafeWithinTimeout
  HealthyFramesAreValid
  AcceptedWidthIsRecent
  FixHasPosition
  FreshnessExpires
  CoordIsExact
  RunningSettingsAreSafe
PROPERTIES
  SavedSettingsComeBack
