SPECIFICATION Spec
CONSTANTS
  ImuMsMod = 7
  ImuStaleAfterMs = 2
  ServicePeriodMs = 1
  MaxResets = 2
  MaxOutages = 1
  MaxClients = 2
  MaxSockets = 3
INVARIANTS
  HeadingGoesStale
  PushesNeverBackUp
PROPERTIES
  HeadingComesBack
  TelemetryGoesOn
