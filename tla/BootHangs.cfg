SPECIFICATION ImuSpec
CONSTANTS
  ImuMsMod = 7
  ImuStaleAfterMs = 2
  ServicePeriodMs = 1
  MaxResets = 0
  MaxOutages = 1
PROPERTY BootGoesOn
