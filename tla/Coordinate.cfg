SPECIFICATION FieldSpec
CHECK_DEADLOCK FALSE
CONSTANTS
  Degrees = {0, 49, 180}
  Minutes = {0, 7, 59}
  Digits = {0, 1, 9}
  MaxDecimals = 6
INVARIANT CoordIsExact
