SPECIFICATION NumericSpec
CONSTANTS
  Unscaled <- MCUnscaled
  Scales <- MCScales
INVARIANTS
  NumericTypeOK
  EncodedIsExact
  DecodedIsExact
  OnlyTinyPanics
CHECK_DEADLOCK FALSE
