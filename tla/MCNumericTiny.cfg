SPECIFICATION NumericSpec
CONSTANTS
  Unscaled <- MCUnscaled
  Scales <- MCScales
INVARIANTS
  EveryValueIsRead
CHECK_DEADLOCK FALSE
