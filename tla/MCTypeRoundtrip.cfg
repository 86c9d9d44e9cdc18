SPECIFICATION RoundtripSpec
CONSTANTS
  Cases <- MCCases
  Foreign <- MCForeign
  MaxRows = 2
INVARIANTS
  RoundtripTypeOK
  SupportedRoundtrips
  ReadTypeIsAnnounced
  ReadIsLossless
  
  OnlyUnmappedPanics
CHECK_DEADLOCK FALSE
