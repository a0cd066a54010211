SPECIFICATION Spec
CONSTANTS
  Shards = {s1, s2}
  MaxGenerations = 2
  MaxTime = 3
  MaxWeight = 2
  Minute = 1
  Hour = 2
  Day = 6
  SeriesLimit = 5
  FreshMin = 2
  FallbackLimit = 3
SYMMETRY Symmetry
INVARIANTS
  ActivityNeverHidesAJob
  FiguresAreExact
  NoStaleVerdict
  ReadyIsGreen
  WaitsAreReal
  LegalPlansKeepGates
  QueueOrderIsKept
  SuggestionsKeepGates
  BillIsExplained
CHECK_DEADLOCK FALSE
