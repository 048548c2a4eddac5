SPECIFICATION FairSpec
CONSTANTS
  Plans <- MCPlans
  MaxAttempts = 2
  MaxCorrections = 1
  WrongLimit = 2
  ToolConfigured = TRUE
INVARIANTS
  TypeOK
  MotionReopens
PROPERTIES
  ModeChangesAtRest
  CornerStops
  RecoveryEnds
  TurnEnds
  FinalStopConcludes
