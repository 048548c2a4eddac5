SPECIFICATION FairSpec
CONSTANT MaxCommands = 4
INVARIANTS
  Consistent
  SafetyStopsAutonomy
  LatchHasOwner
PROPERTIES
  StopServed
  DisconnectStops
  SessionIsBounded
