SPECIFICATION Spec
CONSTANTS
  Calls = {"ARM"}
  Modes = {"manual"}
  MaxCalls = 1
  MaxTroubles = 1
  MaxWire = 1
  MaxQueue = 2
  SafetyStates = {"MANUAL"}
INVARIANT GateJustified
CHECK_DEADLOCK FALSE
