SPECIFICATION Spec
CONSTANTS
  Calls = {"ARM", "RESET", "RELAY", "DISARM", "STOP", "ESTOP"}
  Modes = {"manual", "auto"}
  MaxCalls = 2
  MaxTroubles = 0
  MaxWire = 1
  MaxQueue = 1
  SafetyStates = {"MANUAL", "AUTO", "FAULT"}
PROPERTIES
  RevocationSticks
  MotionNeedsFreshCommand
  MotionMatchesSafety
CHECK_DEADLOCK FALSE
