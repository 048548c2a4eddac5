SPECIFICATION FairSpec
CONSTANTS
  Calls = {"ARM", "SET_DISARMED", "DISARM", "STOP", "ESTOP", "RESET_ESTOP",
           "RESET_FAULT"}
  Modes = {"MANUAL"}
  Senders = {"MANUAL"}
  AutonomousEnabled = FALSE
  MaxCalls = 2
  MaxFaults = 1
  MaxQueue = 1
INVARIANT AuthorityJustified
PROPERTIES
  LatchOutlivesReset
  MotionNeedsNewCommand
  StrayArmRemoved
