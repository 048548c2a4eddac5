SPECIFICATION FairSpec
CONSTANTS
  ClockMod = 4
  HeartbeatTimeout = 2
  HardCmdTimeout = 2
  RampRate = 1
  TaskWatchdog = 1
  MotorSkew = 1
  AckWait = 1
  MaxSkew = 1
  Frames <- LiveFrames
INVARIANT MotionIsFresh
PROPERTIES
  SilenceStopsMotors
  StopReachesMotors
