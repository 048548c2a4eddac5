CONSTANTS
  MaxSpeed = 2
  HoverMax = 3
  SlewStep = 1
  Moves <- MCMoves
  MaxClients = 1
  QueueLimit = 1
SPECIFICATION RobotFairSpec
INVARIANT FailsafeIsStopping
PROPERTIES StopComesToRest
