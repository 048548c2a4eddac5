SPECIFICATION FairSpec
CONSTANTS
  Stable = 3
  SkyHold = 4
  MaxGap = 2
  ClockMod = 12
INVARIANT SkyIsHeld
PROPERTIES RecoveryIsEarned RecoveryComes
