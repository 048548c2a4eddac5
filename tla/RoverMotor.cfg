SPECIFICATION FairSpec
CONSTANTS
  Tokens = {"shared", "manual"}
  NoToken = "no token"
  Sources = {"ROUTE", "WEBSOCKET_MANUAL"}
  NoSource = "none"
  Top = 2
INVARIANTS
  Inductive
PROPERTIES
  ImplementsInterlock
  SilenceStopsWheels
