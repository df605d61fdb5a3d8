SPECIFICATION FairSpec
CONSTANTS
  Inputs = {"pointer", "barrier", "super", "keynav", "dash", "hud", "views", "mode"}
  StartMode = "HIDE_NEVER"
  RevealPressure = 2
  MaxVelocity = 2
  DecayRate = 1
  Responsiveness = 10
INVARIANT NoHoverWhileHidden
PROPERTIES
  LockHideWins
  PressureDrains
  HidesInTheEnd
  RevealsInTheEnd
