SPECIFICATION Spec
CONSTANTS
  Inputs = {"pointer", "quicklist", "slide", "icondrag", "dnd", "gesture"}
  StartMode = "AUTOHIDE"
  RevealPressure = 1
  MaxVelocity = 2
  DecayRate = 1
  Responsiveness = 10
VIEW Unhovered
INVARIANT DecisionIsCurrent
PROPERTY HidesOnlyUnheld
