SPECIFICATION Spec
CONSTANTS
  MaxMonitors = 2
  Overcome = 3
  Decay = 1
  Options <- LeftHiding
  Clients <- Launchers
PROPERTY TimeoutHandedOn
