SPECIFICATION Spec
CONSTANTS
  MaxMonitors = 2
  MaxCalls = 1
  Policies <- Locking
  Stimuli = {"lock", "promptLock", "unlock", "monitors", "suspend", "settings", "foreignGrab", "inhibitFails"}
INVARIANTS
  SleepsLocked
  InhibitorCovers
