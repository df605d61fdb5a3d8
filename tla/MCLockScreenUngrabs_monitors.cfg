SPECIFICATION GrabSpec
CONSTANTS
  MaxMonitors = 2
  MaxCalls = 1
  Policies <- Uninhibited
  Stimuli = {"lock", "unlock", "monitors", "motion", "panel", "foreignGrab"}
INVARIANTS
  Lifecycle
  GrabKept
  NoStrayGrab
PROPERTIES
  GrabFailureNeverUnlocks
  GrabSettles
