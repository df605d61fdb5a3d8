SPECIFICATION Spec
CONSTANTS
  MaxMonitors = 1
  MaxCalls = 1
  Policies <- AllPolicies
  Stimuli = {"lock", "promptLock", "unlock", "presence", "saver", "legacy", "session", "foreignGrab", "panel", "motion"}
INVARIANTS
  TypeOK
  DelayedLockNeedsBlank
  ActiveMeansBlanked
  PromptCovers
PROPERTY
  ImplementsSessionLock
