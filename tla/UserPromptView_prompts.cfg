SPECIFICATION Spec
CONSTANTS
  MaxThreads = 2
  MaxRounds = 2
  MaxPosted = 2
  Overlap = FALSE
  MaxRetries = 1
INVARIANTS NeverStranded
PROPERTY UnlocksProved
