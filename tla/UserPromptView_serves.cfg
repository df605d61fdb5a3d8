SPECIFICATION FairSpec
CONSTANTS
  MaxThreads = 1
  MaxRounds = 2
  MaxPosted = 2
  Overlap = FALSE
  MaxRetries = 2
PROPERTIES CancelEnds Serves
