SPECIFICATION FairSpec
CONSTANTS
  Interactives = {TRUE, FALSE}
  MaxQueue = 3
  CanLock = TRUE
  CanShutdown = TRUE
  CanSleep = {}
INVARIANTS
  Answerable
  GrabFollowsFade
PROPERTY Answered
