SPECIFICATION Spec
CONSTANTS
  Monitors = {1, 2}
  MaxMessages = 2
INVARIANTS
  OneOverlay
  ShellAgrees
  FocusFollows
