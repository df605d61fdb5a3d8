CONSTANTS
  RowsStray = FALSE
  MaxIcons = 2
  MaxWindows = 3
  StartIndex = 0
SPECIFICATION FairSpec
INVARIANT SelectionValid DetailCurrent
PROPERTY RowFollows SelectionKept Releases
