SPECIFICATION Spec
CONSTANTS
  Scrollback = 2
  TabStopWidth = 2
  MaxOps = 2
  Sizes <- MCSizes
  Texts <- MCTexts
  Counts <- MCCounts
  Past <- MCPast
INVARIANTS
  ScreenWellFormed
  AttachShowsTheSame
PROPERTIES
  ResizeKeepsText
CHECK_DEADLOCK FALSE
