CONSTANTS
  Goroutines <- MCGoroutines
  Paths <- MCPaths
  Blocks <- MCBlocks
  AckWindow = 1
  MaxIds = 3
  MaxEvents = 4
SPECIFICATION Spec
PROPERTY TransfersEnd
INVARIANTS
  WindowHeld
  NoLostWakeup
  EndIsComplete
  DoubleCloseOnlyByDelete
CHECK_DEADLOCK FALSE
