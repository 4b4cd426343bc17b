CONSTANTS
  Goroutines <- MCGoroutines
  ConnIds <- MCConnIds
  HeaderLimit = 1
  MaxDials = 2
  MaxUnits = 2
  MaxEvents = 1
SPECIFICATION Spec
INVARIANTS
  OrphansOnlyByReuse
  RefusedOnlyAfterSwitch
PROPERTY ReadersEnd
CHECK_DEADLOCK FALSE
