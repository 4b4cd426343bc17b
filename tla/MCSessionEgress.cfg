SPECIFICATION EgressSpec
CONSTANTS
  s1 = s1
  exit = exit
  Remote = Remote
  Local = Local
  Flusher = Flusher
  NoOne = NoOne
  Sessions <- SessionsMC
  Clients <- ClientsMC
  Waiter <- WaiterMC
  RawCap = 2
  MaxPieces = 1
  MaxWrites <- MaxWritesMC
  MaxOps = 2
  MaxFaults = 1
CHECK_DEADLOCK FALSE
INVARIANTS GapFree MuteStopsOutput ExitOvertakesOneWrite
  HistoryFollowsItsWrites
