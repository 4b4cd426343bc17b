SPECIFICATION FairBatcherSpec
CONSTANTS
  s1 = s1
  c1 = c1
  s2 = s2
  Flusher = Flusher
  NoOne = NoOne
  Sessions <- SessionsMC
  Clients <- ClientsMC
  RawCap = 2
  MaxPieces = 2
  MaxWrites <- MaxWritesMC
INVARIANTS TypeOK WireContract NothingVanishes StraddleOnlyInFlight
PROPERTIES FeedSpec EventuallyFlushed
