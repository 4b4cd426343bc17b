SPECIFICATION Spec
CONSTANTS
  Trickle <- MCTrickle
  MaxOffers = 2
  MaxEvents = 2
CHECK_DEADLOCK FALSE
INVARIANTS
  CandidatesReachOffer
  ModeFollowsConnection
  LastChannelClears
