SPECIFICATION DeskSpec
CONSTANTS
  kalshi = kalshi
  polymarket = polymarket
  kYes = kYes
  kNo = kNo
  pShort = pShort
  t1 = t1
  t2 = t2
  Venues = {kalshi, polymarket}
  Outcomes = {kYes, kNo, pShort}
  VenueOf <- MCVenueOf
  IsYesSide <- MCIsYes
  Position <- MCPosition
  Unit = 10
  FeeRate <- MCFeeRate
  MaxStake = 20000
  MinQty = 1
  FallbackQty = 3
  Kalshi = kalshi
  LadderPrices <- MCLadderPrices
  PmBooks <- MCPmBooks
  MaxLots = 2
  PushedQuotes <- MCPushed
  SourceAges = {0, 1}
  Tolerance = 0
  MaxAge = 0
  QueueMax = 1
  CrossVenueOnly = FALSE
  MaxFrames = 2
  TicketSeq <- MCTickets
  Pair <- MCPair
  AskOf <- MCAsk
  Seed = 8000
  MinTransfer = 3000
  NoRow = NoRow
  MaxInFlight = 2
  Winner = kYes
  MaxEvents = 2
  Excluded = {}
  SubmittedAt <- MCAt
  IdRank <- MCRank
  League <- MCLeague
  CurvePoints = 1
  MaxMeanwhile = 1
INVARIANTS DeskTypeOK LadderMirrorsVenue OffersMatchDetector OffersHeard StoreMatchesMemory ReportsAgree
CHECK_DEADLOCK FALSE
