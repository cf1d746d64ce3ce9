SPECIFICATION Spec
CONSTANTS
  default = default
  kalshi = kalshi
  polymarket = polymarket
  kYes = kYes
  kNo = kNo
  pLong = pLong
  pShort = pShort
  Accounts = {default}
  Venues = {kalshi, polymarket}
  Outcomes = {kYes, kNo, pLong, pShort}
  VenueOf <- MCVenueOf
  IsYesSide <- MCSides
  FeeRate <- MCFeeRate
  Unit = 10000
  SlippageBps = 0
  Asks = {3000, 6000}
  Sizes = {2}
  TicketQtys = {2}
  StartCash = 12300
  MinTransfer = 1000
  Resolutions = {0, 10000}
  MaxTickets = 3
INVARIANTS TypeOK NoOverdraft RealizedMatchesCash RealizedNeverOverstated NoNakedLeg MoneyConserved CommitNeverRefused LockedProfit
PROPERTY RefinesAtomicTicket
