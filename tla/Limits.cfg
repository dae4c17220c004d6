SPECIFICATION FairSpec
CONSTANTS
  Base = 10
  Max128 = 4
  Max96 = 1000
  Addresses <- MCAddresses
  Accounts <- TwoAccounts
  Markets <- ThreeMarkets
  MarginRatio = 2
  MinBorrowedValue = 10
  MarginPremium <- NoneEach
  Self = "self"
  Owner <- TwoOwners
  GlobalOperators <- KeeperOnly
  SpecialTraders = {}
  Token <- LimitTokens
  Recyclable <- RecyclableTwo
  LiquidationSpread = 1
  SpreadPremium <- NoneEach
  EarningsRate = 9
  Requests <- LimitRequests
  Grants = {}
  ExternalAmounts = {0}
  OutputAmounts = {}
  Prices <- TenEach
  Rates = {0}
  Closable = {1}
  WeiCaps = {0, 3}
  MarketMaxima = {2, 3}
  Gifted = {}
  TokenSupply <- FourEach
  InitialVault <- NoneEach
  MaxTime = 0
  OperationSlack = 0
  AccrualSlack = 0
INVARIANTS
  RecyclableIsolated
PROPERTIES
  GuardReleased
  LimitsRespected
