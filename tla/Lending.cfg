SPECIFICATION Spec
CONSTANTS
  Base = 10
  Max128 = 4
  Max96 = 1000
  Addresses <- MCAddresses
  Accounts <- TwoAccounts
  Markets <- MCMarkets
  MarginRatio = 2
  MinBorrowedValue = 20
  MarginPremium <- MCPremium
  Self = "self"
  Owner <- TwoOwners
  GlobalOperators <- KeeperOnly
  SpecialTraders = {}
  Token <- MCToken
  Recyclable = {}
  LiquidationSpread = 1
  SpreadPremium <- None
  EarningsRate = 0
  Requests <- LendingRequests
  Grants <- LendingGrants
  ExternalAmounts = {1, 2}
  OutputAmounts <- TraderAnswers
  Prices <- SteadyPrices
  Rates = {20}
  Closable = {}
  WeiCaps = {}
  MarketMaxima = {2}
  Gifted = {1}
  TokenSupply <- FourTokens
  InitialVault <- None
  MaxTime = 1
  OperationSlack = 0
  AccrualSlack = 0
INVARIANTS
  CapturedStillTrue
  TypeOK
  SummariesConsistent
  TotalsConsistent
  CacheCoversAccounts
PROPERTIES
  CommitsCollateralized
  OnlyPermittedChanges
