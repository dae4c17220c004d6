SPECIFICATION FairSpec
CHECK_DEADLOCK FALSE
CONSTANTS
  Owners = {"alice", "bob"}
  Contracts = {"expiry", "payable1", "payable2"}
  Mapped <- NoOrders
  Expiry = "expiry"
  Spread = 10
  ExpiryRampTime = 3
  PremiumBase = 20
  Places = 10
  Networks = {1, 2}
  FirstNetwork = 1
  FirstAccount = "alice"
  Calls = {"c1", "c2"}
  Operations = {"o1"}
  Proxies = {"None"}
  Items <- MCItems
  Standards <- MCStandards
  Plans <- MCPlans
  CallOptions <- MCCallOptions
  PairOptions <- MCPairOptions
  OptionType <- Undefined
  DefaultConfirmations = 0
  DefaultGas = 0
  OptionGasLimit = 0
  GasLimit <- MCGasLimit
  PayableProxy <- MCPayableProxy
  Estimates = {4}
  MaxConfirmations = 1
  MaxActions = 2
  MaxSwitches = 1
INVARIANTS
  SentAsCommitted
  OutcomeMatchesChain
  EtherCarried
  LatePlansWork
PROPERTIES
  EveryCallSettles
