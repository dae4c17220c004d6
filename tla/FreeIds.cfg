SPECIFICATION Spec
CONSTANTS
  NoToken = "none"
  NativeToken = "weth"
  Tokens <- NativeAndSix
  Recyclables <- SixProxies
  MaxExpiration <- SixExpirations
  MaxMarkets = 3
  Week = 1
  Users = {"u1"}
  KeepersInTime = TRUE
  Amounts = {}
  MaxPar = 0
  MaxTime = 8
CHECK_DEADLOCK FALSE
INVARIANTS
  HeadIsFree
