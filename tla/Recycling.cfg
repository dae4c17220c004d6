SPECIFICATION Spec
CONSTANTS
  NoToken = "none"
  NativeToken = "weth"
  Tokens <- PlainAndTwo
  Recyclables <- TwoProxies
  MaxExpiration <- TwoExpirations
  MaxMarkets = 3
  Week = 1
  Users = {"u1", "u2"}
  KeepersInTime = TRUE
  Amounts = {1, 2}
  MaxPar = 2
  MaxTime = 6
CHECK_DEADLOCK FALSE
INVARIANTS
  TypeOK
  MarketsFound
  FreeIdsListed
  ClaimsBacked
  MarketKept
