---------------------------- MODULE ExpiryTrader ----------------------------
(***************************************************************************)
(* The auto trader of expired debts (external/traders/Expiry.sol): whether *)
(* it takes a trade of an expired account with a target of zero, and what  *)
(* the trade leaves of the account, with the roundings of Expiry and those *)
(* of DolomiteMargin's books. An account is a record of "owed", the debt   *)
(* in the expired market, and "held", what it has in each other market.    *)
(***************************************************************************)
EXTENDS AccountOperation, Partials

LiquidationSpread(x, held) ==
  GetPartial(GetPartial(Spread, PremiumBase + x.spreadPremiums[held], PremiumBase),
             PremiumBase + x.spreadPremiums[x.expiredMarket], PremiumBase)

(* The price of the debt against one collateral: the spread of the pair,   *)
(* not the price, grows with the age of the expiry.                        *)
SpreadAdjustedPrice(x, held) ==
  LET age    == x.blockTimestamp - x.expiryTimestamp
      full   == LiquidationSpread(x, held)
      spread == IF age < ExpiryRampTime THEN GetPartial(full, age, ExpiryRampTime) ELSE full
      price  == x.prices[x.expiredMarket]
  IN  price + GetPartial(price, spread, PremiumBase)

(* What an amount of a collateral repays, and what an amount of the debt   *)
(* is repaid with.                                                         *)
HeldToOwed(x, held, wei) ==
  GetPartialRoundUp(wei, x.prices[held], SpreadAdjustedPrice(x, held))
OwedToHeld(x, held, wei) ==
  GetPartial(wei, SpreadAdjustedPrice(x, held), x.prices[held])

Repays(x, a)     == a.primaryMarketId = x.expiredMarket
Collateral(x, a) == IF Repays(x, a) THEN a.secondaryMarketId ELSE a.primaryMarketId

(* getTradeCost, of a trade that repays all the debt for one collateral,   *)
(* or gives all of a collateral for what it repays of the debt.            *)
TradeTaken(x, account, a) ==
  LET held == Collateral(x, a)
      wei  == account.held[held]
  IN  /\ account.owed > 0 /\ wei > 0
      /\ IF Repays(x, a) THEN OwedToHeld(x, held, account.owed) <= wei
         ELSE HeldToOwed(x, held, wei) <= account.owed

(* What DolomiteMargin keeps of a balance: a par, at the market's index.   *)
Booked(x, m, wei) ==
  GetPartialRoundHalfUp(GetPartialRoundHalfUp(wei, PremiumBase, x.indexes[m]),
                        x.indexes[m], PremiumBase)

AfterTrade(x, account, a) ==
  LET held == Collateral(x, a)
      wei  == account.held[held]
  IN  IF Repays(x, a)
      THEN [owed |-> 0,
            held |-> [account.held EXCEPT
                        ![held] = Booked(x, held, wei - OwedToHeld(x, held, account.owed))]]
      ELSE [owed |-> Booked(x, x.expiredMarket, account.owed - HeldToOwed(x, held, wei)),
            held |-> [account.held EXCEPT ![held] = 0]]

(* The accounts on the way of a plan: before each trade, and after the     *)
(* last.                                                                   *)
Along(x, plan) ==
  LET after[i \in 0..Len(plan)] ==
        IF i = 0 THEN [owed |-> -x.weis[x.expiredMarket], held |-> x.weis]
        ELSE AfterTrade(x, after[i - 1], plan[i])
  IN  after
=============================================================================
