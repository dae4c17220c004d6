------------------------------ MODULE Operation ------------------------------
(***************************************************************************)
(* DolomiteMargin.operate: one call runs a list of actions on a list of    *)
(* accounts and checks the outcome at the end (impl/OperationImpl.sol and  *)
(* the implementations of the actions).                                    *)
(*                                                                         *)
(* A call is a frame on a stack, and runs one step per action; an action   *)
(* that calls an external contract (exchange wrapper, auto trader, callee, *)
(* liquidation callback) takes two, before and after the call. While an    *)
(* external contract runs, any code may run: it may change who trusts      *)
(* whom, send tokens to the protocol, move an oracle's price and try to    *)
(* call the protocol again. A frame ends by Commit or by Revert, which     *)
(* restores everything as it was when the frame began; a Revert is always  *)
(* possible, for a failed Require, an external call that fails, or gas.    *)
(* Conditions the code requires are therefore guards.                      *)
(***************************************************************************)
EXTENDS Ledger

CONSTANTS
  Self,                  (* the address of DolomiteMargin                  *)
  Owner,                 (* the owner of each account                      *)
  GlobalOperators,       (* the addresses trusted for every account        *)
  SpecialTraders,        (* auto traders only global operators may use     *)
  Token,                 (* the ERC20 of each market                       *)
  Recyclable,            (* the recyclable markets                         *)
  LiquidationSpread,     (* riskParams, fixed-point                        *)
  SpreadPremium,         (* per market, fixed-point                        *)
  EarningsRate           (* riskParams, fixed-point                        *)

(* The environment, and the bounds that keep it finite.                    *)
CONSTANTS
  Requests,              (* the operations that may be asked for           *)
  Grants,                (* the (owner, operator) pairs that may change    *)
  ExternalAmounts,       (* what an exchange may cost or return            *)
  OutputAmounts,         (* what an auto trader may answer                 *)
  Prices,                (* the prices of the oracles, per market          *)
  Rates,                 (* the rates of the interest setters              *)
  Closable,              (* the markets an admin may close and reopen      *)
  WeiCaps,               (* the caps an admin may set; 0 is no cap         *)
  MarketMaxima,          (* the values an admin may give maxMarkets        *)
  Gifted,                (* the markets whose tokens anyone may send in    *)
  TokenSupply,           (* per market, the tokens that exist              *)
  InitialVault,          (* per market, tokens held at the start           *)
  MaxTime                (* the last time stamp                            *)

ASSUME OperationAssumption ==
  /\ Self \in Addresses
  /\ Owner \in [Accounts -> Addresses \ {Self}]
  /\ GlobalOperators \subseteq Addresses
  /\ SpecialTraders \subseteq Addresses
  /\ Token \in [Markets -> Addresses]
  /\ Recyclable \subseteq Markets
  /\ LiquidationSpread \in Nat
  /\ SpreadPremium \in [Markets -> Nat]
  /\ EarningsRate \in 0..Base

ASSUME EnvironmentAssumption ==
  /\ Requests \subseteq Request
  /\ Grants \subseteq Addresses \X Addresses
  /\ ExternalAmounts \subseteq Nat
  /\ OutputAmounts \subseteq AssetAmount
  /\ Prices \in [Markets -> SUBSET Nat]
  /\ Rates \subseteq Nat
  /\ Closable \subseteq Markets
  /\ WeiCaps \subseteq Nat
  /\ MarketMaxima \subseteq Nat
  /\ Gifted \subseteq Markets
  /\ TokenSupply \in [Markets -> Nat]
  /\ InitialVault \in [Markets -> Nat]
  /\ \A m \in Markets : InitialVault[m] <= TokenSupply[m]
  /\ MaxTime \in Nat

VARIABLES
  ledger,      (* the balances, see Ledger                                 *)
  status,      (* "Normal", "Liquid" or "Vapor" for each account           *)
  index,       (* the interest index of each market                        *)
  operators,   (* the (owner, operator) pairs of local operators           *)
  isClosing,   (* the markets in which borrows may not grow                *)
  maxWei,      (* the cap on the supply of each market                     *)
  maxMarkets,  (* riskParams.accountMaxNumberOfMarketsWithBalances         *)
  vault,       (* the tokens of each market that the protocol holds        *)
  price,       (* what the oracle of each market answers                   *)
  now,         (* the block time stamp                                     *)
  locked,      (* ReentrancyGuard                                          *)
  frames       (* the calls of operate that are running, innermost last    *)

vars == <<ledger, status, index, operators, isClosing, maxWei, maxMarkets,
          vault, price, now, locked, frames>>

-----------------------------------------------------------------------------
(* The frame that runs, and the action it is at.                           *)
Top  == frames[Len(frames)]
Act  == Top.actions[Top.pc]
Acct == Top.accounts[Act.account]
Othr == Top.accounts[Act.other]

(* What an action has read or computed before its external call and uses   *)
(* after it.                                                               *)
Captured(par, wei, otherWei) ==
  [par |-> par, wei |-> wei, otherWei |-> otherWei, bounded |-> FALSE]

NoCall == Captured(0, 0, 0)

At(type) ==
  /\ frames # <<>>
  /\ Top.pc <= Len(Top.actions)
  /\ Act.type = type
  /\ ~Top.waiting

Returning(type) ==
  /\ frames # <<>>
  /\ Top.waiting
  /\ Act.type = type

Advance ==
  frames' = [frames EXCEPT ![Len(frames)] =
    [Top EXCEPT !.pc = Top.pc + 1, !.waiting = FALSE, !.call = NoCall]]

Await(call) ==
  frames' = [frames EXCEPT ![Len(frames)] =
    [Top EXCEPT !.waiting = TRUE, !.call = call]]

(* External code runs between two operations, during an external call, and *)
(* in the token's transfer that ends a deposit or a withdrawal.            *)
ExternalCodeRuns ==
  frames # <<>> =>
    \/ Top.waiting
    \/ Top.pc > 1 /\ Top.actions[Top.pc - 1].type \in {"Deposit", "Withdraw"}

IndexOf(m) == Top.cache[m].index

IsOperator(a, who) ==
  \/ who = Owner[a]
  \/ who \in GlobalOperators
  \/ <<Owner[a], who>> \in operators

(* The tokens of market m that the protocol may still receive.             *)
CanReceive(m, amount) == vault[m] + amount <= TokenSupply[m]

Booked(newLedger) == newLedger.fits /\ ledger' = newLedger

-----------------------------------------------------------------------------
Init ==
  /\ ledger = EmptyLedger
  /\ status = [a \in Accounts |-> "Normal"]
  /\ index = [m \in Markets |-> NewIndex(0)]
  /\ operators = {}
  /\ isClosing = {}
  /\ maxWei = [m \in Markets |-> 0]
  /\ maxMarkets \in MarketMaxima
  /\ vault = InitialVault
  /\ price \in {p \in [Markets -> UNION {Prices[m] : m \in Markets}] :
                  \A m \in Markets : p[m] \in Prices[m] \ {0}}
  /\ now = 0
  /\ locked = FALSE
  /\ frames = <<>>

-----------------------------------------------------------------------------
(* Entering: the reentrancy guard, the checks on the inputs, the update of *)
(* the indexes of all markets the operation may read, and the cache.       *)

(* Mutant: nonReentrant is missing.                                        *)
MutantMayEnter == TRUE

MayEnter == ~locked

BalanceMarkets(accounts) ==
  UNION {ledger.held[accounts[i]] : i \in DOMAIN accounts}

(* Mutant: only the markets the actions name are cached.                   *)
MutantCachedMarkets(request) == ActionMarkets(request.actions)

CachedMarkets(request) ==
  ActionMarkets(request.actions) \cup BalanceMarkets(request.accounts)

UpdatedIndex(m, rate) ==
  IF index[m].lastUpdate = now
  THEN index[m]
  ELSE CalculateNewIndex(index[m], rate, TotalSupplyWei(ledger, m, index[m]),
                         TotalBorrowWei(ledger, m, index[m]), EarningsRate, now)

MarketInfo(m, newIndex) ==
  [isClosing |-> m \in isClosing, borrowPar |-> ledger.borrow[m],
   supplyPar |-> ledger.supply[m], index |-> newIndex, price |-> price[m]]

Snapshot ==
  [ledger |-> ledger, status |-> status, index |-> index,
   operators |-> operators, vault |-> vault, price |-> price,
   locked |-> locked]

Begin(request, rate) ==
  LET markets == CachedMarkets(request)
      updated == [m \in Markets |-> IF m \in markets
                                    THEN UpdatedIndex(m, rate[m])
                                    ELSE index[m]]
  IN
  /\ ExternalCodeRuns
  /\ MayEnter
  /\ RequestAccepted(request)
  /\ \A m \in markets :
       /\ Fits96(updated[m].borrow) /\ Fits96(updated[m].supply)
       /\ price[m] # 0
  /\ locked' = TRUE
  /\ index' = updated
  /\ frames' = Append(frames,
       [sender   |-> request.sender,
        accounts |-> request.accounts,
        actions  |-> request.actions,
        pc       |-> 1,
        primary  |-> PrimaryAfter(request.actions, Len(request.actions)),
        counts   |-> [i \in DOMAIN request.accounts |->
                        Cardinality(ledger.held[request.accounts[i]])],
        cache    |-> [m \in markets |-> MarketInfo(m, updated[m])],
        waiting  |-> FALSE,
        call     |-> NoCall,
        saved    |-> Snapshot,
        trusted  |-> operators])
  /\ UNCHANGED <<ledger, status, operators, isClosing, maxWei, maxMarkets,
                 vault, price, now>>

-----------------------------------------------------------------------------
(* Deposit, withdrawal and transfer.                                       *)

Deposit ==
  LET m     == Act.primaryMarket
      moved == GetNewParAndDeltaWei(ledger, Acct, m, IndexOf(m), Act.amount)
  IN
  /\ At("Deposit")
  /\ IsOperator(Acct, Top.sender)
  /\ Act.address \in {Top.sender, Owner[Acct]}
  /\ Booked(SetPar(ledger, Acct, m, moved.par))
  /\ moved.wei >= 0
  /\ CanReceive(m, moved.wei)
  /\ vault' = [vault EXCEPT ![m] = @ + moved.wei]
  /\ Advance
  /\ UNCHANGED <<status, index, operators, isClosing, maxWei, maxMarkets,
                 price, now, locked>>

Withdraw ==
  LET m     == Act.primaryMarket
      moved == GetNewParAndDeltaWei(ledger, Acct, m, IndexOf(m), Act.amount)
      out   == IF Act.address = Self THEN 0 ELSE -moved.wei
  IN
  /\ At("Withdraw")
  /\ IsOperator(Acct, Top.sender)
  /\ Booked(SetPar(ledger, Acct, m, moved.par))
  /\ moved.wei <= 0
  /\ out <= vault[m]
  /\ vault' = [vault EXCEPT ![m] = @ - out]
  /\ Advance
  /\ UNCHANGED <<status, index, operators, isClosing, maxWei, maxMarkets,
                 price, now, locked>>

TransferPermitted ==
  IsOperator(Acct, Top.sender) /\ IsOperator(Othr, Top.sender)

Transfer ==
  LET m     == Act.primaryMarket
      moved == GetNewParAndDeltaWei(ledger, Acct, m, IndexOf(m), Act.amount)
  IN
  /\ At("Transfer")
  /\ TransferPermitted
  /\ Booked(SetParFromDeltaWei(SetPar(ledger, Acct, m, moved.par),
                               Othr, m, IndexOf(m), -moved.wei))
  /\ Advance
  /\ UNCHANGED <<status, index, operators, isClosing, maxWei, maxMarkets,
                 vault, price, now, locked>>

-----------------------------------------------------------------------------
(* Buy and sell: the account's taker tokens go to an exchange wrapper, and *)
(* the maker tokens it answers with come in.                               *)

(* transferOut of the taker tokens to the wrapper.                         *)
PayExchange(m, wei) ==
  /\ wei <= 0
  /\ -wei <= vault[m]
  /\ Act.address # Self
  /\ vault' = [vault EXCEPT ![m] = @ + wei]

ReceiveFromExchange(m, received) ==
  /\ CanReceive(m, received)
  /\ vault' = [vault EXCEPT ![m] = @ + received]

Buy(cost) ==
  LET maker  == Act.primaryMarket
      bought == GetNewParAndDeltaWei(ledger, Acct, maker, IndexOf(maker), Act.amount)
  IN
  /\ At("Buy")
  /\ IsOperator(Acct, Top.sender)
  /\ bought.wei >= 0
  /\ PayExchange(Act.secondaryMarket, -cost)
  /\ Await(Captured(bought.par, bought.wei, -cost))
  /\ UNCHANGED <<ledger, status, index, operators, isClosing, maxWei,
                 maxMarkets, price, now, locked>>

PaidInFull(received) == received >= Top.call.wei

BuyReturn(received) ==
  LET maker == Act.primaryMarket
      taker == Act.secondaryMarket
  IN
  /\ Returning("Buy")
  /\ ReceiveFromExchange(maker, received)
  /\ PaidInFull(received)
  /\ Booked(SetParFromDeltaWei(SetPar(ledger, Acct, maker, Top.call.par),
                               Acct, taker, IndexOf(taker), Top.call.otherWei))
  /\ Advance
  /\ UNCHANGED <<status, index, operators, isClosing, maxWei, maxMarkets,
                 price, now, locked>>

Sell ==
  LET taker == Act.primaryMarket
      sold  == GetNewParAndDeltaWei(ledger, Acct, taker, IndexOf(taker), Act.amount)
  IN
  /\ At("Sell")
  /\ IsOperator(Acct, Top.sender)
  /\ PayExchange(taker, sold.wei)
  /\ Await(Captured(sold.par, sold.wei, 0))
  /\ UNCHANGED <<ledger, status, index, operators, isClosing, maxWei,
                 maxMarkets, price, now, locked>>

SellReturn(received) ==
  LET taker == Act.primaryMarket
      maker == Act.secondaryMarket
  IN
  /\ Returning("Sell")
  /\ ReceiveFromExchange(maker, received)
  /\ Booked(SetParFromDeltaWei(SetPar(ledger, Acct, taker, Top.call.par),
                               Acct, maker, IndexOf(maker), received))
  /\ Advance
  /\ UNCHANGED <<status, index, operators, isClosing, maxWei, maxMarkets,
                 price, now, locked>>

-----------------------------------------------------------------------------
(* Trade: the auto trader, an operator of the maker account, quotes what   *)
(* the maker's other market changes by.                                    *)

(* Mutant: the auto trader need not be an operator of the maker.           *)
MutantTradePermitted == IsOperator(Acct, Top.sender)

TradePermitted ==
  /\ IsOperator(Acct, Top.sender)
  /\ IsOperator(Othr, Act.address)
  /\ Act.address \in SpecialTraders => Top.sender \in GlobalOperators

Trade ==
  LET input == Act.primaryMarket
      moved == GetNewParAndDeltaWei(ledger, Othr, input, IndexOf(input), Act.amount)
  IN
  /\ At("Trade")
  /\ TradePermitted
  /\ Await(Captured(moved.par, moved.wei, 0))
  /\ UNCHANGED <<ledger, status, index, operators, isClosing, maxWei,
                 maxMarkets, vault, price, now, locked>>

TwoSided(inputWei, outputWei) ==
  inputWei = 0 \/ outputWei = 0 \/ (inputWei > 0) # (outputWei > 0)

TradeReturn(answer) ==
  LET input    == Act.primaryMarket
      output   == Act.secondaryMarket
      inputWei == Top.call.wei
      moved    == GetNewParAndDeltaWei(ledger, Othr, output, IndexOf(output), answer)
      maker    == SetPar(SetPar(ledger, Othr, input, Top.call.par),
                         Othr, output, moved.par)
  IN
  /\ Returning("Trade")
  /\ TwoSided(inputWei, moved.wei)
  /\ Booked(SetParFromDeltaWei(
              SetParFromDeltaWei(maker, Acct, input, IndexOf(input), -inputWei),
              Acct, output, IndexOf(output), -moved.wei))
  /\ Advance
  /\ UNCHANGED <<status, index, operators, isClosing, maxWei, maxMarkets,
                 vault, price, now, locked>>

-----------------------------------------------------------------------------
(* Liquidation and vaporization: the solid account (Acct) repays what the  *)
(* other account owes in the primary market and takes the secondary        *)
(* market's tokens for it, from that account or from the excess tokens.    *)

GetLiquidationSpreadForPair(held, owed) ==
  DecimalMul(DecimalMul(LiquidationSpread, OnePlus(SpreadPremium[held])),
             OnePlus(SpreadPremium[owed]))

OwedPriceAdjusted(held, owed) ==
  LET owedPrice == Top.cache[owed].price
  IN  owedPrice + DecimalMul(owedPrice, GetLiquidationSpreadForPair(held, owed))

OwedWeiToHeldWei(owedWei, heldPrice, owedPrice) ==
  GetPartial(owedWei, owedPrice, heldPrice)

(* Mutant: the repayment for all of the collateral is rounded down.        *)
MutantHeldWeiToOwedWei(heldWei, heldPrice, owedPrice) ==
  GetPartial(heldWei, heldPrice, owedPrice)

HeldWeiToOwedWei(heldWei, heldPrice, owedPrice) ==
  GetPartialRoundUp(heldWei, heldPrice, owedPrice)

(* Mutant: what is taken is not bounded by what is there.                  *)
MutantExchanged(repaid, held, owed, maxHeld) ==
  Captured(repaid.par, repaid.wei,
           -OwedWeiToHeldWei(repaid.wei, Top.cache[held].price,
                             OwedPriceAdjusted(held, owed)))

(* What is exchanged for a repayment: at most maxHeld tokens.              *)
Exchanged(repaid, held, owed, maxHeld) ==
  LET heldPrice == Top.cache[held].price
      owedPrice == OwedPriceAdjusted(held, owed)
      heldWei   == OwedWeiToHeldWei(repaid.wei, heldPrice, owedPrice)
  IN  IF heldWei > maxHeld
      THEN [par |-> 0, wei |-> HeldWeiToOwedWei(maxHeld, heldPrice, owedPrice),
            otherWei |-> -maxHeld, bounded |-> TRUE]
      ELSE Captured(repaid.par, repaid.wei, -heldWei)

(* The solid account's side of both.                                       *)
PaidBySolid(L, owed, held) ==
  SetParFromDeltaWei(
    SetParFromDeltaWei(L, Acct, owed, IndexOf(owed), -Top.call.wei),
    Acct, held, IndexOf(held), -Top.call.otherWei)

(* Mutant: any account in debt can be liquidated.                          *)
MutantLiquidatable(a) == ledger.debts[a] > 0

Liquidatable(a) == status[a] = "Liquid" \/ ~IsCollateralized(ledger, a, Top.cache)

Liquidate ==
  LET owed    == Act.primaryMarket
      held    == Act.secondaryMarket
      maxHeld == GetWei(ledger, Othr, held, IndexOf(held))
      repaid  == GetNewParAndDeltaWeiForLiquidation(ledger, Othr, owed,
                   IndexOf(owed), Act.amount)
  IN
  /\ At("Liquidate")
  /\ Top.sender \in GlobalOperators
  /\ Liquidatable(Othr)
  /\ status' = [status EXCEPT ![Othr] = "Liquid"]
  /\ maxHeld >= 0
  /\ repaid.allowed
  /\ Await(Exchanged(repaid, held, owed, maxHeld))
  /\ UNCHANGED <<ledger, index, operators, isClosing, maxWei, maxMarkets,
                 vault, price, now, locked>>

LiquidateReturn ==
  LET owed   == Act.primaryMarket
      held   == Act.secondaryMarket
      seized == IF Top.call.bounded
                THEN SetParFromDeltaWei(SetPar(ledger, Othr, held, 0),
                       Othr, owed, IndexOf(owed), Top.call.wei)
                ELSE SetParFromDeltaWei(SetPar(ledger, Othr, owed, Top.call.par),
                       Othr, held, IndexOf(held), Top.call.otherWei)
  IN
  /\ Returning("Liquidate")
  /\ Booked(PaidBySolid(seized, owed, held))
  /\ Advance
  /\ UNCHANGED <<status, index, operators, isClosing, maxWei, maxMarkets,
                 vault, price, now, locked>>

Vaporizable(a) == status[a] = "Vapor" \/ IsVaporizable(ledger, a, Top.cache)

(* Mutant: the excess does not deduct what the suppliers are owed.         *)
MutantExcessOf(L, m) == vault[m] + TotalBorrowWei(L, m, index[m])

ExcessOf(L, m) == NumExcessTokens(L, m, index[m], vault[m])

(* The ledger after the excess tokens of the owed market itself have paid  *)
(* what they can.                                                          *)
VaporizeUsingExcess(a, m) ==
  LET excess == ExcessOf(ledger, m)
      refund == Magnitude(GetWei(ledger, a, m, IndexOf(m)))
  IN  IF excess <= 0 THEN ledger
      ELSE IF excess >= refund THEN SetPar(ledger, a, m, 0)
      ELSE SetParFromDeltaWei(ledger, a, m, IndexOf(m), excess)

FullyRepaid(a, m) ==
  LET excess == ExcessOf(ledger, m)
  IN  excess > 0 /\ excess >= Magnitude(GetWei(ledger, a, m, IndexOf(m)))

VaporizeFully ==
  LET owed == Act.primaryMarket
  IN
  /\ At("Vaporize")
  /\ IsOperator(Acct, Top.sender)
  /\ Vaporizable(Othr)
  /\ FullyRepaid(Othr, owed)
  /\ status' = [status EXCEPT ![Othr] = "Vapor"]
  /\ Booked(VaporizeUsingExcess(Othr, owed))
  /\ Advance
  /\ UNCHANGED <<index, operators, isClosing, maxWei, maxMarkets, vault,
                 price, now, locked>>

Vaporize ==
  LET owed    == Act.primaryMarket
      held    == Act.secondaryMarket
      partly  == VaporizeUsingExcess(Othr, owed)
      maxHeld == ExcessOf(partly, held)
      repaid  == GetNewParAndDeltaWeiForLiquidation(partly, Othr, owed,
                   IndexOf(owed), Act.amount)
  IN
  /\ At("Vaporize")
  /\ IsOperator(Acct, Top.sender)
  /\ Vaporizable(Othr)
  /\ ~FullyRepaid(Othr, owed)
  /\ status' = [status EXCEPT ![Othr] = "Vapor"]
  /\ Booked(partly)
  /\ maxHeld >= 0
  /\ repaid.allowed
  /\ Await(Exchanged(repaid, held, owed, maxHeld))
  /\ UNCHANGED <<index, operators, isClosing, maxWei, maxMarkets, vault,
                 price, now, locked>>

VaporizeReturn ==
  LET owed  == Act.primaryMarket
      held  == Act.secondaryMarket
      freed == IF Top.call.bounded
               THEN SetParFromDeltaWei(ledger, Othr, owed, IndexOf(owed), Top.call.wei)
               ELSE SetPar(ledger, Othr, owed, Top.call.par)
  IN
  /\ Returning("Vaporize")
  /\ Booked(PaidBySolid(freed, owed, held))
  /\ Advance
  /\ UNCHANGED <<status, index, operators, isClosing, maxWei, maxMarkets,
                 vault, price, now, locked>>

-----------------------------------------------------------------------------
CallFunction ==
  /\ At("Call")
  /\ IsOperator(Acct, Top.sender)
  /\ Await(NoCall)
  /\ UNCHANGED <<ledger, status, index, operators, isClosing, maxWei,
                 maxMarkets, vault, price, now, locked>>

CallReturn ==
  /\ Returning("Call")
  /\ Advance
  /\ UNCHANGED <<ledger, status, index, operators, isClosing, maxWei,
                 maxMarkets, vault, price, now, locked>>

-----------------------------------------------------------------------------
(* The checks at the end of an operation, and its two ways to end.         *)

ClosingRespected(m) ==
  Top.cache[m].isClosing => ledger.borrow[m] <= Top.cache[m].borrowPar

SupplyCapRespected(m) ==
  LET supplyWei == TotalSupplyWei(ledger, m, IndexOf(m))
  IN  \/ maxWei[m] = 0
      \/ supplyWei <= maxWei[m]
      \/ supplyWei <= ParToWei(Top.cache[m].supplyPar, IndexOf(m))

(* Mutant: only supplies are checked, not borrows.                         *)
MutantRecyclableRespected(m) ==
  m \in Recyclable =>
    \A i \in DOMAIN Top.accounts :
      Owner[Top.accounts[i]] # Token[m] => ledger.par[Top.accounts[i]][m] <= 0

RecyclableRespected(m) ==
  m \in Recyclable =>
    \A i \in DOMAIN Top.accounts :
      Owner[Top.accounts[i]] # Token[m] => m \notin ledger.held[Top.accounts[i]]

(* Mutant: the markets with debt are counted, not those with balances.     *)
MutantBalancesRespected(i) ==
  LET count == ledger.debts[Top.accounts[i]]
  IN  count <= Top.counts[i] \/ count <= maxMarkets

BalancesRespected(i) ==
  LET count == Cardinality(ledger.held[Top.accounts[i]])
  IN  count <= Top.counts[i] \/ count <= maxMarkets

FinalCollateral(a) ==
  BorrowsEnough(ledger, a, Top.cache) /\ IsCollateralized(ledger, a, Top.cache)

PrimaryAccounts == {Top.accounts[i] : i \in Top.primary}

(* Mutant: the flag of a vaporized account is kept.                        *)
MutantFinalStatus(a) ==
  IF a \in PrimaryAccounts /\ status[a] = "Liquid" THEN "Normal" ELSE status[a]

FinalStatus(a) == IF a \in PrimaryAccounts THEN "Normal" ELSE status[a]

(* Mutant: the guard is not released at the end of an operation.           *)
MutantReleaseGuard == locked' = locked

ReleaseGuard == locked' = FALSE

Pop == frames' = SubSeq(frames, 1, Len(frames) - 1)

Commit ==
  /\ frames # <<>>
  /\ Top.pc > Len(Top.actions)
  /\ \A m \in DOMAIN Top.cache :
       ClosingRespected(m) /\ SupplyCapRespected(m) /\ RecyclableRespected(m)
  /\ \A i \in DOMAIN Top.accounts : BalancesRespected(i)
  /\ \A a \in PrimaryAccounts : FinalCollateral(a)
  /\ status' = [a \in Accounts |-> FinalStatus(a)]
  /\ ReleaseGuard
  /\ Pop
  /\ UNCHANGED <<ledger, index, operators, isClosing, maxWei, maxMarkets,
                 vault, price, now>>

(* An admin function cannot have run since the frame began, so isClosing,  *)
(* maxWei and maxMarkets are as they were then.                            *)
Revert ==
  /\ frames # <<>>
  /\ ledger' = Top.saved.ledger
  /\ status' = Top.saved.status
  /\ index' = Top.saved.index
  /\ operators' = Top.saved.operators
  /\ vault' = Top.saved.vault
  /\ price' = Top.saved.price
  /\ locked' = Top.saved.locked
  /\ Pop
  /\ UNCHANGED <<isClosing, maxWei, maxMarkets, now>>

-----------------------------------------------------------------------------
(* What the rest of the chain may do while external code runs.             *)

(* Permission.setOperators is the one entry point without the guard.       *)
SetOperator(pair, trusted) ==
  /\ ExternalCodeRuns
  /\ operators' = IF trusted THEN operators \cup {pair} ELSE operators \ {pair}
  /\ frames' = [i \in DOMAIN frames |->
                  [frames[i] EXCEPT !.trusted = @ \cup operators']]
  /\ UNCHANGED <<ledger, status, index, isClosing, maxWei, maxMarkets, vault,
                 price, now, locked>>

SendTokens(m) ==
  /\ ExternalCodeRuns
  /\ CanReceive(m, 1)
  /\ vault' = [vault EXCEPT ![m] = @ + 1]
  /\ UNCHANGED <<ledger, status, index, operators, isClosing, maxWei,
                 maxMarkets, price, now, locked, frames>>

MovePrice(m, newPrice) ==
  /\ ExternalCodeRuns
  /\ price' = [price EXCEPT ![m] = newPrice]
  /\ UNCHANGED <<ledger, status, index, operators, isClosing, maxWei,
                 maxMarkets, vault, now, locked, frames>>

Tick ==
  /\ frames = <<>>
  /\ now < MaxTime
  /\ now' = now + 1
  /\ UNCHANGED <<ledger, status, index, operators, isClosing, maxWei,
                 maxMarkets, vault, price, locked, frames>>

(* The admin functions that interact with running operations; all of them  *)
(* take the reentrancy guard.                                              *)
OwnerSetIsClosing(m, closing) ==
  /\ ExternalCodeRuns
  /\ MayEnter
  /\ isClosing' = IF closing THEN isClosing \cup {m} ELSE isClosing \ {m}
  /\ UNCHANGED <<ledger, status, index, operators, maxWei, maxMarkets, vault,
                 price, now, locked, frames>>

OwnerSetMaxWei(m, cap) ==
  /\ ExternalCodeRuns
  /\ MayEnter
  /\ Fits128(cap)
  /\ maxWei' = [maxWei EXCEPT ![m] = cap]
  /\ UNCHANGED <<ledger, status, index, operators, isClosing, maxMarkets,
                 vault, price, now, locked, frames>>

OwnerSetMaxMarkets(count) ==
  /\ ExternalCodeRuns
  /\ MayEnter
  /\ count >= 2
  /\ maxMarkets' = count
  /\ UNCHANGED <<ledger, status, index, operators, isClosing, maxWei, vault, price,
                 now, locked, frames>>

OwnerWithdrawExcessTokens(m) ==
  LET excess == ExcessOf(ledger, m)
  IN
  /\ ExternalCodeRuns
  /\ MayEnter
  /\ excess >= 0
  /\ vault' = [vault EXCEPT ![m] = @ - (IF excess > @ THEN @ ELSE excess)]
  /\ UNCHANGED <<ledger, status, index, operators, isClosing, maxWei,
                 maxMarkets, price, now, locked, frames>>

-----------------------------------------------------------------------------
Step ==
  \/ Deposit
  \/ Withdraw
  \/ Transfer
  \/ \E amount \in ExternalAmounts :
       Buy(amount) \/ BuyReturn(amount) \/ SellReturn(amount)
  \/ Sell
  \/ Trade
  \/ \E answer \in OutputAmounts : TradeReturn(answer)
  \/ Liquidate
  \/ LiquidateReturn
  \/ VaporizeFully
  \/ Vaporize
  \/ VaporizeReturn
  \/ CallFunction
  \/ CallReturn
  \/ Commit
  \/ Revert

Environment ==
  \/ \E pair \in Grants, trusted \in BOOLEAN : SetOperator(pair, trusted)
  \/ \E m \in Gifted : SendTokens(m)
  \/ \E m \in Markets : \E newPrice \in Prices[m] : MovePrice(m, newPrice)
  \/ Tick
  \/ \E m \in Closable, closing \in BOOLEAN : OwnerSetIsClosing(m, closing)
  \/ \E m \in Markets, cap \in WeiCaps : OwnerSetMaxWei(m, cap)
  \/ \E count \in MarketMaxima : OwnerSetMaxMarkets(count)
  \/ \E m \in Markets : OwnerWithdrawExcessTokens(m)

Next ==
  \/ \E request \in Requests, rate \in [Markets -> Rates] : Begin(request, rate)
  \/ Step
  \/ Environment

Spec == Init /\ [][Next]_vars

(* A transaction runs until it ends, if only because its gas does.         *)
FairSpec == Spec /\ WF_vars(Step)
=============================================================================
