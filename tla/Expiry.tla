------------------------------- MODULE Expiry -------------------------------
(***************************************************************************)
(* Expiry (external/traders/Expiry.sol) beside the operations of           *)
(* DolomiteMargin: the owner of an account, or a sender that it approved,  *)
(* sets a time after which a debt of the account may be closed out; once   *)
(* it has passed, a global operator trades against the account with Expiry *)
(* as the auto trader, at the prices of the oracles and a spread that      *)
(* grows with the time since.                                              *)
(*                                                                         *)
(* Every step of Operation is a step here. Between the two halves of a     *)
(* Trade or a Call whose external contract is Expiry, its code runs and    *)
(* nothing else, but for the liquidation callback of the account at the    *)
(* end of a trade. The storage of Expiry is restored with DolomiteMargin's *)
(* when the operation reverts.                                             *)
(***************************************************************************)
EXTENDS OperationProperties

CONSTANTS
  ExpiryAddress,   (* Expiry itself, an operator of all, for them to trade *)
  ExpiryCalls,     (* the lists of SetExpiryArg that may be passed         *)
  Approvals,       (* the (approver, sender, minTimeDelta) that may be set *)
  MaxExpiries,     (* the maxExpiry that trades may be made with           *)
  RampTimes,       (* the values the admin may give g_expiryRampTime       *)
  Max32            (* the largest uint32                                   *)

SetExpiryArg ==
  [account : Accounts, marketId : Markets, timeDelta : Nat,
   forceUpdate : BOOLEAN]

ASSUME ExpiryAssumption ==
  /\ ExpiryAddress \in GlobalOperators \cap SpecialTraders
  /\ ExpiryCalls \subseteq Seq(SetExpiryArg)
  /\ Approvals \subseteq Addresses \X Addresses \X Nat
  /\ MaxExpiries \subseteq Nat
  /\ RampTimes \subseteq Nat
  /\ Max32 \in Nat

VARIABLES
  expiries,        (* g_expiries, 0 where there is none                    *)
  approvedSender,  (* g_approvedSender, 0 where not approved               *)
  rampTime,        (* g_expiryRampTime                                     *)
  quote,           (* what getTradeCost has answered the trade that waits  *)
  undo             (* the storage as it was when each frame began          *)

storage    == <<expiries, approvedSender, rampTime>>
expiryVars == <<vars, storage, quote, undo>>

NoAmount == [denomination |-> "Par", ref |-> "Delta", value |-> 0]
NoQuote  == [given |-> FALSE, answer |-> NoAmount]

Storage ==
  [expiries |-> expiries, approvedSender |-> approvedSender,
   rampTime |-> rampTime]

(* DolomiteMargin has called Expiry and waits for it.                      *)
InExpiry ==
  /\ frames # <<>>
  /\ Top.waiting
  /\ Act.type \in {"Trade", "Call"}
  /\ Act.address = ExpiryAddress

CodeElsewhereRuns == InExpiry => quote.given

ExpiryInit ==
  /\ Init
  /\ expiries = [a \in Accounts |-> [m \in Markets |-> 0]]
  /\ approvedSender = [pair \in Addresses \X Addresses |-> 0]
  /\ rampTime \in RampTimes
  /\ quote = NoQuote
  /\ undo = <<>>

-----------------------------------------------------------------------------
(* The calls of SetExpiry: each argument in turn, the ones its sender may  *)
(* not set skipped.                                                        *)

MaySet(sender, arg) ==
  LET least == approvedSender[<<Owner[arg.account], sender>>]
  IN  \/ Owner[arg.account] = sender
      \/ least # 0 /\ arg.timeDelta >= least

ExpiryAfter(old, arg) ==
  IF arg.timeDelta # 0 /\ ledger.par[arg.account][arg.marketId] < 0
  THEN IF arg.forceUpdate \/ old = 0 THEN now + arg.timeDelta ELSE old
  ELSE 0

SetExpiry(all, sender, arg) ==
  IF MaySet(sender, arg)
  THEN [all EXCEPT ![arg.account][arg.marketId] = ExpiryAfter(@, arg)]
  ELSE all

(* callFunction, of the owner of the account that the action names.        *)
CallSetExpiry(args) ==
  LET after[i \in 0..Len(args)] ==
        IF i = 0 THEN expiries
        ELSE SetExpiry(after[i - 1], Owner[Acct], args[i])
  IN
  /\ InExpiry
  /\ CallReturn
  /\ \A i \in DOMAIN args, a \in Accounts, m \in Markets :
       after[i][a][m] <= Max32
  /\ expiries' = after[Len(args)]
  /\ UNCHANGED <<approvedSender, rampTime, quote, undo>>

CallSetApproval(approver, sender, minTimeDelta) ==
  /\ InExpiry
  /\ approver = Owner[Acct]
  /\ CallReturn
  /\ approvedSender' = [approvedSender EXCEPT ![<<approver, sender>>] = minTimeDelta]
  /\ UNCHANGED <<expiries, rampTime, quote, undo>>

-----------------------------------------------------------------------------
(* getTradeCost: the maker is the account in debt, Othr of the trade.      *)

(* Mutant: the spread is not lowered while the ramp lasts.                 *)
MutantRampedSpread(held, owed, expiry) == GetLiquidationSpreadForPair(held, owed)

(* The spread of the pair, in proportion to the time since the expiry.     *)
RampedSpread(held, owed, expiry) ==
  LET spread == GetLiquidationSpreadForPair(held, owed)
      age    == IF now <= expiry THEN 0 ELSE now - expiry
  IN  IF age < rampTime THEN GetPartial(spread, age, rampTime) ELSE spread

SpreadAdjustedPrice(held, owed, expiry) ==
  price[owed] + DecimalMul(price[owed], RampedSpread(held, owed, expiry))

(* Mutant: a debt that has not expired yet may be closed out.              *)
MutantMayCloseOut(expiry, maxExpiry) == expiry # 0 /\ expiry <= maxExpiry

MayCloseOut(expiry, maxExpiry) ==
  expiry # 0 /\ expiry <= now /\ expiry <= maxExpiry

(* What is the answer to a trade that repays the debt, its input market... *)
Repaying(maxOutput, expiry) ==
  LET owed  == Act.primaryMarket
      held  == Act.secondaryMarket
      taken == OwedWeiToHeldWei(Top.call.wei, price[held],
                                SpreadAdjustedPrice(held, owed, expiry))
  IN  [allowed |-> /\ ledger.par[Othr][owed] < 0 /\ Top.call.par <= 0
                   /\ maxOutput > 0 /\ taken <= maxOutput,
       owed    |-> owed,
       answer  |-> -taken,
       clears  |-> Top.call.par = 0]

(* Mutant: only a trade that names the debt as its input clears the expiry.*)
MutantSelling(maxOutput, expiry) ==
  LET held == Act.primaryMarket
      owed == Act.secondaryMarket
      paid == HeldWeiToOwedWei(-Top.call.wei, price[held],
                               SpreadAdjustedPrice(held, owed, expiry))
  IN  [allowed |-> /\ ledger.par[Othr][held] > 0 /\ Top.call.par >= 0
                   /\ maxOutput < 0 /\ paid <= -maxOutput,
       owed    |-> owed,
       answer  |-> paid,
       clears  |-> FALSE]

(* ... and to one that sells the collateral for the debt.                  *)
Selling(maxOutput, expiry) ==
  LET held == Act.primaryMarket
      owed == Act.secondaryMarket
      paid == HeldWeiToOwedWei(-Top.call.wei, price[held],
                               SpreadAdjustedPrice(held, owed, expiry))
  IN  [allowed |-> /\ ledger.par[Othr][held] > 0 /\ Top.call.par >= 0
                   /\ maxOutput < 0 /\ paid <= -maxOutput,
       owed    |-> owed,
       answer  |-> paid,
       clears  |-> paid = -maxOutput]

GetTradeCostOfNothing ==
  /\ InExpiry /\ Act.type = "Trade" /\ ~quote.given
  /\ Top.call.wei = 0
  /\ quote' = [given |-> TRUE, answer |-> NoAmount]
  /\ UNCHANGED <<vars, storage, undo>>

GetTradeCost(owedMarket, maxExpiry) ==
  LET output == Act.secondaryMarket
      expiry == expiries[Othr][owedMarket]
      maxOutput == GetWei(ledger, Othr, output, index[output])
      cost   == IF Top.call.wei > 0 THEN Repaying(maxOutput, expiry)
                ELSE Selling(maxOutput, expiry)
  IN
  /\ InExpiry /\ Act.type = "Trade" /\ ~quote.given
  /\ Top.call.wei # 0
  /\ MayCloseOut(expiry, maxExpiry)
  /\ \A m \in MarketsOf(Act) : price[m] # 0
  /\ cost.owed = owedMarket
  /\ cost.allowed
  /\ expiries' = IF cost.clears
                 THEN [expiries EXCEPT ![Othr][owedMarket] = 0]
                 ELSE expiries
  /\ quote' = [given  |-> TRUE,
               answer |-> [denomination |-> "Wei", ref |-> "Delta",
                           value |-> cost.answer]]
  /\ UNCHANGED <<vars, approvedSender, rampTime, undo>>

(* DolomiteMargin books the answer.                                        *)
QuotedTrade ==
  /\ InExpiry
  /\ quote.given
  /\ quote.answer \in OutputAmounts
  /\ TradeReturn(quote.answer)
  /\ quote' = NoQuote
  /\ UNCHANGED <<storage, undo>>

-----------------------------------------------------------------------------
(* The functions anyone may call, and the admin's.                         *)

ApproveSender(approver, sender, minTimeDelta) ==
  /\ ExternalCodeRuns /\ CodeElsewhereRuns
  /\ approvedSender' = [approvedSender EXCEPT ![<<approver, sender>>] = minTimeDelta]
  /\ UNCHANGED <<vars, expiries, rampTime, quote, undo>>

(* The owner is a wallet that sends transactions of its own.               *)
OwnerSetExpiryRampTime(newRampTime) ==
  /\ frames = <<>>
  /\ rampTime' = newRampTime
  /\ UNCHANGED <<vars, expiries, approvedSender, quote, undo>>

-----------------------------------------------------------------------------
(* The steps of DolomiteMargin that Expiry has no part in.                 *)

BeginSaved(request, rate) ==
  /\ Begin(request, rate)
  /\ undo' = Append(undo, Storage)
  /\ UNCHANGED <<storage, quote>>

Forget == undo' = SubSeq(undo, 1, Len(undo) - 1)

CommitSaved ==
  /\ Commit
  /\ Forget
  /\ UNCHANGED <<storage, quote>>

RevertSaved ==
  LET saved == undo[Len(undo)]
  IN
  /\ Revert
  /\ expiries' = saved.expiries
  /\ approvedSender' = saved.approvedSender
  /\ rampTime' = saved.rampTime
  /\ quote' = NoQuote
  /\ Forget

StepElsewhere ==
  /\ ~InExpiry
  /\ Step
  /\ Len(frames') = Len(frames)
  /\ UNCHANGED <<storage, quote, undo>>

EnvironmentElsewhere ==
  /\ CodeElsewhereRuns
  /\ Environment
  /\ UNCHANGED <<storage, quote, undo>>

ExpiryNext ==
  \/ \E request \in Requests, rate \in [Markets -> Rates] : BeginSaved(request, rate)
  \/ CommitSaved
  \/ RevertSaved
  \/ StepElsewhere
  \/ EnvironmentElsewhere
  \/ \E args \in ExpiryCalls : CallSetExpiry(args)
  \/ \E approval \in Approvals :
       \/ CallSetApproval(approval[1], approval[2], approval[3])
       \/ ApproveSender(approval[1], approval[2], approval[3])
  \/ GetTradeCostOfNothing
  \/ \E m \in Markets, maxExpiry \in MaxExpiries : GetTradeCost(m, maxExpiry)
  \/ QuotedTrade
  \/ \E newRampTime \in RampTimes : OwnerSetExpiryRampTime(newRampTime)

ExpirySpec == ExpiryInit /\ [][ExpiryNext]_expiryVars

-----------------------------------------------------------------------------
(* In a liquidation the debt is in the primary market; in a trade through  *)
(* Expiry, in the market it repays.                                        *)
Repays      == Act.type = "Liquidate" \/ Top.call.wei > 0
OwedMarket  == IF Repays THEN Act.primaryMarket ELSE Act.secondaryMarket
HeldMarket  == IF Repays THEN Act.secondaryMarket ELSE Act.primaryMarket

(* The debt was there, and its expiry had passed, when the operation began.*)
DebtWasDue(f, a, m) ==
  f.saved.ledger.par[a][m] < 0 /\ undo[Len(undo)].expiries[a][m] \in 1..now

TradedByExpiry(f, a) ==
  \E k \in DOMAIN f.actions :
    LET act == f.actions[k]
    IN  /\ act.type = "Trade" /\ act.address = ExpiryAddress
        /\ f.accounts[act.other] = a
        /\ f.sender \in GlobalOperators
        /\ \E m \in MarketsOf(act) : DebtWasDue(f, a, m)

(* A trade through an operator of the owner other than Expiry.             *)
TradedElsewhere(f, a) ==
  \E k \in DOMAIN f.actions :
    LET act == f.actions[k]
    IN  /\ act.type = "Trade" /\ act.address # ExpiryAddress
        /\ f.accounts[act.other] = a
        /\ Trusts(f, a, act.address)
        /\ act.address \in SpecialTraders => f.sender \in GlobalOperators

(* Expiry is an operator of every account, but the balances of an account  *)
(* whose owner does not trust the sender change only if a debt of it had   *)
(* expired when the operation began, or it was undercollateralized or      *)
(* being liquidated, or it had no supply and is vaporized, or another      *)
(* operator of the owner trades with it; whatever the operation, or its    *)
(* external calls, have done before.                                       *)
OnlyDueChanges ==
  [][Commit => \A a \in Accounts :
       ledger.par[a] # Top.saved.ledger.par[a] =>
         \/ ActedFor(Top, a) /\ Trusts(Top, a, Top.sender)
         \/ TradedByExpiry(Top, a)
         \/ TradedElsewhere(Top, a)
         \/ LiquidatedBy(Top, a)
         \/ VaporizedBy(Top, a)]_expiryVars

(* A liquidation, or a trade through Expiry, its amounts captured before   *)
(* the liquidation callback runs, only moves the debt of the account       *)
(* towards zero, never past it, and only takes collateral that is there.   *)
CloseOutTowardsZero ==
  [][LiquidateReturn \/ QuotedTrade =>
       LET old == ledger.par[Othr]
           new == ledger'.par[Othr]
       IN  /\ old[OwedMarket] <= new[OwedMarket]
           /\ new[OwedMarket] <= 0 \/ Top.call.wei = 0
           /\ 0 <= new[HeldMarket] \/ Top.call.wei = 0
           /\ new[HeldMarket] <= old[HeldMarket]]_expiryVars

Paid   == IF Repays THEN Top.call.wei ELSE quote'.answer.value
Taken  == IF Repays THEN -quote'.answer.value ELSE -Top.call.wei
Quotes == ~quote.given /\ quote'.given

(* What Expiry answers gives for the debt repaid no more collateral than   *)
(* it is worth, and the spread on top in proportion to the time since the  *)
(* expiry; and what is answered is what the trade then moves between the   *)
(* two accounts, but for the rounding of each balance.                     *)
FairQuote ==
  Quotes /\ Top.call.wei # 0 =>
    LET spread == GetLiquidationSpreadForPair(HeldMarket, OwedMarket)
        age    == now - expiries[Othr][OwedMarket]
        bonus  == Taken * price[HeldMarket] - Paid * price[OwedMarket]
    IN  IF age < rampTime
        THEN bonus * Base * rampTime <= Paid * price[OwedMarket] * spread * age
        ELSE bonus * Base <= Paid * price[OwedMarket] * spread

SettledAsQuoted ==
  QuotedTrade =>
    /\ Moved(Act.primaryMarket, -Top.call.wei)
    /\ Moved(Act.secondaryMarket, -quote.answer.value)

(* Whoever closes out a debt, in a liquidation or through Expiry, takes no *)
(* more for it than the prices and the spread allow, and what was computed *)
(* before the callback of the account is what changes hands.               *)
CloseOutFair ==
  [][FairLiquidation /\ FairQuote /\ SettledAsQuoted]_expiryVars

(* A trade through Expiry that repays the last of a debt clears its expiry,*)
(* so that it does not apply to the next debt; and it clears it only then. *)
ExpiryClearedWithDebt ==
  [][QuotedTrade /\ Top.call.wei # 0 =>
       LET paid == IF Repays THEN Top.call.wei ELSE quote.answer.value
           left == GetWei(ledger, Othr, OwedMarket, IndexOf(OwedMarket)) + paid
           new  == ledger'.par[Othr][OwedMarket]
       IN  /\ left = 0 => new = 0 /\ expiries'[Othr][OwedMarket] = 0
           /\ expiries'[Othr][OwedMarket] = 0 => new = 0]_expiryVars
=============================================================================
