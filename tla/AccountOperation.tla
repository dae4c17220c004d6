-------------------------- MODULE AccountOperation --------------------------
(***************************************************************************)
(* The builder of operations (modules/operate/AccountOperation.ts), as     *)
(* operators from an operation to an operation. A method that throws       *)
(* leaves what it had already changed; what it throws is told by the       *)
(* operators named Throws. The item a builder method takes is a record     *)
(* with the method's name in "method" and the fields of its interface in   *)
(* types.ts.                                                               *)
(***************************************************************************)
EXTENDS ClientTypes, SequencesExt, FiniteSetsExt

CONSTANTS
  Mapped,         (* the orders a mapper of orders maps, and to what: none *)
                  (* by the mapper of this repository                      *)
  Expiry,         (* the address of the Expiry contract                    *)
  Spread,         (* expiry-constants.json, in units of PremiumBase        *)
  ExpiryRampTime,
  PremiumBase,    (* the unit of spreads, premiums and interest indexes    *)
  Places          (* 10 to the DECIMAL_PLACES to which bignumber.js divides *)

ASSUME BuilderAssumption ==
  /\ Expiry \in Contracts
  /\ \A order \in DOMAIN Mapped : Mapped[order].exchangeWrapperAddress \in Contracts

(* 2**32-1, later than any expiry: kept as a value of its own, for it is   *)
(* only passed on.                                                         *)
ONES_31 == "2**32-1"

(* What the builder's methods take, after the interfaces of types.ts.      *)
IsItem(x) ==
  /\ x.primary \in NamedAccount
  /\ \/ /\ x.method = "deposit"
        /\ x.amount \in Amount /\ x.from \in Addresses /\ x.marketId \in Nat
     \/ /\ x.method = "withdraw"
        /\ x.amount \in Amount /\ x.to \in Addresses /\ x.marketId \in Nat
     \/ /\ x.method = "transfer"
        /\ x.amount \in Amount /\ x.toAccount \in NamedAccount /\ x.marketId \in Nat
     \/ /\ x.method \in {"buy", "sell"}
        /\ x.amount \in Amount /\ {x.takerMarketId, x.makerMarketId} \subseteq Nat
     \/ /\ x.method = "trade"
        /\ x.amount \in Amount /\ {x.inputMarketId, x.outputMarketId} \subseteq Nat
        /\ x.otherAccount \in NamedAccount /\ x.autoTrader \in Addresses
     \/ /\ x.method \in {"liquidate", "liquidateExpiredAccount"}
        /\ x.amount \in Amount /\ {x.liquidMarketId, x.payoutMarketId} \subseteq Nat
        /\ x.liquidAccount \in NamedAccount
     \/ /\ x.method = "vaporize"
        /\ x.amount \in Amount /\ {x.vaporMarketId, x.payoutMarketId} \subseteq Nat
        /\ x.vaporAccount \in NamedAccount
     \/ x.method = "call" /\ x.callee \in Addresses
     \/ x.method \in {"setApprovalForExpiry", "setExpiry"}
     \/ /\ x.method = "fullyLiquidateExpiredAccount"
        /\ x.expiredMarket \in Nat /\ x.collateralPreferences \in Seq(Nat)
        /\ x.expiredAccount \in NamedAccount

Initiate(proxy, sendEthTo) ==
  [accounts |-> <<>>, actions |-> <<>>, auths |-> <<>>, committed |-> FALSE,
   proxy |-> proxy, sendEthTo |-> sendEthTo]

-----------------------------------------------------------------------------
(* Accounts and actions *)

(* getAccountId: the account's position, after appending it if it is new.  *)
WithAccount(op, account) ==
  IF account \in ToSet(op.accounts) THEN op
  ELSE [op EXCEPT !.accounts = Append(@, account)]
AccountId(op, account) ==
  Min({i \in DOMAIN op.accounts : op.accounts[i] = account}) - 1

NoAmount == [sign |-> FALSE, denomination |-> "Wei", ref |-> "Delta", value |-> 0]
NoArgs ==
  [primaryMarketId |-> 0, secondaryMarketId |-> 0, otherAddress |-> ZERO,
   otherAccountId |-> 0, data |-> <<>>, amount |-> NoAmount]

AmountArgs(amount) ==
  [sign |-> ~amount.value.neg, denomination |-> amount.denomination,
   ref |-> amount.reference, value |-> amount.value.abs]

AddActionArgs(op, primary, type, args) ==
  IF op.committed THEN op
  ELSE LET o == WithAccount(op, primary)
           action == [actionType |-> type, accountId |-> AccountId(o, primary)]
       IN  [o EXCEPT !.actions = Append(@, Over(action, Over(args, NoArgs)))]

(* An action with a second account: JavaScript evaluates the arguments of  *)
(* addActionArgs before it is called, so the second account is in the list *)
(* before the first, and is there even if addActionArgs throws.            *)
AddWithOther(op, primary, other, type, args) ==
  LET o == WithAccount(op, other)
  IN  AddActionArgs(o, primary, type,
                    Over([otherAccountId |-> AccountId(o, other)], args))

-----------------------------------------------------------------------------
(* The methods that add one action *)

deposit(op, x) ==
  AddActionArgs(op, x.primary, "Deposit",
    [amount |-> AmountArgs(x.amount), otherAddress |-> x.from,
     primaryMarketId |-> x.marketId])

withdraw(op, x) ==
  AddActionArgs(op, x.primary, "Withdraw",
    [amount |-> AmountArgs(x.amount), otherAddress |-> x.to,
     primaryMarketId |-> x.marketId])

transfer(op, x) ==
  AddWithOther(op, x.primary, x.toAccount, "Transfer",
    [amount |-> AmountArgs(x.amount), primaryMarketId |-> x.marketId])

(* mapOrder throws before anything is added.                               *)
Exchange(op, x, type, primaryMarket, secondaryMarket) ==
  IF x.order \notin DOMAIN Mapped THEN op
  ELSE AddActionArgs(op, x.primary, type,
         [amount |-> AmountArgs(x.amount),
          otherAddress |-> Mapped[x.order].exchangeWrapperAddress,
          data |-> Mapped[x.order].bytes,
          primaryMarketId |-> primaryMarket, secondaryMarketId |-> secondaryMarket])
buy(op, x)  == Exchange(op, x, "Buy", x.makerMarketId, x.takerMarketId)
sell(op, x) == Exchange(op, x, "Sell", x.takerMarketId, x.makerMarketId)

trade(op, x) ==
  AddWithOther(op, x.primary, x.otherAccount, "Trade",
    [amount |-> AmountArgs(x.amount), otherAddress |-> x.autoTrader, data |-> x.data,
     primaryMarketId |-> x.inputMarketId, secondaryMarketId |-> x.outputMarketId])

liquidate(op, x) ==
  AddWithOther(op, x.primary, x.liquidAccount, "Liquidate",
    [amount |-> AmountArgs(x.amount), primaryMarketId |-> x.liquidMarketId,
     secondaryMarketId |-> x.payoutMarketId])

vaporize(op, x) ==
  AddWithOther(op, x.primary, x.vaporAccount, "Vaporize",
    [amount |-> AmountArgs(x.amount), primaryMarketId |-> x.vaporMarketId,
     secondaryMarketId |-> x.payoutMarketId])

call(op, x) ==
  AddActionArgs(op, x.primary, "Call",
    [otherAddress |-> x.callee, data |-> x.data])

setApprovalForExpiry(op, x) ==
  AddActionArgs(op, x.primary, "Call",
    [otherAddress |-> Expiry, data |-> <<"SetApproval", x.sender, x.minTimeDelta>>])

setExpiry(op, x) ==
  AddActionArgs(op, x.primary, "Call",
    [otherAddress |-> Expiry, data |-> <<"SetExpiry", x.expiryArgs>>])

liquidateExpiredAccount(op, x) ==
  AddWithOther(op, x.primary, x.liquidAccount, "Trade",
    [amount |-> AmountArgs(x.amount), otherAddress |-> Expiry,
     primaryMarketId |-> x.liquidMarketId, secondaryMarketId |-> x.payoutMarketId,
     data |-> <<x.liquidMarketId, IF x.maxExpiry = 0 THEN ONES_31 ELSE x.maxExpiry>>])

-----------------------------------------------------------------------------
(* fullyLiquidateExpiredAccount: trades against the collaterals in the     *)
(* order preferred, until the debt is expected to be repaid. Values are    *)
(* fractions: what is left of the debt is owed.num / owed.den of what      *)
(* there was.                                                              *)

Frac(n, d) == [num |-> n, den |-> d]

(* div of bignumber.js, the only operation of the method that rounds.      *)
Quotient(n, d) == Frac((2 * n * Places + d) \div (2 * d), Places)

(* min((block - expiry) / ramp time, 1), and the price of one unit of debt *)
(* in units of the held market's value.                                    *)
RampAdjustment(x) ==
  LET late == x.blockTimestamp - x.expiryTimestamp
  IN  IF late < ExpiryRampTime THEN Quotient(late, ExpiryRampTime) ELSE Frac(1, 1)

(* Mutant: the premium of the collateral is not applied.                   *)
MutantSpreadFor(x, held) ==
  Frac(Spread * (PremiumBase + x.spreadPremiums[x.expiredMarket])
         + PremiumBase * PremiumBase,
       PremiumBase * PremiumBase)

SpreadFor(x, held) ==
  Frac(Spread * (PremiumBase + x.spreadPremiums[held])
         * (PremiumBase + x.spreadPremiums[x.expiredMarket])
         + PremiumBase * PremiumBase * PremiumBase,
       PremiumBase * PremiumBase * PremiumBase)

HeldValue(x, held) == x.weis[held] * x.prices[held]

(* The value of the whole debt against one collateral, times its           *)
(* denominator.                                                            *)
DebtPrice(x, held) ==
  LET ramp == RampAdjustment(x)   spread == SpreadFor(x, held)
  IN  Frac(-x.weis[x.expiredMarket] * x.prices[x.expiredMarket] * ramp.num * spread.num,
           ramp.den * spread.den)

(* heldValue > owedValue, when owed of the debt is left.                   *)
DebtBound(x, held, owed) ==
  HeldValue(x, held) * DebtPrice(x, held).den * owed.den
    > DebtPrice(x, held).num * owed.num

(* owedValue minus heldValue, over owedValue, of owed.                     *)
OwedAfter(x, held, owed) ==
  IF DebtBound(x, held, owed) THEN Frac(0, 1)
  ELSE LET value == DebtPrice(x, held).num * owed.num
           left  == Quotient(value - HeldValue(x, held) * DebtPrice(x, held).den * owed.den,
                             value)
       IN  Frac(left.num * owed.num, left.den * owed.den)

ExpiredTrade(op, x, primaryMarket, secondaryMarket) ==
  AddWithOther(op, x.primary, x.expiredAccount, "Trade",
    [amount |-> [sign |-> TRUE, denomination |-> "Par", ref |-> "Target", value |-> 0],
     otherAddress |-> Expiry, data |-> <<x.expiredMarket, x.expiryTimestamp>>,
     primaryMarketId |-> primaryMarket, secondaryMarketId |-> secondaryMarket])

(* One turn of the loop; a turn after the debt is gone does nothing.       *)
TradeHeld(x, state, held) ==
  IF state.owed.num = 0 \/ x.weis[held] <= 0 THEN state
  ELSE [op |-> IF DebtBound(x, held, state.owed)
               THEN ExpiredTrade(state.op, x, x.expiredMarket, held)
               ELSE ExpiredTrade(state.op, x, held, x.expiredMarket),
        owed |-> OwedAfter(x, held, state.owed)]

fullyLiquidateExpiredAccount(op, x) ==
  IF x.weis[x.expiredMarket] >= 0 \/ x.blockTimestamp < x.expiryTimestamp
  THEN op
  ELSE FoldLeft(LAMBDA state, held : TradeHeld(x, state, held),
                [op |-> op, owed |-> Frac(1, 1)], x.collateralPreferences).op

Build(op, x) ==
  CASE x.method = "deposit"                      -> deposit(op, x)
    [] x.method = "withdraw"                     -> withdraw(op, x)
    [] x.method = "transfer"                     -> transfer(op, x)
    [] x.method = "buy"                          -> buy(op, x)
    [] x.method = "sell"                         -> sell(op, x)
    [] x.method = "trade"                        -> trade(op, x)
    [] x.method = "liquidate"                    -> liquidate(op, x)
    [] x.method = "vaporize"                     -> vaporize(op, x)
    [] x.method = "call"                         -> call(op, x)
    [] x.method = "setApprovalForExpiry"         -> setApprovalForExpiry(op, x)
    [] x.method = "setExpiry"                    -> setExpiry(op, x)
    [] x.method = "liquidateExpiredAccount"      -> liquidateExpiredAccount(op, x)
    [] x.method = "fullyLiquidateExpiredAccount" -> fullyLiquidateExpiredAccount(op, x)

-----------------------------------------------------------------------------
(* Signed operations *)

(* createSignableOperation: the actions with their accounts in full, and   *)
(* the header, whose signer is by default the owner of the first account.  *)
HasOther(type) == type \in {"Transfer", "Trade", "Liquidate", "Vaporize"}

ActionArgsToAction(op, a) ==
  [actionType |-> a.actionType, amount |-> a.amount, data |-> a.data,
   otherAddress |-> a.otherAddress,
   primaryAccount |-> op.accounts[a.accountId + 1],
   secondaryAccount |-> IF HasOther(a.actionType)
                        THEN op.accounts[a.otherAccountId + 1] ELSE NullAccount,
   primaryMarketId |-> a.primaryMarketId, secondaryMarketId |-> a.secondaryMarketId]

MaySign(op) == op.auths = <<>> /\ op.actions # <<>>

createSignableOperation(op, header) ==
  [actions |-> [i \in DOMAIN op.actions |-> ActionArgsToAction(op, op.actions[i])],
   header  |-> [header EXCEPT !.signer = IF @ = ZERO THEN op.accounts[1].owner ELSE @]]

(* addSignedOperation: the authorization with the place of its actions,    *)
(* then the actions, each with its sign multiplied back into its value.    *)

AmountOfAction(a) ==
  [value |-> LET v == Int_(a.amount.value)
             IN  IF a.amount.sign THEN v ELSE Negated(v),
   denomination |-> a.amount.denomination, reference |-> a.amount.ref]

AddAction(op, a) ==
  LET none == a.secondaryAccount.owner = ZERO
      o    == IF none THEN op ELSE WithAccount(op, a.secondaryAccount)
  IN  AddActionArgs(o, a.primaryAccount, a.actionType,
        [amount |-> AmountArgs(AmountOfAction(a)), data |-> a.data,
         otherAddress |-> a.otherAddress,
         otherAccountId |-> IF none THEN 0 ELSE AccountId(o, a.secondaryAccount),
         primaryMarketId |-> a.primaryMarketId, secondaryMarketId |-> a.secondaryMarketId])

MayAddSigned(op) == op.proxy = ProxyType.Signed

addSignedOperation(op, signed) ==
  LET auth  == [startIndex |-> Len(op.actions), numActions |-> Len(signed.actions),
                header |-> signed.header, signature |-> signed.signature]
      start == [op EXCEPT !.auths = Append(@, auth)]
  IN  IF op.committed
      THEN IF signed.actions[1].secondaryAccount.owner = ZERO THEN start
           ELSE WithAccount(start, signed.actions[1].secondaryAccount)
      ELSE FoldLeft(AddAction, start, signed.actions)

(* generateAuthData: the authorizations in order, with an empty one for    *)
(* every stretch of actions between them that has none.                    *)
NoHeader == [expiration |-> 0, salt |-> 0, sender |-> ZERO, signer |-> ZERO]
EmptyAuth(n) ==
  IF n <= 0 THEN <<>>
  ELSE <<[numActions |-> n, header |-> NoHeader, signature |-> <<>>]>>

(* Mutant: no authorization for actions before the first signed operation. *)
MutantGenerateAuthData(op) ==
  LET End(i) == IF i = 0 THEN 0 ELSE op.auths[i].startIndex + op.auths[i].numActions
      Auth(i) == <<[numActions |-> op.auths[i].numActions, header |-> op.auths[i].header,
                    signature |-> op.auths[i].signature]>>
      n == Len(op.auths)
  IN  FlattenSeq([i \in 1..n |-> Auth(i)]) \o EmptyAuth(Len(op.actions) - End(n))

GenerateAuthData(op) ==
  LET End(i) == IF i = 0 THEN 0 ELSE op.auths[i].startIndex + op.auths[i].numActions
      Auth(i) == EmptyAuth(op.auths[i].startIndex - End(i - 1))
                   \o <<[numActions |-> op.auths[i].numActions, header |-> op.auths[i].header,
                         signature |-> op.auths[i].signature]>>
      n == Len(op.auths)
  IN  FlattenSeq([i \in 1..n |-> Auth(i)]) \o EmptyAuth(Len(op.actions) - End(n))

-----------------------------------------------------------------------------
(* What the builder keeps of every operation: its fields, accounts that    *)
(* are somebody's, and a batch.                                            *)

IsSeq(s) == s \in Seq(ToSet(s))

IsOperation(op) ==
  op = [accounts |-> op.accounts, actions |-> op.actions, auths |-> op.auths,
        committed |-> op.committed, proxy |-> op.proxy, sendEthTo |-> op.sendEthTo]

Built(op) ==
  /\ op.accounts \in Seq(NamedAccount)
  /\ IsSeq(op.actions)
  /\ IsBatch(op)
=============================================================================
