------------------------ MODULE OperationProperties ------------------------
(***************************************************************************)
(* What operate promises, stated against the balances themselves and not   *)
(* against the summaries, caches and captured values the code works with.  *)
(***************************************************************************)
EXTENDS Operation

CONSTANTS
  OperationSlack,  (* tokens an operation may lose to rounding, per market *)
  AccrualSlack     (* tokens an index update may lose to rounding          *)

-----------------------------------------------------------------------------
(* The types.                                                              *)

StatusType == {"Normal", "Liquid", "Vapor"}

SnapshotType ==
  [ledger : LedgerType, status : [Accounts -> StatusType],
   index : [Markets -> IndexType], operators : SUBSET (Addresses \X Addresses),
   vault : [Markets -> Nat], price : [Markets -> Nat], locked : BOOLEAN]

MarketInfoType ==
  [isClosing : BOOLEAN, borrowPar : Nat, supplyPar : Nat, index : IndexType,
   price : Nat \ {0}]

(* A cache is a function from the cached markets, whichever they are.      *)
IsCache(cache) ==
  /\ DOMAIN cache \subseteq Markets
  /\ \A m \in DOMAIN cache : cache[m] \in MarketInfoType

IsFrame(f) ==
  /\ f \in [sender : Addresses, accounts : Seq(Accounts),
            actions : Seq(ActionArgs), pc : Nat \ {0}, primary : SUBSET Nat,
            counts : Seq(Nat), cache : {f.cache}, waiting : BOOLEAN,
            call : [par : Int, wei : Int, otherWei : Int, bounded : BOOLEAN],
            saved : SnapshotType, trusted : SUBSET (Addresses \X Addresses)]
  /\ IsCache(f.cache)

(* The type invariant of the state of DolomiteMargin and of the frames.    *)
TypeOK ==
  /\ ledger \in LedgerType
  /\ status \in [Accounts -> StatusType]
  /\ index \in [Markets -> IndexType]
  /\ operators \subseteq Addresses \X Addresses
  /\ isClosing \subseteq Markets
  /\ maxWei \in [Markets -> 0..Max128]
  /\ maxMarkets \in Nat
  /\ vault \in [Markets -> Nat]
  /\ price \in [Markets -> Nat]
  /\ now \in Nat
  /\ locked \in BOOLEAN
  /\ \A d \in DOMAIN frames : IsFrame(frames[d])

-----------------------------------------------------------------------------
(* The books.                                                              *)

(* At every step of every operation, also in the middle of one and after a *)
(* revert, numberOfMarketsWithDebt counts the negative balances of the     *)
(* account, and marketsWithNonZeroBalanceSet holds exactly the markets in  *)
(* which it has a balance: isCollateralized returns at once when the       *)
(* counter is zero, and the cache is built from the set.                   *)
SummariesConsistent == SummariesMatch(ledger)

(* Likewise the totals of every market, which interest, the supply cap,    *)
(* the closing check and the excess tokens are computed from, are the sums *)
(* over all accounts.                                                      *)
TotalsConsistent == TotalsMatch(ledger)

-----------------------------------------------------------------------------
(* Running operations.                                                     *)

(* Every market in which an account of a running operation has a balance   *)
(* is in the operation's cache, whatever the actions have done so far; the *)
(* final checks look at the cached markets only.                           *)
CacheCoversAccounts ==
  \A d \in DOMAIN frames : \A i \in DOMAIN frames[d].accounts :
    {m \in Markets : ledger.par[frames[d].accounts[i]][m] # 0}
      \subseteq DOMAIN frames[d].cache

(* What Buy, Sell and Trade computed from a balance before their external  *)
(* call is still what they would compute from it when the call returns,    *)
(* whatever ran in between.                                                *)
CapturedBy(f) ==
  LET act == f.actions[f.pc]
      m   == act.primaryMarket
      a   == f.accounts[IF act.type = "Trade" THEN act.other ELSE act.account]
  IN  GetNewParAndDeltaWei(ledger, a, m, f.cache[m].index, act.amount)

CapturedStillTrue ==
  \A d \in DOMAIN frames :
    LET f == frames[d]
    IN  f.waiting /\ f.actions[f.pc].type \in {"Buy", "Sell", "Trade"}
          => /\ f.call.par = CapturedBy(f).par
             /\ f.call.wei = CapturedBy(f).wei

(* An account flagged Vapor has only negative or zero balances between     *)
(* operations (the promise of Account.Status), so that clearing its debt   *)
(* with the excess tokens can never wipe out a supply.                     *)
VaporOwesOnly ==
  frames = <<>> =>
    \A a \in Accounts :
      status[a] = "Vapor" => \A m \in Markets : ledger.par[a][m] <= 0

(* Between operations only the token of a recyclable market holds a        *)
(* balance in it, so that the market can be removed and its id reused.     *)
RecyclableIsolated ==
  frames = <<>> =>
    \A a \in Accounts, m \in Recyclable :
      ledger.par[a][m] # 0 => Owner[a] = Token[m]

-----------------------------------------------------------------------------
(* What a committed operation has done. The index of a market does not     *)
(* change while an operation runs; its price is the cached one.            *)

FullCache(f) ==
  [m \in Markets |->
     [index |-> index[m],
      price |-> IF m \in DOMAIN f.cache THEN f.cache[m].price ELSE price[m]]]

TrulyCollateralized(L, a, f) ==
  LET borrowValue == BorrowValue(L, a, FullCache(f))
  IN  \/ \A m \in Markets : L.par[a][m] >= 0
      \/ SupplyValue(L, a, FullCache(f))
           >= borrowValue + DecimalMul(borrowValue, MarginRatio)

Trusts(f, a, who) ==
  who = Owner[a] \/ who \in GlobalOperators \/ <<Owner[a], who>> \in f.trusted

(* Why the balances of account a may differ once f commits.                *)
ActedFor(f, a) ==
  \E k \in DOMAIN f.actions :
    LET act == f.actions[k]
    IN  \/ f.accounts[act.account] = a
        \/ act.type = "Transfer" /\ f.accounts[act.other] = a

Secondary(f, a, type) ==
  \E k \in DOMAIN f.actions :
    f.actions[k].type = type /\ f.accounts[f.actions[k].other] = a

TradedBy(f, a) ==
  \E k \in DOMAIN f.actions :
    /\ f.actions[k].type = "Trade"
    /\ f.accounts[f.actions[k].other] = a
    /\ Trusts(f, a, f.actions[k].address)
    /\ f.actions[k].address \in SpecialTraders => f.sender \in GlobalOperators

LiquidatedBy(f, a) ==
  /\ Secondary(f, a, "Liquidate")
  /\ f.sender \in GlobalOperators
  /\ \/ f.saved.status[a] = "Liquid"
     \/ ~TrulyCollateralized(f.saved.ledger, a, f)

VaporizedBy(f, a) ==
  /\ Secondary(f, a, "Vaporize")
  /\ \A m \in Markets : f.saved.ledger.par[a][m] <= 0

MayChange(f, a) ==
  \/ ActedFor(f, a) /\ Trusts(f, a, f.sender)
  \/ TradedBy(f, a)
  \/ LiquidatedBy(f, a)
  \/ VaporizedBy(f, a)

AccountsCovered ==
  \A a \in Accounts :
    ActedFor(Top, a) \/ Secondary(Top, a, "Trade")
      => TrulyCollateralized(ledger, a, Top)

(* When an operation commits, every account it acted for or traded with,   *)
(* valued over all markets from its balances alone, meets the margin ratio *)
(* (not an account it liquidated or vaporized).                            *)
CommitsCollateralized == [][Commit => AccountsCovered]_vars

(* The balances of an account change only in an operation whose sender the *)
(* owner trusts (or trusted while it ran), in a trade through an operator  *)
(* of the owner, in a liquidation of an account that was undercollateral-  *)
(* ized or already being liquidated when the operation began, or in a      *)
(* vaporization of an account without any supply.                          *)
OnlyPermittedChanges ==
  [][Commit => \A a \in Accounts :
       ledger.par[a] # Top.saved.ledger.par[a] => MayChange(Top, a)]_vars

BorrowNotRaised(m) ==
  m \in isClosing => ledger.borrow[m] <= Top.saved.ledger.borrow[m]

SupplyNotRaisedPastCap(m) ==
  \/ maxWei[m] = 0
  \/ TotalSupplyWei(ledger, m, index[m]) <= maxWei[m]
  \/ TotalSupplyWei(ledger, m, index[m])
       <= TotalSupplyWei(Top.saved.ledger, m, index[m])

Holdings(L, a) == {m \in Markets : L.par[a][m] # 0}

HoldingsNotRaisedPastMax(a) ==
  \/ Cardinality(Holdings(ledger, a)) <= maxMarkets
  \/ Cardinality(Holdings(ledger, a)) <= Cardinality(Holdings(Top.saved.ledger, a))

(* A committed operation has not increased the borrow of a closing market, *)
(* nor taken the supply of a capped market above the cap or, if it already *)
(* was above, any further; markets outside its cache included. Nor has it  *)
(* left an account, also one it does not name, with balances in more       *)
(* markets than the maximum, unless it had as many when it began.          *)
LimitsRespected ==
  [][Commit =>
       /\ \A m \in Markets : BorrowNotRaised(m) /\ SupplyNotRaisedPastCap(m)
       /\ \A a \in Accounts : HoldingsNotRaisedPastMax(a)]_vars

(* No operation, whatever its actions, spends tokens the protocol owes to  *)
(* its suppliers: it takes from the excess tokens of a market at most what *)
(* was there when it began (only vaporizing takes any).                    *)
ExcessNotOverspent ==
  [][Commit => \A m \in Markets :
       LET before == NumExcessTokens(Top.saved.ledger, m, index[m],
                                     Top.saved.vault[m])
       IN  NumExcessTokens(ledger, m, index[m], vault[m])
             >= (IF before < 0 THEN before ELSE 0) - OperationSlack]_vars

-----------------------------------------------------------------------------
(* Liquidation.                                                            *)

(* A liquidator never takes more than the spread-adjusted value of what it *)
(* repays, by the amounts captured before the callback; and these amounts  *)
(* are what it pays and receives and what the liquidated account is        *)
(* credited and charged, but for the rounding of each balance.             *)
Gain(a, m) == GetWei(ledger', a, m, IndexOf(m)) - GetWei(ledger, a, m, IndexOf(m))

Moved(m, amount) ==
  /\ Gain(Acct, m) - amount \in -OperationSlack..OperationSlack
  /\ Gain(Othr, m) + amount \in -OperationSlack..OperationSlack

FairLiquidation ==
  LiquidateReturn =>
    LET owed  == Act.primaryMarket
        held  == Act.secondaryMarket
        paid  == Top.call.wei
        taken == -Top.call.otherWei
    IN  /\ taken * Top.cache[held].price <= paid * OwedPriceAdjusted(held, owed)
        /\ Moved(held, taken)
        /\ Moved(owed, -paid)

-----------------------------------------------------------------------------
(* Interest.                                                               *)

(* Entering an operation accrues interest so that no index ever falls and  *)
(* the suppliers of a market are never credited more than its borrowers    *)
(* are charged, up to the rounding of the totals.                          *)
AccrualCovered ==
  [][index' # index /\ Len(frames') > Len(frames) =>
       \A m \in Markets :
         /\ index[m].borrow <= index'[m].borrow
         /\ index[m].supply <= index'[m].supply
         /\ NumExcessTokens(ledger, m, index'[m], vault[m])
              >= NumExcessTokens(ledger, m, index[m], vault[m]) - AccrualSlack]_vars

-----------------------------------------------------------------------------
(* Every operation ends and releases the reentrancy guard: the protocol    *)
(* never stays locked against the next operation or the admin.             *)
GuardReleased == locked ~> (frames = <<>> /\ ~locked)
=============================================================================
