------------------------------- MODULE Actions -------------------------------
(***************************************************************************)
(* The actions of an operation (lib/Actions.sol) and what can be told from *)
(* them before any is run: which accounts they name, in which role, and    *)
(* which markets they touch.                                               *)
(*                                                                         *)
(* An action is the record ActionArgs of the code: "account" and "other"   *)
(* are positions in the operation's list of accounts, "primaryMarket" and  *)
(* "secondaryMarket" the two market ids, "address" is otherAddress (the    *)
(* deposit source, the withdrawal recipient, the exchange wrapper, the     *)
(* auto trader or the callee, according to the type).                      *)
(***************************************************************************)
EXTENDS Integers, Sequences

CONSTANTS
  Addresses,    (* the Ethereum addresses that occur                       *)
  Accounts,     (* the (owner, number) pairs                               *)
  Markets       (* the market ids                                          *)

ActionTypes ==
  {"Deposit", "Withdraw", "Transfer", "Buy", "Sell", "Trade",
   "Liquidate", "Vaporize", "Call"}

AssetAmount ==
  [denomination : {"Wei", "Par"}, ref : {"Delta", "Target"}, value : Int]

ActionArgs ==
  [type : ActionTypes, account : Nat, other : Nat, amount : AssetAmount,
   primaryMarket : Markets, secondaryMarket : Markets, address : Addresses]

Request ==
  [sender : Addresses, accounts : Seq(Accounts), actions : Seq(ActionArgs)]

-----------------------------------------------------------------------------
(* getAccountLayout and getMarketLayout.                                   *)
TwoPrimary(act)          == act.type \in {"Transfer", "Trade"}
PrimaryAndSecondary(act) == act.type \in {"Liquidate", "Vaporize"}
OnePrimary(act)          == ~TwoPrimary(act) /\ ~PrimaryAndSecondary(act)

OneMarket(act)   == act.type \in {"Deposit", "Withdraw", "Transfer"}
ZeroMarkets(act) == act.type = "Call"
TwoMarkets(act)  == ~OneMarket(act) /\ ~ZeroMarkets(act)

MarketsOf(act) ==
  IF ZeroMarkets(act) THEN {}
  ELSE IF OneMarket(act) THEN {act.primaryMarket}
  ELSE {act.primaryMarket, act.secondaryMarket}

(* Mutant: only the first account of a transfer or trade becomes primary.  *)
MutantPrimaryAfter(actions, k) == {actions[j].account : j \in 1..k}

(* The accounts marked as primary by the first k actions.                  *)
PrimaryAfter(actions, k) ==
  {actions[j].account : j \in 1..k}
    \cup {actions[j].other : j \in {i \in 1..k : TwoPrimary(actions[i])}}

(* An account that is liquidated or vaporized must not be primary by an    *)
(* earlier action. (A later one may still make it primary.)                *)
SecondaryNotPrimary(actions, k) ==
  PrimaryAndSecondary(actions[k])
    => actions[k].other \notin PrimaryAfter(actions, k - 1)

(* The checks on one action of the preprocessing loop, the out-of-range    *)
(* positions included, at which the array access reverts.                  *)
ActionAccepted(actions, k, n) ==
  LET act == actions[k]
  IN  /\ act.account \in 1..n
      /\ OnePrimary(act) \/ (act.other \in 1..n /\ act.other # act.account)
      /\ SecondaryNotPrimary(actions, k)
      /\ TwoMarkets(act) => act.primaryMarket # act.secondaryMarket

NoDuplicates(list) ==
  \A i, j \in DOMAIN list : list[i] = list[j] => i = j

RequestAccepted(request) ==
  /\ request.accounts # <<>>
  /\ request.actions # <<>>
  /\ NoDuplicates(request.accounts)
  /\ \A k \in DOMAIN request.actions :
       ActionAccepted(request.actions, k, Len(request.accounts))

ActionMarkets(actions) == UNION {MarketsOf(actions[k]) : k \in DOMAIN actions}
=============================================================================
