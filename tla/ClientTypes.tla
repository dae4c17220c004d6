----------------------------- MODULE ClientTypes -----------------------------
(***************************************************************************)
(* The types of the TypeScript client (src/types.ts) that the other client *)
(* modules share. An enumeration whose numbers the code's conditions       *)
(* depend on (0 is false in JavaScript) keeps its numbers; the members of  *)
(* the others are their names.                                             *)
(***************************************************************************)
EXTENDS Integers, Sequences

CONSTANTS
  Owners,       (* addresses that own accounts, sign and send              *)
  Contracts     (* addresses of contracts: exchanges, traders, callees     *)

ConfirmationType == [Hash |-> 0, Confirmed |-> 1, Both |-> 2, Simulate |-> 3]
ProxyType        == [None |-> "None", Payable |-> "Payable", Signed |-> "Sender"]
ActionTypes ==
  {"Deposit", "Withdraw", "Transfer", "Buy", "Sell", "Trade",
   "Liquidate", "Vaporize", "Call"}

AmountDenomination == {"Wei", "Par"}
AmountReference    == {"Delta", "Target"}
SigningMethod ==
  {"Compatibility", "UnsafeHash", "Hash", "TypedData", "MetaMask",
   "MetaMaskLatest", "CoinbaseWallet"}

(* The market of a standard action that is no market of the protocol, and  *)
(* the one it stands for.                                                  *)
MarketId == [WETH |-> 0, ETH |-> -1]

(* The zero address; and an account without an owner, where an action has  *)
(* no second account.                                                      *)
ZERO        == "zero"
Addresses   == Owners \cup Contracts \cup {ZERO}
NullAccount == [owner |-> ZERO, number |-> 0]
AccountInfo == [owner : Addresses, number : Nat]

ASSUME ZeroAssumption == ZERO \notin Owners \cup Contracts

(* Whom an account can belong to.                                          *)
NamedAccount == [owner : Addresses \ {ZERO}, number : Nat]

(* A BigNumber keeps the sign of a zero: 0 times -1 is a negative zero,    *)
(* and isNegative() is true of it.                                         *)
Integer     == [neg : BOOLEAN, abs : Nat]
Int_(n)     == [neg |-> n < 0, abs |-> IF n < 0 THEN -n ELSE n]
Negated(x)  == [neg |-> ~x.neg, abs |-> x.abs]
ToInt(x)    == IF x.neg THEN -x.abs ELSE x.abs

Amount ==
  [value : Integer, denomination : AmountDenomination, reference : AmountReference]
AssetAmount ==
  [sign : BOOLEAN, denomination : AmountDenomination, ref : AmountReference,
   value : Nat]

(* The object { ...g, ...f }: what f says, and for the rest g.             *)
Over(f, g) ==
  [x \in (DOMAIN f) \cup (DOMAIN g) |-> IF x \in DOMAIN f THEN f[x] ELSE g[x]]

(* An action as the contracts take it, its accounts as positions (from 0)  *)
(* in the operation's list; and as it is signed, its accounts in full. The *)
(* bytes of "data" are any value.                                          *)
IsActionArgs(a) ==
  /\ a.actionType \in ActionTypes
  /\ {a.accountId, a.otherAccountId, a.primaryMarketId, a.secondaryMarketId} \subseteq Nat
  /\ a.amount \in AssetAmount
  /\ a.otherAddress \in Addresses

(* A batch: its list of accounts has no account twice, and its actions     *)
(* name places in it.                                                      *)
IsBatch(op) ==
  /\ \A i \in DOMAIN op.accounts : op.accounts[i] \in AccountInfo
  /\ \A i, j \in DOMAIN op.accounts : op.accounts[i] = op.accounts[j] => i = j
  /\ \A i \in DOMAIN op.actions :
       /\ IsActionArgs(op.actions[i])
       /\ {op.actions[i].accountId, op.actions[i].otherAccountId}
            \subseteq 0..(Len(op.accounts) - 1)

IsAction(a) ==
  /\ a.actionType \in ActionTypes
  /\ {a.primaryAccount, a.secondaryAccount} \subseteq AccountInfo
  /\ {a.primaryMarketId, a.secondaryMarketId} \subseteq Nat
  /\ a.amount \in AssetAmount
  /\ a.otherAddress \in Addresses

OperationHeader ==
  [expiration : Nat, salt : Nat, sender : Addresses, signer : Addresses]
=============================================================================
