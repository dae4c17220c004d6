-------------------------- MODULE MCContractCalls --------------------------
(***************************************************************************)
(* Two calls, of one operation or of two, of every type of confirmation;   *)
(* the operation may grow while they wait. Ether that an owner deposits    *)
(* and withdraws, and plans at, in and after the time over which the       *)
(* spread of an expired debt grows.                                        *)
(***************************************************************************)
EXTENDS ContractCallsInvariant

Acc(o, n) == [owner |-> o, number |-> n]
Of(v)     == [value |-> Int_(v), denomination |-> "Wei", reference |-> "Delta"]
NoOrders  == <<>>

Deposit(o) == [method |-> "deposit", primary |-> Acc(o, 0), marketId |-> 1, from |-> o,
               amount |-> Of(2)]

(* An account that owes 20 in market 2, 16 at its index, and holds         *)
(* something in markets 0 and 1. The spread is a half, of which the price  *)
(* of 20, or of 32 with the premium of market 0, is a rounded figure.      *)
Plan(age, held0, held1, preferences) ==
  [method |-> "fullyLiquidateExpiredAccount", primary |-> Acc("alice", 0),
   expiredAccount |-> Acc("bob", 0), expiredMarket |-> 2,
   expiryTimestamp |-> 1, blockTimestamp |-> 1 + age,
   weis |-> [m \in 0..2 |-> <<held0, held1, -20>>[m + 1]],
   prices |-> [m \in 0..2 |-> <<5, 1, 20>>[m + 1]],
   spreadPremiums |-> [m \in 0..2 |-> <<5, 60, 0>>[m + 1]],
   indexes |-> [m \in 0..2 |-> <<20, 20, 25>>[m + 1]],
   collateralPreferences |-> preferences]

MCItems == {Deposit("alice")}

(* Late: a collateral that repays 1, 11 or all of the debt, then another   *)
(* that repays 2, or all; 129 of it are a tie for the client, for Expiry   *)
(* one unit too much.                                                      *)
MCPlans ==
  {Plan(3, held0, held1, <<1, 0>>) : held0 \in {12, 300}, held1 \in {0, 60, 660}}
  \cup {Plan(3, 129, 0, <<1, 0>>)}
  \cup {Plan(age, 0, held1, <<1>>) : age \in {0, 1, 2, 4}, held1 \in {361, 1800}}

Options(type, confirmations, gas) ==
  [NoOptions EXCEPT !.given = TRUE, !.confirmationType = type,
                    !.confirmations = confirmations, !.gas = gas]
MCCallOptions ==
  {NoOptions, Options(ConfirmationType.Hash, 0, 0), Options(ConfirmationType.Both, 1, 5),
   Options(ConfirmationType.Simulate, 0, 0)}
MCPairOptions == {Options(Undefined, 1, 0)}

Ether(method, options) ==
  [method |-> method, owner |-> "bob", marketId |-> MarketId.ETH, amount |-> 1,
   options |-> options]
MCStandards == {Ether("deposit", Options(Undefined, 0, 0)), Ether("withdraw", NoOptions)}

MCGasLimit     == <<5, 3>>
MCPayableProxy == <<"payable1", "payable2">>
=============================================================================
