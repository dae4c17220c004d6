----------------------------- MODULE MCOperation -----------------------------
(***************************************************************************)
(* Small instances of Operation for TLC. Two accounts of two owners, two   *)
(* markets, and an exchange that is also an auto trader; each run has its  *)
(* own menu of operations.                                                 *)
(***************************************************************************)
EXTENDS OperationInvariant

MCAddresses == {"o1", "o2", "keeper", "trader", "self"}
MCMarkets   == {1, 2}
OwnerOf     == [A1 |-> "o1", A2 |-> "o2", K |-> "keeper"]
TwoAccounts == {"A1", "A2"}
TwoOwners   == [a \in TwoAccounts |-> OwnerOf[a]]
AllAccounts == {"A1", "A2", "K"}
AllOwners   == [a \in AllAccounts |-> OwnerOf[a]]
MCToken     == [m \in MCMarkets |-> IF m = 1 THEN "self" ELSE "o2"]
KeeperOnly  == {"keeper"}

PerMarket(one, two) == [m \in MCMarkets |-> IF m = 1 THEN one ELSE two]
None         == PerMarket(0, 0)
MCPremium    == PerMarket(0, 1)
FourTokens   == PerMarket(4, 4)
SteadyPrices == PerMarket({10}, {10})

Amount(d, r, v) == [denomination |-> d, ref |-> r, value |-> v]
Delta(v)     == Amount("Wei", "Delta", v)
Target(v)    == Amount("Wei", "Target", v)
ParDelta(v)  == Amount("Par", "Delta", v)
ParTarget(v) == Amount("Par", "Target", v)

Action(t, i, j, x, m, n, who) ==
  [type |-> t, account |-> i, other |-> j, amount |-> x,
   primaryMarket |-> m, secondaryMarket |-> n, address |-> who]

DepositOf(i, m, x, who)  == Action("Deposit", i, 0, x, m, m, who)
WithdrawOf(i, m, x, who) == Action("Withdraw", i, 0, x, m, m, who)
TransferOf(i, j, m, x)   == Action("Transfer", i, j, x, m, m, "self")
CallOf(i)                == Action("Call", i, 0, Delta(0), 1, 1, "trader")

Ask(who, list, menu) == [sender |-> who, accounts |-> list, actions |-> menu]

Singles(who, list, menu) == {Ask(who, list, <<x>>) : x \in menu}
Pairs(who, list, first, second) ==
  {Ask(who, list, <<x, y>>) : x \in first, y \in second}

-----------------------------------------------------------------------------
(* Deposits, withdrawals, borrows and transfers, and buys, sells, calls    *)
(* and trades that run external code; o1 is a contract that o2 comes to    *)
(* trust, or not, from one moment to the next, and an auto trader for its  *)
(* own account. Interest triples a debt in one time stamp, and the keeper, *)
(* with the account of o2, liquidates or vaporizes A1.                     *)

LendingGrants == {<<"o2", "o1">>}
TraderAnswers == {Delta(-1), Delta(1), Target(0)}

Exchanging(t, i, j, x) == Action(t, i, j, x, 1, 2, "trader")
TradeWithOne(i, j, x)  == Action("Trade", i, j, x, 1, 2, "o1")
LiquidateOf(i, j, owed, held, x) == Action("Liquidate", i, j, x, owed, held, "self")
VaporizeOf(i, j, owed, held, x)  == Action("Vaporize", i, j, x, owed, held, "self")

LendingRequests ==
  Singles("o1", <<"A1">>,
    {DepositOf(1, 1, Delta(2), "o1"), CallOf(1),
     Exchanging("Sell", 1, 0, Delta(-2)), Exchanging("Buy", 1, 0, Target(2))})
  \cup Pairs("o1", <<"A1">>, {WithdrawOf(1, 2, Delta(-2), "o1")},
                             {DepositOf(1, 1, ParDelta(2), "o1")})
  \cup Singles("o2", <<"A2">>,
    {DepositOf(1, 2, Delta(3), "o2"), WithdrawOf(1, 2, Target(0), "o2")})
  \cup Singles("o1", <<"A1", "A2">>,
    {TransferOf(1, 2, 1, Delta(-2)), TransferOf(2, 1, 2, Target(0))})
  \cup Pairs("o1", <<"A1", "A2">>, {CallOf(1)},
                                   {TradeWithOne(1, 2, Target(1))})
  \cup Singles("keeper", <<"A2", "A1">>,
    {LiquidateOf(1, 2, 2, 1, Target(0)), VaporizeOf(1, 2, 2, 1, Target(0))})

-----------------------------------------------------------------------------
(* Markets that close and reopen, supply caps that come and go below the   *)
(* supply, a recyclable market (2) whose token is o2's, and a third market *)
(* that fits beside the other two until the maximum is lowered; and calls  *)
(* of external code, so that operations wait in every way they can end     *)
(* from.                                                                   *)

RecyclableTwo == {2}
ThreeMarkets  == {1, 2, 3}
Each(x)       == [m \in ThreeMarkets |-> x]
NoneEach      == Each(0)
FourEach      == Each(4)
TenEach       == Each({10})
LimitTokens   == [m \in ThreeMarkets |-> IF m = 1 THEN "self" ELSE "o2"]

LimitRequests ==
  Pairs("o1", <<"A1">>, {DepositOf(1, 1, Delta(2), "o1"), CallOf(1)}, {CallOf(1)})
  \cup Singles("o1", <<"A1">>,
    {DepositOf(1, 1, Delta(2), "o1"), WithdrawOf(1, 1, Delta(-1), "o1"),
     DepositOf(1, 2, Delta(1), "o1"), WithdrawOf(1, 2, Delta(-2), "o1")})
  \cup Singles("o2", <<"A2">>,
    {DepositOf(1, 2, Delta(3), "o2"), WithdrawOf(1, 1, Delta(-1), "o2"),
     DepositOf(1, 1, Target(0), "o2"), DepositOf(1, 3, Delta(1), "o2"),
     WithdrawOf(1, 3, Target(0), "o2")})
  \cup Pairs("o2", <<"A2", "A1">>, {WithdrawOf(1, 1, Delta(-1), "o2")},
                                   {DepositOf(1, 1, Delta(1), "o2")})

=============================================================================
