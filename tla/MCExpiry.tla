------------------------------ MODULE MCExpiry ------------------------------
(***************************************************************************)
(* A small instance of Expiry for TLC: A1 borrows market 2 against market  *)
(* 1 from A2, and it or the keeper, once o1 approves it, sets or lifts the *)
(* debt's expiry; the price of market 2 moves and interest accrues; the    *)
(* keeper liquidates A1, closes out its debt through Expiry, by naming     *)
(* what is repaid or what is sold, and vaporizes what is left; or A1       *)
(* repays by itself.                                                       *)
(***************************************************************************)
EXTENDS MCOperation, Expiry

DueAddresses == {"o1", "o2", "keeper", "expiry", "self"}
DueOperators == {"keeper", "expiry"}
ExpiryOnly   == {"expiry"}

CrashPrices == PerMarket({10}, {10, 19})
DueTokens   == PerMarket(5, 3)
OneExcess   == PerMarket(1, 0)

SetA1(delta, force) ==
  [account |-> "A1", marketId |-> 2, timeDelta |-> delta, forceUpdate |-> force]
DueCalls     == {<<SetA1(1, FALSE)>>, <<SetA1(0, FALSE), SetA1(2, TRUE)>>}
KeeperByOne  == {<<"o1", "keeper", 1>>}
WeiAnswers   == {Delta(v) : v \in -30..30} \cup {NoAmount}

CallExpiry == Action("Call", 1, 0, Delta(0), 1, 1, "expiry")
CloseOut(input, output, x)       == Action("Trade", 1, 2, x, input, output, "expiry")

DueRequests ==
  {Ask("o1", <<"A1">>, <<DepositOf(1, 1, Delta(4), "o1"),
                         WithdrawOf(1, 2, Delta(-3), "o1"), CallExpiry>>)}
  \cup Pairs("o1", <<"A1">>, {DepositOf(1, 2, Target(0), "o1")},
                             {DepositOf(1, 1, Delta(1), "o1")})
  \cup Singles("o2", <<"A2">>, {DepositOf(1, 2, Delta(3), "o2")})
  \cup Singles("keeper", <<"K">>, {CallExpiry})
  \cup Singles("keeper", <<"K", "A1">>, {VaporizeOf(1, 2, 2, 1, Target(0))})
  \cup Pairs("keeper", <<"K", "A1">>, {DepositOf(1, 2, Delta(2), "keeper")},
         {LiquidateOf(1, 2, 2, 1, Delta(2)),
          CloseOut(2, 1, Target(0)), CloseOut(2, 1, Delta(1)),
          CloseOut(1, 2, Target(0))})
=============================================================================
