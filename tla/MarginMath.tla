----------------------------- MODULE MarginMath -----------------------------
(***************************************************************************)
(* The arithmetic of DolomiteMargin: fixed-point decimals, and the         *)
(* conversion between principal ("par") and token amounts ("wei") at an    *)
(* interest index.                                                         *)
(*                                                                         *)
(* Types.Par and Types.Wei are sign-and-magnitude records whose two zeros  *)
(* the code treats alike (Types.equals); here they are signed integers.    *)
(* SafeMath and the to128/to96 casts revert instead of wrapping, so        *)
(* integers need no modulus: the width is a guard of the operations that   *)
(* cast (Fits128, Fits96).                                                 *)
(***************************************************************************)
EXTENDS Partials

CONSTANTS
  Base,    (* the fixed-point unit of Decimal and Interest, 10^18 on chain *)
  Max128,  (* the largest uint128, 2^128 - 1 on chain                      *)
  Max96    (* the largest uint96, 2^96 - 1 on chain                        *)

ASSUME WidthAssumption ==
  /\ Base \in Nat \ {0}
  /\ Max128 \in Nat
  /\ Max96 \in Nat

-----------------------------------------------------------------------------
Magnitude(x) == IF x < 0 THEN -x ELSE x

(* Mutant: the cast to uint128 is not checked.                             *)
MutantFits128(x) == TRUE

Fits128(x) == Magnitude(x) <= Max128
Fits96(x)  == x <= Max96

OnePlus(d)         == d + Base
DecimalMul(x, d)   == GetPartial(x, d, Base)
DecimalDiv(x, d)   == GetPartial(x, Base, d)

-----------------------------------------------------------------------------
(* An index is a record [borrow, supply, lastUpdate]. Negative balances    *)
(* grow with the borrow index and the others with the supply index.        *)

ParToWei(par, index) ==
  IF par >= 0
  THEN GetPartialRoundHalfUp(par, index.supply, Base)
  ELSE -GetPartialRoundHalfUp(-par, index.borrow, Base)

WeiToPar(wei, index) ==
  IF wei >= 0
  THEN GetPartialRoundHalfUp(wei, Base, index.supply)
  ELSE -GetPartialRoundHalfUp(-wei, Base, index.borrow)

NewIndex(time) == [borrow |-> Base, supply |-> Base, lastUpdate |-> time]

(* The interest a borrower pays per unit since the last update, and the    *)
(* part of it that a supplier earns per unit.                              *)
BorrowInterest(index, rate, time) == rate * (time - index.lastUpdate)

(* Mutant: what the borrowers pay is not shared among all suppliers.       *)
MutantSupplyInterest(interest, supplyWei, borrowWei, earningsRate) ==
  IF supplyWei = 0 THEN 0 ELSE DecimalMul(interest, earningsRate)

SupplyInterest(interest, supplyWei, borrowWei, earningsRate) ==
  LET earned == DecimalMul(interest, earningsRate)
  IN  IF supplyWei = 0 THEN 0
      ELSE IF borrowWei < supplyWei
           THEN GetPartial(earned, borrowWei, supplyWei)
           ELSE earned

CalculateNewIndex(index, rate, supplyWei, borrowWei, earningsRate, time) ==
  LET owed   == BorrowInterest(index, rate, time)
      earned == SupplyInterest(owed, supplyWei, borrowWei, earningsRate)
  IN  [borrow     |-> index.borrow + GetPartial(index.borrow, owed, Base),
       supply     |-> index.supply + GetPartial(index.supply, earned, Base),
       lastUpdate |-> time]
=============================================================================
