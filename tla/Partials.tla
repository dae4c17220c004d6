------------------------------ MODULE Partials ------------------------------
(***************************************************************************)
(* Rounded fractions of an amount (protocol/lib/DolomiteMarginMath.sol).   *)
(***************************************************************************)
EXTENDS Integers

GetPartial(target, numerator, denominator) ==
  (target * numerator) \div denominator

GetPartialRoundUp(target, numerator, denominator) ==
  IF target = 0 \/ numerator = 0
  THEN 0
  ELSE (target * numerator - 1) \div denominator + 1

(* A remainder of at least half the denominator, itself rounded up, rounds *)
(* the quotient up.                                                        *)
GetPartialRoundHalfUp(target, numerator, denominator) ==
  LET product == target * numerator
      half    == (denominator - 1) \div 2 + 1
  IN  product \div denominator
        + (IF product % denominator >= half THEN 1 ELSE 0)
=============================================================================
