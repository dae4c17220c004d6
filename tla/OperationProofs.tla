--------------------------- MODULE OperationProofs ---------------------------
(***************************************************************************)
(* Proofs about Operation, for any number of accounts and markets and any  *)
(* menu of operations: Inductive is an invariant, and from it follow the   *)
(* type invariant and the safety properties named in the theorems of the   *)
(* first part. First come the lemmas about the operators of MarginMath and *)
(* Ledger: they return integers of the right sign, and whatever sequence   *)
(* of SetPar and SetParFromDeltaWei an action is made of keeps a ledger    *)
(* sound.                                                                  *)
(*                                                                         *)
(* The second part is about whom an operation may touch: Authorized is an  *)
(* invariant beside Inductive. The third composes DolomiteMargin with      *)
(* Expiry, which implements Operation: the storage of Expiry, its          *)
(* approvals and its callbacks add no behaviour, so what is proved of      *)
(* every operation holds beside Expiry too. The last is about the sets     *)
(* Ledger takes for granted: the array and the map of EnumerableSet        *)
(* implement one.                                                          *)
(***************************************************************************)
EXTENDS ExpiryInvariant, EnumerableSet, SumFacts

USE WidthAssumption, LedgerAssumption

-----------------------------------------------------------------------------
(* Arithmetic.                                                             *)

(* A product of non-negative integers is one, and so is their quotient by  *)
(* a positive integer.                                                     *)
LEMMA ProductType ==
  ASSUME NEW x \in Nat, NEW y \in Nat
  PROVE  x * y \in Nat
OBVIOUS

(* div by a positive integer stays in Nat.                                 *)
LEMMA QuotientType ==
  ASSUME NEW x \in Nat, NEW y \in Nat \ {0}
  PROVE  x \div y \in Nat
OBVIOUS

(* getPartial and its two other roundings return non-negative integers     *)
(* when the fraction is positive.                                          *)
LEMMA PartialType ==
  ASSUME NEW x \in Nat, NEW n \in Nat, NEW d \in Nat \ {0}
  PROVE  /\ GetPartial(x, n, d) \in Nat
         /\ GetPartialRoundUp(x, n, d) \in Nat
         /\ GetPartialRoundHalfUp(x, n, d) \in Nat
<1>1. x * n \in Nat
  BY ProductType
<1>2. GetPartial(x, n, d) \in Nat
  BY <1>1, QuotientType DEF GetPartial
<1>3. GetPartialRoundUp(x, n, d) \in Nat
  <2>1. CASE x = 0 \/ n = 0
    BY <2>1 DEF GetPartialRoundUp
  <2>2. CASE x # 0 /\ n # 0
    <3>1. x * n # 0
      BY <2>2
    <3>2. (x * n - 1) \div d \in Nat
      BY <1>1, <3>1, QuotientType
    <3> QED
      BY <2>2, <3>2 DEF GetPartialRoundUp
  <2> QED
    BY <2>1, <2>2
<1>4. GetPartialRoundHalfUp(x, n, d) \in Nat
  <2>1. (x * n) \div d \in Nat
    BY <1>1, QuotientType
  <2> QED
    BY <2>1 DEF GetPartialRoundHalfUp
<1> QED
  BY <1>2, <1>3, <1>4

(* Decimal multiplication and division of values.                          *)
LEMMA DecimalType ==
  ASSUME NEW x \in Nat, NEW d \in Nat
  PROVE  /\ OnePlus(d) \in Nat \ {0}
         /\ DecimalMul(x, d) \in Nat
         /\ d # 0 => DecimalDiv(x, d) \in Nat
<1>1. OnePlus(d) \in Nat \ {0}
  BY DEF OnePlus
<1>2. GetPartial(x, d, Base) \in Nat
  BY PartialType
<1>3. d # 0 => GetPartial(x, Base, d) \in Nat
  BY PartialType
<1> QED
  BY <1>1, <1>2, <1>3 DEF DecimalMul, DecimalDiv

(* Conversions between par and wei return integers, and keep the sign.     *)
LEMMA ConversionType ==
  ASSUME NEW x \in Int, NEW indexed \in IndexType
  PROVE  /\ ParToWei(x, indexed) \in Int
         /\ WeiToPar(x, indexed) \in Int
         /\ x >= 0 => ParToWei(x, indexed) >= 0
         /\ x <= 0 => ParToWei(x, indexed) <= 0
         /\ Magnitude(x) \in Nat
<1>1. Base \in Nat \ {0} /\ indexed.borrow \in Nat \ {0} /\ indexed.supply \in Nat \ {0}
  BY DEF IndexType
<1>2. ASSUME x >= 0
      PROVE  /\ ParToWei(x, indexed) \in Nat
             /\ WeiToPar(x, indexed) \in Nat
  <2>1. x \in Nat
    BY <1>2
  <2>2. /\ GetPartialRoundHalfUp(x, indexed.supply, Base) \in Nat
        /\ GetPartialRoundHalfUp(x, Base, indexed.supply) \in Nat
    BY <1>1, <2>1, PartialType
  <2> QED
    BY <1>2, <2>2 DEF ParToWei, WeiToPar
<1>3. ASSUME x < 0
      PROVE  /\ ParToWei(x, indexed) \in Int /\ ParToWei(x, indexed) <= 0
             /\ WeiToPar(x, indexed) \in Int
  <2>1. -x \in Nat
    BY <1>3
  <2>2. /\ GetPartialRoundHalfUp(-x, indexed.borrow, Base) \in Nat
        /\ GetPartialRoundHalfUp(-x, Base, indexed.borrow) \in Nat
    BY <1>1, <2>1, PartialType
  <2> QED
    BY <1>3, <2>2 DEF ParToWei, WeiToPar
<1>4. x = 0 => ParToWei(x, indexed) = 0
  <2>1. SUFFICES ASSUME x = 0
                 PROVE  GetPartialRoundHalfUp(0, indexed.supply, Base) = 0
    BY DEF ParToWei
  <2>2. 0 * indexed.supply = 0 /\ 0 \div Base = 0 /\ 0 % Base = 0
    BY <1>1
  <2>3. (Base - 1) \div 2 \in Nat
    BY <1>1
  <2> QED
    BY <2>2, <2>3 DEF GetPartialRoundHalfUp
<1>5. Magnitude(x) \in Nat
  BY DEF Magnitude
<1> QED
  BY <1>2, <1>3, <1>4, <1>5

-----------------------------------------------------------------------------
(* Rounding.                                                               *)

(* A division with remainder, stated without division.                     *)
LEMMA DivisionFacts ==
  ASSUME NEW p \in Nat, NEW d \in Nat \ {0}
  PROVE  /\ p \div d \in Nat
         /\ p % d \in 0..(d - 1)
         /\ p = d * (p \div d) + (p % d)
OBVIOUS

(* Products and quotients of a larger number are larger.                   *)
LEMMA ProductMonotone ==
  ASSUME NEW x \in Nat, NEW y \in Nat, NEW n \in Nat, x <= y
  PROVE  x * n <= y * n
<1>1. PICK k \in Nat : y = x + k
  <2>1. y - x \in Nat /\ y = x + (y - x)
    OBVIOUS
  <2> QED
    BY <2>1
<1>2. (x + k) * n = x * n + k * n
  OBVIOUS
<1>3. x * n \in Nat /\ k * n \in Nat
  BY ProductType
<1> QED
  BY <1>1, <1>2, <1>3

(* If the quotients are not the same, they differ by at least one.         *)
LEMMA QuotientMonotone ==
  ASSUME NEW p \in Nat, NEW q \in Nat, NEW d \in Nat \ {0}, p <= q
  PROVE  \/ p \div d + 1 <= q \div d
         \/ p \div d = q \div d /\ p % d <= q % d
<1> DEFINE u == p \div d
           v == q \div d
<1>1. /\ u \in Nat /\ p % d \in 0..(d - 1) /\ p = d * u + (p % d)
      /\ v \in Nat /\ q % d \in 0..(d - 1) /\ q = d * v + (q % d)
  BY DivisionFacts
<1> HIDE DEF u, v
<1>2. CASE u < v
  BY <1>1, <1>2 DEF u, v
<1>3. CASE u = v
  BY <1>1, <1>3 DEF u, v
<1>4. CASE v < u
  <2>1. PICK k \in Nat : u = v + 1 + k
    <3>1. u - v - 1 \in Nat /\ u = v + 1 + (u - v - 1)
      BY <1>1, <1>4
    <3> QED
      BY <3>1
  <2>2. d * (v + 1 + k) = d * v + d + d * k
    BY <1>1
  <2>3. d * k \in Nat /\ d * v \in Nat
    BY <1>1, ProductType
  <2>4. p >= d * v + d
    <3>1. p = d * v + d + d * k + (p % d)
      BY <1>1, <2>1, <2>2
    <3> QED
      BY <1>1, <2>3, <3>1
  <2> QED
    BY <1>1, <2>3, <2>4
<1> QED
  BY <1>1, <1>2, <1>3, <1>4

(* Rounding half up keeps the order.                                       *)
LEMMA HalfUpMonotone ==
  ASSUME NEW x \in Nat, NEW y \in Nat, x <= y, NEW n \in Nat, NEW d \in Nat \ {0}
  PROVE  GetPartialRoundHalfUp(x, n, d) <= GetPartialRoundHalfUp(y, n, d)
<1> DEFINE p == x * n
           q == y * n
           half == (d - 1) \div 2 + 1
<1>1. p \in Nat /\ q \in Nat /\ p <= q
  BY ProductType, ProductMonotone
<1>2. half \in Nat
  BY QuotientType
<1>3. /\ GetPartialRoundHalfUp(x, n, d) = p \div d + (IF p % d >= half THEN 1 ELSE 0)
      /\ GetPartialRoundHalfUp(y, n, d) = q \div d + (IF q % d >= half THEN 1 ELSE 0)
  BY DEF GetPartialRoundHalfUp
<1> HIDE DEF p, q, half
<1>4. /\ p \div d \in Nat /\ p % d \in 0..(d - 1)
      /\ q \div d \in Nat /\ q % d \in 0..(d - 1)
  BY <1>1, DivisionFacts
<1>5. \/ p \div d + 1 <= q \div d
      \/ p \div d = q \div d /\ p % d <= q % d
  BY <1>1, QuotientMonotone
<1> QED
  BY <1>2, <1>3, <1>4, <1>5

(* Nothing rounds to nothing.                                              *)
LEMMA HalfUpZero ==
  ASSUME NEW n \in Nat, NEW d \in Nat \ {0}
  PROVE  GetPartialRoundHalfUp(0, n, d) = 0
<1>1. 0 * n = 0 /\ 0 \div d = 0 /\ 0 % d = 0
  OBVIOUS
<1>2. (d - 1) \div 2 \in Nat
  BY QuotientType
<1> QED
  BY <1>1, <1>2 DEF GetPartialRoundHalfUp

(* Both conversions keep the order of balances and leave zero alone, so    *)
(* what is not above zero stays so.                                        *)
LEMMA ConversionMonotone ==
  ASSUME NEW x \in Int, NEW y \in Int, x <= y, NEW indexed \in IndexType
  PROVE  /\ ParToWei(x, indexed) <= ParToWei(y, indexed)
         /\ WeiToPar(x, indexed) <= WeiToPar(y, indexed)
<1>1. /\ indexed.supply \in Nat \ {0} /\ indexed.borrow \in Nat \ {0}
      /\ Base \in Nat \ {0}
  BY DEF IndexType
<1>2. CASE x >= 0
  <2>1. x \in Nat /\ y \in Nat
    BY <1>2
  <2>2. /\ GetPartialRoundHalfUp(x, indexed.supply, Base)
              <= GetPartialRoundHalfUp(y, indexed.supply, Base)
        /\ GetPartialRoundHalfUp(x, Base, indexed.supply)
              <= GetPartialRoundHalfUp(y, Base, indexed.supply)
    BY <1>1, <2>1, HalfUpMonotone
  <2> QED
    BY <2>1, <2>2 DEF ParToWei, WeiToPar
<1>3. CASE x < 0 /\ y < 0
  <2> DEFINE b == indexed.borrow
  <2>1. -x \in Nat /\ -y \in Nat /\ -y <= -x
    BY <1>3
  <2>2. /\ GetPartialRoundHalfUp(-y, b, Base) <= GetPartialRoundHalfUp(-x, b, Base)
        /\ GetPartialRoundHalfUp(-y, Base, b) <= GetPartialRoundHalfUp(-x, Base, b)
    BY <1>1, <2>1, HalfUpMonotone
  <2>3. /\ GetPartialRoundHalfUp(-y, b, Base) \in Nat
        /\ GetPartialRoundHalfUp(-x, b, Base) \in Nat
        /\ GetPartialRoundHalfUp(-y, Base, b) \in Nat
        /\ GetPartialRoundHalfUp(-x, Base, b) \in Nat
    BY <1>1, <2>1, PartialType
  <2> QED
    BY <1>3, <2>2, <2>3 DEF ParToWei, WeiToPar
<1>4. CASE x < 0 /\ y >= 0
  <2>1. -x \in Nat /\ y \in Nat
    BY <1>4
  <2>2. /\ GetPartialRoundHalfUp(-x, indexed.borrow, Base) \in Nat
        /\ GetPartialRoundHalfUp(-x, Base, indexed.borrow) \in Nat
        /\ GetPartialRoundHalfUp(y, indexed.supply, Base) \in Nat
        /\ GetPartialRoundHalfUp(y, Base, indexed.supply) \in Nat
    BY <1>1, <2>1, PartialType
  <2> QED
    BY <1>4, <2>2 DEF ParToWei, WeiToPar
<1> QED
  BY <1>2, <1>3, <1>4

(* Zero is zero in both denominations.                                     *)
LEMMA ConversionZero ==
  ASSUME NEW indexed \in IndexType
  PROVE  ParToWei(0, indexed) = 0 /\ WeiToPar(0, indexed) = 0
<1>1. indexed.supply \in Nat \ {0} /\ Base \in Nat \ {0}
  BY DEF IndexType
<1> QED
  BY <1>1, HalfUpZero DEF ParToWei, WeiToPar

(* Quotient and remainder are what makes up the number.                    *)
LEMMA DivisionUnique ==
  ASSUME NEW d \in Nat \ {0}, NEW q \in Nat, NEW r \in 0..(d - 1)
  PROVE  (d * q + r) \div d = q /\ (d * q + r) % d = r
<1> DEFINE p == d * q + r
           u == p \div d
           v == p % d
<1>1. d * q \in Nat /\ p \in Nat
  BY ProductType
<1>2. u \in Nat /\ v \in 0..(d - 1) /\ p = d * u + v
  <2> HIDE DEF p
  <2> QED
    BY <1>1, DivisionFacts
<1>3. d * q + r = d * u + v
  BY <1>2
<1> HIDE DEF u, v
<1>4. ASSUME NEW x \in Nat, NEW y \in Nat, NEW s \in 0..(d - 1), NEW t \in 0..(d - 1),
             x < y, d * x + s = d * y + t
      PROVE  FALSE
  <2>1. PICK k \in Nat : y = x + 1 + k
    <3>1. y - x - 1 \in Nat /\ y = x + 1 + (y - x - 1)
      BY <1>4
    <3> QED
      BY <3>1
  <2>2. d * (x + 1 + k) = d * x + d + d * k
    OBVIOUS
  <2>3. d * x \in Nat /\ d * k \in Nat
    BY ProductType
  <2> QED
    BY <1>4, <2>1, <2>2, <2>3
<1>5. u = q
  BY <1>2, <1>3, <1>4
<1> QED
  BY <1>1, <1>2, <1>3, <1>5 DEF u, v

(* What half of a number, rounded up, is.                                  *)
LEMMA HalfFacts ==
  ASSUME NEW d \in Nat \ {0}
  PROVE  LET half == (d - 1) \div 2 + 1
         IN  half \in Nat \ {0} /\ d <= 2 * half /\ 2 * half <= d + 1
<1>1. d - 1 = 2 * ((d - 1) \div 2) + ((d - 1) % 2) /\ (d - 1) % 2 \in 0..1
      /\ (d - 1) \div 2 \in Nat
  BY DivisionFacts
<1> QED
  BY <1>1

(* A fraction of at least one, rounded half up, loses nothing: its inverse *)
(* leads back.                                                             *)
LEMMA HalfUpInverse ==
  ASSUME NEW x \in Nat, NEW d \in Nat \ {0}, NEW n \in Nat, d <= n
  PROVE  GetPartialRoundHalfUp(GetPartialRoundHalfUp(x, n, d), d, n) = x
<1> DEFINE p == x * n
           q == p \div d
           r == p % d
           half == (d - 1) \div 2 + 1
           other == (n - 1) \div 2 + 1
           w == q + (IF r >= half THEN 1 ELSE 0)
           v == w * d
<1>0. n \in Nat \ {0}
  OBVIOUS
<1>1. p \in Nat /\ q \in Nat /\ r \in 0..(d - 1) /\ p = d * q + r
  <2>1. p \in Nat
    BY ProductType
  <2> HIDE DEF p
  <2> QED
    BY <2>1, DivisionFacts
<1>2. half \in Nat \ {0} /\ d <= 2 * half /\ 2 * half <= d + 1
  BY HalfFacts
<1>3. other \in Nat \ {0} /\ n <= 2 * other /\ 2 * other <= n + 1
  BY HalfFacts
<1>4. /\ GetPartialRoundHalfUp(x, n, d) = w
      /\ GetPartialRoundHalfUp(w, d, n)
           = v \div n + (IF v % n >= other THEN 1 ELSE 0)
  BY DEF GetPartialRoundHalfUp
<1>5. p = x * n
  OBVIOUS
<1>6. n = d => r = 0
  <2>1. SUFFICES ASSUME n = d
                 PROVE  r = 0
    OBVIOUS
  <2>2. p = d * x + 0
    BY <2>1
  <2>3. 0 \in 0..(d - 1)
    OBVIOUS
  <2> HIDE DEF p
  <2> QED
    BY <2>2, <2>3, DivisionUnique
<1>7. (q + 1) * d = d * q + d /\ q * d = d * q /\ n * x = x * n
  BY <1>1
<1>8. v = IF r >= half THEN (q + 1) * d ELSE q * d
  BY <1>1
<1> HIDE DEF p, q, r, half, other, w, v
<1>9. CASE r >= half
  <2>1. v = n * x + (d - r)
    BY <1>1, <1>5, <1>7, <1>8, <1>9
  <2>2. d - r \in 0..(n - 1) /\ ~(d - r >= other)
    BY <1>1, <1>2, <1>3, <1>6, <1>9
  <2>3. v \div n = x /\ v % n = d - r
    BY <1>0, <2>1, <2>2, DivisionUnique
  <2> QED
    BY <1>4, <2>2, <2>3
<1>10. CASE r < half /\ r # 0
  <2>1. PICK y \in Nat : x = y + 1
    <3>1. x # 0
      <4>1. x = 0 => x * n = 0
        OBVIOUS
      <4>2. d * q \in Nat
        BY <1>1, ProductType
      <4> QED
        BY <1>1, <1>5, <1>10, <4>1, <4>2
    <3>2. x - 1 \in Nat /\ x = (x - 1) + 1
      BY <3>1
    <3> QED
      BY <3>2
  <2>2. n * (y + 1) = n * y + n
    OBVIOUS
  <2>3. v = n * y + (n - r)
    BY <1>1, <1>2, <1>5, <1>7, <1>8, <1>10, <2>1, <2>2
  <2>4. n - r \in 0..(n - 1) /\ n - r >= other
    BY <1>1, <1>2, <1>3, <1>10
  <2>5. v \div n = y /\ v % n = n - r
    BY <1>0, <2>3, <2>4, DivisionUnique
  <2> QED
    BY <1>4, <2>1, <2>4, <2>5
<1>11. CASE r = 0
  <2>1. v = n * x + 0 /\ 0 \in 0..(n - 1)
    BY <1>0, <1>1, <1>2, <1>5, <1>7, <1>8, <1>11
  <2>2. v \div n = x /\ v % n = 0
    BY <1>0, <2>1, DivisionUnique
  <2> QED
    BY <1>3, <1>4, <2>2
<1> QED
  BY <1>1, <1>2, <1>9, <1>10, <1>11

(* At an index that has not fallen below its first value, a balance is     *)
(* worth at least as much as it says, and is found again from its worth.   *)
LEMMA RoundTrip ==
  ASSUME NEW x \in Int, NEW indexed \in IndexType,
         indexed.borrow >= Base, indexed.supply >= Base
  PROVE  WeiToPar(ParToWei(x, indexed), indexed) = x
<1>1. /\ indexed.borrow \in Nat \ {0} /\ indexed.supply \in Nat \ {0}
      /\ Base \in Nat \ {0}
  BY DEF IndexType
<1>2. CASE x >= 0
  <2> DEFINE w == GetPartialRoundHalfUp(x, indexed.supply, Base)
  <2>1. ParToWei(x, indexed) = w
    BY <1>2 DEF ParToWei
  <2>2. w \in Nat /\ GetPartialRoundHalfUp(w, Base, indexed.supply) = x
    <3>1. x \in Nat
      BY <1>2
    <3>2. w \in Nat
      BY <1>1, <3>1, PartialType
    <3>3. GetPartialRoundHalfUp(w, Base, indexed.supply) = x
      BY <1>1, <3>1, HalfUpInverse
    <3> QED
      BY <3>2, <3>3
  <2> HIDE DEF w
  <2> QED
    BY <2>1, <2>2 DEF WeiToPar
<1>3. CASE x < 0
  <2> DEFINE w == GetPartialRoundHalfUp(-x, indexed.borrow, Base)
  <2>1. ParToWei(x, indexed) = -w
    BY <1>3 DEF ParToWei
  <2>2. w \in Nat /\ GetPartialRoundHalfUp(w, Base, indexed.borrow) = -x
    <3>1. -x \in Nat
      BY <1>3
    <3>2. w \in Nat
      BY <1>1, <3>1, PartialType
    <3>3. GetPartialRoundHalfUp(w, Base, indexed.borrow) = -x
      BY <1>1, <3>1, HalfUpInverse
    <3> QED
      BY <3>2, <3>3
  <2>3. w # 0
    <3>1. GetPartialRoundHalfUp(0, Base, indexed.borrow) = 0
      BY <1>1, HalfUpZero
    <3> QED
      BY <1>3, <2>2, <3>1
  <2> HIDE DEF w
  <2>4. -w < 0 /\ -(-w) = w
    BY <2>2, <2>3
  <2> QED
    BY <1>3, <2>1, <2>2, <2>4 DEF WeiToPar
<1> QED
  BY <1>2, <1>3

-----------------------------------------------------------------------------
(* Interest never makes an index smaller, let alone zero.                  *)
LEMMA NewIndexType ==
  ASSUME NEW indexed \in IndexType, NEW rate \in Nat, NEW supplyWei \in Nat,
         NEW borrowWei \in Nat, NEW earningsRate \in Nat, NEW time \in Nat,
         indexed.lastUpdate <= time
  PROVE  LET new == CalculateNewIndex(indexed, rate, supplyWei, borrowWei,
                                      earningsRate, time)
         IN  /\ new \in IndexType
             /\ new.lastUpdate = time
             /\ new.borrow >= indexed.borrow
             /\ new.supply >= indexed.supply
<1> DEFINE owed   == BorrowInterest(indexed, rate, time)
           earned == SupplyInterest(owed, supplyWei, borrowWei, earningsRate)
<1>1. /\ indexed.borrow \in Nat \ {0} /\ indexed.supply \in Nat \ {0}
      /\ indexed.lastUpdate \in Nat
  BY DEF IndexType
<1>2. owed \in Nat
  <2>1. time - indexed.lastUpdate \in Nat
    BY <1>1
  <2> QED
    BY <2>1, ProductType DEF BorrowInterest
<1>3. earned \in Nat
  <2> HIDE DEF owed
  <2>1. DecimalMul(owed, earningsRate) \in Nat
    BY <1>2, DecimalType
  <2>2. supplyWei # 0 =>
          GetPartial(DecimalMul(owed, earningsRate), borrowWei, supplyWei) \in Nat
    BY <2>1, PartialType
  <2> QED
    BY <2>1, <2>2 DEF SupplyInterest
<1> HIDE DEF owed, earned
<1>4. /\ GetPartial(indexed.borrow, owed, Base) \in Nat
      /\ GetPartial(indexed.supply, earned, Base) \in Nat
  BY <1>1, <1>2, <1>3, PartialType
<1> QED
  BY <1>1, <1>4 DEF CalculateNewIndex, IndexType, owed, earned

(* A new market's index is one.                                            *)
LEMMA FirstIndexType ==
  ASSUME NEW time \in Nat
  PROVE  NewIndex(time) \in IndexType
BY DEF NewIndex, IndexType

-----------------------------------------------------------------------------
(* Soundness of a ledger. Between two writes of one action a ledger may    *)
(* not fit; it is still a record of integers whose summaries match, and    *)
(* which differs from the ledger the operation began with only where the   *)
(* operation may write.                                                    *)

WideLedger ==
  [par    : [Accounts -> [Markets -> Int]],
   supply : [Markets -> Int],
   borrow : [Markets -> Int],
   debts  : [Accounts -> Int],
   held   : [Accounts -> SUBSET Markets],
   fits   : BOOLEAN]

Sound(L) ==
  /\ L \in WideLedger
  /\ SummariesMatch(L)
  /\ TotalsMatch(L)
  /\ L.fits => L \in LedgerType

(* What every write of an action keeps true of the ledger.                 *)
Kept(L, Old, B, S) == Sound(L) /\ SameElsewhere(L, Old, B, S)

(* After setPar, numberOfMarketsWithDebt still counts the negative         *)
(* balances and marketsWithNonZeroBalanceSet still holds the others than   *)
(* zero: each adds or removes at most the one market that changed.         *)
LEMMA SetParSummaries ==
  ASSUME NEW L, Sound(L), NEW a \in Accounts, NEW m \in Markets, NEW new \in Int
  PROVE  SummariesMatch(SetPar(L, a, m, new))
<1> DEFINE old == L.par[a][m]
           M   == SetPar(L, a, m, new)
           InDebt(par) == {n \in Markets : par[n] < 0}
<1>1. CASE old = new
  BY <1>1 DEF SetPar, Sound
<1>2. CASE old # new
  <2>1. /\ L.par \in [Accounts -> [Markets -> Int]]
        /\ L.debts \in [Accounts -> Int]
        /\ L.held \in [Accounts -> SUBSET Markets]
        /\ old \in Int
    BY DEF Sound, WideLedger
  <2>2. /\ M.par = [L.par EXCEPT ![a] = [@ EXCEPT ![m] = new]]
        /\ M.debts = [L.debts EXCEPT ![a] = DebtsAfter(@, old, new)]
        /\ M.held = [L.held EXCEPT ![a] = HeldAfter(@, m, old, new)]
    BY <1>2 DEF SetPar
  <2>3. SUFFICES ASSUME NEW b \in Accounts
                 PROVE  /\ M.debts[b] = Cardinality(InDebt(M.par[b]))
                        /\ M.held[b] = {n \in Markets : M.par[b][n] # 0}
    BY DEF SummariesMatch
  <2>4. /\ L.debts[b] = Cardinality(InDebt(L.par[b]))
        /\ L.held[b] = {n \in Markets : L.par[b][n] # 0}
    BY DEF Sound, SummariesMatch
  <2> HIDE DEF M
  <2>5. CASE b # a
    <3>1. M.par[b] = L.par[b] /\ M.debts[b] = L.debts[b] /\ M.held[b] = L.held[b]
      BY <2>1, <2>2, <2>5
    <3> QED
      BY <2>4, <3>1
  <2>6. CASE b = a
    <3> DEFINE before == InDebt(L.par[a])
               after  == InDebt(M.par[a])
    <3>1. /\ M.par[a] = [L.par[a] EXCEPT ![m] = new]
          /\ M.debts[a] = DebtsAfter(L.debts[a], old, new)
          /\ M.held[a] = HeldAfter(L.held[a], m, old, new)
      BY <2>1, <2>2
    <3>2. IsFiniteSet(before) /\ Cardinality(before) \in Nat
      BY FS_Subset, FS_CardinalityType
    <3>3. after = IF new < 0 THEN before \cup {m} ELSE before \ {m}
      BY <2>1, <3>1
    <3>4. m \in before <=> old < 0
      OBVIOUS
    <3>5. Cardinality(after) = DebtsAfter(Cardinality(before), old, new)
      <4> HIDE DEF before, after
      <4>1. /\ Cardinality(before \cup {m}) =
                 IF m \in before THEN Cardinality(before) ELSE Cardinality(before) + 1
            /\ Cardinality(before \ {m}) =
                 IF m \in before THEN Cardinality(before) - 1 ELSE Cardinality(before)
        BY <3>2, FS_AddElement, FS_RemoveElement
      <4> QED
        BY <2>1, <3>2, <3>3, <3>4, <4>1 DEF DebtsAfter
    <3>6. M.held[a] = {n \in Markets : M.par[a][n] # 0}
      BY <2>1, <2>4, <2>6, <3>1 DEF HeldAfter
    <3> QED
      BY <2>4, <2>6, <3>1, <3>5, <3>6
  <2> QED
    BY <2>5, <2>6
<1> QED
  BY <1>1, <1>2

(* The totals of a market, as sums over the accounts.                      *)
Supplies(L, m) == [b \in Accounts |-> Supplied(L.par[b][m])]
Borrows(L, m)  == [b \in Accounts |-> Borrowed(L.par[b][m])]

(* After setPar, the totals of every market are still the sums of the      *)
(* balances: the old balance is taken from them and the new one added.     *)
LEMMA SetParTotals ==
  ASSUME NEW L, Sound(L), NEW a \in Accounts, NEW m \in Markets, NEW new \in Int
  PROVE  TotalsMatch(SetPar(L, a, m, new))
<1> DEFINE old == L.par[a][m]
           M   == SetPar(L, a, m, new)
<1>1. CASE old = new
  BY <1>1 DEF SetPar, Sound
<1>2. CASE old # new
  <2>1. /\ L.par \in [Accounts -> [Markets -> Int]]
        /\ L.supply \in [Markets -> Int]
        /\ L.borrow \in [Markets -> Int]
        /\ old \in Int
    BY DEF Sound, WideLedger
  <2>2. /\ M.par = [L.par EXCEPT ![a] = [@ EXCEPT ![m] = new]]
        /\ M.supply = [L.supply EXCEPT ![m] =
                         L.supply[m] - Supplied(old) + Supplied(new)]
        /\ M.borrow = [L.borrow EXCEPT ![m] =
                         L.borrow[m] - Borrowed(old) + Borrowed(new)]
    BY <1>2 DEF SetPar
  <2> HIDE DEF M
  <2>3. \A b \in Accounts, n \in Markets :
          M.par[b][n] = IF b = a /\ n = m THEN new ELSE L.par[b][n]
    BY <2>1, <2>2
  <2>4. /\ M.par \in [Accounts -> [Markets -> Int]]
        /\ \A n \in Markets :
             /\ M.supply[n] = IF n = m THEN L.supply[m] - Supplied(old) + Supplied(new)
                                       ELSE L.supply[n]
             /\ M.borrow[n] = IF n = m THEN L.borrow[m] - Borrowed(old) + Borrowed(new)
                                       ELSE L.borrow[n]
    BY <2>1, <2>2
  <2>5. \A par \in Int : Supplied(par) \in Int /\ Borrowed(par) \in Int
    BY DEF Supplied, Borrowed
  <2>6. SUFFICES ASSUME NEW n \in Markets
                 PROVE  /\ M.supply[n] = SumFunction(Supplies(M, n))
                        /\ M.borrow[n] = SumFunction(Borrows(M, n))
    BY DEF TotalsMatch, Supplies, Borrows, M
  <2>7. /\ L.supply[n] = SumFunction(Supplies(L, n))
        /\ L.borrow[n] = SumFunction(Borrows(L, n))
    BY DEF Sound, TotalsMatch, Supplies, Borrows
  <2>8. CASE n # m
    <3>1. Supplies(M, n) = Supplies(L, n) /\ Borrows(M, n) = Borrows(L, n)
      BY <2>3, <2>8 DEF Supplies, Borrows
    <3> QED
      BY <2>4, <2>7, <2>8, <3>1
  <2>9. CASE n = m
    <3>1. /\ Supplies(L, n) \in [Accounts -> Int] /\ Supplies(M, n) \in [Accounts -> Int]
          /\ Borrows(L, n) \in [Accounts -> Int] /\ Borrows(M, n) \in [Accounts -> Int]
      BY <2>1, <2>4, <2>5 DEF Supplies, Borrows
    <3>2. \A b \in Accounts \ {a} : /\ Supplies(M, n)[b] = Supplies(L, n)[b]
                                     /\ Borrows(M, n)[b] = Borrows(L, n)[b]
      BY <2>3 DEF Supplies, Borrows
    <3>3. /\ Supplies(L, n)[a] = Supplied(old) /\ Supplies(M, n)[a] = Supplied(new)
          /\ Borrows(L, n)[a] = Borrowed(old) /\ Borrows(M, n)[a] = Borrowed(new)
      BY <2>3, <2>9 DEF Supplies, Borrows
    <3>4. IsFiniteSet(Accounts)
      OBVIOUS
    <3>5. SumFunction(Supplies(M, n)) =
            SumFunction(Supplies(L, n)) - Supplied(old) + Supplied(new)
      BY ONLY <3>1, <3>2, <3>3, <3>4, a \in Accounts, SumChange
    <3>6. SumFunction(Borrows(M, n)) =
            SumFunction(Borrows(L, n)) - Borrowed(old) + Borrowed(new)
      BY ONLY <3>1, <3>2, <3>3, <3>4, a \in Accounts, SumChange
    <3> QED
      BY <2>4, <2>7, <2>9, <3>5, <3>6
  <2> QED
    BY <2>8, <2>9
<1> QED
  BY <1>1, <1>2

(* setPar keeps a ledger sound.                                            *)
LEMMA SetParSound ==
  ASSUME NEW L, Sound(L), NEW a \in Accounts, NEW m \in Markets, NEW new \in Int
  PROVE  Sound(SetPar(L, a, m, new))
<1> DEFINE old    == L.par[a][m]
           M      == SetPar(L, a, m, new)
           supply == L.supply[m] - Supplied(old)
           borrow == L.borrow[m] - Borrowed(old)
<1>1. SummariesMatch(M) /\ TotalsMatch(M)
  BY SetParSummaries, SetParTotals
<1>2. CASE old = new
  BY <1>2 DEF SetPar
<1>3. CASE old # new
  <2>1. /\ L.par \in [Accounts -> [Markets -> Int]]
        /\ L.supply \in [Markets -> Int]
        /\ L.borrow \in [Markets -> Int]
        /\ L.debts \in [Accounts -> Int]
        /\ L.held \in [Accounts -> SUBSET Markets]
        /\ L.fits \in BOOLEAN
        /\ old \in Int /\ supply \in Int /\ borrow \in Int
    BY DEF Sound, WideLedger, Supplied, Borrowed
  <2>2. Supplied(new) \in Nat /\ Borrowed(new) \in Nat
    BY DEF Supplied, Borrowed
  <2> DEFINE fits == /\ L.fits
                     /\ supply >= 0 /\ Fits128(supply + Supplied(new))
                     /\ borrow >= 0 /\ Fits128(borrow + Borrowed(new))
                     /\ Fits128(new)
  <2>3. M = [par    |-> [L.par EXCEPT ![a] = [@ EXCEPT ![m] = new]],
             supply |-> [L.supply EXCEPT ![m] = supply + Supplied(new)],
             borrow |-> [L.borrow EXCEPT ![m] = borrow + Borrowed(new)],
             debts  |-> [L.debts EXCEPT ![a] = DebtsAfter(@, old, new)],
             held   |-> [L.held EXCEPT ![a] = HeldAfter(@, m, old, new)],
             fits   |-> fits]
    BY <1>3 DEF SetPar
  <2>4. DebtsAfter(L.debts[a], old, new) \in Int
    BY <2>1 DEF DebtsAfter
  <2>5. HeldAfter(L.held[a], m, old, new) \in SUBSET Markets
    BY <2>1 DEF HeldAfter
  <2>6. fits \in BOOLEAN
    OBVIOUS
  <2>7. M \in WideLedger
    <3> HIDE DEF old, supply, borrow, fits, M
    <3> QED
      BY <2>1, <2>2, <2>3, <2>4, <2>5, <2>6 DEF WideLedger
  <2>8. ASSUME M.fits
        PROVE  M \in LedgerType
    <3>1. fits
      BY <2>3, <2>8
    <3>2. L \in LedgerType
      BY <3>1 DEF Sound
    <3>3. new \in -Max128..Max128
      BY <3>1 DEF Fits128, Magnitude
    <3>4. supply + Supplied(new) \in 0..Max128
      <4> HIDE DEF supply
      <4> QED
        BY <2>1, <2>2, <3>1 DEF Fits128, Magnitude
    <3>5. borrow + Borrowed(new) \in 0..Max128
      <4> HIDE DEF borrow
      <4> QED
        BY <2>1, <2>2, <3>1 DEF Fits128, Magnitude
    <3>6. M.par \in [Accounts -> [Markets -> -Max128..Max128]]
      <4>1. L.par \in [Accounts -> [Markets -> -Max128..Max128]]
        BY <3>2 DEF LedgerType
      <4> QED
        BY <2>3, <3>3, <4>1
    <3>7. M.supply \in [Markets -> 0..Max128] /\ M.borrow \in [Markets -> 0..Max128]
      <4>1. L.supply \in [Markets -> 0..Max128] /\ L.borrow \in [Markets -> 0..Max128]
        BY <3>2 DEF LedgerType
      <4> HIDE DEF supply, borrow
      <4> QED
        BY <2>3, <3>4, <3>5, <4>1
    <3>8. M.debts \in [Accounts -> Nat]
      <4>1. \A b \in Accounts : M.debts[b] \in Nat
        <5> TAKE b \in Accounts
        <5>1. M.debts[b] = Cardinality({n \in Markets : M.par[b][n] < 0})
          BY <1>1 DEF SummariesMatch
        <5>2. IsFiniteSet({n \in Markets : M.par[b][n] < 0})
          BY FS_Subset
        <5> QED
          BY <5>1, <5>2, FS_CardinalityType
      <4> QED
        BY <2>7, <4>1 DEF WideLedger
    <3>9. /\ M \in [par : {M.par}, supply : {M.supply}, borrow : {M.borrow},
                    debts : {M.debts}, held : {M.held}, fits : {M.fits}]
          /\ M.held \in [Accounts -> SUBSET Markets] /\ M.fits \in BOOLEAN
      <4> HIDE DEF M
      <4> QED
        BY <2>7 DEF WideLedger
    <3> HIDE DEF M
    <3> QED
      BY <3>6, <3>7, <3>8, <3>9 DEF LedgerType
  <2> QED
    BY <1>1, <2>7, <2>8 DEF Sound
<1> QED
  BY <1>2, <1>3

(* setPar changes one balance and the totals of its market.                *)
LEMMA SetParElsewhere ==
  ASSUME NEW Old, NEW B \in SUBSET Accounts, NEW S,
         NEW L, Kept(L, Old, B, S),
         NEW a \in B, NEW m \in Markets \cap S, NEW new \in Int
  PROVE  SameElsewhere(SetPar(L, a, m, new), Old, B, S)
<1> DEFINE M == SetPar(L, a, m, new)
<1>1. /\ L.par \in [Accounts -> [Markets -> Int]]
      /\ L.supply \in [Markets -> Int]
      /\ L.borrow \in [Markets -> Int]
  BY DEF Kept, Sound, WideLedger
<1>2. CASE L.par[a][m] = new
  BY <1>2 DEF SetPar, Kept
<1>3. CASE L.par[a][m] # new
  <2>1. /\ M.par = [L.par EXCEPT ![a] = [@ EXCEPT ![m] = new]]
        /\ M.supply = [L.supply EXCEPT ![m] =
                         L.supply[m] - Supplied(L.par[a][m]) + Supplied(new)]
        /\ M.borrow = [L.borrow EXCEPT ![m] =
                         L.borrow[m] - Borrowed(L.par[a][m]) + Borrowed(new)]
    BY <1>3 DEF SetPar
  <2> HIDE DEF M
  <2>2. ASSUME NEW b \in Accounts, NEW n \in Markets, b \notin B \/ n \notin S
        PROVE  M.par[b][n] = Old.par[b][n]
    <3>1. M.par[b][n] = L.par[b][n]
      BY <1>1, <2>1, <2>2
    <3> QED
      BY <2>2, <3>1 DEF Kept, SameElsewhere
  <2>3. ASSUME NEW n \in Markets \ S
        PROVE  M.supply[n] = Old.supply[n] /\ M.borrow[n] = Old.borrow[n]
    <3>1. M.supply[n] = L.supply[n] /\ M.borrow[n] = L.borrow[n]
      BY <1>1, <2>1
    <3> QED
      BY <3>1 DEF Kept, SameElsewhere
  <2> HIDE DEF M
  <2> QED
    BY <2>2, <2>3 DEF SameElsewhere, M
<1> QED
  BY <1>2, <1>3

(* An operation may call setPar for its accounts in its cached markets:    *)
(* what it keeps true stays true.                                          *)
LEMMA SetParKept ==
  ASSUME NEW Old, NEW B \in SUBSET Accounts, NEW S,
         NEW L, Kept(L, Old, B, S),
         NEW a \in B, NEW m \in Markets \cap S, NEW new \in Int
  PROVE  Kept(SetPar(L, a, m, new), Old, B, S)
BY SetParSound, SetParElsewhere DEF Kept

(* The balance of a sound ledger in tokens is an integer.                  *)
LEMMA GetWeiType ==
  ASSUME NEW L, Sound(L), NEW a \in Accounts, NEW m \in Markets,
         NEW indexed \in IndexType
  PROVE  /\ L.par[a][m] \in Int
         /\ GetWei(L, a, m, indexed) \in Int
<1>1. L.par[a][m] \in Int
  BY DEF Sound, WideLedger
<1> QED
  BY <1>1, ConversionType DEF GetWei

(* Likewise setParFromDeltaWei.                                            *)
LEMMA SetParFromDeltaWeiKept ==
  ASSUME NEW Old, NEW B \in SUBSET Accounts, NEW S,
         NEW L, Kept(L, Old, B, S),
         NEW a \in B, NEW m \in Markets \cap S,
         NEW indexed \in IndexType, NEW deltaWei \in Int
  PROVE  Kept(SetParFromDeltaWei(L, a, m, indexed, deltaWei), Old, B, S)
<1>1. CASE deltaWei = 0
  BY <1>1 DEF SetParFromDeltaWei
<1>2. CASE deltaWei # 0
  <2>1. GetWei(L, a, m, indexed) + deltaWei \in Int
    BY GetWeiType DEF Kept
  <2>2. WeiToPar(GetWei(L, a, m, indexed) + deltaWei, indexed) \in Int
    BY <2>1, ConversionType
  <2> QED
    BY <1>2, <2>2, SetParKept DEF SetParFromDeltaWei
<1> QED
  BY <1>1, <1>2

(* What setPar and setParFromDeltaWei write: one balance of one account.   *)
LEMMA SetParRows ==
  ASSUME NEW L, Sound(L), NEW a \in Accounts, NEW m \in Markets, NEW new \in Int
  PROVE  /\ SetPar(L, a, m, new).par[a][m] = new
         /\ \A n \in Markets \ {m} : SetPar(L, a, m, new).par[a][n] = L.par[a][n]
         /\ \A b \in Accounts \ {a} : SetPar(L, a, m, new).par[b] = L.par[b]
<1>1. L.par \in [Accounts -> [Markets -> Int]]
  BY DEF Sound, WideLedger
<1>2. CASE L.par[a][m] = new
  BY <1>2 DEF SetPar
<1>3. CASE L.par[a][m] # new
  <2>1. SetPar(L, a, m, new).par = [L.par EXCEPT ![a] = [@ EXCEPT ![m] = new]]
    BY <1>3 DEF SetPar
  <2> QED
    BY <1>1, <2>1
<1> QED
  BY <1>2, <1>3

(* A balance moved by tokens; the other balances are as they were.         *)
LEMMA SetParFromDeltaWeiRows ==
  ASSUME NEW L, Sound(L), NEW a \in Accounts, NEW m \in Markets,
         NEW indexed \in IndexType, NEW wei \in Int
  PROVE  LET M == SetParFromDeltaWei(L, a, m, indexed, wei)
         IN  /\ M.par[a][m] = IF wei = 0 THEN L.par[a][m]
                              ELSE WeiToPar(GetWei(L, a, m, indexed) + wei, indexed)
             /\ \A n \in Markets \ {m} : M.par[a][n] = L.par[a][n]
             /\ \A b \in Accounts \ {a} : M.par[b] = L.par[b]
<1>1. CASE wei = 0
  BY <1>1 DEF SetParFromDeltaWei
<1>2. CASE wei # 0
  <2> DEFINE new == WeiToPar(GetWei(L, a, m, indexed) + wei, indexed)
  <2>1. GetWei(L, a, m, indexed) + wei \in Int
    BY GetWeiType
  <2>2. new \in Int
    BY <2>1, ConversionType
  <2>3. SetParFromDeltaWei(L, a, m, indexed, wei) = SetPar(L, a, m, new)
    BY <1>2 DEF SetParFromDeltaWei
  <2> HIDE DEF new
  <2>4. /\ SetPar(L, a, m, new).par[a][m] = new
        /\ \A n \in Markets \ {m} : SetPar(L, a, m, new).par[a][n] = L.par[a][n]
        /\ \A b \in Accounts \ {a} : SetPar(L, a, m, new).par[b] = L.par[b]
    BY <2>2, SetParRows
  <2> QED
    BY <1>2, <2>3, <2>4 DEF new
<1> QED
  BY <1>1, <1>2

(* What an amount asks for is an integer balance and an integer change.    *)
LEMMA NewParType ==
  ASSUME NEW L, Sound(L), NEW a \in Accounts, NEW m \in Markets,
         NEW indexed \in IndexType, NEW amount \in AssetAmount
  PROVE  /\ GetNewParAndDeltaWei(L, a, m, indexed, amount).par \in Int
         /\ GetNewParAndDeltaWei(L, a, m, indexed, amount).wei \in Int
<1> DEFINE oldPar == L.par[a][m]
           oldWei == GetWei(L, a, m, indexed)
           newWei == IF amount.ref = "Delta" THEN oldWei + amount.value ELSE amount.value
           newPar == IF amount.ref = "Delta" THEN oldPar + amount.value ELSE amount.value
<1>1. amount.value \in Int
  BY DEF AssetAmount
<1>2. oldPar \in Int /\ oldWei \in Int
  BY GetWeiType
<1> HIDE DEF oldPar, oldWei
<1>3. newWei \in Int /\ newPar \in Int
  BY <1>1, <1>2
<1> HIDE DEF newWei, newPar
<1>4. WeiToPar(newWei, indexed) \in Int /\ ParToWei(newPar, indexed) \in Int
  BY <1>3, ConversionType
<1>5. GetNewParAndDeltaWei(L, a, m, indexed, amount) =
        IF amount.ref = "Delta" /\ amount.value = 0
        THEN [par |-> oldPar, wei |-> 0]
        ELSE IF amount.denomination = "Wei"
        THEN [par |-> WeiToPar(newWei, indexed), wei |-> newWei - oldWei]
        ELSE [par |-> newPar, wei |-> ParToWei(newPar, indexed) - oldWei]
  BY DEF GetNewParAndDeltaWei, oldPar, oldWei, newWei, newPar
<1> QED
  BY <1>2, <1>3, <1>4, <1>5

(* So is what getNewParAndDeltaWeiForLiquidation returns.                  *)
LEMMA NewParForLiquidationType ==
  ASSUME NEW L, Sound(L), NEW a \in Accounts, NEW m \in Markets,
         NEW indexed \in IndexType, NEW amount \in AssetAmount
  PROVE  LET repaid == GetNewParAndDeltaWeiForLiquidation(L, a, m, indexed, amount)
         IN  repaid.par \in Int /\ repaid.wei \in Int
<1> DEFINE asked == GetNewParAndDeltaWei(L, a, m, indexed, amount)
<1>1. asked.par \in Int /\ asked.wei \in Int
  BY NewParType
<1>2. GetWei(L, a, m, indexed) \in Int
  BY GetWeiType
<1> HIDE DEF asked
<1> QED
  BY <1>1, <1>2 DEF GetNewParAndDeltaWeiForLiquidation, asked

(* The totals of a market in tokens are not negative.                      *)
LEMMA TotalsType ==
  ASSUME NEW L \in LedgerType, NEW m \in Markets, NEW indexed \in IndexType
  PROVE  /\ TotalSupplyWei(L, m, indexed) \in Nat
         /\ TotalBorrowWei(L, m, indexed) \in Nat
<1>1. L.supply[m] \in Nat /\ L.borrow[m] \in Nat
  BY DEF LedgerType
<1>2. /\ ParToWei(L.supply[m], indexed) \in Nat
      /\ ParToWei(-L.borrow[m], indexed) \in Int
  BY <1>1, ConversionType
<1> QED
  BY <1>2 DEF TotalSupplyWei, TotalBorrowWei, Magnitude

(* The empty ledger is sound.                                              *)
LEMMA EmptyLedgerSound ==
  /\ EmptyLedger \in LedgerType
  /\ EmptyLedger.fits
  /\ Sound(EmptyLedger)
<1>1. 0 \in -Max128..Max128 /\ 0 \in 0..Max128
  OBVIOUS
<1>2. EmptyLedger \in LedgerType /\ EmptyLedger.fits
  BY <1>1 DEF EmptyLedger, LedgerType
<1>3. EmptyLedger \in WideLedger
  BY DEF EmptyLedger, WideLedger
<1>4. SummariesMatch(EmptyLedger)
  <2>1. \A a \in Accounts : {m \in Markets : EmptyLedger.par[a][m] < 0} = {}
    BY DEF EmptyLedger
  <2>2. \A a \in Accounts : {m \in Markets : EmptyLedger.par[a][m] # 0} = {}
    BY DEF EmptyLedger
  <2>3. Cardinality({}) = 0
    BY FS_EmptySet
  <2> QED
    BY <2>1, <2>2, <2>3 DEF SummariesMatch, EmptyLedger
<1>5. TotalsMatch(EmptyLedger)
  <2>1. SUFFICES ASSUME NEW m \in Markets
                 PROVE  /\ 0 = SumFunction(Supplies(EmptyLedger, m))
                        /\ 0 = SumFunction(Borrows(EmptyLedger, m))
    BY DEF TotalsMatch, EmptyLedger, Supplies, Borrows
  <2>2. /\ Supplies(EmptyLedger, m) = [b \in Accounts |-> 0]
        /\ Borrows(EmptyLedger, m) = [b \in Accounts |-> 0]
    BY DEF Supplies, Borrows, EmptyLedger, Supplied, Borrowed
  <2>3. SumFunction([b \in Accounts |-> 0]) = 0
    <3> DEFINE f == [b \in Accounts |-> 0]
    <3>1. f \in [Accounts -> Int] /\ \A b \in Accounts : f[b] = 0
      OBVIOUS
    <3> HIDE DEF f
    <3>2. SumFunction(f) = 0
      BY <3>1, SumZero
    <3> QED
      BY <3>2 DEF f
  <2> QED
    BY <2>2, <2>3
<1> QED
  BY <1>2, <1>3, <1>4, <1>5 DEF Sound

-----------------------------------------------------------------------------
(* Frames.                                                                 *)

USE OperationAssumption, EnvironmentAssumption

(* Pushing, replacing and popping the only frame.                          *)
LEMMA OneFrame ==
  ASSUME NEW f, NEW g
  PROVE  /\ Len(<<f>>) = 1
         /\ <<f>>[1] = f
         /\ <<f>> # <<>>
         /\ Append(<<>>, f) = <<f>>
         /\ [<<f>> EXCEPT ![1] = g] = <<g>>
         /\ SubSeq(<<f>>, 1, 0) = <<>>
OBVIOUS

CallType == [par : Int, wei : Int, otherWei : Int, bounded : BOOLEAN]

(* What an action captures before its external call is well typed.         *)
LEMMA CapturedType ==
  ASSUME NEW par \in Int, NEW wei \in Int, NEW otherWei \in Int
  PROVE  Captured(par, wei, otherWei) \in CallType
BY DEF Captured, CallType

(* So is the value an action captures that needs none.                     *)
LEMMA NoCallType == NoCall \in CallType
BY CapturedType DEF NoCall

(* The frame that runs is well typed and sound, and the only one.          *)
LEMMA TopFacts ==
  ASSUME Inductive, frames # <<>>
  PROVE  /\ frames = <<Top>>
         /\ Len(frames) = 1
         /\ IsFrame(Top)
         /\ FrameSound(Top)
         /\ locked
<1>1. frames = <<Top>>
  BY DEF Inductive
<1>2. Len(frames) = 1 /\ 1 \in DOMAIN frames
  BY <1>1
<1>3. IsFrame(frames[1]) /\ frames[1] = Top
  BY <1>2 DEF Inductive, TypeOK, Top
<1> QED
  BY <1>1, <1>2, <1>3 DEF Inductive

(* The ledger is sound, and differs from the saved one only where the      *)
(* operation may write.                                                    *)
LEMMA LedgerSound ==
  ASSUME Inductive
  PROVE  /\ ledger \in LedgerType
         /\ ledger.fits
         /\ Sound(ledger)
<1>1. /\ ledger \in LedgerType /\ ledger.fits
      /\ SummariesMatch(ledger) /\ TotalsMatch(ledger)
  BY DEF Inductive, TypeOK, BooksSound
<1>2. ledger \in WideLedger
  BY <1>1 DEF LedgerType, WideLedger
<1> QED
  BY <1>1, <1>2 DEF Sound

(* Since it began, the operation has changed only balances of its accounts *)
(* in its cached markets, and the totals of those markets.                 *)
LEMMA LedgerKept ==
  ASSUME Inductive, frames # <<>>
  PROVE  /\ Named(Top) \in SUBSET Accounts
         /\ Kept(ledger, Top.saved.ledger, Named(Top), DOMAIN Top.cache)
<1>1. Top.accounts \in Seq(Accounts)
  BY TopFacts DEF IsFrame
<1>2. Named(Top) \in SUBSET Accounts
  BY <1>1 DEF Named
<1> QED
  BY <1>2, LedgerSound, TopFacts DEF Kept, FrameSound

(* What the cache says of a market.                                        *)
LEMMA CacheFacts ==
  ASSUME Inductive, frames # <<>>, NEW m \in DOMAIN Top.cache
  PROVE  /\ m \in Markets
         /\ IndexOf(m) = index[m]
         /\ IndexOf(m) \in IndexType
         /\ Top.cache[m].price \in Nat \ {0}
<1>1. m \in Markets /\ Top.cache[m] \in MarketInfoType
  BY TopFacts DEF IsFrame, IsCache
<1>2. Top.cache[m].index = index[m]
  BY TopFacts DEF FrameSound, CacheSound
<1> QED
  BY <1>1, <1>2 DEF MarketInfoType, IndexOf

(* The current action, its accounts and its markets are among those of the *)
(* operation.                                                              *)
LEMMA ActFacts ==
  ASSUME Inductive, frames # <<>>, Top.pc <= Len(Top.actions)
  PROVE  /\ Act \in ActionArgs
         /\ Acct \in Named(Top)
         /\ Act.type \in {"Transfer", "Trade", "Liquidate", "Vaporize"}
              => Othr \in Named(Top)
         /\ Act.type # "Call"
              => Act.primaryMarket \in Markets \cap DOMAIN Top.cache
         /\ Act.type \in {"Buy", "Sell", "Trade", "Liquidate", "Vaporize"}
              => Act.secondaryMarket \in Markets \cap DOMAIN Top.cache
<1>1. /\ Top.accounts \in Seq(Accounts) /\ Top.actions \in Seq(ActionArgs)
      /\ Top.pc \in Nat \ {0}
  BY TopFacts DEF IsFrame
<1>2. Top.pc \in DOMAIN Top.actions /\ Act \in ActionArgs
  BY <1>1 DEF Act
<1>3. ActionAccepted(Top.actions, Top.pc, Len(Top.accounts))
  BY <1>2, TopFacts DEF FrameSound, RequestSound
<1>4. Act.account \in DOMAIN Top.accounts
  BY <1>1, <1>3 DEF ActionAccepted, Act
<1>5. Act.type \in {"Transfer", "Trade", "Liquidate", "Vaporize"}
        => Act.other \in DOMAIN Top.accounts
  BY <1>1, <1>3 DEF ActionAccepted, Act, OnePrimary, TwoPrimary, PrimaryAndSecondary
<1>6. MarketsOf(Act) \subseteq DOMAIN Top.cache
  <2>1. MarketsOf(Act) \subseteq ActionMarkets(Top.actions)
    BY <1>2 DEF ActionMarkets, Act
  <2> QED
    BY <2>1, TopFacts DEF FrameSound, CacheSound
<1>7. Act.primaryMarket \in Markets /\ Act.secondaryMarket \in Markets
  BY <1>2 DEF ActionArgs
<1>8. Act.type # "Call" => Act.primaryMarket \in MarketsOf(Act)
  BY DEF MarketsOf, ZeroMarkets, OneMarket
<1>9. Act.type \in {"Buy", "Sell", "Trade", "Liquidate", "Vaporize"}
        => Act.secondaryMarket \in MarketsOf(Act)
  BY DEF MarketsOf, ZeroMarkets, OneMarket
<1> QED
  BY <1>2, <1>4, <1>5, <1>6, <1>7, <1>8, <1>9 DEF Named, Acct, Othr

-----------------------------------------------------------------------------
(* Moving on.                                                              *)

(* Moving on to the next action, or to the external call of this one,      *)
(* leaves what the frame was built from as it was.                         *)
LEMMA AdvanceFrame ==
  ASSUME Inductive, frames # <<>>, Top.pc <= Len(Top.actions),
         \/ Advance
         \/ \E call \in CallType : Await(call)
  PROVE  /\ frames' = <<Top'>>
         /\ IsFrame(Top)'
         /\ RequestSound(Top)'
         /\ Top'.accounts = Top.accounts
         /\ Top'.actions = Top.actions
         /\ Top'.cache = Top.cache
         /\ Top'.saved = Top.saved
<1>1. PICK next :
        /\ frames' = [frames EXCEPT ![1] = next]
        /\ \/ next = [Top EXCEPT !.pc = Top.pc + 1, !.waiting = FALSE, !.call = NoCall]
           \/ \E call \in CallType : next = [Top EXCEPT !.waiting = TRUE, !.call = call]
  <2>1. frames[1] = Top /\ Len(frames) = 1
    BY TopFacts, OneFrame
  <2>2. CASE Advance
    BY <2>1, <2>2 DEF Advance
  <2>3. CASE \E call \in CallType : Await(call)
    BY <2>1, <2>3 DEF Await
  <2> QED
    BY <2>2, <2>3
<1>2. frames' = <<next>>
  <2>1. frames' = [<<Top>> EXCEPT ![1] = next]
    BY <1>1, TopFacts
  <2> QED
    BY <2>1, OneFrame
<1>3. Top' = next
  BY <1>2, OneFrame DEF Top
<1>4. IsFrame(next)
  <2>1. IsFrame(Top)
    BY TopFacts
  <2>2. Top.pc + 1 \in Nat \ {0}
    <3>1. Top.pc \in Nat \ {0}
      BY <2>1 DEF IsFrame
    <3> QED
      BY <3>1
  <2>3. CASE next = [Top EXCEPT !.pc = Top.pc + 1, !.waiting = FALSE, !.call = NoCall]
    BY <2>1, <2>2, <2>3, NoCallType DEF IsFrame, CallType
  <2>4. CASE \E call \in CallType : next = [Top EXCEPT !.waiting = TRUE, !.call = call]
    BY <2>1, <2>4 DEF IsFrame, CallType
  <2> QED
    BY <1>1, <2>3, <2>4
<1>5. /\ next.accounts = Top.accounts /\ next.actions = Top.actions
      /\ next.cache = Top.cache /\ next.saved = Top.saved
      /\ next.primary = Top.primary /\ next.counts = Top.counts
      /\ next.waiting => next.pc <= Len(Top.actions)
  BY <1>1, TopFacts DEF IsFrame
<1>6. RequestSound(next)
  BY <1>5, TopFacts DEF FrameSound, RequestSound
<1> QED
  BY <1>2, <1>3, <1>4, <1>5, <1>6

(* A step of an action keeps Inductive if, beside moving on, all it does   *)
(* is to write balances the operation may write, move tokens and set       *)
(* flags.                                                                  *)
LEMMA ActionStep ==
  ASSUME Inductive, frames # <<>>, Top.pc <= Len(Top.actions),
         \/ Advance
         \/ \E call \in CallType : Await(call),
         Kept(ledger', Top.saved.ledger, Named(Top), DOMAIN Top.cache),
         ledger'.fits,
         status' \in [Accounts -> StatusType],
         vault' \in [Markets -> Nat],
         UNCHANGED <<index, operators, isClosing, maxWei, maxMarkets, price,
                     now, locked>>
  PROVE  Inductive'
<1>1. /\ frames' = <<Top'>>
      /\ IsFrame(Top)'
      /\ RequestSound(Top)'
      /\ Top'.accounts = Top.accounts
      /\ Top'.actions = Top.actions
      /\ Top'.cache = Top.cache
      /\ Top'.saved = Top.saved
  BY AdvanceFrame
<1>2. /\ frames' # <<>>
      /\ DOMAIN frames' = {1}
      /\ frames'[1] = Top'
  BY <1>1
<1>3. ledger' \in LedgerType /\ SummariesMatch(ledger') /\ TotalsMatch(ledger')
  BY DEF Kept, Sound
<1>4. TypeOK'
  <2>1. \A d \in DOMAIN frames' : IsFrame(frames[d])'
    BY <1>1, <1>2
  <2> QED
    BY <1>3, <2>1 DEF Inductive, TypeOK
<1>5. BooksSound(ledger, index)'
  BY <1>3 DEF Inductive, BooksSound
<1>6. FrameSound(Top)'
  <2>1. Named(Top)' = Named(Top)
    BY <1>1 DEF Named
  <2>2. FrameSound(Top)
    BY TopFacts
  <2>3. CacheSound(Top)'
    BY <1>1, <2>1, <2>2 DEF FrameSound, CacheSound, ActionMarkets
  <2>4. SavedSound(Top)'
    BY <1>1, <2>2 DEF FrameSound, SavedSound, BooksSound, Isolated
  <2>5. SameElsewhere(ledger, Top.saved.ledger, Named(Top), DOMAIN Top.cache)'
    BY <1>1, <2>1 DEF Kept
  <2> QED
    BY <1>1, <2>3, <2>4, <2>5 DEF FrameSound
<1>7. locked'
  BY TopFacts
<1> QED
  BY <1>1, <1>2, <1>4, <1>5, <1>6, <1>7 DEF Inductive

(* An action that is at work or returning has not run past the last one.   *)
LEMMA AtFacts ==
  ASSUME Inductive, NEW type, At(type) \/ Returning(type)
  PROVE  /\ frames # <<>>
         /\ Top.pc <= Len(Top.actions)
         /\ Act.type = type
<1>1. frames # <<>> /\ Act.type = type
  BY DEF At, Returning
<1>2. Top.waiting => Top.pc <= Len(Top.actions)
  BY <1>1, TopFacts DEF FrameSound, RequestSound
<1> QED
  BY <1>1, <1>2 DEF At, Returning

(* The types of the variables the actions read most.                       *)
LEMMA StateTypes ==
  ASSUME Inductive
  PROVE  /\ status \in [Accounts -> StatusType]
         /\ vault \in [Markets -> Nat]
         /\ index \in [Markets -> IndexType]
BY DEF Inductive, TypeOK

(* What Act.amount asks of a balance is an integer.                        *)
LEMMA AskedType ==
  ASSUME Inductive, frames # <<>>, Top.pc <= Len(Top.actions),
         NEW L, Sound(L), NEW a \in Accounts, NEW m \in DOMAIN Top.cache
  PROVE  /\ GetNewParAndDeltaWei(L, a, m, IndexOf(m), Act.amount).par \in Int
         /\ GetNewParAndDeltaWei(L, a, m, IndexOf(m), Act.amount).wei \in Int
         /\ GetNewParAndDeltaWeiForLiquidation(L, a, m, IndexOf(m), Act.amount).par \in Int
         /\ GetNewParAndDeltaWeiForLiquidation(L, a, m, IndexOf(m), Act.amount).wei \in Int
<1>1. Act.amount \in AssetAmount
  BY ActFacts DEF ActionArgs
<1>2. m \in Markets /\ IndexOf(m) \in IndexType
  BY CacheFacts
<1> QED
  BY <1>1, <1>2, NewParType, NewParForLiquidationType

(* The ledgers an action may make of the current one by its writes.        *)
Writable(L) == Kept(L, Top.saved.ledger, Named(Top), DOMAIN Top.cache)

(* setPar and setParFromDeltaWei, called for an account of the operation   *)
(* in one of its cached markets, keep the ledger writable.                 *)
LEMMA WriteKept ==
  ASSUME Inductive, frames # <<>>,
         NEW L, Writable(L),
         NEW a \in Named(Top), NEW m \in Markets \cap DOMAIN Top.cache
  PROVE  /\ \A new \in Int : Writable(SetPar(L, a, m, new))
         /\ \A wei \in Int :
              Writable(SetParFromDeltaWei(L, a, m, IndexOf(m), wei))
<1>1. Named(Top) \in SUBSET Accounts
  BY LedgerKept
<1>2. IndexOf(m) \in IndexType
  BY CacheFacts
<1> QED
  BY <1>1, <1>2, SetParKept, SetParFromDeltaWeiKept DEF Writable

(* The current ledger is one the operation may write to.                   *)
LEMMA LedgerWritable ==
  ASSUME Inductive, frames # <<>>
  PROVE  Writable(ledger)
BY LedgerKept DEF Writable

-----------------------------------------------------------------------------
(* The actions.                                                            *)

(* A deposit writes one balance of its account and takes tokens in.        *)
LEMMA DepositStep ==
  ASSUME Inductive, Deposit
  PROVE  Inductive'
<1> DEFINE m     == Act.primaryMarket
           moved == GetNewParAndDeltaWei(ledger, Acct, m, IndexOf(m), Act.amount)
<1>1. frames # <<>> /\ Top.pc <= Len(Top.actions) /\ Act.type = "Deposit"
  BY AtFacts DEF Deposit
<1>2. Acct \in Named(Top) /\ Acct \in Accounts /\ m \in Markets \cap DOMAIN Top.cache
  BY <1>1, ActFacts, LedgerKept
<1>3. moved.par \in Int /\ moved.wei \in Int
  BY <1>1, <1>2, AskedType, LedgerSound
<1>4. ledger' = SetPar(ledger, Acct, m, moved.par) /\ ledger'.fits
  BY DEF Deposit, Booked
<1>5. Writable(ledger')
  <2> HIDE DEF moved
  <2> QED
    BY <1>1, <1>2, <1>3, <1>4, WriteKept, LedgerWritable
<1>6. vault' = [vault EXCEPT ![m] = @ + moved.wei] /\ moved.wei >= 0
  BY DEF Deposit
<1>7. vault' \in [Markets -> Nat]
  <2> HIDE DEF moved
  <2> QED
    BY <1>2, <1>3, <1>6, StateTypes
<1> HIDE DEF moved, m
<1> QED
  BY <1>1, <1>4, <1>5, <1>7, StateTypes, ActionStep DEF Deposit, Writable

(* A withdrawal writes one balance of its account and sends tokens out, at *)
(* most those there are.                                                   *)
LEMMA WithdrawStep ==
  ASSUME Inductive, Withdraw
  PROVE  Inductive'
<1> DEFINE m     == Act.primaryMarket
           moved == GetNewParAndDeltaWei(ledger, Acct, m, IndexOf(m), Act.amount)
           out   == IF Act.address = Self THEN 0 ELSE -moved.wei
<1>1. frames # <<>> /\ Top.pc <= Len(Top.actions) /\ Act.type = "Withdraw"
  BY AtFacts DEF Withdraw
<1>2. Acct \in Named(Top) /\ Acct \in Accounts /\ m \in Markets \cap DOMAIN Top.cache
  BY <1>1, ActFacts, LedgerKept
<1>3. moved.par \in Int /\ moved.wei \in Int
  BY <1>1, <1>2, AskedType, LedgerSound
<1>4. ledger' = SetPar(ledger, Acct, m, moved.par) /\ ledger'.fits
  BY DEF Withdraw, Booked
<1>5. Writable(ledger')
  <2> HIDE DEF moved
  <2> QED
    BY <1>1, <1>2, <1>3, <1>4, WriteKept, LedgerWritable
<1>6. vault' = [vault EXCEPT ![m] = @ - out] /\ out <= vault[m] /\ out \in Int
  BY <1>3 DEF Withdraw
<1>7. vault' \in [Markets -> Nat]
  <2> HIDE DEF out
  <2> QED
    BY <1>2, <1>6, StateTypes
<1> HIDE DEF moved, m, out
<1> QED
  BY <1>1, <1>4, <1>5, <1>7, StateTypes, ActionStep DEF Withdraw, Writable

(* A transfer writes the same market of two accounts.                      *)
LEMMA TransferStep ==
  ASSUME Inductive, Transfer
  PROVE  Inductive'
<1> DEFINE m     == Act.primaryMarket
           moved == GetNewParAndDeltaWei(ledger, Acct, m, IndexOf(m), Act.amount)
           first == SetPar(ledger, Acct, m, moved.par)
<1>1. frames # <<>> /\ Top.pc <= Len(Top.actions) /\ Act.type = "Transfer"
  BY AtFacts DEF Transfer
<1>2. /\ Acct \in Named(Top) /\ Acct \in Accounts
      /\ Othr \in Named(Top)
      /\ m \in Markets \cap DOMAIN Top.cache
  BY <1>1, ActFacts, LedgerKept
<1>3. moved.par \in Int /\ moved.wei \in Int /\ -moved.wei \in Int
  BY <1>1, <1>2, AskedType, LedgerSound
<1>4. /\ ledger' = SetParFromDeltaWei(first, Othr, m, IndexOf(m), -moved.wei)
      /\ ledger'.fits
  BY DEF Transfer, Booked
<1>5. Writable(ledger')
  <2>1. Writable(first)
    <3> HIDE DEF moved
    <3> QED
      BY <1>1, <1>2, <1>3, WriteKept, LedgerWritable
  <2> HIDE DEF first, moved
  <2> QED
    BY <1>1, <1>2, <1>3, <1>4, <2>1, WriteKept
<1> HIDE DEF moved, m, first
<1> QED
  BY <1>1, <1>4, <1>5, StateTypes, ActionStep DEF Transfer, Writable

(* A step that only captures values for after its external call.           *)
LEMMA AwaitStep ==
  ASSUME Inductive, frames # <<>>, Top.pc <= Len(Top.actions),
         NEW call \in CallType, Await(call),
         ledger' = ledger,
         status' \in [Accounts -> StatusType],
         vault' \in [Markets -> Nat],
         UNCHANGED <<index, operators, isClosing, maxWei, maxMarkets, price,
                     now, locked>>
  PROVE  Inductive'
BY LedgerSound, LedgerWritable, ActionStep DEF Writable

(* Paying an exchange never takes more tokens than there are.              *)
LEMMA PaymentType ==
  ASSUME Inductive, NEW m \in Markets, NEW wei \in Int, PayExchange(m, wei)
  PROVE  vault' \in [Markets -> Nat]
<1>1. vault' = [vault EXCEPT ![m] = @ + wei] /\ -wei <= vault[m]
  BY DEF PayExchange
<1> QED
  BY <1>1, StateTypes

(* Tokens received add to those there are.                                 *)
LEMMA ReceiptType ==
  ASSUME Inductive, NEW m \in Markets, NEW received \in Nat,
         ReceiveFromExchange(m, received)
  PROVE  vault' \in [Markets -> Nat]
<1>1. vault' = [vault EXCEPT ![m] = @ + received]
  BY DEF ReceiveFromExchange
<1> QED
  BY <1>1, StateTypes

(* A buy captures the maker side before the exchange is called.            *)
LEMMA BuyStep ==
  ASSUME Inductive, NEW cost \in ExternalAmounts, Buy(cost)
  PROVE  Inductive'
<1> DEFINE maker  == Act.primaryMarket
           bought == GetNewParAndDeltaWei(ledger, Acct, maker, IndexOf(maker), Act.amount)
           call   == Captured(bought.par, bought.wei, -cost)
<1>1. frames # <<>> /\ Top.pc <= Len(Top.actions) /\ Act.type = "Buy"
  BY AtFacts DEF Buy
<1>2. /\ Acct \in Accounts
      /\ maker \in DOMAIN Top.cache /\ Act.secondaryMarket \in Markets
      /\ cost \in Nat /\ -cost \in Int
  BY <1>1, ActFacts, LedgerKept
<1>3. bought.par \in Int /\ bought.wei \in Int
  BY <1>1, <1>2, AskedType, LedgerSound
<1>4. call \in CallType
  <2> HIDE DEF bought
  <2> QED
    BY <1>2, <1>3, CapturedType
<1>5. Await(call) /\ PayExchange(Act.secondaryMarket, -cost)
  BY DEF Buy
<1>6. vault' \in [Markets -> Nat]
  BY <1>2, <1>5, PaymentType
<1> HIDE DEF call
<1> QED
  BY <1>1, <1>4, <1>5, <1>6, StateTypes, AwaitStep DEF Buy

(* A sell captures the taker side before the exchange is called.           *)
LEMMA SellStep ==
  ASSUME Inductive, Sell
  PROVE  Inductive'
<1> DEFINE taker == Act.primaryMarket
           sold  == GetNewParAndDeltaWei(ledger, Acct, taker, IndexOf(taker), Act.amount)
           call  == Captured(sold.par, sold.wei, 0)
<1>1. frames # <<>> /\ Top.pc <= Len(Top.actions) /\ Act.type = "Sell"
  BY AtFacts DEF Sell
<1>2. Acct \in Accounts /\ taker \in Markets \cap DOMAIN Top.cache
  BY <1>1, ActFacts, LedgerKept
<1>3. sold.par \in Int /\ sold.wei \in Int
  BY <1>1, <1>2, AskedType, LedgerSound
<1>4. call \in CallType
  <2> HIDE DEF sold
  <2> QED
    BY <1>3, CapturedType
<1>5. Await(call) /\ PayExchange(taker, sold.wei)
  BY DEF Sell
<1>6. vault' \in [Markets -> Nat]
  <2> HIDE DEF sold
  <2> QED
    BY <1>2, <1>3, <1>5, PaymentType
<1> HIDE DEF call
<1> QED
  BY <1>1, <1>4, <1>5, <1>6, StateTypes, AwaitStep DEF Sell

(* A trade captures the input side before the auto trader is called.       *)
LEMMA TradeStep ==
  ASSUME Inductive, Trade
  PROVE  Inductive'
<1> DEFINE input == Act.primaryMarket
           moved == GetNewParAndDeltaWei(ledger, Othr, input, IndexOf(input), Act.amount)
           call  == Captured(moved.par, moved.wei, 0)
<1>1. frames # <<>> /\ Top.pc <= Len(Top.actions) /\ Act.type = "Trade"
  BY AtFacts DEF Trade
<1>2. Othr \in Accounts /\ input \in DOMAIN Top.cache
  BY <1>1, ActFacts, LedgerKept
<1>3. moved.par \in Int /\ moved.wei \in Int
  BY <1>1, <1>2, AskedType, LedgerSound
<1>4. call \in CallType
  <2> HIDE DEF moved
  <2> QED
    BY <1>3, CapturedType
<1>5. Await(call)
  BY DEF Trade
<1> HIDE DEF call
<1> QED
  BY <1>1, <1>4, <1>5, StateTypes, AwaitStep DEF Trade

(* A call captures nothing.                                                *)
LEMMA CallFunctionStep ==
  ASSUME Inductive, CallFunction
  PROVE  Inductive'
<1>1. frames # <<>> /\ Top.pc <= Len(Top.actions)
  BY AtFacts DEF CallFunction
<1> QED
  BY <1>1, NoCallType, StateTypes, AwaitStep DEF CallFunction

(* Its return only moves on.                                               *)
LEMMA CallReturnStep ==
  ASSUME Inductive, CallReturn
  PROVE  Inductive'
<1>1. frames # <<>> /\ Top.pc <= Len(Top.actions)
  BY AtFacts DEF CallReturn
<1> QED
  BY <1>1, StateTypes, LedgerSound, LedgerWritable, ActionStep DEF CallReturn, Writable

(* The values captured before an external call.                            *)
LEMMA CallFacts ==
  ASSUME Inductive, frames # <<>>
  PROVE  /\ Top.call.par \in Int
         /\ Top.call.wei \in Int /\ -Top.call.wei \in Int
         /\ Top.call.otherWei \in Int /\ -Top.call.otherWei \in Int
<1>1. Top.call \in CallType
  BY TopFacts DEF IsFrame, CallType
<1> QED
  BY <1>1 DEF CallType

(* A buy then writes both markets of its account.                          *)
LEMMA BuyReturnStep ==
  ASSUME Inductive, NEW received \in ExternalAmounts, BuyReturn(received)
  PROVE  Inductive'
<1> DEFINE maker == Act.primaryMarket
           taker == Act.secondaryMarket
           first == SetPar(ledger, Acct, maker, Top.call.par)
<1>1. frames # <<>> /\ Top.pc <= Len(Top.actions) /\ Act.type = "Buy"
  BY AtFacts DEF BuyReturn
<1>2. /\ Acct \in Named(Top)
      /\ maker \in Markets \cap DOMAIN Top.cache
      /\ taker \in Markets \cap DOMAIN Top.cache
  BY <1>1, ActFacts
<1>3. Top.call.par \in Int /\ Top.call.otherWei \in Int
  BY <1>1, CallFacts
<1>4. Writable(first)
  BY <1>1, <1>2, <1>3, WriteKept, LedgerWritable
<1>5. /\ ledger' = SetParFromDeltaWei(first, Acct, taker, IndexOf(taker), Top.call.otherWei)
      /\ ledger'.fits
  BY DEF BuyReturn, Booked
<1>6. Writable(ledger')
  <2> HIDE DEF first
  <2> QED
    BY <1>1, <1>2, <1>3, <1>4, <1>5, WriteKept
<1>7. vault' \in [Markets -> Nat]
  BY <1>2, ReceiptType DEF BuyReturn
<1> QED
  BY <1>1, <1>5, <1>6, <1>7, StateTypes, ActionStep DEF BuyReturn, Writable

(* So does a sell.                                                         *)
LEMMA SellReturnStep ==
  ASSUME Inductive, NEW received \in ExternalAmounts, SellReturn(received)
  PROVE  Inductive'
<1> DEFINE taker == Act.primaryMarket
           maker == Act.secondaryMarket
           first == SetPar(ledger, Acct, taker, Top.call.par)
<1>1. frames # <<>> /\ Top.pc <= Len(Top.actions) /\ Act.type = "Sell"
  BY AtFacts DEF SellReturn
<1>2. /\ Acct \in Named(Top)
      /\ maker \in Markets \cap DOMAIN Top.cache
      /\ taker \in Markets \cap DOMAIN Top.cache
  BY <1>1, ActFacts
<1>3. Top.call.par \in Int /\ received \in Int
  <2>1. received \in Nat
    OBVIOUS
  <2> QED
    BY <1>1, <2>1, CallFacts
<1>4. Writable(first)
  BY <1>1, <1>2, <1>3, WriteKept, LedgerWritable
<1>5. /\ ledger' = SetParFromDeltaWei(first, Acct, maker, IndexOf(maker), received)
      /\ ledger'.fits
  BY DEF SellReturn, Booked
<1>6. Writable(ledger')
  <2> HIDE DEF first
  <2> QED
    BY <1>1, <1>2, <1>3, <1>4, <1>5, WriteKept
<1>7. vault' \in [Markets -> Nat]
  BY <1>2, ReceiptType DEF SellReturn
<1> QED
  BY <1>1, <1>5, <1>6, <1>7, StateTypes, ActionStep DEF SellReturn, Writable

(* A trade then writes both markets of both accounts.                      *)
LEMMA TradeReturnStep ==
  ASSUME Inductive, NEW answer \in OutputAmounts, TradeReturn(answer)
  PROVE  Inductive'
<1> DEFINE input    == Act.primaryMarket
           output   == Act.secondaryMarket
           inputWei == Top.call.wei
           moved    == GetNewParAndDeltaWei(ledger, Othr, output, IndexOf(output), answer)
           first    == SetPar(ledger, Othr, input, Top.call.par)
           maker    == SetPar(first, Othr, output, moved.par)
           third    == SetParFromDeltaWei(maker, Acct, input, IndexOf(input), -inputWei)
<1>1. frames # <<>> /\ Top.pc <= Len(Top.actions) /\ Act.type = "Trade"
  BY AtFacts DEF TradeReturn
<1>2. /\ Acct \in Named(Top) /\ Othr \in Named(Top) /\ Othr \in Accounts
      /\ input \in Markets \cap DOMAIN Top.cache
      /\ output \in Markets \cap DOMAIN Top.cache
  BY <1>1, ActFacts, LedgerKept
<1>3. Top.call.par \in Int /\ -inputWei \in Int
  BY <1>1, CallFacts
<1>4. moved.par \in Int /\ moved.wei \in Int /\ -moved.wei \in Int
  <2>1. answer \in AssetAmount
    OBVIOUS
  <2>2. IndexOf(output) \in IndexType
    BY <1>1, <1>2, CacheFacts
  <2> QED
    BY <1>2, <2>1, <2>2, NewParType, LedgerSound
<1>5. /\ ledger' = SetParFromDeltaWei(third, Acct, output, IndexOf(output), -moved.wei)
      /\ ledger'.fits
  BY DEF TradeReturn, Booked
<1> HIDE DEF moved
<1>6. Writable(first)
  BY <1>1, <1>2, <1>3, WriteKept, LedgerWritable
<1> HIDE DEF first
<1>7. Writable(maker)
  BY <1>1, <1>2, <1>4, <1>6, WriteKept
<1> HIDE DEF maker
<1>8. Writable(third)
  BY <1>1, <1>2, <1>3, <1>7, WriteKept
<1> HIDE DEF third
<1>9. Writable(ledger')
  BY <1>1, <1>2, <1>4, <1>5, <1>8, WriteKept
<1> QED
  BY <1>1, <1>5, <1>9, StateTypes, ActionStep DEF TradeReturn, Writable

-----------------------------------------------------------------------------
(* Liquidation and vaporization.                                           *)

(* What a liquidation or a vaporization exchanges is a captured value: the *)
(* prices it divides by are never zero.                                    *)
LEMMA ExchangedType ==
  ASSUME Inductive, frames # <<>>,
         NEW held \in DOMAIN Top.cache, NEW owed \in DOMAIN Top.cache,
         NEW repaid, repaid.par \in Int, repaid.wei \in Int,
         NEW maxHeld \in Int, maxHeld >= 0
  PROVE  Exchanged(repaid, held, owed, maxHeld) \in CallType
<1> DEFINE heldPrice == Top.cache[held].price
           owedPrice == OwedPriceAdjusted(held, owed)
           heldWei   == OwedWeiToHeldWei(repaid.wei, heldPrice, owedPrice)
<1>1. /\ heldPrice \in Nat \ {0}
      /\ Top.cache[owed].price \in Nat \ {0}
      /\ held \in Markets /\ owed \in Markets
  BY CacheFacts
<1>2. GetLiquidationSpreadForPair(held, owed) \in Nat
  <2>1. SpreadPremium[held] \in Nat /\ SpreadPremium[owed] \in Nat
    BY <1>1
  <2>2. OnePlus(SpreadPremium[held]) \in Nat /\ OnePlus(SpreadPremium[owed]) \in Nat
    BY <2>1, DecimalType
  <2>3. DecimalMul(LiquidationSpread, OnePlus(SpreadPremium[held])) \in Nat
    BY <2>2, DecimalType
  <2> QED
    BY <2>2, <2>3, DecimalType DEF GetLiquidationSpreadForPair
<1>3. owedPrice \in Nat \ {0}
  <2> DEFINE plain == Top.cache[owed].price
  <2>1. owedPrice = plain + DecimalMul(plain, GetLiquidationSpreadForPair(held, owed))
    BY DEF OwedPriceAdjusted
  <2>2. plain \in Nat \ {0}
    BY <1>1
  <2> HIDE DEF plain
  <2>3. DecimalMul(plain, GetLiquidationSpreadForPair(held, owed)) \in Nat
    BY <1>2, <2>2, DecimalType
  <2> QED
    BY <2>1, <2>2, <2>3
<1> HIDE DEF owedPrice, heldPrice
<1>4. heldWei \in Int
  <2>1. (repaid.wei * owedPrice) \div heldPrice \in Int
    BY <1>1, <1>3
  <2> QED
    BY <2>1 DEF OwedWeiToHeldWei, GetPartial
<1>5. HeldWeiToOwedWei(maxHeld, heldPrice, owedPrice) \in Int
  <2>1. maxHeld \in Nat
    OBVIOUS
  <2>2. GetPartialRoundUp(maxHeld, heldPrice, owedPrice) \in Nat
    BY <1>1, <1>3, <2>1, PartialType
  <2> QED
    BY <2>2 DEF HeldWeiToOwedWei
<1>6. Exchanged(repaid, held, owed, maxHeld) =
        IF heldWei > maxHeld
        THEN [par |-> 0, wei |-> HeldWeiToOwedWei(maxHeld, heldPrice, owedPrice),
              otherWei |-> -maxHeld, bounded |-> TRUE]
        ELSE Captured(repaid.par, repaid.wei, -heldWei)
  BY DEF Exchanged, owedPrice, heldPrice
<1> HIDE DEF heldWei
<1>7. Captured(repaid.par, repaid.wei, -heldWei) \in CallType
  BY <1>4, CapturedType
<1> QED
  BY <1>4, <1>5, <1>6, <1>7 DEF CallType

(* A liquidation flags the account and captures what is exchanged before   *)
(* the liquidation callback runs.                                          *)
LEMMA LiquidateStep ==
  ASSUME Inductive, Liquidate
  PROVE  Inductive'
<1> DEFINE owed    == Act.primaryMarket
           held    == Act.secondaryMarket
           maxHeld == GetWei(ledger, Othr, held, IndexOf(held))
           repaid  == GetNewParAndDeltaWeiForLiquidation(ledger, Othr, owed,
                        IndexOf(owed), Act.amount)
           call    == Exchanged(repaid, held, owed, maxHeld)
<1>1. frames # <<>> /\ Top.pc <= Len(Top.actions) /\ Act.type = "Liquidate"
  BY AtFacts DEF Liquidate
<1>2. /\ Othr \in Accounts
      /\ owed \in DOMAIN Top.cache /\ held \in DOMAIN Top.cache /\ held \in Markets
  BY <1>1, ActFacts, LedgerKept
<1>3. maxHeld \in Int /\ maxHeld >= 0
  <2>1. maxHeld \in Int
    BY <1>1, <1>2, CacheFacts, LedgerSound, GetWeiType
  <2> QED
    BY <2>1 DEF Liquidate
<1>4. repaid.par \in Int /\ repaid.wei \in Int
  BY <1>1, <1>2, AskedType, LedgerSound
<1>5. call \in CallType
  <2> HIDE DEF repaid, maxHeld
  <2> QED
    BY <1>1, <1>2, <1>3, <1>4, ExchangedType
<1>6. Await(call) /\ status' = [status EXCEPT ![Othr] = "Liquid"]
  BY DEF Liquidate
<1> HIDE DEF call
<1>7. status' \in [Accounts -> StatusType]
  BY <1>6, StateTypes DEF StatusType
<1> QED
  BY <1>1, <1>5, <1>6, <1>7, StateTypes, AwaitStep DEF Liquidate

(* The solid account's side of a liquidation or a vaporization.            *)
LEMMA PaidBySolidKept ==
  ASSUME Inductive, frames # <<>>, NEW L, Writable(L),
         Acct \in Named(Top),
         NEW owed \in Markets \cap DOMAIN Top.cache,
         NEW held \in Markets \cap DOMAIN Top.cache
  PROVE  Writable(PaidBySolid(L, owed, held))
<1> DEFINE first == SetParFromDeltaWei(L, Acct, owed, IndexOf(owed), -Top.call.wei)
<1>1. -Top.call.wei \in Int /\ -Top.call.otherWei \in Int
  BY CallFacts
<1>2. Writable(first)
  BY <1>1, WriteKept
<1>3. PaidBySolid(L, owed, held)
        = SetParFromDeltaWei(first, Acct, held, IndexOf(held), -Top.call.otherWei)
  BY DEF PaidBySolid
<1> HIDE DEF first
<1> QED
  BY <1>1, <1>2, <1>3, WriteKept

(* It then writes both markets of both accounts.                           *)
LEMMA LiquidateReturnStep ==
  ASSUME Inductive, LiquidateReturn
  PROVE  Inductive'
<1> DEFINE owed == Act.primaryMarket
           held == Act.secondaryMarket
           taken == SetPar(ledger, Othr, held, 0)
           repaid == SetPar(ledger, Othr, owed, Top.call.par)
           seized == IF Top.call.bounded
                     THEN SetParFromDeltaWei(taken, Othr, owed, IndexOf(owed), Top.call.wei)
                     ELSE SetParFromDeltaWei(repaid, Othr, held, IndexOf(held),
                                             Top.call.otherWei)
<1>1. frames # <<>> /\ Top.pc <= Len(Top.actions) /\ Act.type = "Liquidate"
  BY AtFacts DEF LiquidateReturn
<1>2. /\ Acct \in Named(Top) /\ Othr \in Named(Top)
      /\ owed \in Markets \cap DOMAIN Top.cache
      /\ held \in Markets \cap DOMAIN Top.cache
  BY <1>1, ActFacts
<1>3. /\ Top.call.par \in Int /\ 0 \in Int
      /\ Top.call.wei \in Int /\ Top.call.otherWei \in Int
  BY <1>1, CallFacts
<1>4. Writable(taken) /\ Writable(repaid)
  BY <1>1, <1>2, <1>3, WriteKept, LedgerWritable
<1>5. ledger' = PaidBySolid(seized, owed, held) /\ ledger'.fits
  BY DEF LiquidateReturn, Booked
<1> HIDE DEF taken, repaid
<1>6. Writable(seized)
  BY <1>1, <1>2, <1>3, <1>4, WriteKept
<1> HIDE DEF seized
<1>7. Writable(ledger')
  BY <1>1, <1>2, <1>5, <1>6, PaidBySolidKept
<1> QED
  BY <1>1, <1>5, <1>7, StateTypes, ActionStep DEF LiquidateReturn, Writable

(* The excess of a market is an integer, of either sign.                   *)
LEMMA ExcessType ==
  ASSUME Inductive, NEW L \in LedgerType, NEW m \in Markets
  PROVE  ExcessOf(L, m) \in Int
<1>1. index[m] \in IndexType /\ vault[m] \in Nat
  BY StateTypes
<1>2. TotalSupplyWei(L, m, index[m]) \in Nat /\ TotalBorrowWei(L, m, index[m]) \in Nat
  BY <1>1, TotalsType
<1> QED
  BY <1>1, <1>2 DEF ExcessOf, NumExcessTokens

(* Paying a debt from the excess tokens writes the balance of the          *)
(* vaporized account only.                                                 *)
LEMMA VaporizeUsingExcessKept ==
  ASSUME Inductive, frames # <<>>,
         NEW a \in Named(Top), NEW m \in Markets \cap DOMAIN Top.cache
  PROVE  Writable(VaporizeUsingExcess(a, m))
<1> DEFINE excess == ExcessOf(ledger, m)
           refund == Magnitude(GetWei(ledger, a, m, IndexOf(m)))
<1>1. excess \in Int
  BY LedgerSound, ExcessType
<1>2. VaporizeUsingExcess(a, m) =
        IF excess <= 0 THEN ledger
        ELSE IF excess >= refund THEN SetPar(ledger, a, m, 0)
        ELSE SetParFromDeltaWei(ledger, a, m, IndexOf(m), excess)
  BY DEF VaporizeUsingExcess
<1>3. Writable(SetPar(ledger, a, m, 0))
  BY WriteKept, LedgerWritable
<1>4. Writable(SetParFromDeltaWei(ledger, a, m, IndexOf(m), excess))
  <2> HIDE DEF excess
  <2> QED
    BY <1>1, WriteKept, LedgerWritable
<1> QED
  BY <1>2, <1>3, <1>4, LedgerWritable

(* A vaporization that the owed market pays for writes that balance.       *)
LEMMA VaporizeFullyStep ==
  ASSUME Inductive, VaporizeFully
  PROVE  Inductive'
<1> DEFINE owed == Act.primaryMarket
<1>1. frames # <<>> /\ Top.pc <= Len(Top.actions) /\ Act.type = "Vaporize"
  BY AtFacts DEF VaporizeFully
<1>2. Othr \in Named(Top) /\ owed \in Markets \cap DOMAIN Top.cache
  BY <1>1, ActFacts
<1>3. ledger' = VaporizeUsingExcess(Othr, owed) /\ ledger'.fits
  BY DEF VaporizeFully, Booked
<1>4. Writable(ledger')
  BY <1>1, <1>2, <1>3, VaporizeUsingExcessKept
<1>5. status' \in [Accounts -> StatusType]
  BY StateTypes DEF VaporizeFully, StatusType
<1> QED
  BY <1>1, <1>3, <1>4, <1>5, StateTypes, ActionStep DEF VaporizeFully, Writable

(* Any other one captures what is exchanged as well.                       *)
LEMMA VaporizeStep ==
  ASSUME Inductive, Vaporize
  PROVE  Inductive'
<1> DEFINE owed    == Act.primaryMarket
           held    == Act.secondaryMarket
           partly  == VaporizeUsingExcess(Othr, owed)
           maxHeld == ExcessOf(partly, held)
           repaid  == GetNewParAndDeltaWeiForLiquidation(partly, Othr, owed,
                        IndexOf(owed), Act.amount)
           call    == Exchanged(repaid, held, owed, maxHeld)
<1>1. frames # <<>> /\ Top.pc <= Len(Top.actions) /\ Act.type = "Vaporize"
  BY AtFacts DEF Vaporize
<1>2. /\ Othr \in Named(Top) /\ Othr \in Accounts
      /\ owed \in Markets \cap DOMAIN Top.cache
      /\ held \in Markets \cap DOMAIN Top.cache
  BY <1>1, ActFacts, LedgerKept
<1>3. ledger' = partly /\ partly.fits
  BY DEF Vaporize, Booked
<1>4. Writable(partly)
  BY <1>1, <1>2, VaporizeUsingExcessKept
<1>5. Sound(partly) /\ partly \in LedgerType
  BY <1>3, <1>4 DEF Writable, Kept, Sound
<1> HIDE DEF partly
<1>6. maxHeld \in Int /\ maxHeld >= 0
  <2>1. maxHeld \in Int
    BY <1>2, <1>5, ExcessType
  <2> QED
    BY <2>1 DEF Vaporize, partly
<1>7. repaid.par \in Int /\ repaid.wei \in Int
  BY <1>1, <1>2, <1>5, AskedType
<1>8. call \in CallType
  <2> HIDE DEF repaid, maxHeld
  <2> QED
    BY <1>1, <1>2, <1>6, <1>7, ExchangedType
<1>9. Await(call) /\ status' = [status EXCEPT ![Othr] = "Vapor"]
  BY DEF Vaporize, partly
<1> HIDE DEF call
<1>10. status' \in [Accounts -> StatusType]
  BY <1>9, StateTypes DEF StatusType
<1> QED
  BY <1>1, <1>3, <1>4, <1>8, <1>9, <1>10, StateTypes, ActionStep
     DEF Vaporize, Writable

(* It then writes the debt, and both markets of the solid account.         *)
LEMMA VaporizeReturnStep ==
  ASSUME Inductive, VaporizeReturn
  PROVE  Inductive'
<1> DEFINE owed  == Act.primaryMarket
           held  == Act.secondaryMarket
           freed == IF Top.call.bounded
                    THEN SetParFromDeltaWei(ledger, Othr, owed, IndexOf(owed), Top.call.wei)
                    ELSE SetPar(ledger, Othr, owed, Top.call.par)
<1>1. frames # <<>> /\ Top.pc <= Len(Top.actions) /\ Act.type = "Vaporize"
  BY AtFacts DEF VaporizeReturn
<1>2. /\ Acct \in Named(Top) /\ Othr \in Named(Top)
      /\ owed \in Markets \cap DOMAIN Top.cache
      /\ held \in Markets \cap DOMAIN Top.cache
  BY <1>1, ActFacts
<1>3. Top.call.par \in Int /\ Top.call.wei \in Int
  BY <1>1, CallFacts
<1>4. Writable(freed)
  BY <1>1, <1>2, <1>3, WriteKept, LedgerWritable
<1>5. ledger' = PaidBySolid(freed, owed, held) /\ ledger'.fits
  BY DEF VaporizeReturn, Booked
<1> HIDE DEF freed
<1>6. Writable(ledger')
  BY <1>1, <1>2, <1>4, <1>5, PaidBySolidKept
<1> QED
  BY <1>1, <1>5, <1>6, StateTypes, ActionStep DEF VaporizeReturn, Writable

-----------------------------------------------------------------------------
(* The ends of an operation.                                               *)

(* The end of the only operation leaves no frame.                          *)
LEMMA PopFacts ==
  ASSUME Inductive, frames # <<>>, Pop
  PROVE  frames' = <<>>
<1>1. frames = <<Top>> /\ Len(frames) = 1
  BY TopFacts
<1>2. frames' = SubSeq(<<Top>>, 1, 0)
  BY <1>1 DEF Pop
<1> QED
  BY <1>2, OneFrame

(* The accounts that are checked at the end own what they have in the      *)
(* recyclable markets, and the others are as they were.                    *)
LEMMA CommitIsolated ==
  ASSUME Inductive, frames # <<>>,
         \A m \in DOMAIN Top.cache : RecyclableRespected(m)
  PROVE  Isolated(ledger)
<1>1. SUFFICES ASSUME NEW a \in Accounts, NEW m \in Recyclable, ledger.par[a][m] # 0
               PROVE  Owner[a] = Token[m]
  BY DEF Isolated
<1>2. m \in Markets
  OBVIOUS
<1>3. CASE a \in Named(Top) /\ m \in DOMAIN Top.cache
  <2>1. PICK i \in DOMAIN Top.accounts : Top.accounts[i] = a
    BY <1>3 DEF Named
  <2>2. m \in ledger.held[a]
    BY <1>1, <1>2, LedgerSound DEF Sound, SummariesMatch
  <2> QED
    BY <1>3, <2>1, <2>2 DEF RecyclableRespected
<1>4. CASE a \notin Named(Top) \/ m \notin DOMAIN Top.cache
  <2>1. ledger.par[a][m] = Top.saved.ledger.par[a][m]
    BY <1>2, <1>4, LedgerKept DEF Kept, SameElsewhere
  <2>2. Isolated(Top.saved.ledger)
    BY TopFacts DEF FrameSound, SavedSound
  <2> QED
    BY <1>1, <2>1, <2>2 DEF Isolated
<1> QED
  BY <1>3, <1>4

(* Committing changes no balance; the checks leave the recyclable markets  *)
(* isolated.                                                               *)
LEMMA CommitStep ==
  ASSUME Inductive, Commit
  PROVE  Inductive'
<1>1. frames # <<>> /\ frames' = <<>>
  BY PopFacts DEF Commit
<1>2. Isolated(ledger)
  BY CommitIsolated DEF Commit
<1>3. status' \in [Accounts -> StatusType]
  <2>1. \A a \in Accounts : FinalStatus(a) \in StatusType
    BY StateTypes DEF FinalStatus, StatusType
  <2> QED
    BY <2>1 DEF Commit
<1>4. locked' = FALSE
  BY DEF Commit, ReleaseGuard
<1>5. UNCHANGED <<ledger, index, operators, isClosing, maxWei, maxMarkets,
                  vault, price, now>>
  BY DEF Commit
<1>6. TypeOK'
  <2>1. DOMAIN frames' = {}
    BY <1>1
  <2> QED
    BY <1>3, <1>4, <1>5, <2>1 DEF Inductive, TypeOK
<1>7. BooksSound(ledger, index)'
  BY <1>5 DEF Inductive, BooksSound
<1>8. Isolated(ledger)'
  BY <1>2, <1>5 DEF Isolated
<1> QED
  BY <1>1, <1>4, <1>6, <1>7, <1>8 DEF Inductive

(* Reverting goes back to a state that was sound when the operation began. *)
LEMMA RevertStep ==
  ASSUME Inductive, Revert
  PROVE  Inductive'
<1> DEFINE saved == Top.saved
<1>1. frames # <<>> /\ frames' = <<>>
  BY PopFacts DEF Revert
<1>2. saved \in SnapshotType /\ SavedSound(Top)
  BY <1>1, TopFacts DEF IsFrame, FrameSound
<1>3. /\ ledger' = saved.ledger /\ status' = saved.status
      /\ index' = saved.index /\ operators' = saved.operators
      /\ vault' = saved.vault /\ price' = saved.price
      /\ locked' = saved.locked
      /\ UNCHANGED <<isClosing, maxWei, maxMarkets, now>>
  BY DEF Revert
<1>4. TypeOK'
  <2>1. DOMAIN frames' = {}
    BY <1>1
  <2> HIDE DEF saved
  <2> QED
    BY <1>2, <1>3, <2>1 DEF Inductive, TypeOK, SnapshotType
<1>5. BooksSound(ledger, index)' /\ Isolated(ledger)' /\ ~locked'
  BY <1>2, <1>3 DEF SavedSound, BooksSound, Isolated
<1> QED
  BY <1>1, <1>4, <1>5 DEF Inductive, TypeOK

-----------------------------------------------------------------------------
(* The beginning of an operation.                                          *)

(* An updated index is well typed, is not ahead of time, and is not below  *)
(* what it was.                                                            *)
LEMMA UpdatedIndexType ==
  ASSUME Inductive, NEW m \in Markets, NEW r \in Rates
  PROVE  /\ UpdatedIndex(m, r) \in IndexType
         /\ UpdatedIndex(m, r).lastUpdate <= now
         /\ UpdatedIndex(m, r).borrow >= index[m].borrow
         /\ UpdatedIndex(m, r).supply >= index[m].supply
<1> DEFINE supplyWei == TotalSupplyWei(ledger, m, index[m])
           borrowWei == TotalBorrowWei(ledger, m, index[m])
<1>1. /\ index[m] \in IndexType /\ index[m].lastUpdate <= now
      /\ r \in Nat /\ now \in Nat /\ EarningsRate \in Nat
  BY StateTypes DEF Inductive, BooksSound, TypeOK
<1>2. supplyWei \in Nat /\ borrowWei \in Nat
  BY <1>1, LedgerSound, TotalsType
<1>3. CASE index[m].lastUpdate = now
  BY <1>1, <1>3 DEF UpdatedIndex, IndexType
<1>4. CASE index[m].lastUpdate # now
  <2> DEFINE new == CalculateNewIndex(index[m], r, supplyWei, borrowWei,
                                      EarningsRate, now)
  <2>1. UpdatedIndex(m, r) = new
    BY <1>4 DEF UpdatedIndex
  <2>2. /\ new \in IndexType
        /\ new.lastUpdate = now
        /\ new.borrow >= index[m].borrow
        /\ new.supply >= index[m].supply
    <3> HIDE DEF supplyWei, borrowWei
    <3> QED
      BY <1>1, <1>2, NewIndexType
  <2> HIDE DEF new
  <2> QED
    BY <1>1, <2>1, <2>2
<1> QED
  BY <1>3, <1>4

(* The snapshot that a frame keeps is well typed.                          *)
LEMMA SnapshotTyped ==
  ASSUME Inductive
  PROVE  Snapshot \in SnapshotType
BY DEF Inductive, TypeOK, Snapshot, SnapshotType

(* The primary accounts are positions in the list of accounts.             *)
LEMMA PrimaryType ==
  ASSUME NEW actions \in Seq(ActionArgs)
  PROVE  PrimaryAfter(actions, Len(actions)) \in SUBSET Nat
<1>1. \A j \in 1..Len(actions) : actions[j] \in ActionArgs
  OBVIOUS
<1>2. \A j \in 1..Len(actions) : actions[j].account \in Nat /\ actions[j].other \in Nat
  BY <1>1 DEF ActionArgs
<1> QED
  BY <1>2 DEF PrimaryAfter

(* An operation begins when none runs, with a cache of what it read: its   *)
(* frame is sound.                                                         *)
LEMMA BeginStep ==
  ASSUME Inductive, NEW request \in Requests, NEW rate \in [Markets -> Rates],
         Begin(request, rate)
  PROVE  Inductive'
<1> DEFINE markets == CachedMarkets(request)
           updated == [m \in Markets |-> IF m \in markets
                                         THEN UpdatedIndex(m, rate[m])
                                         ELSE index[m]]
           frame == [sender   |-> request.sender,
                     accounts |-> request.accounts,
                     actions  |-> request.actions,
                     pc       |-> 1,
                     primary  |-> PrimaryAfter(request.actions, Len(request.actions)),
                     counts   |-> [i \in DOMAIN request.accounts |->
                                     Cardinality(ledger.held[request.accounts[i]])],
                     cache    |-> [m \in markets |-> MarketInfo(m, updated[m])],
                     waiting  |-> FALSE,
                     call     |-> NoCall,
                     saved    |-> Snapshot,
                     trusted  |-> operators]
<1>1. frames = <<>> /\ Isolated(ledger) /\ ~locked
  BY DEF Inductive, Begin, MayEnter
<1>2. /\ frames' = Append(<<>>, frame)
      /\ index' = updated
      /\ locked' = TRUE
      /\ UNCHANGED <<ledger, status, operators, isClosing, maxWei,
                     maxMarkets, vault, price, now>>
  BY <1>1 DEF Begin
<1>3. /\ frames' = <<frame>>
      /\ DOMAIN frames' = {1} /\ frames'[1] = frame
      /\ frames' # <<>> /\ Top' = frame
  <2> HIDE DEF frame
  <2>1. frames' = <<frame>>
    BY <1>2, OneFrame
  <2> QED
    BY <2>1 DEF Top
<1>4. /\ request.sender \in Addresses
      /\ request.accounts \in Seq(Accounts)
      /\ request.actions \in Seq(ActionArgs)
      /\ RequestAccepted(request)
  <2>1. request \in Request
    OBVIOUS
  <2> QED
    BY <2>1 DEF Request, Begin
<1>5. /\ updated \in [Markets -> IndexType]
      /\ \A m \in Markets : updated[m].lastUpdate <= now
  <2>1. \A m \in Markets : index[m] \in IndexType /\ index[m].lastUpdate <= now
    BY StateTypes DEF Inductive, BooksSound
  <2>2. \A m \in Markets : rate[m] \in Rates
    OBVIOUS
  <2> QED
    BY <2>1, <2>2, UpdatedIndexType
<1>6. markets \subseteq Markets
  <2>1. \A a \in Accounts : ledger.held[a] \subseteq Markets
    BY LedgerSound DEF LedgerType
  <2>2. BalanceMarkets(request.accounts) \subseteq Markets
    BY <1>4, <2>1 DEF BalanceMarkets
  <2>3. \A k \in DOMAIN request.actions : MarketsOf(request.actions[k]) \subseteq Markets
    <3>1. \A k \in DOMAIN request.actions : request.actions[k] \in ActionArgs
      BY <1>4
    <3> QED
      BY <3>1 DEF MarketsOf, ActionArgs
  <2>4. ActionMarkets(request.actions) \subseteq Markets
    BY <2>3 DEF ActionMarkets
  <2> QED
    BY <2>2, <2>4 DEF CachedMarkets
<1>7. IsCache(frame.cache)
  <2>1. \A m \in markets : price[m] \in Nat \ {0}
    BY <1>6 DEF Begin, Inductive, TypeOK
  <2>2. \A m \in markets : ledger.borrow[m] \in Nat /\ ledger.supply[m] \in Nat
    BY <1>6, LedgerSound DEF LedgerType
  <2>3. \A m \in markets : updated[m] \in IndexType
    BY <1>5, <1>6
  <2> HIDE DEF updated, markets
  <2>4. \A m \in markets : MarketInfo(m, updated[m]) \in MarketInfoType
    BY <2>1, <2>2, <2>3 DEF MarketInfo, MarketInfoType
  <2> QED
    BY <1>6, <2>4 DEF IsCache
<1>8. IsFrame(frame)
  <2>1. frame.counts \in Seq(Nat)
    <3>1. \A a \in Accounts : Cardinality(ledger.held[a]) \in Nat
      <4> TAKE a \in Accounts
      <4>1. ledger.held[a] \subseteq Markets
        BY LedgerSound DEF LedgerType
      <4> QED
        BY <4>1, FS_Subset, FS_CardinalityType
    <3>2. \A i \in 1..Len(request.accounts) : request.accounts[i] \in Accounts
      BY <1>4
    <3>3. frame.counts = [i \in 1..Len(request.accounts) |->
                            Cardinality(ledger.held[request.accounts[i]])]
      BY <1>4
    <3>4. Len(request.accounts) \in Nat
      BY <1>4
    <3> HIDE DEF frame
    <3> QED
      BY <3>1, <3>2, <3>3, <3>4
  <2>2. /\ frame.sender \in Addresses
        /\ frame.accounts \in Seq(Accounts)
        /\ frame.actions \in Seq(ActionArgs)
        /\ frame.pc \in Nat \ {0}
        /\ frame.primary \in SUBSET Nat
        /\ frame.waiting \in BOOLEAN
        /\ frame.call \in CallType
        /\ frame.saved \in SnapshotType
        /\ frame.trusted \in SUBSET (Addresses \X Addresses)
    BY <1>4, PrimaryType, NoCallType, SnapshotTyped DEF Inductive, TypeOK
  <2>3. frame = [sender |-> frame.sender, accounts |-> frame.accounts,
                 actions |-> frame.actions, pc |-> frame.pc,
                 primary |-> frame.primary, counts |-> frame.counts,
                 cache |-> frame.cache, waiting |-> frame.waiting,
                 call |-> frame.call, saved |-> frame.saved,
                 trusted |-> frame.trusted]
    OBVIOUS
  <2> HIDE DEF frame
  <2> QED
    BY <1>7, <2>1, <2>2, <2>3 DEF IsFrame, CallType
<1>9. RequestSound(frame)
  BY <1>4 DEF RequestSound, RequestAccepted, Snapshot
<1>10. CacheSound(Top)'
  <2>1. frame.cache = [m \in markets |-> MarketInfo(m, updated[m])]
        /\ frame.actions = request.actions /\ frame.accounts = request.accounts
        /\ frame.saved = Snapshot
    OBVIOUS
  <2> HIDE DEF frame
  <2>2. ActionMarkets(frame.actions) \subseteq DOMAIN frame.cache
    BY <2>1 DEF CachedMarkets
  <2>3. \A a \in Named(frame) : frame.saved.ledger.held[a] \subseteq DOMAIN frame.cache
    BY <2>1 DEF CachedMarkets, BalanceMarkets, Named, Snapshot
  <2> HIDE DEF updated, markets
  <2>4. \A m \in DOMAIN frame.cache :
          /\ frame.cache[m].index = updated[m]
          /\ frame.cache[m].isClosing = (m \in isClosing)
          /\ frame.cache[m].borrowPar = ledger.borrow[m]
          /\ frame.cache[m].supplyPar = ledger.supply[m]
    BY <2>1 DEF MarketInfo
  <2>5. frame.saved.ledger = ledger
    BY <2>1 DEF Snapshot
  <2> QED
    BY <1>2, <1>3, <2>2, <2>3, <2>4, <2>5 DEF CacheSound, ActionMarkets, Named
<1>11. SavedSound(Top)'
  <2>1. frame.saved.ledger = ledger /\ frame.saved.index = index
        /\ frame.saved.locked = locked
    BY DEF Snapshot
  <2> HIDE DEF frame
  <2> QED
    BY <1>1, <1>2, <1>3, <2>1 DEF SavedSound, BooksSound, Inductive, Isolated
<1>12. SameElsewhere(ledger, Top.saved.ledger, Named(Top), DOMAIN Top.cache)'
  <2>1. frame.saved.ledger = ledger
    BY DEF Snapshot
  <2> HIDE DEF frame
  <2> QED
    BY <1>2, <1>3, <2>1 DEF SameElsewhere
<1> HIDE DEF frame
<1>13. FrameSound(Top)'
  BY <1>3, <1>9, <1>10, <1>11, <1>12 DEF FrameSound, RequestSound
<1>14. TypeOK'
  <2>1. \A d \in DOMAIN frames' : IsFrame(frames[d])'
    BY <1>3, <1>8
  <2> HIDE DEF updated
  <2> QED
    BY <1>2, <1>5, <2>1 DEF Inductive, TypeOK
<1>15. BooksSound(ledger, index)'
  <2> HIDE DEF updated
  <2> QED
    BY <1>2, <1>5 DEF Inductive, BooksSound
<1> QED
  BY <1>2, <1>3, <1>13, <1>14, <1>15 DEF Inductive

-----------------------------------------------------------------------------
(* The environment.                                                        *)

(* A step that leaves the books, the indexes, the markets and the frames   *)
(* alone keeps Inductive.                                                  *)
LEMMA QuietStep ==
  ASSUME Inductive, TypeOK',
         UNCHANGED <<ledger, index, isClosing, locked, frames>>,
         now' >= now
  PROVE  Inductive'
<1>1. Top' = Top
  BY DEF Top
<1>2. now \in Nat /\ now' \in Nat
  BY DEF Inductive, TypeOK
<1>3. \A m \in Markets : index[m].lastUpdate \in Nat
  BY StateTypes DEF IndexType
<1>4. BooksSound(ledger, index)'
  BY <1>2, <1>3 DEF Inductive, BooksSound
<1>5. Isolated(ledger)' <=> Isolated(ledger)
  BY DEF Isolated
<1>6. ASSUME frames # <<>>
      PROVE  FrameSound(Top)'
  <2>1. FrameSound(Top)
    BY <1>6, TopFacts
  <2>2. RequestSound(Top)'
    BY <1>1, <2>1 DEF FrameSound, RequestSound
  <2>3. CacheSound(Top)'
    BY <1>1, <2>1 DEF FrameSound, CacheSound, Named
  <2>4. SavedSound(Top)'
    <3>1. \A m \in Markets : Top.saved.index[m].lastUpdate \in Nat
      <4>1. Top.saved \in SnapshotType
        BY <1>6, TopFacts DEF IsFrame
      <4> QED
        BY <4>1 DEF SnapshotType, IndexType
    <3> QED
      BY <1>1, <1>2, <2>1, <3>1 DEF FrameSound, SavedSound, BooksSound, Isolated
  <2>5. SameElsewhere(ledger, Top.saved.ledger, Named(Top), DOMAIN Top.cache)'
    BY <1>1, <2>1 DEF FrameSound, Named
  <2> QED
    BY <2>2, <2>3, <2>4, <2>5 DEF FrameSound
<1> QED
  BY <1>1, <1>4, <1>5, <1>6 DEF Inductive

(* setOperators is the one change that the frames remember.                *)
LEMMA SetOperatorStep ==
  ASSUME Inductive, NEW pair \in Grants, NEW trusted \in BOOLEAN,
         SetOperator(pair, trusted)
  PROVE  Inductive'
<1>1. operators' \subseteq Addresses \X Addresses
  BY DEF SetOperator, Inductive, TypeOK
<1>2. UNCHANGED <<ledger, status, index, isClosing, maxWei, maxMarkets,
                  vault, price, now, locked>>
  BY DEF SetOperator
<1>3. CASE frames = <<>>
  <2>1. frames' = <<>>
    BY <1>3 DEF SetOperator
  <2>2. TypeOK'
    BY <1>1, <1>2, <1>3, <2>1 DEF Inductive, TypeOK
  <2> QED
    BY <1>2, <1>3, <2>1, <2>2, QuietStep DEF Inductive, TypeOK
<1>4. CASE frames # <<>>
  <2> DEFINE next == [Top EXCEPT !.trusted = Top.trusted \cup operators']
  <2>1. frames = <<Top>> /\ IsFrame(Top) /\ FrameSound(Top) /\ locked
    BY <1>4, TopFacts
  <2>2. frames' = <<next>> /\ Top' = next
    <3>1. DOMAIN frames = {1} /\ frames[1] = Top
      BY <2>1
    <3>2. frames' = [i \in {1} |-> [frames[i] EXCEPT !.trusted =
                                      frames[i].trusted \cup operators']]
      BY <3>1 DEF SetOperator
    <3>3. frames' = [i \in {1} |-> next]
      BY <3>1, <3>2
    <3> HIDE DEF next
    <3>4. frames' = <<next>>
      BY <3>3
    <3> QED
      BY <3>4 DEF Top
  <2>3. /\ next.accounts = Top.accounts /\ next.actions = Top.actions
        /\ next.cache = Top.cache /\ next.saved = Top.saved
        /\ next.primary = Top.primary /\ next.counts = Top.counts
        /\ next.waiting = Top.waiting /\ next.pc = Top.pc
    BY <2>1 DEF IsFrame
  <2>4. IsFrame(next)
    BY <1>1, <2>1 DEF IsFrame
  <2> HIDE DEF next
  <2>5. FrameSound(Top)'
    <3>1. RequestSound(Top)'
      BY <2>1, <2>2, <2>3 DEF FrameSound, RequestSound
    <3>2. CacheSound(Top)'
      BY <1>2, <2>1, <2>2, <2>3 DEF FrameSound, CacheSound, Named, ActionMarkets
    <3>3. SavedSound(Top)'
      BY <1>2, <2>1, <2>2, <2>3 DEF FrameSound, SavedSound, BooksSound, Isolated
    <3>4. SameElsewhere(ledger, Top.saved.ledger, Named(Top), DOMAIN Top.cache)'
      BY <1>2, <2>1, <2>2, <2>3 DEF FrameSound, SameElsewhere, Named
    <3> QED
      BY <3>1, <3>2, <3>3, <3>4 DEF FrameSound
  <2>6. TypeOK'
    <3>1. \A d \in DOMAIN frames' : IsFrame(frames[d])'
      BY <2>2, <2>4
    <3> QED
      BY <1>1, <1>2, <3>1 DEF Inductive, TypeOK
  <2>7. BooksSound(ledger, index)'
    BY <1>2 DEF Inductive, BooksSound
  <2>8. frames' # <<>> /\ frames' = <<Top'>> /\ locked'
    BY <1>2, <2>1, <2>2
  <2> QED
    BY <2>5, <2>6, <2>7, <2>8 DEF Inductive
<1> QED
  BY <1>3, <1>4

(* Tokens sent to the protocol only add to those there are.                *)
LEMMA SendTokensStep ==
  ASSUME Inductive, NEW m \in Gifted, SendTokens(m)
  PROVE  Inductive'
<1>1. vault' \in [Markets -> Nat]
  BY StateTypes DEF SendTokens
<1>2. TypeOK'
  BY <1>1 DEF SendTokens, Inductive, TypeOK
<1>3. now' = now /\ now \in Nat
  BY DEF SendTokens, Inductive, TypeOK
<1> QED
  BY <1>2, <1>3, QuietStep DEF SendTokens

(* An oracle may change its answer: the frame keeps the cached price.      *)
LEMMA MovePriceStep ==
  ASSUME Inductive, NEW m \in Markets, NEW newPrice \in Prices[m],
         MovePrice(m, newPrice)
  PROVE  Inductive'
<1>1. newPrice \in Nat
  <2>1. Prices[m] \in SUBSET Nat
    OBVIOUS
  <2> QED
    BY <2>1
<1>2. price' \in [Markets -> Nat]
  BY <1>1 DEF MovePrice, Inductive, TypeOK
<1>3. TypeOK'
  BY <1>2 DEF MovePrice, Inductive, TypeOK
<1>4. now' = now /\ now \in Nat
  BY DEF MovePrice, Inductive, TypeOK
<1> QED
  BY <1>3, <1>4, QuietStep DEF MovePrice

(* Time only moves forward.                                                *)
LEMMA TickStep ==
  ASSUME Inductive, Tick
  PROVE  Inductive'
<1>1. now' = now + 1 /\ now \in Nat
  BY DEF Tick, Inductive, TypeOK
<1>2. TypeOK'
  BY <1>1 DEF Tick, Inductive, TypeOK
<1> QED
  BY <1>1, <1>2, QuietStep DEF Tick

(* The admin functions run while the guard is free, so no frame has cached *)
(* what they change.                                                       *)
LEMMA OwnerSetIsClosingStep ==
  ASSUME Inductive, NEW m \in Closable, NEW closing \in BOOLEAN,
         OwnerSetIsClosing(m, closing)
  PROVE  Inductive'
<1>1. frames = <<>> /\ frames' = <<>>
  BY DEF OwnerSetIsClosing, MayEnter, Inductive
<1>2. isClosing' \subseteq Markets
  BY DEF OwnerSetIsClosing, Inductive, TypeOK
<1>3. TypeOK'
  BY <1>1, <1>2 DEF OwnerSetIsClosing, Inductive, TypeOK
<1>4. UNCHANGED <<ledger, index, now, locked>>
  BY DEF OwnerSetIsClosing
<1> QED
  BY <1>1, <1>3, <1>4 DEF Inductive, BooksSound, Isolated

(* A cap is checked for its width only.                                    *)
LEMMA OwnerSetMaxWeiStep ==
  ASSUME Inductive, NEW m \in Markets, NEW cap \in WeiCaps,
         OwnerSetMaxWei(m, cap)
  PROVE  Inductive'
<1>1. cap \in 0..Max128
  <2>1. cap \in Nat
    OBVIOUS
  <2> QED
    BY <2>1 DEF OwnerSetMaxWei, Fits128, Magnitude
<1>2. maxWei' \in [Markets -> 0..Max128]
  BY <1>1 DEF OwnerSetMaxWei, Inductive, TypeOK
<1>3. TypeOK'
  BY <1>2 DEF OwnerSetMaxWei, Inductive, TypeOK
<1>4. now' = now /\ now \in Nat
  BY DEF OwnerSetMaxWei, Inductive, TypeOK
<1> QED
  BY <1>3, <1>4, QuietStep DEF OwnerSetMaxWei

(* The maximum number of held markets is checked for its minimum only.     *)
LEMMA OwnerSetMaxMarketsStep ==
  ASSUME Inductive, NEW count \in MarketMaxima, OwnerSetMaxMarkets(count)
  PROVE  Inductive'
<1>1. maxMarkets' \in Nat
  BY DEF OwnerSetMaxMarkets
<1>2. TypeOK'
  BY <1>1 DEF OwnerSetMaxMarkets, Inductive, TypeOK
<1>3. now' = now /\ now \in Nat
  BY DEF OwnerSetMaxMarkets, Inductive, TypeOK
<1> QED
  BY <1>2, <1>3, QuietStep DEF OwnerSetMaxMarkets

(* The excess that is withdrawn is never more than there is.               *)
LEMMA OwnerWithdrawExcessTokensStep ==
  ASSUME Inductive, NEW m \in Markets, OwnerWithdrawExcessTokens(m)
  PROVE  Inductive'
<1> DEFINE excess == ExcessOf(ledger, m)
<1>1. excess \in Int
  BY LedgerSound, ExcessType
<1>2. excess >= 0 /\ vault' = [vault EXCEPT ![m] = vault[m] -
                                 (IF excess > vault[m] THEN vault[m] ELSE excess)]
  BY DEF OwnerWithdrawExcessTokens
<1> HIDE DEF excess
<1>3. vault' \in [Markets -> Nat]
  BY <1>1, <1>2, StateTypes
<1>4. TypeOK'
  BY <1>3 DEF OwnerWithdrawExcessTokens, Inductive, TypeOK
<1>5. now' = now /\ now \in Nat
  BY DEF OwnerWithdrawExcessTokens, Inductive, TypeOK
<1> QED
  BY <1>4, <1>5, QuietStep DEF OwnerWithdrawExcessTokens

-----------------------------------------------------------------------------
(* Inductive is an invariant.                                              *)

(* The books begin empty, and no operation runs.                           *)
LEMMA InitInductive ==
  ASSUME Init
  PROVE  Inductive
<1>1. /\ ledger \in LedgerType /\ ledger.fits
      /\ SummariesMatch(ledger) /\ TotalsMatch(ledger)
  BY EmptyLedgerSound DEF Init, Sound
<1>2. /\ index \in [Markets -> IndexType]
      /\ \A m \in Markets : index[m].lastUpdate <= now
  <2>1. NewIndex(0) \in IndexType
    BY FirstIndexType
  <2>2. NewIndex(0).lastUpdate = 0
    BY DEF NewIndex
  <2>3. index = [m \in Markets |-> NewIndex(0)] /\ now = 0
    BY DEF Init
  <2> QED
    BY <2>1, <2>2, <2>3
<1>3. Isolated(ledger)
  BY DEF Init, EmptyLedger, Isolated
<1>4. price \in [Markets -> Nat]
  <2>1. \A m \in Markets : Prices[m] \subseteq Nat
    OBVIOUS
  <2>2. /\ price \in [Markets -> UNION {Prices[m] : m \in Markets}]
        /\ \A m \in Markets : price[m] \in Prices[m]
    BY DEF Init
  <2> QED
    BY <2>1, <2>2
<1>5. vault \in [Markets -> Nat]
  BY DEF Init
<1>6. status \in [Accounts -> StatusType]
  BY DEF Init, StatusType
<1>7. maxWei \in [Markets -> 0..Max128]
  <2>1. 0 \in 0..Max128
    OBVIOUS
  <2> QED
    BY <2>1 DEF Init
<1>8. operators = {} /\ isClosing = {} /\ now = 0 /\ maxMarkets \in Nat
  BY DEF Init
<1>9. locked = FALSE
  BY DEF Init
<1>10. frames = <<>> /\ DOMAIN frames = {}
  <2>1. frames = <<>>
    BY DEF Init
  <2> QED
    BY <2>1
<1> QED
  BY <1>1, <1>2, <1>3, <1>4, <1>5, <1>6, <1>7, <1>8, <1>9, <1>10 DEF Inductive, TypeOK, BooksSound

(* A step that changes nothing keeps Inductive.                            *)
LEMMA StutterStep ==
  ASSUME Inductive, UNCHANGED vars
  PROVE  Inductive'
<1>1. /\ UNCHANGED <<ledger, status, index, operators, isClosing, maxWei,
                     maxMarkets>>
      /\ UNCHANGED <<vault, price, now, locked, frames>>
  BY DEF vars
<1>2. TypeOK'
  BY <1>1 DEF Inductive, TypeOK
<1>3. now' >= now
  BY <1>1 DEF Inductive, TypeOK
<1> QED
  BY <1>1, <1>2, <1>3, QuietStep

(* Every step of an operation keeps Inductive.                             *)
LEMMA StepInductive ==
  ASSUME Inductive, Step
  PROVE  Inductive'
<1>1. CASE Deposit
  BY <1>1, DepositStep
<1>2. CASE Withdraw
  BY <1>2, WithdrawStep
<1>3. CASE Transfer
  BY <1>3, TransferStep
<1>4. CASE \E amount \in ExternalAmounts :
             Buy(amount) \/ BuyReturn(amount) \/ SellReturn(amount)
  BY <1>4, BuyStep, BuyReturnStep, SellReturnStep
<1>5. CASE Sell
  BY <1>5, SellStep
<1>6. CASE Trade
  BY <1>6, TradeStep
<1>7. CASE \E answer \in OutputAmounts : TradeReturn(answer)
  BY <1>7, TradeReturnStep
<1>8. CASE Liquidate
  BY <1>8, LiquidateStep
<1>9. CASE LiquidateReturn
  BY <1>9, LiquidateReturnStep
<1>10. CASE VaporizeFully
  BY <1>10, VaporizeFullyStep
<1>11. CASE Vaporize
  BY <1>11, VaporizeStep
<1>12. CASE VaporizeReturn
  BY <1>12, VaporizeReturnStep
<1>13. CASE CallFunction
  BY <1>13, CallFunctionStep
<1>14. CASE CallReturn
  BY <1>14, CallReturnStep
<1>15. CASE Commit
  BY <1>15, CommitStep
<1>16. CASE Revert
  BY <1>16, RevertStep
<1> QED
  BY <1>1, <1>2, <1>3, <1>4, <1>5, <1>6, <1>7, <1>8, <1>9, <1>10, <1>11,
     <1>12, <1>13, <1>14, <1>15, <1>16 DEF Step

(* So does whatever runs around an operation.                              *)
LEMMA EnvironmentInductive ==
  ASSUME Inductive, Environment
  PROVE  Inductive'
<1>1. CASE \E pair \in Grants, trusted \in BOOLEAN : SetOperator(pair, trusted)
  BY <1>1, SetOperatorStep
<1>2. CASE \E m \in Gifted : SendTokens(m)
  BY <1>2, SendTokensStep
<1>3. CASE \E m \in Markets : \E newPrice \in Prices[m] : MovePrice(m, newPrice)
  BY <1>3, MovePriceStep
<1>4. CASE Tick
  BY <1>4, TickStep
<1>5. CASE \E m \in Closable, closing \in BOOLEAN : OwnerSetIsClosing(m, closing)
  BY <1>5, OwnerSetIsClosingStep
<1>6. CASE \E m \in Markets, cap \in WeiCaps : OwnerSetMaxWei(m, cap)
  BY <1>6, OwnerSetMaxWeiStep
<1>7. CASE \E count \in MarketMaxima : OwnerSetMaxMarkets(count)
  BY <1>7, OwnerSetMaxMarketsStep
<1>8. CASE \E m \in Markets : OwnerWithdrawExcessTokens(m)
  BY <1>8, OwnerWithdrawExcessTokensStep
<1> QED
  BY <1>1, <1>2, <1>3, <1>4, <1>5, <1>6, <1>7, <1>8 DEF Environment

(* Inductive holds in every reachable state.                               *)
THEOREM InductiveInvariant == Spec => []Inductive
<1>1. Init => Inductive
  BY InitInductive
<1>2. Inductive /\ [Next]_vars => Inductive'
  <2>1. ASSUME Inductive, NEW request \in Requests, NEW rate \in [Markets -> Rates],
               Begin(request, rate)
        PROVE  Inductive'
    BY <2>1, BeginStep
  <2> QED
    BY <2>1, StepInductive, EnvironmentInductive, StutterStep DEF Next
<1> QED
  BY <1>1, <1>2, PTL DEF Spec

-----------------------------------------------------------------------------
(* What follows from it.                                                   *)

(* The state of DolomiteMargin and of every running operation always has   *)
(* its type; in particular no balance and no total ever outgrows uint128.  *)
THEOREM TypeCorrect == Spec => []TypeOK
<1>1. Inductive => TypeOK
  BY DEF Inductive
<1> QED
  BY <1>1, InductiveInvariant, PTL

(* The debt counter and the set of held markets of every account always    *)
(* agree with its balances, also in the middle of an operation.            *)
THEOREM SummariesCorrect == Spec => []SummariesConsistent
<1>1. Inductive => SummariesConsistent
  BY DEF Inductive, BooksSound, SummariesConsistent
<1> QED
  BY <1>1, InductiveInvariant, PTL

(* The total supply and borrow of every market, which interest, the limits *)
(* and the excess tokens are computed from, are the sums of the balances,  *)
(* at every step.                                                          *)
THEOREM TotalsCorrect == Spec => []TotalsConsistent
<1>1. Inductive => TotalsConsistent
  BY DEF Inductive, BooksSound, TotalsConsistent
<1> QED
  BY <1>1, InductiveInvariant, PTL

(* A balance outside the cache would have been there when the operation    *)
(* began, and its market would have been cached.                           *)
LEMMA BalancesCached ==
  ASSUME Inductive, frames # <<>>, NEW a \in Named(Top), NEW m \in Markets,
         ledger.par[a][m] # 0
  PROVE  m \in DOMAIN Top.cache
<1>1. SUFFICES ASSUME m \notin DOMAIN Top.cache
               PROVE  FALSE
  OBVIOUS
<1>2. a \in Accounts
  BY LedgerKept
<1>3. Top.saved.ledger.par[a][m] # 0
  BY <1>1, <1>2, LedgerKept DEF Kept, SameElsewhere
<1>4. m \in Top.saved.ledger.held[a]
  BY <1>2, <1>3, TopFacts DEF FrameSound, SavedSound, BooksSound, SummariesMatch
<1> QED
  BY <1>1, <1>4, TopFacts DEF FrameSound, CacheSound

(* The cache of a running operation covers every balance of its accounts,  *)
(* whatever its actions have done.                                         *)
THEOREM CacheCovers == Spec => []CacheCoversAccounts
<1>1. Inductive => CacheCoversAccounts
  <2>1. SUFFICES ASSUME Inductive, NEW d \in DOMAIN frames,
                        NEW i \in DOMAIN frames[d].accounts, NEW m \in Markets,
                        ledger.par[frames[d].accounts[i]][m] # 0
                 PROVE  m \in DOMAIN frames[d].cache
    BY DEF CacheCoversAccounts
  <2>2. frames # <<>> /\ frames = <<Top>>
    BY <2>1 DEF Inductive
  <2>3. frames[d] = Top
    BY <2>2
  <2>4. frames[d].accounts[i] \in Named(Top)
    BY <2>3 DEF Named
  <2> QED
    BY <2>1, <2>2, <2>3, <2>4, BalancesCached
<1> QED
  BY <1>1, InductiveInvariant, PTL

(* Between operations only the token of a recyclable market holds a        *)
(* balance in it.                                                          *)
THEOREM RecyclableStaysIsolated == Spec => []RecyclableIsolated
<1>1. Inductive => RecyclableIsolated
  BY DEF Inductive, RecyclableIsolated, Isolated
<1> QED
  BY <1>1, InductiveInvariant, PTL

-----------------------------------------------------------------------------
(* What the checks at the end of an operation amount to.                   *)

(* The closing flag and the totals of a cached market are compared with    *)
(* what they were when the operation began; other markets are unchanged.   *)
LEMMA CommitLimits ==
  ASSUME Inductive, Commit, NEW m \in Markets
  PROVE  BorrowNotRaised(m) /\ SupplyNotRaisedPastCap(m)
<1> DEFINE old == Top.saved.ledger
<1>1. frames # <<>>
  BY DEF Commit
<1>2. CASE m \in DOMAIN Top.cache
  <2>1. ClosingRespected(m) /\ SupplyCapRespected(m)
    BY <1>2 DEF Commit
  <2>2. /\ IndexOf(m) = index[m]
        /\ Top.cache[m].isClosing = (m \in isClosing)
        /\ Top.cache[m].borrowPar = old.borrow[m]
        /\ Top.cache[m].supplyPar = old.supply[m]
    BY <1>1, <1>2, TopFacts DEF FrameSound, CacheSound, IndexOf
  <2> HIDE DEF old
  <2>3. m \in isClosing => ledger.borrow[m] <= old.borrow[m]
    BY <2>1, <2>2 DEF ClosingRespected
  <2>4. \/ maxWei[m] = 0
        \/ TotalSupplyWei(ledger, m, index[m]) <= maxWei[m]
        \/ TotalSupplyWei(ledger, m, index[m]) <= TotalSupplyWei(old, m, index[m])
    BY <2>1, <2>2 DEF SupplyCapRespected, TotalSupplyWei
  <2> QED
    BY <2>3, <2>4 DEF BorrowNotRaised, SupplyNotRaisedPastCap, old
<1>3. CASE m \notin DOMAIN Top.cache
  <2>1. ledger.supply[m] = old.supply[m] /\ ledger.borrow[m] = old.borrow[m]
    BY <1>1, <1>3, LedgerKept DEF Kept, SameElsewhere
  <2>2. ledger.borrow[m] \in Nat /\ TotalSupplyWei(ledger, m, index[m]) \in Nat
    <3>1. ledger \in LedgerType /\ index[m] \in IndexType
      BY LedgerSound, StateTypes
    <3>2. ledger.borrow[m] \in 0..Max128
      BY <3>1 DEF LedgerType
    <3>3. TotalSupplyWei(ledger, m, index[m]) \in Nat
      BY <3>1, TotalsType
    <3> QED
      BY <3>2, <3>3
  <2>3. TotalSupplyWei(ledger, m, index[m]) = TotalSupplyWei(old, m, index[m])
    BY <2>1 DEF TotalSupplyWei
  <2> QED
    BY <2>1, <2>2, <2>3 DEF BorrowNotRaised, SupplyNotRaisedPastCap
<1> QED
  BY <1>2, <1>3

(* The accounts of the operation are compared with what they held when it  *)
(* began; other accounts are unchanged.                                    *)
LEMMA CommitHoldings ==
  ASSUME Inductive, Commit, NEW a \in Accounts
  PROVE  HoldingsNotRaisedPastMax(a)
<1> DEFINE old == Top.saved.ledger
<1>1. frames # <<>>
  BY DEF Commit
<1>2. /\ ledger.held[a] = Holdings(ledger, a)
      /\ old.held[a] = Holdings(old, a)
  BY <1>1, TopFacts
     DEF Inductive, FrameSound, SavedSound, BooksSound, SummariesMatch, Holdings
<1>3. CASE a \in Named(Top)
  <2>1. PICK i \in DOMAIN Top.accounts : Top.accounts[i] = a
    BY <1>3 DEF Named
  <2>2. BalancesRespected(i)
    BY DEF Commit
  <2>3. Top.counts[i] = Cardinality(old.held[a])
    BY <1>1, <2>1, TopFacts DEF FrameSound, RequestSound
  <2> QED
    BY <1>2, <2>1, <2>2, <2>3 DEF BalancesRespected, HoldingsNotRaisedPastMax
<1>4. CASE a \notin Named(Top)
  <2>1. \A m \in Markets : ledger.par[a][m] = old.par[a][m]
    BY <1>1, <1>4, LedgerKept DEF Kept, SameElsewhere
  <2>2. Holdings(ledger, a) = Holdings(old, a)
    BY <2>1 DEF Holdings
  <2>3. Cardinality(Holdings(ledger, a)) \in Nat
    <3>1. Holdings(ledger, a) \subseteq Markets
      BY DEF Holdings
    <3> QED
      BY <3>1, FS_Subset, FS_CardinalityType DEF LedgerAssumption
  <2> QED
    BY <2>2, <2>3 DEF HoldingsNotRaisedPastMax
<1> QED
  BY <1>3, <1>4

(* No committed operation raises the borrow of a closing market, takes a   *)
(* supply past its cap, or spreads an account over too many markets.       *)
THEOREM LimitsHold == Spec => LimitsRespected
<1>1. Inductive /\ [Next]_vars
        => [Commit =>
              /\ \A m \in Markets : BorrowNotRaised(m) /\ SupplyNotRaisedPastCap(m)
              /\ \A a \in Accounts : HoldingsNotRaisedPastMax(a)]_vars
  BY CommitLimits, CommitHoldings
<1> QED
  BY <1>1, InductiveInvariant, PTL DEF Spec, LimitsRespected

(* An account whose balances are all in cached markets is valued over the  *)
(* cache as over all markets.                                              *)
LEMMA CacheValues ==
  ASSUME Inductive, frames # <<>>, NEW L, NEW a,
         \A m \in Markets : L.par[a][m] \in Int,
         \A m \in Markets : L.par[a][m] # 0 => m \in DOMAIN Top.cache
  PROVE  /\ SupplyValue(L, a, Top.cache) = SupplyValue(L, a, FullCache(Top))
         /\ BorrowValue(L, a, Top.cache) = BorrowValue(L, a, FullCache(Top))
<1> DEFINE cache == Top.cache
           full  == FullCache(Top)
<1>1. /\ DOMAIN cache \subseteq Markets
      /\ DOMAIN full = Markets
      /\ \A m \in DOMAIN cache : full[m].index = cache[m].index
                                 /\ full[m].price = cache[m].price
  <2>1. DOMAIN cache \subseteq Markets
    BY TopFacts DEF IsFrame, IsCache
  <2>2. \A m \in DOMAIN cache : cache[m].index = index[m]
    BY TopFacts DEF FrameSound, CacheSound
  <2> QED
    BY <2>1, <2>2 DEF FullCache
<1>2. \A m \in Markets : L.par[a][m] \in Int
  OBVIOUS
<1>3. \A m \in Markets : L.par[a][m] # 0 => m \in DOMAIN cache
  OBVIOUS
<1> HIDE DEF cache, full
<1>4. \A m \in DOMAIN cache :
        AssetValue(L, a, cache, m) = AssetValue(L, a, full, m)
  BY <1>1 DEF AssetValue
<1>5. SupplyValue(L, a, cache) = SupplyValue(L, a, full)
  <2> DEFINE S(c) == {n \in DOMAIN c : L.par[a][n] > 0}
             V(c) == [m \in S(c) |->
                        DecimalDiv(AssetValue(L, a, c, m), OnePlus(MarginPremium[m]))]
  <2>1. S(cache) = S(full)
    BY <1>1, <1>2, <1>3
  <2>2. V(cache) = V(full)
    BY <1>4, <2>1
  <2> QED
    BY <2>2 DEF SupplyValue
<1>6. BorrowValue(L, a, cache) = BorrowValue(L, a, full)
  <2> DEFINE S(c) == {n \in DOMAIN c : L.par[a][n] < 0}
             V(c) == [m \in S(c) |->
                        DecimalMul(AssetValue(L, a, c, m), OnePlus(MarginPremium[m]))]
  <2>1. S(cache) = S(full)
    BY <1>1, <1>2, <1>3
  <2>2. V(cache) = V(full)
    BY <1>4, <2>1
  <2> QED
    BY <2>2 DEF BorrowValue
<1> QED
  BY <1>5, <1>6 DEF cache, full

(* The early return of isCollateralized on a zero counter is right.        *)
LEMMA CollateralTrue ==
  ASSUME Inductive, frames # <<>>, NEW a \in Named(Top),
         IsCollateralized(ledger, a, Top.cache)
  PROVE  TrulyCollateralized(ledger, a, Top)
<1>1. a \in Accounts
  BY LedgerKept
<1>2. CASE ledger.debts[a] = 0
  <2> DEFINE negative == {m \in Markets : ledger.par[a][m] < 0}
  <2>1. Cardinality(negative) = 0
    BY <1>1, <1>2, LedgerSound DEF Sound, SummariesMatch
  <2>2. IsFiniteSet(negative)
    BY FS_Subset
  <2>3. negative = {}
    BY <2>1, <2>2, FS_EmptySet
  <2>4. \A m \in Markets : ledger.par[a][m] \in Int
    BY <1>1, LedgerSound DEF LedgerType
  <2> QED
    BY <2>3, <2>4 DEF TrulyCollateralized
<1>3. CASE ledger.debts[a] # 0
  <2>1. \A m \in Markets : ledger.par[a][m] \in Int
    BY <1>1, LedgerSound DEF LedgerType
  <2>2. \A m \in Markets : ledger.par[a][m] # 0 => m \in DOMAIN Top.cache
    BY BalancesCached
  <2> QED
    BY <1>3, <2>1, <2>2, CacheValues DEF IsCollateralized, TrulyCollateralized
<1> QED
  BY <1>2, <1>3

(* The accounts an operation acts for or trades with are primary.          *)
LEMMA ActedForPrimary ==
  ASSUME Inductive, frames # <<>>, NEW a \in Accounts,
         ActedFor(Top, a) \/ Secondary(Top, a, "Trade")
  PROVE  a \in PrimaryAccounts /\ a \in Named(Top)
<1>1. /\ Top.accounts \in Seq(Accounts) /\ Top.actions \in Seq(ActionArgs)
      /\ RequestSound(Top)
  BY TopFacts DEF IsFrame, FrameSound
<1>2. PICK k \in DOMAIN Top.actions :
        \/ Top.accounts[Top.actions[k].account] = a
        \/ /\ TwoPrimary(Top.actions[k])
           /\ Top.accounts[Top.actions[k].other] = a
  BY DEF ActedFor, Secondary, TwoPrimary
<1>3. k \in 1..Len(Top.actions)
  BY <1>1
<1>4. ActionAccepted(Top.actions, k, Len(Top.accounts))
  BY <1>1 DEF RequestSound
<1>5. Top.primary = PrimaryAfter(Top.actions, Len(Top.actions))
  BY <1>1 DEF RequestSound
<1>6. CASE Top.accounts[Top.actions[k].account] = a
  <2>1. Top.actions[k].account \in Top.primary
    BY <1>3, <1>5 DEF PrimaryAfter
  <2>2. Top.actions[k].account \in DOMAIN Top.accounts
    BY <1>1, <1>4 DEF ActionAccepted
  <2> QED
    BY <1>6, <2>1, <2>2 DEF PrimaryAccounts, Named
<1>7. CASE /\ TwoPrimary(Top.actions[k])
           /\ Top.accounts[Top.actions[k].other] = a
  <2>1. Top.actions[k].other \in Top.primary
    BY <1>3, <1>5, <1>7 DEF PrimaryAfter
  <2>2. Top.actions[k].other \in DOMAIN Top.accounts
    BY <1>1, <1>4, <1>7 DEF ActionAccepted, OnePrimary
  <2> QED
    BY <1>7, <2>1, <2>2 DEF PrimaryAccounts, Named
<1> QED
  BY <1>2, <1>6, <1>7

(* Every account a committed operation acted for or traded with meets the  *)
(* margin ratio over all its markets, though the code checks the debt      *)
(* counter and the cached markets only.                                    *)
THEOREM CommitsAreCollateralized == Spec => CommitsCollateralized
<1>1. Inductive /\ [Next]_vars => [Commit => AccountsCovered]_vars
  <2>1. SUFFICES ASSUME Inductive, Commit, NEW a \in Accounts,
                        ActedFor(Top, a) \/ Secondary(Top, a, "Trade")
                 PROVE  TrulyCollateralized(ledger, a, Top)
    BY DEF AccountsCovered
  <2>2. frames # <<>>
    BY <2>1 DEF Commit
  <2>3. a \in PrimaryAccounts /\ a \in Named(Top)
    BY <2>1, <2>2, ActedForPrimary
  <2>4. IsCollateralized(ledger, a, Top.cache)
    BY <2>1, <2>3 DEF Commit, FinalCollateral
  <2> QED
    BY <2>1, <2>2, <2>3, <2>4, CollateralTrue
<1> QED
  BY <1>1, InductiveInvariant, PTL DEF Spec, CommitsCollateralized

-----------------------------------------------------------------------------
(* The second part: whom an operation may touch. It cites the assumptions  *)
(* where it needs them.                                                    *)

HIDE LedgerAssumption
HIDE WidthAssumption
HIDE OperationAssumption
HIDE EnvironmentAssumption

(* Whose balances a ledger has changed.                                    *)

(* M has the balances of L, but for those of the accounts in W.            *)
Untouched(L, M, W) ==
  /\ DOMAIN M.par = Accounts
  /\ \A a \in Accounts \ W : M.par[a] = L.par[a]

(* setPar writes to the balances of its account only.                      *)
LEMMA SetParUntouched ==
  ASSUME NEW K, NEW L, NEW W, Untouched(K, L, W), NEW a \in W, NEW m, NEW new
  PROVE  Untouched(K, SetPar(L, a, m, new), W)
<1>1. CASE L.par[a][m] = new
  BY <1>1 DEF SetPar
<1>2. CASE L.par[a][m] # new
  <2>1. SetPar(L, a, m, new).par = [L.par EXCEPT ![a] = [@ EXCEPT ![m] = new]]
    BY <1>2 DEF SetPar
  <2> QED
    BY <2>1 DEF Untouched
<1> QED
  BY <1>1, <1>2

(* So does setParFromDeltaWei.                                             *)
LEMMA SetParFromDeltaWeiUntouched ==
  ASSUME NEW K, NEW L, NEW W, Untouched(K, L, W), NEW a \in W, NEW m,
         NEW indexed, NEW wei
  PROVE  Untouched(K, SetParFromDeltaWei(L, a, m, indexed, wei), W)
BY SetParUntouched DEF SetParFromDeltaWei

(* Before its first write an action has changed nothing.                   *)
LEMMA LedgerUntouched ==
  ASSUME Inductive, NEW W
  PROVE  Untouched(ledger, ledger, W)
BY LedgerSound DEF LedgerType, Untouched

(* The two writes of the solid account.                                    *)
LEMMA PaidBySolidUntouched ==
  ASSUME NEW K, NEW L, NEW W, Untouched(K, L, W), Acct \in W, NEW owed, NEW held
  PROVE  Untouched(K, PaidBySolid(L, owed, held), W)
<1> DEFINE first == SetParFromDeltaWei(L, Acct, owed, IndexOf(owed), -Top.call.wei)
<1>1. Untouched(K, first, W)
  BY SetParFromDeltaWeiUntouched
<1>2. PaidBySolid(L, owed, held)
        = SetParFromDeltaWei(first, Acct, held, IndexOf(held), -Top.call.otherWei)
  BY DEF PaidBySolid
<1> HIDE DEF first
<1> QED
  BY <1>1, <1>2, SetParFromDeltaWeiUntouched

-----------------------------------------------------------------------------
(* Reasons.                                                                *)

(* A reason is told from what the frame was built from and from who has    *)
(* been trusted, so it stays one while the frame runs.                     *)
LEMMA ReasonStays ==
  ASSUME NEW f, NEW g, NEW a,
         f.sender = g.sender, f.accounts = g.accounts, f.actions = g.actions,
         f.cache = g.cache, f.saved = g.saved, f.trusted \subseteq g.trusted,
         Reason(f, a)
  PROVE  Reason(g, a)
<1>1. CASE ActedFor(f, a) /\ Trusts(f, a, f.sender)
  BY <1>1 DEF Reason, ActedFor, Trusts
<1>2. CASE TradedBy(f, a)
  BY <1>2 DEF Reason, TradedBy, Trusts
<1>3. CASE Undercollateralized(f, a)
  BY <1>3 DEF Reason, Undercollateralized, Secondary
<1>4. CASE VaporizedBy(f, a)
  BY <1>4 DEF Reason, VaporizedBy, Secondary
<1> QED
  BY <1>1, <1>2, <1>3, <1>4 DEF Reason

(* Moving on keeps what the reasons are told from.                         *)
LEMMA FrameMoves ==
  ASSUME Inductive, frames # <<>>, Advance \/ \E call : Await(call)
  PROVE  /\ frames' # <<>>
         /\ Top'.sender = Top.sender /\ Top'.accounts = Top.accounts
         /\ Top'.actions = Top.actions /\ Top'.cache = Top.cache
         /\ Top'.saved = Top.saved /\ Top'.trusted = Top.trusted
         /\ Top'.primary = Top.primary
         /\ Advance => ~Top'.waiting
         /\ \A call : Await(call) => Top'.pc = Top.pc /\ Top'.call = call
<1>1. frames = <<Top>> /\ Len(frames) = 1 /\ IsFrame(Top)
  BY TopFacts
<1> DEFINE advanced == [Top EXCEPT !.pc = Top.pc + 1, !.waiting = FALSE, !.call = NoCall]
           awaits(call) == [Top EXCEPT !.waiting = TRUE, !.call = call]
<1>2. ASSUME NEW next, frames' = [frames EXCEPT ![1] = next]
      PROVE  frames' # <<>> /\ Top' = next
  <2>1. frames' = <<next>>
    BY <1>1, <1>2, OneFrame
  <2> QED
    BY <2>1, OneFrame DEF Top
<1>3. ASSUME Advance
      PROVE  frames' # <<>> /\ Top' = advanced
  <2>1. frames' = [frames EXCEPT ![1] = advanced]
    BY <1>1, <1>3 DEF Advance
  <2> QED
    BY <1>2, <2>1
<1>4. ASSUME NEW call, Await(call)
      PROVE  frames' # <<>> /\ Top' = awaits(call)
  <2>1. frames' = [frames EXCEPT ![1] = awaits(call)]
    BY <1>1, <1>4 DEF Await
  <2> QED
    BY <1>2, <2>1
<1>5. /\ advanced.sender = Top.sender /\ advanced.accounts = Top.accounts
      /\ advanced.actions = Top.actions /\ advanced.cache = Top.cache
      /\ advanced.saved = Top.saved /\ advanced.trusted = Top.trusted
      /\ advanced.primary = Top.primary /\ ~advanced.waiting
  BY <1>1 DEF IsFrame
<1>6. ASSUME NEW call
      PROVE  /\ awaits(call).sender = Top.sender /\ awaits(call).accounts = Top.accounts
             /\ awaits(call).actions = Top.actions /\ awaits(call).cache = Top.cache
             /\ awaits(call).saved = Top.saved /\ awaits(call).trusted = Top.trusted
             /\ awaits(call).primary = Top.primary /\ awaits(call).waiting
             /\ awaits(call).pc = Top.pc /\ awaits(call).call = call
  BY <1>1 DEF IsFrame
<1> HIDE DEF advanced, awaits
<1>7. CASE Advance
  <2>1. \A call : ~Await(call)
    BY <1>3, <1>4, <1>5, <1>6, <1>7
  <2> QED
    BY <1>3, <1>5, <1>7, <2>1
<1>8. CASE \E call : Await(call)
  <2>1. ~Advance
    BY <1>3, <1>4, <1>5, <1>6, <1>8
  <2> QED
    BY <1>4, <1>6, <1>8, <2>1
<1> QED
  BY <1>7, <1>8

(* Who is an operator now is trusted by the frame.                         *)
LEMMA OperatorTrusted ==
  ASSUME Authorized, frames # <<>>, NEW a, NEW who, IsOperator(a, who)
  PROVE  Trusts(Top, a, who)
BY DEF Authorized, Permitted, IsOperator, Trusts

(* An operation acts for the account of its current action, and for both   *)
(* in a transfer, with reason when its sender is an operator.              *)
LEMMA ActorReason ==
  ASSUME Inductive, Authorized, frames # <<>>, Top.pc <= Len(Top.actions)
  PROVE  /\ ActedFor(Top, Acct)
         /\ Act.type = "Transfer" => ActedFor(Top, Othr)
         /\ Act.type \in {"Trade", "Liquidate", "Vaporize"}
              => Secondary(Top, Othr, Act.type)
         /\ Acct \in PrimaryAccounts
         /\ Act.type \in {"Transfer", "Trade"} => Othr \in PrimaryAccounts
         /\ IsOperator(Acct, Top.sender) => Reason(Top, Acct)
         /\ Act.type = "Transfer" /\ IsOperator(Othr, Top.sender) => Reason(Top, Othr)
<1>1. Top.pc \in DOMAIN Top.actions
  BY TopFacts DEF IsFrame
<1>2. ActedFor(Top, Acct)
  BY <1>1 DEF ActedFor, Acct, Act
<1>3. Act.type = "Transfer" => ActedFor(Top, Othr)
  BY <1>1 DEF ActedFor, Othr, Act
<1>4. Act.type \in {"Trade", "Liquidate", "Vaporize"} => Secondary(Top, Othr, Act.type)
  BY <1>1 DEF Secondary, Othr, Act
<1>5. /\ Acct \in Accounts
      /\ Act.type \in {"Transfer", "Trade"} => Othr \in Accounts
  BY ActFacts, LedgerKept
<1> QED
  BY <1>2, <1>3, <1>4, <1>5, ActedForPrimary, OperatorTrusted DEF Reason

(* So does one that trades with an account through its operator.           *)
LEMMA TraderReason ==
  ASSUME Inductive, Authorized, frames # <<>>, Top.pc <= Len(Top.actions),
         Act.type = "Trade", TradePermitted
  PROVE  Reason(Top, Othr)
<1>1. Top.pc \in DOMAIN Top.actions
  BY TopFacts DEF IsFrame
<1>2. Trusts(Top, Othr, Act.address)
  BY OperatorTrusted DEF TradePermitted
<1>3. TradedBy(Top, Othr)
  BY <1>1, <1>2 DEF TradedBy, TradePermitted, Othr, Act
<1> QED
  BY <1>3 DEF Reason

(* While the balances of an account are what they were, so is its value    *)
(* over the cache.                                                         *)
LEMMA CollateralSame ==
  ASSUME Inductive, frames # <<>>, NEW a \in Accounts,
         ledger.par[a] = Top.saved.ledger.par[a]
  PROVE  IsCollateralized(ledger, a, Top.cache)
           <=> IsCollateralized(Top.saved.ledger, a, Top.cache)
<1> DEFINE old == Top.saved.ledger
           cache == Top.cache
<1>1. SummariesMatch(ledger) /\ SummariesMatch(old)
  BY TopFacts, LedgerSound DEF FrameSound, SavedSound, BooksSound, Sound
<1>2. ledger.par[a] = old.par[a]
  OBVIOUS
<1> HIDE DEF old, cache
<1>3. ledger.debts[a] = old.debts[a]
  BY <1>1, <1>2 DEF SummariesMatch
<1>4. /\ SupplyValue(ledger, a, cache) = SupplyValue(old, a, cache)
      /\ BorrowValue(ledger, a, cache) = BorrowValue(old, a, cache)
  BY <1>2 DEF SupplyValue, BorrowValue, AssetValue, GetWei
<1> QED
  BY <1>3, <1>4 DEF IsCollateralized, old, cache

(* An account that may be liquidated now could have been when the          *)
(* operation began, or the operation has had another reason to change it.  *)
LEMMA LiquidatorReason ==
  ASSUME Inductive, Authorized, frames # <<>>, Top.pc <= Len(Top.actions),
         Act.type = "Liquidate", Top.sender \in GlobalOperators, Liquidatable(Othr)
  PROVE  Reason(Top, Othr)
<1>1. Othr \in Accounts /\ Secondary(Top, Othr, "Liquidate")
  BY ActFacts, ActorReason, LedgerKept
<1>2. SUFFICES ASSUME ~Reason(Top, Othr)
               PROVE  Undercollateralized(Top, Othr)
  BY DEF Reason
<1>3. /\ ledger.par[Othr] = Top.saved.ledger.par[Othr]
      /\ status[Othr] = "Liquid" => Top.saved.status[Othr] = "Liquid"
  BY <1>1, <1>2 DEF Authorized, Permitted
<1> QED
  BY <1>1, <1>3, CollateralSame DEF Liquidatable, Undercollateralized

(* An account without a positive balance in the cache has none at all.     *)
LEMMA VaporizableOwesOnly ==
  ASSUME Inductive, frames # <<>>, NEW a \in Named(Top),
         IsVaporizable(ledger, a, Top.cache)
  PROVE  OwesOnly(ledger, a)
<1>1. \A m \in Markets : ledger.par[a][m] \in Int
  BY LedgerKept, LedgerSound DEF LedgerType
<1> QED
  BY <1>1, BalancesCached DEF IsVaporizable, OwesOnly

(* Likewise for vaporization.                                              *)
LEMMA VaporizerReason ==
  ASSUME Inductive, Authorized, frames # <<>>, Top.pc <= Len(Top.actions),
         Act.type = "Vaporize", Vaporizable(Othr)
  PROVE  Reason(Top, Othr)
<1>1. Othr \in Named(Top) /\ Othr \in Accounts /\ Secondary(Top, Othr, "Vaporize")
  BY ActFacts, ActorReason, LedgerKept
<1>2. SUFFICES ASSUME ~Reason(Top, Othr)
               PROVE  OwesOnly(Top.saved.ledger, Othr)
  BY <1>1 DEF Reason, VaporizedBy, OwesOnly
<1>3. /\ ledger.par[Othr] = Top.saved.ledger.par[Othr]
      /\ status[Othr] = "Vapor" => OwesOnly(Top.saved.ledger, Othr)
  BY <1>1, <1>2 DEF Authorized, Permitted
<1> QED
  BY <1>1, <1>3, VaporizableOwesOnly DEF Vaporizable, OwesOnly

-----------------------------------------------------------------------------
(* Moving on.                                                              *)

(* A step of an action that changes balances and flags only with reason    *)
(* keeps them permitted.                                                   *)
LEMMA ActionPermitted ==
  ASSUME Inductive, Authorized, frames # <<>>,
         operators' = operators,
         NEW W, Untouched(ledger, ledger', W),
         \A a \in Accounts \ W : status'[a] = status[a],
         \A a \in W : Reason(Top, a),
         \/ Advance
         \/ \E call \in CallType : Await(call) /\ Awaiting \subseteq W
  PROVE  Permitted'
<1>1. /\ Top'.sender = Top.sender /\ Top'.accounts = Top.accounts
      /\ Top'.actions = Top.actions /\ Top'.cache = Top.cache
      /\ Top'.saved = Top.saved /\ Top'.trusted = Top.trusted
  BY FrameMoves
<1>2. \A a : Reason(Top, a) => Reason(Top', a)
  BY <1>1, ReasonStays
<1>3. Permitted
  BY DEF Authorized
<1>4. \A a \in Accounts :
        /\ ledger'.par[a] # Top.saved.ledger.par[a] => Reason(Top, a)
        /\ status'[a] = "Liquid" => Top.saved.status[a] = "Liquid" \/ Reason(Top, a)
        /\ status'[a] = "Vapor" => OwesOnly(Top.saved.ledger, a) \/ Reason(Top, a)
  BY <1>3 DEF Permitted, Untouched
<1>5. Top'.waiting => \A a \in Awaiting' : Reason(Top, a)
  <2>1. CASE Advance
    BY <2>1, FrameMoves
  <2>2. CASE \E call \in CallType : Await(call) /\ Awaiting \subseteq W
    <3>1. Top'.pc = Top.pc
      BY <2>2, FrameMoves
    <3>2. Act' = Act /\ Acct' = Acct /\ Othr' = Othr
      BY <1>1, <3>1 DEF Act, Acct, Othr
    <3>3. Awaiting' = Awaiting
      BY <3>2 DEF Awaiting
    <3> QED
      BY <2>2, <3>3
  <2> QED
    BY <2>1, <2>2
<1> QED
  BY <1>1, <1>2, <1>3, <1>4, <1>5 DEF Permitted

(* It keeps Authorized if, beside, an account it leaves flagged Vapor owes *)
(* only or loses the flag in the end.                                      *)
LEMMA ActionAuthorized ==
  ASSUME Inductive, Authorized, frames # <<>>,
         operators' = operators,
         NEW W, Untouched(ledger, ledger', W),
         \A a \in Accounts \ W : status'[a] = status[a],
         \A a \in W :
           /\ Reason(Top, a)
           /\ a \in PrimaryAccounts \/ (status'[a] = "Vapor" => OwesOnly(ledger', a)),
         \/ Advance
         \/ \E call \in CallType : Await(call) /\ Awaiting \subseteq W /\ CallSound'
  PROVE  Authorized'
<1>1. /\ frames' # <<>>
      /\ Top'.accounts = Top.accounts /\ Top'.primary = Top.primary
      /\ Top'.saved = Top.saved
  BY FrameMoves
<1>2. PrimaryAccounts' = PrimaryAccounts
  BY <1>1 DEF PrimaryAccounts
<1>3. /\ VaporSound(ledger, status, PrimaryAccounts)
      /\ VaporSound(Top.saved.ledger, Top.saved.status, {})
  BY DEF Authorized
<1>4. VaporSound(ledger', status', PrimaryAccounts)
  BY <1>3 DEF VaporSound, OwesOnly, Untouched
<1>5. Top'.waiting => CallSound'
  BY FrameMoves
<1>6. Permitted'
  BY ActionPermitted
<1> QED
  BY <1>1, <1>2, <1>3, <1>4, <1>5, <1>6 DEF Authorized

(* What a waiting frame has captured is told from its call and from what   *)
(* it was before.                                                          *)
LEMMA AwaitFacts ==
  ASSUME Inductive, frames # <<>>, NEW call \in CallType, Await(call)
  PROVE  /\ Act' = Act /\ Othr' = Othr
         /\ Top'.call = call
         /\ Top'.cache = Top.cache /\ \A m : IndexOf(m)' = IndexOf(m)
         /\ ledger' = ledger => CapturedBy(Top)' = CapturedBy(Top)
<1>1. /\ Top'.accounts = Top.accounts /\ Top'.actions = Top.actions
      /\ Top'.cache = Top.cache /\ Top'.pc = Top.pc /\ Top'.call = call
  BY FrameMoves
<1>2. Act' = Act /\ Othr' = Othr
  BY <1>1 DEF Act, Othr
<1>3. \A m : IndexOf(m)' = IndexOf(m)
  BY <1>1 DEF IndexOf
<1>4. ledger' = ledger => CapturedBy(Top)' = CapturedBy(Top)
  BY <1>1 DEF CapturedBy
<1> QED
  BY <1>1, <1>2, <1>3, <1>4

(* What a liquidation exchanges is told from the cache and the balances.   *)
LEMMA LiquidationSame ==
  ASSUME LiquidationSound, ledger' = ledger, Top'.cache = Top.cache,
         Act' = Act, Othr' = Othr, Top'.call = Top.call
  PROVE  LiquidationSound'
<1>1. \A m : IndexOf(m)' = IndexOf(m)
  BY DEF IndexOf
<1>2. \A repaid, held, owed, maxHeld :
        Exchanged(repaid, held, owed, maxHeld)'
          = Exchanged(repaid, held, owed, maxHeld)
  BY DEF Exchanged, OwedPriceAdjusted
<1> QED
  BY <1>1, <1>2 DEF LiquidationSound

-----------------------------------------------------------------------------
(* The actions that have no external call of their own.                    *)

(* A deposit changes the account of its action.                            *)
LEMMA DepositAuthorized ==
  ASSUME Inductive, Authorized, Deposit
  PROVE  Authorized'
<1>1. frames # <<>> /\ Top.pc <= Len(Top.actions)
  BY AtFacts DEF Deposit
<1>2. Acct \in PrimaryAccounts /\ Reason(Top, Acct)
  BY <1>1, ActorReason DEF Deposit
<1>3. Untouched(ledger, ledger', {Acct})
  BY LedgerUntouched, SetParUntouched DEF Deposit, Booked
<1> QED
  BY <1>1, <1>2, <1>3, ActionAuthorized DEF Deposit

(* So does a withdrawal.                                                   *)
LEMMA WithdrawAuthorized ==
  ASSUME Inductive, Authorized, Withdraw
  PROVE  Authorized'
<1>1. frames # <<>> /\ Top.pc <= Len(Top.actions)
  BY AtFacts DEF Withdraw
<1>2. Acct \in PrimaryAccounts /\ Reason(Top, Acct)
  BY <1>1, ActorReason DEF Withdraw
<1>3. Untouched(ledger, ledger', {Acct})
  BY LedgerUntouched, SetParUntouched DEF Withdraw, Booked
<1> QED
  BY <1>1, <1>2, <1>3, ActionAuthorized DEF Withdraw

(* A transfer changes both accounts of its action.                         *)
LEMMA TransferTouches ==
  ASSUME Inductive, Transfer
  PROVE  Untouched(ledger, ledger', {Acct, Othr})
<1> DEFINE m     == Act.primaryMarket
           moved == GetNewParAndDeltaWei(ledger, Acct, m, IndexOf(m), Act.amount)
           first == SetPar(ledger, Acct, m, moved.par)
<1>1. ledger' = SetParFromDeltaWei(first, Othr, m, IndexOf(m), -moved.wei)
  BY DEF Transfer, Booked
<1>2. Untouched(ledger, first, {Acct, Othr})
  BY LedgerUntouched, SetParUntouched
<1> HIDE DEF first, moved
<1> QED
  BY <1>1, <1>2, SetParFromDeltaWeiUntouched

(* It acts for both.                                                       *)
LEMMA TransferAuthorized ==
  ASSUME Inductive, Authorized, Transfer
  PROVE  Authorized'
<1>1. frames # <<>> /\ Top.pc <= Len(Top.actions) /\ Act.type = "Transfer"
  BY AtFacts DEF Transfer
<1>2. IsOperator(Acct, Top.sender) /\ IsOperator(Othr, Top.sender)
  BY DEF Transfer, TransferPermitted
<1>3. \A a \in {Acct, Othr} : a \in PrimaryAccounts /\ Reason(Top, a)
  BY <1>1, <1>2, ActorReason
<1> QED
  BY <1>1, <1>3, TransferTouches, ActionAuthorized DEF Transfer

-----------------------------------------------------------------------------
(* Buys, sells, trades and calls: before the external call...              *)

(* A step that captures values, in an action whose accounts it is for.     *)
LEMMA CaptureAuthorized ==
  ASSUME Inductive, Authorized, frames # <<>>,
         NEW call \in CallType, Await(call), CallSound',
         UNCHANGED <<ledger, status, operators>>,
         \A a \in Awaiting : a \in PrimaryAccounts /\ Reason(Top, a)
  PROVE  Authorized'
<1>1. Untouched(ledger, ledger', Awaiting)
  BY LedgerUntouched
<1> QED
  BY <1>1, ActionAuthorized

(* A buy captures what it would compute again.                             *)
LEMMA BuyAuthorized ==
  ASSUME Inductive, Authorized, NEW cost \in ExternalAmounts, Buy(cost)
  PROVE  Authorized'
<1> DEFINE maker  == Act.primaryMarket
           bought == GetNewParAndDeltaWei(ledger, Acct, maker, IndexOf(maker), Act.amount)
           call   == Captured(bought.par, bought.wei, -cost)
<1>1. frames # <<>> /\ Top.pc <= Len(Top.actions) /\ Act.type = "Buy"
  BY AtFacts DEF Buy
<1>2. Acct \in PrimaryAccounts /\ Reason(Top, Acct) /\ Awaiting = {Acct}
  BY <1>1, ActorReason DEF Buy, Awaiting
<1>3. call \in CallType
  <2>1. Acct \in Accounts /\ maker \in DOMAIN Top.cache /\ cost \in Nat
    BY <1>1, ActFacts, LedgerKept, EnvironmentAssumption
  <2>2. bought.par \in Int /\ bought.wei \in Int
    BY <1>1, <2>1, AskedType, LedgerSound
  <2> HIDE DEF bought
  <2> QED
    BY <2>1, <2>2, CapturedType
<1>4. Await(call) /\ UNCHANGED <<ledger, status, operators>>
  BY DEF Buy
<1>5. CapturedBy(Top) = bought /\ call.par = bought.par /\ call.wei = bought.wei
  BY <1>1 DEF CapturedBy, Act, Acct, IndexOf, Captured
<1> HIDE DEF call, bought
<1>6. CallSound'
  BY <1>1, <1>3, <1>4, <1>5, AwaitFacts DEF CallSound
<1> QED
  BY <1>1, <1>2, <1>3, <1>4, <1>6, CaptureAuthorized

(* A sell captures what it would compute again.                            *)
LEMMA SellAuthorized ==
  ASSUME Inductive, Authorized, Sell
  PROVE  Authorized'
<1> DEFINE taker == Act.primaryMarket
           sold  == GetNewParAndDeltaWei(ledger, Acct, taker, IndexOf(taker), Act.amount)
           call  == Captured(sold.par, sold.wei, 0)
<1>1. frames # <<>> /\ Top.pc <= Len(Top.actions) /\ Act.type = "Sell"
  BY AtFacts DEF Sell
<1>2. Acct \in PrimaryAccounts /\ Reason(Top, Acct) /\ Awaiting = {Acct}
  BY <1>1, ActorReason DEF Sell, Awaiting
<1>3. call \in CallType
  <2>1. Acct \in Accounts /\ taker \in DOMAIN Top.cache
    BY <1>1, ActFacts, LedgerKept
  <2>2. sold.par \in Int /\ sold.wei \in Int
    BY <1>1, <2>1, AskedType, LedgerSound
  <2> HIDE DEF sold
  <2> QED
    BY <2>2, CapturedType
<1>4. Await(call) /\ UNCHANGED <<ledger, status, operators>>
  BY DEF Sell
<1>5. CapturedBy(Top) = sold /\ call.par = sold.par /\ call.wei = sold.wei
  BY <1>1 DEF CapturedBy, Act, Acct, IndexOf, Captured
<1> HIDE DEF call, sold
<1>6. CallSound'
  BY <1>1, <1>3, <1>4, <1>5, AwaitFacts DEF CallSound
<1> QED
  BY <1>1, <1>2, <1>3, <1>4, <1>6, CaptureAuthorized

(* A trade captures what it would compute again, of the other account.     *)
LEMMA TradeAuthorized ==
  ASSUME Inductive, Authorized, Trade
  PROVE  Authorized'
<1> DEFINE input == Act.primaryMarket
           moved == GetNewParAndDeltaWei(ledger, Othr, input, IndexOf(input), Act.amount)
           call  == Captured(moved.par, moved.wei, 0)
<1>1. frames # <<>> /\ Top.pc <= Len(Top.actions) /\ Act.type = "Trade"
  BY AtFacts DEF Trade
<1>2. TradePermitted /\ IsOperator(Acct, Top.sender)
  BY DEF Trade, TradePermitted
<1>3. \A a \in Awaiting : a \in PrimaryAccounts /\ Reason(Top, a)
  BY <1>1, <1>2, ActorReason, TraderReason DEF Awaiting
<1>4. call \in CallType
  <2>1. Othr \in Accounts /\ input \in DOMAIN Top.cache
    BY <1>1, ActFacts, LedgerKept
  <2>2. moved.par \in Int /\ moved.wei \in Int
    BY <1>1, <2>1, AskedType, LedgerSound
  <2> HIDE DEF moved
  <2> QED
    BY <2>2, CapturedType
<1>5. Await(call) /\ UNCHANGED <<ledger, status, operators>>
  BY DEF Trade
<1>6. CapturedBy(Top) = moved /\ call.par = moved.par /\ call.wei = moved.wei
  BY <1>1 DEF CapturedBy, Act, Othr, IndexOf, Captured
<1> HIDE DEF call, moved
<1>7. CallSound'
  BY <1>1, <1>4, <1>5, <1>6, AwaitFacts DEF CallSound
<1> QED
  BY <1>1, <1>3, <1>4, <1>5, <1>7, CaptureAuthorized

(* A call captures nothing that is used.                                   *)
LEMMA CallFunctionAuthorized ==
  ASSUME Inductive, Authorized, CallFunction
  PROVE  Authorized'
<1>1. frames # <<>> /\ Top.pc <= Len(Top.actions) /\ Act.type = "Call"
  BY AtFacts DEF CallFunction
<1>2. Acct \in PrimaryAccounts /\ Reason(Top, Acct) /\ Awaiting = {Acct}
  BY <1>1, ActorReason DEF CallFunction, Awaiting
<1>3. NoCall \in CallType /\ Await(NoCall) /\ UNCHANGED <<ledger, status, operators>>
  BY NoCallType DEF CallFunction
<1>4. CallSound'
  BY <1>1, <1>3, AwaitFacts DEF CallSound
<1> QED
  BY <1>1, <1>2, <1>3, <1>4, CaptureAuthorized

(* ... and after it, when the accounts that waited are changed.            *)
LEMMA ReturnReason ==
  ASSUME Authorized, NEW type, Returning(type)
  PROVE  /\ Reason(Top, Acct)
         /\ type \in {"Trade", "Liquidate", "Vaporize"} => Reason(Top, Othr)
         /\ CallSound
BY DEF Authorized, Permitted, Returning, Awaiting

(* A buy changes its account.                                              *)
LEMMA BuyReturnAuthorized ==
  ASSUME Inductive, Authorized, NEW received \in ExternalAmounts, BuyReturn(received)
  PROVE  Authorized'
<1>1. frames # <<>> /\ Top.pc <= Len(Top.actions)
  BY AtFacts DEF BuyReturn
<1>2. Acct \in PrimaryAccounts /\ Reason(Top, Acct)
  BY <1>1, ActorReason, ReturnReason DEF BuyReturn
<1>3. Untouched(ledger, ledger', {Acct})
  BY LedgerUntouched, SetParUntouched, SetParFromDeltaWeiUntouched DEF BuyReturn, Booked
<1> QED
  BY <1>1, <1>2, <1>3, ActionAuthorized DEF BuyReturn

(* So does a sell.                                                         *)
LEMMA SellReturnAuthorized ==
  ASSUME Inductive, Authorized, NEW received \in ExternalAmounts, SellReturn(received)
  PROVE  Authorized'
<1>1. frames # <<>> /\ Top.pc <= Len(Top.actions)
  BY AtFacts DEF SellReturn
<1>2. Acct \in PrimaryAccounts /\ Reason(Top, Acct)
  BY <1>1, ActorReason, ReturnReason DEF SellReturn
<1>3. Untouched(ledger, ledger', {Acct})
  BY LedgerUntouched, SetParUntouched, SetParFromDeltaWeiUntouched DEF SellReturn, Booked
<1> QED
  BY <1>1, <1>2, <1>3, ActionAuthorized DEF SellReturn

(* A trade changes both.                                                   *)
LEMMA TradeReturnTouches ==
  ASSUME Inductive, NEW answer, TradeReturn(answer)
  PROVE  Untouched(ledger, ledger', {Acct, Othr})
<1> DEFINE input    == Act.primaryMarket
           output   == Act.secondaryMarket
           moved    == GetNewParAndDeltaWei(ledger, Othr, output, IndexOf(output), answer)
           first    == SetPar(ledger, Othr, input, Top.call.par)
           maker    == SetPar(first, Othr, output, moved.par)
           third    == SetParFromDeltaWei(maker, Acct, input, IndexOf(input), -Top.call.wei)
           W        == {Acct, Othr}
<1>1. ledger' = SetParFromDeltaWei(third, Acct, output, IndexOf(output), -moved.wei)
  BY DEF TradeReturn, Booked
<1>2. Untouched(ledger, first, W)
  BY LedgerUntouched, SetParUntouched
<1> HIDE DEF first, moved
<1>3. Untouched(ledger, maker, W)
  BY <1>2, SetParUntouched
<1> HIDE DEF maker
<1>4. Untouched(ledger, third, W)
  BY <1>3, SetParFromDeltaWeiUntouched
<1> HIDE DEF third
<1> QED
  BY <1>1, <1>4, SetParFromDeltaWeiUntouched

(* It acts for one and trades with the other.                              *)
LEMMA TradeReturnAuthorized ==
  ASSUME Inductive, Authorized, NEW answer \in OutputAmounts, TradeReturn(answer)
  PROVE  Authorized'
<1>1. frames # <<>> /\ Top.pc <= Len(Top.actions) /\ Act.type = "Trade"
  BY AtFacts DEF TradeReturn
<1>2. \A a \in {Acct, Othr} : a \in PrimaryAccounts /\ Reason(Top, a)
  BY <1>1, ActorReason, ReturnReason DEF TradeReturn
<1> QED
  BY <1>1, <1>2, TradeReturnTouches, ActionAuthorized DEF TradeReturn

(* A call changes none.                                                    *)
LEMMA CallReturnAuthorized ==
  ASSUME Inductive, Authorized, CallReturn
  PROVE  Authorized'
<1>1. frames # <<>>
  BY AtFacts DEF CallReturn
<1>2. Untouched(ledger, ledger', {})
  BY LedgerUntouched DEF CallReturn
<1> QED
  BY <1>1, <1>2, ActionAuthorized DEF CallReturn

-----------------------------------------------------------------------------
(* Repayments.                                                             *)

(* What is asked of a balance, when it is no more than zero, comes to no   *)
(* more than zero also when it is booked as a difference of tokens.        *)
LEMMA AskedSettles ==
  ASSUME NEW L, Sound(L), NEW a \in Accounts, NEW m \in Markets,
         NEW indexed \in IndexType, NEW amount \in AssetAmount,
         L.par[a][m] <= 0,
         GetNewParAndDeltaWei(L, a, m, indexed, amount).par <= 0
  PROVE  WeiToPar(GetWei(L, a, m, indexed)
                    + GetNewParAndDeltaWei(L, a, m, indexed, amount).wei, indexed) <= 0
<1> DEFINE oldPar == L.par[a][m]
           oldWei == GetWei(L, a, m, indexed)
           isDelta == amount.ref = "Delta"
           newWei == IF isDelta THEN oldWei + amount.value ELSE amount.value
           newPar == IF isDelta THEN oldPar + amount.value ELSE amount.value
           asked == GetNewParAndDeltaWei(L, a, m, indexed, amount)
<1>1. /\ oldPar \in Int /\ oldWei \in Int /\ amount.value \in Int
      /\ oldWei = ParToWei(oldPar, indexed)
  BY GetWeiType DEF AssetAmount, GetWei
<1>2. newWei \in Int /\ newPar \in Int
  BY <1>1
<1>3. asked = IF isDelta /\ amount.value = 0
              THEN [par |-> oldPar, wei |-> 0]
              ELSE IF amount.denomination = "Wei"
              THEN [par |-> WeiToPar(newWei, indexed), wei |-> newWei - oldWei]
              ELSE [par |-> newPar, wei |-> ParToWei(newPar, indexed) - oldWei]
  BY DEF GetNewParAndDeltaWei
<1>4. \A x \in Int : x <= 0 => ParToWei(x, indexed) <= 0 /\ WeiToPar(x, indexed) <= 0
  BY ConversionMonotone, ConversionZero
<1>5. \A x \in Int : ParToWei(x, indexed) \in Int /\ WeiToPar(x, indexed) \in Int
  BY ConversionType
<1>6. oldPar <= 0 /\ asked.par <= 0
  OBVIOUS
<1> HIDE DEF oldPar, oldWei, newWei, newPar, asked
<1>7. CASE isDelta /\ amount.value = 0
  <2>1. asked.wei = 0
    BY <1>3, <1>7
  <2> QED
    BY <1>1, <1>4, <1>5, <1>6, <2>1 DEF asked, oldWei
<1>8. CASE ~(isDelta /\ amount.value = 0) /\ amount.denomination = "Wei"
  <2>1. asked.par = WeiToPar(newWei, indexed) /\ asked.wei = newWei - oldWei
    BY <1>3, <1>8
  <2>2. oldWei + asked.wei = newWei
    BY <1>1, <1>2, <2>1
  <2> QED
    BY <1>6, <2>1, <2>2 DEF asked, oldWei
<1>9. CASE ~(isDelta /\ amount.value = 0) /\ amount.denomination # "Wei"
  <2>1. asked.par = newPar /\ asked.wei = ParToWei(newPar, indexed) - oldWei
    BY <1>3, <1>9
  <2>2. oldWei + asked.wei = ParToWei(newPar, indexed)
    BY <1>1, <1>2, <1>5, <2>1
  <2>3. ParToWei(newPar, indexed) \in Int /\ ParToWei(newPar, indexed) <= 0
    BY <1>2, <1>4, <1>5, <1>6, <2>1
  <2> QED
    BY <1>4, <2>2, <2>3 DEF asked, oldWei
<1> QED
  BY <1>7, <1>8, <1>9

(* The repayment of a debt never goes past zero, in either way to book it, *)
(* and is never negative.                                                  *)
LEMMA RepaidSettles ==
  ASSUME NEW L, Sound(L), NEW a \in Accounts, NEW m \in Markets,
         NEW indexed \in IndexType, NEW amount \in AssetAmount,
         NEW repaid,
         repaid = GetNewParAndDeltaWeiForLiquidation(L, a, m, indexed, amount),
         repaid.allowed
  PROVE  /\ L.par[a][m] <= 0
         /\ repaid.par <= 0
         /\ repaid.wei \in Nat
         /\ WeiToPar(GetWei(L, a, m, indexed) + repaid.wei, indexed) <= 0
<1> DEFINE oldPar == L.par[a][m]
           oldWei == GetWei(L, a, m, indexed)
           asked == GetNewParAndDeltaWei(L, a, m, indexed, amount)
           bounded == IF asked.par > 0 THEN [par |-> 0, wei |-> -oldWei] ELSE asked
<1>1. /\ asked.par \in Int /\ asked.wei \in Int
      /\ oldPar \in Int /\ oldWei \in Int /\ oldWei = ParToWei(oldPar, indexed)
  BY NewParType, GetWeiType DEF GetWei
<1>2. /\ repaid.par = bounded.par
      /\ repaid.wei = IF bounded.par = oldPar THEN 0 ELSE bounded.wei
      /\ repaid.allowed <=> /\ oldPar <= 0
                            /\ bounded.wei >= 0
                            /\ Magnitude(oldPar) >= Magnitude(bounded.par)
  BY DEF GetNewParAndDeltaWeiForLiquidation
<1>3. oldPar <= 0 /\ bounded.wei >= 0
  BY <1>2
<1>4. asked.par <= 0 => WeiToPar(oldWei + asked.wei, indexed) <= 0
  BY <1>3, AskedSettles
<1>5. /\ WeiToPar(0, indexed) = 0
      /\ oldWei <= 0 => WeiToPar(oldWei, indexed) <= 0
      /\ oldPar <= 0 => oldWei <= 0
      /\ WeiToPar(oldWei, indexed) \in Int
  BY <1>1, ConversionMonotone, ConversionZero, ConversionType
<1> HIDE DEF oldPar, oldWei, asked
<1>6. bounded.par \in Int /\ bounded.wei \in Int /\ bounded.par <= 0
  BY <1>1
<1>7. WeiToPar(oldWei + bounded.wei, indexed) <= 0
  <2>1. CASE asked.par > 0
    <3>1. oldWei + bounded.wei = 0
      BY <1>1, <2>1
    <3> QED
      BY <1>5, <3>1
  <2>2. CASE ~(asked.par > 0)
    BY <1>1, <1>4, <2>2
  <2> QED
    BY <2>1, <2>2
<1> HIDE DEF bounded
<1>8. CASE bounded.par = oldPar
  <2>1. repaid.wei = 0 /\ oldWei + repaid.wei = oldWei
    BY <1>1, <1>2, <1>8
  <2> QED
    BY <1>2, <1>3, <1>5, <1>6, <2>1 DEF oldWei, oldPar
<1>9. CASE bounded.par # oldPar
  BY <1>2, <1>3, <1>6, <1>7, <1>9 DEF oldWei, oldPar
<1> QED
  BY <1>8, <1>9

(* When a repayment would take more than there is, what is there is given  *)
(* for no more than that repayment.                                        *)
LEMMA BoundedRepayment ==
  ASSUME NEW wei \in Nat, NEW maxHeld \in Nat,
         NEW heldPrice \in Nat \ {0}, NEW owedPrice \in Nat \ {0},
         OwedWeiToHeldWei(wei, heldPrice, owedPrice) > maxHeld
  PROVE  /\ HeldWeiToOwedWei(maxHeld, heldPrice, owedPrice) \in Nat
         /\ HeldWeiToOwedWei(maxHeld, heldPrice, owedPrice) <= wei
<1> DEFINE p == maxHeld * heldPrice
           q == wei * owedPrice
           h == q \div heldPrice
           o == (p - 1) \div owedPrice
<1>1. HeldWeiToOwedWei(maxHeld, heldPrice, owedPrice) \in Nat
  BY PartialType DEF HeldWeiToOwedWei
<1>2. p \in Nat /\ q \in Nat
  BY ProductType
<1>3. /\ h \in Nat /\ q % heldPrice \in 0..(heldPrice - 1)
      /\ q = heldPrice * h + (q % heldPrice)
  <2> HIDE DEF q
  <2> QED
    BY <1>2, DivisionFacts
<1>4. h > maxHeld
  BY DEF OwedWeiToHeldWei, GetPartial
<1>5. p <= q
  <2> HIDE DEF h, q
  <2>1. maxHeld * heldPrice <= h * heldPrice
    BY <1>3, <1>4, ProductMonotone
  <2>2. h * heldPrice = heldPrice * h
    BY <1>3
  <2> QED
    BY <1>2, <1>3, <2>1, <2>2
<1>6. CASE maxHeld = 0
  BY <1>6 DEF HeldWeiToOwedWei, GetPartialRoundUp
<1>7. CASE maxHeld # 0
  <2>1. p # 0 /\ p - 1 \in Nat
    BY <1>2, <1>7
  <2>2. HeldWeiToOwedWei(maxHeld, heldPrice, owedPrice) = o + 1
    BY <1>7 DEF HeldWeiToOwedWei, GetPartialRoundUp
  <2> HIDE DEF p
  <2>3. /\ o \in Nat /\ (p - 1) % owedPrice \in 0..(owedPrice - 1)
        /\ p - 1 = owedPrice * o + ((p - 1) % owedPrice)
    BY <2>1, DivisionFacts
  <2> HIDE DEF o
  <2>4. SUFFICES ASSUME o >= wei
                 PROVE  FALSE
    BY <2>2, <2>3
  <2>5. wei * owedPrice <= o * owedPrice
    BY <2>3, <2>4, ProductMonotone
  <2>6. o * owedPrice = owedPrice * o
    BY <2>3
  <2>7. q <= p - 1
    BY <1>2, <2>1, <2>3, <2>5, <2>6
  <2> HIDE DEF q
  <2> QED
    BY <1>2, <1>5, <2>7
<1> QED
  BY <1>1, <1>6, <1>7

(* The price of the debt in a liquidation or a vaporization, its spread    *)
(* added, is not zero.                                                     *)
LEMMA AdjustedPriceType ==
  ASSUME Inductive, frames # <<>>,
         NEW held \in DOMAIN Top.cache, NEW owed \in DOMAIN Top.cache
  PROVE  /\ Top.cache[held].price \in Nat \ {0}
         /\ OwedPriceAdjusted(held, owed) \in Nat \ {0}
<1> DEFINE plain == Top.cache[owed].price
           spread == GetLiquidationSpreadForPair(held, owed)
<1>1. /\ Top.cache[held].price \in Nat \ {0} /\ plain \in Nat \ {0}
      /\ held \in Markets /\ owed \in Markets
  BY CacheFacts
<1>2. spread \in Nat
  <2>1. /\ SpreadPremium[held] \in Nat /\ SpreadPremium[owed] \in Nat
        /\ LiquidationSpread \in Nat
    BY <1>1, OperationAssumption
  <2>2. OnePlus(SpreadPremium[held]) \in Nat /\ OnePlus(SpreadPremium[owed]) \in Nat
    BY <2>1, DecimalType
  <2>3. DecimalMul(LiquidationSpread, OnePlus(SpreadPremium[held])) \in Nat
    BY <2>1, <2>2, DecimalType
  <2> QED
    BY <2>2, <2>3, DecimalType DEF GetLiquidationSpreadForPair
<1>3. OwedPriceAdjusted(held, owed) = plain + DecimalMul(plain, spread)
  BY DEF OwedPriceAdjusted
<1> HIDE DEF plain, spread
<1>4. DecimalMul(plain, spread) \in Nat
  BY <1>1, <1>2, DecimalType
<1> QED
  BY <1>1, <1>3, <1>4 DEF plain

(* Whatever is exchanged for a repayment, the debt it leaves is none or a  *)
(* debt, both for the balance captured and for the tokens captured.        *)
LEMMA ExchangedSettles ==
  ASSUME Inductive, frames # <<>>,
         NEW L, Sound(L), NEW a \in Accounts,
         NEW held \in DOMAIN Top.cache, NEW owed \in DOMAIN Top.cache,
         NEW amount \in AssetAmount, NEW repaid,
         repaid = GetNewParAndDeltaWeiForLiquidation(L, a, owed, IndexOf(owed), amount),
         repaid.allowed,
         NEW maxHeld \in Nat, NEW call,
         call = Exchanged(repaid, held, owed, maxHeld)
  PROVE  IF call.bounded
         THEN WeiToPar(GetWei(L, a, owed, IndexOf(owed)) + call.wei, IndexOf(owed)) <= 0
         ELSE call.par <= 0
<1> DEFINE heldPrice == Top.cache[held].price
           owedPrice == OwedPriceAdjusted(held, owed)
           heldWei   == OwedWeiToHeldWei(repaid.wei, heldPrice, owedPrice)
           oldWei    == GetWei(L, a, owed, IndexOf(owed))
           indexed   == IndexOf(owed)
<1>1. owed \in Markets /\ indexed \in IndexType
  BY CacheFacts
<1>2. heldPrice \in Nat \ {0} /\ owedPrice \in Nat \ {0}
  BY AdjustedPriceType
<1>3. /\ repaid.par <= 0 /\ repaid.wei \in Nat
      /\ WeiToPar(oldWei + repaid.wei, indexed) <= 0
  BY <1>1, RepaidSettles
<1>4. oldWei \in Int
  BY <1>1, GetWeiType
<1>5. call = IF heldWei > maxHeld
             THEN [par |-> 0, wei |-> HeldWeiToOwedWei(maxHeld, heldPrice, owedPrice),
                   otherWei |-> -maxHeld, bounded |-> TRUE]
             ELSE Captured(repaid.par, repaid.wei, -heldWei)
  BY DEF Exchanged
<1> HIDE DEF heldPrice, owedPrice, oldWei, indexed
<1>6. CASE heldWei > maxHeld
  <2>1. call.bounded /\ call.wei = HeldWeiToOwedWei(maxHeld, heldPrice, owedPrice)
    BY <1>5, <1>6
  <2>2. call.wei \in Nat /\ call.wei <= repaid.wei
    BY <1>2, <1>3, <1>6, <2>1, BoundedRepayment
  <2>3. WeiToPar(oldWei + call.wei, indexed) <= WeiToPar(oldWei + repaid.wei, indexed)
    BY <1>1, <1>3, <1>4, <2>2, ConversionMonotone
  <2>4. /\ WeiToPar(oldWei + call.wei, indexed) \in Int
        /\ WeiToPar(oldWei + repaid.wei, indexed) \in Int
    BY <1>1, <1>3, <1>4, <2>2, ConversionType
  <2>5. WeiToPar(oldWei + call.wei, indexed) <= 0
    BY <1>3, <2>3, <2>4
  <2> QED
    BY <2>1, <2>5 DEF oldWei, indexed
<1>7. CASE ~(heldWei > maxHeld)
  <2>1. call = Captured(repaid.par, repaid.wei, -heldWei)
    BY <1>5, <1>7
  <2>2. ~call.bounded /\ call.par = repaid.par
    BY <2>1 DEF Captured
  <2> QED
    BY <1>3, <2>2
<1> QED
  BY <1>6, <1>7

-----------------------------------------------------------------------------
(* Liquidation and vaporization.                                           *)

(* A liquidation flags the other account, with reason.                     *)
LEMMA LiquidateAuthorized ==
  ASSUME Inductive, Authorized, Liquidate
  PROVE  Authorized'
<1> DEFINE owed    == Act.primaryMarket
           held    == Act.secondaryMarket
           maxHeld == GetWei(ledger, Othr, held, IndexOf(held))
           repaid  == GetNewParAndDeltaWeiForLiquidation(ledger, Othr, owed,
                        IndexOf(owed), Act.amount)
           call    == Exchanged(repaid, held, owed, maxHeld)
           W       == {Acct, Othr}
<1>1. frames # <<>> /\ Top.pc <= Len(Top.actions) /\ Act.type = "Liquidate"
  BY AtFacts DEF Liquidate
<1>2. /\ Othr \in Accounts /\ Act.amount \in AssetAmount
      /\ owed \in DOMAIN Top.cache /\ held \in DOMAIN Top.cache /\ held \in Markets
  BY <1>1, ActFacts, LedgerKept DEF ActionArgs
<1>3. /\ Acct \in PrimaryAccounts /\ Reason(Top, Acct)
      /\ Reason(Top, Othr)
  BY <1>1, ActorReason, LiquidatorReason DEF Liquidate, IsOperator
<1>4. /\ Await(call) /\ status' = [status EXCEPT ![Othr] = "Liquid"]
      /\ UNCHANGED <<ledger, operators>>
  BY DEF Liquidate
<1>5. call \in CallType
  <2>1. maxHeld \in Int /\ maxHeld >= 0
    BY <1>1, <1>2, CacheFacts, LedgerSound, GetWeiType DEF Liquidate
  <2>2. repaid.par \in Int /\ repaid.wei \in Int
    BY <1>1, <1>2, AskedType, LedgerSound
  <2> HIDE DEF repaid, maxHeld
  <2> QED
    BY <1>1, <1>2, <2>1, <2>2, ExchangedType
<1>6. status'[Othr] = "Liquid" /\ \A a \in Accounts \ W : status'[a] = status[a]
  BY <1>2, <1>4, StateTypes
<1>7. CallSound'
  <2>1. /\ Act' = Act /\ Othr' = Othr /\ Top'.call = call
        /\ Top'.cache = Top.cache /\ \A m : IndexOf(m)' = IndexOf(m)
    BY <1>1, <1>4, <1>5, AwaitFacts
  <2>2. call' = call
    BY <1>4, <2>1 DEF Exchanged, OwedPriceAdjusted
  <2>3. LiquidationSound'
    BY <1>4, <2>1, <2>2 DEF LiquidationSound, Liquidate
  <2> QED
    BY <1>1, <1>6, <2>1, <2>3 DEF CallSound
<1> HIDE DEF call
<1>8. Untouched(ledger, ledger', W) /\ Awaiting \subseteq W
  BY <1>1, <1>4, LedgerUntouched DEF Awaiting
<1> QED
  BY <1>1, <1>3, <1>4, <1>5, <1>6, <1>7, <1>8, ActionAuthorized

(* It then changes both accounts...                                        *)
LEMMA LiquidateReturnTouches ==
  ASSUME Inductive, LiquidateReturn
  PROVE  Untouched(ledger, ledger', {Acct, Othr})
<1> DEFINE owed == Act.primaryMarket
           held == Act.secondaryMarket
           taken == SetPar(ledger, Othr, held, 0)
           repaid == SetPar(ledger, Othr, owed, Top.call.par)
           seized == IF Top.call.bounded
                     THEN SetParFromDeltaWei(taken, Othr, owed, IndexOf(owed), Top.call.wei)
                     ELSE SetParFromDeltaWei(repaid, Othr, held, IndexOf(held),
                                             Top.call.otherWei)
           W == {Acct, Othr}
<1>1. ledger' = PaidBySolid(seized, owed, held)
  BY DEF LiquidateReturn, Booked
<1>2. Untouched(ledger, taken, W) /\ Untouched(ledger, repaid, W)
  BY LedgerUntouched, SetParUntouched
<1> HIDE DEF taken, repaid
<1>3. Untouched(ledger, seized, W)
  BY <1>2, SetParFromDeltaWeiUntouched
<1> HIDE DEF seized
<1> QED
  BY <1>1, <1>3, PaidBySolidUntouched

(* ... the other one flagged Liquid.                                       *)
LEMMA LiquidateReturnAuthorized ==
  ASSUME Inductive, Authorized, LiquidateReturn
  PROVE  Authorized'
<1>1. frames # <<>> /\ Top.pc <= Len(Top.actions) /\ Act.type = "Liquidate"
  BY AtFacts DEF LiquidateReturn
<1>2. /\ Acct \in PrimaryAccounts /\ Reason(Top, Acct)
      /\ Reason(Top, Othr) /\ CallSound
  BY <1>1, ActorReason, ReturnReason DEF LiquidateReturn
<1>3. UNCHANGED <<status, operators>>
  BY DEF LiquidateReturn
<1>4. status'[Othr] # "Vapor"
  BY <1>1, <1>2, <1>3 DEF CallSound
<1> QED
  BY <1>1, <1>2, <1>3, <1>4, LiquidateReturnTouches, ActionAuthorized DEF LiquidateReturn

(* The excess tokens repay a debt as far as they go, never past zero.      *)
LEMMA ExcessSettles ==
  ASSUME Inductive, frames # <<>>, NEW a \in Named(Top),
         NEW m \in Markets \cap DOMAIN Top.cache
  PROVE  /\ Untouched(ledger, VaporizeUsingExcess(a, m), {a})
         /\ OwesOnly(ledger, a) => OwesOnly(VaporizeUsingExcess(a, m), a)
<1> DEFINE excess == ExcessOf(ledger, m)
           wei    == GetWei(ledger, a, m, IndexOf(m))
           refund == Magnitude(wei)
           all    == SetPar(ledger, a, m, 0)
           part   == SetParFromDeltaWei(ledger, a, m, IndexOf(m), excess)
<1>1. a \in Accounts /\ IndexOf(m) \in IndexType /\ Sound(ledger)
  BY LedgerKept, LedgerSound, CacheFacts
<1>2. /\ excess \in Int /\ wei \in Int /\ ledger.par[a][m] \in Int
      /\ wei = ParToWei(ledger.par[a][m], IndexOf(m))
  BY <1>1, LedgerSound, ExcessType, GetWeiType DEF GetWei
<1>3. VaporizeUsingExcess(a, m) = IF excess <= 0 THEN ledger
                                  ELSE IF excess >= refund THEN all ELSE part
  BY DEF VaporizeUsingExcess
<1>4. /\ Untouched(ledger, ledger, {a}) /\ Untouched(ledger, all, {a})
      /\ Untouched(ledger, part, {a})
  BY LedgerUntouched, SetParUntouched, SetParFromDeltaWeiUntouched
<1>5. OwesOnly(ledger, a) => OwesOnly(all, a)
  BY <1>1, SetParRows DEF OwesOnly
<1>6. ASSUME OwesOnly(ledger, a), ~(excess <= 0), ~(excess >= refund)
      PROVE  OwesOnly(part, a)
  <2>1. /\ part.par[a][m] = IF excess = 0 THEN ledger.par[a][m]
                            ELSE WeiToPar(wei + excess, IndexOf(m))
        /\ \A n \in Markets \ {m} : part.par[a][n] = ledger.par[a][n]
    <3> HIDE DEF excess
    <3> QED
      BY <1>1, <1>2, SetParFromDeltaWeiRows
  <2>2. ledger.par[a][m] <= 0
    BY <1>6 DEF OwesOnly
  <2>3. wei <= 0
    BY <1>1, <1>2, <2>2, ConversionType
  <2> HIDE DEF excess, wei, part
  <2>4. wei + excess \in Int /\ wei + excess <= 0
    BY <1>2, <1>6, <2>3 DEF Magnitude
  <2>5. WeiToPar(wei + excess, IndexOf(m)) <= 0
    BY <1>1, <2>4, ConversionMonotone, ConversionZero
  <2> QED
    BY <1>6, <2>1, <2>2, <2>5 DEF OwesOnly
<1> HIDE DEF excess, refund, all, part
<1> QED
  BY <1>3, <1>4, <1>5, <1>6

(* They change the balances of that account only.                          *)
LEMMA VaporizingTouches ==
  ASSUME Inductive, frames # <<>>, Top.pc <= Len(Top.actions), Act.type = "Vaporize"
  PROVE  Untouched(ledger, VaporizeUsingExcess(Othr, Act.primaryMarket), {Acct, Othr})
<1>1. /\ Othr \in Named(Top)
      /\ Act.primaryMarket \in Markets \cap DOMAIN Top.cache
  BY ActFacts
<1>2. Untouched(ledger, VaporizeUsingExcess(Othr, Act.primaryMarket), {Othr})
  BY <1>1, ExcessSettles
<1> QED
  BY <1>2 DEF Untouched

(* An account that may be vaporized owes only, unless it has become        *)
(* primary.                                                                *)
LEMMA VaporizableSettles ==
  ASSUME Inductive, Authorized, frames # <<>>, NEW a \in Named(Top), Vaporizable(a)
  PROVE  a \in PrimaryAccounts \/ OwesOnly(ledger, a)
<1>1. a \in Accounts
  BY LedgerKept
<1> QED
  BY <1>1, VaporizableOwesOnly DEF Vaporizable, Authorized, VaporSound

(* A vaporization that the owed market pays for.                           *)
LEMMA VaporizeFullyAuthorized ==
  ASSUME Inductive, Authorized, VaporizeFully
  PROVE  Authorized'
<1>1. frames # <<>> /\ Top.pc <= Len(Top.actions) /\ Act.type = "Vaporize"
  BY AtFacts DEF VaporizeFully
<1>2. /\ Othr \in Named(Top) /\ Othr \in Accounts
      /\ Act.primaryMarket \in Markets \cap DOMAIN Top.cache
  BY <1>1, ActFacts, LedgerKept
<1>3. /\ ledger' = VaporizeUsingExcess(Othr, Act.primaryMarket)
      /\ status' = [status EXCEPT ![Othr] = "Vapor"]
      /\ operators' = operators /\ Advance /\ Vaporizable(Othr)
  BY DEF VaporizeFully, Booked
<1>4. Reason(Top, Othr)
  BY <1>1, <1>3, VaporizerReason
<1>5. Othr \in PrimaryAccounts \/ OwesOnly(ledger', Othr)
  BY <1>1, <1>2, <1>3, ExcessSettles, VaporizableSettles
<1>6. Untouched(ledger, ledger', {Othr})
  BY <1>1, <1>2, <1>3, ExcessSettles
<1>7. \A a \in Accounts \ {Othr} : status'[a] = status[a]
  BY <1>3, StateTypes
<1> QED
  BY <1>1, <1>3, <1>4, <1>5, <1>6, <1>7, ActionAuthorized

(* Any other vaporization captures a repayment that settles.               *)
LEMMA VaporizeAuthorized ==
  ASSUME Inductive, Authorized, Vaporize
  PROVE  Authorized'
<1> DEFINE owed    == Act.primaryMarket
           held    == Act.secondaryMarket
           partly  == VaporizeUsingExcess(Othr, owed)
           maxHeld == ExcessOf(partly, held)
           repaid  == GetNewParAndDeltaWeiForLiquidation(partly, Othr, owed,
                        IndexOf(owed), Act.amount)
           call    == Exchanged(repaid, held, owed, maxHeld)
           W       == {Acct, Othr}
<1>1. frames # <<>> /\ Top.pc <= Len(Top.actions) /\ Act.type = "Vaporize"
  BY AtFacts DEF Vaporize
<1>2. /\ Othr \in Named(Top) /\ Othr \in Accounts /\ Act.amount \in AssetAmount
      /\ owed \in Markets \cap DOMAIN Top.cache
      /\ held \in Markets \cap DOMAIN Top.cache
  BY <1>1, ActFacts, LedgerKept DEF ActionArgs
<1>3. /\ ledger' = partly /\ partly.fits
      /\ status' = [status EXCEPT ![Othr] = "Vapor"]
      /\ operators' = operators /\ Await(call) /\ Vaporizable(Othr)
      /\ IsOperator(Acct, Top.sender)
      /\ maxHeld >= 0 /\ repaid.allowed
  BY DEF Vaporize, Booked
<1>4. Acct \in PrimaryAccounts /\ Reason(Top, Acct) /\ Reason(Top, Othr)
  BY <1>1, <1>3, ActorReason, VaporizerReason
<1>5. /\ Untouched(ledger, partly, {Othr})
      /\ Othr \in PrimaryAccounts \/ OwesOnly(partly, Othr)
  BY <1>1, <1>2, <1>3, ExcessSettles, VaporizableSettles
<1>6. Sound(partly) /\ partly \in LedgerType
  <2>1. Writable(partly)
    BY <1>1, <1>2, VaporizeUsingExcessKept
  <2> QED
    BY <1>3, <2>1 DEF Writable, Kept, Sound
<1> HIDE DEF partly
<1>7. maxHeld \in Nat
  BY <1>2, <1>3, <1>6, ExcessType
<1>8. repaid.par \in Int /\ repaid.wei \in Int
  BY <1>1, <1>2, <1>6, AskedType
<1> HIDE DEF repaid, maxHeld
<1>9. call \in CallType
  BY <1>1, <1>2, <1>7, <1>8, ExchangedType
<1>10. IF call.bounded
       THEN WeiToPar(GetWei(partly, Othr, owed, IndexOf(owed)) + call.wei, IndexOf(owed)) <= 0
       ELSE call.par <= 0
  BY <1>1, <1>2, <1>3, <1>6, <1>7, ExchangedSettles DEF repaid
<1> HIDE DEF call
<1>11. CallSound'
  <2>1. Act' = Act /\ Othr' = Othr /\ Top'.call = call /\ \A m : IndexOf(m)' = IndexOf(m)
    BY <1>1, <1>3, <1>9, AwaitFacts
  <2>2. RepaymentSound'
    BY <1>3, <1>10, <2>1 DEF RepaymentSound
  <2> QED
    BY <1>1, <2>1, <2>2 DEF CallSound
<1>12. \A a \in Accounts \ W : status'[a] = status[a]
  BY <1>3, StateTypes
<1>13. Untouched(ledger, ledger', W) /\ Awaiting \subseteq W
  BY <1>1, <1>3, <1>5 DEF Untouched, Awaiting
<1> QED
  BY <1>1, <1>3, <1>4, <1>5, <1>9, <1>11, <1>12, <1>13, ActionAuthorized

(* It then repays the debt...                                              *)
LEMMA VaporizeReturnTouches ==
  ASSUME Inductive, VaporizeReturn
  PROVE  Untouched(ledger, ledger', {Acct, Othr})
<1> DEFINE owed  == Act.primaryMarket
           held  == Act.secondaryMarket
           some  == SetParFromDeltaWei(ledger, Othr, owed, IndexOf(owed), Top.call.wei)
           rest  == SetPar(ledger, Othr, owed, Top.call.par)
           freed == IF Top.call.bounded THEN some ELSE rest
           W     == {Acct, Othr}
<1>1. ledger' = PaidBySolid(freed, owed, held)
  BY DEF VaporizeReturn, Booked
<1>2. Untouched(ledger, some, W) /\ Untouched(ledger, rest, W)
  BY LedgerUntouched, SetParUntouched, SetParFromDeltaWeiUntouched
<1> HIDE DEF some, rest
<1>3. Untouched(ledger, freed, W)
  BY <1>2
<1> HIDE DEF freed
<1> QED
  BY <1>1, <1>3, PaidBySolidUntouched

(* ... never past zero, and changes the solid account.                     *)
LEMMA VaporizeReturnAuthorized ==
  ASSUME Inductive, Authorized, VaporizeReturn
  PROVE  Authorized'
<1> DEFINE owed  == Act.primaryMarket
           held  == Act.secondaryMarket
           some  == SetParFromDeltaWei(ledger, Othr, owed, IndexOf(owed), Top.call.wei)
           rest  == SetPar(ledger, Othr, owed, Top.call.par)
           freed == IF Top.call.bounded THEN some ELSE rest
           W     == {Acct, Othr}
<1>1. frames # <<>> /\ Top.pc <= Len(Top.actions) /\ Act.type = "Vaporize"
  BY AtFacts DEF VaporizeReturn
<1>2. /\ Othr \in Accounts
      /\ owed \in Markets /\ owed \in DOMAIN Top.cache
      /\ IndexOf(owed) \in IndexType
  BY <1>1, ActFacts, LedgerKept, CacheFacts
<1>3. /\ Acct \in PrimaryAccounts /\ Reason(Top, Acct)
      /\ Reason(Top, Othr) /\ RepaymentSound
  BY <1>1, ActorReason, ReturnReason DEF VaporizeReturn, CallSound
<1>4. /\ ledger' = PaidBySolid(freed, owed, held)
      /\ UNCHANGED <<status, operators>> /\ Advance
  BY DEF VaporizeReturn, Booked
<1>5. Untouched(ledger, some, W) /\ Untouched(ledger, rest, W)
  BY LedgerUntouched, SetParUntouched, SetParFromDeltaWeiUntouched
<1>6. Sound(ledger) /\ Top.call.par \in Int /\ Top.call.wei \in Int
  BY <1>1, LedgerSound, CallFacts
<1>7. /\ Top.call.bounded => some.par[Othr][owed] <= 0 \/ some.par[Othr][owed] = ledger.par[Othr][owed]
      /\ \A n \in Markets \ {owed} : some.par[Othr][n] = ledger.par[Othr][n]
  BY <1>2, <1>3, <1>6, SetParFromDeltaWeiRows DEF RepaymentSound
<1>8. /\ ~Top.call.bounded => rest.par[Othr][owed] <= 0
      /\ \A n \in Markets \ {owed} : rest.par[Othr][n] = ledger.par[Othr][n]
  BY <1>2, <1>3, <1>6, SetParRows DEF RepaymentSound
<1> HIDE DEF some, rest
<1>9. /\ Untouched(ledger, freed, W)
      /\ OwesOnly(ledger, Othr) => OwesOnly(freed, Othr)
  BY <1>5, <1>7, <1>8 DEF OwesOnly
<1> HIDE DEF freed
<1>10. Untouched(ledger, ledger', W)
  BY <1>4, <1>9, PaidBySolidUntouched
<1>11. Othr # Acct => ledger'.par[Othr] = freed.par[Othr]
  <2>1. Untouched(freed, freed, {Acct})
    BY <1>9 DEF Untouched
  <2>2. Untouched(freed, ledger', {Acct})
    BY <1>4, <2>1, PaidBySolidUntouched
  <2> QED
    BY <1>2, <2>2 DEF Untouched
<1>12. Othr \in PrimaryAccounts \/ (status'[Othr] = "Vapor" => OwesOnly(ledger', Othr))
  <2>1. SUFFICES ASSUME Othr \notin PrimaryAccounts, status[Othr] = "Vapor"
                 PROVE  OwesOnly(ledger', Othr)
    BY <1>4
  <2>2. OwesOnly(ledger, Othr)
    BY <1>1, <1>2, <2>1 DEF Authorized, VaporSound
  <2>3. Othr # Acct
    BY <1>3, <2>1
  <2> QED
    BY <1>9, <1>11, <2>2, <2>3 DEF OwesOnly
<1> QED
  BY <1>1, <1>3, <1>4, <1>10, <1>12, ActionAuthorized

-----------------------------------------------------------------------------
(* All steps of actions.                                                   *)

(* The accounts whose balances or flag the current action may change.      *)
Touched ==
  {Acct} \cup (IF Act.type \in {"Transfer", "Trade", "Liquidate", "Vaporize"}
               THEN {Othr} ELSE {})

(* So far the lemmas of the actions, in one: a step of an action changes   *)
(* the balances and flags of these accounts only, and moves on or waits.   *)
LEMMA StepTouches ==
  ASSUME Inductive, Step, frames # <<>>, frames' # <<>>
  PROVE  /\ Top.pc <= Len(Top.actions)
         /\ UNCHANGED <<operators, index, now>>
         /\ Untouched(ledger, ledger', Touched)
         /\ \A a \in Accounts \ Touched : status'[a] = status[a]
         /\ Advance \/ (~Top.waiting /\ \E call : Await(call))
<1> DEFINE Goal == /\ Top.pc <= Len(Top.actions)
                   /\ UNCHANGED <<operators, index, now>>
                   /\ Untouched(ledger, ledger', Touched)
                   /\ \A a \in Accounts \ Touched : status'[a] = status[a]
                   /\ Advance \/ (~Top.waiting /\ \E call : Await(call))
<1>1. /\ Acct \in Touched
      /\ Act.type \in {"Transfer", "Trade", "Liquidate", "Vaporize"}
           => Othr \in Touched /\ Touched = {Acct, Othr}
      /\ Untouched(ledger, ledger, Touched)
  BY LedgerUntouched DEF Touched
<1>2. CASE Deposit
  BY <1>1, <1>2, AtFacts, SetParUntouched DEF Deposit, Booked, At
<1>3. CASE Withdraw
  BY <1>1, <1>3, AtFacts, SetParUntouched DEF Withdraw, Booked, At
<1>4. CASE Transfer
  BY <1>1, <1>4, AtFacts, TransferTouches DEF Transfer, At
<1>5. ASSUME NEW amount \in ExternalAmounts,
             Buy(amount) \/ BuyReturn(amount) \/ SellReturn(amount)
      PROVE  Goal
  <2>1. CASE Buy(amount)
    BY <1>1, <2>1, AtFacts DEF Buy, At
  <2>2. CASE BuyReturn(amount)
    BY <1>1, <2>2, AtFacts, SetParUntouched, SetParFromDeltaWeiUntouched
       DEF BuyReturn, Booked, Returning
  <2>3. CASE SellReturn(amount)
    BY <1>1, <2>3, AtFacts, SetParUntouched, SetParFromDeltaWeiUntouched
       DEF SellReturn, Booked, Returning
  <2> QED
    BY <1>5, <2>1, <2>2, <2>3
<1>6. CASE Sell
  BY <1>1, <1>6, AtFacts DEF Sell, At
<1>7. CASE Trade
  BY <1>1, <1>7, AtFacts DEF Trade, At
<1>8. CASE \E answer \in OutputAmounts : TradeReturn(answer)
  BY <1>1, <1>8, AtFacts, TradeReturnTouches DEF TradeReturn, Returning
<1>9. CASE Liquidate
  BY <1>1, <1>9, AtFacts, StateTypes DEF Liquidate, At
<1>10. CASE LiquidateReturn
  BY <1>1, <1>10, AtFacts, LiquidateReturnTouches DEF LiquidateReturn, Returning
<1>11. CASE VaporizeFully
  BY <1>1, <1>11, AtFacts, StateTypes, VaporizingTouches DEF VaporizeFully, At, Booked
<1>12. CASE Vaporize
  BY <1>1, <1>12, AtFacts, StateTypes, VaporizingTouches DEF Vaporize, At, Booked
<1>13. CASE VaporizeReturn
  BY <1>1, <1>13, AtFacts, VaporizeReturnTouches DEF VaporizeReturn, Returning
<1>14. CASE CallFunction
  BY <1>1, <1>14, AtFacts DEF CallFunction, At
<1>15. CASE CallReturn
  BY <1>1, <1>15, AtFacts DEF CallReturn, Returning
<1>16. ~Commit /\ ~Revert
  BY PopFacts DEF Commit, Revert
<1> QED
  BY <1>2, <1>3, <1>4, <1>5, <1>6, <1>7, <1>8, <1>9, <1>10, <1>11, <1>12,
     <1>13, <1>14, <1>15, <1>16 DEF Step

-----------------------------------------------------------------------------
(* The beginning and the ends of an operation.                             *)

(* An operation begins with nothing changed.                               *)
LEMMA BeginAuthorized ==
  ASSUME Inductive, Authorized, NEW request, NEW rate, Begin(request, rate)
  PROVE  Authorized'
<1> DEFINE markets == CachedMarkets(request)
           updated == [m \in Markets |-> IF m \in markets
                                         THEN UpdatedIndex(m, rate[m])
                                         ELSE index[m]]
           frame == [sender   |-> request.sender,
                     accounts |-> request.accounts,
                     actions  |-> request.actions,
                     pc       |-> 1,
                     primary  |-> PrimaryAfter(request.actions, Len(request.actions)),
                     counts   |-> [i \in DOMAIN request.accounts |->
                                     Cardinality(ledger.held[request.accounts[i]])],
                     cache    |-> [m \in markets |-> MarketInfo(m, updated[m])],
                     waiting  |-> FALSE,
                     call     |-> NoCall,
                     saved    |-> Snapshot,
                     trusted  |-> operators]
<1>1. frames = <<>>
  BY DEF Inductive, Begin, MayEnter
<1>2. /\ VaporSound(ledger, status, {})
      /\ UNCHANGED <<ledger, status, operators>>
  BY <1>1 DEF Authorized, Begin
<1>3. /\ frames' # <<>>
      /\ Top'.saved = Snapshot /\ Top'.trusted = operators /\ ~Top'.waiting
  <2>1. frames' = Append(<<>>, frame)
    BY <1>1 DEF Begin
  <2>2. /\ frame.saved = Snapshot /\ frame.trusted = operators
        /\ ~frame.waiting
    OBVIOUS
  <2> HIDE DEF frame
  <2>3. frames' = <<frame>>
    BY <2>1, OneFrame
  <2> QED
    BY <2>2, <2>3, OneFrame DEF Top
<1>4. Snapshot.ledger = ledger /\ Snapshot.status = status
  BY DEF Snapshot
<1>5. Permitted'
  BY <1>2, <1>3, <1>4 DEF Permitted, VaporSound
<1>6. VaporSound(ledger', status', PrimaryAccounts')
  BY <1>2 DEF VaporSound
<1> QED
  BY <1>2, <1>3, <1>4, <1>5, <1>6 DEF Authorized

(* A commit clears the flags of the primary accounts.                      *)
LEMMA CommitAuthorized ==
  ASSUME Inductive, Authorized, Commit
  PROVE  Authorized'
<1>1. frames # <<>> /\ frames' = <<>>
  BY PopFacts DEF Commit
<1>2. /\ VaporSound(ledger, status, PrimaryAccounts)
      /\ ledger' = ledger
      /\ status' = [a \in Accounts |-> FinalStatus(a)]
  BY <1>1 DEF Authorized, Commit
<1>3. VaporSound(ledger', status', {})
  BY <1>2 DEF VaporSound, FinalStatus, OwesOnly
<1> QED
  BY <1>1, <1>3 DEF Authorized

(* A revert restores a state in which the flags were sound.                *)
LEMMA RevertAuthorized ==
  ASSUME Inductive, Authorized, Revert
  PROVE  Authorized'
<1>1. frames # <<>> /\ frames' = <<>>
  BY PopFacts DEF Revert
<1>2. /\ VaporSound(Top.saved.ledger, Top.saved.status, {})
      /\ ledger' = Top.saved.ledger /\ status' = Top.saved.status
  BY <1>1 DEF Authorized, Revert
<1> QED
  BY <1>1, <1>2 DEF Authorized

-----------------------------------------------------------------------------
(* The environment.                                                        *)

(* A step that changes neither balances, flags, operators nor frames.      *)
LEMMA QuietAuthorized ==
  ASSUME Authorized, UNCHANGED <<ledger, status, operators, frames>>
  PROVE  Authorized'
<1>1. Top' = Top /\ Act' = Act
  BY DEF Top, Act
<1>2. Acct' = Acct /\ Othr' = Othr /\ PrimaryAccounts' = PrimaryAccounts
  BY <1>1 DEF Acct, Othr, PrimaryAccounts
<1>3. Awaiting' = Awaiting /\ \A m : IndexOf(m)' = IndexOf(m)
  BY <1>1, <1>2 DEF Awaiting, IndexOf
<1>4. CapturedBy(Top)' = CapturedBy(Top)
  BY <1>1 DEF CapturedBy
<1>5. CallSound => CallSound'
  BY <1>1, <1>2, <1>3, <1>4, LiquidationSame DEF CallSound, RepaymentSound
<1>6. Permitted => Permitted'
  BY <1>1, <1>3 DEF Permitted
<1> QED
  BY <1>1, <1>2, <1>5, <1>6 DEF Authorized

(* Who comes to be trusted is remembered by the frame; who no longer is    *)
(* remains a reason for what was done before.                              *)
LEMMA SetOperatorAuthorized ==
  ASSUME Inductive, Authorized, NEW pair, NEW trusted, SetOperator(pair, trusted)
  PROVE  Authorized'
<1>1. UNCHANGED <<ledger, status>>
  BY DEF SetOperator
<1>2. CASE frames = <<>>
  <2>1. frames' = <<>>
    BY <1>2 DEF SetOperator
  <2> QED
    BY <1>1, <1>2, <2>1 DEF Authorized
<1>3. CASE frames # <<>>
  <2> DEFINE next == [Top EXCEPT !.trusted = Top.trusted \cup operators']
  <2>1. frames = <<Top>> /\ IsFrame(Top)
    BY <1>3, TopFacts
  <2>2. frames' # <<>> /\ Top' = next
    <3>1. DOMAIN frames = {1} /\ frames[1] = Top
      BY <2>1
    <3>2. frames' = [i \in {1} |-> next]
      BY <3>1 DEF SetOperator
    <3> HIDE DEF next
    <3>3. frames' = <<next>>
      BY <3>2
    <3> QED
      BY <3>3 DEF Top
  <2>3. /\ next.sender = Top.sender /\ next.accounts = Top.accounts
        /\ next.actions = Top.actions /\ next.cache = Top.cache
        /\ next.saved = Top.saved /\ next.primary = Top.primary
        /\ next.waiting = Top.waiting /\ next.pc = Top.pc /\ next.call = Top.call
        /\ next.trusted = Top.trusted \cup operators'
    BY <2>1 DEF IsFrame
  <2> HIDE DEF next
  <2>4. \A a : Reason(Top, a) => Reason(Top', a)
    BY <2>2, <2>3, ReasonStays
  <2>5. /\ Act' = Act /\ Acct' = Acct /\ Othr' = Othr
        /\ PrimaryAccounts' = PrimaryAccounts
    BY <2>2, <2>3 DEF Act, Acct, Othr, PrimaryAccounts
  <2>6. Awaiting' = Awaiting /\ \A m : IndexOf(m)' = IndexOf(m)
    BY <2>2, <2>3, <2>5 DEF Awaiting, IndexOf
  <2>7. CapturedBy(Top)' = CapturedBy(Top)
    BY <1>1, <2>2, <2>3 DEF CapturedBy
  <2>8. CallSound => CallSound'
    BY <1>1, <2>2, <2>3, <2>5, <2>6, <2>7, LiquidationSame DEF CallSound, RepaymentSound
  <2>9. Permitted => Permitted'
    BY <1>1, <2>2, <2>3, <2>4, <2>6 DEF Permitted
  <2> QED
    BY <1>1, <1>3, <2>2, <2>3, <2>5, <2>8, <2>9 DEF Authorized
<1> QED
  BY <1>2, <1>3

-----------------------------------------------------------------------------
(* Authorized is an invariant.                                             *)

(* No account is flagged at first.                                         *)
LEMMA InitAuthorized ==
  ASSUME Init
  PROVE  Authorized
BY DEF Init, Authorized, VaporSound

(* Every step of an operation keeps Authorized.                            *)
LEMMA StepAuthorized ==
  ASSUME Inductive, Authorized, Step
  PROVE  Authorized'
<1>1. CASE Deposit
  BY <1>1, DepositAuthorized
<1>2. CASE Withdraw
  BY <1>2, WithdrawAuthorized
<1>3. CASE Transfer
  BY <1>3, TransferAuthorized
<1>4. CASE \E amount \in ExternalAmounts :
             Buy(amount) \/ BuyReturn(amount) \/ SellReturn(amount)
  BY <1>4, BuyAuthorized, BuyReturnAuthorized, SellReturnAuthorized
<1>5. CASE Sell
  BY <1>5, SellAuthorized
<1>6. CASE Trade
  BY <1>6, TradeAuthorized
<1>7. CASE \E answer \in OutputAmounts : TradeReturn(answer)
  BY <1>7, TradeReturnAuthorized
<1>8. CASE Liquidate
  BY <1>8, LiquidateAuthorized
<1>9. CASE LiquidateReturn
  BY <1>9, LiquidateReturnAuthorized
<1>10. CASE VaporizeFully
  BY <1>10, VaporizeFullyAuthorized
<1>11. CASE Vaporize
  BY <1>11, VaporizeAuthorized
<1>12. CASE VaporizeReturn
  BY <1>12, VaporizeReturnAuthorized
<1>13. CASE CallFunction
  BY <1>13, CallFunctionAuthorized
<1>14. CASE CallReturn
  BY <1>14, CallReturnAuthorized
<1>15. CASE Commit
  BY <1>15, CommitAuthorized
<1>16. CASE Revert
  BY <1>16, RevertAuthorized
<1> QED
  BY <1>1, <1>2, <1>3, <1>4, <1>5, <1>6, <1>7, <1>8, <1>9, <1>10, <1>11,
     <1>12, <1>13, <1>14, <1>15, <1>16 DEF Step

(* So does whatever runs around an operation.                              *)
LEMMA EnvironmentAuthorized ==
  ASSUME Inductive, Authorized, Environment
  PROVE  Authorized'
<1>1. CASE \E pair \in Grants, trusted \in BOOLEAN : SetOperator(pair, trusted)
  BY <1>1, SetOperatorAuthorized
<1>2. CASE \E m \in Gifted : SendTokens(m)
  BY <1>2, QuietAuthorized DEF SendTokens
<1>3. CASE \E m \in Markets : \E newPrice \in Prices[m] : MovePrice(m, newPrice)
  BY <1>3, QuietAuthorized DEF MovePrice
<1>4. CASE Tick
  BY <1>4, QuietAuthorized DEF Tick
<1>5. CASE \E m \in Closable, closing \in BOOLEAN : OwnerSetIsClosing(m, closing)
  BY <1>5, QuietAuthorized DEF OwnerSetIsClosing
<1>6. CASE \E m \in Markets, cap \in WeiCaps : OwnerSetMaxWei(m, cap)
  BY <1>6, QuietAuthorized DEF OwnerSetMaxWei
<1>7. CASE \E count \in MarketMaxima : OwnerSetMaxMarkets(count)
  BY <1>7, QuietAuthorized DEF OwnerSetMaxMarkets
<1>8. CASE \E m \in Markets : OwnerWithdrawExcessTokens(m)
  BY <1>8, QuietAuthorized DEF OwnerWithdrawExcessTokens
<1> QED
  BY <1>1, <1>2, <1>3, <1>4, <1>5, <1>6, <1>7, <1>8 DEF Environment

(* Authorized holds in every reachable state.                              *)
THEOREM AuthorizedInvariant == Spec => []Authorized
<1>1. Init => Authorized
  BY InitAuthorized
<1>2. Inductive /\ Authorized /\ [Next]_vars => Authorized'
  <2>1. CASE UNCHANGED vars
    BY <2>1, QuietAuthorized DEF vars
  <2> QED
    BY <2>1, BeginAuthorized, StepAuthorized, EnvironmentAuthorized DEF Next
<1> QED
  BY <1>1, <1>2, InductiveInvariant, PTL DEF Spec

-----------------------------------------------------------------------------
(* What follows from it.                                                   *)

(* What Buy, Sell and Trade computed before their external call is what    *)
(* they would compute when it returns, whatever ran in between.            *)
THEOREM CapturesStayTrue == Spec => []CapturedStillTrue
<1>1. Inductive /\ Authorized => CapturedStillTrue
  <2>1. SUFFICES ASSUME Inductive, Authorized, NEW d \in DOMAIN frames,
                        frames[d].waiting,
                        frames[d].actions[frames[d].pc].type \in {"Buy", "Sell", "Trade"}
                 PROVE  /\ frames[d].call.par = CapturedBy(frames[d]).par
                        /\ frames[d].call.wei = CapturedBy(frames[d]).wei
    BY DEF CapturedStillTrue
  <2>2. frames # <<>> /\ frames = <<Top>>
    BY <2>1 DEF Inductive
  <2>3. frames[d] = Top
    BY <2>2
  <2> QED
    BY <2>1, <2>2, <2>3 DEF Authorized, CallSound, Act
<1> QED
  BY <1>1, InductiveInvariant, AuthorizedInvariant, PTL

(* Between operations an account flagged Vapor has no supply, whatever     *)
(* rounding the repayments of its debts went through.                      *)
THEOREM VaporOwes == Spec => []VaporOwesOnly
<1>1. Authorized => VaporOwesOnly
  BY DEF Authorized, VaporOwesOnly, VaporSound, OwesOnly
<1> QED
  BY <1>1, AuthorizedInvariant, PTL

(* An account that was not collateralized over the cache when the          *)
(* operation began was not collateralized over all markets.                *)
LEMMA CollateralWasTrue ==
  ASSUME Inductive, frames # <<>>, NEW a \in Named(Top),
         TrulyCollateralized(Top.saved.ledger, a, Top)
  PROVE  IsCollateralized(Top.saved.ledger, a, Top.cache)
<1> DEFINE old == Top.saved.ledger
<1>1. /\ a \in Accounts /\ SummariesMatch(old)
      /\ old \in LedgerType
  <2>1. Top.saved \in SnapshotType
    BY TopFacts DEF IsFrame
  <2> QED
    BY <2>1, LedgerKept, TopFacts DEF FrameSound, SavedSound, BooksSound, SnapshotType
<1>2. \A m \in Markets : old.par[a][m] \in Int
  BY <1>1 DEF LedgerType
<1>3. \A m \in Markets : old.par[a][m] # 0 => m \in DOMAIN Top.cache
  BY <1>1, TopFacts DEF FrameSound, CacheSound, SummariesMatch
<1>4. CASE \A m \in Markets : old.par[a][m] >= 0
  <2>1. {m \in Markets : old.par[a][m] < 0} = {}
    BY <1>2, <1>4
  <2>2. old.debts[a] = 0
    BY <1>1, <2>1, FS_EmptySet DEF SummariesMatch
  <2> QED
    BY <2>2 DEF IsCollateralized
<1>5. CASE ~(\A m \in Markets : old.par[a][m] >= 0)
  BY <1>2, <1>3, <1>5, CacheValues DEF TrulyCollateralized, IsCollateralized
<1> QED
  BY <1>4, <1>5

(* A reason told from the frame is one told from the state.                *)
LEMMA ReasonTrue ==
  ASSUME Inductive, frames # <<>>, NEW a \in Named(Top), Reason(Top, a)
  PROVE  MayChange(Top, a)
BY CollateralWasTrue DEF Reason, MayChange, Undercollateralized, LiquidatedBy

(* An operation changes only accounts that it names.                       *)
LEMMA ChangedIsNamed ==
  ASSUME Inductive, frames # <<>>, NEW a \in Accounts,
         ledger.par[a] # Top.saved.ledger.par[a]
  PROVE  a \in Named(Top)
<1> DEFINE old == Top.saved.ledger.par[a]
           new == ledger.par[a]
<1>1. \A m \in Markets : a \notin Named(Top) => new[m] = old[m]
  BY LedgerKept DEF Kept, SameElsewhere
<1>2. /\ new \in [Markets -> -Max128..Max128]
      /\ old \in [Markets -> -Max128..Max128]
  <2>1. Top.saved \in SnapshotType
    BY TopFacts DEF IsFrame
  <2> QED
    BY <2>1, LedgerSound DEF LedgerType, SnapshotType
<1>3. new # old
  OBVIOUS
<1> HIDE DEF new, old
<1> QED
  BY <1>1, <1>2, <1>3

(* Balances change only in operations that had, when they began or while   *)
(* they ran, a reason to change them.                                      *)
THEOREM ChangesArePermitted == Spec => OnlyPermittedChanges
<1>1. Inductive /\ Authorized /\ [Next]_vars =>
        [Commit => \A a \in Accounts :
           ledger.par[a] # Top.saved.ledger.par[a] => MayChange(Top, a)]_vars
  <2>1. SUFFICES ASSUME Inductive, Authorized, Commit, NEW a \in Accounts,
                        ledger.par[a] # Top.saved.ledger.par[a]
                 PROVE  MayChange(Top, a)
    OBVIOUS
  <2>2. frames # <<>>
    BY <2>1 DEF Commit
  <2>3. Reason(Top, a)
    BY <2>1, <2>2 DEF Authorized, Permitted
  <2>4. a \in Named(Top)
    BY <2>1, <2>2, ChangedIsNamed
  <2> QED
    BY <2>1, <2>2, <2>3, <2>4, ReasonTrue
<1> QED
  BY <1>1, InductiveInvariant, AuthorizedInvariant, PTL DEF Spec, OnlyPermittedChanges

-----------------------------------------------------------------------------
(* The third part: the composition with Expiry.                            *)

LEMMA ElsewhereIsOperation ==
  ASSUME \/ \E request \in Requests, rate \in [Markets -> Rates] : BeginSaved(request, rate)
         \/ CommitSaved \/ RevertSaved \/ StepElsewhere \/ EnvironmentElsewhere
  PROVE  Next
<1>1. CASE \E request \in Requests, rate \in [Markets -> Rates] : BeginSaved(request, rate)
  BY <1>1 DEF BeginSaved, Next
<1>2. CASE CommitSaved
  BY <1>2 DEF CommitSaved, Next, Step
<1>3. CASE RevertSaved
  BY <1>3 DEF RevertSaved, Next, Step
<1>4. CASE StepElsewhere
  BY <1>4 DEF StepElsewhere, Next
<1>5. CASE EnvironmentElsewhere
  BY <1>5 DEF EnvironmentElsewhere, Next
<1> QED
  BY <1>1, <1>2, <1>3, <1>4, <1>5

(* A call of Expiry is, to DolomiteMargin, a call that returns, and what it*)
(* answers a trade is an answer of some auto trader.                       *)
LEMMA CallsAreReturns ==
  ASSUME \/ \E args \in ExpiryCalls : CallSetExpiry(args)
         \/ \E approval \in Approvals :
              CallSetApproval(approval[1], approval[2], approval[3])
         \/ QuotedTrade
  PROVE  Next
<1>1. CASE \E args \in ExpiryCalls : CallSetExpiry(args)
  <2>1. CallReturn
    BY <1>1 DEF CallSetExpiry
  <2> QED
    BY <2>1 DEF Next, Step
<1>2. CASE \E approval \in Approvals :
             CallSetApproval(approval[1], approval[2], approval[3])
  <2>1. CallReturn
    BY <1>2 DEF CallSetApproval
  <2> QED
    BY <2>1 DEF Next, Step
<1>3. CASE QuotedTrade
  <2>1. \E answer \in OutputAmounts : TradeReturn(answer)
    BY <1>3 DEF QuotedTrade
  <2> QED
    BY <2>1 DEF Next, Step
<1> QED
  BY <1>1, <1>2, <1>3

(* What Expiry and its owners do on their own leaves DolomiteMargin alone. *)
LEMMA OwnStorageOnly ==
  ASSUME \/ \E approval \in Approvals :
              ApproveSender(approval[1], approval[2], approval[3])
         \/ GetTradeCostOfNothing
         \/ \E m \in Markets, maxExpiry \in MaxExpiries : GetTradeCost(m, maxExpiry)
         \/ \E newRampTime \in RampTimes : OwnerSetExpiryRampTime(newRampTime)
  PROVE  UNCHANGED vars
BY DEF ApproveSender, GetTradeCostOfNothing, GetTradeCost, OwnerSetExpiryRampTime

(* Every behaviour of the composition is a behaviour of Operation.         *)
THEOREM ExpiryImplementsOperation == ExpirySpec => Spec
<1>1. ExpiryInit => Init
  BY DEF ExpiryInit
<1>2. [ExpiryNext]_expiryVars => [Next]_vars
  <2>1. CASE UNCHANGED expiryVars
    BY <2>1 DEF expiryVars
  <2>2. ASSUME ExpiryNext PROVE [Next]_vars
    BY <2>2, ElsewhereIsOperation, CallsAreReturns, OwnStorageOnly DEF ExpiryNext
  <2> QED
    BY <2>1, <2>2
<1> QED
  BY <1>1, <1>2, PTL DEF ExpirySpec, Spec

(* So operations commit only with the accounts they acted for, or traded   *)
(* with, collateralized, trades through Expiry included.                   *)
THEOREM CloseOutsLeaveCollateralized == ExpirySpec => CommitsCollateralized
BY ExpiryImplementsOperation, CommitsAreCollateralized, PTL

(* No account that is flagged Vapor has a supply, whatever Expiry answered *)
(* the trades with it.                                                     *)
THEOREM CloseOutsVaporOwes == ExpirySpec => []VaporOwesOnly
BY ExpiryImplementsOperation, VaporOwes, PTL

(* And balances change only in operations that may change them.            *)
THEOREM CloseOutsArePermitted == ExpirySpec => OnlyPermittedChanges
BY ExpiryImplementsOperation, ChangesArePermitted, PTL

-----------------------------------------------------------------------------
(* A trade that moves no tokens.                                           *)

(* What an amount changes a balance to is what its tokens do, whichever    *)
(* way it is given, at an index that has only grown.                       *)
LEMMA AskedMoves ==
  ASSUME NEW L, Sound(L), NEW a \in Accounts, NEW m \in Markets,
         NEW indexed \in IndexType, indexed.borrow >= Base, indexed.supply >= Base,
         NEW amount \in AssetAmount
  PROVE  LET asked == GetNewParAndDeltaWei(L, a, m, indexed, amount)
         IN  asked.par = WeiToPar(ParToWei(L.par[a][m], indexed) + asked.wei, indexed)
<1> DEFINE oldPar == L.par[a][m]
           oldWei == GetWei(L, a, m, indexed)
           isDelta == amount.ref = "Delta"
           newWei == IF isDelta THEN oldWei + amount.value ELSE amount.value
           newPar == IF isDelta THEN oldPar + amount.value ELSE amount.value
           asked == GetNewParAndDeltaWei(L, a, m, indexed, amount)
<1>1. /\ oldPar \in Int /\ oldWei \in Int /\ amount.value \in Int
      /\ oldWei = ParToWei(oldPar, indexed)
  BY GetWeiType DEF AssetAmount, GetWei
<1>2. newWei \in Int /\ newPar \in Int
  BY <1>1
<1>3. asked = IF isDelta /\ amount.value = 0
              THEN [par |-> oldPar, wei |-> 0]
              ELSE IF amount.denomination = "Wei"
              THEN [par |-> WeiToPar(newWei, indexed), wei |-> newWei - oldWei]
              ELSE [par |-> newPar, wei |-> ParToWei(newPar, indexed) - oldWei]
  BY DEF GetNewParAndDeltaWei
<1>4. \A x \in Int : /\ ParToWei(x, indexed) \in Int
                     /\ WeiToPar(ParToWei(x, indexed), indexed) = x
  BY ConversionType, RoundTrip
<1> HIDE DEF oldPar, oldWei, newWei, newPar, asked
<1>5. asked.par = WeiToPar(oldWei + asked.wei, indexed)
  <2>1. CASE isDelta /\ amount.value = 0
    <3>1. asked.par = oldPar /\ oldWei + asked.wei = oldWei
      BY <1>1, <1>3, <2>1
    <3> QED
      BY <1>1, <1>4, <3>1
  <2>2. CASE ~(isDelta /\ amount.value = 0) /\ amount.denomination = "Wei"
    <3>1. asked.par = WeiToPar(newWei, indexed) /\ oldWei + asked.wei = newWei
      BY <1>1, <1>2, <1>3, <2>2
    <3> QED
      BY <3>1
  <2>3. CASE ~(isDelta /\ amount.value = 0) /\ amount.denomination # "Wei"
    <3>1. asked.par = newPar /\ oldWei + asked.wei = ParToWei(newPar, indexed)
      BY <1>1, <1>2, <1>3, <1>4, <2>3
    <3> QED
      BY <1>2, <1>4, <3>1
  <2> QED
    BY <2>1, <2>2, <2>3
<1> QED
  BY <1>1, <1>5 DEF asked, oldPar

(* A change that comes to no tokens is no change.                          *)
LEMMA NothingAsked ==
  ASSUME NEW L, Sound(L), NEW a \in Accounts, NEW m \in Markets,
         NEW indexed \in IndexType, indexed.borrow >= Base, indexed.supply >= Base,
         NEW amount \in AssetAmount,
         GetNewParAndDeltaWei(L, a, m, indexed, amount).wei = 0
  PROVE  GetNewParAndDeltaWei(L, a, m, indexed, amount).par = L.par[a][m]
<1> DEFINE worth == ParToWei(L.par[a][m], indexed)
<1>1. L.par[a][m] \in Int
  BY GetWeiType
<1>2. worth \in Int /\ WeiToPar(worth, indexed) = L.par[a][m]
  BY <1>1, ConversionType, RoundTrip
<1>3. GetNewParAndDeltaWei(L, a, m, indexed, amount).par = WeiToPar(worth + 0, indexed)
  BY AskedMoves
<1> HIDE DEF worth
<1> QED
  BY <1>2, <1>3

(* So a trade of no tokens, answered with nothing, leaves the other        *)
(* account as it was.                                                      *)
LEMMA NothingTraded ==
  ASSUME Inductive, Authorized, Accrued(index), TradeReturn(NoAmount), Top.call.wei = 0
  PROVE  Untouched(ledger, ledger', {Acct})
<1> DEFINE input  == Act.primaryMarket
           output == Act.secondaryMarket
           moved  == GetNewParAndDeltaWei(ledger, Othr, output, IndexOf(output), NoAmount)
           first  == SetPar(ledger, Othr, input, Top.call.par)
           maker  == SetPar(first, Othr, output, moved.par)
           third  == SetParFromDeltaWei(maker, Acct, input, IndexOf(input), -Top.call.wei)
<1>1. /\ frames # <<>> /\ Top.pc <= Len(Top.actions) /\ Act.type = "Trade"
      /\ Top.waiting
  BY AtFacts DEF TradeReturn, Returning
<1>2. /\ Othr \in Accounts /\ Act.amount \in AssetAmount
      /\ input \in DOMAIN Top.cache
  BY <1>1, ActFacts, LedgerKept DEF ActionArgs
<1>3. /\ input \in Markets /\ IndexOf(input) \in IndexType
      /\ IndexOf(input).borrow >= Base /\ IndexOf(input).supply >= Base
  BY <1>1, <1>2, CacheFacts DEF Accrued
<1>4. /\ Top.call.par = CapturedBy(Top).par /\ CapturedBy(Top).wei = 0
      /\ CapturedBy(Top)
           = GetNewParAndDeltaWei(ledger, Othr, input, IndexOf(input), Act.amount)
  BY <1>1 DEF Authorized, CallSound, CapturedBy, Act, Othr, IndexOf
<1>5. Top.call.par = ledger.par[Othr][input]
  BY <1>2, <1>3, <1>4, LedgerSound, NothingAsked
<1>6. first = ledger
  BY <1>5 DEF SetPar
<1>7. moved.par = ledger.par[Othr][output]
  BY DEF GetNewParAndDeltaWei, NoAmount
<1>8. maker = ledger
  BY <1>6, <1>7 DEF SetPar
<1>9. ledger' = SetParFromDeltaWei(third, Acct, output, IndexOf(output), -moved.wei)
  BY DEF TradeReturn, Booked
<1> HIDE DEF moved, maker
<1>10. Untouched(ledger, third, {Acct})
  BY <1>8, LedgerUntouched, SetParFromDeltaWeiUntouched
<1> HIDE DEF third
<1> QED
  BY <1>9, <1>10, SetParFromDeltaWeiUntouched

-----------------------------------------------------------------------------
(* Reasons that are due.                                                   *)

(* They stay while the frame runs: time stands still, and what was saved   *)
(* of the expiries is not written to.                                      *)
LEMMA DueReasonStays ==
  ASSUME NEW a, DueReason(Top, a),
         Top'.sender = Top.sender, Top'.accounts = Top.accounts,
         Top'.actions = Top.actions, Top'.cache = Top.cache,
         Top'.saved = Top.saved, Top.trusted \subseteq Top'.trusted,
         now' = now, undo' = undo
  PROVE  DueReason(Top, a)'
<1>1. CASE ActedFor(Top, a) /\ Trusts(Top, a, Top.sender)
  BY <1>1 DEF DueReason, ActedFor, Trusts
<1>2. CASE TradedByExpiry(Top, a)
  BY <1>2 DEF DueReason, TradedByExpiry, DebtWasDue
<1>3. CASE TradedElsewhere(Top, a)
  BY <1>3 DEF DueReason, TradedElsewhere, Trusts
<1>4. CASE Undercollateralized(Top, a)
  BY <1>4 DEF DueReason, Undercollateralized, Secondary
<1>5. CASE VaporizedBy(Top, a)
  BY <1>5 DEF DueReason, VaporizedBy, Secondary
<1> QED
  BY <1>1, <1>2, <1>3, <1>4, <1>5 DEF DueReason

(* Whoever the sender is an operator of may be acted for.                  *)
LEMMA ActorDue ==
  ASSUME Inductive, Authorized, frames # <<>>, Top.pc <= Len(Top.actions)
  PROVE  /\ IsOperator(Acct, Top.sender) => DueReason(Top, Acct)
         /\ Act.type = "Transfer" /\ IsOperator(Othr, Top.sender)
              => DueReason(Top, Othr)
BY ActorReason, OperatorTrusted DEF DueReason

(* A trade may go through any operator of the other account but Expiry.    *)
LEMMA TraderDue ==
  ASSUME Inductive, Authorized, frames # <<>>, Top.pc <= Len(Top.actions),
         Act.type = "Trade", TradePermitted, Act.address # ExpiryAddress
  PROVE  DueReason(Top, Othr)
<1>1. Top.pc \in DOMAIN Top.actions
  BY TopFacts DEF IsFrame
<1>2. Trusts(Top, Othr, Act.address)
  BY OperatorTrusted DEF TradePermitted
<1>3. TradedElsewhere(Top, Othr)
  BY <1>1, <1>2 DEF TradedElsewhere, TradePermitted, Othr, Act
<1> QED
  BY <1>3 DEF DueReason

(* An account that may be liquidated could have been when the operation    *)
(* began, or the operation had another reason to change it.                *)
LEMMA LiquidatorDue ==
  ASSUME Inductive, Authorized, frames # <<>>, DuePermitted,
         Top.pc <= Len(Top.actions),
         Act.type = "Liquidate", Top.sender \in GlobalOperators, Liquidatable(Othr)
  PROVE  DueReason(Top, Othr)
<1>1. Othr \in Accounts /\ Secondary(Top, Othr, "Liquidate")
  BY ActFacts, ActorReason, LedgerKept
<1>2. SUFFICES ASSUME ~DueReason(Top, Othr)
               PROVE  Undercollateralized(Top, Othr)
  BY DEF DueReason
<1>3. /\ ledger.par[Othr] = Top.saved.ledger.par[Othr]
      /\ status[Othr] = "Liquid" => Top.saved.status[Othr] = "Liquid"
  BY <1>1, <1>2 DEF DuePermitted
<1> QED
  BY <1>1, <1>3, CollateralSame DEF Liquidatable, Undercollateralized

(* Likewise for one that may be vaporized.                                 *)
LEMMA VaporizerDue ==
  ASSUME Inductive, Authorized, frames # <<>>, DuePermitted,
         Top.pc <= Len(Top.actions), Act.type = "Vaporize", Vaporizable(Othr)
  PROVE  DueReason(Top, Othr)
<1>1. Othr \in Named(Top) /\ Othr \in Accounts /\ Secondary(Top, Othr, "Vaporize")
  BY ActFacts, ActorReason, LedgerKept
<1>2. SUFFICES ASSUME ~DueReason(Top, Othr)
               PROVE  OwesOnly(Top.saved.ledger, Othr)
  BY <1>1 DEF DueReason, VaporizedBy, OwesOnly
<1>3. /\ ledger.par[Othr] = Top.saved.ledger.par[Othr]
      /\ status[Othr] = "Vapor" => OwesOnly(Top.saved.ledger, Othr)
  BY <1>1, <1>2 DEF DuePermitted
<1> QED
  BY <1>1, <1>3, VaporizableOwesOnly DEF Vaporizable, OwesOnly

(* Whatever step an action takes outside Expiry, it has its reasons, but   *)
(* for the other account of a trade that is about to call Expiry.          *)
LEMMA StepDue ==
  ASSUME Inductive, Authorized, Due, Step, frames # <<>>, frames' # <<>>, ~InExpiry
  PROVE  /\ DueReason(Top, Acct)
         /\ Othr \in Touched \ {Acct} =>
              \/ DueReason(Top, Othr)
              \/ Trade /\ Act.type = "Trade" /\ Act.address = ExpiryAddress
         /\ Act.type \in {"Trade", "Liquidate", "Vaporize"} => Othr \in Touched
<1> DEFINE Goal == /\ DueReason(Top, Acct)
                   /\ Othr \in Touched \ {Acct} =>
                        \/ DueReason(Top, Othr)
                        \/ Trade /\ Act.type = "Trade" /\ Act.address = ExpiryAddress
<1>1. DuePermitted /\ ~AsksExpiry
  BY DEF Due, AsksExpiry
<1>2. IF Act.type \in {"Transfer", "Trade", "Liquidate", "Vaporize"}
      THEN Othr \in Touched ELSE Othr \notin Touched \ {Acct}
  BY DEF Touched
<1>3. Top.waiting => /\ DueReason(Top, Acct)
                     /\ Act.type \in {"Trade", "Liquidate", "Vaporize"}
                          => DueReason(Top, Othr)
  BY <1>1 DEF DuePermitted
<1>4. Top.pc <= Len(Top.actions)
  BY StepTouches
<1>5. IsOperator(Acct, Top.sender) => DueReason(Top, Acct)
  BY <1>4, ActorDue
<1>6. CASE Deposit
  BY <1>2, <1>5, <1>6 DEF Deposit, At
<1>7. CASE Withdraw
  BY <1>2, <1>5, <1>7 DEF Withdraw, At
<1>8. CASE Transfer
  BY <1>2, <1>4, <1>8, ActorDue DEF Transfer, TransferPermitted, At
<1>9. ASSUME NEW amount \in ExternalAmounts,
             Buy(amount) \/ BuyReturn(amount) \/ SellReturn(amount)
      PROVE  Goal
  BY <1>2, <1>3, <1>5, <1>9 DEF Buy, BuyReturn, SellReturn, At, Returning
<1>10. CASE Sell
  BY <1>2, <1>5, <1>10 DEF Sell, At
<1>11. CASE Trade
  BY <1>2, <1>4, <1>5, <1>11, TraderDue DEF Trade, TradePermitted, At
<1>12. CASE \E answer \in OutputAmounts : TradeReturn(answer)
  BY <1>2, <1>3, <1>12 DEF TradeReturn, Returning
<1>13. CASE Liquidate
  BY <1>2, <1>1, <1>4, <1>5, <1>13, LiquidatorDue DEF Liquidate, At, IsOperator
<1>14. CASE LiquidateReturn
  BY <1>2, <1>3, <1>14 DEF LiquidateReturn, Returning
<1>15. CASE VaporizeFully
  BY <1>2, <1>1, <1>4, <1>5, <1>15, VaporizerDue DEF VaporizeFully, At
<1>16. CASE Vaporize
  BY <1>2, <1>1, <1>4, <1>5, <1>16, VaporizerDue DEF Vaporize, At
<1>17. CASE VaporizeReturn
  BY <1>2, <1>3, <1>17 DEF VaporizeReturn, Returning
<1>18. CASE CallFunction
  BY <1>2, <1>5, <1>18 DEF CallFunction, At
<1>19. CASE CallReturn
  BY <1>2, <1>3, <1>19 DEF CallReturn, Returning
<1>20. ~Commit /\ ~Revert
  BY PopFacts DEF Commit, Revert
<1>21. Goal
  BY <1>6, <1>7, <1>8, <1>9, <1>10, <1>11, <1>12, <1>13, <1>14, <1>15, <1>16,
     <1>17, <1>18, <1>19, <1>20 DEF Step
<1> QED
  BY <1>2, <1>21

-----------------------------------------------------------------------------
(* Moving on.                                                              *)

(* Moving on keeps all that the reasons are told from.                     *)
LEMMA DueFrameMoves ==
  ASSUME Inductive, frames # <<>>, frames' # <<>>, Step
  PROVE  /\ Top'.sender = Top.sender /\ Top'.accounts = Top.accounts
         /\ Top'.actions = Top.actions /\ Top'.cache = Top.cache
         /\ Top'.saved = Top.saved /\ Top'.trusted = Top.trusted
         /\ Top.waiting => ~Top'.waiting
         /\ Top'.waiting => Act' = Act /\ Acct' = Acct /\ Othr' = Othr
         /\ Len(frames') = 1
<1>1. Advance \/ (~Top.waiting /\ \E call : Await(call))
  BY StepTouches
<1>2. /\ Top'.sender = Top.sender /\ Top'.accounts = Top.accounts
      /\ Top'.actions = Top.actions /\ Top'.cache = Top.cache
      /\ Top'.saved = Top.saved /\ Top'.trusted = Top.trusted
      /\ Advance => ~Top'.waiting
      /\ (\E call : Await(call)) => Top'.pc = Top.pc
  BY <1>1, FrameMoves
<1>3. Top'.waiting => Act' = Act /\ Acct' = Acct /\ Othr' = Othr
  BY <1>1, <1>2 DEF Act, Acct, Othr
<1>4. Len(frames') = 1
  <2>1. frames' = <<Top>>'
    BY StepInductive DEF Inductive
  <2> QED
    BY <2>1
<1> QED
  BY <1>1, <1>2, <1>3, <1>4

(* A step of an action keeps what it has changed due if its accounts have  *)
(* reasons that are, or are not changed.                                   *)
LEMMA MoveDue ==
  ASSUME Inductive, Authorized, Due, Step, frames # <<>>, frames' # <<>>,
         ExpiryTypeOK', ExpiriesKept', undo' = undo, ~quote'.given,
         DueReason(Top, Acct),
         Othr \in Touched \ {Acct} =>
           \/ DueReason(Top, Othr)
           \/ ledger'.par[Othr] = ledger.par[Othr] /\ status' = status,
         Top'.waiting /\ Act.type \in {"Trade", "Liquidate", "Vaporize"} =>
           \/ Othr = Acct \/ DueReason(Top, Othr)
           \/ Act.type = "Trade" /\ Act.address = ExpiryAddress,
         Top'.waiting /\ Act.type = "Trade" /\ Act.address = ExpiryAddress
           => Top.sender \in GlobalOperators
  PROVE  Due'
<1>1. /\ Top'.sender = Top.sender /\ Top'.accounts = Top.accounts
      /\ Top'.actions = Top.actions /\ Top'.cache = Top.cache
      /\ Top'.saved = Top.saved /\ Top'.trusted = Top.trusted
      /\ Top'.waiting => Act' = Act /\ Acct' = Acct /\ Othr' = Othr
  BY DueFrameMoves
<1>2. /\ index' = index /\ now' = now
      /\ Untouched(ledger, ledger', Touched)
      /\ \A a \in Accounts \ Touched : status'[a] = status[a]
  BY StepTouches
<1>3. \A a : DueReason(Top, a) => DueReason(Top, a)'
  BY <1>1, <1>2, DueReasonStays
<1>4. DuePermitted /\ Accrued(index) /\ Accrued(Top.saved.index)
  BY DEF Due
<1>5. Touched \subseteq {Acct, Othr}
  BY DEF Touched
<1>6. \A a \in Accounts :
        \/ DueReason(Top, a)
        \/ ledger'.par[a] = ledger.par[a] /\ status'[a] = status[a]
  BY <1>2, <1>5 DEF Untouched
<1>7. \A a \in Accounts :
        /\ ledger'.par[a] # Top.saved.ledger.par[a] => DueReason(Top, a)
        /\ status'[a] = "Liquid" => Top.saved.status[a] = "Liquid" \/ DueReason(Top, a)
        /\ status'[a] = "Vapor" => OwesOnly(Top.saved.ledger, a) \/ DueReason(Top, a)
  BY <1>4, <1>6 DEF DuePermitted
<1>8. InExpiry' <=> /\ Top'.waiting
                    /\ Act.type \in {"Trade", "Call"} /\ Act.address = ExpiryAddress
  BY <1>1 DEF InExpiry
<1>9. AsksExpiry' <=> Top'.waiting /\ Act.type = "Trade" /\ Act.address = ExpiryAddress
  BY <1>1, <1>8 DEF AsksExpiry
<1>10. QuoteSound'
  BY <1>1, <1>9 DEF QuoteSound
<1>11. /\ Top'.waiting => DueReason(Top, Acct)'
       /\ Top'.waiting /\ Act'.type \in {"Trade", "Liquidate", "Vaporize"}
            => DueReason(Top, Othr)' \/ AsksExpiry'
  BY <1>1, <1>3, <1>9
<1>12. \A a \in Accounts :
        /\ ledger'.par[a] # Top'.saved.ledger.par[a] => DueReason(Top, a)'
        /\ status'[a] = "Liquid" => Top'.saved.status[a] = "Liquid" \/ DueReason(Top, a)'
        /\ status'[a] = "Vapor" => OwesOnly(Top'.saved.ledger, a) \/ DueReason(Top, a)'
  BY <1>1, <1>3, <1>7
<1>13. DuePermitted'
  BY <1>1, <1>11, <1>12 DEF DuePermitted
<1>14. Accrued(index') /\ Accrued(Top'.saved.index)
  BY <1>1, <1>2, <1>4
<1> QED
  BY <1>10, <1>13, <1>14 DEF Due

(* A step outside Expiry.                                                  *)
LEMMA StepElsewhereDue ==
  ASSUME Inductive, Authorized, Due, StepElsewhere
  PROVE  Due'
<1>1. /\ Step /\ ~InExpiry /\ Len(frames') = Len(frames)
      /\ UNCHANGED <<storage, quote, undo>>
  BY DEF StepElsewhere
<1>2. frames # <<>>
  <2>1. ~(frames = <<>>)
    BY <1>1, AtFacts DEF Step, Deposit, Withdraw, Transfer, Buy, BuyReturn, Sell,
       SellReturn, Trade, TradeReturn, Liquidate, LiquidateReturn, VaporizeFully,
       Vaporize, VaporizeReturn, CallFunction, CallReturn, Commit, Revert, At, Returning
  <2> QED
    BY <2>1
<1>3. frames' # <<>>
  BY <1>1, <1>2, TopFacts
<1>4. /\ DueReason(Top, Acct)
      /\ Othr \in Touched \ {Acct} =>
           \/ DueReason(Top, Othr)
           \/ Trade /\ Act.type = "Trade" /\ Act.address = ExpiryAddress
      /\ Act.type \in {"Trade", "Liquidate", "Vaporize"} => Othr \in Touched
  BY <1>1, <1>2, <1>3, StepDue
<1>5. Trade => UNCHANGED <<ledger, status>> /\ TradePermitted
  BY DEF Trade
<1>6. now' = now
  BY <1>1, <1>2, <1>3, StepTouches
<1>7. ~quote'.given
  BY <1>1, <1>2 DEF Due, QuoteSound, AsksExpiry
<1>8. ExpiryTypeOK' /\ ExpiriesKept'
  BY <1>1, <1>2, <1>6 DEF Due, ExpiryTypeOK, ExpiriesKept, Storage, storage
<1>9. Top'.waiting /\ Act.type = "Trade" => Trade
  <2>1. SUFFICES ASSUME Top'.waiting, Act.type = "Trade", ~Trade
                 PROVE  FALSE
    OBVIOUS
  <2>2. ~Top.waiting
    BY <1>1, <1>2, <1>3, <2>1, DueFrameMoves
  <2>3. ~Commit /\ ~Revert
    BY <1>2, <1>3, PopFacts DEF Commit, Revert
  <2> QED
    BY <1>1, <2>1, <2>2, <2>3 DEF Step, Deposit, Withdraw, Transfer, Buy, BuyReturn,
       Sell, SellReturn, TradeReturn, Liquidate, LiquidateReturn, VaporizeFully,
       Vaporize, VaporizeReturn, CallFunction, CallReturn, At, Returning
<1>10. Act.address = ExpiryAddress /\ TradePermitted => Top.sender \in GlobalOperators
  BY ExpiryAssumption DEF TradePermitted
<1> QED
  BY <1>1, <1>2, <1>3, <1>4, <1>5, <1>7, <1>8, <1>9, <1>10, MoveDue

-----------------------------------------------------------------------------
(* The steps with Expiry.                                                  *)

(* What Expiry answers is booked: nothing, or a debt that was due.         *)
LEMMA QuotedTradeDue ==
  ASSUME Inductive, Authorized, Due, QuotedTrade
  PROVE  Due'
<1>1. /\ InExpiry /\ quote.given /\ quote.answer \in OutputAmounts
      /\ TradeReturn(quote.answer) /\ quote' = NoQuote
      /\ UNCHANGED <<storage, undo>>
  BY DEF QuotedTrade
<1>2. Step
  BY <1>1 DEF Step
<1>3. frames # <<>> /\ Top.waiting /\ Act.type = "Trade"
  BY <1>1 DEF TradeReturn, Returning
<1>4. frames' # <<>> /\ ~Top'.waiting
  <2>1. Advance
    BY <1>1 DEF TradeReturn
  <2> QED
    BY <1>3, <2>1, FrameMoves
<1>5. /\ QuoteSound /\ DuePermitted /\ Accrued(index)
      /\ ExpiryTypeOK /\ ExpiriesKept
  BY <1>3 DEF Due
<1>6. DueReason(Top, Acct)
  BY <1>3, <1>5 DEF DuePermitted
<1>7. DueReason(Top, Othr) \/ Untouched(ledger, ledger', {Acct})
  BY <1>1, <1>5, NothingTraded DEF QuoteSound
<1>8. Othr \in Touched \ {Acct} => Othr \in Accounts
  BY <1>1, <1>3, AtFacts, ActFacts, LedgerKept DEF TradeReturn
<1>9. Othr \in Touched \ {Acct} =>
        \/ DueReason(Top, Othr)
        \/ ledger'.par[Othr] = ledger.par[Othr] /\ status' = status
  BY <1>1, <1>7, <1>8 DEF Untouched, TradeReturn
<1>10. now' = now /\ Len(frames') = 1 /\ Len(frames) = 1
  BY <1>2, <1>3, <1>4, StepTouches, DueFrameMoves, TopFacts
<1>11. NoQuote \in [given : BOOLEAN, answer : AssetAmount] /\ ~NoQuote.given
  BY DEF NoQuote, NoAmount, AssetAmount
<1>12. ExpiryTypeOK' /\ ExpiriesKept'
  BY <1>1, <1>5, <1>10, <1>11 DEF ExpiryTypeOK, ExpiriesKept, Storage, storage
<1> QED
  BY <1>1, <1>2, <1>3, <1>4, <1>6, <1>9, <1>11, <1>12, MoveDue

(* A call of Expiry returns with its storage changed: due is what it was,  *)
(* if no expiry that has passed is new.                                    *)
LEMMA CallDue ==
  ASSUME Inductive, Authorized, Due, InExpiry, CallReturn,
         Storage' \in StorageType, UNCHANGED <<quote, undo>>, ExpiriesKept'
  PROVE  Due'
<1>1. Step
  BY DEF Step
<1>2. frames # <<>> /\ Top.waiting /\ Act.type = "Call"
  BY DEF CallReturn, Returning
<1>3. frames' # <<>> /\ ~Top'.waiting
  <2>1. Advance
    BY DEF CallReturn
  <2> QED
    BY <1>2, <2>1, FrameMoves
<1>4. QuoteSound /\ DuePermitted /\ ExpiryTypeOK
  BY <1>2 DEF Due
<1>5. DueReason(Top, Acct) /\ ~quote'.given
  BY <1>2, <1>4 DEF DuePermitted, QuoteSound, AsksExpiry
<1>6. Othr \notin Touched \ {Acct}
  BY <1>2 DEF Touched
<1>7. Len(frames') = 1 /\ Len(frames) = 1
  BY <1>1, <1>2, <1>3, DueFrameMoves, TopFacts
<1>8. ExpiryTypeOK'
  BY <1>4, <1>7 DEF ExpiryTypeOK
<1> QED
  BY <1>1, <1>2, <1>3, <1>5, <1>6, <1>8, MoveDue

(* One argument of a call sets an expiry in the future, or none, or leaves *)
(* it as it is.                                                            *)
LEMMA SetExpiryKeeps ==
  ASSUME NEW all \in [Accounts -> [Markets -> Nat]], NEW sender,
         NEW arg \in SetExpiryArg, now \in Nat
  PROVE  /\ SetExpiry(all, sender, arg) \in [Accounts -> [Markets -> Nat]]
         /\ \A a \in Accounts, m \in Markets :
              \/ SetExpiry(all, sender, arg)[a][m] \in {0, all[a][m]}
              \/ SetExpiry(all, sender, arg)[a][m] > now
<1> DEFINE a == arg.account
           m == arg.marketId
           old == all[a][m]
           new == ExpiryAfter(old, arg)
           row == [all[a] EXCEPT ![m] = new]
<1>1. a \in Accounts /\ m \in Markets /\ arg.timeDelta \in Nat
  BY DEF SetExpiryArg
<1>2. old \in Nat
  BY <1>1
<1>3. new \in Nat /\ (new \in {0, old} \/ new > now)
  BY <1>1, <1>2 DEF ExpiryAfter
<1>4. SetExpiry(all, sender, arg) = IF MaySet(sender, arg)
                                    THEN [all EXCEPT ![a] = row] ELSE all
  BY <1>1 DEF SetExpiry
<1> HIDE DEF new
<1>5. /\ row \in [Markets -> Nat]
      /\ row[m] = new /\ \A n \in Markets \ {m} : row[n] = all[a][n]
  BY <1>1, <1>3
<1> HIDE DEF row
<1>6. CASE MaySet(sender, arg)
  <2> DEFINE set == [all EXCEPT ![a] = row]
  <2>1. SetExpiry(all, sender, arg) = set
    BY <1>4, <1>6
  <2>2. /\ set \in [Accounts -> [Markets -> Nat]]
        /\ set[a] = row /\ \A b \in Accounts \ {a} : set[b] = all[b]
    BY <1>1, <1>5
  <2> HIDE DEF set
  <2>3. ASSUME NEW b \in Accounts, NEW n \in Markets
        PROVE  set[b][n] \in {0, all[b][n]} \/ set[b][n] > now
    <3>1. CASE b = a /\ n = m
      BY <1>3, <1>5, <2>2, <3>1
    <3>2. CASE b = a /\ n # m
      BY <1>5, <2>2, <3>2
    <3>3. CASE b # a
      BY <2>2, <3>3
    <3> QED
      BY <3>1, <3>2, <3>3
  <2> QED
    BY <2>1, <2>2, <2>3
<1>7. CASE ~MaySet(sender, arg)
  BY <1>4, <1>7
<1> QED
  BY <1>6, <1>7

(* The loop over the first n arguments.                                    *)
LoopStep(f, sender, args, i) ==
  IF i = 0 THEN expiries ELSE SetExpiry(f[i - 1], sender, args[i])

Loops(f, sender, args, n) == f = [i \in 0..n |-> LoopStep(f, sender, args, i)]

LEMMA LoopEnds ==
  ASSUME NEW sender, NEW args, NEW n \in Nat
  PROVE  \E f : Loops(f, sender, args, n)
<1> DEFINE F == {k \in Nat : \E f : Loops(f, sender, args, k)}
<1>1. 0 \in F
  <2>1. Loops([i \in 0..0 |-> expiries], sender, args, 0)
    BY DEF Loops, LoopStep
  <2> QED
    BY <2>1
<1>2. ASSUME NEW k \in F PROVE k + 1 \in F
  <2>1. PICK f : Loops(f, sender, args, k)
    OBVIOUS
  <2>2. \A i \in 0..k : f[i] = LoopStep(f, sender, args, i)
    BY <2>1 DEF Loops
  <2> DEFINE last == SetExpiry(f[k], sender, args[k + 1])
             g == [i \in 0..(k + 1) |-> IF i <= k THEN f[i] ELSE last]
  <2> HIDE DEF last
  <2>3. /\ \A i \in 0..k : g[i] = f[i]
        /\ g[k + 1] = last
    OBVIOUS
  <2>4. ASSUME NEW i \in 0..(k + 1) PROVE g[i] = LoopStep(g, sender, args, i)
    <3> HIDE DEF g
    <3>1. CASE i = 0
      BY <2>2, <2>3, <3>1 DEF LoopStep
    <3>2. CASE i \in 1..k
      <4>1. g[i] = f[i] /\ g[i - 1] = f[i - 1]
        BY <2>3, <3>2
      <4> QED
        BY <2>2, <3>2, <4>1 DEF LoopStep
    <3>3. CASE i = k + 1
      <4>1. g[i - 1] = f[k]
        BY <2>3, <3>3
      <4> QED
        BY <2>3, <3>3, <4>1 DEF LoopStep, last
    <3> QED
      BY <3>1, <3>2, <3>3
  <2>5. g = [i \in 0..(k + 1) |-> g[i]]
    OBVIOUS
  <2> HIDE DEF g
  <2>6. Loops(g, sender, args, k + 1)
    BY <2>4, <2>5 DEF Loops
  <2> QED
    BY <2>6
<1>3. F = Nat
  <2>1. F \in SUBSET Nat
    OBVIOUS
  <2> HIDE DEF F
  <2> QED
    BY <1>1, <1>2, <2>1, NatSets
<1> QED
  BY <1>3

(* Each turn of it, and so all of it, does what SetExpiryKeeps says.       *)
LEMMA LoopKeeps ==
  ASSUME NEW sender, NEW args \in Seq(SetExpiryArg), now \in Nat,
         expiries \in [Accounts -> [Markets -> Nat]],
         NEW f, Loops(f, sender, args, Len(args)), NEW i \in 0..Len(args)
  PROVE  /\ f[i] \in [Accounts -> [Markets -> Nat]]
         /\ \A a \in Accounts, m \in Markets :
              f[i][a][m] \in {0, expiries[a][m]} \/ f[i][a][m] > now
<1> DEFINE Good(k) == /\ f[k] \in [Accounts -> [Markets -> Nat]]
                      /\ \A a \in Accounts, m \in Markets :
                           \/ f[k][a][m] \in {0, expiries[a][m]}
                           \/ f[k][a][m] > now
           F == {k \in Nat : k <= Len(args) => Good(k)}
<1>1. Len(args) \in Nat
  OBVIOUS
<1>2. \A k \in 0..Len(args) : f[k] = LoopStep(f, sender, args, k)
  BY DEF Loops
<1>3. 0 \in F
  BY <1>1, <1>2 DEF LoopStep
<1>4. ASSUME NEW k \in F PROVE k + 1 \in F
  <2>1. SUFFICES ASSUME k + 1 <= Len(args) PROVE Good(k + 1)
    OBVIOUS
  <2>2. /\ f[k] \in [Accounts -> [Markets -> Nat]]
        /\ \A a \in Accounts, m \in Markets :
             f[k][a][m] \in {0, expiries[a][m]} \/ f[k][a][m] > now
        /\ k \in Nat
    BY <1>1, <2>1
  <2>3. f[k + 1] = SetExpiry(f[k], sender, args[k + 1])
    BY <1>1, <1>2, <2>1, <2>2 DEF LoopStep
  <2>4. args[k + 1] \in SetExpiryArg
    BY <1>1, <2>1, <2>2
  <2>5. /\ f[k + 1] \in [Accounts -> [Markets -> Nat]]
        /\ \A a \in Accounts, m \in Markets :
             f[k + 1][a][m] \in {0, f[k][a][m]} \/ f[k + 1][a][m] > now
    <3> DEFINE before == f[k]
               arg == args[k + 1]
    <3>1. before \in [Accounts -> [Markets -> Nat]] /\ arg \in SetExpiryArg
      BY <2>2, <2>4
    <3> HIDE DEF F, Good, before, arg
    <3>2. /\ SetExpiry(before, sender, arg) \in [Accounts -> [Markets -> Nat]]
          /\ \A a \in Accounts, m \in Markets :
               \/ SetExpiry(before, sender, arg)[a][m] \in {0, before[a][m]}
               \/ SetExpiry(before, sender, arg)[a][m] > now
      BY <3>1, SetExpiryKeeps
    <3>3. f[k + 1] = SetExpiry(before, sender, arg)
      BY <2>3 DEF before, arg
    <3>4. before = f[k]
      BY DEF before
    <3> QED
      BY <3>2, <3>3, <3>4
  <2>6. ASSUME NEW a \in Accounts, NEW m \in Markets
        PROVE  f[k + 1][a][m] \in {0, expiries[a][m]} \/ f[k + 1][a][m] > now
    BY <2>2, <2>5
  <2> QED
    BY <2>5, <2>6
<1>5. F = Nat
  <2>1. F \in SUBSET Nat
    OBVIOUS
  <2> HIDE DEF F
  <2> QED
    BY <1>3, <1>4, <2>1, NatSets
<1>6. i \in F
  BY <1>1, <1>5
<1> QED
  BY <1>1, <1>6

LEMMA CallSetExpiryDue ==
  ASSUME Inductive, Authorized, Due, NEW args \in ExpiryCalls, CallSetExpiry(args)
  PROVE  Due'
<1> DEFINE sender == Owner[Acct]
           it == CHOOSE f : Loops(f, sender, args, Len(args))
<1>1. /\ InExpiry /\ CallReturn
      /\ \A i \in DOMAIN args, a \in Accounts, m \in Markets :
           it[i][a][m] <= Max32
      /\ expiries' = it[Len(args)]
      /\ UNCHANGED <<approvedSender, rampTime, quote, undo>>
  BY DEF CallSetExpiry, Loops, LoopStep
<1>2. args \in Seq(SetExpiryArg) /\ Len(args) \in Nat /\ DOMAIN args = 1..Len(args)
  BY ExpiryAssumption
<1>3. Loops(it, sender, args, Len(args))
  BY <1>2, LoopEnds
<1> HIDE DEF it, sender
<1>4. /\ frames # <<>> /\ frames' # <<>> /\ Step /\ now' = now /\ now \in Nat
  <2>1. frames # <<>> /\ Advance
    BY <1>1 DEF CallReturn, Returning
  <2>2. frames' # <<>>
    BY <2>1, FrameMoves
  <2>3. Step /\ now' = now
    BY <1>1 DEF CallReturn, Step
  <2>4. now \in Nat
    BY DEF Inductive, TypeOK
  <2> QED
    BY <2>1, <2>2, <2>3, <2>4
<1>5. Storage \in StorageType /\ ExpiriesKept
  BY <1>4 DEF Due, ExpiryTypeOK
<1>6. /\ expiries \in [Accounts -> [Markets -> 0..Max32]]
      /\ approvedSender \in [Addresses \X Addresses -> Nat] /\ rampTime \in Nat
  BY <1>5 DEF Storage, StorageType
<1>7. Max32 \in Nat
  BY ExpiryAssumption
<1>8. expiries \in [Accounts -> [Markets -> Nat]]
  BY <1>6, <1>7
<1>9. \A a \in Accounts, m \in Markets : expiries[a][m] \in 0..Max32
  BY <1>6
<1>10. /\ it[Len(args)] \in [Accounts -> [Markets -> Nat]]
       /\ \A a \in Accounts, m \in Markets :
            it[Len(args)][a][m] \in {0, expiries[a][m]} \/ it[Len(args)][a][m] > now
  <2>1. Len(args) \in 0..Len(args)
    BY <1>2
  <2> QED
    BY <1>2, <1>3, <1>4, <1>8, <2>1, LoopKeeps
<1>11. \A a \in Accounts, m \in Markets : it[Len(args)][a][m] \in 0..Max32
  <2>1. CASE Len(args) = 0
    <3>1. it[Len(args)] = expiries
      BY <1>3, <2>1 DEF Loops, LoopStep
    <3> QED
      BY <1>9, <3>1
  <2>2. CASE Len(args) # 0
    <3>1. Len(args) \in DOMAIN args
      BY <1>2, <2>2
    <3> QED
      BY <1>1, <1>7, <1>10, <3>1
  <2> QED
    BY <2>1, <2>2
<1>12. it[Len(args)] \in [Accounts -> [Markets -> 0..Max32]]
  BY <1>10, <1>11
<1>13. Storage' \in StorageType
  BY <1>1, <1>6, <1>12 DEF Storage, StorageType
<1>14. ExpiriesKept'
  <2>1. SUFFICES ASSUME NEW a \in Accounts, NEW m \in Markets
                 PROVE  \/ expiries'[a][m] \in {0, undo[Len(undo)].expiries[a][m]}
                        \/ expiries'[a][m] > now
    BY <1>1, <1>4 DEF ExpiriesKept
  <2>2. \/ expiries[a][m] \in {0, undo[Len(undo)].expiries[a][m]}
        \/ expiries[a][m] > now
    BY <1>5 DEF ExpiriesKept
  <2>3. expiries'[a][m] \in {0, expiries[a][m]} \/ expiries'[a][m] > now
    BY <1>1, <1>10
  <2> QED
    BY <2>2, <2>3
<1> QED
  BY <1>1, <1>13, <1>14, CallDue

(* An approval is of a sender and a time.                                  *)
LEMMA ApprovalTyped ==
  ASSUME Storage \in StorageType, NEW approval \in Approvals
  PROVE  [approvedSender EXCEPT ![<<approval[1], approval[2]>>] = approval[3]]
           \in [Addresses \X Addresses -> Nat]
<1>1. approval \in Addresses \X Addresses \X Nat
  BY ExpiryAssumption
<1>2. approvedSender \in [Addresses \X Addresses -> Nat]
  BY DEF Storage, StorageType
<1> QED
  BY <1>1, <1>2

LEMMA CallSetApprovalDue ==
  ASSUME Inductive, Authorized, Due, NEW approval \in Approvals,
         CallSetApproval(approval[1], approval[2], approval[3])
  PROVE  Due'
<1>1. /\ InExpiry /\ CallReturn
      /\ approvedSender' = [approvedSender EXCEPT
                              ![<<approval[1], approval[2]>>] = approval[3]]
      /\ UNCHANGED <<expiries, rampTime, quote, undo>>
  BY DEF CallSetApproval
<1>2. frames # <<>> /\ now' = now
  BY <1>1 DEF CallReturn, Returning
<1>3. Storage \in StorageType /\ ExpiriesKept
  BY <1>2 DEF Due, ExpiryTypeOK
<1>4. approvedSender' \in [Addresses \X Addresses -> Nat]
  BY <1>1, <1>3, ApprovalTyped
<1>5. Storage' \in StorageType
  BY <1>1, <1>3, <1>4 DEF Storage, StorageType
<1>6. ExpiriesKept'
  BY <1>1, <1>2, <1>3 DEF ExpiriesKept
<1> QED
  BY <1>1, <1>5, <1>6, CallDue

(* What is due does not depend on the approvals and the ramp time.         *)
LEMMA StorageDue ==
  ASSUME Due, UNCHANGED <<vars, expiries, quote, undo>>, Storage' \in StorageType
  PROVE  Due'
<1>1. ExpiryTypeOK'
  BY DEF Due, ExpiryTypeOK, vars
<1>2. /\ UNCHANGED <<ledger, status, index, frames, now, expiries, quote, undo>>
      /\ Top' = Top /\ Act' = Act /\ Acct' = Acct /\ Othr' = Othr
  BY DEF vars, Top, Act, Acct, Othr
<1>3. \A a : DueReason(Top, a) => DueReason(Top, a)'
  BY <1>2, DueReasonStays
<1>4. InExpiry' = InExpiry /\ AsksExpiry' = AsksExpiry
  BY <1>2 DEF InExpiry, AsksExpiry
<1>5. Accrued(index)' /\ (frames = <<>> => ~quote'.given)
  BY <1>2 DEF Due
<1>6. ASSUME frames # <<>>
      PROVE  /\ Accrued(Top.saved.index)' /\ ExpiriesKept' /\ QuoteSound'
             /\ DuePermitted'
  <2>1. Accrued(Top.saved.index)' /\ ExpiriesKept'
    BY <1>2, <1>6 DEF Due, ExpiriesKept
  <2>2. QuoteSound'
    BY <1>2, <1>3, <1>4, <1>6 DEF Due, QuoteSound
  <2>3. DuePermitted'
    BY <1>2, <1>3, <1>4, <1>6 DEF Due, DuePermitted
  <2> QED
    BY <2>1, <2>2, <2>3
<1> QED
  BY <1>1, <1>2, <1>5, <1>6 DEF Due

LEMMA ApproveSenderDue ==
  ASSUME Due, NEW approval \in Approvals,
         ApproveSender(approval[1], approval[2], approval[3])
  PROVE  Due'
<1>1. /\ approvedSender' = [approvedSender EXCEPT
                              ![<<approval[1], approval[2]>>] = approval[3]]
      /\ UNCHANGED <<vars, expiries, rampTime, quote, undo>>
  BY DEF ApproveSender
<1>2. Storage \in StorageType
  BY DEF Due, ExpiryTypeOK
<1>3. approvedSender' \in [Addresses \X Addresses -> Nat]
  BY <1>1, <1>2, ApprovalTyped
<1>4. Storage' \in StorageType
  BY <1>1, <1>2, <1>3 DEF Storage, StorageType
<1> QED
  BY <1>1, <1>4, StorageDue

LEMMA OwnerSetExpiryRampTimeDue ==
  ASSUME Due, NEW newRampTime \in RampTimes, OwnerSetExpiryRampTime(newRampTime)
  PROVE  Due'
<1>1. /\ rampTime' = newRampTime
      /\ UNCHANGED <<vars, expiries, approvedSender, quote, undo>>
  BY DEF OwnerSetExpiryRampTime
<1>2. Storage \in StorageType /\ newRampTime \in Nat
  BY ExpiryAssumption DEF Due, ExpiryTypeOK
<1>3. Storage' \in StorageType
  BY <1>1, <1>2 DEF Storage, StorageType
<1> QED
  BY <1>1, <1>3, StorageDue

(* An answer of Expiry changes nothing that is due, if it is nothing or    *)
(* there is a reason to change the account in debt.                        *)
LEMMA AnswerDue ==
  ASSUME Due, AsksExpiry, UNCHANGED <<vars, undo>>, ExpiryTypeOK', ExpiriesKept',
         IF Top.call.wei = 0 THEN quote'.answer = NoAmount ELSE DueReason(Top, Othr)
  PROVE  Due'
<1>1. /\ UNCHANGED <<ledger, status, index, frames, now, undo>>
      /\ Top' = Top /\ Act' = Act /\ Acct' = Acct /\ Othr' = Othr
  BY DEF vars, Top, Act, Acct, Othr
<1>2. \A a : DueReason(Top, a) => DueReason(Top, a)'
  BY <1>1, DueReasonStays
<1>3. InExpiry' = InExpiry /\ AsksExpiry' = AsksExpiry
  BY <1>1 DEF InExpiry, AsksExpiry
<1>4. frames # <<>>
  BY DEF AsksExpiry, InExpiry
<1>5. Accrued(index)' /\ Accrued(Top.saved.index)'
  BY <1>1, <1>4 DEF Due
<1>6. QuoteSound'
  BY <1>1, <1>2, <1>3, <1>4 DEF Due, QuoteSound
<1>7. DuePermitted'
  BY <1>1, <1>2, <1>3, <1>4 DEF Due, DuePermitted
<1> QED
  BY <1>1, <1>4, <1>5, <1>6, <1>7 DEF Due

LEMMA GetTradeCostOfNothingDue ==
  ASSUME Due, GetTradeCostOfNothing
  PROVE  Due'
<1>1. /\ InExpiry /\ Act.type = "Trade" /\ Top.call.wei = 0
      /\ quote' = [given |-> TRUE, answer |-> NoAmount]
      /\ UNCHANGED <<vars, storage, undo>>
  BY DEF GetTradeCostOfNothing
<1>2. frames # <<>> /\ AsksExpiry
  BY <1>1 DEF InExpiry, AsksExpiry
<1>3. NoAmount \in AssetAmount
  BY DEF NoAmount, AssetAmount
<1>4. quote'.answer = NoAmount
  BY <1>1
<1>5. ExpiryTypeOK' /\ ExpiriesKept'
  BY <1>1, <1>2, <1>3 DEF Due, ExpiryTypeOK, ExpiriesKept, Storage, storage, vars
<1> QED
  BY <1>1, <1>2, <1>4, <1>5, AnswerDue

(* The spread that Expiry asks for, at any time.                           *)
LEMMA SpreadAdjustedType ==
  ASSUME Inductive, rampTime \in Nat, NEW held \in Markets, NEW owed \in Markets,
         NEW expiry \in Nat
  PROVE  /\ SpreadAdjustedPrice(held, owed, expiry) \in Nat
         /\ price[owed] # 0 => SpreadAdjustedPrice(held, owed, expiry) # 0
<1> DEFINE spread == GetLiquidationSpreadForPair(held, owed)
           age    == IF now <= expiry THEN 0 ELSE now - expiry
<1>1. price[owed] \in Nat /\ now \in Nat
  BY DEF Inductive, TypeOK
<1>2. spread \in Nat
  <2>1. SpreadPremium[held] \in Nat /\ SpreadPremium[owed] \in Nat
        /\ LiquidationSpread \in Nat
    BY OperationAssumption
  <2>2. OnePlus(SpreadPremium[held]) \in Nat /\ OnePlus(SpreadPremium[owed]) \in Nat
    BY <2>1, DecimalType
  <2>3. DecimalMul(LiquidationSpread, OnePlus(SpreadPremium[held])) \in Nat
    BY <2>1, <2>2, DecimalType
  <2> QED
    BY <2>2, <2>3, DecimalType DEF GetLiquidationSpreadForPair
<1>3. age \in Nat
  BY <1>1
<1>4. RampedSpread(held, owed, expiry)
        = IF age < rampTime THEN GetPartial(spread, age, rampTime) ELSE spread
  BY DEF RampedSpread
<1> HIDE DEF spread, age
<1>5. RampedSpread(held, owed, expiry) \in Nat
  <2>1. CASE age < rampTime
    <3>1. rampTime \in Nat \ {0}
      BY <1>3, <2>1
    <3>2. GetPartial(spread, age, rampTime) \in Nat
      BY <1>2, <1>3, <3>1, PartialType
    <3> QED
      BY <1>4, <2>1, <3>2
  <2>2. CASE ~(age < rampTime)
    BY <1>2, <1>4, <2>2
  <2> QED
    BY <2>1, <2>2
<1>6. DecimalMul(price[owed], RampedSpread(held, owed, expiry)) \in Nat
  BY <1>1, <1>5, DecimalType
<1> QED
  BY <1>1, <1>6 DEF SpreadAdjustedPrice

(* What is asked for a debt, and paid for collateral.                      *)
LEMMA CostType ==
  ASSUME Inductive, rampTime \in Nat, NEW held \in Markets, NEW owed \in Markets,
         NEW expiry \in Nat, NEW wei \in Nat, price[held] # 0, price[owed] # 0
  PROVE  /\ OwedWeiToHeldWei(wei, price[held], SpreadAdjustedPrice(held, owed, expiry))
              \in Nat
         /\ HeldWeiToOwedWei(wei, price[held], SpreadAdjustedPrice(held, owed, expiry))
              \in Nat
<1> DEFINE adjusted == SpreadAdjustedPrice(held, owed, expiry)
<1>1. price[held] \in Nat \ {0}
  BY DEF Inductive, TypeOK
<1>2. adjusted \in Nat \ {0}
  BY SpreadAdjustedType
<1> HIDE DEF adjusted
<1>3. GetPartial(wei, adjusted, price[held]) \in Nat
  BY <1>1, <1>2, PartialType
<1>4. GetPartialRoundUp(wei, price[held], adjusted) \in Nat
  BY <1>1, <1>2, PartialType
<1> QED
  BY <1>3, <1>4 DEF OwedWeiToHeldWei, HeldWeiToOwedWei, adjusted

(* A debt that Expiry lets close out was due when the operation began, or  *)
(* the operation has changed the account before, with a reason.            *)
LEMMA CloseOutReason ==
  ASSUME Inductive, Due, AsksExpiry, Top.pc <= Len(Top.actions),
         NEW owed \in MarketsOf(Act), owed \in Markets, Othr \in Accounts,
         NEW maxExpiry, MayCloseOut(expiries[Othr][owed], maxExpiry),
         ledger.par[Othr][owed] < 0
  PROVE  DueReason(Top, Othr)
<1>1. frames # <<>>
  BY DEF AsksExpiry, InExpiry
<1>2. SUFFICES ASSUME ~DueReason(Top, Othr) PROVE TradedByExpiry(Top, Othr)
  BY DEF DueReason
<1>3. ledger.par[Othr] = Top.saved.ledger.par[Othr]
  BY <1>1, <1>2 DEF Due, DuePermitted
<1>4. /\ expiries[Othr][owed] \in Nat /\ now \in Nat
      /\ \/ expiries[Othr][owed] \in {0, undo[Len(undo)].expiries[Othr][owed]}
         \/ expiries[Othr][owed] > now
  <2>1. Storage \in StorageType /\ ExpiriesKept
    BY <1>1 DEF Due, ExpiryTypeOK
  <2>2. expiries[Othr][owed] \in 0..Max32 /\ Max32 \in Nat
    BY <2>1, ExpiryAssumption DEF Storage, StorageType
  <2> QED
    BY <2>1, <2>2 DEF ExpiriesKept, Inductive, TypeOK
<1>5. undo[Len(undo)].expiries[Othr][owed] \in 1..now
  BY <1>4 DEF MayCloseOut
<1>6. Top.pc \in DOMAIN Top.actions
  BY <1>1, TopFacts DEF IsFrame
<1>7. Top.sender \in GlobalOperators /\ Act.type = "Trade" /\ Act.address = ExpiryAddress
  BY <1>1 DEF Due, QuoteSound, AsksExpiry, InExpiry
<1>8. DebtWasDue(Top, Othr, owed)
  BY <1>3, <1>5 DEF DebtWasDue
<1> QED
  BY <1>6, <1>7, <1>8 DEF TradedByExpiry, Act, Othr

LEMMA GetTradeCostDue ==
  ASSUME Inductive, Due, NEW owedMarket \in Markets, NEW maxExpiry \in MaxExpiries,
         GetTradeCost(owedMarket, maxExpiry)
  PROVE  Due'
<1> DEFINE output == Act.secondaryMarket
           expiry == expiries[Othr][owedMarket]
           maxOutput == GetWei(ledger, Othr, output, index[output])
           cost == IF Top.call.wei > 0 THEN Repaying(maxOutput, expiry)
                   ELSE Selling(maxOutput, expiry)
<1>1. /\ InExpiry /\ Act.type = "Trade" /\ Top.call.wei # 0
      /\ MayCloseOut(expiry, maxExpiry)
      /\ \A m \in MarketsOf(Act) : price[m] # 0
      /\ cost.owed = owedMarket /\ cost.allowed
      /\ expiries' = IF cost.clears
                     THEN [expiries EXCEPT ![Othr][owedMarket] = 0] ELSE expiries
      /\ quote' = [given |-> TRUE, answer |-> [denomination |-> "Wei", ref |-> "Delta",
                                               value |-> cost.answer]]
      /\ UNCHANGED <<vars, approvedSender, rampTime, undo>>
  BY DEF GetTradeCost
<1>2. frames # <<>> /\ Top.waiting /\ AsksExpiry
  BY <1>1 DEF InExpiry, AsksExpiry
<1>3. Top.pc <= Len(Top.actions)
  BY <1>2, TopFacts DEF FrameSound, RequestSound
<1>4. /\ Othr \in Accounts
      /\ Act.primaryMarket \in Markets /\ Act.secondaryMarket \in Markets
      /\ Act.primaryMarket \in MarketsOf(Act) /\ Act.secondaryMarket \in MarketsOf(Act)
  BY <1>1, <1>2, <1>3, ActFacts, LedgerKept DEF MarketsOf, ZeroMarkets, OneMarket
<1>5. /\ Storage \in StorageType /\ ExpiriesKept /\ ExpiryTypeOK
  BY <1>2 DEF Due, ExpiryTypeOK
<1>6. /\ expiries \in [Accounts -> [Markets -> 0..Max32]] /\ rampTime \in Nat
      /\ approvedSender \in [Addresses \X Addresses -> Nat] /\ Max32 \in Nat
  BY <1>5, ExpiryAssumption DEF Storage, StorageType
<1>7. expiry \in Nat
  BY <1>4, <1>6
<1>8. maxOutput \in Int /\ (maxOutput < 0 => ledger.par[Othr][output] < 0)
  <2>1. ledger.par[Othr][output] \in Int /\ index[output] \in IndexType
    BY <1>4, StateTypes, LedgerSound DEF Inductive, TypeOK, LedgerType
  <2> QED
    BY <2>1, ConversionType DEF GetWei
<1>9. Top.call.wei \in Int
  BY <1>2, CallFacts
<1> HIDE DEF expiry, maxOutput
<1>10. /\ cost.answer \in Int /\ owedMarket \in MarketsOf(Act)
       /\ ledger.par[Othr][owedMarket] < 0
  <2>1. CASE Top.call.wei > 0
    <3> DEFINE held == Act.secondaryMarket
               owed == Act.primaryMarket
               taken == OwedWeiToHeldWei(Top.call.wei, price[held],
                                         SpreadAdjustedPrice(held, owed, expiry))
    <3>1. /\ cost.owed = owed /\ cost.answer = -taken
          /\ cost.allowed => ledger.par[Othr][owed] < 0
      BY <2>1 DEF Repaying
    <3>2. Top.call.wei \in Nat /\ price[held] # 0 /\ price[owed] # 0
      BY <1>1, <1>4, <1>9, <2>1
    <3>3. taken \in Nat
      BY <1>4, <1>6, <1>7, <3>2, CostType
    <3> HIDE DEF taken, cost
    <3> QED
      BY <1>1, <1>4, <3>1, <3>3
  <2>2. CASE ~(Top.call.wei > 0)
    <3> DEFINE held == Act.primaryMarket
               owed == Act.secondaryMarket
               paid == HeldWeiToOwedWei(-Top.call.wei, price[held],
                                        SpreadAdjustedPrice(held, owed, expiry))
    <3>1. /\ cost.owed = owed /\ cost.answer = paid
          /\ cost.allowed => maxOutput < 0 /\ paid <= -maxOutput
      BY <2>2 DEF Selling
    <3>2. -Top.call.wei \in Nat /\ price[held] # 0 /\ price[owed] # 0
      BY <1>1, <1>4, <1>9, <2>2
    <3>3. paid \in Nat
      BY <1>4, <1>6, <1>7, <3>2, CostType
    <3> HIDE DEF cost, paid
    <3> QED
      BY <1>1, <1>4, <1>8, <3>1, <3>3
  <2> QED
    BY <2>1, <2>2
<1> HIDE DEF cost
<1>11. DueReason(Top, Othr)
  BY <1>1, <1>2, <1>3, <1>4, <1>10, CloseOutReason DEF expiry
<1>12. quote' \in [given : BOOLEAN, answer : AssetAmount]
  BY <1>1, <1>10 DEF AssetAmount
<1>13. /\ expiries' \in [Accounts -> [Markets -> 0..Max32]]
       /\ \A a \in Accounts, m \in Markets : expiries'[a][m] \in {0, expiries[a][m]}
  BY <1>1, <1>4, <1>6
<1>14. Storage' \in StorageType /\ frames' = frames /\ now' = now /\ undo' = undo
  BY <1>1, <1>6, <1>13 DEF Storage, StorageType, vars
<1>15. ExpiryTypeOK'
  BY <1>5, <1>12, <1>14 DEF ExpiryTypeOK
<1>16. ExpiriesKept'
  BY <1>5, <1>13, <1>14 DEF ExpiriesKept
<1> QED
  BY <1>1, <1>2, <1>11, <1>15, <1>16, AnswerDue

-----------------------------------------------------------------------------
(* The beginning and the ends of an operation.                             *)

(* It begins with nothing changed, and with the storage saved.             *)
LEMMA BeginSavedDue ==
  ASSUME Inductive, Authorized, Due,
         NEW request \in Requests, NEW rate \in [Markets -> Rates],
         BeginSaved(request, rate)
  PROVE  Due'
<1> DEFINE markets == CachedMarkets(request)
           updated == [m \in Markets |-> IF m \in markets
                                         THEN UpdatedIndex(m, rate[m])
                                         ELSE index[m]]
           frame == [sender   |-> request.sender,
                     accounts |-> request.accounts,
                     actions  |-> request.actions,
                     pc       |-> 1,
                     primary  |-> PrimaryAfter(request.actions, Len(request.actions)),
                     counts   |-> [i \in DOMAIN request.accounts |->
                                     Cardinality(ledger.held[request.accounts[i]])],
                     cache    |-> [m \in markets |-> MarketInfo(m, updated[m])],
                     waiting  |-> FALSE,
                     call     |-> NoCall,
                     saved    |-> Snapshot,
                     trusted  |-> operators]
<1>1. /\ Begin(request, rate)
      /\ undo' = Append(undo, Storage)
      /\ UNCHANGED <<storage, quote>>
  BY DEF BeginSaved
<1>2. frames = <<>>
  BY <1>1 DEF Inductive, Begin, MayEnter
<1>3. /\ VaporSound(ledger, status, {}) /\ ~quote.given
      /\ Accrued(index) /\ ExpiryTypeOK
  BY <1>2 DEF Authorized, Due
<1>4. frames' = Append(<<>>, frame) /\ index' = updated
      /\ UNCHANGED <<ledger, status, now>>
  BY <1>1, <1>2 DEF Begin
<1>5. frame.saved = Snapshot /\ ~frame.waiting
  OBVIOUS
<1>6. \A m \in Markets : /\ updated[m].borrow \in Nat /\ updated[m].supply \in Nat
                         /\ updated[m].borrow >= index[m].borrow
                         /\ updated[m].supply >= index[m].supply
  <2>1. SUFFICES ASSUME NEW m \in Markets
                 PROVE  /\ updated[m].borrow \in Nat /\ updated[m].supply \in Nat
                        /\ updated[m].borrow >= index[m].borrow
                        /\ updated[m].supply >= index[m].supply
    OBVIOUS
  <2>2. rate[m] \in Rates /\ index[m] \in IndexType
    BY StateTypes
  <2>3. updated[m] = IF m \in markets THEN UpdatedIndex(m, rate[m]) ELSE index[m]
    OBVIOUS
  <2> HIDE DEF updated, markets
  <2>4. /\ UpdatedIndex(m, rate[m]) \in IndexType
        /\ UpdatedIndex(m, rate[m]).borrow >= index[m].borrow
        /\ UpdatedIndex(m, rate[m]).supply >= index[m].supply
    BY <2>2, UpdatedIndexType
  <2> QED
    BY <2>2, <2>3, <2>4 DEF IndexType
<1> HIDE DEF frame, updated
<1>7. /\ frames' # <<>> /\ Len(frames') = 1
      /\ Top'.saved = Snapshot /\ ~Top'.waiting
  <2>1. frames' = <<frame>>
    BY <1>4, OneFrame
  <2> QED
    BY <1>5, <2>1, OneFrame DEF Top
<1>8. /\ Snapshot.ledger = ledger /\ Snapshot.status = status
      /\ Snapshot.index = index
  BY DEF Snapshot
<1>9. undo' = <<Storage>> /\ Storage \in StorageType
  BY <1>1, <1>2, <1>3 DEF ExpiryTypeOK
<1>10. ExpiryTypeOK'
  BY <1>1, <1>3, <1>7, <1>9 DEF ExpiryTypeOK, Storage, storage
<1>11. Accrued(index')
  <2>1. \A m \in Markets : index[m] \in IndexType
    BY StateTypes
  <2>2. Base \in Nat
    BY WidthAssumption
  <2> QED
    BY <1>3, <1>4, <1>6, <2>1, <2>2 DEF Accrued, IndexType
<1>12. ExpiriesKept'
  <2>1. undo'[Len(undo')].expiries = expiries
    BY <1>9 DEF Storage
  <2> QED
    BY <1>1, <2>1 DEF ExpiriesKept, storage
<1>13. QuoteSound'
  BY <1>1, <1>3, <1>7 DEF QuoteSound, AsksExpiry, InExpiry
<1>14. DuePermitted'
  BY <1>3, <1>4, <1>7, <1>8 DEF DuePermitted, VaporSound
<1> QED
  BY <1>3, <1>7, <1>8, <1>10, <1>11, <1>12, <1>13, <1>14 DEF Due

(* An operation ends with nothing saved, and no answer left.               *)
LEMMA UndoEmpty ==
  ASSUME ExpiryTypeOK, Len(frames) = 1
  PROVE  /\ SubSeq(undo, 1, Len(undo) - 1) = <<>>
         /\ undo[Len(undo)] \in StorageType
<1>1. undo \in Seq(StorageType) /\ Len(undo) = 1
  BY DEF ExpiryTypeOK
<1> HIDE DEF StorageType
<1>2. undo[Len(undo)] \in StorageType
  BY <1>1
<1>3. undo = <<undo[1]>>
  BY <1>1
<1>4. SubSeq(<<undo[1]>>, 1, 0) = <<>>
  BY OneFrame
<1> QED
  BY <1>1, <1>2, <1>3, <1>4

LEMMA CommitSavedDue ==
  ASSUME Inductive, Due, CommitSaved
  PROVE  Due'
<1>1. Commit /\ Forget /\ UNCHANGED <<storage, quote>>
  BY DEF CommitSaved
<1>2. frames # <<>> /\ frames' = <<>> /\ index' = index
  BY <1>1, PopFacts DEF Commit
<1>3. Len(frames) = 1 /\ ~Top.waiting
  <2>1. Len(Top.actions) \in Nat /\ Top.pc \in Nat
    BY <1>2, TopFacts DEF IsFrame
  <2> QED
    BY <1>1, <1>2, <2>1, TopFacts DEF Commit, FrameSound, RequestSound
<1>4. ExpiryTypeOK /\ QuoteSound /\ Accrued(index)
  BY <1>2 DEF Due
<1>5. undo' = <<>>
  BY <1>1, <1>3, <1>4, UndoEmpty DEF Forget
<1>6. ~quote'.given
  BY <1>1, <1>3, <1>4 DEF QuoteSound, AsksExpiry, InExpiry
<1>7. ExpiryTypeOK'
  BY <1>1, <1>2, <1>4, <1>5 DEF ExpiryTypeOK, Storage, storage
<1> QED
  BY <1>2, <1>4, <1>6, <1>7 DEF Due

LEMMA RevertSavedDue ==
  ASSUME Inductive, Due, RevertSaved
  PROVE  Due'
<1> DEFINE saved == undo[Len(undo)]
<1>1. /\ Revert /\ Forget
      /\ expiries' = saved.expiries
      /\ approvedSender' = saved.approvedSender
      /\ rampTime' = saved.rampTime
      /\ quote' = NoQuote
  BY DEF RevertSaved
<1>2. frames # <<>> /\ frames' = <<>> /\ index' = Top.saved.index
  BY <1>1, PopFacts DEF Revert
<1>3. Len(frames) = 1
  BY <1>2, TopFacts
<1>4. ExpiryTypeOK /\ Accrued(Top.saved.index)
  BY <1>2 DEF Due
<1>5. undo' = <<>> /\ saved \in StorageType
  BY <1>1, <1>3, <1>4, UndoEmpty DEF Forget
<1>6. NoQuote \in [given : BOOLEAN, answer : AssetAmount] /\ ~NoQuote.given
  BY DEF NoQuote, NoAmount, AssetAmount
<1> HIDE DEF saved
<1>7. Storage' \in StorageType
  BY <1>1, <1>5 DEF Storage, StorageType
<1>8. ExpiryTypeOK'
  BY <1>1, <1>2, <1>5, <1>6, <1>7 DEF ExpiryTypeOK
<1> QED
  BY <1>1, <1>2, <1>4, <1>6, <1>8 DEF Due

-----------------------------------------------------------------------------
(* The environment.                                                        *)

(* A step that leaves balances, flags, indexes and frames alone.           *)
LEMMA QuietDue ==
  ASSUME Due, UNCHANGED <<ledger, status, index, frames, expiries, quote, undo>>,
         Storage' = Storage, now' = now \/ frames = <<>>
  PROVE  Due'
<1>1. Top' = Top /\ Act' = Act /\ Acct' = Acct /\ Othr' = Othr
  BY DEF Top, Act, Acct, Othr
<1>2. ExpiryTypeOK' /\ Accrued(index)' /\ (frames = <<>> => ~quote'.given)
  BY DEF Due, ExpiryTypeOK
<1>3. CASE frames = <<>>
  BY <1>2, <1>3 DEF Due
<1>4. CASE frames # <<>>
  <2>1. now' = now
    BY <1>4
  <2>2. \A a : DueReason(Top, a) => DueReason(Top, a)'
    BY <1>1, <2>1, DueReasonStays
  <2>3. InExpiry' = InExpiry /\ AsksExpiry' = AsksExpiry
    BY <1>1 DEF InExpiry, AsksExpiry
  <2>4. Accrued(Top.saved.index)' /\ ExpiriesKept'
    BY <1>1, <1>4, <2>1 DEF Due, ExpiriesKept
  <2>5. QuoteSound'
    BY <1>1, <1>4, <2>2, <2>3 DEF Due, QuoteSound
  <2>6. DuePermitted'
    BY <1>1, <1>4, <2>2, <2>3 DEF Due, DuePermitted
  <2> QED
    BY <1>2, <1>4, <2>4, <2>5, <2>6 DEF Due
<1> QED
  BY <1>3, <1>4

(* Who comes to be trusted is remembered by the frame.                     *)
LEMMA SetOperatorFrame ==
  ASSUME Inductive, frames # <<>>, NEW pair, NEW trusted, SetOperator(pair, trusted)
  PROVE  /\ frames' # <<>> /\ Len(frames') = Len(frames)
         /\ Top'.sender = Top.sender /\ Top'.accounts = Top.accounts
         /\ Top'.actions = Top.actions /\ Top'.cache = Top.cache
         /\ Top'.saved = Top.saved /\ Top'.call = Top.call
         /\ Top'.waiting = Top.waiting /\ Top'.pc = Top.pc
         /\ Top'.trusted = Top.trusted \cup operators'
<1> DEFINE next == [Top EXCEPT !.trusted = Top.trusted \cup operators']
<1>1. frames = <<Top>> /\ IsFrame(Top)
  BY TopFacts
<1>2. frames' # <<>> /\ Top' = next /\ Len(frames') = Len(frames)
  <2>1. DOMAIN frames = {1} /\ frames[1] = Top
    BY <1>1
  <2>2. frames' = [i \in {1} |-> next]
    BY <2>1 DEF SetOperator
  <2> HIDE DEF next
  <2>3. frames' = <<next>>
    BY <2>2
  <2> QED
    BY <1>1, <2>3 DEF Top
<1>3. /\ next.sender = Top.sender /\ next.accounts = Top.accounts
      /\ next.actions = Top.actions /\ next.cache = Top.cache
      /\ next.saved = Top.saved /\ next.call = Top.call
      /\ next.waiting = Top.waiting /\ next.pc = Top.pc
      /\ next.trusted = Top.trusted \cup operators'
  BY <1>1 DEF IsFrame
<1> HIDE DEF next
<1> QED
  BY <1>2, <1>3

(* So the reasons stay what they were.                                     *)
LEMMA SetOperatorDue ==
  ASSUME Inductive, Due, NEW pair, NEW trusted, SetOperator(pair, trusted),
         UNCHANGED <<storage, quote, undo>>
  PROVE  Due'
<1>1. UNCHANGED <<ledger, status, index, now, expiries, quote, undo>> /\ Storage' = Storage
  BY DEF SetOperator, storage, Storage
<1>2. CASE frames = <<>>
  <2>1. frames' = frames
    BY <1>2 DEF SetOperator
  <2> QED
    BY <1>1, <1>2, <2>1, QuietDue
<1>3. CASE frames # <<>>
  <2>1. frames' # <<>> /\ Len(frames') = Len(frames)
    BY <1>3, SetOperatorFrame
  <2>2. /\ Top'.sender = Top.sender /\ Top'.accounts = Top.accounts
        /\ Top'.actions = Top.actions /\ Top'.cache = Top.cache
        /\ Top'.saved = Top.saved /\ Top'.call = Top.call
        /\ Top'.waiting = Top.waiting /\ Top'.pc = Top.pc
        /\ Top'.trusted = Top.trusted \cup operators'
    BY <1>3, SetOperatorFrame
  <2>4. \A a : DueReason(Top, a) => DueReason(Top, a)'
    BY <1>1, <2>2, DueReasonStays
  <2>5. Act' = Act /\ Acct' = Acct /\ Othr' = Othr
    BY <2>2 DEF Act, Acct, Othr
  <2>6. InExpiry' = InExpiry /\ AsksExpiry' = AsksExpiry
    BY <1>3, <2>1, <2>2, <2>5 DEF InExpiry, AsksExpiry
  <2>7. ExpiryTypeOK' /\ ExpiriesKept'
    BY <1>1, <1>3, <2>1 DEF Due, ExpiryTypeOK, ExpiriesKept
  <2>8. QuoteSound'
    BY <1>1, <1>3, <2>2, <2>4, <2>5, <2>6 DEF Due, QuoteSound
  <2>9. DuePermitted'
    BY <1>1, <1>3, <2>2, <2>4, <2>5, <2>6 DEF Due, DuePermitted
  <2> QED
    BY <1>1, <1>3, <2>1, <2>2, <2>7, <2>8, <2>9 DEF Due
<1> QED
  BY <1>2, <1>3

LEMMA EnvironmentElsewhereDue ==
  ASSUME Inductive, Due, EnvironmentElsewhere
  PROVE  Due'
<1>1. Environment /\ UNCHANGED <<storage, quote, undo>>
  BY DEF EnvironmentElsewhere
<1>2. CASE \E pair \in Grants, trusted \in BOOLEAN : SetOperator(pair, trusted)
  BY <1>1, <1>2, SetOperatorDue
<1>3. ASSUME ~(\E pair \in Grants, trusted \in BOOLEAN : SetOperator(pair, trusted))
      PROVE  UNCHANGED <<ledger, status, index, frames>> /\ (now' = now \/ frames = <<>>)
  BY <1>1, <1>3 DEF Environment, SendTokens, MovePrice, Tick, OwnerSetIsClosing,
     OwnerSetMaxWei, OwnerSetMaxMarkets, OwnerWithdrawExcessTokens
<1>4. UNCHANGED <<expiries, quote, undo>> /\ Storage' = Storage
  BY <1>1 DEF storage, Storage
<1> QED
  BY <1>2, <1>3, <1>4, QuietDue

-----------------------------------------------------------------------------
(* Due is an invariant.                                                    *)

LEMMA InitDue ==
  ASSUME ExpiryInit
  PROVE  Due
<1>1. /\ expiries = [a \in Accounts |-> [m \in Markets |-> 0]]
      /\ approvedSender = [pair \in Addresses \X Addresses |-> 0]
      /\ rampTime \in RampTimes /\ quote = NoQuote /\ undo = <<>>
      /\ frames = <<>> /\ index = [m \in Markets |-> NewIndex(0)]
  BY DEF ExpiryInit, Init
<1>2. Max32 \in Nat /\ rampTime \in Nat
  BY <1>1, ExpiryAssumption
<1>3. Storage \in StorageType
  BY <1>1, <1>2 DEF Storage, StorageType
<1>4. quote \in [given : BOOLEAN, answer : AssetAmount] /\ ~quote.given
  BY <1>1 DEF NoQuote, NoAmount, AssetAmount
<1>5. Accrued(index)
  BY <1>1, WidthAssumption DEF Accrued, NewIndex
<1>6. undo \in Seq(StorageType) /\ Len(undo) = Len(frames)
  BY <1>1
<1> QED
  BY <1>1, <1>3, <1>4, <1>5, <1>6 DEF Due, ExpiryTypeOK

(* What an operation beside Expiry has changed so far, and is about to     *)
(* change, is due, whoever calls, sets or approves what in between.        *)
THEOREM DueInvariant == ExpirySpec => []Due
<1>1. ExpiryInit => Due
  BY InitDue
<1>2. Inductive /\ Authorized /\ Due /\ [ExpiryNext]_expiryVars => Due'
  <2>1. CASE UNCHANGED expiryVars
    BY <2>1, QuietDue DEF expiryVars, vars, storage, Storage
  <2>2. ASSUME Inductive, Authorized, Due, ExpiryNext PROVE Due'
    BY <2>2, BeginSavedDue, CommitSavedDue, RevertSavedDue, StepElsewhereDue,
       EnvironmentElsewhereDue, CallSetExpiryDue, CallSetApprovalDue, ApproveSenderDue,
       GetTradeCostOfNothingDue, GetTradeCostDue, QuotedTradeDue,
       OwnerSetExpiryRampTimeDue DEF ExpiryNext
  <2> QED
    BY <2>1, <2>2
<1> QED
  BY <1>1, <1>2, ExpiryImplementsOperation, InductiveInvariant, AuthorizedInvariant,
     PTL DEF ExpirySpec

(* Expiry is an operator of every account, but what an operation that      *)
(* commits has changed through it was due: a debt had expired, or the      *)
(* account was undercollateralized, when the operation began.              *)
THEOREM ChangesAreDue == ExpirySpec => OnlyDueChanges
<1> DEFINE Changed == \A a \in Accounts :
             ledger.par[a] # Top.saved.ledger.par[a] =>
               \/ ActedFor(Top, a) /\ Trusts(Top, a, Top.sender)
               \/ TradedByExpiry(Top, a)
               \/ TradedElsewhere(Top, a)
               \/ LiquidatedBy(Top, a)
               \/ VaporizedBy(Top, a)
<1>1. Inductive /\ Due /\ Commit => Changed
  <2>1. SUFFICES ASSUME Inductive, Due, Commit, NEW a \in Accounts,
                        ledger.par[a] # Top.saved.ledger.par[a]
                 PROVE  \/ ActedFor(Top, a) /\ Trusts(Top, a, Top.sender)
                        \/ TradedByExpiry(Top, a)
                        \/ TradedElsewhere(Top, a)
                        \/ LiquidatedBy(Top, a)
                        \/ VaporizedBy(Top, a)
    OBVIOUS
  <2>2. frames # <<>>
    BY <2>1 DEF Commit
  <2>3. DueReason(Top, a)
    BY <2>1, <2>2 DEF Due, DuePermitted
  <2>4. a \in Named(Top)
    BY <2>1, <2>2, ChangedIsNamed
  <2>5. Undercollateralized(Top, a) => LiquidatedBy(Top, a)
    BY <2>1, <2>2, <2>4, CollateralWasTrue DEF Undercollateralized, LiquidatedBy
  <2> QED
    BY <2>3, <2>5 DEF DueReason
<1> QED
  BY <1>1, ExpiryImplementsOperation, InductiveInvariant, DueInvariant, PTL
     DEF ExpirySpec, OnlyDueChanges

-----------------------------------------------------------------------------
(* Close-outs.                                                             *)

(* The accounts and the markets of an action that has two are not the same.*)
LEMMA ActDistinct ==
  ASSUME Inductive, frames # <<>>, Top.pc <= Len(Top.actions),
         Act.type \in {"Trade", "Liquidate"}
  PROVE  Acct # Othr /\ Act.primaryMarket # Act.secondaryMarket
<1>1. Top.pc \in DOMAIN Top.actions
  BY TopFacts DEF IsFrame
<1>2. /\ ActionAccepted(Top.actions, Top.pc, Len(Top.accounts))
      /\ NoDuplicates(Top.accounts) /\ DOMAIN Top.accounts = 1..Len(Top.accounts)
  BY <1>1, TopFacts DEF FrameSound, RequestSound, IsFrame
<1>3. /\ Act.account \in DOMAIN Top.accounts /\ Act.other \in DOMAIN Top.accounts
      /\ Act.other # Act.account /\ Act.primaryMarket # Act.secondaryMarket
  BY <1>2 DEF ActionAccepted, OnePrimary, TwoPrimary, PrimaryAndSecondary, TwoMarkets,
     OneMarket, ZeroMarkets, Act
<1> QED
  BY <1>2, <1>3 DEF NoDuplicates, Acct, Othr

(* At an index that has only grown, a balance moved by tokens moves their  *)
(* way, and as far as zero only if they are all that it is worth.          *)
LEMMA MovedTheirWay ==
  ASSUME NEW x \in Int, NEW d \in Int, NEW indexed \in IndexType,
         indexed.borrow >= Base, indexed.supply >= Base
  PROVE  LET worth == ParToWei(x, indexed)
             new   == WeiToPar(worth + d, indexed)
         IN  /\ worth \in Int /\ new \in Int
             /\ d >= 0 => x <= new
             /\ d <= 0 => new <= x
             /\ worth + d >= 0 => new >= 0
             /\ worth + d <= 0 => new <= 0
             /\ worth >= 0 => x >= 0
             /\ worth = 0 <=> x = 0
<1> DEFINE worth == ParToWei(x, indexed)
           sum == worth + d
<1>1. /\ worth \in Int /\ WeiToPar(worth, indexed) = x
      /\ x <= 0 => worth <= 0
  BY ConversionType, RoundTrip
<1>2. WeiToPar(0, indexed) = 0 /\ ParToWei(0, indexed) = 0
  BY ConversionZero
<1> HIDE DEF worth
<1>3. sum \in Int
  BY <1>1
<1> HIDE DEF sum
<1>4. /\ WeiToPar(sum, indexed) \in Int
      /\ worth <= sum => WeiToPar(worth, indexed) <= WeiToPar(sum, indexed)
      /\ sum <= worth => WeiToPar(sum, indexed) <= WeiToPar(worth, indexed)
      /\ 0 <= sum => 0 <= WeiToPar(sum, indexed)
      /\ sum <= 0 => WeiToPar(sum, indexed) <= 0
  BY <1>1, <1>2, <1>3, ConversionType, ConversionMonotone
<1>5. /\ d >= 0 => worth <= sum
      /\ d <= 0 => sum <= worth
  BY <1>1 DEF sum
<1>6. worth >= 0 => x >= 0
  <2>1. SUFFICES ASSUME worth >= 0, x < 0 PROVE FALSE
    OBVIOUS
  <2>2. worth = 0
    BY <1>1, <2>1
  <2> QED
    BY <1>1, <1>2, <2>1, <2>2
<1>7. worth = 0 <=> x = 0
  BY <1>1, <1>2 DEF worth
<1> QED
  BY <1>1, <1>4, <1>5, <1>6, <1>7 DEF worth, sum

(* The writes to the other account of a liquidation or a trade are its     *)
(* balances in the two markets; then the solid account or the taker pays.  *)
LEMMA PaidBySolidOther ==
  ASSUME Inductive, frames # <<>>, NEW L, Writable(L), Acct # Othr,
         Othr \in Accounts, NEW owed, NEW held
  PROVE  PaidBySolid(L, owed, held).par[Othr] = L.par[Othr]
<1>1. Untouched(L, L, {Acct})
  BY DEF Writable, Kept, Sound, WideLedger, Untouched
<1>2. Untouched(L, PaidBySolid(L, owed, held), {Acct})
  BY <1>1, PaidBySolidUntouched
<1> QED
  BY <1>2 DEF Untouched

(* A liquidation moves the debt towards zero and takes what is there.      *)
LEMMA LiquidationTowardsZero ==
  ASSUME Inductive, Authorized, Accrued(index), LiquidateReturn
  PROVE  LET owed == Act.primaryMarket
             held == Act.secondaryMarket
             old  == ledger.par[Othr]
             new  == ledger'.par[Othr]
         IN  /\ old[owed] <= new[owed] /\ new[owed] <= 0
             /\ 0 <= new[held] /\ new[held] <= old[held]
<1> DEFINE owed    == Act.primaryMarket
           held    == Act.secondaryMarket
           old     == ledger.par[Othr]
           new     == ledger'.par[Othr]
           maxHeld == GetWei(ledger, Othr, held, IndexOf(held))
           repaid  == GetNewParAndDeltaWeiForLiquidation(ledger, Othr, owed,
                        IndexOf(owed), Act.amount)
           heldPrice == Top.cache[held].price
           owedPrice == OwedPriceAdjusted(held, owed)
           heldWei == OwedWeiToHeldWei(repaid.wei, heldPrice, owedPrice)
           taken   == SetPar(ledger, Othr, held, 0)
           paid    == SetPar(ledger, Othr, owed, Top.call.par)
           seized  == IF Top.call.bounded
                      THEN SetParFromDeltaWei(taken, Othr, owed, IndexOf(owed), Top.call.wei)
                      ELSE SetParFromDeltaWei(paid, Othr, held, IndexOf(held),
                                              Top.call.otherWei)
           Towards == /\ old[owed] <= new[owed] /\ new[owed] <= 0
                      /\ 0 <= new[held] /\ new[held] <= old[held]
<1>1. /\ frames # <<>> /\ Top.pc <= Len(Top.actions) /\ Act.type = "Liquidate"
      /\ Top.waiting
  BY AtFacts DEF LiquidateReturn, Returning
<1>2. /\ Acct # Othr /\ owed # held
      /\ Othr \in Accounts /\ Othr \in Named(Top) /\ Act.amount \in AssetAmount
      /\ owed \in Markets \cap DOMAIN Top.cache
      /\ held \in Markets \cap DOMAIN Top.cache
  BY <1>1, ActFacts, ActDistinct, LedgerKept DEF ActionArgs
<1>3. /\ maxHeld >= 0 /\ repaid.allowed
      /\ Top.call = Exchanged(repaid, held, owed, maxHeld)
  BY <1>1 DEF Authorized, CallSound, LiquidationSound
<1>4. /\ IndexOf(owed) \in IndexType /\ IndexOf(held) \in IndexType
      /\ IndexOf(owed).borrow >= Base /\ IndexOf(owed).supply >= Base
      /\ IndexOf(held).borrow >= Base /\ IndexOf(held).supply >= Base
  BY <1>1, <1>2, CacheFacts DEF Accrued
<1>5. /\ old[owed] \in Int /\ old[held] \in Int
      /\ maxHeld \in Int /\ maxHeld = ParToWei(old[held], IndexOf(held))
      /\ GetWei(ledger, Othr, owed, IndexOf(owed)) = ParToWei(old[owed], IndexOf(owed))
  BY <1>2, <1>4, LedgerSound, GetWeiType DEF GetWei
<1>6. /\ heldPrice \in Nat \ {0} /\ owedPrice \in Nat \ {0}
  BY <1>1, <1>2, AdjustedPriceType
<1>7. /\ repaid.par <= 0 /\ repaid.wei \in Nat /\ old[owed] <= repaid.par
      /\ repaid.par \in Int
  <2>1. repaid.par <= 0 /\ repaid.wei \in Nat /\ old[owed] <= 0
    BY <1>2, <1>3, <1>4, LedgerSound, RepaidSettles
  <2>2. repaid.par \in Int
    BY <1>2, <1>4, LedgerSound, NewParForLiquidationType
  <2>3. Magnitude(old[owed]) >= Magnitude(repaid.par)
    BY <1>3 DEF GetNewParAndDeltaWeiForLiquidation
  <2> HIDE DEF repaid, old
  <2> QED
    BY <1>5, <2>1, <2>2, <2>3 DEF Magnitude
<1>8. ledger' = PaidBySolid(seized, owed, held)
  BY DEF LiquidateReturn, Booked
<1>9. Top.call = IF heldWei > maxHeld
                 THEN [par |-> 0, wei |-> HeldWeiToOwedWei(maxHeld, heldPrice, owedPrice),
                       otherWei |-> -maxHeld, bounded |-> TRUE]
                 ELSE Captured(repaid.par, repaid.wei, -heldWei)
  BY <1>3 DEF Exchanged
<1>10. heldWei \in Nat
  <2> HIDE DEF repaid, heldPrice, owedPrice
  <2> QED
    BY <1>6, <1>7, PartialType DEF OwedWeiToHeldWei
<1>11. IF Top.call.bounded
       THEN WeiToPar(GetWei(ledger, Othr, owed, IndexOf(owed)) + Top.call.wei,
                     IndexOf(owed)) <= 0
       ELSE Top.call.par <= 0
  BY <1>1, <1>2, <1>3, <1>4, <1>5, LedgerSound, ExchangedSettles
<1>12. /\ Top.call.par \in Int /\ Top.call.wei \in Int /\ Top.call.otherWei \in Int
  BY <1>1, CallFacts
<1>13. Writable(taken) /\ Writable(paid)
  BY <1>1, <1>2, <1>12, WriteKept, LedgerWritable
<1>14. /\ taken.par[Othr][held] = 0 /\ taken.par[Othr][owed] = old[owed]
       /\ paid.par[Othr][owed] = Top.call.par /\ paid.par[Othr][held] = old[held]
  BY <1>2, <1>12, LedgerSound, SetParRows
<1> HIDE DEF taken, paid, maxHeld, repaid, heldPrice, owedPrice
<1>15. Writable(seized)
  BY <1>1, <1>2, <1>12, <1>13, WriteKept
<1>16. new = seized.par[Othr]
  <2> HIDE DEF seized
  <2> QED
    BY <1>1, <1>2, <1>8, <1>15, PaidBySolidOther
<1>17. ASSUME heldWei > maxHeld PROVE Towards
  <2>1. /\ Top.call.bounded /\ Top.call.wei \in Nat
        /\ seized = SetParFromDeltaWei(taken, Othr, owed, IndexOf(owed), Top.call.wei)
    <3>1. /\ Top.call.bounded
          /\ Top.call.wei = HeldWeiToOwedWei(maxHeld, heldPrice, owedPrice)
      BY <1>9, <1>17
    <3>2. Top.call.wei \in Nat
      BY <1>3, <1>5, <1>6, <1>7, <1>17, <3>1, BoundedRepayment
    <3> QED
      BY <3>1, <3>2
  <2>2. /\ seized.par[Othr][held] = 0
        /\ seized.par[Othr][owed] = IF Top.call.wei = 0 THEN old[owed]
             ELSE WeiToPar(ParToWei(old[owed], IndexOf(owed)) + Top.call.wei, IndexOf(owed))
    BY <1>2, <1>4, <1>12, <1>13, <1>14, <2>1, SetParFromDeltaWeiRows
       DEF Writable, Kept, GetWei
  <2>3. old[held] >= 0
    BY <1>3, <1>4, <1>5, MovedTheirWay
  <2>4. /\ old[owed] <= WeiToPar(ParToWei(old[owed], IndexOf(owed)) + Top.call.wei,
                                 IndexOf(owed))
        /\ WeiToPar(ParToWei(old[owed], IndexOf(owed)) + Top.call.wei, IndexOf(owed)) <= 0
    BY <1>4, <1>5, <1>11, <2>1, MovedTheirWay
  <2>5. old[owed] <= 0
    BY <1>5, <1>7
  <2> HIDE DEF seized, new, old
  <2> QED
    BY <1>5, <1>16, <2>2, <2>3, <2>4, <2>5
<1>18. ASSUME ~(heldWei > maxHeld) PROVE Towards
  <2>1. /\ ~Top.call.bounded /\ Top.call.par = repaid.par /\ Top.call.otherWei = -heldWei
        /\ seized = SetParFromDeltaWei(paid, Othr, held, IndexOf(held), Top.call.otherWei)
    BY <1>9, <1>18 DEF Captured
  <2>2. /\ seized.par[Othr][owed] = repaid.par
        /\ seized.par[Othr][held] = IF -heldWei = 0 THEN old[held]
             ELSE WeiToPar(maxHeld + (-heldWei), IndexOf(held))
    BY <1>2, <1>4, <1>5, <1>12, <1>13, <1>14, <2>1, SetParFromDeltaWeiRows
       DEF Writable, Kept, GetWei
  <2>3. -heldWei \in Int /\ -heldWei <= 0 /\ maxHeld + (-heldWei) >= 0
    BY <1>5, <1>10, <1>18
  <2>4. /\ WeiToPar(maxHeld + (-heldWei), IndexOf(held)) <= old[held]
        /\ WeiToPar(maxHeld + (-heldWei), IndexOf(held)) >= 0
        /\ old[held] >= 0
    <3> HIDE DEF heldWei
    <3> QED
      BY <1>3, <1>4, <1>5, <2>3, MovedTheirWay
  <2> HIDE DEF seized, new, old, heldWei
  <2> QED
    BY <1>5, <1>7, <1>16, <2>2, <2>4
<1> QED
  BY <1>17, <1>18

-----------------------------------------------------------------------------
(* What Expiry has answered stays true until it is booked.                 *)

(* Who trades with Expiry names another account, and two markets of the    *)
(* cache.                                                                  *)
LEMMA AskedFacts ==
  ASSUME Inductive, Due, AsksExpiry
  PROVE  /\ frames # <<>> /\ Top.waiting /\ Act.type = "Trade"
         /\ Top.pc <= Len(Top.actions)
         /\ Acct # Othr /\ Act.primaryMarket # Act.secondaryMarket
         /\ Othr \in Accounts /\ Acct \in Accounts
         /\ Othr \in Named(Top) /\ Acct \in Named(Top)
         /\ Act.amount \in AssetAmount
         /\ \A m \in {Act.primaryMarket, Act.secondaryMarket} :
              /\ m \in Markets \cap DOMAIN Top.cache
              /\ IndexOf(m) = index[m] /\ IndexOf(m) \in IndexType
              /\ IndexOf(m).borrow >= Base /\ IndexOf(m).supply >= Base
<1>1. /\ frames # <<>> /\ Top.waiting /\ Act.type = "Trade"
      /\ Top.pc <= Len(Top.actions)
  BY TopFacts DEF AsksExpiry, InExpiry, FrameSound, RequestSound
<1>2. /\ Othr \in Named(Top) /\ Acct \in Named(Top) /\ Act.amount \in AssetAmount
      /\ Act.primaryMarket \in Markets \cap DOMAIN Top.cache
      /\ Act.secondaryMarket \in Markets \cap DOMAIN Top.cache
  BY <1>1, ActFacts DEF ActionArgs
<1>3. Othr \in Accounts /\ Acct \in Accounts
  BY <1>1, <1>2, LedgerKept
<1>4. Acct # Othr /\ Act.primaryMarket # Act.secondaryMarket
  BY <1>1, ActDistinct
<1>5. Accrued(index)
  BY DEF Due
<1>6. \A m \in {Act.primaryMarket, Act.secondaryMarket} :
        /\ IndexOf(m) = index[m] /\ IndexOf(m) \in IndexType
        /\ IndexOf(m).borrow >= Base /\ IndexOf(m).supply >= Base
  BY <1>1, <1>2, <1>5, CacheFacts DEF Accrued
<1> QED
  BY <1>1, <1>2, <1>3, <1>4, <1>6

(* Steps that leave the answer, the expiries and the trade alone.          *)
LEMMA AnsweredStays ==
  ASSUME Answered, UNCHANGED <<ledger, expiries, quote>>,
         Act' = Act, Othr' = Othr, Top'.call = Top.call, Top'.cache = Top.cache
  PROVE  Answered'
BY DEF Answered, IndexOf

(* Expiry gives an answer that fits the balances.                          *)
LEMMA GetTradeCostAnswered ==
  ASSUME Inductive, Due, NEW owedMarket \in Markets, NEW maxExpiry \in MaxExpiries,
         GetTradeCost(owedMarket, maxExpiry)
  PROVE  Answered'
<1> DEFINE input  == Act.primaryMarket
           output == Act.secondaryMarket
           expiry == expiries[Othr][owedMarket]
           maxOutput == GetWei(ledger, Othr, output, index[output])
           cost == IF Top.call.wei > 0 THEN Repaying(maxOutput, expiry)
                   ELSE Selling(maxOutput, expiry)
<1>1. /\ InExpiry /\ Act.type = "Trade" /\ Top.call.wei # 0
      /\ MayCloseOut(expiry, maxExpiry)
      /\ \A m \in MarketsOf(Act) : price[m] # 0
      /\ cost.owed = owedMarket /\ cost.allowed
      /\ expiries' = IF cost.clears
                     THEN [expiries EXCEPT ![Othr][owedMarket] = 0] ELSE expiries
      /\ quote' = [given |-> TRUE, answer |-> [denomination |-> "Wei", ref |-> "Delta",
                                               value |-> cost.answer]]
      /\ UNCHANGED <<vars, approvedSender, rampTime, undo>>
  BY DEF GetTradeCost
<1>2. AsksExpiry
  BY <1>1 DEF AsksExpiry
<1>3. /\ frames # <<>> /\ Othr \in Accounts /\ input \in Markets /\ output \in Markets
      /\ IndexOf(output) = index[output] /\ IndexOf(output) \in IndexType
      /\ input \in MarketsOf(Act) /\ output \in MarketsOf(Act)
  BY <1>1, <1>2, AskedFacts DEF MarketsOf, ZeroMarkets, OneMarket
<1>4. /\ expiries \in [Accounts -> [Markets -> 0..Max32]] /\ rampTime \in Nat
      /\ Max32 \in Nat
  BY <1>3, ExpiryAssumption DEF Due, ExpiryTypeOK, Storage, StorageType
<1>5. expiry \in Nat /\ expiry # 0
  BY <1>1, <1>3, <1>4 DEF MayCloseOut
<1>6. maxOutput \in Int /\ maxOutput = GetWei(ledger, Othr, output, IndexOf(output))
  BY <1>3, LedgerSound, GetWeiType
<1>7. Top.call.wei \in Int
  BY <1>3, CallFacts
<1>8. /\ UNCHANGED <<ledger, frames>> /\ Act' = Act /\ Othr' = Othr /\ Top' = Top
      /\ IndexOf(output)' = IndexOf(output)
  BY <1>1 DEF vars, Top, Act, Othr, IndexOf
<1>9. expiries'[Othr][owedMarket] = 0 <=> cost.clears
  <2> HIDE DEF cost
  <2>1. CASE cost.clears
    BY <1>1, <1>3, <1>4, <2>1
  <2>2. CASE ~cost.clears
    BY <1>1, <1>5, <2>2
  <2> QED
    BY <2>1, <2>2
<1>10. /\ quote'.answer = [denomination |-> "Wei", ref |-> "Delta", value |-> cost.answer]
       /\ quote'.answer.value = cost.answer
  BY <1>1
<1> HIDE DEF expiry, maxOutput
<1>11. /\ cost.answer \in Int
       /\ IF Top.call.wei > 0
          THEN /\ Top.call.par <= 0 /\ cost.answer <= 0 /\ maxOutput + cost.answer >= 0
               /\ owedMarket = input /\ (cost.clears <=> Top.call.par = 0)
          ELSE /\ Top.call.par >= 0 /\ cost.answer >= 0 /\ maxOutput + cost.answer <= 0
               /\ owedMarket = output /\ (cost.clears <=> maxOutput + cost.answer = 0)
  <2>1. CASE Top.call.wei > 0
    <3> DEFINE taken == OwedWeiToHeldWei(Top.call.wei, price[output],
                                         SpreadAdjustedPrice(output, input, expiry))
    <3>1. /\ cost.owed = input /\ cost.answer = -taken
          /\ cost.allowed => Top.call.par <= 0 /\ taken <= maxOutput
          /\ cost.clears <=> Top.call.par = 0
      BY <2>1 DEF Repaying
    <3>2. Top.call.wei \in Nat
      BY <1>7, <2>1
    <3>3. taken \in Nat
      BY <1>1, <1>3, <1>4, <1>5, <3>2, CostType
    <3> HIDE DEF taken, cost
    <3> QED
      BY <1>1, <1>6, <2>1, <3>1, <3>3
  <2>2. CASE ~(Top.call.wei > 0)
    <3> DEFINE paid == HeldWeiToOwedWei(-Top.call.wei, price[input],
                                        SpreadAdjustedPrice(input, output, expiry))
    <3>1. /\ cost.owed = output /\ cost.answer = paid
          /\ cost.allowed => Top.call.par >= 0 /\ paid <= -maxOutput
          /\ cost.clears <=> paid = -maxOutput
      BY <2>2 DEF Selling
    <3>2. -Top.call.wei \in Nat
      BY <1>7, <2>2
    <3>3. paid \in Nat
      BY <1>1, <1>3, <1>4, <1>5, <3>2, CostType
    <3> HIDE DEF paid, cost
    <3> QED
      BY <1>1, <1>6, <2>2, <3>1, <3>3
  <2> QED
    BY <2>1, <2>2
<1> HIDE DEF cost
<1> QED
  BY <1>6, <1>8, <1>9, <1>10, <1>11 DEF Answered

(* No other step gives an answer, or changes what it was given for.        *)
LEMMA AnsweredStep ==
  ASSUME Inductive, Due, Answered, ExpiryNext
  PROVE  Answered'
<1>1. SUFFICES ASSUME quote'.given PROVE Answered'
  BY DEF Answered
<1>2. quote.given => frames # <<>> /\ AsksExpiry /\ InExpiry /\ locked
  BY DEF Due, QuoteSound, AsksExpiry, Inductive
<1>3. ASSUME UNCHANGED <<ledger, frames, expiries, quote>> PROVE Answered'
  BY <1>3, AnsweredStays DEF Top, Act, Othr
<1>4. CASE \E request \in Requests, rate \in [Markets -> Rates] :
             BeginSaved(request, rate)
  BY <1>1, <1>2, <1>4 DEF BeginSaved, Begin, MayEnter
<1>5. CASE CommitSaved
  <2>1. quote.given /\ Commit
    BY <1>1, <1>5 DEF CommitSaved
  <2>2. Len(Top.actions) \in Nat /\ Top.pc \in Nat
    BY <1>2, <2>1, TopFacts DEF IsFrame
  <2> QED
    BY <1>2, <2>1, <2>2, AskedFacts DEF Commit
<1>6. CASE RevertSaved
  BY <1>1, <1>6 DEF RevertSaved, NoQuote
<1>7. CASE StepElsewhere
  BY <1>1, <1>2, <1>7 DEF StepElsewhere
<1>8. CASE EnvironmentElsewhere
  <2>1. Environment /\ UNCHANGED <<expiries, quote>> /\ quote.given
    BY <1>1, <1>8 DEF EnvironmentElsewhere, storage
  <2>2. CASE \E pair \in Grants, trusted \in BOOLEAN : SetOperator(pair, trusted)
    <3>1. ledger' = ledger
      BY <2>2 DEF SetOperator
    <3>2. /\ Top'.accounts = Top.accounts /\ Top'.actions = Top.actions
          /\ Top'.pc = Top.pc /\ Top'.call = Top.call /\ Top'.cache = Top.cache
      BY <1>2, <2>1, <2>2, SetOperatorFrame
    <3>3. Act' = Act /\ Othr' = Othr
      BY <3>2 DEF Act, Othr
    <3> QED
      BY <2>1, <3>1, <3>2, <3>3, AnsweredStays
  <2>3. ASSUME ~(\E pair \in Grants, trusted \in BOOLEAN : SetOperator(pair, trusted))
        PROVE  UNCHANGED <<ledger, frames>>
    BY <2>1, <2>3 DEF Environment, SendTokens, MovePrice, Tick, OwnerSetIsClosing,
       OwnerSetMaxWei, OwnerSetMaxMarkets, OwnerWithdrawExcessTokens
  <2> QED
    BY <1>3, <2>1, <2>2, <2>3
<1>9. ASSUME CallReturn, UNCHANGED quote PROVE FALSE
  BY <1>1, <1>2, <1>9 DEF CallReturn, Returning, AsksExpiry
<1>10. CASE \E args \in ExpiryCalls : CallSetExpiry(args)
  BY <1>9, <1>10 DEF CallSetExpiry
<1>11. CASE \E approval \in Approvals :
              \/ CallSetApproval(approval[1], approval[2], approval[3])
              \/ ApproveSender(approval[1], approval[2], approval[3])
  BY <1>3, <1>9, <1>11 DEF CallSetApproval, ApproveSender, vars
<1>12. CASE GetTradeCostOfNothing
  BY <1>12 DEF GetTradeCostOfNothing, vars, Answered, Top
<1>13. CASE \E m \in Markets, maxExpiry \in MaxExpiries : GetTradeCost(m, maxExpiry)
  BY <1>13, GetTradeCostAnswered
<1>14. CASE QuotedTrade
  BY <1>1, <1>14 DEF QuotedTrade, NoQuote
<1>15. CASE \E newRampTime \in RampTimes : OwnerSetExpiryRampTime(newRampTime)
  BY <1>3, <1>15 DEF OwnerSetExpiryRampTime, vars
<1> QED
  BY <1>4, <1>5, <1>6, <1>7, <1>8, <1>10, <1>11, <1>12, <1>13, <1>14, <1>15
     DEF ExpiryNext

-----------------------------------------------------------------------------
(* A trade through Expiry.                                                 *)

(* It moves the input market's balance of the other account by what the    *)
(* trade asks for, the output market's by the answer.                      *)
LEMMA QuotedTradeMoves ==
  ASSUME Inductive, Authorized, Due, Answered, QuotedTrade, Top.call.wei # 0
  PROVE  LET input  == Act.primaryMarket
             output == Act.secondaryMarket
             worth(m) == ParToWei(ledger.par[Othr][m], IndexOf(m))
         IN  /\ Top.call.par = WeiToPar(worth(input) + Top.call.wei, IndexOf(input))
             /\ ledger'.par[Othr][input] = Top.call.par
             /\ ledger'.par[Othr][output]
                  = WeiToPar(worth(output) + quote.answer.value, IndexOf(output))
<1> DEFINE input  == Act.primaryMarket
           output == Act.secondaryMarket
           value  == quote.answer.value
           worth(m) == ParToWei(ledger.par[Othr][m], IndexOf(m))
           moved  == GetNewParAndDeltaWei(ledger, Othr, output, IndexOf(output),
                                          quote.answer)
           first  == SetPar(ledger, Othr, input, Top.call.par)
           maker  == SetPar(first, Othr, output, moved.par)
           third  == SetParFromDeltaWei(maker, Acct, input, IndexOf(input), -Top.call.wei)
           last   == SetParFromDeltaWei(third, Acct, output, IndexOf(output), -moved.wei)
<1>1. /\ InExpiry /\ quote.given /\ TradeReturn(quote.answer)
      /\ quote.answer \in AssetAmount
  BY EnvironmentAssumption DEF QuotedTrade
<1>2. AsksExpiry
  BY <1>1 DEF InExpiry, Due, QuoteSound
<1>3. /\ frames # <<>> /\ Top.waiting /\ Act.type = "Trade"
      /\ Acct # Othr /\ input # output /\ Othr \in Accounts /\ Othr \in Named(Top)
      /\ Act.amount \in AssetAmount
      /\ input \in Markets \cap DOMAIN Top.cache
      /\ output \in Markets \cap DOMAIN Top.cache
      /\ IndexOf(input) \in IndexType
      /\ IndexOf(input).borrow >= Base /\ IndexOf(input).supply >= Base
      /\ IndexOf(output) \in IndexType
      /\ IndexOf(output).borrow >= Base /\ IndexOf(output).supply >= Base
  BY <1>2, AskedFacts
<1>4. quote.answer = [denomination |-> "Wei", ref |-> "Delta", value |-> value]
  BY <1>1 DEF Answered
<1>5. Top.call.par \in Int /\ Top.call.wei \in Int /\ value \in Int
  BY <1>1, <1>3, CallFacts DEF AssetAmount
<1>6. Top.call.par = WeiToPar(worth(input) + Top.call.wei, IndexOf(input))
  <2>1. /\ Top.call.par = CapturedBy(Top).par /\ Top.call.wei = CapturedBy(Top).wei
        /\ CapturedBy(Top)
             = GetNewParAndDeltaWei(ledger, Othr, input, IndexOf(input), Act.amount)
    BY <1>3 DEF Authorized, CallSound, CapturedBy, Act, Othr, IndexOf
  <2> QED
    BY <1>3, <2>1, LedgerSound, AskedMoves
<1>7. moved.wei = value /\ moved.par \in Int
      /\ moved.par = WeiToPar(worth(output) + value, IndexOf(output))
  <2>1. GetWei(ledger, Othr, output, IndexOf(output)) \in Int
    BY <1>3, LedgerSound, GetWeiType
  <2>2. moved.wei = value
    BY <1>4, <1>5, <2>1 DEF GetNewParAndDeltaWei
  <2>3. moved.par = WeiToPar(worth(output) + moved.wei, IndexOf(output))
    BY <1>1, <1>3, LedgerSound, AskedMoves
  <2>4. moved.par \in Int
    BY <1>1, <1>3, LedgerSound, NewParType
  <2> QED
    BY <2>2, <2>3, <2>4
<1>8. ledger' = last
  BY <1>1 DEF TradeReturn, Booked
<1> HIDE DEF moved
<1>9. Writable(first)
  BY <1>3, <1>5, WriteKept, LedgerWritable
<1>10. /\ first.par[Othr][input] = Top.call.par
       /\ maker.par[Othr][input] = first.par[Othr][input]
       /\ maker.par[Othr][output] = moved.par
  <2>1. first.par[Othr][input] = Top.call.par
    BY <1>3, <1>5, LedgerSound, SetParRows
  <2> HIDE DEF first
  <2> QED
    BY <1>3, <1>7, <1>9, <2>1, SetParRows DEF Writable, Kept
<1> HIDE DEF first
<1>11. Writable(maker)
  BY <1>3, <1>7, <1>9, WriteKept
<1> HIDE DEF maker
<1>12. Untouched(maker, last, {Acct})
  <2>1. Untouched(maker, maker, {Acct})
    BY <1>11 DEF Writable, Kept, Sound, WideLedger, Untouched
  <2>2. Untouched(maker, third, {Acct})
    BY <2>1, SetParFromDeltaWeiUntouched
  <2> HIDE DEF third
  <2> QED
    BY <2>2, SetParFromDeltaWeiUntouched
<1>13. ledger'.par[Othr] = maker.par[Othr]
  BY <1>3, <1>8, <1>12 DEF Untouched
<1> HIDE DEF last
<1> QED
  BY <1>6, <1>7, <1>10, <1>13

(* So it moves the debt towards zero and takes what is there, and clears   *)
(* the expiry with the debt.                                               *)
LEMMA QuotedTradeSettles ==
  ASSUME Inductive, Authorized, Due, Answered, QuotedTrade, Top.call.wei # 0
  PROVE  LET old  == ledger.par[Othr]
             new  == ledger'.par[Othr]
             paid == IF Repays THEN Top.call.wei ELSE quote.answer.value
             left == GetWei(ledger, Othr, OwedMarket, IndexOf(OwedMarket)) + paid
         IN  /\ old[OwedMarket] <= new[OwedMarket] /\ new[OwedMarket] <= 0
             /\ 0 <= new[HeldMarket] /\ new[HeldMarket] <= old[HeldMarket]
             /\ left = 0 => new[OwedMarket] = 0 /\ expiries'[Othr][OwedMarket] = 0
             /\ expiries'[Othr][OwedMarket] = 0 => new[OwedMarket] = 0
<1> DEFINE input  == Act.primaryMarket
           output == Act.secondaryMarket
           old    == ledger.par[Othr]
           new    == ledger'.par[Othr]
           worth(m) == ParToWei(old[m], IndexOf(m))
           value  == quote.answer.value
<1>1. /\ quote.given /\ InExpiry /\ UNCHANGED expiries
  BY DEF QuotedTrade, storage
<1>2. AsksExpiry
  BY <1>1 DEF InExpiry, Due, QuoteSound
<1>3. /\ Act.type = "Trade" /\ frames # <<>> /\ Othr \in Accounts
      /\ input \in Markets /\ output \in Markets
      /\ IndexOf(input) \in IndexType
      /\ IndexOf(input).borrow >= Base /\ IndexOf(input).supply >= Base
      /\ IndexOf(output) \in IndexType
      /\ IndexOf(output).borrow >= Base /\ IndexOf(output).supply >= Base
  BY <1>2, AskedFacts
<1>4. old[input] \in Int /\ old[output] \in Int
  BY <1>3, LedgerSound, GetWeiType
<1>5. \A m : GetWei(ledger, Othr, m, IndexOf(m)) = worth(m)
  BY DEF GetWei
<1>6. /\ value \in Int
      /\ IF Top.call.wei > 0
         THEN /\ Top.call.par <= 0 /\ value <= 0 /\ worth(output) + value >= 0
              /\ expiries[Othr][input] = 0 <=> Top.call.par = 0
         ELSE /\ Top.call.par >= 0 /\ value >= 0 /\ worth(output) + value <= 0
              /\ expiries[Othr][output] = 0 <=> worth(output) + value = 0
  BY <1>1, <1>5 DEF Answered
<1>7. Top.call.wei \in Int
  BY <1>3, CallFacts
<1>8. /\ new[input] = Top.call.par
      /\ new[input] = WeiToPar(worth(input) + Top.call.wei, IndexOf(input))
      /\ new[output] = WeiToPar(worth(output) + value, IndexOf(output))
  BY QuotedTradeMoves
<1>9. /\ worth(input) \in Int /\ new[input] \in Int
      /\ Top.call.wei >= 0 => old[input] <= new[input]
      /\ Top.call.wei <= 0 => new[input] <= old[input]
      /\ worth(input) + Top.call.wei >= 0 => new[input] >= 0
      /\ worth(input) + Top.call.wei <= 0 => new[input] <= 0
  <2> DEFINE x == old[input]
             d == Top.call.wei
             indexed == IndexOf(input)
             after == new[input]
  <2>1. /\ x \in Int /\ d \in Int /\ indexed \in IndexType
        /\ indexed.borrow >= Base /\ indexed.supply >= Base
        /\ after = WeiToPar(ParToWei(x, indexed) + d, indexed)
    BY <1>3, <1>4, <1>7, <1>8
  <2> HIDE DEF x, d, indexed, after
  <2>2. /\ ParToWei(x, indexed) \in Int /\ after \in Int
        /\ d >= 0 => x <= after
        /\ d <= 0 => after <= x
        /\ ParToWei(x, indexed) + d >= 0 => after >= 0
        /\ ParToWei(x, indexed) + d <= 0 => after <= 0
    BY <2>1, MovedTheirWay
  <2> QED
    BY <2>2 DEF x, d, indexed, after
<1>10. /\ worth(output) \in Int /\ new[output] \in Int
       /\ value >= 0 => old[output] <= new[output]
       /\ value <= 0 => new[output] <= old[output]
       /\ worth(output) + value >= 0 => new[output] >= 0
       /\ worth(output) + value <= 0 => new[output] <= 0
  <2> DEFINE x == old[output]
             d == value
             indexed == IndexOf(output)
             after == new[output]
  <2>1. /\ x \in Int /\ d \in Int /\ indexed \in IndexType
        /\ indexed.borrow >= Base /\ indexed.supply >= Base
        /\ after = WeiToPar(ParToWei(x, indexed) + d, indexed)
    BY <1>3, <1>4, <1>6, <1>8
  <2> HIDE DEF x, d, indexed, after
  <2>2. /\ ParToWei(x, indexed) \in Int /\ after \in Int
        /\ d >= 0 => x <= after
        /\ d <= 0 => after <= x
        /\ ParToWei(x, indexed) + d >= 0 => after >= 0
        /\ ParToWei(x, indexed) + d <= 0 => after <= 0
    BY <2>1, MovedTheirWay
  <2> QED
    BY <2>2 DEF x, d, indexed, after
<1> DEFINE Settles(owed, held, left) ==
             /\ old[owed] <= new[owed] /\ new[owed] <= 0
             /\ 0 <= new[held] /\ new[held] <= old[held]
             /\ left = 0 => new[owed] = 0 /\ expiries[Othr][owed] = 0
             /\ expiries[Othr][owed] = 0 => new[owed] = 0
<1>11. ASSUME Top.call.wei > 0
       PROVE  Settles(input, output, worth(input) + Top.call.wei)
  <2> HIDE DEF old, new, value, worth
  <2> QED
    BY <1>4, <1>6, <1>7, <1>8, <1>9, <1>10, <1>11
<1>12. ASSUME ~(Top.call.wei > 0)
       PROVE  Settles(output, input, worth(output) + value)
  <2> HIDE DEF old, new, value, worth
  <2> QED
    BY <1>4, <1>6, <1>7, <1>8, <1>9, <1>10, <1>12
<1>13. /\ Repays <=> Top.call.wei > 0
       /\ OwedMarket = IF Repays THEN input ELSE output
       /\ HeldMarket = IF Repays THEN output ELSE input
  BY <1>3 DEF Repays, OwedMarket, HeldMarket
<1>14. Settles(OwedMarket, HeldMarket,
               worth(OwedMarket) + (IF Repays THEN Top.call.wei ELSE value))
  <2> HIDE DEF Settles, worth, value
  <2> QED
    BY <1>11, <1>12, <1>13
<1> QED
  BY <1>1, <1>5, <1>14

(* Answered is an invariant.                                               *)
LEMMA AnsweredInvariant == ExpirySpec => []Answered
<1>1. ExpiryInit => Answered
  BY DEF ExpiryInit, NoQuote, Answered
<1>2. Inductive /\ Due /\ Answered /\ [ExpiryNext]_expiryVars => Answered'
  <2>1. CASE UNCHANGED expiryVars
    BY <2>1, AnsweredStays DEF expiryVars, vars, storage, Top, Act, Othr
  <2>2. ASSUME Inductive, Due, Answered, ExpiryNext PROVE Answered'
    BY <2>2, AnsweredStep
  <2> QED
    BY <2>1, <2>2
<1> QED
  BY <1>1, <1>2, ExpiryImplementsOperation, InductiveInvariant, DueInvariant,
     PTL DEF ExpirySpec

(* Whoever closes out a debt, in a liquidation or through Expiry, moves it *)
(* towards zero, never past it, and takes only collateral that is there.   *)
THEOREM CloseOutsTowardZero == ExpirySpec => CloseOutTowardsZero
<1> DEFINE old == ledger.par[Othr]
           new == ledger'.par[Othr]
           Towards ==
             /\ old[OwedMarket] <= new[OwedMarket]
             /\ new[OwedMarket] <= 0 \/ Top.call.wei = 0
             /\ 0 <= new[HeldMarket] \/ Top.call.wei = 0
             /\ new[HeldMarket] <= old[HeldMarket]
<1>1. ASSUME Inductive, Authorized, Due, Answered, LiquidateReturn
      PROVE  Towards
  <2>1. Accrued(index)
    BY <1>1 DEF Due
  <2>2. /\ old[Act.primaryMarket] <= new[Act.primaryMarket]
        /\ new[Act.primaryMarket] <= 0
        /\ 0 <= new[Act.secondaryMarket]
        /\ new[Act.secondaryMarket] <= old[Act.secondaryMarket]
    BY <1>1, <2>1, LiquidationTowardsZero
  <2>3. OwedMarket = Act.primaryMarket /\ HeldMarket = Act.secondaryMarket
    BY <1>1 DEF LiquidateReturn, Returning, Repays, OwedMarket, HeldMarket
  <2> QED
    BY <2>2, <2>3
<1>2. ASSUME Inductive, Authorized, Due, Answered, QuotedTrade
      PROVE  Towards
  <2>1. CASE Top.call.wei # 0
    BY <1>2, <2>1, QuotedTradeSettles
  <2>2. CASE Top.call.wei = 0
    <3>1. AsksExpiry /\ quote.answer = NoAmount /\ TradeReturn(NoAmount)
      BY <1>2, <2>2 DEF QuotedTrade, InExpiry, Due, QuoteSound
    <3>2. /\ Othr \in Accounts /\ Acct # Othr
          /\ Act.primaryMarket \in Markets /\ Act.secondaryMarket \in Markets
      BY <1>2, <3>1, AskedFacts
    <3>3. new = old
      BY <1>2, <2>2, <3>1, <3>2, NothingTraded DEF Untouched, Due
    <3>4. OwedMarket \in Markets /\ HeldMarket \in Markets
      BY <3>2 DEF OwedMarket, HeldMarket
    <3>5. old[OwedMarket] \in Int /\ old[HeldMarket] \in Int
      BY <1>2, <3>2, <3>4, LedgerSound DEF Sound, WideLedger
    <3> QED
      BY <2>2, <3>3, <3>5
  <2> QED
    BY <2>1, <2>2
<1>3. Inductive /\ Authorized /\ Due /\ Answered
        => [LiquidateReturn \/ QuotedTrade => Towards]_expiryVars
  BY <1>1, <1>2
<1> QED
  BY <1>3, ExpiryImplementsOperation, InductiveInvariant, AuthorizedInvariant,
     DueInvariant, AnsweredInvariant, PTL DEF ExpirySpec, CloseOutTowardsZero

(* A trade through Expiry that repays the last of a debt clears its expiry,*)
(* and one that does not keeps it.                                         *)
THEOREM ExpiryIsClearedWithDebt == ExpirySpec => ExpiryClearedWithDebt
<1> DEFINE paid == IF Repays THEN Top.call.wei ELSE quote.answer.value
           left == GetWei(ledger, Othr, OwedMarket, IndexOf(OwedMarket)) + paid
           new  == ledger'.par[Othr][OwedMarket]
           Cleared == /\ left = 0 => new = 0 /\ expiries'[Othr][OwedMarket] = 0
                      /\ expiries'[Othr][OwedMarket] = 0 => new = 0
<1>1. ASSUME Inductive, Authorized, Due, Answered, QuotedTrade, Top.call.wei # 0
      PROVE  Cleared
  BY <1>1, QuotedTradeSettles
<1>2. Inductive /\ Authorized /\ Due /\ Answered
        => [QuotedTrade /\ Top.call.wei # 0 => Cleared]_expiryVars
  BY <1>1
<1> QED
  BY <1>2, ExpiryImplementsOperation, InductiveInvariant, AuthorizedInvariant,
     DueInvariant, AnsweredInvariant, PTL DEF ExpirySpec, ExpiryClearedWithDebt

-----------------------------------------------------------------------------
(* Adding a value at the end of the array keeps it in step with the map.   *)
LEMMA AddKeepsAgreement ==
  ASSUME SetInductive, NEW value \in Values, Add(value)
  PROVE  SetInductive'
<1>1. CASE Contains(value)
  BY <1>1 DEF SetInductive, SetTypeOK, ArrayAndMapAgree, Add, Contains
<1>2. CASE ~Contains(value)
  <2>1. /\ values' = Append(values, value)
        /\ valueToIndexMap' = [valueToIndexMap EXCEPT ![value] = Len(values')]
        /\ changed' = TRUE
    BY <1>2 DEF Add
  <2>2. /\ values' \in Seq(Values)
        /\ Len(values') = Len(values) + 1
        /\ \A i \in 1..Len(values) : values'[i] = values[i]
        /\ values'[Len(values) + 1] = value
    BY <2>1 DEF SetInductive, SetTypeOK
  <2>3. SetTypeOK'
    BY <2>1, <2>2 DEF SetInductive, SetTypeOK
  <2>4. \A i \in 1..Len(values) : values[i] \in Values /\ values[i] # value
    BY <1>2 DEF SetInductive, SetTypeOK, ArrayAndMapAgree, Contains
  <2>5. /\ valueToIndexMap'[value] = Len(values) + 1
        /\ \A v \in Values \ {value} :
             valueToIndexMap'[v] = valueToIndexMap[v]
        /\ Len(values) \in Nat
    BY <2>1, <2>2 DEF SetInductive, SetTypeOK
  <2>6. \A i \in 1..Len(values') : valueToIndexMap'[values'[i]] = i
    <3>1. \A i \in 1..Len(values) : valueToIndexMap[values[i]] = i
      BY DEF SetInductive, ArrayAndMapAgree
    <3>. QED  BY <2>2, <2>4, <2>5, <3>1
  <2>7. ASSUME NEW v \in Values, valueToIndexMap'[v] # 0
        PROVE  /\ valueToIndexMap'[v] <= Len(values')
               /\ values'[valueToIndexMap'[v]] = v
    <3>1. CASE v = value
      BY <2>2, <2>5, <3>1
    <3>2. CASE v # value
      <4>1. /\ valueToIndexMap[v] # 0
            /\ valueToIndexMap'[v] = valueToIndexMap[v]
        BY <2>5, <2>7, <3>2
      <4>2. /\ valueToIndexMap[v] \in 1..Len(values)
            /\ values[valueToIndexMap[v]] = v
        BY <4>1 DEF SetInductive, SetTypeOK, ArrayAndMapAgree, Contains
      <4>. QED  BY <2>2, <2>5, <4>1, <4>2
    <3>. QED  BY <3>1, <3>2
  <2>. QED  BY <2>3, <2>6, <2>7 DEF SetInductive, ArrayAndMapAgree, Contains
<1>. QED  BY <1>1, <1>2

(* Removing a value keeps them in step, whether it is the last of the      *)
(* array or the last has to move.                                          *)
LEMMA RemoveKeepsAgreement ==
  ASSUME SetInductive, NEW value \in Values, Remove(value)
  PROVE  SetInductive'
<1>1. CASE ~Contains(value)
  BY <1>1 DEF SetInductive, SetTypeOK, ArrayAndMapAgree, Remove, Contains
<1>2. CASE Contains(value)
  <2>. DEFINE n == Len(values)
              p == valueToIndexMap[value]
  <2>1. /\ n \in Nat /\ p \in 1..n
        /\ values[p] = value
        /\ LastValue \in Values
        /\ valueToIndexMap[LastValue] = n
    BY <1>2 DEF SetInductive, SetTypeOK, ArrayAndMapAgree, Contains, LastValue
  <2>2. /\ values' = SubSeq([values EXCEPT ![p] = LastValue], 1, n - 1)
        /\ valueToIndexMap' = [valueToIndexMap EXCEPT ![LastValue] = p,
                                                      ![value] = 0]
        /\ changed' = TRUE
    <3>1. Len([values EXCEPT ![p] = LastValue]) = n
      BY <2>1 DEF SetInductive, SetTypeOK
    <3>. QED  BY <1>2, <3>1
           DEF Remove, ValuesAfterRemoval, IndexesAfterRemoval, Popped
  <2>3. /\ values' \in Seq(Values)
        /\ Len(values') = n - 1
        /\ \A i \in 1..(n - 1) :
             values'[i] = IF i = p THEN LastValue ELSE values[i]
    BY <2>1, <2>2 DEF SetInductive, SetTypeOK
  <2>4. /\ valueToIndexMap' \in [Values -> Nat]
        /\ \A v \in Values :
             valueToIndexMap'[v] = IF v = value THEN 0
                                   ELSE IF v = LastValue THEN p
                                   ELSE valueToIndexMap[v]
    BY <2>1, <2>2 DEF SetInductive, SetTypeOK
  <2>5. SetTypeOK'
    BY <2>2, <2>3, <2>4 DEF SetTypeOK
  <2>6. \A i \in 1..n : valueToIndexMap[values[i]] = i /\ values[i] \in Values
    BY DEF SetInductive, SetTypeOK, ArrayAndMapAgree
  <2>7. \A v \in Values : valueToIndexMap[v] # 0 =>
           /\ valueToIndexMap[v] \in 1..n
           /\ values[valueToIndexMap[v]] = v
    BY DEF SetInductive, SetTypeOK, ArrayAndMapAgree, Contains
  <2>8. LastValue = values[n]
    BY DEF LastValue
  <2>. HIDE DEF n, p
  <2>9. \A i \in 1..Len(values') : valueToIndexMap'[values'[i]] = i
    BY <2>1, <2>3, <2>4, <2>6, <2>8
  <2>10. ASSUME NEW v \in Values, valueToIndexMap'[v] # 0
         PROVE  /\ valueToIndexMap'[v] <= Len(values')
                /\ values'[valueToIndexMap'[v]] = v
    BY <2>1, <2>3, <2>4, <2>7, <2>8, <2>10
  <2>11. ArrayAndMapAgree'
    BY <2>9, <2>10 DEF ArrayAndMapAgree, Contains
  <2>. QED  BY <2>5, <2>11 DEF SetInductive
<1>. QED  BY <1>1, <1>2

(* SetInductive is an invariant: after any sequence of additions and removals *)
(* the array lists each value that the map finds, once.                    *)
THEOREM ArrayFollowsMap == SetSpec => []SetInductive
<1>1. SetInit => SetInductive
  <2>. SUFFICES ASSUME SetInit PROVE SetInductive
    OBVIOUS
  <2>1. SetTypeOK
    <3>1. values \in Seq(Values)
      BY DEF SetInit
    <3>2. valueToIndexMap \in [Values -> Nat]
      BY DEF SetInit
    <3>. QED  BY <3>1, <3>2 DEF SetInit, SetTypeOK
  <2>2. Len(values) = 0 /\ \A value \in Values : valueToIndexMap[value] = 0
    BY DEF SetInit
  <2>. QED  BY <2>1, <2>2 DEF SetInductive, ArrayAndMapAgree, Contains
<1>2. SetInductive /\ [SetNext]_setVars => SetInductive'
  <2>. SUFFICES ASSUME SetInductive, [SetNext]_setVars
                PROVE  SetInductive'
    OBVIOUS
  <2>1. CASE UNCHANGED setVars
    BY <2>1 DEF setVars, SetInductive, SetTypeOK, ArrayAndMapAgree, Contains
  <2>2. CASE SetNext
    BY <2>2, AddKeepsAgreement, RemoveKeepsAgreement DEF SetNext
  <2>. QED  BY <2>1, <2>2
<1>. QED  BY <1>1, <1>2, PTL DEF SetSpec

(* The calls of EnumerableSet are additions to a set and removals from it, *)
(* and answer whether they changed it: Storage may take it for the set it  *)
(* names.                                                                  *)
THEOREM EnumerableSetIsASet == SetSpec => ImplementsSet
<1>. DEFINE members == {v \in Values : Contains(v)}
<1>1. SetInit => AsSet!Init
  BY DEF SetInit, AsSet!Init, Contains
<1>2. ASSUME SetInductive, [SetNext]_setVars
      PROVE  [AsSet!Next]_<<members, changed>>
  <2>1. CASE UNCHANGED setVars
    BY <2>1 DEF setVars, Contains
  <2>2. ASSUME NEW value \in Values, Add(value)
        PROVE  AsSet!Add(value)
    <3>1. CASE Contains(value)
      BY <2>2, <3>1 DEF Add, AsSet!Add, Contains
    <3>2. CASE ~Contains(value)
      <4>1. Len(values') # 0 /\ changed' = TRUE
        BY <1>2, <2>2, <3>2 DEF Add, SetInductive, SetTypeOK
      <4>2. \A v \in Values : Contains(v)' <=> (Contains(v) \/ v = value)
        BY <1>2, <2>2, <3>2, <4>1 DEF Add, Contains, SetInductive, SetTypeOK
      <4>. QED  BY <3>2, <4>1, <4>2 DEF AsSet!Add
    <3>. QED  BY <3>1, <3>2
  <2>3. ASSUME NEW value \in Values, Remove(value)
        PROVE  AsSet!Remove(value)
    <3>1. CASE ~Contains(value)
      <4>1. changed' = FALSE /\ UNCHANGED <<values, valueToIndexMap>>
        BY <2>3, <3>1 DEF Remove
      <4>2. \A v \in Values : Contains(v)' <=> (Contains(v) /\ v # value)
        BY <3>1, <4>1 DEF Contains
      <4>3. members' = members \ {value}
        BY <4>2
      <4>4. (value \in members) = FALSE
        BY <3>1
      <4>. QED  BY <4>1, <4>3, <4>4 DEF AsSet!Remove
    <3>2. CASE Contains(value)
      <4>1. /\ changed' = TRUE
            /\ LastValue \in Values /\ Contains(LastValue)
            /\ valueToIndexMap' = [valueToIndexMap EXCEPT
                                     ![LastValue] = valueToIndexMap[value],
                                     ![value] = 0]
        <5>1. Len(values) # 0
          BY <1>2, <3>2 DEF SetInductive, SetTypeOK, ArrayAndMapAgree, Contains
        <5>2. LastValue \in Values /\ Contains(LastValue)
          BY <1>2, <5>1
            DEF LastValue, SetInductive, SetTypeOK, ArrayAndMapAgree, Contains
        <5>. QED  BY <2>3, <3>2, <5>2 DEF Remove, IndexesAfterRemoval
      <4>2. \A v \in Values : Contains(v)' <=> (Contains(v) /\ v # value)
        BY <1>2, <3>2, <4>1 DEF Contains, SetInductive, SetTypeOK
      <4>. QED  BY <3>2, <4>1, <4>2 DEF AsSet!Remove
    <3>. QED  BY <3>1, <3>2
  <2>. QED  BY <1>2, <2>1, <2>2, <2>3 DEF SetNext, AsSet!Next
<1>. QED  BY <1>1, <1>2, ArrayFollowsMap, PTL DEF SetSpec, ImplementsSet, AsSet!Spec
=============================================================================
