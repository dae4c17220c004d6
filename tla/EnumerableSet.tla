--------------------------- MODULE EnumerableSet ---------------------------
(***************************************************************************)
(* protocol/lib/EnumerableSet.sol: a set of values kept as an array, so    *)
(* that it can be gone through, and a map from each value to its position, *)
(* so that it can be searched. An account's marketsWithNonZeroBalanceSet   *)
(* is one.                                                                 *)
(***************************************************************************)
EXTENDS Naturals, Sequences

CONSTANT Values

VARIABLES
  values,            (* _values                                           *)
  valueToIndexMap,   (* _valueToIndexMap: position from 1, 0 if absent    *)
  changed            (* what the last call returned                       *)

setVars == <<values, valueToIndexMap, changed>>

-----------------------------------------------------------------------------
SetInit ==
  /\ values = <<>>
  /\ valueToIndexMap = [value \in Values |-> 0]
  /\ changed = FALSE

Contains(value) == valueToIndexMap[value] # 0

Add(value) ==
  IF Contains(value)
  THEN /\ changed' = FALSE
       /\ UNCHANGED <<values, valueToIndexMap>>
  ELSE /\ changed' = TRUE
       /\ values' = Append(values, value)
       /\ valueToIndexMap' = [valueToIndexMap EXCEPT ![value] = Len(values')]

LastValue == values[Len(values)]

Popped(seq) == SubSeq(seq, 1, Len(seq) - 1)

(* The last value takes the position of the removed one, if they differ;   *)
(* then the removed one has none.                                          *)
IndexesAfterRemoval(value) ==
  [valueToIndexMap EXCEPT ![LastValue] = valueToIndexMap[value],
                          ![value] = 0]

(* Mutant: the last value is popped without being moved.                   *)
MutantValuesAfterRemoval(value) == Popped(values)

ValuesAfterRemoval(value) ==
  Popped([values EXCEPT ![valueToIndexMap[value]] = LastValue])

Remove(value) ==
  IF ~Contains(value)
  THEN /\ changed' = FALSE
       /\ UNCHANGED <<values, valueToIndexMap>>
  ELSE /\ changed' = TRUE
       /\ values' = ValuesAfterRemoval(value)
       /\ valueToIndexMap' = IndexesAfterRemoval(value)

SetNext == \E value \in Values : Add(value) \/ Remove(value)

SetSpec == SetInit /\ [][SetNext]_setVars

-----------------------------------------------------------------------------
(* The type invariant.                                                     *)
SetTypeOK ==
  /\ values \in Seq(Values)
  /\ valueToIndexMap \in [Values -> Nat]
  /\ changed \in BOOLEAN

(* The array and the map agree: going through the array, as                *)
(* getMarketsWithBalances and the market cache do, meets every value that  *)
(* contains finds, and meets it once.                                      *)
ArrayAndMapAgree ==
  /\ \A i \in 1..Len(values) : valueToIndexMap[values[i]] = i
  /\ \A value \in Values :
       Contains(value) =>
         /\ valueToIndexMap[value] <= Len(values)
         /\ values[valueToIndexMap[value]] = value

(* The inductive invariant.                                                *)
SetInductive == SetTypeOK /\ ArrayAndMapAgree

(* What contains answers, as a set.                                        *)
AsSet == INSTANCE AbstractSet WITH members <- {v \in Values : Contains(v)}

(* The array and the map implement a set.                                  *)
ImplementsSet == AsSet!Spec
=============================================================================
