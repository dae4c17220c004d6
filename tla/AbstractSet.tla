---------------------------- MODULE AbstractSet ----------------------------
(***************************************************************************)
(* What protocol/lib/EnumerableSet.sol promises to Storage, which keeps    *)
(* the markets of every account in one: a set of values that can be added  *)
(* and removed in any order, and an answer that says whether that changed  *)
(* it.                                                                     *)
(***************************************************************************)
CONSTANT Values

VARIABLES
  members,
  changed     (* what the last call returned                              *)

Init ==
  /\ members = {}
  /\ changed = FALSE

Add(value) ==
  /\ members' = members \cup {value}
  /\ changed' = (value \notin members)

Remove(value) ==
  /\ members' = members \ {value}
  /\ changed' = (value \in members)

Next == \E value \in Values : Add(value) \/ Remove(value)

Spec == Init /\ [][Next]_<<members, changed>>
=============================================================================
