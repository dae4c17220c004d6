-------------------------- MODULE MCEnumerableSet --------------------------
(***************************************************************************)
(* A small instance of EnumerableSet for TLC: every array of up to five    *)
(* market ids.                                                             *)
(***************************************************************************)
EXTENDS EnumerableSet

FiveMarkets == 1..5
=============================================================================
