-------------------------- MODULE MCDelayedMultiSig --------------------------
(***************************************************************************)
(* A small instance of DelayedMultiSig for TLC: a payment, and             *)
(* transactions that change what it waits for.                             *)
(***************************************************************************)
EXTENDS DelayedMultiSig

Payment == [destination |-> "payee", selector |-> "pay"]
ShortData == [destination |-> "payee", selector |-> NoSelector]
Requirement(required) ==
  [destination |-> Wallet, selector |-> "changeRequirement",
   required |-> required]
Replacement(owner, newOwner) ==
  [destination |-> Wallet, selector |-> "replaceOwner",
   owner |-> owner, newOwner |-> newOwner]
Addition(owner) ==
  [destination |-> Wallet, selector |-> "addOwner", owner |-> owner]
TimeLock(seconds) ==
  [destination |-> Wallet, selector |-> "changeTimeLock",
   secondsTimeLocked |-> seconds]
Exemption(destination, approved) ==
  [destination |-> Wallet, selector |-> "setSelector",
   exempt |-> <<destination, "pay">>, approved |-> approved]

TwoOwners == <<"ann", "bob">>
InstantReplacement == {<<Wallet, "replaceOwner">>}
Menu ==
  {Payment, ShortData, Requirement(1), Replacement("ann", "cat"), TimeLock(1),
   Addition(AddressZero),
   Exemption(AddressZero, TRUE), Exemption("payee", FALSE)}
FirstMenu == {Payment, Requirement(1)}
=============================================================================
