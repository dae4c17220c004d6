----------------------------- MODULE MCMultiSig -----------------------------
(***************************************************************************)
(* A small instance of MultiSig for TLC: two owners and a third who may    *)
(* become one, and transactions of every kind.                             *)
(***************************************************************************)
EXTENDS MultiSig

OwnerCall(selector, owner) ==
  [destination |-> Wallet, selector |-> selector, owner |-> owner]
Replacement(owner, newOwner) ==
  [destination |-> Wallet, selector |-> "replaceOwner",
   owner |-> owner, newOwner |-> newOwner]
Requirement(required) ==
  [destination |-> Wallet, selector |-> "changeRequirement",
   required |-> required]
Getter == [destination |-> Wallet, selector |-> "getOwners"]
Payment == [destination |-> "payee", selector |-> "pay"]

TwoOwners == <<"ann", "bob">>
Menu ==
  {OwnerCall("addOwner", "cat"), OwnerCall("addOwner", AddressZero),
   OwnerCall("removeOwner", "ann"),
   Replacement("ann", "cat"), Requirement(1), Getter, Payment}
=============================================================================
