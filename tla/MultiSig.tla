------------------------------ MODULE MultiSig ------------------------------
(***************************************************************************)
(* external/multisig/MultiSig.sol: a wallet whose transactions are         *)
(* executed as soon as they have the confirmations they need, and as often *)
(* as it takes for their call to succeed, which it does once.              *)
(***************************************************************************)
EXTENDS MultiSigWallet

CONSTANTS InitialOwners, InitialRequired

ASSUME OwnersAssumption ==
  /\ InitialOwners \in Seq(Addresses)
  /\ \A i, j \in 1..Len(InitialOwners) :
       InitialOwners[i] = InitialOwners[j] => i = j
  /\ InitialRequired \in Nat
  /\ ValidRequirement(Len(InitialOwners), InitialRequired)

vars == <<wallet, frames>>

-----------------------------------------------------------------------------
Init ==
  /\ wallet = InitialWallet(InitialOwners, InitialRequired)
  /\ frames = <<>>

(* executeTransaction, called with wallet w by a function that began with  *)
(* the wallet as it is. If the call fails, the transaction can be executed *)
(* again.                                                                  *)
Execute(w, owner, id) ==
  /\ owner \in w.isOwner
  /\ owner \in w.confirmations[id]
  /\ id \notin w.executed
  /\ IF IsConfirmed(w, id)
     THEN \/ ExternalCall(w, id, AfterOwnerCall(Running(w, id), w.calls[id]))
          \/ wallet' = w /\ UNCHANGED frames
     ELSE wallet' = w /\ UNCHANGED frames

ExecuteTransaction(owner, id) == Execute(wallet, owner, id)

(* confirmTransaction, likewise.                                           *)
Confirm(w, owner, id) ==
  /\ MayConfirm(w, owner, id)
  /\ Execute(Confirmed(w, owner, id), owner, id)

ConfirmTransaction(owner, id) == Confirm(wallet, owner, id)

SubmitTransaction(owner, call) ==
  /\ MayAddTransaction(wallet, call)
  /\ Confirm(AddTransaction(wallet, call), owner, wallet.transactionCount)

RevokeConfirmation(owner, id) ==
  /\ MayRevoke(wallet, owner, id)
  /\ wallet' = Revoked(wallet, owner, id)
  /\ UNCHANGED frames

(* Anyone may call these functions, from outside or from a call that has   *)
(* not returned; they let only owners pass.                                *)
Next ==
  \/ \E owner \in Addresses :
       \/ \E call \in Calls : SubmitTransaction(owner, call)
       \/ \E id \in TransactionIds :
            \/ ConfirmTransaction(owner, id)
            \/ RevokeConfirmation(owner, id)
            \/ ExecuteTransaction(owner, id)
  \/ Return

Spec == Init /\ [][Next]_vars

-----------------------------------------------------------------------------
(* The type invariant.                                                     *)
TypeOK ==
  /\ wallet \in Wallets
  /\ frames \in Seq([saved : Wallets, entry : Wallets])

(* The array and the mapping name the same owners, each once, and the      *)
(* requirement can be met: no sequence of addOwner, removeOwner,           *)
(* replaceOwner and changeRequirement leaves a wallet whose owners cannot  *)
(* act or whose former owners still can.                                   *)
OwnersAgree == OwnersMatch(wallet)

(* No transaction's call is made twice, also when the called contract uses *)
(* the wallet before it returns, or fails and is called again: what a      *)
(* failed call did is undone.                                              *)
RunsOnce == \A id \in TransactionIds : wallet.runs[id] <= 1

(* Every executed transaction was, when it was called, confirmed by as     *)
(* many of the owners of that moment as were required, although            *)
(* executeTransaction counts along the array and goes on where             *)
(* confirmations of former owners are still recorded.                      *)
QuorumBehind == wallet.executed \subseteq wallet.quorate

-----------------------------------------------------------------------------
(* A wallet in which the three hold; a transaction whose call was made is  *)
(* marked as executed.                                                     *)
Sound(w) ==
  /\ OwnersMatch(w)
  /\ w.executed \subseteq w.quorate
  /\ \A id \in TransactionIds :
       w.runs[id] <= 1 /\ (w.runs[id] = 1 => id \in w.executed)

(* The inductive invariant: the wallet is sound, and so is every wallet    *)
(* that may come back when a call fails.                                   *)
Inductive ==
  /\ TypeOK
  /\ Sound(wallet)
  /\ \A i \in 1..Len(frames) : Sound(frames[i].saved) /\ Sound(frames[i].entry)
=============================================================================
