--------------------------- MODULE DelayedMultiSig ---------------------------
(***************************************************************************)
(* external/multisig/DelayedMultiSig.sol: a wallet whose transactions wait *)
(* for a time lock once they are confirmed, and                            *)
(* PartiallyDelayedMultiSig.sol, which exempts some functions from it. (A  *)
(* DelayedMultiSig is one that exempts none.) As in the code they are      *)
(* MultiSigs, of which they keep the owners and override the rest.         *)
(***************************************************************************)
EXTENDS MultiSig

CONSTANTS
  InitialTimeLock,
  InitialInstantData,   (* (destination, selector) pairs that need not wait *)
  NoSelector,           (* data too short for one                          *)
  MaxTime               (* bound: the last time stamp                      *)

ASSUME DelayAssumption ==
  /\ InitialTimeLock \in Nat
  /\ MaxTime \in Nat
  /\ \A call \in Calls :
       /\ call.destination = Wallet /\ call.selector = "changeTimeLock" =>
            call.secondsTimeLocked \in Nat

VARIABLE now   (* the block time stamp                                     *)

delayedVars == <<wallet, frames, now>>

-----------------------------------------------------------------------------
(* To the storage and the history of MultiSig the wallet adds its own; the *)
(* last two fields are history: since when a transaction has had the       *)
(* confirmations it needs, and the transactions that a confirmation, and   *)
(* not a change of the owners or the requirement, brought there.           *)
DelayedInit ==
  /\ wallet =
       [owners            |-> InitialOwners,
        isOwner           |-> {InitialOwners[i] : i \in 1..Len(InitialOwners)},
        required          |-> InitialRequired,
        calls             |-> [id \in TransactionIds |-> NoCall],
        transactionCount  |-> 0,
        confirmations     |-> [id \in TransactionIds |-> {}],
        executed          |-> {},
        runs              |-> [id \in TransactionIds |-> 0],
        quorate           |-> {},
        secondsTimeLocked |-> InitialTimeLock,
        confirmationTimes |-> [id \in TransactionIds |-> 0],
        instantData       |-> InitialInstantData,
        passedAt          |-> [id \in TransactionIds |-> 0],
        passedByVote      |-> {}]
  /\ frames = <<>>
  /\ now = 0

-----------------------------------------------------------------------------
(* The time lock.                                                          *)

(* Mutant: the time lock counts from the first time the transaction        *)
(* passed.                                                                 *)
MutantConfirmationTimes(w, id) ==
  IF IsConfirmed(w, id) /\ w.confirmationTimes[id] = 0
  THEN [w.confirmationTimes EXCEPT ![id] = now]
  ELSE w.confirmationTimes

ConfirmationTimes(w, id) ==
  IF IsConfirmed(w, id) THEN [w.confirmationTimes EXCEPT ![id] = now]
                        ELSE w.confirmationTimes

(* txCanBeExecutedInstantly: the selector may be exempt for one            *)
(* destination or for all.                                                 *)
Instant(w, call) ==
  /\ call.selector # NoSelector
  /\ \/ <<call.destination, call.selector>> \in w.instantData
     \/ <<AddressZero, call.selector>> \in w.instantData

LockPassed(w, id) == now >= w.confirmationTimes[id] + w.secondsTimeLocked

ChangeTimeLock(w, seconds) == [w EXCEPT !.secondsTimeLocked = seconds]

SetSelector(w, selector, approved) ==
  [w EXCEPT !.instantData = IF approved THEN @ \cup {selector}
                                        ELSE @ \ {selector}]

(* History: what a wallet that becomes w by this step remembers of when    *)
(* its transactions passed. voted are those a confirmation was just given  *)
(* to.                                                                     *)
Remembering(w, voted) ==
  LET passed == {id \in TransactionIds : IsConfirmed(w, id)}
      before == {id \in TransactionIds : IsConfirmed(wallet, id)}
  IN  [w EXCEPT
         !.passedAt = [id \in TransactionIds |->
                         IF id \notin passed THEN 0
                         ELSE IF id \in before THEN wallet.passedAt[id]
                         ELSE now],
         !.passedByVote = passed \cap (wallet.passedByVote \cup voted)]

(* What a call of one of the wallet's own functions can leave.             *)
AfterCall(w, call) ==
  {Remembering(v, {}) :
     v \in CASE call.selector = "changeTimeLock" ->
                  {ChangeTimeLock(w, call.secondsTimeLocked)}
             [] call.selector = "setSelector" ->
                  {SetSelector(w, call.exempt, call.approved)}
             [] OTHER -> AfterOwnerCall(w, call)}

-----------------------------------------------------------------------------
(* confirmTransaction of wallet w; a transaction that has enough           *)
(* confirmations gets no more, and is not executed.                        *)
DelayedConfirm(w, owner, id) ==
  LET confirmed == Confirmed(w, owner, id)
  IN
  /\ MayConfirm(w, owner, id)
  /\ ~IsConfirmed(w, id)
  /\ wallet' = Remembering([confirmed EXCEPT
                              !.confirmationTimes =
                                ConfirmationTimes(confirmed, id)], {id})
  /\ UNCHANGED <<frames, now>>

DelayedConfirmTransaction(owner, id) == DelayedConfirm(wallet, owner, id)

DelayedSubmitTransaction(owner, call) ==
  /\ MayAddTransaction(wallet, call)
  /\ DelayedConfirm(AddTransaction(wallet, call), owner, wallet.transactionCount)

DelayedRevokeConfirmation(owner, id) ==
  /\ MayRevoke(wallet, owner, id)
  /\ wallet' = Remembering(Revoked(wallet, owner, id), {})
  /\ UNCHANGED <<frames, now>>

Executable(w, id) ==
  /\ id \notin w.executed
  /\ IsConfirmed(w, id)
  /\ LockPassed(w, id) \/ Instant(w, w.calls[id])

(* executeTransaction reverts if the call fails.                           *)
(* executeMultipleTransactions is a number of these steps, or none of      *)
(* them.                                                                   *)
DelayedExecuteTransaction(owner, id) ==
  /\ owner \in wallet.isOwner
  /\ Executable(wallet, id)
  /\ ExternalCall(wallet, id, AfterCall(Running(wallet, id), wallet.calls[id]))
  /\ UNCHANGED now

(* No time passes within a transaction of the chain.                       *)
Tick ==
  /\ frames = <<>>
  /\ now < MaxTime
  /\ now' = now + 1
  /\ UNCHANGED <<wallet, frames>>

DelayedNext ==
  \/ \E owner \in Addresses :
       \/ \E call \in Calls : DelayedSubmitTransaction(owner, call)
       \/ \E id \in TransactionIds :
            \/ DelayedConfirmTransaction(owner, id)
            \/ DelayedRevokeConfirmation(owner, id)
            \/ DelayedExecuteTransaction(owner, id)
  \/ Return /\ UNCHANGED now
  \/ Tick

DelayedSpec == DelayedInit /\ [][DelayedNext]_delayedVars

-----------------------------------------------------------------------------
(* A transaction that enough owners confirmed, and that is not exempt, is  *)
(* executed only after it has been confirmed, without a break, for as long *)
(* as the time lock is then: revoking and confirming again starts the wait *)
(* again, and no re-entrance or change of the owners shortens it.          *)
LockServed ==
  [][\A id \in wallet'.executed \ wallet.executed :
       id \in wallet.passedByVote =>
         \/ now >= wallet.passedAt[id] + wallet.secondsTimeLocked
         \/ Instant(wallet, wallet.calls[id])]_delayedVars

-----------------------------------------------------------------------------
(* The storage of the wallet with its history: that of a MultiSig, and the *)
(* time lock.                                                              *)
Selectors ==
  InitialInstantData \cup
    {call.exempt :
       call \in {c \in Calls : /\ c.destination = Wallet
                               /\ c.selector = "setSelector"}}

DelayedWallets ==
  [owners            : Seq(Addresses),
   isOwner           : SUBSET Addresses,
   required          : Nat,
   calls             : [TransactionIds -> Calls \cup {NoCall}],
   transactionCount  : 0..MaxTransactions,
   confirmations     : [TransactionIds -> SUBSET Addresses],
   executed          : SUBSET TransactionIds,
   runs              : [TransactionIds -> Nat],
   quorate           : SUBSET TransactionIds,
   secondsTimeLocked : Nat,
   confirmationTimes : [TransactionIds -> Nat],
   instantData       : SUBSET Selectors,
   passedAt          : [TransactionIds -> Nat],
   passedByVote      : SUBSET TransactionIds]

(* A transaction that a confirmation brought the quorum still has it, and  *)
(* the time lock counts from no earlier moment.                            *)
TimesKept(w) ==
  \A id \in w.passedByVote :
    IsConfirmed(w, id) /\ w.passedAt[id] <= w.confirmationTimes[id]

DelayedSound(w) == Sound(w) /\ TimesKept(w)

(* What a failure of the i-th call may bring back has executed no more     *)
(* than w.                                                                 *)
NoLater(i, w) ==
  /\ frames[i].saved.executed \subseteq w.executed
  /\ frames[i].entry.executed \subseteq w.executed

(* The inductive invariant: as for a MultiSig, and a failure takes back    *)
(* what was executed since the call, and executes nothing.                 *)
DelayedInductive ==
  /\ wallet \in DelayedWallets
  /\ frames \in Seq([saved : DelayedWallets, entry : DelayedWallets])
  /\ now \in Nat
  /\ DelayedSound(wallet)
  /\ \A i \in 1..Len(frames) :
       /\ DelayedSound(frames[i].saved) /\ DelayedSound(frames[i].entry)
       /\ NoLater(i, wallet)
  /\ \A j \in 1..Len(frames), i \in 1..Len(frames) :
       i < j => NoLater(i, frames[j].saved) /\ NoLater(i, frames[j].entry)
=============================================================================
