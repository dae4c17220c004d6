--------------------------- MODULE MultiSigWallet ---------------------------
(***************************************************************************)
(* What the wallets in external/multisig have in common: the owners, who   *)
(* vote for transactions, the functions that change the owners, which only *)
(* a transaction of the wallet itself may call, and the call that executes *)
(* a transaction. That call may run any code, which may be an owner's and  *)
(* use the wallet before it returns: frames are the calls that have not    *)
(* returned.                                                               *)
(***************************************************************************)
EXTENDS Integers, Sequences, FiniteSets

CONSTANTS
  Addresses,      (* who may be an owner                                   *)
  AddressZero,
  Wallet,         (* the address of the wallet                             *)
  Calls,          (* what may be submitted: destination, selector, data    *)
  MaxOwnerCount   (* MAX_OWNER_COUNT                                       *)

(* Bounds.                                                                 *)
CONSTANTS
  MaxTransactions,
  MaxDepth        (* of calls in calls                                     *)

VARIABLES
  wallet,   (* the storage of the wallet                                   *)
  frames    (* wallets to return to if the call fails, innermost last      *)

(* A transaction that was not submitted has destination zero.              *)
NoCall == [destination |-> AddressZero]

TransactionIds == 0..(MaxTransactions - 1)

(* The wallet's own functions, by their selectors.                         *)
OwnerCalls ==
  [destination : {Wallet}, selector : {"addOwner", "removeOwner"},
   owner : Addresses \cup {AddressZero}]
    \cup
  [destination : {Wallet}, selector : {"replaceOwner"},
   owner : Addresses, newOwner : Addresses \cup {AddressZero}]
    \cup
  [destination : {Wallet}, selector : {"changeRequirement"}, required : Nat]

ASSUME WalletAssumption ==
  /\ IsFiniteSet(Addresses)
  /\ AddressZero \notin Addresses
  /\ Wallet # AddressZero
  /\ MaxOwnerCount \in Nat
  /\ MaxTransactions \in Nat
  /\ MaxDepth \in Nat
  /\ \A call \in Calls :
       call.destination = Wallet
         /\ call.selector \in {"addOwner", "removeOwner", "replaceOwner",
                               "changeRequirement"}
         => call \in OwnerCalls

-----------------------------------------------------------------------------
(* The owners.                                                             *)

ValidRequirement(ownerCount, required) ==
  /\ ownerCount <= MaxOwnerCount
  /\ required <= ownerCount
  /\ required # 0
  /\ ownerCount # 0

MayAddOwner(w, owner) ==
  /\ owner \notin w.isOwner
  /\ owner # AddressZero
  /\ ValidRequirement(Len(w.owners) + 1, w.required)

AddOwner(w, owner) ==
  [w EXCEPT !.isOwner = @ \cup {owner}, !.owners = Append(@, owner)]

Position(w, owner) ==
  CHOOSE i \in 1..Len(w.owners) :
    /\ w.owners[i] = owner
    /\ \A j \in 1..(i - 1) : w.owners[j] # owner

(* The requirement may not stay above the number of owners, and there must *)
(* be one left.                                                            *)
MayRemoveOwner(w, owner) ==
  /\ owner \in w.isOwner
  /\ w.required > Len(w.owners) - 1 =>
       ValidRequirement(Len(w.owners) - 1, Len(w.owners) - 1)

(* Mutant: the last of the array is dropped, whoever is removed.           *)
MutantOwnersWithout(w, owner) == SubSeq(w.owners, 1, Len(w.owners) - 1)

(* The last of the array takes the removed one's place.                    *)
OwnersWithout(w, owner) ==
  SubSeq([w.owners EXCEPT ![Position(w, owner)] = w.owners[Len(w.owners)]],
         1, Len(w.owners) - 1)

RemoveOwner(w, owner) ==
  [w EXCEPT !.isOwner = @ \ {owner},
            !.owners = OwnersWithout(w, owner),
            !.required = IF @ > Len(w.owners) - 1 THEN Len(w.owners) - 1
                                                  ELSE @]

MayReplaceOwner(w, owner, newOwner) ==
  /\ owner \in w.isOwner
  /\ newOwner \notin w.isOwner
  /\ newOwner # AddressZero

ReplaceOwner(w, owner, newOwner) ==
  [w EXCEPT !.isOwner = (@ \ {owner}) \cup {newOwner},
            !.owners[Position(w, owner)] = newOwner]

MayChangeRequirement(w, required) == ValidRequirement(Len(w.owners), required)

ChangeRequirement(w, required) == [w EXCEPT !.required = required]

Provided(condition, result) == IF condition THEN {result} ELSE {}

(* What a call of one of these functions can leave: nothing if a condition *)
(* fails.                                                                  *)
AfterOwnerCall(w, call) ==
  CASE call.selector = "addOwner" ->
         Provided(MayAddOwner(w, call.owner), AddOwner(w, call.owner))
    [] call.selector = "removeOwner" ->
         Provided(MayRemoveOwner(w, call.owner), RemoveOwner(w, call.owner))
    [] call.selector = "replaceOwner" ->
         Provided(MayReplaceOwner(w, call.owner, call.newOwner),
                  ReplaceOwner(w, call.owner, call.newOwner))
    [] call.selector = "changeRequirement" ->
         Provided(MayChangeRequirement(w, call.required),
                  ChangeRequirement(w, call.required))
    [] OTHER -> {w}   \* a getter

-----------------------------------------------------------------------------
(* Transactions.                                                           *)

(* The storage of MultiSig when it is deployed. The last two fields are    *)
(* history: how often the call of each transaction was made and not        *)
(* undone, and the transactions that had the confirmations they need when  *)
(* it was.                                                                 *)
InitialWallet(initialOwners, required) ==
  [owners           |-> initialOwners,
   isOwner          |-> {initialOwners[i] : i \in 1..Len(initialOwners)},
   required         |-> required,
   calls            |-> [id \in TransactionIds |-> NoCall],
   transactionCount |-> 0,
   confirmations    |-> [id \in TransactionIds |-> {}],
   executed         |-> {},
   runs             |-> [id \in TransactionIds |-> 0],
   quorate          |-> {}]

MayAddTransaction(w, call) ==
  /\ w.transactionCount < MaxTransactions
  /\ call.destination # AddressZero

AddTransaction(w, call) ==
  [w EXCEPT !.calls[w.transactionCount] = call,
            !.transactionCount = @ + 1]

(* Mutant: confirmations of former owners count.                           *)
MutantIsConfirmed(w, id) == Cardinality(w.confirmations[id]) >= w.required

(* The confirmations are counted along the array, those of owners only,    *)
(* until there are as many as required.                                    *)
IsConfirmed(w, id) ==
  \E n \in 1..Len(w.owners) :
    Cardinality({i \in 1..n : w.owners[i] \in w.confirmations[id]})
      = w.required

MayConfirm(w, owner, id) ==
  /\ owner \in w.isOwner
  /\ w.calls[id].destination # AddressZero
  /\ owner \notin w.confirmations[id]

Confirmed(w, owner, id) ==
  [w EXCEPT !.confirmations[id] = @ \cup {owner}]

MayRevoke(w, owner, id) ==
  /\ owner \in w.isOwner
  /\ owner \in w.confirmations[id]
  /\ id \notin w.executed

Revoked(w, owner, id) ==
  [w EXCEPT !.confirmations[id] = @ \ {owner}]

HasQuorum(w, id) == Cardinality(w.isOwner \cap w.confirmations[id]) >= w.required

(* Mutant: executed is not set before the call.                            *)
MutantRunning(w, id) == [w EXCEPT !.runs[id] = @ + 1]

(* The transaction is marked as executed before its call is made.          *)
Running(w, id) ==
  [w EXCEPT !.executed = @ \cup {id},
            !.runs[id] = @ + 1,
            !.quorate = IF HasQuorum(w, id) THEN @ \cup {id} ELSE @]

(* The wallets that can be found when a call to another contract has       *)
(* failed: as before the call, or, if the error it returns cannot be       *)
(* decoded, as before the function that made it.                           *)
AfterFailure == {frames[Len(frames)].saved, frames[Len(frames)].entry}

(* _externalCall on a transaction of w, in a function that began with the  *)
(* wallet as it is. A call of the wallet itself leaves one of own.         *)
(* Whatever is called may fail, if only because it gets too little gas.    *)
ExternalCall(w, id, own) ==
  \/ /\ w.calls[id].destination = Wallet
     /\ wallet' \in own
     /\ UNCHANGED frames
  \/ /\ w.calls[id].destination # Wallet
     /\ Len(frames) < MaxDepth
     /\ wallet' = Running(w, id)
     /\ frames' = Append(frames, [saved |-> w, entry |-> wallet])

(* A call to another contract returns.                                     *)
Return ==
  /\ frames # <<>>
  /\ wallet' \in {wallet} \cup AfterFailure
  /\ frames' = SubSeq(frames, 1, Len(frames) - 1)

-----------------------------------------------------------------------------
(* The storage of MultiSig, with its history.                              *)
Wallets ==
  [owners           : Seq(Addresses),
   isOwner          : SUBSET Addresses,
   required         : Nat,
   calls            : [TransactionIds -> Calls \cup {NoCall}],
   transactionCount : 0..MaxTransactions,
   confirmations    : [TransactionIds -> SUBSET Addresses],
   executed         : SUBSET TransactionIds,
   runs             : [TransactionIds -> Nat],
   quorate          : SUBSET TransactionIds]

(* The array lists the owners, each once, and enough of them.              *)
OwnersMatch(w) ==
  /\ \A i \in 1..Len(w.owners) : w.owners[i] \in w.isOwner
  /\ \A owner \in w.isOwner : \E i \in 1..Len(w.owners) : w.owners[i] = owner
  /\ \A i, j \in 1..Len(w.owners) : w.owners[i] = w.owners[j] => i = j
  /\ ValidRequirement(Len(w.owners), w.required)
=============================================================================
