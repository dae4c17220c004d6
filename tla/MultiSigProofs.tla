--------------------------- MODULE MultiSigProofs ---------------------------
(***************************************************************************)
(* The owners of a MultiSig always agree with its array, transactions run  *)
(* once and with a quorum behind them, for any owners, calls and bounds.   *)
(***************************************************************************)
EXTENDS DelayedMultiSig, FiniteSetTheorems, SequenceTheorems, TLAPS

-----------------------------------------------------------------------------
(* One wallet to the next.                                                 *)

(* What isConfirmed counts along the array are distinct owners.            *)
LEMMA ConfirmedHasQuorum ==
  ASSUME NEW w \in Wallets, OwnersMatch(w),
         NEW id \in TransactionIds, IsConfirmed(w, id)
  PROVE  HasQuorum(w, id)
<1>. DEFINE voters == w.isOwner \cap w.confirmations[id]
<1>1. PICK n \in 1..Len(w.owners) :
        Cardinality({i \in 1..n : w.owners[i] \in w.confirmations[id]})
          = w.required
  BY DEF IsConfirmed
<1>. DEFINE places == {i \in 1..n : w.owners[i] \in w.confirmations[id]}
            voter  == [i \in places |-> w.owners[i]]
<1>2. Len(w.owners) \in Nat /\ n \in 1..Len(w.owners)
  BY DEF Wallets
<1>3. IsFiniteSet(voters)
  BY FS_Subset, WalletAssumption DEF Wallets
<1>4. voter \in Injection(places, voters)
  <2>1. \A i \in places : w.owners[i] \in voters
    <3>1. \A i \in 1..Len(w.owners) : w.owners[i] \in w.isOwner
      BY DEF OwnersMatch
    <3>2. \A i \in places :
            /\ i \in 1..Len(w.owners)
            /\ w.owners[i] \in w.confirmations[id]
      BY <1>2
    <3>. QED  BY <3>1, <3>2
  <2>2. \A i, j \in places : w.owners[i] = w.owners[j] => i = j
    <3>1. \A i, j \in 1..Len(w.owners) : w.owners[i] = w.owners[j] => i = j
      BY DEF OwnersMatch
    <3>2. places \subseteq 1..Len(w.owners)
      BY <1>2
    <3>. QED  BY <3>1, <3>2
  <2>3. \A i, j \in places : voter[i] = voter[j] => i = j
    BY <2>2
  <2>. QED  BY <2>1, <2>3 DEF Injection, IsInjective
<1>5. Cardinality(places) <= Cardinality(voters)
  BY <1>3, <1>4, FS_Injection
<1>. QED  BY <1>1, <1>5 DEF HasQuorum

(* addOwner.                                                               *)
LEMMA AddOwnerMatches ==
  ASSUME NEW w \in Wallets, OwnersMatch(w), NEW owner \in Addresses \cup {AddressZero},
         MayAddOwner(w, owner)
  PROVE  /\ AddOwner(w, owner) \in Wallets
         /\ OwnersMatch(AddOwner(w, owner))
<1>. DEFINE n == Len(w.owners)
            owners == Append(w.owners, owner)
<1>1. owner \in Addresses /\ owner \notin w.isOwner
  BY DEF MayAddOwner
<1>2. /\ w.owners \in Seq(Addresses) /\ n \in Nat
      /\ owners \in Seq(Addresses) /\ Len(owners) = n + 1
      /\ owners[n + 1] = owner
      /\ \A i \in 1..n : owners[i] = w.owners[i]
  BY <1>1 DEF Wallets
<1>3. /\ AddOwner(w, owner).owners = owners
      /\ AddOwner(w, owner).isOwner = w.isOwner \cup {owner}
      /\ AddOwner(w, owner).required = w.required
      /\ AddOwner(w, owner) \in Wallets
  BY <1>1, <1>2 DEF AddOwner, Wallets
<1>4. /\ \A i \in 1..n : w.owners[i] \in w.isOwner
      /\ \A a \in w.isOwner : \E i \in 1..n : w.owners[i] = a
  BY DEF OwnersMatch
<1>. HIDE DEF n, owners
<1>5. /\ \A i \in 1..Len(owners) : owners[i] \in w.isOwner \cup {owner}
      /\ \A a \in w.isOwner \cup {owner} : \E i \in 1..Len(owners) : owners[i] = a
  BY <1>2, <1>4
<1>6. \A i, j \in 1..Len(owners) : owners[i] = owners[j] => i = j
  <2>1. \A i, j \in 1..n : w.owners[i] = w.owners[j] => i = j
    BY DEF OwnersMatch, n
  <2>. SUFFICES ASSUME NEW i \in 1..Len(owners), NEW j \in 1..Len(owners),
                       owners[i] = owners[j], i < j
                PROVE  FALSE
    BY <1>2
  <2>2. i \in 1..n /\ owners[i] = w.owners[i]
    BY <1>2
  <2>3. CASE j = n + 1
    BY <1>1, <1>2, <1>4, <2>2, <2>3
  <2>4. CASE j # n + 1
    <3>1. j \in 1..n /\ owners[j] = w.owners[j]
      BY <1>2, <2>4
    <3>2. i = j
      BY <2>1, <2>2, <3>1
    <3>. QED  BY <1>1, <2>2, <3>2
  <2>. QED  BY <2>3, <2>4
<1>7. ValidRequirement(Len(owners), w.required)
  BY <1>2 DEF MayAddOwner, n
<1>. QED  BY <1>3, <1>5, <1>6, <1>7 DEF OwnersMatch

(* An owner has one place in the array.                                    *)
LEMMA OwnerHasPosition ==
  ASSUME NEW w \in Wallets, OwnersMatch(w), NEW owner \in w.isOwner
  PROVE  /\ Position(w, owner) \in 1..Len(w.owners)
         /\ w.owners[Position(w, owner)] = owner
<1>1. PICK i \in 1..Len(w.owners) : w.owners[i] = owner
  BY DEF OwnersMatch
<1>2. \A j \in 1..(i - 1) : w.owners[j] # owner
  <2>1. \A j \in 1..(i - 1) : j \in 1..Len(w.owners) /\ j # i
    BY DEF Wallets
  <2>. QED  BY <1>1, <2>1 DEF OwnersMatch
<1>. QED  BY <1>1, <1>2 DEF Position

(* removeOwner: the last of the array fills the gap, and the requirement   *)
(* follows the number of owners down.                                      *)
LEMMA RemoveOwnerMatches ==
  ASSUME NEW w \in Wallets, OwnersMatch(w), NEW owner,
         MayRemoveOwner(w, owner)
  PROVE  /\ RemoveOwner(w, owner) \in Wallets
         /\ OwnersMatch(RemoveOwner(w, owner))
<1>. DEFINE n == Len(w.owners)
            p == Position(w, owner)
            moved == [w.owners EXCEPT ![p] = w.owners[n]]
            owners == SubSeq(moved, 1, n - 1)
            required == IF w.required > n - 1 THEN n - 1 ELSE w.required
<1>1. owner \in w.isOwner
  BY DEF MayRemoveOwner
<1>2. /\ w.owners \in Seq(Addresses) /\ n \in Nat \ {0}
      /\ p \in 1..n /\ w.owners[p] = owner
  BY <1>1, OwnerHasPosition DEF Wallets
<1>3. /\ moved \in Seq(Addresses) /\ Len(moved) = n
      /\ \A i \in 1..n : moved[i] = IF i = p THEN w.owners[n] ELSE w.owners[i]
  BY <1>2
<1>4. /\ owners \in Seq(Addresses) /\ Len(owners) = n - 1
      /\ \A i \in 1..(n - 1) : owners[i] = moved[i]
  BY <1>2, <1>3
<1>5. /\ RemoveOwner(w, owner).owners = owners
      /\ RemoveOwner(w, owner).isOwner = w.isOwner \ {owner}
      /\ RemoveOwner(w, owner).required = required
      /\ RemoveOwner(w, owner) \in Wallets
  <2>1. OwnersWithout(w, owner) = owners
    BY DEF OwnersWithout
  <2>2. required \in Nat
    BY <1>2 DEF Wallets
  <2>3. RemoveOwner(w, owner) = [w EXCEPT !.isOwner = w.isOwner \ {owner},
                                          !.owners = owners,
                                          !.required = required]
    BY <2>1 DEF RemoveOwner
  <2>4. owners \in Seq(Addresses) /\ w.isOwner \ {owner} \in SUBSET Addresses
    BY <1>4 DEF Wallets
  <2>. HIDE DEF n, p, moved, owners, required
  <2>. QED  BY <2>2, <2>3, <2>4 DEF Wallets
<1>6. \A i, j \in 1..n : w.owners[i] = w.owners[j] => i = j
  BY DEF OwnersMatch
<1>7. /\ \A i \in 1..n : w.owners[i] \in w.isOwner
      /\ \A a \in w.isOwner : \E i \in 1..n : w.owners[i] = a
  BY DEF OwnersMatch
<1>8. ValidRequirement(n - 1, required)
  <2>1. ValidRequirement(n, w.required)
    BY DEF OwnersMatch
  <2>2. w.required > n - 1 => ValidRequirement(n - 1, n - 1)
    BY DEF MayRemoveOwner
  <2>3. w.required \in Nat /\ MaxOwnerCount \in Nat
    BY WalletAssumption DEF Wallets
  <2>. HIDE DEF n
  <2>. QED  BY <1>2, <2>1, <2>2, <2>3 DEF ValidRequirement
<1>. HIDE DEF n, p, moved, owners, required
<1>9. \A i, j \in 1..Len(owners) : owners[i] = owners[j] => i = j
  BY <1>2, <1>3, <1>4, <1>6
<1>10. /\ \A i \in 1..Len(owners) : owners[i] \in w.isOwner \ {owner}
       /\ \A a \in w.isOwner \ {owner} : \E i \in 1..Len(owners) : owners[i] = a
  <2>1. ASSUME NEW i \in 1..Len(owners)
        PROVE  owners[i] \in w.isOwner \ {owner}
    <3>1. i \in 1..(n - 1) /\ i # n /\ i \in 1..n /\ n \in 1..n
      BY <1>2, <1>4
    <3>2. CASE i = p
      <4>1. owners[i] = w.owners[n]
        BY <1>3, <1>4, <3>1, <3>2
      <4>. QED  BY <1>2, <1>6, <1>7, <3>1, <3>2, <4>1
    <3>3. CASE i # p
      <4>1. owners[i] = w.owners[i]
        BY <1>3, <1>4, <3>1, <3>3
      <4>. QED  BY <1>2, <1>6, <1>7, <3>1, <3>3, <4>1
    <3>. QED  BY <3>2, <3>3
  <2>2. ASSUME NEW a \in w.isOwner \ {owner}
        PROVE  \E i \in 1..Len(owners) : owners[i] = a
    <3>1. PICK i \in 1..n : w.owners[i] = a
      BY <1>7
    <3>2. CASE i = n
      <4>1. p \in 1..(n - 1)
        BY <1>2, <3>1, <3>2
      <4>2. owners[p] = a
        BY <1>3, <1>4, <3>1, <3>2, <4>1
      <4>. QED  BY <1>4, <4>1, <4>2
    <3>3. CASE i # n
      <4>1. i \in 1..(n - 1) /\ i # p
        BY <1>2, <3>1, <3>3
      <4>2. owners[i] = a
        BY <1>3, <1>4, <3>1, <4>1
      <4>. QED  BY <1>4, <4>1, <4>2
    <3>. QED  BY <3>2, <3>3
  <2>. QED  BY <2>1, <2>2
<1>. QED  BY <1>4, <1>5, <1>8, <1>9, <1>10 DEF OwnersMatch

(* replaceOwner.                                                           *)
LEMMA ReplaceOwnerMatches ==
  ASSUME NEW w \in Wallets, OwnersMatch(w), NEW owner,
         NEW newOwner \in Addresses \cup {AddressZero},
         MayReplaceOwner(w, owner, newOwner)
  PROVE  /\ ReplaceOwner(w, owner, newOwner) \in Wallets
         /\ OwnersMatch(ReplaceOwner(w, owner, newOwner))
<1>. DEFINE n == Len(w.owners)
            p == Position(w, owner)
            owners == [w.owners EXCEPT ![p] = newOwner]
            isOwner == (w.isOwner \ {owner}) \cup {newOwner}
<1>1. owner \in w.isOwner /\ newOwner \in Addresses /\ newOwner \notin w.isOwner
  BY DEF MayReplaceOwner
<1>2. /\ w.owners \in Seq(Addresses) /\ n \in Nat
      /\ p \in 1..n /\ w.owners[p] = owner
  BY <1>1, OwnerHasPosition DEF Wallets
<1>3. /\ owners \in Seq(Addresses) /\ Len(owners) = n
      /\ \A i \in 1..n : owners[i] = IF i = p THEN newOwner ELSE w.owners[i]
  BY <1>1, <1>2
<1>4. /\ ReplaceOwner(w, owner, newOwner).owners = owners
      /\ ReplaceOwner(w, owner, newOwner).isOwner = isOwner
      /\ ReplaceOwner(w, owner, newOwner).required = w.required
      /\ ReplaceOwner(w, owner, newOwner) \in Wallets
  <2>1. ReplaceOwner(w, owner, newOwner) =
          [w EXCEPT !.isOwner = isOwner, !.owners = owners]
    BY DEF ReplaceOwner, Wallets
  <2>2. isOwner \in SUBSET Addresses
    BY <1>1 DEF Wallets
  <2>. HIDE DEF owners, isOwner
  <2>. QED  BY <1>3, <2>1, <2>2 DEF Wallets
<1>5. \A i, j \in 1..n : w.owners[i] = w.owners[j] => i = j
  BY DEF OwnersMatch
<1>6. /\ \A i \in 1..n : w.owners[i] \in w.isOwner
      /\ \A a \in w.isOwner : \E i \in 1..n : w.owners[i] = a
  BY DEF OwnersMatch
<1>7. ValidRequirement(n, w.required)
  BY DEF OwnersMatch
<1>. HIDE DEF n, p, owners
<1>8. \A i, j \in 1..n : owners[i] = owners[j] => i = j
  <2>1. \A i \in 1..n : w.owners[i] # newOwner
    BY <1>1, <1>6
  <2>2. ASSUME NEW i \in 1..n, NEW j \in 1..n, owners[i] = owners[j]
        PROVE  i = j
    <3>1. CASE i = p /\ j # p
      BY <1>3, <2>1, <2>2, <3>1
    <3>2. CASE i # p /\ j = p
      BY <1>3, <2>1, <2>2, <3>2
    <3>3. CASE i # p /\ j # p
      BY <1>3, <1>5, <2>2, <3>3
    <3>. QED  BY <3>1, <3>2, <3>3
  <2>. QED  BY <2>2
<1>9. /\ \A i \in 1..n : owners[i] \in isOwner
      /\ \A a \in isOwner : \E i \in 1..n : owners[i] = a
  <2>1. ASSUME NEW i \in 1..n PROVE owners[i] \in isOwner
    BY <1>2, <1>3, <1>5, <1>6
  <2>2. ASSUME NEW a \in isOwner PROVE \E i \in 1..n : owners[i] = a
    <3>1. CASE a = newOwner
      BY <1>2, <1>3, <3>1
    <3>2. CASE a # newOwner
      <4>1. a \in w.isOwner /\ a # owner
        BY <3>2
      <4>2. PICK i \in 1..n : w.owners[i] = a
        BY <1>6, <4>1
      <4>3. i # p
        BY <1>2, <4>1, <4>2
      <4>. QED  BY <1>3, <4>2, <4>3
    <3>. QED  BY <3>1, <3>2
  <2>. QED  BY <2>1, <2>2
<1>. QED  BY <1>3, <1>4, <1>7, <1>8, <1>9 DEF OwnersMatch

(* A call of the wallet's own functions changes the owners and the         *)
(* requirement and nothing else, and keeps them in step.                   *)
LEMMA OwnerCallMatches ==
  ASSUME NEW w \in Wallets, OwnersMatch(w), NEW call \in Calls,
         call.destination = Wallet, NEW v \in AfterOwnerCall(w, call)
  PROVE  /\ v \in Wallets
         /\ OwnersMatch(v)
         /\ v.executed = w.executed /\ v.runs = w.runs /\ v.quorate = w.quorate
<1>1. CASE call.selector = "addOwner"
  <2>1. call.owner \in Addresses \cup {AddressZero}
    BY <1>1, WalletAssumption DEF OwnerCalls
  <2>2. MayAddOwner(w, call.owner) /\ v = AddOwner(w, call.owner)
    BY <1>1 DEF AfterOwnerCall, Provided
  <2>. QED  BY <2>1, <2>2, AddOwnerMatches DEF AddOwner, Wallets
<1>2. CASE call.selector = "removeOwner"
  <2>1. MayRemoveOwner(w, call.owner) /\ v = RemoveOwner(w, call.owner)
    BY <1>2 DEF AfterOwnerCall, Provided
  <2>. QED  BY <2>1, RemoveOwnerMatches DEF RemoveOwner, Wallets
<1>3. CASE call.selector = "replaceOwner"
  <2>1. call.newOwner \in Addresses \cup {AddressZero}
    BY <1>3, WalletAssumption DEF OwnerCalls
  <2>2. /\ MayReplaceOwner(w, call.owner, call.newOwner)
        /\ v = ReplaceOwner(w, call.owner, call.newOwner)
    BY <1>3 DEF AfterOwnerCall, Provided
  <2>3. v \in Wallets /\ OwnersMatch(v)
    BY <2>1, <2>2, ReplaceOwnerMatches
  <2>. QED  BY <2>2, <2>3 DEF ReplaceOwner, Wallets
<1>4. CASE call.selector = "changeRequirement"
  <2>1. call.required \in Nat
    BY <1>4, WalletAssumption DEF OwnerCalls
  <2>2. /\ MayChangeRequirement(w, call.required)
        /\ v = ChangeRequirement(w, call.required)
    BY <1>4 DEF AfterOwnerCall, Provided
  <2>. QED  BY <2>1, <2>2
       DEF MayChangeRequirement, ChangeRequirement, OwnersMatch, Wallets
<1>5. CASE call.selector \notin {"addOwner", "removeOwner", "replaceOwner",
                               "changeRequirement"}
  BY <1>5 DEF AfterOwnerCall
<1>. QED  BY <1>1, <1>2, <1>3, <1>4, <1>5

(* Marking a confirmed transaction as executed and making its call keeps a *)
(* wallet sound.                                                           *)
LEMMA RunningSound ==
  ASSUME NEW w \in Wallets, Sound(w), NEW id \in TransactionIds,
         IsConfirmed(w, id), id \notin w.executed
  PROVE  Running(w, id) \in Wallets /\ Sound(Running(w, id))
<1>1. HasQuorum(w, id)
  BY ConfirmedHasQuorum DEF Sound
<1>2. w.runs \in [TransactionIds -> Nat] /\ w.runs[id] = 0
  BY DEF Sound, Wallets
<1>3. Running(w, id) = [w EXCEPT !.executed = w.executed \cup {id},
                                 !.runs = [w.runs EXCEPT ![id] = 1],
                                 !.quorate = w.quorate \cup {id}]
  BY <1>1, <1>2 DEF Running, Wallets
<1>4. /\ Running(w, id) \in Wallets
      /\ Running(w, id).executed = w.executed \cup {id}
      /\ Running(w, id).runs = [w.runs EXCEPT ![id] = 1]
      /\ Running(w, id).quorate = w.quorate \cup {id}
      /\ Running(w, id).owners = w.owners
      /\ Running(w, id).isOwner = w.isOwner
      /\ Running(w, id).required = w.required
  <2>. DEFINE runs == [w.runs EXCEPT ![id] = 1]
  <2>1. runs \in [TransactionIds -> Nat]
    BY <1>2
  <2>2. Running(w, id) = [w EXCEPT !.executed = w.executed \cup {id},
                                   !.runs = runs,
                                   !.quorate = w.quorate \cup {id}]
    BY <1>3
  <2>. HIDE DEF runs
  <2>3. /\ w.executed \cup {id} \in SUBSET TransactionIds
        /\ w.quorate \cup {id} \in SUBSET TransactionIds
    BY DEF Wallets
  <2>4. /\ Running(w, id) \in Wallets
        /\ Running(w, id).executed = w.executed \cup {id}
        /\ Running(w, id).runs = runs
        /\ Running(w, id).quorate = w.quorate \cup {id}
        /\ Running(w, id).owners = w.owners
        /\ Running(w, id).isOwner = w.isOwner
        /\ Running(w, id).required = w.required
    BY <2>1, <2>2, <2>3 DEF Wallets
  <2>. QED  BY <2>4 DEF runs
<1>5. OwnersMatch(Running(w, id))
  BY <1>4 DEF OwnersMatch, Sound
<1>. QED  BY <1>2, <1>4, <1>5 DEF Sound

(* Voting and submitting change nothing that Sound speaks of.              *)
LEMMA VotesSound ==
  ASSUME NEW w \in Wallets, Sound(w)
  PROVE  /\ \A owner \in Addresses, id \in TransactionIds :
              /\ Confirmed(w, owner, id) \in Wallets
              /\ Sound(Confirmed(w, owner, id))
              /\ Revoked(w, owner, id) \in Wallets
              /\ Sound(Revoked(w, owner, id))
         /\ \A call \in Calls :
              MayAddTransaction(w, call) =>
                /\ AddTransaction(w, call) \in Wallets
                /\ Sound(AddTransaction(w, call))
<1>1. ASSUME NEW confirmations \in [TransactionIds -> SUBSET Addresses]
      PROVE  /\ [w EXCEPT !.confirmations = confirmations] \in Wallets
             /\ Sound([w EXCEPT !.confirmations = confirmations])
  BY DEF Sound, OwnersMatch, Wallets
<1>2. ASSUME NEW owner \in Addresses, NEW id \in TransactionIds
      PROVE  /\ Confirmed(w, owner, id) \in Wallets
             /\ Sound(Confirmed(w, owner, id))
             /\ Revoked(w, owner, id) \in Wallets
             /\ Sound(Revoked(w, owner, id))
  <2>. DEFINE more == [w.confirmations EXCEPT ![id] = @ \cup {owner}]
              less == [w.confirmations EXCEPT ![id] = @ \ {owner}]
  <2>1. /\ more \in [TransactionIds -> SUBSET Addresses]
        /\ less \in [TransactionIds -> SUBSET Addresses]
    BY DEF Wallets
  <2>2. /\ Confirmed(w, owner, id) = [w EXCEPT !.confirmations = more]
        /\ Revoked(w, owner, id) = [w EXCEPT !.confirmations = less]
    BY DEF Confirmed, Revoked
  <2>. HIDE DEF more, less
  <2>. QED  BY <1>1, <2>1, <2>2
<1>3. ASSUME NEW call \in Calls, MayAddTransaction(w, call)
      PROVE  /\ AddTransaction(w, call) \in Wallets
             /\ Sound(AddTransaction(w, call))
  <2>. DEFINE calls == [w.calls EXCEPT ![w.transactionCount] = call]
              count == w.transactionCount + 1
  <2>1. calls \in [TransactionIds -> Calls \cup {NoCall}]
    BY DEF Wallets
  <2>2. count \in 0..MaxTransactions
    BY <1>3, WalletAssumption DEF MayAddTransaction, Wallets
  <2>3. AddTransaction(w, call) =
          [w EXCEPT !.calls = calls, !.transactionCount = count]
    BY DEF AddTransaction, Wallets
  <2>. HIDE DEF calls, count
  <2>4. AddTransaction(w, call) \in Wallets
    BY <2>1, <2>2, <2>3 DEF Wallets
  <2>5. /\ AddTransaction(w, call).owners = w.owners
        /\ AddTransaction(w, call).isOwner = w.isOwner
        /\ AddTransaction(w, call).required = w.required
        /\ AddTransaction(w, call).executed = w.executed
        /\ AddTransaction(w, call).runs = w.runs
        /\ AddTransaction(w, call).quorate = w.quorate
    BY <2>3 DEF Wallets
  <2>6. OwnersMatch(AddTransaction(w, call))
    BY <2>5 DEF Sound, OwnersMatch
  <2>. QED  BY <2>4, <2>5, <2>6 DEF Sound
<1>. QED  BY <1>2, <1>3

-----------------------------------------------------------------------------
(* The steps.                                                              *)

(* executeTransaction, whichever function it is called by.                 *)
LEMMA ExecuteKeeps ==
  ASSUME Inductive, NEW w \in Wallets, Sound(w),
         NEW owner, NEW id \in TransactionIds, Execute(w, owner, id)
  PROVE  Inductive'
<1>1. CASE wallet' = w /\ UNCHANGED frames
  BY <1>1 DEF Inductive, TypeOK
<1>2. CASE /\ IsConfirmed(w, id)
           /\ ExternalCall(w, id, AfterOwnerCall(Running(w, id), w.calls[id]))
  <2>. DEFINE running == Running(w, id)
              call    == w.calls[id]
  <2>1. running \in Wallets /\ Sound(running)
    BY <1>2, RunningSound DEF Execute
  <2>2. CASE /\ call.destination = Wallet
             /\ wallet' \in AfterOwnerCall(running, call)
             /\ UNCHANGED frames
    <3>1. call \in Calls
      BY <2>2, WalletAssumption DEF Wallets, NoCall
    <3>2. /\ wallet' \in Wallets /\ OwnersMatch(wallet')
          /\ wallet'.executed = running.executed
          /\ wallet'.runs = running.runs
          /\ wallet'.quorate = running.quorate
      BY <2>1, <2>2, <3>1, OwnerCallMatches DEF Sound
    <3>3. Sound(wallet')
      BY <2>1, <3>2 DEF Sound
    <3>. QED  BY <2>2, <3>2, <3>3 DEF Inductive, TypeOK
  <2>3. CASE /\ wallet' = running
             /\ frames' = Append(frames, [saved |-> w, entry |-> wallet])
    <3>. DEFINE frame == [saved |-> w, entry |-> wallet]
    <3>1. /\ frame \in [saved : Wallets, entry : Wallets]
          /\ frame.saved = w /\ frame.entry = wallet
      BY DEF Inductive, TypeOK
    <3>2. /\ frames' \in Seq([saved : Wallets, entry : Wallets])
          /\ Len(frames') = Len(frames) + 1 /\ Len(frames) \in Nat
          /\ \A i \in 1..Len(frames) : frames'[i] = frames[i]
          /\ frames'[Len(frames) + 1] = frame
      BY <2>3, <3>1 DEF Inductive, TypeOK
    <3>3. ASSUME NEW i \in 1..Len(frames')
          PROVE  Sound(frames'[i].saved) /\ Sound(frames'[i].entry)
      <4>1. CASE i = Len(frames) + 1
        BY <3>1, <3>2, <4>1 DEF Inductive
      <4>2. CASE i # Len(frames) + 1
        BY <3>2, <4>2 DEF Inductive
      <4>. QED  BY <4>1, <4>2
    <3>. QED  BY <2>1, <2>3, <3>2, <3>3 DEF Inductive, TypeOK
  <2>. QED  BY <1>2, <2>2, <2>3 DEF ExternalCall
<1>. QED  BY <1>1, <1>2 DEF Execute

(* confirmTransaction.                                                     *)
LEMMA ConfirmKeeps ==
  ASSUME Inductive, NEW w \in Wallets, Sound(w),
         NEW owner \in Addresses, NEW id \in TransactionIds,
         Confirm(w, owner, id)
  PROVE  Inductive'
<1>1. /\ Confirmed(w, owner, id) \in Wallets
      /\ Sound(Confirmed(w, owner, id))
  BY VotesSound
<1>. QED  BY <1>1, ExecuteKeeps DEF Confirm

(* A call returns, and if it failed an earlier wallet comes back.          *)
LEMMA ReturnKeeps ==
  ASSUME Inductive, Return
  PROVE  Inductive'
<1>. DEFINE n == Len(frames)
<1>. DEFINE Frames == [saved : Wallets, entry : Wallets]
<1>1. /\ n \in Nat \ {0}
      /\ frames[n] \in Frames
  <2>1. frames \in Seq(Frames) /\ frames # <<>>
    BY DEF Inductive, TypeOK, Return
  <2>. HIDE DEF Frames
  <2>2. n \in Nat /\ n # 0
    BY <2>1, EmptySeq
  <2>. QED  BY <2>1, <2>2
<1>2. wallet' \in Wallets /\ Sound(wallet')
  <2>1. /\ frames[n].saved \in Wallets /\ Sound(frames[n].saved)
        /\ frames[n].entry \in Wallets /\ Sound(frames[n].entry)
    BY <1>1 DEF Inductive
  <2>. QED  BY <2>1 DEF Inductive, TypeOK, Return, AfterFailure
<1>3. /\ frames' \in Seq(Frames)
      /\ Len(frames') = n - 1
      /\ \A i \in 1..(n - 1) : frames'[i] = frames[i]
  <2>1. frames \in Seq(Frames) /\ frames' = SubSeq(frames, 1, n - 1)
    BY DEF Inductive, TypeOK, Return
  <2>. HIDE DEF Frames
  <2>2. \A i \in 1..(n - 1) : frames[i] \in Frames
    BY <1>1, <2>1, ElementOfSeq
  <2>. HIDE DEF n
  <2>3. n \in Int /\ n >= 1
    BY <1>1
  <2>4. /\ SubSeq(frames, 1, n - 1) \in Seq(Frames)
        /\ Len(SubSeq(frames, 1, n - 1)) =
             IF 1 <= n - 1 THEN n - 1 - 1 + 1 ELSE 0
        /\ \A i \in 1..(n - 1 - 1 + 1) :
             SubSeq(frames, 1, n - 1)[i] = frames[1 + i - 1]
    <3>. DEFINE m == n - 1
    <3>1. 1 \in Int /\ m \in Int /\ \A i \in 1..m : frames[i] \in Frames
      BY <2>2, <2>3
    <3>. HIDE DEF m
    <3>2. /\ SubSeq(frames, 1, m) \in Seq(Frames)
          /\ Len(SubSeq(frames, 1, m)) = IF 1 <= m THEN m - 1 + 1 ELSE 0
          /\ \A i \in 1..(m - 1 + 1) : SubSeq(frames, 1, m)[i] = frames[1 + i - 1]
      BY <3>1, SubSeqProperties
    <3>. QED  BY <3>2 DEF m
  <2>5. /\ Len(SubSeq(frames, 1, n - 1)) = n - 1
        /\ \A i \in 1..(n - 1) : SubSeq(frames, 1, n - 1)[i] = frames[i]
    BY <2>3, <2>4
  <2>. QED  BY <2>1, <2>4, <2>5
<1>4. \A i \in 1..Len(frames') :
        Sound(frames'[i].saved) /\ Sound(frames'[i].entry)
  <2>1. ASSUME NEW i \in 1..Len(frames')
        PROVE  Sound(frames'[i].saved) /\ Sound(frames'[i].entry)
    <3>1. i \in 1..(n - 1) /\ i \in 1..n
      BY <1>1, <1>3
    <3>2. Sound(frames[i].saved) /\ Sound(frames[i].entry)
      BY <3>1 DEF Inductive
    <3>. QED  BY <1>3, <3>1, <3>2
  <2>. QED  BY <2>1
<1>. QED  BY <1>2, <1>3, <1>4 DEF Inductive, TypeOK

(* A new wallet is sound.                                                  *)
LEMMA InitSound == Init => Inductive
<1>. SUFFICES ASSUME Init PROVE Inductive
  OBVIOUS
<1>1. wallet = InitialWallet(InitialOwners, InitialRequired) /\ frames = <<>>
  BY DEF Init
<1>2. \A i \in 1..Len(InitialOwners) : InitialOwners[i] \in Addresses
  BY OwnersAssumption
<1>3. wallet \in Wallets
  BY <1>1, <1>2, OwnersAssumption, WalletAssumption
     DEF InitialWallet, Wallets
<1>4. OwnersMatch(wallet)
  BY <1>1, OwnersAssumption DEF InitialWallet, OwnersMatch
<1>5. /\ wallet.executed = {}
      /\ \A id \in TransactionIds : wallet.runs[id] = 0
  BY <1>1 DEF InitialWallet
<1>6. Sound(wallet)
  BY <1>4, <1>5 DEF Sound
<1>7. frames \in Seq([saved : Wallets, entry : Wallets]) /\ Len(frames) = 0
  BY <1>1
<1>. QED  BY <1>3, <1>6, <1>7 DEF Inductive, TypeOK

(* Inductive is an invariant of the wallet: whatever owners and the        *)
(* contracts they call do, the wallet and every wallet that a failure may  *)
(* bring back are sound.                                                   *)
THEOREM WalletInductive == Spec => []Inductive
<1>1. Inductive /\ [Next]_vars => Inductive'
  <2>. SUFFICES ASSUME Inductive, [Next]_vars
                PROVE  Inductive'
    OBVIOUS
  <2>. wallet \in Wallets /\ Sound(wallet)
    BY DEF Inductive, TypeOK
  <2>1. ASSUME NEW owner \in Addresses, NEW call \in Calls,
               SubmitTransaction(owner, call)
        PROVE  Inductive'
    <3>1. wallet.transactionCount \in TransactionIds
      BY <2>1, WalletAssumption
         DEF SubmitTransaction, MayAddTransaction, TransactionIds, Wallets
    <3>2. /\ AddTransaction(wallet, call) \in Wallets
          /\ Sound(AddTransaction(wallet, call))
      BY <2>1, VotesSound DEF SubmitTransaction
    <3>. QED  BY <2>1, <3>1, <3>2, ConfirmKeeps DEF SubmitTransaction
  <2>2. ASSUME NEW owner \in Addresses, NEW id \in TransactionIds,
               ConfirmTransaction(owner, id)
        PROVE  Inductive'
    BY <2>2, ConfirmKeeps DEF ConfirmTransaction
  <2>3. ASSUME NEW owner \in Addresses, NEW id \in TransactionIds,
               RevokeConfirmation(owner, id)
        PROVE  Inductive'
    BY <2>3, VotesSound DEF RevokeConfirmation, Inductive, TypeOK
  <2>4. ASSUME NEW owner \in Addresses, NEW id \in TransactionIds,
               ExecuteTransaction(owner, id)
        PROVE  Inductive'
    BY <2>4, ExecuteKeeps DEF ExecuteTransaction
  <2>5. CASE Return
    BY <2>5, ReturnKeeps
  <2>6. CASE UNCHANGED vars
    BY <2>6 DEF vars, Inductive, TypeOK
  <2>. QED  BY <2>1, <2>2, <2>3, <2>4, <2>5, <2>6 DEF Next
<1>. QED  BY <1>1, InitSound, PTL DEF Spec

(* The storage of the wallet and of every frame always has its type;       *)
(* address zero never becomes an owner.                                    *)
THEOREM MultiSigTypeCorrect == Spec => []TypeOK
<1>1. Inductive => TypeOK
  BY DEF Inductive
<1>. QED  BY <1>1, WalletInductive, PTL

(* The array of owners and the mapping agree, and the requirement can be   *)
(* met.                                                                    *)
THEOREM OwnersStayInStep == Spec => []OwnersAgree
<1>1. Inductive => OwnersAgree
  BY DEF Inductive, Sound, OwnersAgree
<1>. QED  BY <1>1, WalletInductive, PTL

(* No transaction's call is made twice.                                    *)
THEOREM TransactionsRunOnce == Spec => []RunsOnce
<1>1. Inductive => RunsOnce
  BY DEF Inductive, Sound, RunsOnce
<1>. QED  BY <1>1, WalletInductive, PTL

(* Every executed transaction had a quorum of owners when it was called.   *)
THEOREM QuorumWasBehind == Spec => []QuorumBehind
<1>1. Inductive => QuorumBehind
  BY DEF Inductive, Sound, QuorumBehind
<1>. QED  BY <1>1, WalletInductive, PTL

-----------------------------------------------------------------------------
(* The wallets with a time lock. Their owners are those of a MultiSig.     *)
AsMultiSig(w) ==
  [owners           |-> w.owners,
   isOwner          |-> w.isOwner,
   required         |-> w.required,
   calls            |-> w.calls,
   transactionCount |-> w.transactionCount,
   confirmations    |-> w.confirmations,
   executed         |-> w.executed,
   runs             |-> w.runs,
   quorate          |-> w.quorate]

WithOwners(w, u) ==
  [w EXCEPT !.owners = u.owners, !.isOwner = u.isOwner,
            !.required = u.required]

LEMMA AsMultiSigFacts ==
  ASSUME NEW w \in DelayedWallets
  PROVE  /\ AsMultiSig(w) \in Wallets
         /\ Sound(w) => Sound(AsMultiSig(w))
         /\ \A id \in TransactionIds :
              IsConfirmed(w, id) <=> IsConfirmed(AsMultiSig(w), id)
<1>1. AsMultiSig(w) \in Wallets
  BY DEF AsMultiSig, Wallets, DelayedWallets
<1>2. Sound(w) => Sound(AsMultiSig(w))
  BY DEF AsMultiSig, Sound, OwnersMatch
<1>3. \A id \in TransactionIds :
        IsConfirmed(w, id) <=> IsConfirmed(AsMultiSig(w), id)
  BY DEF AsMultiSig, IsConfirmed
<1>. QED  BY <1>1, <1>2, <1>3

(* The owner functions change the owners and the requirement, and change   *)
(* them as those of a MultiSig.                                            *)
LEMMA DelayedOwnerCall ==
  ASSUME NEW w \in DelayedWallets, NEW call, NEW v \in AfterOwnerCall(w, call)
  PROVE  \E u \in AfterOwnerCall(AsMultiSig(w), call) : v = WithOwners(w, u)
<1>. DEFINE m == AsMultiSig(w)
<1>1. /\ m.owners = w.owners /\ m.isOwner = w.isOwner
      /\ m.required = w.required
      /\ m \in Wallets
  BY AsMultiSigFacts DEF AsMultiSig
<1>2. \A owner : Position(m, owner) = Position(w, owner)
  BY <1>1 DEF Position
<1>. HIDE DEF m
<1>3. CASE call.selector = "addOwner"
  <2>1. v = AddOwner(w, call.owner) /\ MayAddOwner(w, call.owner)
    BY <1>3 DEF AfterOwnerCall, Provided
  <2>2. AddOwner(m, call.owner) \in AfterOwnerCall(m, call)
    BY <1>1, <1>3, <2>1 DEF AfterOwnerCall, Provided, MayAddOwner
  <2>3. v = WithOwners(w, AddOwner(m, call.owner))
    BY <1>1, <2>1 DEF AddOwner, WithOwners, DelayedWallets, Wallets
  <2>. QED  BY <2>2, <2>3 DEF m
<1>4. CASE call.selector = "removeOwner"
  <2>1. v = RemoveOwner(w, call.owner) /\ MayRemoveOwner(w, call.owner)
    BY <1>4 DEF AfterOwnerCall, Provided
  <2>2. RemoveOwner(m, call.owner) \in AfterOwnerCall(m, call)
    BY <1>1, <1>4, <2>1 DEF AfterOwnerCall, Provided, MayRemoveOwner
  <2>3. OwnersWithout(w, call.owner) = OwnersWithout(m, call.owner)
    BY <1>1, <1>2 DEF OwnersWithout
  <2>4. v = WithOwners(w, RemoveOwner(m, call.owner))
    BY <1>1, <2>1, <2>3 DEF RemoveOwner, WithOwners, DelayedWallets, Wallets
  <2>. QED  BY <2>2, <2>4 DEF m
<1>5. CASE call.selector = "replaceOwner"
  <2>1. /\ v = ReplaceOwner(w, call.owner, call.newOwner)
        /\ MayReplaceOwner(w, call.owner, call.newOwner)
    BY <1>5 DEF AfterOwnerCall, Provided
  <2>2. ReplaceOwner(m, call.owner, call.newOwner) \in AfterOwnerCall(m, call)
    BY <1>1, <1>5, <2>1 DEF AfterOwnerCall, Provided, MayReplaceOwner
  <2>3. v = WithOwners(w, ReplaceOwner(m, call.owner, call.newOwner))
    BY <1>1, <1>2, <2>1
       DEF ReplaceOwner, WithOwners, DelayedWallets, Wallets
  <2>. QED  BY <2>2, <2>3 DEF m
<1>6. CASE call.selector = "changeRequirement"
  <2>1. /\ v = ChangeRequirement(w, call.required)
        /\ MayChangeRequirement(w, call.required)
    BY <1>6 DEF AfterOwnerCall, Provided
  <2>2. ChangeRequirement(m, call.required) \in AfterOwnerCall(m, call)
    BY <1>1, <1>6, <2>1 DEF AfterOwnerCall, Provided, MayChangeRequirement
  <2>3. v = WithOwners(w, ChangeRequirement(m, call.required))
    BY <1>1, <2>1 DEF ChangeRequirement, WithOwners, DelayedWallets, Wallets
  <2>. QED  BY <2>2, <2>3 DEF m
<1>7. CASE call.selector \notin {"addOwner", "removeOwner", "replaceOwner",
                                 "changeRequirement"}
  <2>1. v = w /\ m \in AfterOwnerCall(m, call)
    BY <1>7 DEF AfterOwnerCall
  <2>2. v = WithOwners(w, m)
    BY <1>1, <2>1 DEF WithOwners, DelayedWallets
  <2>. QED  BY <2>1, <2>2 DEF m
<1>. QED  BY <1>3, <1>4, <1>5, <1>6, <1>7

(* What such a function leaves is sound, and none of it is about the       *)
(* transactions.                                                           *)
LEMMA DelayedOwnerCallSound ==
  ASSUME NEW w \in DelayedWallets, Sound(w), NEW call \in Calls,
         call.destination = Wallet, NEW v \in AfterOwnerCall(w, call)
  PROVE  /\ v \in DelayedWallets /\ Sound(v)
         /\ v.executed = w.executed
         /\ v.confirmationTimes = w.confirmationTimes
<1>. DEFINE m == AsMultiSig(w)
<1>1. m \in Wallets /\ Sound(m) /\ OwnersMatch(m)
  BY AsMultiSigFacts DEF Sound
<1>. HIDE DEF m
<1>2. PICK u \in AfterOwnerCall(m, call) : v = WithOwners(w, u)
  BY DelayedOwnerCall DEF m
<1>3. /\ u.owners \in Seq(Addresses) /\ u.isOwner \in SUBSET Addresses
      /\ u.required \in Nat
      /\ OwnersMatch(u)
  BY <1>1, OwnerCallMatches DEF Wallets
<1>4. /\ v \in DelayedWallets
      /\ v.owners = u.owners /\ v.isOwner = u.isOwner
      /\ v.required = u.required
      /\ v.executed = w.executed /\ v.runs = w.runs /\ v.quorate = w.quorate
      /\ v.confirmationTimes = w.confirmationTimes
  BY <1>2, <1>3 DEF WithOwners, DelayedWallets
<1>5. OwnersMatch(v)
  BY <1>3, <1>4 DEF OwnersMatch
<1>. QED  BY <1>4, <1>5 DEF Sound

(* What remembering leaves: the times are kept if only a transaction that  *)
(* was just confirmed got another time, which is now.                      *)
LEMMA RememberingSound ==
  ASSUME wallet \in DelayedWallets, TimesKept(wallet), now \in Nat,
         NEW w \in DelayedWallets, Sound(w),
         NEW voted \in SUBSET TransactionIds,
         \A id \in TransactionIds \ voted :
           w.confirmationTimes[id] = wallet.confirmationTimes[id],
         \A id \in voted :
           IsConfirmed(w, id) =>
             ~IsConfirmed(wallet, id) /\ w.confirmationTimes[id] = now
  PROVE  /\ Remembering(w, voted) \in DelayedWallets
         /\ DelayedSound(Remembering(w, voted))
         /\ Remembering(w, voted).executed = w.executed
<1>. DEFINE passed == {id \in TransactionIds : IsConfirmed(w, id)}
            before == {id \in TransactionIds : IsConfirmed(wallet, id)}
            times  == [id \in TransactionIds |->
                         IF id \notin passed THEN 0
                         ELSE IF id \in before THEN wallet.passedAt[id]
                         ELSE now]
            ids    == passed \cap (wallet.passedByVote \cup voted)
            v      == Remembering(w, voted)
<1>1. v = [w EXCEPT !.passedAt = times, !.passedByVote = ids]
  BY DEF Remembering
<1>2. times \in [TransactionIds -> Nat] /\ ids \in SUBSET TransactionIds
  BY DEF DelayedWallets
<1>3. \A id \in ids : IsConfirmed(w, id) /\ times[id] <= w.confirmationTimes[id]
  <2>1. ASSUME NEW id \in ids
        PROVE  IsConfirmed(w, id) /\ times[id] <= w.confirmationTimes[id]
    <3>1. id \in TransactionIds /\ id \in passed /\ IsConfirmed(w, id)
      OBVIOUS
    <3>2. CASE id \in voted
      <4>1. times[id] = now /\ w.confirmationTimes[id] = now
        BY <3>1, <3>2
      <4>. QED  BY <3>1, <4>1
    <3>3. CASE id \notin voted
      <4>1. /\ id \in wallet.passedByVote /\ id \in before
            /\ wallet.passedAt[id] <= wallet.confirmationTimes[id]
        BY <3>1, <3>3 DEF TimesKept
      <4>2. times[id] = wallet.passedAt[id]
        BY <3>1, <4>1
      <4>. QED  BY <3>1, <3>3, <4>1, <4>2
    <3>. QED  BY <3>2, <3>3
  <2>. QED  BY <2>1
<1>. HIDE DEF times, ids, v
<1>4. /\ v \in DelayedWallets
      /\ v.passedAt = times /\ v.passedByVote = ids
      /\ v.owners = w.owners /\ v.isOwner = w.isOwner
      /\ v.required = w.required /\ v.confirmations = w.confirmations
      /\ v.executed = w.executed /\ v.runs = w.runs /\ v.quorate = w.quorate
      /\ v.confirmationTimes = w.confirmationTimes
  BY <1>1, <1>2 DEF DelayedWallets
<1>5. Sound(v)
  BY <1>4 DEF Sound, OwnersMatch
<1>6. \A id : IsConfirmed(v, id) <=> IsConfirmed(w, id)
  BY <1>4 DEF IsConfirmed
<1>7. TimesKept(v)
  BY <1>3, <1>4, <1>6 DEF TimesKept
<1>. QED  BY <1>4, <1>5, <1>7 DEF DelayedSound, v

(* What a call of one of the wallet's own functions leaves.                *)
LEMMA AfterCallSound ==
  ASSUME wallet \in DelayedWallets, TimesKept(wallet), now \in Nat,
         NEW w \in DelayedWallets, Sound(w),
         w.confirmationTimes = wallet.confirmationTimes,
         NEW call \in Calls, call.destination = Wallet,
         NEW v \in AfterCall(w, call)
  PROVE  /\ v \in DelayedWallets
         /\ DelayedSound(v)
         /\ v.executed = w.executed
<1>1. PICK u : /\ v = Remembering(u, {})
               /\ u \in DelayedWallets /\ Sound(u)
               /\ u.executed = w.executed
               /\ u.confirmationTimes = w.confirmationTimes
  <2>1. CASE call.selector = "changeTimeLock"
    <3>. DEFINE u == ChangeTimeLock(w, call.secondsTimeLocked)
    <3>1. call.secondsTimeLocked \in Nat
      BY <2>1, DelayAssumption
    <3>2. /\ u \in DelayedWallets /\ u.executed = w.executed
          /\ u.confirmationTimes = w.confirmationTimes
          /\ u.owners = w.owners /\ u.isOwner = w.isOwner
          /\ u.required = w.required /\ u.runs = w.runs
          /\ u.quorate = w.quorate
      BY <3>1 DEF ChangeTimeLock, DelayedWallets
    <3>3. v = Remembering(u, {})
      BY <2>1 DEF AfterCall
    <3>. HIDE DEF u
    <3>. QED  BY <3>2, <3>3 DEF Sound, OwnersMatch
  <2>2. CASE call.selector = "setSelector"
    <3>. DEFINE u == SetSelector(w, call.exempt, call.approved)
    <3>1. call.exempt \in Selectors
      BY <2>2 DEF Selectors
    <3>2. /\ u \in DelayedWallets /\ u.executed = w.executed
          /\ u.confirmationTimes = w.confirmationTimes
          /\ u.owners = w.owners /\ u.isOwner = w.isOwner
          /\ u.required = w.required /\ u.runs = w.runs
          /\ u.quorate = w.quorate
      BY <3>1 DEF SetSelector, DelayedWallets
    <3>3. v = Remembering(u, {})
      BY <2>2 DEF AfterCall
    <3>. HIDE DEF u
    <3>. QED  BY <3>2, <3>3 DEF Sound, OwnersMatch
  <2>3. CASE call.selector \notin {"changeTimeLock", "setSelector"}
    <3>1. PICK u \in AfterOwnerCall(w, call) : v = Remembering(u, {})
      BY <2>3 DEF AfterCall
    <3>. QED  BY <3>1, DelayedOwnerCallSound
  <2>. QED  BY <2>1, <2>2, <2>3
<1>. QED  BY <1>1, RememberingSound

(* A transaction that runs was confirmed; nothing it waited for changes.   *)
LEMMA DelayedRunningSound ==
  ASSUME NEW w \in DelayedWallets, DelayedSound(w), NEW id \in TransactionIds,
         IsConfirmed(w, id), id \notin w.executed
  PROVE  /\ Running(w, id) \in DelayedWallets
         /\ DelayedSound(Running(w, id))
         /\ Running(w, id).executed = w.executed \cup {id}
         /\ Running(w, id).confirmationTimes = w.confirmationTimes
<1>. DEFINE m == AsMultiSig(w)
<1>1. m \in Wallets /\ Sound(m) /\ IsConfirmed(m, id) /\ id \notin m.executed
  BY AsMultiSigFacts DEF DelayedSound, AsMultiSig
<1>2. Sound(Running(m, id))
  BY <1>1, RunningSound
<1>3. HasQuorum(w, id) <=> HasQuorum(m, id)
  BY DEF HasQuorum, AsMultiSig
<1>. DEFINE v == Running(w, id)
            runs == [w.runs EXCEPT ![id] = @ + 1]
            quorate == IF HasQuorum(w, id) THEN w.quorate \cup {id}
                                           ELSE w.quorate
<1>4. /\ v = [w EXCEPT !.executed = w.executed \cup {id},
                       !.runs = runs, !.quorate = quorate]
      /\ runs \in [TransactionIds -> Nat]
      /\ quorate \in SUBSET TransactionIds
  BY DEF Running, DelayedWallets
<1>5. /\ Running(m, id).runs = runs /\ Running(m, id).quorate = quorate
      /\ Running(m, id).executed = w.executed \cup {id}
      /\ Running(m, id).owners = w.owners
      /\ Running(m, id).isOwner = w.isOwner
      /\ Running(m, id).required = w.required
  BY <1>3 DEF Running, AsMultiSig
<1>. HIDE DEF v, runs, quorate, m
<1>6. /\ v \in DelayedWallets
      /\ v.executed = w.executed \cup {id}
      /\ v.runs = runs /\ v.quorate = quorate
      /\ v.owners = w.owners /\ v.isOwner = w.isOwner
      /\ v.required = w.required /\ v.confirmations = w.confirmations
      /\ v.passedAt = w.passedAt /\ v.passedByVote = w.passedByVote
      /\ v.confirmationTimes = w.confirmationTimes
  BY <1>4 DEF DelayedWallets
<1>7. Sound(v)
  BY <1>2, <1>5, <1>6 DEF Sound, OwnersMatch
<1>8. \A j : IsConfirmed(v, j) <=> IsConfirmed(w, j)
  BY <1>6 DEF IsConfirmed
<1>9. TimesKept(v)
  BY <1>6, <1>8 DEF DelayedSound, TimesKept
<1>. QED  BY <1>6, <1>7, <1>9 DEF DelayedSound, v

-----------------------------------------------------------------------------
(* The steps of a wallet with a time lock.                                 *)

DelayedFrames == [saved : DelayedWallets, entry : DelayedWallets]

(* A step that leaves the frames alone and executes no less.               *)
LEMMA WalletStepKeeps ==
  ASSUME DelayedInductive, wallet' \in DelayedWallets, DelayedSound(wallet'),
         wallet.executed \subseteq wallet'.executed,
         UNCHANGED frames, now' \in Nat
  PROVE  DelayedInductive'
<1>1. \A i \in 1..Len(frames) : NoLater(i, wallet)'
  BY DEF DelayedInductive, NoLater
<1>2. \A j \in 1..Len(frames), i \in 1..Len(frames) :
        i < j => NoLater(i, frames[j].saved)' /\ NoLater(i, frames[j].entry)'
  BY DEF DelayedInductive, NoLater
<1>3. \A i \in 1..Len(frames) :
        DelayedSound(frames[i].saved)' /\ DelayedSound(frames[i].entry)'
  BY DEF DelayedInductive
<1>. QED  BY <1>1, <1>2, <1>3 DEF DelayedInductive

(* confirmTransaction: w is the wallet, or has one transaction more.       *)
LEMMA DelayedConfirmKeeps ==
  ASSUME DelayedInductive, NEW w \in DelayedWallets, Sound(w),
         w.executed = wallet.executed,
         w.confirmationTimes = wallet.confirmationTimes,
         \A j : IsConfirmed(wallet, j) <=> IsConfirmed(w, j),
         NEW owner \in Addresses, NEW id \in TransactionIds,
         DelayedConfirm(w, owner, id)
  PROVE  DelayedInductive' /\ wallet'.executed = wallet.executed
<1>. DEFINE confirmed == Confirmed(w, owner, id)
            times == ConfirmationTimes(confirmed, id)
            v == [confirmed EXCEPT !.confirmationTimes = times]
            votes == [w.confirmations EXCEPT ![id] = @ \cup {owner}]
<1>1. /\ confirmed = [w EXCEPT !.confirmations = votes]
      /\ votes \in [TransactionIds -> SUBSET Addresses]
  BY DEF Confirmed, DelayedWallets
<1>2. /\ confirmed \in DelayedWallets
      /\ confirmed.confirmationTimes = wallet.confirmationTimes
  BY <1>1 DEF DelayedWallets
<1>3. /\ times \in [TransactionIds -> Nat]
      /\ \A j \in TransactionIds \ {id} : times[j] = wallet.confirmationTimes[j]
      /\ IsConfirmed(confirmed, id) => times[id] = now
  <2>. HIDE DEF confirmed
  <2>1. now \in Nat /\ wallet.confirmationTimes \in [TransactionIds -> Nat]
    BY DEF DelayedInductive, DelayedWallets
  <2>2. times = IF IsConfirmed(confirmed, id)
                THEN [wallet.confirmationTimes EXCEPT ![id] = now]
                ELSE wallet.confirmationTimes
    BY <1>2 DEF ConfirmationTimes
  <2>. HIDE DEF times
  <2>. QED  BY <2>1, <2>2
<1>. HIDE DEF votes, times
<1>4. /\ v \in DelayedWallets /\ v.confirmationTimes = times
      /\ v.owners = w.owners /\ v.isOwner = w.isOwner
      /\ v.required = w.required /\ v.executed = w.executed
      /\ v.runs = w.runs /\ v.quorate = w.quorate
      /\ v.confirmations = confirmed.confirmations
      /\ confirmed.owners = w.owners /\ confirmed.required = w.required
  BY <1>1, <1>2, <1>3 DEF DelayedWallets
<1>5. /\ ~IsConfirmed(wallet, id)
      /\ wallet' = Remembering(v, {id})
      /\ UNCHANGED <<frames, now>>
  BY DEF DelayedConfirm, times
<1>. HIDE DEF v, confirmed
<1>6. Sound(v)
  BY <1>4 DEF Sound, OwnersMatch
<1>7. IsConfirmed(v, id) <=> IsConfirmed(confirmed, id)
  BY <1>4 DEF IsConfirmed
<1>8. /\ wallet' \in DelayedWallets /\ DelayedSound(wallet')
      /\ wallet'.executed = wallet.executed
  <2>1. wallet \in DelayedWallets /\ TimesKept(wallet) /\ now \in Nat
    BY DEF DelayedInductive, DelayedSound
  <2>2. \A j \in TransactionIds \ {id} :
          v.confirmationTimes[j] = wallet.confirmationTimes[j]
    BY <1>3, <1>4
  <2>3. \A j \in {id} : IsConfirmed(v, j) =>
          ~IsConfirmed(wallet, j) /\ v.confirmationTimes[j] = now
    BY <1>3, <1>4, <1>5, <1>7
  <2>4. /\ Remembering(v, {id}) \in DelayedWallets
        /\ DelayedSound(Remembering(v, {id}))
        /\ Remembering(v, {id}).executed = v.executed
    BY <1>4, <1>6, <2>1, <2>2, <2>3, RememberingSound
  <2>. QED  BY <1>4, <1>5, <2>4
<1>. QED  BY <1>5, <1>8, WalletStepKeeps DEF DelayedInductive

(* submitTransaction.                                                      *)
LEMMA DelayedSubmitKeeps ==
  ASSUME DelayedInductive, NEW owner \in Addresses, NEW call \in Calls,
         DelayedSubmitTransaction(owner, call)
  PROVE  DelayedInductive' /\ wallet'.executed = wallet.executed
<1>. DEFINE w == AddTransaction(wallet, call)
            calls == [wallet.calls EXCEPT ![wallet.transactionCount] = call]
            count == wallet.transactionCount + 1
<1>1. /\ wallet \in DelayedWallets /\ Sound(wallet)
      /\ MayAddTransaction(wallet, call)
      /\ DelayedConfirm(w, owner, wallet.transactionCount)
  BY DEF DelayedInductive, DelayedSound, DelayedSubmitTransaction
<1>2. wallet.transactionCount \in TransactionIds
  BY <1>1, WalletAssumption
     DEF MayAddTransaction, TransactionIds, DelayedWallets
<1>3. /\ w = [wallet EXCEPT !.calls = calls, !.transactionCount = count]
      /\ calls \in [TransactionIds -> Calls \cup {NoCall}]
      /\ count \in 0..MaxTransactions
  BY <1>1, <1>2, WalletAssumption
     DEF AddTransaction, MayAddTransaction, DelayedWallets
<1>. HIDE DEF w, calls, count
<1>4. /\ w \in DelayedWallets
      /\ w.owners = wallet.owners /\ w.isOwner = wallet.isOwner
      /\ w.required = wallet.required /\ w.executed = wallet.executed
      /\ w.runs = wallet.runs /\ w.quorate = wallet.quorate
      /\ w.confirmations = wallet.confirmations
      /\ w.confirmationTimes = wallet.confirmationTimes
  BY <1>1, <1>3 DEF DelayedWallets
<1>5. Sound(w)
  BY <1>1, <1>4 DEF Sound, OwnersMatch
<1>6. \A j : IsConfirmed(wallet, j) <=> IsConfirmed(w, j)
  BY <1>4 DEF IsConfirmed
<1>. QED  BY <1>1, <1>2, <1>4, <1>5, <1>6, DelayedConfirmKeeps

(* revokeConfirmation.                                                     *)
LEMMA DelayedRevokeKeeps ==
  ASSUME DelayedInductive, NEW owner \in Addresses, NEW id \in TransactionIds,
         DelayedRevokeConfirmation(owner, id)
  PROVE  DelayedInductive' /\ wallet'.executed = wallet.executed
<1>. DEFINE w == Revoked(wallet, owner, id)
            votes == [wallet.confirmations EXCEPT ![id] = @ \ {owner}]
<1>1. /\ wallet \in DelayedWallets /\ Sound(wallet) /\ TimesKept(wallet)
      /\ now \in Nat
  BY DEF DelayedInductive, DelayedSound
<1>2. /\ w = [wallet EXCEPT !.confirmations = votes]
      /\ votes \in [TransactionIds -> SUBSET Addresses]
  BY <1>1 DEF Revoked, DelayedWallets
<1>3. wallet' = Remembering(w, {}) /\ UNCHANGED <<frames, now>>
  BY DEF DelayedRevokeConfirmation
<1>. HIDE DEF w, votes
<1>4. /\ w \in DelayedWallets
      /\ w.owners = wallet.owners /\ w.isOwner = wallet.isOwner
      /\ w.required = wallet.required /\ w.executed = wallet.executed
      /\ w.runs = wallet.runs /\ w.quorate = wallet.quorate
      /\ w.confirmationTimes = wallet.confirmationTimes
  BY <1>1, <1>2 DEF DelayedWallets
<1>5. Sound(w)
  BY <1>1, <1>4 DEF Sound, OwnersMatch
<1>6. /\ wallet' \in DelayedWallets /\ DelayedSound(wallet')
      /\ wallet'.executed = wallet.executed
  BY <1>1, <1>3, <1>4, <1>5, RememberingSound
<1>. QED  BY <1>1, <1>3, <1>6, WalletStepKeeps

(* executeTransaction.                                                     *)
LEMMA DelayedExecuteKeeps ==
  ASSUME DelayedInductive, NEW owner, NEW id \in TransactionIds,
         DelayedExecuteTransaction(owner, id)
  PROVE  /\ DelayedInductive'
         /\ wallet'.executed = wallet.executed \cup {id}
<1>. DEFINE running == Running(wallet, id)
            call    == wallet.calls[id]
            frame   == [saved |-> wallet, entry |-> wallet]
<1>1. /\ wallet \in DelayedWallets /\ DelayedSound(wallet)
      /\ TimesKept(wallet) /\ now \in Nat
      /\ frames \in Seq(DelayedFrames)
  BY DEF DelayedInductive, DelayedSound, DelayedFrames
<1>2. /\ IsConfirmed(wallet, id) /\ id \notin wallet.executed
      /\ ExternalCall(wallet, id, AfterCall(running, call))
      /\ UNCHANGED now
  BY DEF DelayedExecuteTransaction, Executable
<1>3. /\ running \in DelayedWallets /\ DelayedSound(running)
      /\ running.executed = wallet.executed \cup {id}
      /\ running.confirmationTimes = wallet.confirmationTimes
  BY <1>1, <1>2, DelayedRunningSound
<1>. HIDE DEF running
<1>4. CASE /\ call.destination = Wallet
           /\ wallet' \in AfterCall(running, call)
           /\ UNCHANGED frames
  <2>1. call \in Calls
    BY <1>1, <1>4, WalletAssumption DEF DelayedWallets, NoCall
  <2>. HIDE DEF call
  <2>2. /\ wallet' \in DelayedWallets /\ DelayedSound(wallet')
        /\ wallet'.executed = running.executed
    BY <1>1, <1>3, <1>4, <2>1, AfterCallSound DEF DelayedSound
  <2>3. /\ wallet'.executed = wallet.executed \cup {id}
        /\ wallet.executed \subseteq wallet'.executed
    BY <1>3, <2>2
  <2>4. DelayedInductive'
    BY <1>1, <1>2, <1>4, <2>2, <2>3, WalletStepKeeps
  <2>. QED  BY <2>3, <2>4
<1>5. CASE wallet' = running /\ frames' = Append(frames, frame)
  <2>1. /\ frame \in DelayedFrames
        /\ frame.saved = wallet /\ frame.entry = wallet
    BY <1>1 DEF DelayedFrames
  <2>. HIDE DEF frame
  <2>2. /\ frames' \in Seq(DelayedFrames)
        /\ Len(frames') = Len(frames) + 1 /\ Len(frames) \in Nat
        /\ \A i \in 1..Len(frames) : frames'[i] = frames[i]
        /\ frames'[Len(frames) + 1] = frame
    BY <1>1, <1>5, <2>1
  <2>3. ASSUME NEW i \in 1..Len(frames')
        PROVE  /\ DelayedSound(frames'[i].saved)
               /\ DelayedSound(frames'[i].entry)
               /\ frames'[i].saved.executed \subseteq wallet.executed
               /\ frames'[i].entry.executed \subseteq wallet.executed
    <3>1. CASE i = Len(frames) + 1
      BY <1>1, <2>1, <2>2, <3>1
    <3>2. CASE i # Len(frames) + 1
      BY <2>2, <3>2 DEF DelayedInductive, NoLater
    <3>. QED  BY <3>1, <3>2
  <2>4. ASSUME NEW i \in 1..Len(frames'), NEW j \in 1..Len(frames'), i < j
        PROVE  NoLater(i, frames[j].saved)' /\ NoLater(i, frames[j].entry)'
    <3>1. i \in 1..Len(frames) /\ frames'[i] = frames[i]
      BY <2>2, <2>4
    <3>2. CASE j = Len(frames) + 1
      BY <2>1, <2>2, <2>3, <3>2 DEF NoLater
    <3>3. CASE j # Len(frames) + 1
      <4>1. j \in 1..Len(frames) /\ frames'[j] = frames[j]
        BY <2>2, <3>3
      <4>2. NoLater(i, frames[j].saved) /\ NoLater(i, frames[j].entry)
        BY <2>4, <3>1, <4>1 DEF DelayedInductive
      <4>. QED  BY <3>1, <4>1, <4>2 DEF NoLater
    <3>. QED  BY <3>2, <3>3
  <2>5. \A i \in 1..Len(frames') :
          /\ (DelayedSound(frames[i].saved) /\ DelayedSound(frames[i].entry))'
          /\ NoLater(i, wallet)'
    <3>1. wallet.executed \subseteq wallet'.executed
      BY <1>3, <1>5
    <3>. QED  BY <2>3, <3>1 DEF NoLater
  <2>6. frames' \in Seq([saved : DelayedWallets, entry : DelayedWallets])
    BY <2>2 DEF DelayedFrames
  <2>7. wallet' \in DelayedWallets /\ DelayedSound(wallet)' /\ now' \in Nat
    BY <1>1, <1>2, <1>3, <1>5
  <2>. QED  BY <1>3, <1>5, <2>4, <2>5, <2>6, <2>7 DEF DelayedInductive
<1>. QED  BY <1>2, <1>4, <1>5 DEF ExternalCall, running

(* A call returns.                                                         *)
LEMMA DelayedReturnKeeps ==
  ASSUME DelayedInductive, Return, UNCHANGED now
  PROVE  /\ DelayedInductive'
         /\ wallet'.executed \subseteq wallet.executed
<1>. DEFINE n == Len(frames)
<1>1. frames \in Seq(DelayedFrames) /\ frames # <<>>
  BY DEF DelayedInductive, DelayedFrames, Return
<1>2. n \in Nat /\ n # 0 /\ n \in 1..n
  BY <1>1, EmptySeq
<1>3. frames[n].saved \in DelayedWallets /\ frames[n].entry \in DelayedWallets
  <2>1. frames[n] \in DelayedFrames
    BY <1>1, <1>2, ElementOfSeq
  <2>. QED  BY <2>1 DEF DelayedFrames
<1>4. /\ frames' \in Seq(DelayedFrames)
      /\ Len(frames') = n - 1
      /\ \A i \in 1..(n - 1) : frames'[i] = frames[i]
  <2>. DEFINE m == n - 1
  <2>1. 1 \in Int /\ m \in Int /\ \A i \in 1..m : frames[i] \in DelayedFrames
    BY <1>1, <1>2, ElementOfSeq
  <2>2. frames' = SubSeq(frames, 1, m) /\ m >= 0
    BY <1>2 DEF Return
  <2>. HIDE DEF m, n
  <2>3. /\ SubSeq(frames, 1, m) \in Seq(DelayedFrames)
        /\ Len(SubSeq(frames, 1, m)) = IF 1 <= m THEN m - 1 + 1 ELSE 0
        /\ \A i \in 1..(m - 1 + 1) : SubSeq(frames, 1, m)[i] = frames[1 + i - 1]
    BY <2>1, SubSeqProperties
  <2>4. /\ frames' \in Seq(DelayedFrames) /\ Len(frames') = m
        /\ \A i \in 1..m : frames'[i] = frames[i]
    BY <2>1, <2>2, <2>3
  <2>. QED  BY <2>4 DEF m
<1>5. /\ DelayedSound(frames[n].saved) /\ DelayedSound(frames[n].entry)
      /\ frames[n].saved.executed \subseteq wallet.executed
      /\ frames[n].entry.executed \subseteq wallet.executed
  BY <1>2 DEF DelayedInductive, NoLater
<1>6. wallet' = wallet \/ wallet' = frames[n].saved \/ wallet' = frames[n].entry
  BY DEF Return, AfterFailure
<1>7. /\ wallet' \in DelayedWallets /\ DelayedSound(wallet')
      /\ wallet'.executed \subseteq wallet.executed
  BY <1>3, <1>5, <1>6 DEF DelayedInductive
<1>8. ASSUME NEW i \in 1..(n - 1)
      PROVE  NoLater(i, wallet)'
  <2>1. i \in 1..n /\ i < n /\ frames'[i] = frames[i]
    BY <1>2, <1>4
  <2>2. /\ NoLater(i, wallet)
        /\ NoLater(i, frames[n].saved) /\ NoLater(i, frames[n].entry)
    BY <1>2, <2>1 DEF DelayedInductive
  <2>. QED  BY <1>6, <2>1, <2>2 DEF NoLater
<1>9. ASSUME NEW i \in 1..(n - 1)
      PROVE  /\ DelayedSound(frames'[i].saved)
             /\ DelayedSound(frames'[i].entry)
  <2>1. i \in 1..n /\ frames'[i] = frames[i]
    BY <1>2, <1>4
  <2>. QED  BY <2>1 DEF DelayedInductive
<1>10. ASSUME NEW i \in 1..(n - 1), NEW j \in 1..(n - 1), i < j
       PROVE  NoLater(i, frames[j].saved)' /\ NoLater(i, frames[j].entry)'
  <2>1. /\ i \in 1..n /\ frames'[i] = frames[i]
        /\ j \in 1..n /\ frames'[j] = frames[j]
    BY <1>2, <1>4
  <2>2. NoLater(i, frames[j].saved) /\ NoLater(i, frames[j].entry)
    BY <1>10, <2>1 DEF DelayedInductive
  <2>. QED  BY <2>1, <2>2 DEF NoLater
<1>11. frames' \in Seq([saved : DelayedWallets, entry : DelayedWallets])
  BY <1>4 DEF DelayedFrames
<1>. QED
  BY <1>4, <1>7, <1>8, <1>9, <1>10, <1>11 DEF DelayedInductive

(* A new wallet.                                                           *)
LEMMA DelayedInitSound == DelayedInit => DelayedInductive
<1>. SUFFICES ASSUME DelayedInit PROVE DelayedInductive
  OBVIOUS
<1>1. \A i \in 1..Len(InitialOwners) : InitialOwners[i] \in Addresses
  BY OwnersAssumption
<1>2. wallet \in DelayedWallets
  BY <1>1, OwnersAssumption, WalletAssumption, DelayAssumption
     DEF DelayedInit, DelayedWallets, Selectors
<1>3. /\ wallet.owners = InitialOwners
      /\ wallet.isOwner = {InitialOwners[i] : i \in 1..Len(InitialOwners)}
      /\ wallet.required = InitialRequired
      /\ wallet.executed = {} /\ wallet.passedByVote = {}
      /\ \A id \in TransactionIds : wallet.runs[id] = 0
  BY DEF DelayedInit
<1>4. OwnersMatch(wallet)
  BY <1>3, OwnersAssumption DEF OwnersMatch
<1>5. DelayedSound(wallet)
  BY <1>3, <1>4 DEF DelayedSound, Sound, TimesKept
<1>6. /\ frames \in Seq([saved : DelayedWallets, entry : DelayedWallets])
      /\ Len(frames) = 0 /\ now \in Nat
  BY DEF DelayedInit
<1>. QED  BY <1>2, <1>5, <1>6 DEF DelayedInductive

(* The wallet with a time lock, and every wallet that the failure of a     *)
(* running call may bring back, has matching owners, executed each         *)
(* transaction once and with a quorum, and counts the time lock of a       *)
(* transaction from no earlier moment than it passed.                      *)
THEOREM DelayedWalletInductive == DelayedSpec => []DelayedInductive
<1>1. DelayedInductive /\ [DelayedNext]_delayedVars => DelayedInductive'
  <2>. SUFFICES ASSUME DelayedInductive, [DelayedNext]_delayedVars
                PROVE  DelayedInductive'
    OBVIOUS
  <2>1. /\ wallet \in DelayedWallets /\ Sound(wallet) /\ DelayedSound(wallet)
        /\ now \in Nat
    BY DEF DelayedInductive, DelayedSound
  <2>2. ASSUME NEW owner \in Addresses, NEW id \in TransactionIds,
               DelayedConfirmTransaction(owner, id)
        PROVE  DelayedInductive'
    BY <2>1, <2>2, DelayedConfirmKeeps DEF DelayedConfirmTransaction
  <2>3. CASE Tick
    BY <2>1, <2>3, WalletStepKeeps DEF Tick
  <2>4. CASE UNCHANGED delayedVars
    BY <2>1, <2>4, WalletStepKeeps DEF delayedVars
  <2>. QED  BY <2>2, <2>3, <2>4, DelayedSubmitKeeps, DelayedRevokeKeeps,
               DelayedExecuteKeeps, DelayedReturnKeeps DEF DelayedNext
<1>. QED  BY <1>1, DelayedInitSound, PTL DEF DelayedSpec

(* Owners agree with their array, no call is made twice and none without a *)
(* quorum, whatever waits and whatever is exempt.                          *)
THEOREM DelayedWalletSafe ==
  DelayedSpec => [](OwnersAgree /\ RunsOnce /\ QuorumBehind)
<1>1. DelayedInductive => OwnersAgree /\ RunsOnce /\ QuorumBehind
  BY DEF DelayedInductive, DelayedSound, Sound, OwnersAgree, RunsOnce,
         QuorumBehind
<1>. QED  BY <1>1, DelayedWalletInductive, PTL

(* What the confirmations of owners brought the quorum is executed only    *)
(* when it has had it, without a break, for the time lock of that moment,  *)
(* unless the wallet exempts it.                                           *)
THEOREM TimeLockServed == DelayedSpec => LockServed
<1>. DEFINE Served ==
       \A id \in wallet'.executed \ wallet.executed :
         id \in wallet.passedByVote =>
           \/ now >= wallet.passedAt[id] + wallet.secondsTimeLocked
           \/ Instant(wallet, wallet.calls[id])
<1>1. DelayedInductive /\ [DelayedNext]_delayedVars => [Served]_delayedVars
  <2>. SUFFICES ASSUME DelayedInductive, DelayedNext
                PROVE  Served
    OBVIOUS
  <2>1. ASSUME NEW owner \in Addresses, NEW id \in TransactionIds,
               DelayedExecuteTransaction(owner, id)
        PROVE  Served
    <3>1. wallet'.executed = wallet.executed \cup {id}
      BY <2>1, DelayedExecuteKeeps
    <3>2. CASE LockPassed(wallet, id)
      <4>1. /\ wallet.confirmationTimes[id] \in Nat /\ now \in Nat
            /\ wallet.passedAt[id] \in Nat
            /\ wallet.secondsTimeLocked \in Nat
        BY DEF DelayedInductive, DelayedWallets
      <4>2. id \in wallet.passedByVote =>
              wallet.passedAt[id] <= wallet.confirmationTimes[id]
        BY DEF DelayedInductive, DelayedSound, TimesKept
      <4>. QED  BY <3>1, <3>2, <4>1, <4>2 DEF LockPassed
    <3>3. CASE Instant(wallet, wallet.calls[id])
      BY <3>1, <3>3
    <3>. QED  BY <2>1, <3>2, <3>3 DEF DelayedExecuteTransaction, Executable
  <2>2. ASSUME NEW owner \in Addresses, NEW id \in TransactionIds,
               DelayedConfirmTransaction(owner, id)
        PROVE  wallet'.executed = wallet.executed
    <3>1. wallet \in DelayedWallets /\ Sound(wallet)
      BY DEF DelayedInductive, DelayedSound
    <3>. QED  BY <2>2, <3>1, DelayedConfirmKeeps DEF DelayedConfirmTransaction
  <2>3. ASSUME wallet'.executed \subseteq wallet.executed
        PROVE  Served
    BY <2>3
  <2>4. CASE Tick
    BY <2>4 DEF Tick
  <2>. HIDE DEF Served
  <2>. QED  BY <2>1, <2>2, <2>3, <2>4, DelayedSubmitKeeps, DelayedRevokeKeeps,
               DelayedReturnKeeps DEF DelayedNext
<1>. QED  BY <1>1, DelayedWalletInductive, PTL DEF DelayedSpec, LockServed
=============================================================================
