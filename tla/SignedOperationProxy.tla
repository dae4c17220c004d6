------------------------ MODULE SignedOperationProxy ------------------------
(***************************************************************************)
(* The contract external/proxies/SignedOperationProxy.sol: what it makes   *)
(* of a transaction, as operators on its storage, a record of              *)
(* "operational" (g_isOperational) and "invalidated" (the hashes of        *)
(* g_invalidated). Arrays are indexed from 0 in the code and from 1 here;  *)
(* a position in the list of accounts stays as it is in the transaction.   *)
(***************************************************************************)
EXTENDS SignedOperations

CONSTANTS
  LocalOperators,   (* pairs of an owner and an operator it trusts         *)
  GlobalOperators,
  SpecialTraders    (* auto traders only global operators may trade with   *)

ASSUME ProxyAssumption ==
  /\ LocalOperators \subseteq Owners \X Owners
  /\ GlobalOperators \subseteq Owners
  /\ SpecialTraders \subseteq Contracts

EIP712_DOMAIN_HASH(network) == getDomainHash(network, Proxy[network])

-----------------------------------------------------------------------------
(* Hashes of what a transaction holds *)

(* The account layout of Actions.sol.                                      *)
OnePrimary(type) == type \notin {"Transfer", "Trade", "Liquidate", "Vaporize"}

ProxyActionHash(a, primary, secondary) ==
  [actionType |-> a.actionType, primary |-> primary, amount |-> a.amount,
   markets |-> <<a.primaryMarketId, a.secondaryMarketId>>,
   otherAddress |-> a.otherAddress, secondary |-> secondary, data |-> a.data]

(* Array accesses out of bounds revert.                                    *)
InBounds(accounts, actions, first, count) ==
  \A i \in first..(first + count - 1) :
    /\ i \in DOMAIN actions
    /\ actions[i].accountId < Len(accounts)
    /\ OnePrimary(actions[i].actionType) \/ actions[i].otherAccountId < Len(accounts)

ProxyOperationHash(network, accounts, actions, auth, first) ==
  LET Encoded(a) ==
        ProxyActionHash(a, accounts[a.accountId + 1],
          IF OnePrimary(a.actionType) THEN NullAccount
          ELSE accounts[a.otherAccountId + 1])
  IN  getEIP712Hash(EIP712_DOMAIN_HASH(network), "Operation",
        [actions |-> [i \in 1..auth.numActions |-> Encoded(actions[first + i - 1])],
         header |-> auth.header])

(* ecrecover takes no v but 27 and 28.                                     *)
Recover(hash, sig) ==
  IF sig.low THEN ZERO ELSE ecRecoverTypedSignature(hash, sig)

-----------------------------------------------------------------------------
(* operate *)

(* The first action an authorization covers.                               *)
FirstOf(auths, i) ==
  1 + FoldLeft(LAMBDA n, auth : n + auth.numActions, 0, SubSeq(auths, 1, i - 1))

IsSigned(auth) == auth.signature # <<>>
HashOf(network, tx, i) ==
  ProxyOperationHash(network, tx.accounts, tx.actions, tx.auths[i], FirstOf(tx.auths, i))

(* Mutant: an expiration is not checked.                                   *)
MutantHeaderAccepted(auth, sender, now) == auth.header.sender \in {ZERO, sender}

HeaderAccepted(auth, sender, now) ==
  /\ auth.header.expiration = 0 \/ auth.header.expiration >= now
  /\ auth.header.sender \in {ZERO, sender}

SignerOf(network, tx, i) ==
  IF IsSigned(tx.auths[i])
  THEN Recover(HashOf(network, tx, i), tx.auths[i].signature)
  ELSE tx.sender

SignatureAccepted(network, tx, i) ==
  IsSigned(tx.auths[i])
    => SignerOf(network, tx, i) = tx.auths[i].header.signer

(* Mutant: only hashes of earlier transactions are looked up.              *)
MutantUnused(storage, network, tx, i) ==
  IsSigned(tx.auths[i]) => HashOf(network, tx, i) \notin storage.invalidated

(* Not used or cancelled before, nor by an earlier authorization of the    *)
(* same transaction.                                                       *)
Unused(storage, network, tx, i) ==
  IsSigned(tx.auths[i]) =>
    /\ HashOf(network, tx, i) \notin storage.invalidated
    /\ \A j \in 1..(i - 1) :
         IsSigned(tx.auths[j]) => HashOf(network, tx, j) # HashOf(network, tx, i)

validateAccountOwner(owner, signer, sender) ==
  \/ owner \in {sender, signer}
  \/ {<<owner, sender>>, <<owner, signer>>} \cap LocalOperators # {}

ActionAccepted(tx, a, signer) ==
  /\ validateAccountOwner(tx.accounts[a.accountId + 1].owner, signer, tx.sender)
  /\ a.actionType = "Transfer"
       => validateAccountOwner(tx.accounts[a.otherAccountId + 1].owner, signer, tx.sender)
  /\ a.actionType # "Liquidate"
  /\ a.actionType = "Trade" /\ a.otherAddress \in SpecialTraders
       => tx.sender \in GlobalOperators

AuthAccepted(storage, network, tx, i, now) ==
  LET first == FirstOf(tx.auths, i)   count == tx.auths[i].numActions
  IN  /\ HeaderAccepted(tx.auths[i], tx.sender, now)
      /\ InBounds(tx.accounts, tx.actions, first, count)
      /\ SignatureAccepted(network, tx, i)
      /\ Unused(storage, network, tx, i)
      /\ \A k \in first..(first + count - 1) :
           ActionAccepted(tx, tx.actions[k], SignerOf(network, tx, i))

AllCovered(tx) == FirstOf(tx.auths, Len(tx.auths) + 1) = Len(tx.actions) + 1

OperateAccepted(storage, network, tx, now) ==
  /\ storage.operational
  /\ \A i \in DOMAIN tx.auths : AuthAccepted(storage, network, tx, i, now)
  /\ AllCovered(tx)

SignedHashes(network, tx) ==
  {HashOf(network, tx, i) : i \in {j \in DOMAIN tx.auths : IsSigned(tx.auths[j])}}

Operated(storage, network, tx) ==
  [storage EXCEPT !.invalidated = @ \cup SignedHashes(network, tx)]

-----------------------------------------------------------------------------
(* cancel *)

CancelHash(network, tx) ==
  ProxyOperationHash(network, tx.accounts, tx.actions, tx.auths[1], 1)

CancelAccepted(tx) ==
  /\ InBounds(tx.accounts, tx.actions, 1, tx.auths[1].numActions)
  /\ tx.auths[1].header.signer = tx.sender

Cancelled(storage, network, tx) ==
  [storage EXCEPT !.invalidated = @ \cup {CancelHash(network, tx)}]
=============================================================================
