----------------------------- MODULE SignedFlow -----------------------------
(***************************************************************************)
(* Signed operations from the client that makes them to the proxy that     *)
(* runs them. Owners sign operations; relayers put signed operations, and  *)
(* actions of their own, into batches and send them; signers cancel. One   *)
(* client library serves them all, and may be moved to another network. On *)
(* each network the proxy's owner stops and starts it, time passes,        *)
(* transactions are included in any order, and DolomiteMargin may revert   *)
(* any operation.                                                          *)
(***************************************************************************)
EXTENDS SignedOperationProxy

CONSTANTS
  Relayers,        (* the owners that also send batches                    *)
  Offers,          (* what owners sign: a "draft", a sequence of builder   *)
                   (* items, and a "header" for createSignableOperation    *)
  Methods,         (* the signing methods used                             *)
  OwnItems,        (* for each relayer, items it adds itself               *)
  FirstNetwork,    (* the network the client is made for                   *)
  MaxTime,         (* bounds: the clock, the operations that are signed,   *)
  MaxSigned,       (* the actions of a batch, the transactions under way   *)
  MaxActions,
  MaxPending

ASSUME FlowAssumption ==
  /\ Relayers \subseteq Owners
  /\ FirstNetwork \in Networks
  /\ \A offer \in Offers :
       /\ offer.draft \in Seq({x \in ToSet(offer.draft) : IsItem(x)})
       /\ offer.header \in OperationHeader
  /\ \A r \in Relayers : \A x \in OwnItems[r] : IsItem(x)
  /\ Methods \subseteq SigningMethod
  /\ MaxTime \in Nat /\ MaxSigned \in Nat /\ MaxActions \in Nat
  /\ MaxPending \in Nat

VARIABLES
  network,      (* the network of the client's provider: Contracts follows *)
                (* setProvider ...                                         *)
  networkId,    (* ... the networkId of SignedOperations and WalletLogin   *)
                (* does not                                                *)
  signed,       (* the signed operations that exist                        *)
  batch,        (* the operation each relayer is building                  *)
  pending,      (* transactions sent and not yet included                  *)
  now,          (* the time, on every network                              *)
  chain,        (* per network: the proxy's storage                        *)
  ended         (* history: the hashes executed or cancelled, per network  *)

vars == <<network, networkId, signed, batch, pending, now, chain, ended>>

NewBatch == Initiate(ProxyType.Signed, ZERO)

Init ==
  /\ network = FirstNetwork
  /\ networkId = FirstNetwork
  /\ signed = {}
  /\ batch = [r \in Relayers |-> NewBatch]
  /\ pending = {}
  /\ chain = [n \in Networks |-> [operational |-> TRUE, invalidated |-> {}]]
  /\ now = 1
  /\ ended = [n \in Networks |-> {}]

(* The domain the client signs for, and the one of the proxy it talks to.  *)
ClientDomain == getDomainHash(networkId, Proxy[network])

-----------------------------------------------------------------------------
(* The owners *)

Drafted(draft) == FoldLeft(Build, Initiate(ProxyType.None, ZERO), draft)

(* createSignableOperation and signOperation.                              *)
Sign(offer, method) ==
  LET op        == Drafted(offer.draft)
      operation == createSignableOperation(op, offer.header)
  IN  /\ Cardinality(signed) < MaxSigned
      /\ MaySign(op)
      /\ operation.header.signer \in Owners
      /\ signed' = signed \cup
           {Over(operation, [signature |-> signOperation(ClientDomain, operation, method),
                             domain |-> ClientDomain])}
      /\ UNCHANGED <<network, networkId, batch, pending, now, chain, ended>>

(* cancelOperation, sent by the operation's signer.                        *)
CancelOperation(s) ==
  LET args == cancelOperation(s)
  IN  /\ Cardinality(pending) < MaxPending
      /\ pending' = pending \cup
           {[kind |-> "cancel", network |-> network, sender |-> s.header.signer,
             accounts |-> args.accounts, actions |-> args.actions, auths |-> <<args.auth>>,
             operation |-> s]}
      /\ UNCHANGED <<network, networkId, signed, batch, now, chain, ended>>

-----------------------------------------------------------------------------
(* The relayers *)

AddSigned(r, s) ==
  /\ MayAddSigned(batch[r])
  /\ Len(batch[r].actions) + Len(s.actions) <= MaxActions
  /\ batch' = [batch EXCEPT ![r] = addSignedOperation(@, s)]
  /\ UNCHANGED <<network, networkId, signed, pending, now, chain, ended>>

AddOwn(r, x) ==
  /\ Len(batch[r].actions) < MaxActions
  /\ batch' = [batch EXCEPT ![r] = Build(@, x)]
  /\ UNCHANGED <<network, networkId, signed, pending, now, chain, ended>>

(* commit of a batch, which is then set aside for a new one.               *)
Commit(r) ==
  LET op == batch[r]
  IN  /\ op.actions # <<>>
      /\ Cardinality(pending) < MaxPending
      /\ pending' = pending \cup
           {[kind |-> "operate", network |-> network, sender |-> r,
             accounts |-> op.accounts, actions |-> op.actions,
             auths |-> GenerateAuthData(op)]}
      /\ batch' = [batch EXCEPT ![r] = NewBatch]
      /\ UNCHANGED <<network, networkId, signed, now, chain, ended>>

-----------------------------------------------------------------------------
(* The chain *)

Run(tx) ==
  LET n == tx.network
  IN  /\ tx.kind = "operate"
      /\ OperateAccepted(chain[n], n, tx, now)
      /\ chain' = [chain EXCEPT ![n] = Operated(@, n, tx)]
      /\ pending' = pending \ {tx}
      /\ ended' = [ended EXCEPT ![n] = @ \cup SignedHashes(n, tx)]
      /\ UNCHANGED <<network, networkId, signed, batch, now>>

Cancel(tx) ==
  LET n == tx.network
  IN  /\ tx.kind = "cancel"
      /\ CancelAccepted(tx)
      /\ chain' = [chain EXCEPT ![n] = Cancelled(@, n, tx)]
      /\ pending' = pending \ {tx}
      /\ ended' = [ended EXCEPT ![n] = @ \cup {CancelHash(n, tx)}]
      /\ UNCHANGED <<network, networkId, signed, batch, now>>

(* The proxy or DolomiteMargin reverts, or the transaction is dropped.     *)
Fail(tx) ==
  /\ pending' = pending \ {tx}
  /\ UNCHANGED <<network, networkId, signed, batch, now, chain, ended>>

SetOperational(n, operational) ==
  /\ chain[n].operational # operational
  /\ chain' = [chain EXCEPT ![n].operational = operational]
  /\ UNCHANGED <<network, networkId, signed, batch, pending, now, ended>>

Tick ==
  /\ now < MaxTime
  /\ now' = now + 1
  /\ UNCHANGED <<network, networkId, signed, batch, pending, chain, ended>>

(* DolomiteMargin.setProvider.                                             *)
SetProvider(n) ==
  /\ n # network
  /\ network' = n
  /\ UNCHANGED <<networkId, signed, batch, pending, now, chain, ended>>

Next ==
  \/ \E offer \in Offers, method \in Methods : Sign(offer, method)
  \/ \E s \in signed : CancelOperation(s)
  \/ \E r \in Relayers : (\E s \in signed : AddSigned(r, s)) \/ Commit(r)
  \/ \E r \in Relayers : \E x \in OwnItems[r] : AddOwn(r, x)
  \/ \E tx \in pending : Run(tx)
  \/ \E tx \in pending : Cancel(tx)
  \/ \E tx \in pending : Fail(tx)
  \/ Tick
  \/ \E n \in Networks : SetProvider(n) \/ \E operational \in BOOLEAN : SetOperational(n, operational)

Spec == Init /\ [][Next]_vars

-----------------------------------------------------------------------------
(* Properties *)

(* What a signature was made for: the proxy of this network.               *)
MadeFor(s, n) == s.domain = EIP712_DOMAIN_HASH(n)

(* What the client makes is well formed: what is signed has its accounts   *)
(* in full and is signed by the owner its header names, and a batch has    *)
(* each account once and actions that name places in its list.             *)
WellFormed ==
  /\ \A s \in signed :
       /\ \A i \in DOMAIN s.actions : IsAction(s.actions[i])
       /\ s.header \in OperationHeader /\ s.signature.by = s.header.signer
  /\ \A tx \in pending : tx.kind = "operate" => IsBatch(tx) /\ AllCovered(tx)

(* What the client calls valid the proxy accepts: an operation whose       *)
(* signature operationHasValidSignature confirms never fails the proxy's   *)
(* signature check in a batch, wherever it stands in it and whatever       *)
(* stands around it; batches are well formed, and their authorizations     *)
(* cover exactly their actions. (AccountOperation lists accounts once for  *)
(* all actions, rebuilds amounts from signed ones, and fills the gaps      *)
(* between authorizations; any slip changes the hash the proxy computes.)  *)
(* Operations signed for another network are outside.                      *)
ValidMeansAccepted ==
  /\ WellFormed
  /\ \A tx \in pending : tx.kind = "operate" =>
       \A i \in DOMAIN tx.auths :
         LET of == {s \in signed : s.signature = tx.auths[i].signature}
         IN  (\E s \in of : MadeFor(s, tx.network) /\ operationHasValidSignature(s.domain, s))
               => SignatureAccepted(tx.network, tx, i)

(* A signed operation runs at most once on a network, and never after it   *)
(* was cancelled there, however many batches of however many relayers hold *)
(* it, however often one batch does, and in whatever order they come.      *)
RunsAtMostOnce ==
  [][\A tx \in pending : Run(tx) =>
       /\ SignedHashes(tx.network, tx) \cap ended[tx.network] = {}
       /\ \A i, j \in DOMAIN tx.auths :
            IsSigned(tx.auths[i]) /\ IsSigned(tx.auths[j]) /\ i # j
              => HashOf(tx.network, tx, i) # HashOf(tx.network, tx, j)]_vars

(* A cancellation reaches the operation it is for: the hash the proxy      *)
(* computes from what cancelOperation sends is the one that was signed.    *)
CancelsWhatWasSigned ==
  \A tx \in pending :
    tx.kind = "cancel" /\ MadeFor(tx.operation, tx.network) =>
      /\ CancelAccepted(tx)
      /\ CancelHash(tx.network, tx) = getOperationHash(tx.operation.domain, tx.operation)

(* Authority: an action DolomiteMargin runs on an account is by its owner  *)
(* or by an operator the owner trusts, who sent the transaction or really  *)
(* signed an operation, for this network, that has this very action, with  *)
(* a header that had not expired and admits this sender.                   *)
Speaks(owner, who) == owner = who \/ <<owner, who>> \in LocalOperators

Resolved(tx, a) ==
  ProxyActionHash(a, tx.accounts[a.accountId + 1],
    IF OnePrimary(a.actionType) THEN NullAccount ELSE tx.accounts[a.otherAccountId + 1])

Authorized(tx, a, owner) ==
  \/ Speaks(owner, tx.sender)
  \/ \E s \in signed :
       /\ MadeFor(s, tx.network)
       /\ Speaks(owner, s.signature.by)
       /\ \E i \in DOMAIN s.actions : getActionHash(s.actions[i]) = Resolved(tx, a)
       /\ s.header.expiration = 0 \/ s.header.expiration >= now
       /\ s.header.sender \in {ZERO, tx.sender}

OnlyAuthorizedRuns ==
  [][\A tx \in pending : Run(tx) =>
       \A i \in DOMAIN tx.actions :
         LET a == tx.actions[i]
         IN  /\ Authorized(tx, a, tx.accounts[a.accountId + 1].owner)
             /\ a.actionType = "Transfer" =>
                  Authorized(tx, a, tx.accounts[a.otherAccountId + 1].owner)]_vars

(* What Compatibility and typed data would sign now, an operation, its     *)
(* cancellation or a login that has not expired, the client itself         *)
(* confirms, whatever the wallet prepends and however it writes v. (Hash   *)
(* and UnsafeHash ask the caller to know the wallet.)                      *)
Trustworthy == Methods \ {"Hash", "UnsafeHash"}

SignaturesVerify ==
  \A method \in Trustworthy :
    /\ \A s \in signed :
         LET hash   == getOperationHash(ClientDomain, s)
             signer == s.header.signer
         IN  /\ HasValidSignature(hash, signOperation(ClientDomain, s, method), signer)
             /\ cancelOperationByHashHasValidSignature(ClientDomain, hash,
                  signCancelOperationByHash(ClientDomain, hash, signer, method), signer)
    /\ \A owner \in Owners : \A expiration \in (now + 1)..(MaxTime + 1) :
         walletLoginIsValid(networkId, expiration,
           signLogin(networkId, expiration, owner, method, now), owner, now)
=============================================================================
