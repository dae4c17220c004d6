------------------------ MODULE SignedFlowInvariant ------------------------
(***************************************************************************)
(* The inductive invariant of SignedFlow: what is true of every operation  *)
(* that is signed, built, sent and run on the way from its signer to the   *)
(* proxy.                                                                  *)
(***************************************************************************)
EXTENDS SignedFlow

(* What a signer signs: actions with their accounts in full, a second one  *)
(* where the action has one, and a signature over just this.               *)
Signable(a) ==
  /\ IsAction(a)
  /\ a.primaryAccount \in NamedAccount
  /\ IF HasOther(a.actionType) THEN a.secondaryAccount \in NamedAccount
                               ELSE a.secondaryAccount = NullAccount

SignedSound(s) ==
  /\ IsSeq(s.actions)
  /\ \A i \in DOMAIN s.actions : Signable(s.actions[i])
  /\ s.header \in OperationHeader /\ s.header.signer \in Owners
  /\ s.signature # <<>>
  /\ s.signature.by = s.header.signer /\ s.signature.low = FALSE
  /\ \E prefix \in SIGNATURE_TYPES :
       s.signature.over = <<prefix, getOperationHash(s.domain, s)>>

-----------------------------------------------------------------------------
(* Of the operations that are signed, "of":                                *)
(*                                                                         *)
(* The actions of op that follow the first so many are those that were     *)
(* signed, wherever op lists their accounts.                               *)
Holds(op, first, s) ==
  /\ first + Len(s.actions) <= Len(op.actions)
  /\ \A j \in DOMAIN s.actions :
       Resolved(op, op.actions[first + j]) = getActionHash(s.actions[j])

Covers(of, op, auth, first) ==
  \E s \in of :
    /\ auth.header = s.header /\ auth.signature = s.signature
    /\ auth.numActions = Len(s.actions)
    /\ Holds(op, first, s)

(* Where the part of the authorization i ends.                             *)
EndOf(op, i) ==
  IF i = 0 THEN 0 ELSE op.auths[i].startIndex + op.auths[i].numActions

BatchSound(of, op) ==
  /\ IsOperation(op) /\ op.committed = FALSE
  /\ Built(op)
  /\ IsSeq(op.auths)
  /\ \A i \in DOMAIN op.auths :
       /\ op.auths[i].startIndex \in Nat /\ EndOf(op, i - 1) <= op.auths[i].startIndex
       /\ Covers(of, op, op.auths[i], op.auths[i].startIndex)

SentSound(of, tx) ==
  /\ tx.network \in Networks
  /\ tx.kind = "operate" =>
       /\ Built(tx)
       /\ IsSeq(tx.auths)
       /\ AllCovered(tx)
       /\ \A i \in DOMAIN tx.auths :
            /\ tx.auths[i].numActions \in Nat
            /\ IsSigned(tx.auths[i]) => Covers(of, tx, tx.auths[i], FirstOf(tx.auths, i) - 1)
  /\ tx.kind = "cancel" =>
       /\ tx.operation \in of
       /\ tx.sender = tx.operation.header.signer
       /\ LET args == cancelOperation(tx.operation)
          IN  tx.accounts = args.accounts /\ tx.actions = args.actions
              /\ tx.auths = <<args.auth>>

-----------------------------------------------------------------------------
(* What was executed or cancelled on a network the proxy there remembers.  *)
Remembered ==
  \A n \in Networks :
    /\ chain[n] = [operational |-> chain[n].operational,
                   invalidated |-> chain[n].invalidated]
    /\ ended[n] \subseteq chain[n].invalidated

Sound ==
  /\ network \in Networks
  /\ now \in Nat
  /\ DOMAIN batch = Relayers /\ DOMAIN chain = Networks /\ DOMAIN ended = Networks
  /\ \A s \in signed : SignedSound(s)
  /\ \A r \in Relayers : BatchSound(signed, batch[r])
  /\ \A tx \in pending : SentSound(signed, tx)
  /\ Remembered
=============================================================================
