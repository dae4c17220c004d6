----------------------- MODULE ContractCallsInvariant -----------------------
(***************************************************************************)
(* The inductive invariant of ContractCalls: what is true of every call,   *)
(* its transaction and its operation, from the moment the call begins.     *)
(***************************************************************************)
EXTENDS ContractCalls

(* A call that has begun, with the fields of NewCall.                      *)
IsTask(t) ==
  /\ t = [stage |-> t.stage, target |-> t.target, op |-> t.op, options |-> t.options,
          gas |-> t.gas, via |-> t.via, ethTo |-> t.ethTo, standard |-> t.standard,
          asked |-> t.asked, promised |-> t.promised,
          hash |-> t.hash, confirmation |-> t.confirmation, ret |-> t.ret]
  /\ t.stage \in {"new", "block", "estimate", "sent", "done"}
  /\ t.options \in CallOptionFields
  /\ t.standard \subseteq Standards

IsTx(tx) ==
  \/ tx = NoTx
  \/ /\ tx = [status |-> tx.status, network |-> tx.network, target |-> tx.target,
              from |-> tx.from, value |-> tx.value, gas |-> tx.gas, ethTo |-> tx.ethTo,
              accounts |-> tx.accounts, actions |-> tx.actions,
              confirmations |-> tx.confirmations, heard |-> tx.heard]
     /\ tx.status \in {"sent", "pooled", "refused", "mined", "reverted", "lost"}
     /\ tx.confirmations \in Nat

(* What a call has reported is so on the chain, and a call that waits for  *)
(* the node has sent nothing yet.                                          *)
Truthful(t, tx) ==
  /\ t.stage \in {"new", "block", "estimate"} => tx = NoTx /\ t.ret = "none"
  /\ t.ret = "simulated" => tx = NoTx
  /\ t.hash = "resolved" => tx.status \in {"pooled", "mined", "reverted", "lost"}
  /\ t.confirmation = "resolved" =>
       tx.status = "mined" /\ tx.confirmations >= DesiredConf(t)
  /\ t.ret = "receipt" => t.confirmation = "resolved"

(* Whether t, which commits an operation, marks it as committed.           *)
MarksIt(t) == t.target # "pair" /\ t.options.given /\ ~Simulates(t)

(* A call is of a pair, of an operation, or of an operation of its own.    *)
Belongs(c, t) ==
  IF t.target = "pair" THEN t.op = "none" /\ t.standard = {}
  ELSE \/ t.op \in Operations /\ t.standard = {}
       \/ t.op = c

(* What a call carries: a batch; the actions it promised, which the        *)
(* operation it marked still has.                                          *)
Carries(t, tx, of) ==
  /\ tx # NoTx => IsBatch(tx)
  /\ MarksIt(t) =>
       /\ of[t.op].committed /\ of[t.op].actions = t.promised
       /\ tx # NoTx => tx.actions = t.promised

(* A standard action, and the operation that is its call's own.            *)
CarriesStandard(c, t, tx, of) ==
  \A x \in t.standard :
    LET op == StandardOperation(x, t.asked)
    IN  /\ t.op = c /\ t.asked \in Networks
        /\ t.options = StandardOptions(x, x.options) /\ t.ethTo = x.owner
        /\ of[c].accounts = op.accounts /\ of[c].actions = op.actions
        /\ tx # NoTx =>
             /\ tx.accounts = op.accounts /\ tx.actions = op.actions
             /\ tx.value = t.options.value /\ tx.ethTo = t.ethTo

CallSound(c, t, tx, of) ==
  /\ IsTx(tx)
  /\ IF t.stage = "idle" THEN tx = NoTx
     ELSE /\ IsTask(t)
          /\ Truthful(t, tx)
          /\ Belongs(c, t)
          /\ Carries(t, tx, of)
          /\ CarriesStandard(c, t, tx, of)

(* An operation is marked by one call only.                                *)
MarkedOnce ==
  \A c, d \in Calls :
    /\ Begun(c) /\ MarksIt(calls[c])
    /\ Begun(d) /\ MarksIt(calls[d])
    /\ calls[c].op = calls[d].op
    => c = d

ClientSound(of) ==
  /\ of = [network |-> of.network, from |-> of.from,
           blockGasLimit |-> of.blockGasLimit, switches |-> of.switches]
  /\ of.network \in Networks

OperationsSound(of) ==
  /\ of = [o \in Operations \cup Calls |-> of[o]]
  /\ \A o \in Operations \cup Calls :
       IsOperation(of[o]) /\ Built(of[o]) /\ of[o].committed \in BOOLEAN
  /\ \A o \in Operations : of[o].proxy \in Proxies

Sound ==
  /\ ClientSound(client)
  /\ OperationsSound(ops)
  /\ calls = [c \in Calls |-> calls[c]] /\ txs = [c \in Calls |-> txs[c]]
  /\ \A c \in Calls : CallSound(c, calls[c], txs[c], ops)
  /\ MarkedOnce
=============================================================================
